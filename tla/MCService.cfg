SPECIFICATION FairSpec
CONSTANTS
  Requests = {"r1", "r2"}
  Kinds <- MCKinds
  SizeMax = 7
INVARIANTS TypeOK AnswersFit
PROPERTIES TellsTheTruth StopEndsService RequestsAnswered
CHECK_DEADLOCK FALSE
