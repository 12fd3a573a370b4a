SPECIFICATION Spec
CONSTANTS
  r1 = r1
  r2 = r2
  MaxEvents = 2
  MaxTorrents = 2
  Requests <- TwoRequests
INVARIANTS
  TypeOK
  CtxExclusive
  QuietUnload
  BadConfigKept
  AnswersReachUnload
  NumIsExact
PROPERTIES
  StopGoesOn
  KeepsContract
