SPECIFICATION FairSpec
CONSTANTS
  Torrents = {t1}
  Actions = {"pause", "remove", "other"}
  MaxCommands = 4
  MaxAlerts = 1
INVARIANTS TypeOK GoalPauseStays RecheckKeepsPause
PROPERTIES RecheckRestores GoalPauses
