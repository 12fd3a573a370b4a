SPECIFICATION FairSpec
CONSTANTS
  Torrents = {t1, t2}
  Actions = {"pause"}
  MaxCommands = 0
  MaxAlerts = 1
PROPERTY GoalPauses
