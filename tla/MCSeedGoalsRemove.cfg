SPECIFICATION FairSpec
CONSTANTS
  Torrents = {t1}
  Actions = {"remove"}
  MaxCommands = 0
  MaxAlerts = 1
PROPERTY GoalRemoves
