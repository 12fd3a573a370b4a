SPECIFICATION FairSpec
CONSTANTS
  Files = {"a", "b"}
  Items = {"x"}
  MaxChanges = 4
  Folders <- MCFolders
  FolderOf <- MCFolderOf
  Keep = {"kept"}
  Interval = 2
  Urls = {"u", "v"}
  UrlOf <- MCUrlOf
  FeedConfigs <- MCFeedConfigs
  MaxAlerts = 1
INVARIANTS TypeOK NothingLost NeverTwice
PROPERTIES UpdatesFlow FilesArrive
CHECK_DEADLOCK FALSE
