------------------------------ MODULE Bindings ------------------------------
(***************************************************************************)
(* The objects of libtorrent that JavaScript holds, by their names: the    *)
(* functions of each kind of object with the arguments they take off the   *)
(* stack, its properties, and what the scripts call and read.  JavaScript  *)
(* finds out at run time only: a property that is not there is undefined,  *)
(* and an argument that is missing throws in duk_require.                  *)
(***************************************************************************)
EXTENDS Naturals, TLC

\* Functions without and with arguments; addTorrent is declared with two and uses one.
Getters(names) == [n \in names |-> 0]

SessionFunctions ==
  Getters({"getAlerts", "getFeeds", "getSettings", "getStatus", "getTorrents", "pause",
           "postTorrentUpdates", "resume", "saveState", "startDht", "startLsd", "startNatPmp",
           "startUpnp", "stopDht", "stopLsd", "stopNatPmp", "stopUpnp"})
  @@ [n \in {"addFeed", "addTorrent", "findTorrent", "listenOn", "loadCountryDb", "loadState",
             "setSettings", "waitForAlert"} |-> 1]
  @@ [n \in {"addDhtRouter", "removeTorrent"} |-> 2]
SessionProperties ==
  {"LIBTORRENT_VERSION", "isDhtRunning", "isListening", "isPaused", "listenPort", "sslListenPort"}

\* metadata() takes what it gets: all, one key, or a key and its value.
HandleFunctions ==
  Getters({"clearError", "flushCache", "forceRecheck", "getFilePriorities", "getFileProgress",
           "getPeers", "getStatus", "getTorrentInfo", "getTrackers", "metadata", "pause",
           "queueBottom", "queueDown", "queueTop", "queueUp", "resume", "saveResumeData"})
  @@ [n \in {"havePiece", "moveStorage", "readPiece", "setPriority"} |-> 1]
  @@ [n \in {"renameFile", "setFilePriority"} |-> 2]
HandleProperties ==
  {"infoHash", "isValid", "queuePosition", "autoManaged", "downloadLimit", "maxConnections",
   "maxUploads", "resolveCountries", "sequentialDownload", "superSeed", "uploadMode",
   "uploadLimit"}

StatusProperties ==
  {"torrent", "autoManaged", "error", "name", "eta", "addedTime", "completedTime",
   "currentTracker", "progress", "savePath", "downloadRate", "uploadRate", "downloadedBytes",
   "downloadedBytesTotal", "failedBytes", "redundantBytes", "uploadedBytes",
   "uploadedBytesTotal", "numPeers", "numSeeds", "numComplete", "numIncomplete", "ratio",
   "state", "isFinished", "isMovingStorage", "isPaused", "isSeeding", "isSequentialDownload",
   "hasMetadata", "needSaveResume", "listSeeds", "listPeers", "distributedCopies",
   "wantedBytes", "seedingTime"}
PeerProperties ==
  {"id", "flags", "country", "ip", "port", "connectionType", "client", "progress",
   "downloadRate", "downloadRateRemote", "uploadRate", "downloadedBytes", "uploadedBytes",
   "lastActive", "lastRequest", "downloadQueueLength", "uploadQueueLength", "numHashFails",
   "source"}
TrackerProperties ==
  {"failCount", "failLimit", "isUpdating", "isVerified", "lastError", "message", "minAnnounce",
   "nextAnnounce", "scrapeComplete", "scrapeDownloaded", "scrapeIncomplete", "source", "tier",
   "url"}
InfoProperties == {"comment", "creationDate", "creator", "infoHash", "name", "totalSize"}
FileProperties == {"path", "size"}
SettingsProperties ==
  {"userAgent", "trackerCompletionTimeout", "trackerReceiveTimeout", "stopTrackerTimeout",
   "trackerMaximumResponseLength", "pieceTimeout", "requestTimeout", "requestQueueTime",
   "maxAllowedInRequestQueue", "maxOutRequestQueue", "wholePiecesThreshold", "peerTimeout",
   "urlSeedTimeout", "urlSeedPipelineSize", "allowMultipleConnectionsPerIp",
   "downloadRateLimit", "uploadRateLimit", "rateLimitIpOverhead", "rateLimitUtp",
   "connectionsLimit", "mixedModeAlgorithm", "halfOpenLimit", "anonymousMode",
   "activeDownloads", "activeSeeds", "activeLimit", "dontCountSlowTorrents"}
ParamsProperties ==
  {"metadata", "filePriorities", "flags", "resumeData", "savePath", "sparseMode", "torrent",
   "trackers", "url"}
FeedSettingsProperties == {"url", "ttl", "autoDownload"}
FeedStatusProperties == {"description", "lastUpdate", "nextUpdate", "isUpdating", "url", "title"}
ItemProperties == {"url", "uuid", "title", "description", "comment", "category", "size"}
ErrorProperties == {"message", "value"}

\* By kind of object.
Given ==
  "session" :> SessionProperties @@ "handle" :> HandleProperties @@ "status" :> StatusProperties
  @@ "peer" :> PeerProperties @@ "tracker" :> TrackerProperties @@ "info" :> InfoProperties
  @@ "file" :> FileProperties @@ "settings" :> SettingsProperties
  @@ "params" :> ParamsProperties @@ "feedSettings" :> FeedSettingsProperties
  @@ "feedStatus" :> FeedStatusProperties @@ "item" :> ItemProperties
  @@ "error" :> ErrorProperties
Functions ==
  "session" :> SessionFunctions @@ "handle" :> HandleFunctions
  @@ "feed" :> [getStatus |-> 0, getSettings |-> 0, setSettings |-> 1, updateFeed |-> 0]
  @@ "feedStatus" :> [getItems |-> 0] @@ "info" :> [getFiles |-> 0]
  @@ "creator" :> [generate |-> 0]

\* What core.js, rss.js and bittorrent.js, the methods in rpc/, and the plugins read or write ...
CoreUses ==
  "handle" :> {"infoHash", "isValid", "autoManaged"}
  @@ "status" :> {"hasMetadata", "needSaveResume", "isFinished", "isPaused", "name", "ratio",
                  "seedingTime", "torrent"}
  @@ "info" :> {"name"} @@ "error" :> {"message", "code"}
  @@ "params" :> {"metadata", "resumeData", "torrent"}
  @@ "settings" :> {"connectionsLimit", "downloadRateLimit", "mixedModeAlgorithm",
                    "rateLimitIpOverhead", "rateLimitUtp", "uploadRateLimit",
                    "allowMultipleConnectionsPerIp", "anonymousMode", "enableOutgoingUtp",
                    "enableIncomingUtp", "halfOpenLimit"}
FeedUses ==
  "params" :> {"url", "savePath"} @@ "feedStatus" :> {"url"} @@ "item" :> {"url", "uuid", "title"}
  @@ "feedSettings" :> {"url", "ttl", "autoDownload"}
DefaultParams == "params" :> {"flags", "savePath", "sparseMode"}
ListUses ==
  "handle" :> {"infoHash"} @@ "info" :> {"totalSize"}
  @@ "status" :> {"isPaused", "state", "error", "autoManaged", "name", "progress",
                  "downloadedBytesTotal", "uploadedBytesTotal", "ratio", "uploadRate",
                  "downloadRate", "eta", "numPeers", "numSeeds", "listPeers", "listSeeds",
                  "distributedCopies", "queuePosition", "wantedBytes", "addedTime",
                  "completedTime", "savePath"}
PeersUses ==
  "handle" :> {"isValid"}
  @@ "peer" :> {"flags", "source", "country", "ip", "port", "client", "progress",
                "downloadRate", "uploadRate", "downloadQueueLength", "uploadQueueLength",
                "uploadedBytes", "downloadedBytes", "numHashFails", "lastActive"}
FilesUses == "handle" :> {"isValid"} @@ "file" :> {"path", "size"}
PriorityUses == "handle" :> {"isValid"} @@ "status" :> {"isSeeding", "isFinished", "name"}
GetPropertiesUses ==
  "handle" :> {"isValid", "infoHash", "autoManaged", "uploadLimit", "downloadLimit",
               "superSeed", "maxUploads"}
  @@ "status" :> {"savePath"} @@ "tracker" :> {"tier", "url"}
SetPropertiesUses ==
  "handle" :> {"isValid", "autoManaged", "downloadLimit", "superSeed", "uploadLimit", "maxUploads"}
PerformUses == "handle" :> {"isValid", "autoManaged"} @@ "status" :> {"hasMetadata", "isPaused"}
AddUses ==
  "params" :> {"torrent", "url", "filePriorities", "flags", "savePath", "trackers", "metadata"}
SettingsUses ==
  "session" :> {"listenPort", "isDhtRunning"}
  @@ "settings" :> {"connectionsLimit", "mixedModeAlgorithm", "downloadRateLimit",
                    "uploadRateLimit", "rateLimitIpOverhead", "rateLimitUtp",
                    "allowMultipleConnectionsPerIp", "anonymousMode", "halfOpenLimit",
                    "activeDownloads", "activeSeeds", "activeLimit"}
SetSettingsUses ==
  "settings" :> (SettingsUses["settings"]
                 \cup {"dontCountSlowTorrents", "enableOutgoingUtp", "enableIncomingUtp"})
PluginUses ==
  "handle" :> {"infoHash", "isValid"} @@ "status" :> {"name", "savePath"} @@ "tracker" :> {"url"}
  @@ "params" :> {"torrent", "savePath", "metadata"}

Uses == {CoreUses, FeedUses, DefaultParams, ListUses, PeersUses, FilesUses, PriorityUses,
         GetPropertiesUses, SetPropertiesUses, PerformUses, AddUses, SettingsUses,
         SetSettingsUses, PluginUses}

\* ... and what they call, with as many arguments.
CoreCalls ==
  [o : {"session"}, f : {"getAlerts", "getSettings", "getTorrents", "pause", "saveState",
                         "postTorrentUpdates", "startDht", "startLsd", "startNatPmp",
                         "startUpnp"}, n : {0}]
  \cup [o : {"session"}, f : {"addTorrent", "listenOn", "loadCountryDb", "loadState",
                              "removeTorrent", "setSettings", "waitForAlert"}, n : {1}]
  \cup [o : {"session"}, f : {"addDhtRouter"}, n : {2}]
  \cup [o : {"handle"}, f : {"getStatus", "getTorrentInfo", "pause", "saveResumeData",
                             "metadata"}, n : {0}]
  \cup [o : {"creator"}, f : {"generate"}, n : {0}]
FeedCalls ==
  [o : {"session"}, f : {"addFeed", "addTorrent"}, n : {1}]
  \cup [o : {"feed"}, f : {"getStatus"}, n : {0}]
  \cup [o : {"feedStatus"}, f : {"getItems"}, n : {0}]
ReadCalls ==
  [o : {"session"}, f : {"getTorrents", "getSettings"}, n : {0}]
  \cup [o : {"session"}, f : {"findTorrent"}, n : {1}]
  \cup [o : {"handle"}, f : {"getStatus", "getTorrentInfo", "getPeers", "getTrackers",
                             "getFileProgress", "getFilePriorities"}, n : {0}]
  \cup [o : {"info"}, f : {"getFiles"}, n : {0}]
ChangeCalls ==
  [o : {"handle"}, f : {"resume", "pause", "queueBottom", "queueDown", "queueTop", "queueUp",
                        "forceRecheck"}, n : {0}]
  \cup [o : {"handle"}, f : {"moveStorage"}, n : {1}]
  \cup [o : {"handle"}, f : {"setFilePriority"}, n : {2}]
  \cup [o : {"session"}, f : {"removeTorrent"}, n : {2}]
  \cup [o : {"session"}, f : {"addTorrent", "listenOn", "setSettings"}, n : {1}]
  \cup [o : {"session"}, f : {"getSettings", "startDht", "stopDht", "startLsd", "stopLsd",
                              "startNatPmp", "stopNatPmp", "startUpnp", "stopUpnp"}, n : {0}]
PluginCalls ==
  [o : {"handle"}, f : {"getStatus", "getTrackers", "metadata"}, n : {0}]
  \cup [o : {"handle"}, f : {"moveStorage"}, n : {1}]
  \cup [o : {"session"}, f : {"addTorrent"}, n : {1}]

Calls == CoreCalls \cup FeedCalls \cup ReadCalls \cup ChangeCalls \cup PluginCalls

\* What is read in vain, and the calls that throw at once for want of an argument.
Undefined == UNION {UNION {{o} \X (u[o] \ Given[o]) : o \in DOMAIN u} : u \in Uses}
Throwing == {c \in Calls : c.f \notin DOMAIN Functions[c.o] \/ c.n < Functions[c.o][c.f]}
=============================================================================
