SPECIFICATION FairSpec
CONSTANTS
  r1 = r1
  r2 = r2
  MaxEvents = 2
  MaxTorrents = 1
  Requests <- OneRequest
PROPERTIES
  ShutdownCompletes
  SignalEndsProcess
  AlertsReachJs
  RequestsServed
