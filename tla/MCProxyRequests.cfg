SPECIFICATION LiveSpec
CONSTANTS
  Request = {r1}
  a1 = a1
  a2 = a2
  Addr <- MCAddr
  Endpoint <- MixedEndpoint
  AppStatus <- MCAppStatus
  nil = nil
  none = none
  ChannelSize = 1
  MaxBacklog = 2
INVARIANTS
  LogMatchesClient
  DeliveredOnce
  
  
PROPERTIES
  GivesUpForReason
  RequestsFinish
