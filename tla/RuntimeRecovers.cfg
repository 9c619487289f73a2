SPECIFICATION FairSpec
CONSTANTS
  d1 = d1
  d2 = d2
  NoDevice = NoDevice
  Device <- First
  Configs <- JustOne
  Polled <- First
  Pushed <- First
  PushOnly <- None
  HasReader = FALSE
  HasReconnect = FALSE
  HasCheck = TRUE
  Heartbeats = TRUE
  Stops = FALSE
  MaxFaults = 2
  MaxRequests = 1
PROPERTIES
  Recovers
