SPECIFICATION Spec
CONSTANTS
  d1 = d1
  d2 = d2
  NoDevice = NoDevice
  Device <- Both
  Configs <- OneOrBoth
  Polled <- First
  Pushed <- Second
  PushOnly <- Second
  HasReader = TRUE
  HasReconnect = TRUE
  HasCheck = TRUE
  Heartbeats = TRUE
  Stops = TRUE
  MaxFaults = 1
  MaxRequests = 1
INVARIANTS
  IndexesCurrent Quiesced ExclusiveUse DeliveryPath PushKept
