SPECIFICATION FairSpec
CONSTANTS
  MaxSlow = 2
  MaxCalls = 2
  Operation = 3
  Stall = 17
  Period = 2
  Inline = FALSE
  Subscribes = TRUE
INVARIANTS
  AlarmInTime
PROPERTIES
  HangsOnly
