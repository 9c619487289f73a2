SPECIFICATION FairSpec
CONSTANTS
  Device = {"d1"}
  Cap = 1
  InCap = 1
  Inflight = 1
  MaxChanges = 1
  MaxCommands = 2
  MaxDrops = 1

CHECK_DEADLOCK FALSE
PROPERTY LoopGoesOn
