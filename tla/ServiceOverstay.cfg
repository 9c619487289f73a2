SPECIFICATION FairSpec
CONSTANTS
  c1 = c1
  c2 = c2
  lib = lib
  Config <- TwoConfigs
  Library <- NoPaths
  Named <- Second
  Kinds <- Moved
  MaxWrites = 1
  MaxHangups = 1
  MaxFailures = 1
  EarlyWrites = TRUE
  MayOverstay = TRUE
  MayStop = TRUE
INVARIANTS
  NoneLeft
PROPERTIES
  StopEnds
