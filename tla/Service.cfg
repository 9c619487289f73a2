SPECIFICATION FairSpec
CONSTANTS
  c1 = c1
  c2 = c2
  lib = lib
  Config <- OneConfig
  Library <- OneLibrary
  Named <- NoPaths
  Kinds <- LibOrBad
  MaxWrites = 3
  MaxHangups = 0
  MaxFailures = 1
  EarlyWrites = FALSE
  MayOverstay = FALSE
  MayStop = TRUE
INVARIANTS
  Orderly
PROPERTIES
  Settles
