SPECIFICATION FairSpec
CONSTANTS
  d1 = d1
  d2 = d2
  d3 = d3
  e1 = e1
  e2 = e2
  NoCap = NoCap
  Device <- Devices
  Endpoint <- Endpoints
  EndpointOf <- Shared
  MaxInflight <- Inflights
  Cap <- Caps
  Total = 3
  Wanted <- Wants
  RegrowAfter = 2
INVARIANTS
  WithinBudget
  NoLostWakeup
  Accounted
PROPERTIES
  Served
