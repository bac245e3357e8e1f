SPECIFICATION RouteSpec
CONSTANTS
  Wsol = "WSOL"
  Mints <- MCMints
  PoolOf <- MCPools
  CandidateBudget = 4
  MaxArrays = 2
  Searches <- MCSearches
  Requests <- MCRequests
  Builds <- MCBuilds
  Ages = {1, 2}
  Rent = 50
  OwnWsol = {0, 33}
  MaxSlot = 2
  MaxEpoch = 1
INVARIANTS LandsAsPromised OwnWsolUntouched BestRoute
PROPERTY NoStaleWire
CHECK_DEADLOCK FALSE
