SPECIFICATION FairSpec
CONSTANTS
  k1 = k1
  k2 = k2
  a1 = a1
  e1 = e1
  e2 = e2
  e3 = e3
  Key = {k1, k2}
  Address = {a1}
  Endpoint = {e1, e2, e3}
  Maps <- MCMaps
  Reach <- MCReach
  Box = Box
  NoEndpoint = NoEndpoint
  DeadAfter = 1
  RearmAfter = 1
  Attempts = 2
  Refused <- MCRefused
  Unrouted <- MCUnrouted
INVARIANTS TypeOK RevokedIsGone RouteIsPromoted
PROPERTIES FallsBack PathIsUsed
CHECK_DEADLOCK FALSE
