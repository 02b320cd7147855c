SPECIFICATION MCFairSpec
CONSTANTS
  l1 = l1  l2 = l2
  alice = alice  bruno = bruno  carla = carla
  gpu = gpu  root = root  stage = stage  cell = cell  rack = rack
  Restarted = {root, stage}
  User = {alice, bruno, carla}
  Fund = {l1}
  MaxAmount <- MCMaxAmount
  Node = {root, stage}
  MaxEpoch = 2
  Orders = {}
  Domain = {rack, cell}
  Owner <- RouteOwner
  Host <- RouteHost
  Members <- RouteMembers
  Shares <- RouteShares
  MaxRoutes = 1
  Lease = {l1}
  Sponsor <- RouteSponsor
  Backed <- RouteBacked
  Duration <- RouteDuration
  Rate <- RouteRate
  Second = 1
  MaxGap = 1
  MaxOpen = 1
  Funds <- RouteFunds
  MaxClock = 3
  Wavering = {stage}
  Amended = FALSE
  SetBack = FALSE
PROPERTIES
  EveryLeaseCloses
CHECK_DEADLOCK FALSE
