SPECIFICATION MCSpec
CONSTANTS
  l1 = l1  l2 = l2
  alice = alice  bruno = bruno  carla = carla
  gpu = gpu  root = root  stage = stage  cell = cell  rack = rack
  Restarted = {}
  User = {alice, bruno}
  Fund = {l1, l2}
  MaxAmount <- MCMaxAmount
  Node = {gpu}
  MaxEpoch = 2
  Orders = {"PAUSED", "READY"}
  Domain = {rack, cell}
  Owner <- NodeOwner
  Host <- NodeHost
  Members <- NodeMembers
  Shares <- NodeShares
  MaxRoutes = 1
  Lease = {l1, l2}
  Sponsor <- NodeSponsor
  Backed <- NodeBacked
  Duration <- NodeDuration
  Rate <- NodeRate
  Second = 1
  MaxGap = 1
  MaxOpen = 1
  Funds <- NodeFunds
  MaxClock = 3
  Wavering = {gpu}
  Amended = TRUE
  SetBack = TRUE
INVARIANTS
  LeasesInv
PROPERTIES
  LeasesAreContracts
  NoCreditAcrossRestart
CHECK_DEADLOCK FALSE
