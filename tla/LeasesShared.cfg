SPECIFICATION MCSpec
CONSTANTS
  l1 = l1  l2 = l2
  alice = alice  bruno = bruno  carla = carla
  gpu = gpu  root = root  stage = stage  cell = cell  rack = rack
  Restarted = {}
  User = {alice, bruno}
  Fund = {l1, l2}
  MaxAmount <- MCMaxAmount
  Node = {gpu, root, stage}
  MaxEpoch = 1
  Orders = {}
  Domain = {rack, cell}
  Owner <- SharedOwner
  Host <- SharedHost
  Members <- SharedMembers
  Shares <- SharedShares
  MaxRoutes = 1
  Lease = {l1, l2}
  Sponsor <- SharedSponsor
  Backed <- SharedBacked
  Duration <- SharedDuration
  Rate <- SharedRate
  Second = 1
  MaxGap = 1
  MaxOpen = 2
  Funds <- SharedFunds
  MaxClock = 3
  Wavering = {stage}
  Amended = TRUE
  SetBack = FALSE
INVARIANTS
  ClaimsMatchLeases
  DomainPaidOnce
PROPERTIES
  AcceptedWindowPreserved
  LeavingForfeitsOnlyTheFuture
CHECK_DEADLOCK FALSE
