SPECIFICATION MCSpec
CONSTANTS
  bruno = bruno  carla = carla
  root = root  stage = stage  spare = spare  cell = cell  rack = rack
  j1 = j1  j2 = j2  p1 = p1  p2 = p2  p3 = p3
  User = {bruno, carla}
  Fund = {}
  MaxAmount = 0
  Node = {root, stage, spare}
  MaxEpoch = 2
  Orders = {"REVOKED"}
  Domain = {rack, cell}
  Owner <- TwoOwner
  Host <- TwoHost
  Members <- TwoMembers
  Shares <- TwoShares
  MaxRoutes = 2
  None = None
  Guarded = stage
  Bound = 1
  LeaseSpan = 1
  RootSpan = 2
  Wait = 1
  MaxTick = 3
  MaxLinks = 2
  MaxBehind = 2
  Job = {j1, j2}
  MaxCommands = 1
  StartupCommands = 1
  MaxPrepares = 2
  Pointer = {p1, p2, p3}
  Budget = 5
  Reserve = 1
  Installed = 7
  MaxBuffers = 2
  l1 = l1  l2 = l2  c1 = c1  c2 = c2  t1 = t1  t2 = t2
  MaxBoots = 2
  Launcher = {l1, l2}
  MaxIntents = 2
  Call = {c1, c2}
  Permits = 1
  Room = 1
  MaxPieces = 1
  Tunnel = {t1, t2}
  Handlers = 2
INVARIANTS
  ReadinessFades
  RoutesHold
  EvidenceHolds
  LendsWithinTerms
  ProcessesHold
  
PROPERTIES
  StartsAreLawful
  
CHECK_DEADLOCK FALSE
