SPECIFICATION PartsSpec
CONSTANTS
  s1 = s1  s2 = s2  s3 = s3
  alice = alice  bruno = bruno  carla = carla
  gpu = gpu  twin = twin  root = root  stage = stage  cell = cell  rack = rack
  User = {alice, bruno, carla}
  Fund = {}
  MaxAmount <- MCMaxAmount
  Node = {root, stage}
  MaxEpoch = 2
  Orders = {"REVOKED"}
  Session = {s1}
  Requester <- RouteRequester
  Hold <- RouteHold
  Charge = {7}
  Domain = {rack, cell}
  Slots <- RouteSlots
  Owner <- RouteOwner
  Host <- RouteHost
  Members <- RouteMembers
  Shares <- RouteShares
  Opening <- RouteOpening
  Issued <- RouteIssued
  MaxLive = 1
  Movable = {1}
  Reports = {"INVALID"}
  Manifest <- SmallManifest
  Allocation <- SmallAllocation
  MaxQuote = 3000
  MaxUsage = 7
  l1 = l1  c1 = c1  t1 = t1
  MaxBoots = 1
  Launcher = {l1}
  MaxIntents = 1
  Call = {c1}
  Permits = 1
  Room = 1
  MaxPieces = 2
  Tunnel = {t1}
  Handlers = 1
  RecipeStages = 1
  MaxFaults = 3
  ClusterWorker = {"w"}
  LabService = {"control", "route_cluster", "route_root"}
  Profile = {"PORTABLE"}
  MaxRelease = 2
  MaxOrders = 3
  MaxMishaps = 1
  Acquirer = {"fetch", "verify"}
  ArtifactSize = 2
  Attempts = 2
INVARIANTS
  ChargeWithinQuote
  SplitIsExact
  ChargedOnlyOnFullEvidence
  InstallationHolds
PROPERTIES
  CompletedUnderOneEpoch
  EndsByEvidence
  EveryoneIsReleased
  PartsEnd
  ResumeConverges
CHECK_DEADLOCK FALSE
