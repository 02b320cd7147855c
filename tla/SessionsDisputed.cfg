SPECIFICATION FairSpec
CONSTANTS
  s1 = s1  s2 = s2  s3 = s3
  alice = alice  bruno = bruno  carla = carla
  gpu = gpu  twin = twin  root = root  stage = stage  cell = cell  rack = rack
  User = {alice, bruno, carla}
  Fund = {}
  MaxAmount <- MCMaxAmount
  Node = {root, stage}
  MaxEpoch = 2
  Orders = {"REVOKED"}
  Session = {s1}
  Requester <- RouteRequester
  Hold <- RouteHold
  Charge = {0, 7}
  Domain = {rack, cell}
  Slots <- RouteSlots
  Owner <- RouteOwner
  Host <- RouteHost
  Members <- RouteMembers
  Shares <- RouteShares
  Opening <- RouteOpening
  Issued <- RouteIssued
  MaxLive = 1
  Movable = {}
  Reports = {"INVALID", "FAILED"}
INVARIANT DisputedMeansFailed
CHECK_DEADLOCK FALSE
