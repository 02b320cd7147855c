SPECIFICATION DeliverySpec
CONSTANTS
  s1 = s1  s2 = s2
  alice = alice  bruno = bruno  gpu = gpu  rack = rack
  User = {alice, bruno}
  Fund = {}
  MaxAmount <- MCMaxAmount
  Node = {gpu}
  MaxEpoch = 2
  Orders = {"PAUSED", "READY", "REVOKED"}
  Session = {s1}
  Requester <- OneRequester
  Hold <- OneHold
  Charge = {3}
  Domain = {rack}
  Slots <- MCSlots
  Owner <- MCOwner
  Host <- MCHost
  Members <- MCMembers
  Shares <- MCShares
  Opening <- MCOpening
  Issued <- MCIssued
  MaxLive = 2
  Movable = {}
  Reports = {"INVALID", "FAILED", "CANCELLED", "INTERRUPTED"}
  Directory <- OneDirectory
  DiskFails = TRUE
INVARIANTS
  BeliefsAreTrue
PROPERTIES
  ReceiptKeptUntilSettled
CHECK_DEADLOCK FALSE
