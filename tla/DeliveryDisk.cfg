SPECIFICATION DeliverySpec
CONSTANTS
  s1 = s1  s2 = s2
  alice = alice  bruno = bruno  gpu = gpu  rack = rack
  User = {alice, bruno}
  Fund = {}
  MaxAmount <- MCMaxAmount
  Node = {gpu}
  MaxEpoch = 1
  Orders = {}
  Session = {s1, s2}
  Requester <- TwoRequester
  Hold <- TwoHold
  Charge = {3}
  Domain = {rack}
  Slots <- MCSlots
  Owner <- MCOwner
  Host <- MCHost
  Members <- MCMembers
  Shares <- MCShares
  Opening <- MCOpening
  Issued <- MCIssued
  MaxLive = 2
  Movable = {}
  Reports = {}
  Directory <- TwoDirectory
  DiskFails = TRUE
PROPERTIES
  WriteFailureBlocksAdmission
CHECK_DEADLOCK FALSE
