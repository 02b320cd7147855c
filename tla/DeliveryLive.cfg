SPECIFICATION LaterSpec
CONSTANTS
  s1 = s1  s2 = s2
  alice = alice  bruno = bruno  gpu = gpu  rack = rack
  User = {alice, bruno}
  Fund = {}
  MaxAmount <- MCMaxAmount
  Node = {gpu}
  MaxEpoch = 2
  Orders = {}
  Session = {s1, s2}
  Requester <- TwoRequester
  Hold <- TwoHold
  Charge = {3}
  Domain = {rack}
  Slots <- TwoSlots
  Owner <- MCOwner
  Host <- MCHost
  Members <- MCMembers
  Shares <- MCShares
  Opening <- MCOpening
  Issued <- MCIssued
  MaxLive = 2
  Movable = {}
  Reports = {"FAILED"}
  Directory <- TwoDirectory
  DiskFails = FALSE
PROPERTIES
  NothingStaysBehind
CHECK_DEADLOCK FALSE
