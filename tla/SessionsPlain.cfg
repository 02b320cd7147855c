SPECIFICATION PlainSpec
CONSTANTS
  s1 = s1  s2 = s2  s3 = s3
  alice = alice  bruno = bruno  carla = carla
  gpu = gpu  twin = twin  root = root  stage = stage  cell = cell  rack = rack
  User = {alice, bruno}
  Fund = {}
  MaxAmount <- MCMaxAmount
  Node = {gpu, twin}
  MaxEpoch = 1
  Orders = {}
  Session = {s1, s2, s3}
  Requester <- PlainRequester
  Hold <- PlainHold
  Charge = {5}
  Domain = {rack}
  Slots <- PlainSlots
  Owner <- PlainOwner
  Host <- PlainHost
  Members <- PlainMembers
  Shares <- PlainShares
  Opening <- PlainOpening
  Issued <- PlainIssued
  MaxLive = 2
  Movable = {}
  Reports = {"FAILED"}
  MaxStarts = 2
  Skew = 1
  Retention = 2
INVARIANTS
  SessionsInv
  BooksMatchSessions
  SlotsRespected
  HandledOnce
  EpochNamesOneProcess

  
SYMMETRY Alike
CHECK_DEADLOCK FALSE
