SPECIFICATION MCSpec
CONSTANTS
  alice = alice  bruno = bruno  carla = carla  dora = dora  erik = erik
  grp = grp  r1 = r1  r2 = r2  s1 = s1  s2 = s2  s3 = s3
  a1 = a1  a2 = a2  m1 = m1  m2 = m2  m3 = m3  m4 = m4
  home = home  shop = shop  farm = farm  os = os
  workFund = workFund  resFund = resFund  burnFund = burnFund
  NULL = NULL
  User = {alice, bruno, carla, dora, erik}
  Fund <- MCFund
  MaxAmount = 1000
  Group = {grp}
  RoutesOf <- MCRoutesOf
  ProvidersOf <- MCProvidersOf
  Rate <- MCRate
  Duration <- MCDuration
  FloorTime = 2
  WorkingTime = 4
  ReserveTime = 2
  MaxWindows = 3
  MaxOpen = 4
  Creator = alice
  Working = workFund
  Reserve = resFund
  Burn = burnFund
  Gifts = {2}
  Session = {s1, s2, s3}
  Requester <- MCRequester
  Hold <- MCHold
  Charges = {3}
  Party = {home, shop, farm}
  Declared = {os}
  Authority = {a1, a2}
  Mandate = {m1, m2, m3, m4}
  MandateLimits = {2}
  Scene = {"money", "cover", "renew", "grow", "declare"}
  Cast <- MCCast
INVARIANTS
  PoolsInv
  WindowsHold
  PermissionsHold
PROPERTIES
  MoneyInOrder
  ExpansionYields
  RenewalHappens
CHECK_DEADLOCK FALSE
