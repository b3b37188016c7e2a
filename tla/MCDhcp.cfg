SPECIFICATION Spec
CONSTANTS
  c1 = c1
  c2 = c2
  s1 = s1
  s2 = s2
  x = x
  y = y
  g1 = g1
  g2 = g2
  n1 = n1
  Nobody = Nobody
  Client = {c1, c2}
  Server = {s1, s2}
  Address = {x, y}
  Pool <- MCPool
  Value = {g1, g2, n1}
  Router <- MCRouter
  Resolver <- MCResolver
  Xid = {1}
  Attempts = 2
  MaxRuns = 2
  MaxFail = 1
  MaxKill = 1
CHECK_DEADLOCK FALSE
INVARIANTS
  Exclusive
  SuccessConfigured
PROPERTIES
  LeaseSpec
  Terminates
