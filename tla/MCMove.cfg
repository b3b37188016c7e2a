SPECIFICATION Spec
CONSTANTS
  a = a
  b = b
  t = t
  u = u
  d = d
  far = far
  c1 = c1
  c2 = c2
  p1 = p1
  p2 = p2
  d1 = d1
  d2 = d2
  d3 = d3
  d4 = d4
  d5 = d5
  Proc = {p1, p2}
  Name = {a, b, t, u, d, far}
  Child = {c1, c2}
  Data = {d1, d2, d3, d4, d5}
  Device <- MCDevice
  Commands <- MCCommands
  Initial <- MCInitial
  Partial = Partial
  Absent = Absent
  MaxBackup = 2
  MaxRuns = 2
  MaxFail = 1
  MaxKill = 1
CHECK_DEADLOCK FALSE
INVARIANTS
  TypeOK
  NothingLost
PROPERTIES
  ReplacedWhole
