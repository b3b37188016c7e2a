SPECIFICATION Spec
CONSTANTS
  a = a
  b = b
  t = t
  u = u
  d = d
  far = far
  c1 = c1
  c2 = c2
  p1 = p1
  p2 = p2
  d1 = d1
  d2 = d2
  d3 = d3
  d4 = d4
  d5 = d5
  Proc = {p1}
  Name = {a, b, t, u, d, far}
  Child = {c1, c2}
  Data = {d1, d2, d3, d4, d5}
  Device <- MCDevice
  Commands <- MCAcross
  Initial <- MCInitial
  Partial = Partial
  Absent = Absent
  MaxBackup = 0
  MaxRuns = 1
  MaxFail = 1
  MaxKill = 0
CHECK_DEADLOCK FALSE
INVARIANTS
  NothingLostAtAll
