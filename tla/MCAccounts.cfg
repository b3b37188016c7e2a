SPECIFICATION Spec
CONSTANTS
  Proc = {p1, p2}
  root = root
  users = users
  alice = alice
  bob = bob
  h1 = h1
  Name = {root, users, alice, bob}
  Hash = {h1}
  UserIds = {1000, 1001, 1002}
  SystemIds = {998, 999}
  UsersGid = 100
  Ops <- MCOps
  Initial <- MCInitial
  Absent = Absent
  NoHash = NoHash
  Nobody = Nobody
  NoName = NoName
  NoId = NoId
  MaxOps = 3
  MaxKill = 1
  MaxLoss = 1
SYMMETRY MCSymmetry
CHECK_DEADLOCK FALSE
INVARIANTS
  AccountsComplete
  IdsUnique
  SuccessKept
  NoOrphanHome
PROPERTIES
  StoreSpec
