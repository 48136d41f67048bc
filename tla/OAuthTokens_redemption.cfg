SPECIFICATION Spec
SYMMETRY Symmetry
INVARIANTS TypeOK RedeemedIsSpent ForksBounded
CHECK_DEADLOCK FALSE
CONSTANTS
  u1 = u1
  u2 = u2
  c1 = c1
  r1 = r1
  r2 = r2
  e1 = e1
  e2 = e2
  User = {u1}
  NoUser = NoUser
  Client = {c1}
  DefaultUser <- MCDefaultUser
  Enabled = {"authorize", "auth_code", "refresh"}
  Deletable = {}
  Request = {r1, r2}
  Editor = {}
  AccessTTL = 1
  RefreshTTL = 2
  CodeTTL = 1
  CronBatch = 0
  MaxToken = 7
  MaxTime = 0
