SPECIFICATION Spec
INVARIANT SweptAreGone
PROPERTIES TokensFollowLifecycle RefreshOutlivesUpdates
CHECK_DEADLOCK FALSE
CONSTANTS
  u1 = u1
  u2 = u2
  c1 = c1
  r1 = r1
  r2 = r2
  e1 = e1
  e2 = e2
  User = {u1, u2}
  NoUser = NoUser
  Client = {c1}
  DefaultUser <- MCDefaultUser
  Enabled = {"client_credentials", "password", "refresh", "resource"}
  Deletable = {u1, c1}
  Request = {r1}
  Editor = {e1}
  AccessTTL = 1
  RefreshTTL = 0
  CodeTTL = 1
  CronBatch = 1
  MaxToken = 2
  MaxTime = 1
