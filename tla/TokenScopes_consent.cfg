SPECIFICATION Spec
SYMMETRY Symmetry
INVARIANTS TypeOK ConsentFirst GrantedOnce FreshTokensFit
CONSTANTS
  u1 = u1
  u2 = u2
  c1 = c1
  c2 = c2
  r1 = r1
  r2 = r2
  w1 = w1
  w2 = w2
  e1 = e1
  User = {u1}
  Client = {c1}
  Role = {r1, r2}
  ThirdParty = {c1}
  NoUser = NoUser
  DefaultUser <- MCDefaultUser
  Asks = {{r1}, {r1, r2}}
  UserRoles = {{r1}, {r1, r2}}
  ClientRoles = {{}, {r2}}
  Worker = {w1, w2}
  Editor = {e1}
  MaxTokens = 2
