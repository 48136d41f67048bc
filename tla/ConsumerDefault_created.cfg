SPECIFICATION Spec
INVARIANT SingleDefault
CONSTANTS
  admin = admin
  owner = owner
  c1 = c1
  c2 = c2
  c3 = c3
  c4 = c4
  Consumer = {c1, c2, c3}
  Editor = {admin}
  Allowed <- MCAllowed
  NewFlags = {FALSE, TRUE}
