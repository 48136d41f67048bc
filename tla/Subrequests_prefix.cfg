SPECIFICATION Spec
INVARIANT TokensReadTheirRequest
CHECK_DEADLOCK FALSE
CONSTANTS
  a = a
  b = b
  c = c
  d = d
  Id = {a, b, c, d}
  Root = Root
  Contains <- Prefix
  Blueprints <- MCBlueprints
  MaxValues = 2
