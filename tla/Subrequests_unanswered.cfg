SPECIFICATION Spec
INVARIANT ResponsesFirst
CHECK_DEADLOCK FALSE
CONSTANTS
  a = a
  b = b
  c = c
  d = d
  Id = {a, b, c, d}
  Root = Root
  Contains <- Distinct
  Blueprints <- MCBlueprints
  MaxValues = 2
