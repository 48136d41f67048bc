SPECIFICATION FairSpec
INVARIANTS TypeOK PageIsRelay FlagsTellTheRest WalkIsComplete WalkAdvances
PROPERTY Terminates
CHECK_DEADLOCK FALSE
CONSTANTS
  Entity = {1, 2, 3}
  Value = {1, 2}
  None = None
  Gone = Gone
  Limits = {0, 1, 2, 3}
  MaxLimit = 2
