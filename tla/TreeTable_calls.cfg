SPECIFICATION Spec
INVARIANTS TypeOK TreeIsForest ChildrenAgree RowsBelow SubtreesTogether
INVARIANTS ShownIffOpen Rendered ExpandAllShowsAll RevealShows
CONSTRAINT NotStrayed
CONSTANTS
  Id = {1, 2, 3, 4, 5}
  None = None
  Tables <- MCTables
  Batches <- MCBatches
  BranchRows = {5}
  Settings <- MCSettings
  SortKeys <- MCSortKeys
  MaxEdits = 2
  MaxWorn = 0
