CONSTANTS
  Kinds <- MCKinds
  NumNodes = 3
  Edges <- MCEdges
  BatchSizes = {2}
  Leftovers <- MCLeftovers
  WipeBatch = 7
  WipeFloor = 2
  MaxIndexes = 2
  Sizes <- MCSizes
  Repeats = 2
SPECIFICATION Spec
INVARIANTS
  TypeOK
  OnlyThisGraph
  CleanLoadIsComplete
  RowsAreStored
  SelfCheckTells
  IndexesAccounted
  SweepReported
PROPERTIES
  SweepEnds
