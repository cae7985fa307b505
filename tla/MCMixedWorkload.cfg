CONSTANTS
  Clients <- MCClients
  MaxErrors = 1
  MaxOps <- MCMaxOps
  UniqueKeys = FALSE
  Partial = TRUE
  Cleanup = TRUE
  Free = Free
SPECIFICATION Spec
INVARIANTS
  TypeOK
  StartTogether
  MergesAddUp
  ResultsBacked
  WritesAccounted
  Restored
PROPERTIES
  SweepEnds
