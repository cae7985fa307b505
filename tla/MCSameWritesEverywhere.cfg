CONSTANTS
  Clients <- MCClients
  MaxErrors = 1
  MaxOps <- MCMaxOps
  UniqueKeys = TRUE
  Partial = FALSE
  Cleanup = TRUE
  Free = Free
SPECIFICATION Spec
INVARIANTS
  SameWritesEverywhere
