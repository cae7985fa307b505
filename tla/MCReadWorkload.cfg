CONSTANTS
  NumWorkloads = 2
  Warmup = 1
  Iterations = 2
  Attempts = 3
  MaxReconnects = 3
  NumKeys = 1
  Answers = {a1, a2}
  NoAnswer = NoAnswer
SPECIFICATION Spec
INVARIANTS
  TypeOK
  DeadlineFree
  OwnAnswer
  CountersBalance
  OrphansDisclosed
PROPERTIES
  FirstAnswerStays
  RetryPolicy
  AllReturn
  RefinesContract
