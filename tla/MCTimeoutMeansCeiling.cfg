CONSTANTS
  NumWorkloads = 1
  Warmup = 1
  Iterations = 1
  Attempts = 3
  MaxReconnects = 3
  NumKeys = 1
  Answers = {a1}
  NoAnswer = NoAnswer
SPECIFICATION Spec
PROPERTIES
  TimeoutMeansCeiling
