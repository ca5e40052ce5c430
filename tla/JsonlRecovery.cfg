SPECIFICATION Spec
CONSTANTS
  a = a
  b = b
  c = c
  f = f
  Ids = {a, b, c}
  Forks = {f}
  ForkWhileOpen = TRUE
  ConcurrentLoads = FALSE
  Chunked = FALSE
  PartialFailure = FALSE
INVARIANTS AckedSurvive
PROPERTY ImplementsLog
