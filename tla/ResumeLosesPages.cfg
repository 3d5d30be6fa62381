\* crawl_job is redelivered once after it planned.
CONSTANTS
  p1 = p1
  p2 = p2
  Pages = {p1, p2}
  PoisonThreshold = 2
  MaxRetries = 0
  Incremental = FALSE
  HasCallback = FALSE
  CrawlLosses = 1
  PageLosses = 0
  AssembleLosses = 0
  TaskErrors = 0
  Cancels = 0
SYMMETRY PageSymmetry
SPECIFICATION Spec
\* A finished job has nothing left to do.
CHECK_DEADLOCK FALSE
INVARIANTS
  SucceededComplete
