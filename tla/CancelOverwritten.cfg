\* A cancel request races the first commit of crawl_job.
CONSTANTS
  p1 = p1
  Pages = {p1}
  PoisonThreshold = 1
  MaxRetries = 0
  Incremental = FALSE
  HasCallback = FALSE
  CrawlLosses = 0
  PageLosses = 0
  AssembleLosses = 0
  TaskErrors = 0
  Cancels = 1
SPECIFICATION Spec
\* A finished job has nothing left to do.
CHECK_DEADLOCK FALSE
PROPERTIES
  TerminalIsFinal
