\* crawl_job is delivered again after its worker died, to another run; or one
\* other thing happens to the job.
CONSTANTS
  p1 = p1
  p2 = p2
  Pages = {p1, p2}
  PoisonThreshold = 2
  MaxRetries = 1
  Incremental = FALSE
  HasCallback = TRUE
  CrawlLosses = 2
  PageLosses = 1
  AssembleLosses = 1
  TaskErrors = 1
  Cancels = 1
CONSTRAINT OneFault
SPECIFICATION FairSpec
\* A finished job has nothing left to do.
CHECK_DEADLOCK FALSE
INVARIANTS
  NoStrandedJob
  PagesAccounted
PROPERTIES
  PromiseKept
  LedgerRefined
  Finishes
  CallbackSent
