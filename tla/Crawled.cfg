\* One run of a job that loses workers, raises, is cancelled and calls back.
CONSTANTS
  p1 = p1
  p2 = p2
  Pages = {p1, p2}
  PoisonThreshold = 1
  MaxRetries = 1
  Incremental = FALSE
  HasCallback = TRUE
  CrawlLosses = 1
  PageLosses = 1
  AssembleLosses = 1
  TaskErrors = 1
  Cancels = 1
  HookRetries = 1
SYMMETRY PageSymmetry
CONSTRAINT ThreeFaults
SPECIFICATION CallerSpec
\* A finished job has nothing left to do.
CHECK_DEADLOCK FALSE
INVARIANTS
  CallerTypeOK
  SucceededComplete
  CheckpointBacked
  ResultBehindState
  PartialExplained
  PoisonPillParked
  ToldTruth
PROPERTIES
  FinishedStays
