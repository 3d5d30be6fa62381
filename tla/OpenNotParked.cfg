SPECIFICATION PageSpec
CONSTANTS
  w1 = w1
  w2 = w2
  Workers <- TwoWorkers
  Threshold = 2
  OpenSeconds = 3
  MaxFails = 2
  Cuts = 0
  Target <- PagedTarget
  MaxRetries = 1
  BackoffMax = 1
INVARIANT
  OpenCircuitParks
