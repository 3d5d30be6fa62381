SPECIFICATION PageFairSpec
CONSTANTS
  w1 = w1
  w2 = w2
  Workers <- TwoWorkers
  Threshold = 2
  OpenSeconds = 2
  MaxFails = 2
  Cuts = 1
  Target <- PagedTarget
  MaxRetries = 1
  BackoffMax = 1
INVARIANTS
  PageTypeOK
  ProbesRationed
  CountForgotten
  OpenedInARow
  OpenHoldsBack
  GuardsAgree
PROPERTIES
  BreakerRefined
  Recovers
  PagesEnd
