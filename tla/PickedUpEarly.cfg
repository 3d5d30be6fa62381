SPECIFICATION Spec
CONSTANTS
  r1 = r1
  r2 = r2
  r3 = r3
  r4 = r4
  k1 = k1
  small = small
  large = large
  NoKey = NoKey
  Submits = {r1, r2}
  Resubmits = {}
  Firings = {}
  Keys = {k1}
  Key <- OneKey
  Body <- Bodies
  DepthLimit = 2
  Threads = 2
  Crashes = 0
  BeatLosses = 0
CHECK_DEADLOCK FALSE
INVARIANTS
  PendingNotPickedUp
