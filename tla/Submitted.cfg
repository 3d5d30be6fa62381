SPECIFICATION Spec
CONSTANTS
  r1 = r1
  r2 = r2
  r3 = r3
  r4 = r4
  k1 = k1
  small = small
  large = large
  NoKey = NoKey
  t1 = t1
  f1 = f1
  Submits = {r1, r2, r3, r4}
  Resubmits = {t1}
  Firings = {f1}
  Keys = {k1}
  Key <- OneKey
  Body <- Bodies
  DepthLimit = 1
  Threads = 2
  Crashes = 1
  BeatLosses = 1
\* Every request is answered at last.
CHECK_DEADLOCK FALSE
SYMMETRY Twins
INVARIANTS
  TypeOK
  OneJobPerCause
  OwnBodyOnly
  SentBeforeCommit
  QueueBounded
