\* Three jobs of one target, two of them incremental, and one fault: a worker
\* dies inside a transaction or behind it, or a body raises.
SPECIFICATION Spec
SYMMETRY Alike
CONSTANTS
  j1 = j1
  j2 = j2
  j3 = j3
  k1 = k1
  k2 = k2
  k3 = k3
  h1 = h1
  h2 = h2
  Absent = Absent
  Jobs = {j1, j2, j3}
  Incremental = {j1, j2}
  Keys = {k1, k2, k3}
  Hashes = {h1, h2}
  Results <- Varied
  FaultKinds = {"early", "late", "error"}
  MaxFaults = 1
\* Every assembly ends.
CHECK_DEADLOCK FALSE
INVARIANTS
  TypeOK
  SnapshotDelivered
  KeyedNeverDuplicates
  BaselineTracks
  EmptyRunFlagged
