\* The worker of one incremental job dies behind its transaction.
SPECIFICATION Spec
CONSTANTS
  j1 = j1
  j2 = j2
  j3 = j3
  k1 = k1
  k2 = k2
  k3 = k3
  h1 = h1
  h2 = h2
  Absent = Absent
  Jobs = {j1}
  Incremental = {j1}
  Keys = {k1, k2, k3}
  Hashes = {h1, h2}
  Results <- Varied
  FaultKinds = {"late"}
  MaxFaults = 1
\* Every assembly ends.
CHECK_DEADLOCK FALSE
INVARIANTS
  ReportedAtLast
