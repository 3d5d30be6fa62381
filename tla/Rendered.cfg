\* Two crashes, two soft time limits and two failed launches in one process.
CONSTANTS
  Crashes = 2
  Limits = 2
  Misstarts = 2
SPECIFICATION PoolSpec
INVARIANTS
  PoolTypeOK
  LaunchesExplained
  ContextsReturned
  FaultsStayLocal
