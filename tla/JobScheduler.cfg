CONSTANTS
  high = high
  low = low
  Keys = {k1, k2}
  Requests = {high, low}
  Priority <- MCPriority
  Gpu = {high}
  MaxPending = 1
  MaxHandlers = 2
  MaxJobs = 2
  MaxCrashes = 1
SPECIFICATION Spec
INVARIANTS NoOrphans OneJobPerKey PendingBounded SoleLease CompletedAfterRelease
PROPERTIES Implements
SYMMETRY InterchangeableKeys
CHECK_DEADLOCK FALSE
