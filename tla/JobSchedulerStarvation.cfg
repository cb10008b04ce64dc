CONSTANTS
  high = high
  low = low
  Keys = {k1, k2}
  Requests = {high}
  Priority <- MCPriority
  Gpu = {high}
  MaxPending = 2
  MaxHandlers = 1
  MaxJobs = 2
  MaxCrashes = 0
SPECIFICATION FairSpec
PROPERTIES DeferredJobsYield
CHECK_DEADLOCK FALSE
