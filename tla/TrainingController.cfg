CONSTANTS
  Requests <- MCRequests
  Run <- MCRun
  Content <- MCContent
  AllowFreshStart = FALSE
  MaxCrashes = 1
  MaxFailures = 1
SPECIFICATION FairSpec
INVARIANTS ReleaseHolds ReleaseAdvances ObservedIsRecorded
PROPERTIES Implements ResumesExactly FenceAdvances InterruptedReleaseStands InterruptedReleaseRecovers
