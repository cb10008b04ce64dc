CONSTANTS
  Requests <- MCRequests
  Run <- MCRun
  Content <- MCContent
  AllowFreshStart = FALSE
  MaxCrashes = 1
  MaxFailures = 0
SPECIFICATION FairSpec
PROPERTIES InterruptedResumeRecovers
