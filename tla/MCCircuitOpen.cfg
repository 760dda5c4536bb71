SPECIFICATION LiveSpec
CONSTANTS
  j1 = j1
  j2 = j2
  j3 = j3
  Jobs <- TwoJobs
  FailureThreshold = 3
  SuccessThreshold = 1
  MaxProbes = 1
  MaxCalls = 1
PROPERTY OpenEnds
CHECK_DEADLOCK FALSE
