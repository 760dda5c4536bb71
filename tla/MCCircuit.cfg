SPECIFICATION LiveSpec
CONSTANTS
  j1 = j1
  j2 = j2
  j3 = j3
  Jobs <- ThreeJobs
  FailureThreshold = 3
  SuccessThreshold = 1
  MaxProbes = 1
  MaxCalls = 2
INVARIANTS TypeOK ControllerAgrees SpentProbeIsOut
PROPERTY ProbeDecides
CHECK_DEADLOCK FALSE
