SPECIFICATION Spec
CONSTANTS
  Servers <- HttpAndHttps
  Requests = {r1, r2}
  r1 = r1
  r2 = r2
  Kinds <- AllKinds
  Unhealthy = FALSE
  Unready = FALSE
  ShutdownTimeout = 4
  ProbePeriod = 1
  FailureThreshold = 3
  GracePeriod = 6
  MaxSignals = 3
CHECK_DEADLOCK FALSE
INVARIANTS TypeOK ShutdownWithinTimeout ListenersOutliveTheWarning
  LeavesRotation
PROPERTIES ImplementsGraceful StopTerminates
