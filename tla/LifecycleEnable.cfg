SPECIFICATION Spec
CONSTANTS
  Servers <- HttpOnly
  Requests = {r1}
  r1 = r1
  Kinds <- WorkAndEnable
  Unhealthy = FALSE
  Unready = FALSE
  ShutdownTimeout = 5
  ProbePeriod = 10
  FailureThreshold = 3
  GracePeriod = 8
  MaxSignals = 1
CHECK_DEADLOCK FALSE
INVARIANT ProbesFailOnceStopping
