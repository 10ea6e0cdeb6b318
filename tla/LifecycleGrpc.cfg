SPECIFICATION Spec
CONSTANTS
  Servers <- HttpAndGrpc
  Requests = {r1, r2}
  r1 = r1
  r2 = r2
  Kinds <- WorkOnly
  Unhealthy = TRUE
  Unready = TRUE
  ShutdownTimeout = 4
  ProbePeriod = 2
  FailureThreshold = 3
  GracePeriod = 6
  MaxSignals = 2
CHECK_DEADLOCK FALSE
INVARIANTS CleanExitKeepsRequests KilledOnlyByOpenRpc NoCrashOnShutdown CrashLosesNoRpc
PROPERTY SecondSignalTerminates
