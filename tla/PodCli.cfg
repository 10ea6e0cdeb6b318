SPECIFICATION Spec
CONSTANTS
  Requests <- TwoAttempts
  Second = 11
  MaxInt = 1112
  HttpServerTimeout = 30
  RandomDelay = TRUE
  RandomDelayUnit = "s"
  RandomError = TRUE
  RetryCount = 1
  RetryDelay = 1
  Timeout = 2
  Targets <- AllTargets
  Handshake = 0
  MaxLines = 2
  Commands <- AllCommands
  DelayBounds <- AllBounds
CHECK_DEADLOCK FALSE
INVARIANTS TypeOK CountedAsAnswered AnsweredUnlessLate ExitTellsTheTruth ExitsInTime
PROPERTIES LinesComeBack ServerGoneEndsClient
