SPECIFICATION Spec
CONSTANTS
  MaxMessages = 3
  MaxTicks = 2
  Departures <- Ways
CHECK_DEADLOCK FALSE
INVARIANTS TypeOK StuckOnlyAfterReset PanicOnlyAtTeardown
PROPERTIES ImplementsEchoSession EveryMessageEchoed NoGoroutineLeft
