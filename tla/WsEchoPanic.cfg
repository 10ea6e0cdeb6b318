SPECIFICATION Spec
CONSTANTS
  MaxMessages = 1
  MaxTicks = 1
  Departures <- Ways
CHECK_DEADLOCK FALSE
INVARIANT NoPanic
