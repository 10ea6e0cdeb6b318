SPECIFICATION Spec
CONSTANTS
  a = a
  b = b
  Keys = {a, b}
  Payloads <- AnySet
  MaxVersion = 3
CHECK_DEADLOCK FALSE
INVARIANTS TypeOK QuietMeansCurrent ResponsesAreSound
PROPERTY FixedKeysConverge
