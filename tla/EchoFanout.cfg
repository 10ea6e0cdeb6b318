SPECIFICATION Spec
CONSTANTS
  b1 = b1
  b2 = b2
  b3 = b3
  Backends <- ThreeBackends
  Malformed = {b3}
  ClientTimeout = 1
  ServerTimeout = 2
CHECK_DEADLOCK FALSE
INVARIANTS TypeOK CallsAreIndependent AnswerInTime
PROPERTIES ImplementsGather CallEnded
