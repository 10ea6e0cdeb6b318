SPECIFICATION Spec
CONSTANTS
  k = k
  host = host
  Keys = {k, host}
  Host = host
  v1 = v1
  Values = {v1}
  Version = v
  v = v
  r1 = r1
  r2 = r2
  Calls = {r1, r2}
  Period = 2
  Expiry = 4
SYMMETRY Symmetry
CHECK_DEADLOCK FALSE
INVARIANTS TypeOK VersionKept ReadErrorsAreRaces
PROPERTY ImplementsRegister
