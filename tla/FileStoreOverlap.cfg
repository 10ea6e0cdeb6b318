SPECIFICATION Spec
CONSTANTS
  Contents = {c1, c2}
  c1 = c1
  c2 = c2
  Uploads = {u1, u2, u3}
  u1 = u1
  u2 = u2
  u3 = u3
  Downloads = {d1}
  d1 = d1
  Blocks = 2
  MaxCrashes = 1
SYMMETRY Symmetry
CHECK_DEADLOCK FALSE
INVARIANTS TypeOK UploadsConverge ReadsAloneAreWhole
