CONSTANTS
  MaxEntry = 3
  Work = {w1, w2}
  Copy = {c1}
  Request = {r1, r2}
  None = None
SYMMETRY Symmetry
SPECIFICATION Spec
INVARIANTS TypeOK Contiguous TargetsStand
PROPERTY ActsAsList
CHECK_DEADLOCK FALSE
