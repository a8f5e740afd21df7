SPECIFICATION Spec
CHECK_DEADLOCK FALSE
CONSTANTS
  None = None
  Requests = {r1, r2, r3, r4}
  Workers = {w1, w2, w3, w4}
  Limit = 2
SYMMETRY Symmetry
INVARIANTS TypeOK RowPerAnswer ReadsAllOld
