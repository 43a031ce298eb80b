SPECIFICATION Spec
CONSTANTS
  Users = {u1, u2}
  Requests = {r1, r2}
  MaxLateFaults = 1
SYMMETRY Symmetry
INVARIANTS
  LastManagerKept
  RowsAndTuplesAgree
CHECK_DEADLOCK FALSE
