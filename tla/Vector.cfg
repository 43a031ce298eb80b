SPECIFICATION MCSpec
CONSTANTS
  Docs = {d1, d2}
  Labels = {l1}
  Runs = {r1, r2}
  Kept = d1
  None = None
  MaxFaults = 1
INVARIANTS
  TypeOK
  ChunksSearchable
  NodesSearchable
PROPERTIES
  DeletedGainsNothing
  OrphansSwept
CHECK_DEADLOCK FALSE
