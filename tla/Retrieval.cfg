SPECIFICATION Spec
CONSTANTS
  Docs = {d1, d2, d3}
  Here = {d1, d2}
  MaxNode = 2
  Links <- MCLinks
  TopK = 2
  PageLimit = 1
  MaxChanges = 1
INVARIANTS
  NothingUnreadableShown
  ResultIsClosed
  
CHECK_DEADLOCK FALSE
