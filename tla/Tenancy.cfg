SPECIFICATION Spec
CONSTANTS
  Docs = {d1, d2}
  Jobs = {j1, j2}
  MaxAttempts = 3
  MaxDeletes = 2
  MaxFaults = 2
SYMMETRY Symmetry
INVARIANTS
  SetupRacesSurvived
  

  
CHECK_DEADLOCK FALSE
