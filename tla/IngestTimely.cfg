SPECIFICATION TimelySpec
CONSTANTS
  Jobs = {1, 2}
  Workers = {w1, w2}
  Tasks = {t1, t2}
  Nil = Nil
  MaxAttempts = 2
  Concurrency = 1
  RelayBatch = 2
  SweepBatch = 2
  MaxQueue = 2
  MaxFaults = 1
SYMMETRY Symmetry
INVARIANTS
  
  RelayRepeatsNeedFault

  
CHECK_DEADLOCK FALSE
