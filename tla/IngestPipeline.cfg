SPECIFICATION FairSpec
CONSTANTS
  Jobs = {1}
  Workers = {w1}
  Tasks = {t1, t2}
  Nil = Nil
  MaxAttempts = 2
  Concurrency = 2
  RelayBatch = 1
  SweepBatch = 1
  MaxQueue = 1
  MaxFaults = 1
INVARIANTS
  TypeOK
  FailedJobSpentBudget
  ReportedMeansStored
PROPERTIES
  ImplementsLifecycle
  NoSilentDrop
  JobsSettle
  OutboxDrains
CHECK_DEADLOCK FALSE
