SPECIFICATION FairSpec
CONSTANTS
  Master = master
  Slave = slave
  m1 = m1
  m2 = m2
  Measurements <- TwoMeasurements
  Born <- Births
  MaxTime = 5
  MaxOutages <- Outages
  MaxLosses = 2
  MasterOutages = 1
  SlaveOutages = 1
  Second = 1
  Chunk = 4
  MaxRet = 8
  RetryRatio = 2
  Start = 0
  End = 5
  NumWorkers = 2
  RWMaxRetries = 2
  MaxRetries = 10
  MaxPoints = 2
  MaxCut = 1
PROPERTIES
  KeepsLedger
  SyncReturns
INVARIANTS
  TypeOK
  NothingForgotten
CHECK_DEADLOCK FALSE
