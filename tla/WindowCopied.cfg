SPECIFICATION Spec
CONSTANTS
  Master = master
  Slave = slave
  m1 = m1
  m2 = m2
  Measurements <- TwoMeasurements
  Born <- Births
  MaxTime = 6
  MaxOutages <- Outages
  MaxLosses = 0
  MasterOutages = 0
  SlaveOutages = 0
  Second = 1
  Chunk = 4
  MaxRet = 8
  RetryRatio = 2
  Start = 1
  End = 6
  NumWorkers = 1
  RWMaxRetries = 2
  MaxRetries = 10
  MaxPoints = 2
  MaxCut = 0
INVARIANTS
  WindowCopied
CHECK_DEADLOCK FALSE
