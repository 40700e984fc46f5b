SPECIFICATION Spec
CONSTANTS
  Master = master
  Slave = slave
  m1 = m1
  m2 = m2
  Measurements <- OneMeasurement
  Born <- Births
  MaxTime = 4
  MaxOutages <- Outages
  MaxLosses = 1
  MasterOutages = 1
  SlaveOutages = 0
  Second = 1
  Chunk = 4
  MaxRet = 8
  RetryRatio = 2
  Start = 0
  End = 4
  NumWorkers = 1
  RWMaxRetries = 12
  MaxRetries = 10
  MaxPoints = 2
  MaxCut = 0
PROPERTIES
  RepeatedEnough
CHECK_DEADLOCK FALSE
