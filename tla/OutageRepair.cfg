SPECIFICATION RepairSpec
CONSTANTS
  Master = master
  Slave = slave
  m1 = m1
  Measurements <- OneMeasurement
  Born <- Births
  BornAt = 2
  MaxTime = 6
  MaxOutages <- Outages
  MaxLosses = 1
  MasterOutages = 0
  SlaveOutages = 1
  MaxLag = 2
  Second = 1
  Chunk = 3
  MaxRet = 9
  RetryRatio = 3
  CheckInterval = 1
  MaxRestarts = 0
INVARIANTS
  SchemaCovers
  OutageRepaired
CHECK_DEADLOCK FALSE
