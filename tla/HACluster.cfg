SPECIFICATION FairSpec
CONSTANTS
  Master = master
  Slave = slave
  m1 = m1
  Measurements <- NoMeasurement
  Born <- Births
  MaxTime = 1
  MaxOutages <- Outages
  MaxLosses = 2
  MasterOutages = 1
  SlaveOutages = 2
  MaxLag = 1
  Second = 1
  Chunk = 4
  MaxRet = 8
  RetryRatio = 2
  CheckInterval = 1
  MaxRestarts = 1
INVARIANTS
  TypeOK
  NeverFoundRecovering
  FreshClient
  DownSlaveKnown
  WindowSound
  IInv
PROPERTIES
  ImplementsCycle
  RecoveryEnds
  Converges
CHECK_DEADLOCK FALSE
