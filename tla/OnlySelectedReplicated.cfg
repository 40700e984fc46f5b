SPECIFICATION Spec
CONSTANTS
  Master = master
  Slave = slave
  Measurements <- NoMeasurement
  Born <- Births
  MaxTime = 0
  MaxOutages <- Outages
  MaxLosses = 2
  MasterOutages = 1
  SlaveOutages = 1
  db1 = db1
  db2 = db2
  db3 = db3
  rp1 = rp1
  rp2 = rp2
  rp3 = rp3
  None = none
  Databases <- ThreeDatabases
  Policies <- ThreePolicies
  MasterSchemas <- SomeSchemas
  Commands <- AllCommands
  MaxRuns = 1
INVARIANTS
  OnlySelectedReplicated
CHECK_DEADLOCK FALSE
