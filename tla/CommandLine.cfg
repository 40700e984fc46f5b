SPECIFICATION FairCmdSpec
CONSTANTS
  Second = 3
  Horizon = 16
  Chunks = {2, 3, 4, 6, 9}
  MaxRet = 10
  Actions = {"copy", "hamonitor", "replicaschema"}
  TimeArgs <- SomeTimes
  ChunkArgs <- SomeChunks
  ConfigChunk = 3
  Durations = {0, 7}
  DefaultBack = 1
  Launch = 11
  Latest = 12
INVARIANTS
  CmdTypeOK
  WindowAsked
  AsksOnlyNear
  PanicOnlyIfReversed
PROPERTIES
  AskedOnce
  CommandReturns
CHECK_DEADLOCK FALSE
