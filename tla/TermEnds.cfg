SPECIFICATION FairCmdSpec
CONSTANTS
  Second = 3
  Horizon = 16
  Chunks = {3}
  MaxRet = 10
  Actions = {"copy", "hamonitor"}
  TimeArgs <- NoTimes
  ChunkArgs <- NoChunks
  ConfigChunk = 3
  Durations = {7}
  DefaultBack = 1
  Launch = 11
  Latest = 11
PROPERTIES
  TermEnds
CHECK_DEADLOCK FALSE
