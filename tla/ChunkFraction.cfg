SPECIFICATION Spec
CONSTANTS
  Second = 2
  Horizon = 14
  Chunks = {3}
  MaxRet = 20
INVARIANTS
  WindowAskedForAnyChunk
CHECK_DEADLOCK FALSE
