SPECIFICATION Spec
CONSTANTS
  w1 = w1
  r1 = r1
  Writers = {w1}
  Readers = {r1}
  WordLimit = 64
  Size = 2
  ChunkBytes = 4
  MaxCounter = 2
  MaxFaults = 0
  MaxCrashes = 0
  MaxRestarts = 0
INVARIANT
  LockedWhenReady
CHECK_DEADLOCK FALSE
