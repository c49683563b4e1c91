SPECIFICATION Spec
CONSTANTS
  w1 = w1
  r1 = r1
  Writers = {w1}
  Readers = {r1}
  WordLimit = 64
  Size = 3
  ChunkBytes = 8
  MaxCounter = 2
  MaxFaults = 1
  MaxCrashes = 2
  MaxRestarts = 2
INVARIANTS
  TypeOK
  Exclusive
  NotLeaked
  Consistent
  ChunkWhole
  AccessInside
CHECK_DEADLOCK FALSE
