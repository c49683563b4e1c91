SPECIFICATION SortSpec
CONSTANTS
  Inputs <- MCInputs
  BlockSize = 3
  MaxMemory = 5
  MaxFaults = 0
INVARIANT
  SuccessMeansSorted
CHECK_DEADLOCK FALSE
