\* One call of each of three enqueuers.
SPECIFICATION Spec
CONSTANTS
  Size = 3
  Capacity = 1
  MaxBatch = 1
  MaxTimestamp = 15
  MaxCalls = 3
PROPERTY NoOvertaking
