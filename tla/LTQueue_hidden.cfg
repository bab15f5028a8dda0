\* One enqueuer; the dequeuer refreshes the timestamp late.
SPECIFICATION Spec
CONSTANTS
  Processes = 2
  Dequeuer = 0
  Enqueuers = {1}
  Capacity = 2
  MaxBatch = 1
  MaxCalls = 2
PROPERTY NoFalseEmpty
