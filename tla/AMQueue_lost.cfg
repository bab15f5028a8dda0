\* One enqueuer that read the queue number before the dequeuer changed it.
SPECIFICATION Spec
CONSTANTS
  Enqueuers = {p1}
  Capacity = 1
  LargeNumber = 3
  MaxCalls = 2
INVARIANT NothingLost
