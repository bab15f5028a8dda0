\* Two enqueuers, buffers of one slot: full buffers, retries and both races.
SPECIFICATION ScheduledSpec
CONSTANTS
  Enqueuers = {p1, p2}
  Capacity = 1
  LargeNumber = 3
  MaxCalls = 3
INVARIANTS
  DrainsAloneApart
  ExactlyOnceApart
PROPERTIES
  CallsReturnApart
