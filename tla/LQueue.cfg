\* Two calls fill the buffer and two are refused at the same time.
SPECIFICATION ScheduledSpec
CONSTANTS
  Enqueuers = {e1, e2}
  Dequeuer = d
  Capacity = 2
  MaxCalls = 4
INVARIANTS
  ExactlyOnceApart
  OrderKept
  RefusedWhenFullApart
  SomeoneProceeds
PROPERTIES
  CallsReturn
