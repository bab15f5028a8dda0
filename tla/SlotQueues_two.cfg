\* Two enqueuers, vectors of up to two elements.
SPECIFICATION ScheduledSpec
CONSTANTS
  Size = 2
  Capacity = 2
  MaxBatch = 2
  VariantCalls = 3
  Classes = {"SlotQueue"}
  MaxTimestamp = 15
  MaxCalls = 3
PROPERTIES
  Implements
  CallsReturn
  EveryElementDequeued
