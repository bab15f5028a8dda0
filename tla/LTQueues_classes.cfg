\* Every class; two enqueuers and the dequeuer refresh the same nodes.
SPECIFICATION ScheduledSpec
CONSTANTS
  Processes = 3
  Dequeuer = 0
  Enqueuers = {1, 2}
  Capacity = 1
  MaxBatch = 1
  MaxCalls = 2
  VariantCalls = 2
  Classes = {"LTQueue", "UnboundedLTQueue", "LTNodeQueue", "NaiveLTQueue", "NaiveUnboundedLTQueue", "EoLTQueue"}
PROPERTIES
  CallsReturn
  StepsBounded
