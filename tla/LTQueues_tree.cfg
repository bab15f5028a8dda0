\* Two enqueuers at different depths of the tree, the dequeuer's own leaf unused.
SPECIFICATION Spec
CONSTANTS
  Processes = 3
  Dequeuer = 0
  Enqueuers = {1, 2}
  Capacity = 2
  MaxBatch = 1
  MaxCalls = 3
  VariantCalls = 2
  Classes = {"LTQueue", "UnboundedLTQueue", "LTNodeQueue", "NaiveLTQueue", "NaiveUnboundedLTQueue", "EoLTQueue"}
INVARIANTS
  NamedRanks
  RankForgottenApart
  RootShowsOldestApart
PROPERTIES
  NoFalseEmptyApart
  ImplementsApart
