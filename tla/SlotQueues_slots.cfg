\* Three enqueuers: two ranks below the one the first scan selects.
SPECIFICATION Spec
CONSTANTS
  Size = 3
  Capacity = 2
  MaxBatch = 1
  MaxTimestamp = 15
  MaxCalls = 4
  VariantCalls = 3
  Classes = {"SlotQueue", "SlotNodeQueue", "HostedSlotQueue", "UnboundedSlotQueue"}
INVARIANTS
  SlotIsFront
  CopyIsFront
  NothingStranded
PROPERTIES
  NoOvertakingSettled
  NoFalseEmpty
