\* Rank 1 between the dequeuer's unused ring and that of rank 2. A read-ahead
\* of 2 in a ring of 3 leaves caches full, partial and empty.
SPECIFICATION ScheduledSpec
CONSTANTS
  Capacity = 3
  BatchSize = 2
  PublishPeriod = 3
  MaxBatch = 2
  MaxItems = 4
  CommSize = 3
  Rank = 1
  DequeuerRank = 0
INVARIANTS
  TypeOK
  UnreadIntact
  FetchIsRaceFree
  CacheFollowsFront
  EFrontStable
  StaleCopiesAreSafe
PROPERTIES
  Implements
  CallsReturn
  EveryElementDequeued
