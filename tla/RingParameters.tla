----------------------------- MODULE RingParameters ----------------------------
(***************************************************************************)
(* The parameters of the ring buffers of lib/spsc/bounded_spsc.hpp and     *)
(* hosted_bounded_spsc.hpp, and the bounds of their models.                *)
(***************************************************************************)
EXTENDS Integers

CONSTANTS
  Capacity,       \* _capacity
  BatchSize,      \* _batch_size, the dequeuer's read-ahead
  PublishPeriod,  \* the literal 10 of enqueue: how often `last' is refreshed
  MaxBatch,       \* largest vector passed to enqueue
  MaxItems        \* bound: elements ever accepted

ASSUME BoundedSpscAssumption ==
  /\ Capacity \in Nat \ {0}
  /\ BatchSize \in Nat \ {0}
  /\ PublishPeriod \in Nat \ {0}
  /\ MaxBatch \in Nat \ {0}
  /\ MaxItems \in Nat

================================================================================
