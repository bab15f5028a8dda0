------------------------------- MODULE SlotQueue -------------------------------
(*****************************************************************************)
(* slotqueue/slotqueue.hpp: class SlotQueue.                                 *)
(*****************************************************************************)
EXTENDS Slots

(* The constructor. *)
Init == Constructed(MAX)

(* _refreshEnqueue, _readMinimumRank, _refreshDequeue. *)
refreshEnqueue(p) == RefreshEnqueue(p)
readMinimumRank == ReadMinimumRank(TRUE)
refreshDequeue == RefreshDequeue(TRUE)

(* Either enqueue and dequeue, after the call. *)
EnqueuerStep(p) == EnqueuePut(p) \/ EnqueueFull(p) \/ refreshEnqueue(p)
DequeuerStep == readMinimumRank \/ Take(TRUE) \/ refreshDequeue

Next ==
  \/ \E p \in Ranks : (\E n \in 1..MaxBatch : EnqueueCall(p, n)) \/ EnqueuerStep(p)
  \/ DequeueCall \/ DequeuerStep

Spec == Init /\ [][Next]_vars

================================================================================
