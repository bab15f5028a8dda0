---------------------------- MODULE HostedSlotQueue ----------------------------
(*****************************************************************************)
(* slotqueue/hosted-slotqueue.hpp: class HostedSlotQueue.  Both scans read   *)
(* every slot, so the copies, which the constructor leaves uninitialized,    *)
(* are never used before they are read.  The SPSC is a HostedBoundedSpsc.    *)
(*****************************************************************************)
EXTENDS Slots

(* The constructor. *)
Init == \E copy \in {0, MAX} : Constructed(copy)

(* _refreshEnqueue, _readMinimumRank, _refreshDequeue. *)
refreshEnqueue(p) == RefreshEnqueue(p)
readMinimumRank == ReadMinimumRank(FALSE)
refreshDequeue == RefreshDequeue(FALSE)

(* Either enqueue and dequeue, after the call. *)
EnqueuerStep(p) == EnqueuePut(p) \/ EnqueueFull(p) \/ refreshEnqueue(p)
DequeuerStep == readMinimumRank \/ Take(FALSE) \/ refreshDequeue

Next ==
  \/ \E p \in Ranks : (\E n \in 1..MaxBatch : EnqueueCall(p, n)) \/ EnqueuerStep(p)
  \/ DequeueCall \/ DequeuerStep

Spec == Init /\ [][Next]_vars

================================================================================
