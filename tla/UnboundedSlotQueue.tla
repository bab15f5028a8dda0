-------------------------- MODULE UnboundedSlotQueue ---------------------------
(*****************************************************************************)
(* slotqueue/slotqueue-unbounded.hpp: class UnboundedSlotQueue.  As in       *)
(* HostedSlotQueue both scans read every slot; the SPSC is an UnboundedSpsc, *)
(* whose enqueue never fails.                                                *)
(*****************************************************************************)
EXTENDS Slots

(* The constructor. *)
Init == \E copy \in {0, MAX} : Constructed(copy)

(* _refreshEnqueue, _readMinimumRank, _refreshDequeue. *)
refreshEnqueue(p) == RefreshEnqueue(p)
readMinimumRank == ReadMinimumRank(FALSE)
refreshDequeue == RefreshDequeue(FALSE)

(* enqueue of one element and dequeue, after the call; UnboundedSpsc has no   *)
(* enqueue of a vector, so no program can call the class's.                  *)
EnqueuerStep(p) == Put(p) \/ refreshEnqueue(p)
DequeuerStep == readMinimumRank \/ Take(FALSE) \/ refreshDequeue

Next ==
  \/ \E p \in Ranks : EnqueueCall(p, 1) \/ EnqueuerStep(p)
  \/ DequeueCall \/ DequeuerStep

Spec == Init /\ [][Next]_vars

================================================================================
