-------------------------------- MODULE LTQueue --------------------------------
(*****************************************************************************)
(* ltqueue/ltqueue.hpp: class LTQueue.  An enqueue refreshes only if an      *)
(* element of its own is at the front of its SPSC.                           *)
(*****************************************************************************)
EXTENDS LTTree

(* The constructor. *)
Init ==
  /\ stamp = [p \in Enqueuers |-> MAX]
  /\ tree = [i \in Nodes |-> DUMMY]
  /\ NoCalls

(* _e_refresh_timestamp, _e_refresh_self_node, _e_refresh, _e_propagate. *)
ERefreshTimestamp(p) == RefreshTimestamp(p)
ERefreshSelfNode(p) == RefreshSelfNode(p)
ERefresh(p) == RefreshNode(p)
EPropagate(p) == ERefreshTimestamp(p) \/ ERefreshSelfNode(p) \/ ERefresh(p)

(* _d_refresh_timestamp, _d_refresh_self_node, _d_refresh, _d_propagate. *)
DRefreshTimestamp == RefreshTimestamp(Dequeuer)
DRefreshSelfNode == RefreshSelfNode(Dequeuer)
DRefresh == RefreshNode(Dequeuer)
DPropagate == DRefreshTimestamp \/ DRefreshSelfNode \/ DRefresh

(* Either enqueue and dequeue, after the call. *)
EnqueuerStep(p) == EnqueuePut(p, "check") \/ EnqueueFull(p) \/ CheckFront(p) \/ EPropagate(p)
DequeuerStep == ReadRootDummy \/ ReadRoot \/ TakeNothing \/ Take \/ DPropagate

Next ==
  \/ \E p \in Enqueuers : (\E n \in 1..MaxBatch : EnqueueCall(p, n)) \/ EnqueuerStep(p)
  \/ DequeueCall \/ DequeuerStep

Spec == Init /\ [][Next]_vars

================================================================================
