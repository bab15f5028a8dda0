--------------------------- MODULE UnboundedLTQueue ----------------------------
(*****************************************************************************)
(* ltqueue/ltqueue-unbounded.hpp: class UnboundedLTQueue, the LTQueue over an *)
(* UnboundedSpsc, whose enqueue never fails.                                 *)
(*****************************************************************************)
EXTENDS LTTree

(* The constructor. *)
Init ==
  /\ stamp = [p \in Enqueuers |-> MAX]
  /\ tree = [i \in Nodes |-> DUMMY]
  /\ NoCalls

(* _e_refresh_timestamp, _e_refresh_self_node, _e_refresh, _e_propagate. *)
ERefreshTimestamp(p) == RefreshTimestamp(p)
ERefreshSelfNode(p) == RefreshSelfNode(p)
ERefresh(p) == RefreshNode(p)
EPropagate(p) == ERefreshTimestamp(p) \/ ERefreshSelfNode(p) \/ ERefresh(p)

(* _d_refresh_timestamp, _d_refresh_self_node, _d_refresh, _d_propagate. *)
DRefreshTimestamp == RefreshTimestamp(Dequeuer)
DRefreshSelfNode == RefreshSelfNode(Dequeuer)
DRefresh == RefreshNode(Dequeuer)
DPropagate == DRefreshTimestamp \/ DRefreshSelfNode \/ DRefresh

(* enqueue of one element and dequeue, after the call; UnboundedSpsc has no   *)
(* enqueue of a vector, so no program can call the class's.                  *)
EnqueuerStep(p) == Put(p, "check") \/ CheckFront(p) \/ EPropagate(p)
DequeuerStep == ReadRootDummy \/ ReadRoot \/ TakeNothing \/ Take \/ DPropagate

Next ==
  \/ \E p \in Enqueuers : EnqueueCall(p, 1) \/ EnqueuerStep(p)
  \/ DequeueCall \/ DequeuerStep

Spec == Init /\ [][Next]_vars

================================================================================
