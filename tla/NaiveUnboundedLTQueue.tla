------------------------- MODULE NaiveUnboundedLTQueue -------------------------
(*****************************************************************************)
(* ltqueue/naive-ltqueue-unbounded.hpp: class NaiveUnboundedLTQueue, the     *)
(* NaiveLTQueue over an UnboundedSpsc, whose enqueue never fails.            *)
(*****************************************************************************)
EXTENDS LTTree

(***************************************************************************)
(* The constructor.  It writes the initial timestamps at displacements of  *)
(* the dequeuer's window, which has one cell: nothing writes the cells of  *)
(* the enqueuers, the only ones used later, so they may hold anything.     *)
(* What the writes past that window overwrite is not modelled.             *)
(***************************************************************************)
Init ==
  /\ stamp \in [Enqueuers -> Timestamps]
  /\ tree = [i \in Nodes |-> DUMMY]
  /\ NoCalls

(* _e_refresh_timestamp, _e_refresh_self_node, _e_refresh, _e_propagate. *)
ERefreshTimestamp(p) == RefreshTimestamp(p)
ERefreshSelfNode(p) == RefreshSelfNode(p)
ERefresh(p) == RefreshNode(p)
EPropagate(p) == ERefreshTimestamp(p) \/ ERefreshSelfNode(p) \/ ERefresh(p)

(* _d_refresh_timestamp, _d_refresh_self_node, _d_refresh, _d_propagate. *)
DRefreshTimestamp == RefreshTimestamp(Dequeuer)
DRefreshSelfNode == RefreshSelfNode(Dequeuer)
DRefresh == RefreshNode(Dequeuer)
DPropagate == DRefreshTimestamp \/ DRefreshSelfNode \/ DRefresh

(* enqueue of one element and dequeue, after the call; UnboundedSpsc has no   *)
(* enqueue of a vector, so no program can call the class's.                  *)
EnqueuerStep(p) == Put(p, "front") \/ EPropagate(p)
DequeuerStep == ReadRootDummy \/ ReadRoot \/ TakeNothing \/ Take \/ DPropagate

Next ==
  \/ \E p \in Enqueuers : EnqueueCall(p, 1) \/ EnqueuerStep(p)
  \/ DequeueCall \/ DequeuerStep

Spec == Init /\ [][Next]_vars

================================================================================
