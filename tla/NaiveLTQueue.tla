----------------------------- MODULE NaiveLTQueue ------------------------------
(*****************************************************************************)
(* ltqueue/naive-ltqueue.hpp: class NaiveLTQueue.  Every enqueue refreshes,  *)
(* whatever is at the front.  A timestamp lives at its own rank, not at the  *)
(* dequeuer: the same accesses go elsewhere.                                 *)
(*****************************************************************************)
EXTENDS LTTree

(* Mutant of Init: an enqueuer's leaf names it from the start, as in a full tree. *)
InitLeaves ==
  /\ stamp \in [Enqueuers -> Timestamps]
  /\ tree = [i \in Nodes |-> IF i - Processes \in Enqueuers THEN i - Processes ELSE DUMMY]
  /\ NoCalls

(***************************************************************************)
(* The constructor.  It writes the initial timestamps at displacements of  *)
(* the dequeuer's window, which has one cell: nothing writes the cells of  *)
(* the enqueuers, the only ones used later, so they may hold anything.     *)
(* What the writes past that window overwrite is not modelled.             *)
(***************************************************************************)
Init ==
  /\ stamp \in [Enqueuers -> Timestamps]
  /\ tree = [i \in Nodes |-> DUMMY]
  /\ NoCalls

(* _e_refresh_timestamp, _e_refresh_self_node, _e_refresh, _e_propagate. *)
ERefreshTimestamp(p) == RefreshTimestamp(p)
ERefreshSelfNode(p) == RefreshSelfNode(p)
ERefresh(p) == RefreshNode(p)
EPropagate(p) == ERefreshTimestamp(p) \/ ERefreshSelfNode(p) \/ ERefresh(p)

(* _d_refresh_timestamp, _d_refresh_self_node, _d_refresh, _d_propagate. *)
DRefreshTimestamp == RefreshTimestamp(Dequeuer)
DRefreshSelfNode == RefreshSelfNode(Dequeuer)
DRefresh == RefreshNode(Dequeuer)
DPropagate == DRefreshTimestamp \/ DRefreshSelfNode \/ DRefresh

(* Either enqueue and dequeue, after the call. *)
EnqueuerStep(p) == EnqueuePut(p, "front") \/ EnqueueFull(p) \/ EPropagate(p)
DequeuerStep == ReadRootDummy \/ ReadRoot \/ TakeNothing \/ Take \/ DPropagate

Next ==
  \/ \E p \in Enqueuers : (\E n \in 1..MaxBatch : EnqueueCall(p, n)) \/ EnqueuerStep(p)
  \/ DequeueCall \/ DequeuerStep

Spec == Init /\ [][Next]_vars

================================================================================
