------------------------------- MODULE EoLTQueue -------------------------------
(*****************************************************************************)
(* ltqueue/eo-ltqueue.hpp: class EoLTQueue.  The enqueue of one element looks *)
(* at the front before it refreshes, the enqueue of a vector (which may have *)
(* one element) does not.  Timestamps live as in NaiveLTQueue.               *)
(*****************************************************************************)
EXTENDS LTTree

(***************************************************************************)
(* The constructor.  It writes the initial timestamps at displacements of  *)
(* the dequeuer's window, which has one cell: nothing writes the cells of  *)
(* the enqueuers, the only ones used later, so they may hold anything.     *)
(* What the writes past that window overwrite is not modelled.             *)
(***************************************************************************)
Init ==
  /\ stamp \in [Enqueuers -> Timestamps]
  /\ tree = [i \in Nodes |-> DUMMY]
  /\ NoCalls

(* _e_refresh_timestamp, _e_refresh_self_node, _e_refresh, _e_propagate. *)
ERefreshTimestamp(p) == RefreshTimestamp(p)
ERefreshSelfNode(p) == RefreshSelfNode(p)
ERefresh(p) == RefreshNode(p)
EPropagate(p) == ERefreshTimestamp(p) \/ ERefreshSelfNode(p) \/ ERefresh(p)

(* _d_refresh_timestamp, _d_refresh_self_node, _d_refresh, _d_propagate. *)
DRefreshTimestamp == RefreshTimestamp(Dequeuer)
DRefreshSelfNode == RefreshSelfNode(Dequeuer)
DRefresh == RefreshNode(Dequeuer)
DPropagate == DRefreshTimestamp \/ DRefreshSelfNode \/ DRefresh

(* The two enqueues and dequeue, after the call. *)
EnqueueOne(p) ==
  /\ call[p].n = 1
  /\ EnqueuePut(p, "check") \/ EnqueueFull(p) \/ CheckFront(p) \/ EPropagate(p)

EnqueueVector(p) == EnqueuePut(p, "front") \/ EnqueueFull(p) \/ EPropagate(p)
EnqueuerStep(p) == EnqueueOne(p) \/ EnqueueVector(p)
DequeuerStep == ReadRootDummy \/ ReadRoot \/ TakeNothing \/ Take \/ DPropagate

Next ==
  \/ \E p \in Enqueuers : (\E n \in 1..MaxBatch : EnqueueCall(p, n)) \/ EnqueuerStep(p)
  \/ DequeueCall \/ DequeuerStep

Spec == Init /\ [][Next]_vars

================================================================================
