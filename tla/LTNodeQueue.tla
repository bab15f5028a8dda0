------------------------------ MODULE LTNodeQueue ------------------------------
(*****************************************************************************)
(* ltqueue/ltqueue-node.hpp: class LTNodeQueue, the LTQueue with timestamps  *)
(* from a CsFaaCounter: ranks whose enqueues overlap may get the same one    *)
(* (see SharedCounter).                                                      *)
(*****************************************************************************)
EXTENDS LTTree

(* The constructor. *)
Init ==
  /\ stamp = [p \in Enqueuers |-> MAX]
  /\ tree = [i \in Nodes |-> DUMMY]
  /\ NoCalls

(* _e_refresh_timestamp, _e_refresh_self_node, _e_refresh, _e_propagate. *)
ERefreshTimestamp(p) == RefreshTimestamp(p)
ERefreshSelfNode(p) == RefreshSelfNode(p)
ERefresh(p) == RefreshNode(p)
EPropagate(p) == ERefreshTimestamp(p) \/ ERefreshSelfNode(p) \/ ERefresh(p)

(* _d_refresh_timestamp, _d_refresh_self_node, _d_refresh, _d_propagate. *)
DRefreshTimestamp == RefreshTimestamp(Dequeuer)
DRefreshSelfNode == RefreshSelfNode(Dequeuer)
DRefresh == RefreshNode(Dequeuer)
DPropagate == DRefreshTimestamp \/ DRefreshSelfNode \/ DRefresh

(***************************************************************************)
(* CsFaaCounter::get_and_increment, as SharedCounter promises: a timestamp *)
(* of its own, or any that was issued since this call began (ts keeps how  *)
(* many there were then).                                                  *)
(***************************************************************************)
Counting == {p \in Enqueuers : call[p].pc = "count"}
Called == {p \in Enqueuers : call[p].pc # "idle"}
Accepted == UNION {{p} \X (1..accepted[p]) : p \in Enqueuers}

EnqueueCounts(p, n) ==
  /\ call[p].pc = "idle"
  /\ counter + Cardinality(Counting) < MaxCalls
  /\ Cardinality(Called) + Cardinality(Accepted) < MaxCalls
  /\ Goto(p, [Idle EXCEPT !.pc = "count", !.rank = p, !.n = n, !.ts = counter])
  /\ RecordCall(Batch(p, n))
  /\ UNCHANGED <<counter, spsc, stamp, tree, accepted, dOut, settled, raced>>

IssuedSince(low) == low..counter-1

TakeTimestamp(p) ==
  /\ call[p].pc = "count"
  /\ \/ GetAndIncrement /\ Goto(p, [call[p] EXCEPT !.pc = "put", !.ts = counter])
     \/ \E t \in IssuedSince(call[p].ts) :
          Goto(p, [call[p] EXCEPT !.pc = "put", !.ts = t]) /\ UNCHANGED counter
  /\ UNCHANGED <<spsc, stamp, tree, accepted, dOut, before, settled, raced>>

(* Either enqueue and dequeue, after the call. *)
EnqueuerStep(p) ==
  \/ TakeTimestamp(p) \/ EnqueuePut(p, "check") \/ EnqueueFull(p) \/ CheckFront(p)
  \/ EPropagate(p)
DequeuerStep == ReadRootDummy \/ ReadRoot \/ TakeNothing \/ Take \/ DPropagate

Next ==
  \/ \E p \in Enqueuers : (\E n \in 1..MaxBatch : EnqueueCounts(p, n)) \/ EnqueuerStep(p)
  \/ DequeueCall \/ DequeuerStep

Spec == Init /\ [][Next]_vars

================================================================================
