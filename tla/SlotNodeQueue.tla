----------------------------- MODULE SlotNodeQueue -----------------------------
(*****************************************************************************)
(* slotqueue/slotqueue-node.hpp: class SlotNodeQueue, the SlotQueue with     *)
(* timestamps from a CsFaaCounter: ranks whose enqueues overlap may get the  *)
(* same one (see SharedCounter).                                             *)
(*****************************************************************************)
EXTENDS Slots

(* The constructor. *)
Init == Constructed(MAX)

(***************************************************************************)
(* CsFaaCounter::get_and_increment, as SharedCounter promises: a timestamp *)
(* of its own, or any that was issued since this call began (ts keeps how  *)
(* many there were then).                                                  *)
(***************************************************************************)
Counting == {p \in Ranks : enq[p].pc = "count"}
Called == {p \in Ranks : enq[p].pc # "idle"}
Accepted == UNION {{p} \X (1..accepted[p]) : p \in Ranks}

EnqueueCounts(p, n) ==
  /\ enq[p].pc = "idle"
  /\ counter + Cardinality(Counting) < MaxCalls
  /\ Cardinality(Called) + Cardinality(Accepted) < MaxCalls
  /\ enq' = [enq EXCEPT ![p] = [EnqIdle EXCEPT !.pc = "count", !.n = n, !.ts = counter]]
  /\ RecordCall(Batch(p, n))
  /\ UNCHANGED <<counter, spsc, slot, accepted, deqVars>>

(* Mutant of IssuedSince: also the last value issued before the call. *)
IssuedSinceAndLast(low) == {t \in 0..counter-1 : t >= low - 1}

IssuedSince(low) == low..counter-1

Stamped(p, ts) == enq' = [enq EXCEPT ![p].pc = "put", ![p].ts = Timestamp(ts)]

TakeTimestamp(p) ==
  /\ enq[p].pc = "count"
  /\ \/ GetAndIncrement /\ Stamped(p, counter)
     \/ \E t \in IssuedSince(enq[p].ts) : Stamped(p, t) /\ UNCHANGED counter
  /\ UNCHANGED <<spsc, slot, accepted, before, deqVars>>

(* _refreshEnqueue, _readMinimumRank, _refreshDequeue. *)
refreshEnqueue(p) == RefreshEnqueue(p)
readMinimumRank == ReadMinimumRank(TRUE)
refreshDequeue == RefreshDequeue(TRUE)

(* Either enqueue and dequeue, after the call. *)
EnqueuerStep(p) == TakeTimestamp(p) \/ EnqueuePut(p) \/ EnqueueFull(p) \/ refreshEnqueue(p)
DequeuerStep == readMinimumRank \/ Take(TRUE) \/ refreshDequeue

Next ==
  \/ \E p \in Ranks : (\E n \in 1..MaxBatch : EnqueueCounts(p, n)) \/ EnqueuerStep(p)
  \/ DequeueCall \/ DequeuerStep

Spec == Init /\ [][Next]_vars

================================================================================
