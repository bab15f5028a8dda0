------------------------------- MODULE MpscQueue -------------------------------
(***************************************************************************)
(* What the MPSC queues promise: one FIFO queue shared by many enqueuers   *)
(* and one dequeuer, as the report defines linearizability of an MPSC      *)
(* queue by the violations it excludes (chapters/theoretical-aspects:      *)
(* VFresh, VRepet, VOrd, VWit).                                            *)
(*                                                                         *)
(* The k-th element enqueuer p has accepted is the pair <<p, k>>.  Instead *)
(* of a total order on elements the state keeps, for each element that may *)
(* be dequeued, those it must not overtake: the elements whose enqueue     *)
(* returned before its own was invoked, and its predecessors in a vector.  *)
(***************************************************************************)
EXTENDS Integers, FiniteSets

CONSTANTS
  Enqueuers,
  Capacity,   \* elements of one enqueuer the queue can hold
  MaxBatch    \* largest vector passed to one enqueue

VARIABLES
  before,     \* for each enqueued element: those it must not overtake
  accepted,   \* for each enqueuer: number of elements accepted so far
  calling,    \* for each enqueuer: size of the vector being enqueued, or 0
  dState,     \* dequeuer: "idle", "called" or "done"
  settled,    \* elements whose enqueue had returned when dequeue was called
  dOut        \* what the last dequeue returned

vars == <<before, accepted, calling, dState, settled, dOut>>

Nothing == <<>>   \* dequeue returned false

(* The elements a call of enqueuer p with a vector of n elements adds. *)
Batch(p, n) == {<<p, accepted[p] + i>> : i \in 1..n}

inQueue == DOMAIN before
returned == inQueue \ UNION {Batch(p, calling[p]) : p \in Enqueuers}

(* The orders after elements have left the queue. *)
Without(gone) == [x \in inQueue \ gone |-> before[x] \ gone]

Init ==
  /\ before = [x \in {} |-> {}]
  /\ accepted = [p \in Enqueuers |-> 0]
  /\ calling = [p \in Enqueuers |-> 0]
  /\ dState = "idle" /\ settled = {} /\ dOut = Nothing

--------------------------------------------------------------------------------
EnqueueCall(p, n) ==
  /\ calling[p] = 0
  /\ calling' = [calling EXCEPT ![p] = n]
  /\ LET new == Batch(p, n)
     IN  before' = [x \in inQueue \cup new |->
                      IF x \in new THEN returned \cup {y \in new : y[2] < x[2]} ELSE before[x]]
  /\ UNCHANGED <<accepted, dState, settled, dOut>>

(* The enqueue returns true; its elements may be gone already. *)
EnqueueReturn(p) ==
  /\ calling[p] > 0
  /\ accepted' = [accepted EXCEPT ![p] = @ + calling[p]]
  /\ calling' = [calling EXCEPT ![p] = 0]
  /\ UNCHANGED <<before, dState, settled, dOut>>

(* The enqueue returns false, which it may only when its vector does not fit; *)
(* then none of it is ever dequeued.                                          *)
EnqueueReject(p) ==
  /\ calling[p] > 0
  /\ Batch(p, calling[p]) \subseteq inQueue
  /\ Cardinality({x \in inQueue : x[1] = p}) > Capacity
  /\ before' = Without(Batch(p, calling[p]))
  /\ calling' = [calling EXCEPT ![p] = 0]
  /\ UNCHANGED <<accepted, dState, settled, dOut>>

DequeueCall ==
  /\ dState = "idle"
  /\ dState' = "called" /\ settled' = returned
  /\ UNCHANGED <<before, accepted, calling, dOut>>

(* Take an element that overtakes none. *)
DequeueItem(x) ==
  /\ dState = "called"
  /\ before[x] = {}
  /\ before' = Without({x})
  /\ dState' = "done" /\ settled' = {} /\ dOut' = x
  /\ UNCHANGED <<accepted, calling>>

DequeueReturn ==
  /\ dState = "done"
  /\ dState' = "idle"
  /\ UNCHANGED <<before, accepted, calling, settled, dOut>>

(* dequeue may return false only if no element had been enqueued for certain. *)
DequeueEmpty ==
  /\ dState = "called"
  /\ settled = {}
  /\ dState' = "idle" /\ dOut' = Nothing
  /\ UNCHANGED <<before, accepted, calling, settled>>

Next ==
  \/ \E p \in Enqueuers :
       \/ \E n \in 1..MaxBatch : EnqueueCall(p, n)
       \/ EnqueueReturn(p) \/ EnqueueReject(p)
  \/ DequeueCall \/ DequeueReturn \/ DequeueEmpty
  \/ \E x \in inQueue : DequeueItem(x)

Spec == Init /\ [][Next]_vars

================================================================================
