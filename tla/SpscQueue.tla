------------------------------- MODULE SpscQueue -------------------------------
(***************************************************************************)
(* What the queues of lib/spsc promise to the MPSC queues built on them: a *)
(* bounded FIFO queue shared by one enqueuer and one dequeuer, each of     *)
(* which may also look at the front element.  A call takes effect in one   *)
(* step between its invocation and its return.                             *)
(*                                                                         *)
(* The k-th element ever accepted is the number k-1: the queues never look *)
(* at a payload, so numbering the elements loses nothing and makes a lost, *)
(* repeated or reordered element visible.                                  *)
(***************************************************************************)
EXTENDS Integers, Sequences

CONSTANTS
  Capacity,   \* elements the queue can hold
  MaxBatch,   \* largest vector passed to one enqueue
  MaxItems    \* bound: elements ever accepted

VARIABLES
  q,          \* the elements enqueued and not yet dequeued, oldest first
  added,      \* number of elements accepted so far
  eState,     \* enqueuer: "idle", "called" or "done"
  eOp,        \* the enqueuer's last call: "enqueue" or "front"
  eN,         \* number of elements passed to that enqueue
  eOk, eOut,  \* what it returns: its bool and, until it has returned, its *output
  dState, dOp, dOk, dOut,  \* the same for the dequeuer: "dequeue" or "front"
  wasEmpty    \* the queue was empty when the dequeuer's call began

enqVars == <<eState, eOp, eN, eOk, eOut>>
deqVars == <<dState, dOp, dOk, dOut, wasEmpty>>
vars == <<q, added, enqVars, deqVars>>

Nothing == -1   \* an *output not set

(* The n elements that follow the first k ones. *)
Following(k, n) == [i \in 1..n |-> k + i - 1]

Init ==
  /\ q = <<>>
  /\ added = 0
  /\ eState = "idle" /\ eOp = "enqueue" /\ eN = 1 /\ eOk = FALSE /\ eOut = Nothing
  /\ dState = "idle" /\ dOp = "dequeue" /\ dOk = FALSE /\ dOut = Nothing
  /\ wasEmpty = TRUE

--------------------------------------------------------------------------------
(* The enqueuer. *)

EnqueueCall(n) ==
  /\ eState = "idle"
  /\ added + n <= MaxItems
  /\ eState' = "called" /\ eOp' = "enqueue" /\ eN' = n
  /\ UNCHANGED <<q, added, eOk, eOut, deqVars>>

EReadFrontCall ==
  /\ eState = "idle"
  /\ eState' = "called" /\ eOp' = "front"
  /\ UNCHANGED <<q, added, eN, eOk, eOut, deqVars>>

(* The whole vector is accepted, in order. *)
Enqueue ==
  /\ eState = "called" /\ eOp = "enqueue"
  /\ Len(q) + eN <= Capacity
  /\ q' = q \o Following(added, eN)
  /\ added' = added + eN
  /\ eState' = "done" /\ eOk' = TRUE
  /\ UNCHANGED <<eOp, eN, eOut, deqVars>>

(* An enqueue fails only when its elements do not fit. *)
Reject ==
  /\ eState = "called" /\ eOp = "enqueue"
  /\ Len(q) + eN > Capacity
  /\ eState' = "done" /\ eOk' = FALSE
  /\ UNCHANGED <<q, added, eOp, eN, eOut, deqVars>>

EReadFront ==
  /\ eState = "called" /\ eOp = "front"
  /\ eState' = "done"
  /\ eOk' = (Len(q) > 0)
  /\ eOut' = IF Len(q) > 0 THEN Head(q) ELSE eOut
  /\ UNCHANGED <<q, added, eOp, eN, deqVars>>

EReturn ==
  /\ eState = "done"
  /\ eState' = "idle" /\ eOut' = Nothing
  /\ UNCHANGED <<q, added, eOp, eN, eOk, deqVars>>

--------------------------------------------------------------------------------
(* The dequeuer. *)

DCall(op) ==
  /\ dState = "idle"
  /\ dState' = "called" /\ dOp' = op /\ wasEmpty' = (Len(q) = 0)
  /\ UNCHANGED <<q, added, enqVars, dOk, dOut>>

Dequeue ==
  /\ dState = "called" /\ dOp = "dequeue"
  /\ Len(q) > 0
  /\ q' = Tail(q)
  /\ dState' = "done" /\ dOk' = TRUE /\ dOut' = Head(q)
  /\ UNCHANGED <<added, enqVars, dOp, wasEmpty>>

DReadFront ==
  /\ dState = "called" /\ dOp = "front"
  /\ Len(q) > 0
  /\ dState' = "done" /\ dOk' = TRUE /\ dOut' = Head(q)
  /\ UNCHANGED <<q, added, enqVars, dOp, wasEmpty>>

(***************************************************************************)
(* A call of the dequeuer fails only when the queue was empty at some      *)
(* moment of the call; only the dequeuer removes elements, so the moment   *)
(* of its invocation is one of them.                                       *)
(***************************************************************************)
DEmpty ==
  /\ dState = "called"
  /\ wasEmpty
  /\ dState' = "done" /\ dOk' = FALSE
  /\ UNCHANGED <<q, added, enqVars, dOp, dOut, wasEmpty>>

DReturn ==
  /\ dState = "done"
  /\ dState' = "idle" /\ dOut' = Nothing
  /\ UNCHANGED <<q, added, enqVars, dOp, dOk, wasEmpty>>

--------------------------------------------------------------------------------
Next ==
  \/ \E n \in 1..MaxBatch : EnqueueCall(n)
  \/ Enqueue \/ Reject
  \/ EReadFrontCall \/ EReadFront
  \/ EReturn
  \/ \E op \in {"dequeue", "front"} : DCall(op)
  \/ Dequeue \/ DReadFront \/ DEmpty
  \/ DReturn

Spec == Init /\ [][Next]_vars

================================================================================
