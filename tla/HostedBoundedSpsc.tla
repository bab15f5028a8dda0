--------------------------- MODULE HostedBoundedSpsc ---------------------------
(***************************************************************************)
(* lib/spsc/hosted_bounded_spsc.hpp: class HostedBoundedSpsc, as enqueuer  *)
(* Rank and the dequeuer run it.                                           *)
(*                                                                         *)
(* The class is Spsc but for the home of the elements: the dequeuer hosts  *)
(* one window for the rings of all ranks, each at its start_offset.  The   *)
(* model keeps that window; every statement of the class runs on it as     *)
(* the same statement of Spsc would run on a ring of the enqueuer's own,   *)
(* and the other enqueuers put their elements into it at any time.         *)
(***************************************************************************)
EXTENDS RingParameters, Sequences

CONSTANTS
  CommSize,       \* _comm_size
  Rank,           \* the enqueuer observed
  DequeuerRank    \* _dequeuer_rank

ASSUME HostedBoundedSpscAssumption ==
  /\ CommSize \in Nat \ {0}
  /\ Rank \in 0..CommSize-1 /\ DequeuerRank \in 0..CommSize-1
  /\ Capacity * CommSize <= 2147483647     \* start_offset returns an int

VARIABLES
  window,         \* _data_win (window of the dequeuer)
  first, last, localLast, eFirst, eLast, ePc, eOp, eN, ePending, eOk, eOut,
  dFirst, dLast, cached, cachedSize, dPc, dOp, dPending, dOk, dOut,
  wasEmpty        \* as in BoundedSpsc

cells == <<first, last, localLast>>
enqVars == <<eFirst, eLast, ePc, eOp, eN, ePending, eOk, eOut>>
deqVars == <<dFirst, dLast, cached, cachedSize, dPc, dOp, dPending, dOk, dOut, wasEmpty>>
vars == <<window, cells, enqVars, deqVars>>

Others == (0..CommSize-1) \ {Rank, DequeuerRank}
Foreign == -2     \* an element of another enqueuer, or the garbage before it

(* Mutant of start_offset: one slot too few per rank. *)
start_offset_short(rank) == (Capacity - 1) * rank

start_offset(rank) == Capacity * rank

(* The ring of the class Spsc, as it lies in the window. *)
Ring == INSTANCE BoundedSpsc WITH
  data <- [s \in 0..Capacity-1 |-> window[start_offset(Rank) + s]]

Init ==
  /\ window = [a \in 0..Capacity*CommSize-1 |->
                 IF a - start_offset(Rank) \in 0..Capacity-1 THEN Ring!Garbage ELSE Foreign]
  /\ Ring!Init

--------------------------------------------------------------------------------
(* The methods, call to return. *)

(* What both enqueues do before and after they write to the window. *)
EnqueueRest ==
  /\ UNCHANGED window
  /\ Ring!EnqueueRoom \/ Ring!EnqueueSync \/ Ring!EnqueuePublish \/ Ring!EReturn

(* Element i of the vector arrives in the window. *)
EnqueueWrite(i) ==
  /\ i \in ePending
  /\ window' = [window EXCEPT ![start_offset(Rank) + Ring!Slot(eLast + i)] = eLast + i]
  /\ Ring!EnqueueWrite(i)

EnqueueElement ==
  \/ UNCHANGED window /\ Ring!EnqueueCall("single", 1)
  \/ eOp = "single" /\ (EnqueueRest \/ EnqueueWrite(0))
  \/ UNCHANGED window /\ Ring!EnqueuePublishLocal

EnqueueVector ==
  \/ UNCHANGED window /\ \E n \in 1..MaxBatch : Ring!EnqueueCall("batch", n)
  \/ eOp = "batch" /\ (EnqueueRest \/ \E i \in ePending : EnqueueWrite(i))

e_read_front ==
  /\ UNCHANGED window
  /\ \/ Ring!EReadFrontCall
     \/ Ring!EReadFrontNone \/ Ring!EReadFrontSync \/ Ring!EReadFrontRead
     \/ eOp = "front" /\ Ring!EReturn

(* What dequeue and d_read_front have in common: is there an element? *)
DequeuerRest ==
  Ring!DNonEmpty \/ Ring!DSyncLast \/ Ring!DSyncLocalLast \/ Ring!DReturn

dequeue ==
  /\ UNCHANGED window
  /\ \/ Ring!DCall("dequeue")
     \/ Ring!DequeueCached \/ Ring!DequeueFetch \/ Ring!DAdvance
     \/ dOp = "dequeue" /\ (DequeuerRest \/ \E o \in dPending : Ring!DFetch(o))

d_read_front ==
  /\ UNCHANGED window
  /\ \/ Ring!DCall("front")
     \/ Ring!ReadFrontFetch \/ Ring!DReadFront
     \/ dOp = "front" /\ (DequeuerRest \/ \E o \in dPending : Ring!DFetch(o))

(* Another enqueuer puts an element into its own ring. *)
OtherWrites ==
  /\ \E r \in Others, s \in 0..Capacity-1 :
       window' = [window EXCEPT ![start_offset(r) + s] = Foreign]
  /\ UNCHANGED <<cells, enqVars, deqVars>>

Next ==
  \/ EnqueueElement \/ EnqueueVector \/ e_read_front
  \/ dequeue \/ d_read_front
  \/ OtherWrites

Spec == Init /\ [][Next]_vars

(***************************************************************************)
(* A rank that has called an operation keeps executing it: the operating   *)
(* system schedules it and no remote access blocks.  Nothing makes either  *)
(* side call, so ScheduledSpec is what wait-freedom has to hold under.     *)
(***************************************************************************)
EnqueuerStep == ePc # "idle" /\ (EnqueueElement \/ EnqueueVector \/ e_read_front)
DequeuerStep == dPc # "idle" /\ (dequeue \/ d_read_front)

ScheduledSpec == Spec /\ WF_vars(EnqueuerStep) /\ WF_vars(DequeuerStep)

--------------------------------------------------------------------------------
(* Type correctness. *)
TypeOK == window \in [0..Capacity*CommSize-1 -> Int] /\ Ring!TypeOK

(***************************************************************************)
(* The properties of BoundedSpsc (see there), for a ring that the other    *)
(* enqueuers' rings surround and whose elements are remote to the enqueuer *)
(* and local to the dequeuer.                                              *)
(***************************************************************************)

(* Published elements stay in their slots, whoever else writes to the window. *)
UnreadIntact == Ring!UnreadIntact

(* No get in flight reads a slot that is being written or not published. *)
FetchIsRaceFree == Ring!FetchIsRaceFree

(* The read-ahead cache holds the elements that follow the front. *)
CacheFollowsFront == Ring!CacheFollowsFront

(* e_read_front finds its element even when dequeue has taken it meanwhile. *)
EFrontStable == Ring!EFrontStable

(* Stale copies of the cursors err on the safe side. *)
StaleCopiesAreSafe == Ring!StaleCopiesAreSafe

(* Wait-freedom: no operation of either side goes on for ever, whatever the *)
(* other side does.                                                         *)
CallsReturn == []<>(ePc = "idle") /\ []<>(dPc = "idle")

(* The loops of lib/benches and examples call dequeue until they have everything. *)
ConsumerKeepsCalling == SF_vars(UNCHANGED window /\ Ring!DCall("dequeue"))

(***************************************************************************)
(* Every element published reaches a consumer that keeps calling dequeue,  *)
(* whichever of the two copies of the tail the enqueue wrote: as MaxItems  *)
(* are published at most, the queue is empty again at last.                *)
(***************************************************************************)
EveryElementDequeued ==
  ConsumerKeepsCalling => (Ring!tail > first ~> Ring!tail = first)

(* The hosted class is a linearizable SPSC queue too. *)
Implements == Ring!Implements

================================================================================
