------------------------------ MODULE BoundedSpsc ------------------------------
(***************************************************************************)
(* lib/spsc/bounded_spsc.hpp: class Spsc, as one enqueuer rank and the     *)
(* dequeuer rank run it over MPI windows.                                  *)
(*                                                                         *)
(* The ring buffer `data' lives at the enqueuer, the cursors `first' and   *)
(* `last' at the dequeuer, and a second copy of the tail, localLast, at    *)
(* the enqueuer.  Either side also keeps private copies of both cursors.   *)
(* One action is one remote access with the local statements around it; a  *)
(* group of asynchronous puts or gets completes in any order before its    *)
(* flush.  Cursors only grow; the buffer is indexed modulo Capacity.       *)
(*                                                                         *)
(* The k-th element accepted is the number k-1 (see SpscQueue).            *)
(***************************************************************************)
EXTENDS RingParameters, Sequences

VARIABLES
  data,           \* the ring buffer (window of the enqueuer)
  first, last,    \* cursors (windows of the dequeuer)
  localLast,      \* _enqueuer_local_last_ptr (window of the enqueuer)
  eFirst, eLast,  \* enqueuer: _first_buf[self], _last_buf[self]
  ePc, eOp, eN,   \* enqueuer: control point, current call, size of its vector
  ePending,       \* enqueuer: offsets whose put has not completed
  eOk, eOut,      \* enqueuer: the bool and the *output its last call returned
  dFirst, dLast,  \* dequeuer: _first_buf[e], _last_buf[e]
  cached,         \* dequeuer: _cached_data[e], the next element last
  cachedSize,     \* dequeuer: _cached_size[e]
  dPc, dOp,       \* dequeuer: control point, current call
  dPending,       \* dequeuer: offsets from dFirst whose get has not completed
  dOk, dOut,      \* dequeuer: what its last call returned
  wasEmpty        \* history: the queue was empty when the dequeuer's call began

windows == <<data, first, last, localLast>>
enqVars == <<eFirst, eLast, ePc, eOp, eN, ePending, eOk, eOut>>
deqVars == <<dFirst, dLast, cached, cachedSize, dPc, dOp, dPending, dOk, dOut, wasEmpty>>
vars == <<windows, enqVars, deqVars>>

Garbage == -1     \* what memory holds before the program writes it

Slot(k) == k % Capacity

(* The tail a dequeuer can learn of: it reads last, then localLast. *)
tail == IF last >= localLast THEN last ELSE localLast

Min2(a, b) == IF a <= b THEN a ELSE b

Init ==
  /\ data = [s \in 0..Capacity-1 |-> Garbage]
  /\ first = 0 /\ last = 0 /\ localLast = 0
  /\ eFirst = 0 /\ eLast = 0
  /\ ePc = "idle" /\ eOp = "single" /\ eN = 1 /\ ePending = {}
  /\ eOk = FALSE /\ eOut = Garbage
  /\ dFirst = 0 /\ dLast = 0
  /\ cached = [j \in 0..BatchSize-1 |-> Garbage] /\ cachedSize = 0
  /\ dPc = "idle" /\ dOp = "dequeue" /\ dPending = {}
  /\ dOk = FALSE /\ dOut = Garbage
  /\ wasEmpty = TRUE

--------------------------------------------------------------------------------
(* enqueue(data) and enqueue(vector). *)

EnqueueCall(op, n) ==
  /\ ePc = "idle"
  /\ eLast + n <= MaxItems
  /\ ePc' = "check" /\ eOp' = op /\ eN' = n
  /\ UNCHANGED <<windows, eFirst, eLast, ePending, eOk, eOut, deqVars>>

HasRoom(head) == eLast + eN - head <= Capacity

(* Go on to write the elements. *)
StartWriting ==
  /\ ePc' = "write" /\ ePending' = 0..eN-1
  /\ UNCHANGED eOk

(* The buffer has room as far as the private copy of first tells. *)
EnqueueRoom ==
  /\ ePc = "check"
  /\ HasRoom(eFirst)
  /\ StartWriting
  /\ UNCHANGED <<windows, eFirst, eLast, eOp, eN, eOut, deqVars>>

(* Mutant of EnqueueSync: trusts the refreshed copy without a second look. *)
EnqueueSyncUnchecked ==
  /\ ePc = "check"
  /\ ~HasRoom(eFirst)
  /\ eFirst' = first
  /\ StartWriting
  /\ UNCHANGED <<windows, eLast, eOp, eN, eOut, deqVars>>

(* It looks full: refresh the copy, look again, give up if it still is. *)
EnqueueSync ==
  /\ ePc = "check"
  /\ ~HasRoom(eFirst)
  /\ eFirst' = first
  /\ \/ HasRoom(first) /\ StartWriting
     \/ /\ ~HasRoom(first)
        /\ ePc' = "return" /\ eOk' = FALSE
        /\ UNCHANGED ePending
  /\ UNCHANGED <<windows, eLast, eOp, eN, eOut, deqVars>>

(* One put completes; after the flush, publish. *)
EnqueueWrite(i) ==
  /\ ePc = "write"
  /\ i \in ePending
  /\ data' = [data EXCEPT ![Slot(eLast + i)] = eLast + i]
  /\ ePending' = ePending \ {i}
  /\ ePc' = IF ePending' # {} THEN "write"
            ELSE IF eOp = "single" THEN "publishLocal" ELSE "publish"
  /\ UNCHANGED <<first, last, localLast, eFirst, eLast, eOp, eN, eOk, eOut, deqVars>>

(* A single enqueue publishes at the enqueuer, and only now and then at the *)
(* dequeuer.                                                                *)
EnqueuePublishLocal ==
  /\ ePc = "publishLocal"
  /\ localLast' = eLast + eN
  /\ ePc' = IF (eLast + eN) % PublishPeriod = 0 THEN "publish" ELSE "return"
  /\ eOk' = TRUE
  /\ UNCHANGED <<data, first, last, eFirst, eLast, eOp, eN, ePending, eOut, deqVars>>

(* A batch enqueue publishes at the dequeuer only. *)
EnqueuePublish ==
  /\ ePc = "publish"
  /\ last' = eLast + eN
  /\ ePc' = "return" /\ eOk' = TRUE
  /\ UNCHANGED <<data, first, localLast, eFirst, eLast, eOp, eN, ePending, eOut, deqVars>>

(* An enqueue that succeeded moves the private tail. *)
EReturn ==
  /\ ePc = "return"
  /\ eLast' = IF eOp # "front" /\ eOk THEN eLast + eN ELSE eLast
  /\ ePc' = "idle"
  /\ UNCHANGED <<windows, eFirst, eOp, eN, ePending, eOk, eOut, deqVars>>

--------------------------------------------------------------------------------
(* e_read_front. *)

EReadFrontCall ==
  /\ ePc = "idle"
  /\ ePc' = "front" /\ eOp' = "front"
  /\ UNCHANGED <<windows, eFirst, eLast, eN, ePending, eOk, eOut, deqVars>>

(* Everything this rank enqueued is known to be gone. *)
EReadFrontNone ==
  /\ ePc = "front"
  /\ eFirst >= eLast
  /\ ePc' = "return" /\ eOk' = FALSE
  /\ UNCHANGED <<windows, eFirst, eLast, eOp, eN, ePending, eOut, deqVars>>

(* Mutant of EReadFrontSync: reads on without a second look. *)
EReadFrontSyncUnchecked ==
  /\ ePc = "front"
  /\ eFirst < eLast
  /\ eFirst' = first
  /\ eOk' = TRUE
  /\ ePc' = "frontRead"
  /\ UNCHANGED <<windows, eLast, eOp, eN, ePending, eOut, deqVars>>

(* Otherwise refresh the copy and look again.  The code compares the whole    *)
(* vectors there: on a rank that only enqueues, all other entries are 0.    *)
EReadFrontSync ==
  /\ ePc = "front"
  /\ eFirst < eLast
  /\ eFirst' = first
  /\ eOk' = (first < eLast)
  /\ ePc' = IF first < eLast THEN "frontRead" ELSE "return"
  /\ UNCHANGED <<windows, eLast, eOp, eN, ePending, eOut, deqVars>>

EReadFrontRead ==
  /\ ePc = "frontRead"
  /\ eOut' = data[Slot(eFirst)]
  /\ ePc' = "return"
  /\ UNCHANGED <<windows, eFirst, eLast, eOp, eN, ePending, eOk, deqVars>>

--------------------------------------------------------------------------------
(* dequeue and d_read_front. *)

DCall(op) ==
  /\ dPc = "idle"
  /\ dPc' = "check" /\ dOp' = op
  /\ wasEmpty' = (tail <= first)
  /\ UNCHANGED <<windows, enqVars, dFirst, dLast, cached, cachedSize, dPending, dOk, dOut>>

(* The private copy of the tail shows an element. *)
DNonEmpty ==
  /\ dPc = "check"
  /\ dFirst < dLast
  /\ dPc' = "take"
  /\ UNCHANGED <<windows, enqVars, dFirst, dLast, cached, cachedSize, dOp, dPending, dOk,
                 dOut, wasEmpty>>

(* It does not: refresh it from the dequeuer's own window ... *)
DSyncLast ==
  /\ dPc = "check"
  /\ dFirst >= dLast
  /\ dLast' = last
  /\ dPc' = IF dFirst < last THEN "take" ELSE "checkLocal"
  /\ UNCHANGED <<windows, enqVars, dFirst, cached, cachedSize, dOp, dPending, dOk, dOut,
                 wasEmpty>>

(* Mutants of DSyncLocalLast: report an empty queue without looking at the  *)
(* enqueuer's tail, and look at the same tail again.                        *)
DSyncLocalLastSkipped ==
  /\ dPc = "checkLocal"
  /\ dPc' = "return" /\ dOk' = FALSE
  /\ UNCHANGED <<windows, enqVars, dFirst, dLast, cached, cachedSize, dOp, dPending, dOut,
                 wasEmpty>>

DSyncLocalLastRereads ==
  /\ dPc = "checkLocal"
  /\ dLast' = last
  /\ \/ dFirst < last /\ dPc' = "take" /\ UNCHANGED dOk
     \/ dFirst >= last /\ dPc' = "return" /\ dOk' = FALSE
  /\ UNCHANGED <<windows, enqVars, dFirst, cached, cachedSize, dOp, dPending, dOut, wasEmpty>>

(* Mutant of DSyncLocalLast: polls until there is an element. *)
DSyncLocalLastPolls ==
  /\ dPc = "checkLocal"
  /\ dLast' = localLast
  /\ dPc' = IF dFirst < localLast THEN "take" ELSE "check"
  /\ UNCHANGED <<windows, enqVars, dFirst, cached, cachedSize, dOp, dPending, dOk, dOut, wasEmpty>>

(* ... then from the enqueuer's, whose tail may be behind or ahead. *)
DSyncLocalLast ==
  /\ dPc = "checkLocal"
  /\ dLast' = localLast
  /\ \/ dFirst < localLast /\ dPc' = "take" /\ UNCHANGED dOk
     \/ dFirst >= localLast /\ dPc' = "return" /\ dOk' = FALSE
  /\ UNCHANGED <<windows, enqVars, dFirst, cached, cachedSize, dOp, dPending, dOut, wasEmpty>>

(* dequeue from the read-ahead cache. *)
DequeueCached ==
  /\ dPc = "take" /\ dOp = "dequeue"
  /\ cachedSize > 0
  /\ dOut' = cached[cachedSize - 1]
  /\ cachedSize' = cachedSize - 1
  /\ dPc' = "advance"
  /\ UNCHANGED <<windows, enqVars, dFirst, dLast, cached, dOp, dPending, dOk, wasEmpty>>

(* Mutant of DequeueFetch: forgets that the front is not read ahead. *)
DequeueFetchOneTooMany ==
  /\ dPc = "take" /\ dOp = "dequeue"
  /\ cachedSize = 0
  /\ cachedSize' = Min2(BatchSize, dLast - dFirst)
  /\ dPending' = 0..cachedSize'
  /\ dPc' = "fetch"
  /\ UNCHANGED <<windows, enqVars, dFirst, dLast, cached, dOp, dOk, dOut, wasEmpty>>

(* With the cache empty, read the front and up to BatchSize elements more. *)
DequeueFetch ==
  /\ dPc = "take" /\ dOp = "dequeue"
  /\ cachedSize = 0
  /\ cachedSize' = Min2(BatchSize, dLast - (dFirst + 1))
  /\ dPending' = 0..cachedSize'
  /\ dPc' = "fetch"
  /\ UNCHANGED <<windows, enqVars, dFirst, dLast, cached, dOp, dOk, dOut, wasEmpty>>

(* Mutant of ReadFrontFetch: a read-ahead not limited by _batch_size. *)
ReadFrontFetchAll ==
  /\ dPc = "take" /\ dOp = "front"
  /\ cachedSize = 0
  /\ cachedSize' = dLast - dFirst
  /\ dPending' = 0..cachedSize'-1
  /\ dPc' = "fetch"
  /\ UNCHANGED <<windows, enqVars, dFirst, dLast, cached, dOp, dOk, dOut, wasEmpty>>

(* d_read_front reads ahead the front too, and leaves it in the cache. *)
ReadFrontFetch ==
  /\ dPc = "take" /\ dOp = "front"
  /\ cachedSize = 0
  /\ cachedSize' = Min2(BatchSize, dLast - dFirst)
  /\ dPending' = 0..cachedSize'-1
  /\ dPc' = "fetch"
  /\ UNCHANGED <<windows, enqVars, dFirst, dLast, cached, dOp, dOk, dOut, wasEmpty>>

(* Mutant of CachePos: the cache is filled forwards. *)
CachePosForward(o) == IF dOp = "dequeue" THEN o - 1 ELSE o

(***************************************************************************)
(* One get completes.  Offset o from the front goes to *output when it is  *)
(* the front of a dequeue, and otherwise to the cache, filled backwards.   *)
(***************************************************************************)
CachePos(o) == IF dOp = "dequeue" THEN cachedSize - o ELSE cachedSize - 1 - o

DFetch(o) ==
  /\ dPc = "fetch"
  /\ o \in dPending
  /\ LET element == data[Slot(dFirst + o)]
     IN  IF dOp = "dequeue" /\ o = 0
         THEN dOut' = element /\ UNCHANGED cached
         ELSE cached' = [cached EXCEPT ![CachePos(o)] = element] /\ UNCHANGED dOut
  /\ dPending' = dPending \ {o}
  /\ dPc' = IF dPending' # {} THEN "fetch"
            ELSE IF dOp = "dequeue" THEN "advance" ELSE "take"
  /\ UNCHANGED <<windows, enqVars, dFirst, dLast, cachedSize, dOp, dOk, wasEmpty>>

(* Give the slot back to the enqueuer. *)
DAdvance ==
  /\ dPc = "advance"
  /\ first' = dFirst + 1
  /\ dFirst' = dFirst + 1
  /\ dPc' = "return" /\ dOk' = TRUE
  /\ UNCHANGED <<data, last, localLast, enqVars, dLast, cached, cachedSize, dOp, dPending,
                 dOut, wasEmpty>>

DReadFront ==
  /\ dPc = "take" /\ dOp = "front"
  /\ cachedSize > 0
  /\ dOut' = cached[cachedSize - 1]
  /\ dPc' = "return" /\ dOk' = TRUE
  /\ UNCHANGED <<windows, enqVars, dFirst, dLast, cached, cachedSize, dOp, dPending, wasEmpty>>

DReturn ==
  /\ dPc = "return"
  /\ dPc' = "idle"
  /\ UNCHANGED <<windows, enqVars, dFirst, dLast, cached, cachedSize, dOp, dPending, dOk, dOut,
                 wasEmpty>>

--------------------------------------------------------------------------------
EnqueuerStep ==
  \/ EnqueueRoom \/ EnqueueSync
  \/ \E i \in ePending : EnqueueWrite(i)
  \/ EnqueuePublishLocal \/ EnqueuePublish
  \/ EReadFrontNone \/ EReadFrontSync \/ EReadFrontRead
  \/ EReturn

DequeuerStep ==
  \/ DNonEmpty \/ DSyncLast \/ DSyncLocalLast
  \/ DequeueCached \/ DequeueFetch \/ ReadFrontFetch
  \/ \E o \in dPending : DFetch(o)
  \/ DAdvance \/ DReadFront
  \/ DReturn

EnqueuerCall ==
  \/ EnqueueCall("single", 1)
  \/ \E n \in 1..MaxBatch : EnqueueCall("batch", n)
  \/ EReadFrontCall

DequeuerCall == \E op \in {"dequeue", "front"} : DCall(op)

Next == EnqueuerCall \/ EnqueuerStep \/ DequeuerCall \/ DequeuerStep

Spec == Init /\ [][Next]_vars

--------------------------------------------------------------------------------
(* Type correctness. *)
TypeOK ==
  /\ data \in [0..Capacity-1 -> Int]
  /\ first \in Nat /\ last \in Nat /\ localLast \in Nat
  /\ eFirst \in Nat /\ eLast \in Nat
  /\ ePc \in {"idle", "check", "write", "publishLocal", "publish", "front", "frontRead", "return"}
  /\ eOp \in {"single", "batch", "front"}
  /\ eN \in 1..MaxBatch
  /\ ePending \subseteq 0..eN-1
  /\ eOk \in BOOLEAN /\ eOut \in Int
  /\ dFirst \in Nat /\ dLast \in Nat
  /\ cached \in [0..BatchSize-1 -> Int]
  /\ cachedSize \in 0..BatchSize
  /\ dPc \in {"idle", "check", "checkLocal", "take", "fetch", "advance", "return"}
  /\ dOp \in {"dequeue", "front"}
  /\ dPending \subseteq 0..BatchSize
  /\ dOk \in BOOLEAN /\ dOut \in Int
  /\ wasEmpty \in BOOLEAN

(***************************************************************************)
(* Every published element that has not been given back is still in its    *)
(* slot: an enqueue running on a stale copy of `first' never overwrites    *)
(* one (the room check of enqueue against the cursor dequeue writes).      *)
(***************************************************************************)
UnreadIntact == \A k \in first..tail-1 : data[Slot(k)] = k

(***************************************************************************)
(* Every get in flight reads an element that was published before the get  *)
(* was issued and that no put in flight targets, however stale the cursor  *)
(* copies of either side are.                                              *)
(***************************************************************************)
FetchIsRaceFree ==
  \A o \in dPending :
    /\ dFirst + o < tail
    /\ data[Slot(dFirst + o)] = dFirst + o
    /\ \A i \in ePending : Slot(dFirst + o) # Slot(eLast + i)

(***************************************************************************)
(* The read-ahead cache holds exactly the elements that follow the front,  *)
(* last one next, so that a hit returns what a remote read would; it was   *)
(* filled by d_read_front or by an earlier dequeue, calls ago.             *)
(***************************************************************************)
CacheFollowsFront ==
  LET next == IF dPc = "advance" \/ (dPc = "fetch" /\ dOp = "dequeue") THEN dFirst + 1 ELSE dFirst
      inFlight == {CachePos(o) : o \in dPending}
  IN  /\ cachedSize > 0 => next + cachedSize <= tail
      /\ \A j \in 0..cachedSize-1 :
           (dPc = "fetch" /\ j \in inFlight) \/ cached[j] = next + cachedSize - 1 - j

(***************************************************************************)
(* e_read_front may read its slot after the dequeuer has taken the element *)
(* in it; the slot still holds it, because only this enqueuer writes there.*)
(***************************************************************************)
EFrontStable == ePc = "frontRead" => data[Slot(eFirst)] = eFirst

(***************************************************************************)
(* The two cursor copies of each side are stale in the safe direction: the *)
(* enqueuer never believes more slots are free than are, nor the dequeuer  *)
(* that more elements are published than are, and the buffer never holds   *)
(* more than Capacity elements.                                            *)
(***************************************************************************)
StaleCopiesAreSafe ==
  /\ eFirst <= first /\ first = dFirst /\ first <= tail
  /\ dLast <= tail
  /\ tail - first <= Capacity
  /\ eLast <= tail /\ tail <= eLast + eN

--------------------------------------------------------------------------------
(***************************************************************************)
(* The class implements the abstract queue.  An enqueue takes effect when  *)
(* it writes the copy of the tail it publishes first, a dequeue when it    *)
(* writes `first', e_read_front when it reads `first'.                     *)
(***************************************************************************)
eReadsLate == ePc = "frontRead"
eDone == ePc = "return" \/ eReadsLate \/ (ePc = "publish" /\ eOp = "single")

Abstract == INSTANCE SpscQueue WITH
  q <- [i \in 1..(tail - first) |-> first + i - 1],
  added <- tail,
  eState <- IF ePc = "idle" THEN "idle" ELSE IF eDone THEN "done" ELSE "called",
  eOp <- IF eOp = "front" THEN "front" ELSE "enqueue",
  eOut <- IF eReadsLate THEN eFirst
          ELSE IF ePc = "return" /\ eOp = "front" /\ eOk THEN eOut ELSE Garbage,
  dState <- IF dPc = "idle" THEN "idle" ELSE IF dPc = "return" THEN "done" ELSE "called",
  dOut <- IF dPc = "return" /\ dOk THEN dOut ELSE Garbage

(* Linearizability of the SPSC queue. *)
Implements == Abstract!Spec

================================================================================
