--------------------------------- MODULE Slots ---------------------------------
(***************************************************************************)
(* What the classes of slotqueue/ share.                                   *)
(*                                                                         *)
(* Every enqueuer rank owns an SPSC queue to the dequeuer and a slot at    *)
(* the dequeuer that should hold the timestamp of the SPSC's front.  An    *)
(* enqueue takes a timestamp from the shared counter, puts the stamped     *)
(* elements into its SPSC and refreshes its slot; dequeue scans the slots  *)
(* twice, dequeues from the SPSC with the smallest timestamp and refreshes *)
(* that slot.  In a `cached' class the dequeuer keeps its private copy of  *)
(* the slots, and reads one again only when the copy is MAX_TIMESTAMP.     *)
(*                                                                         *)
(* An SPSC operation is one step here: BoundedSpsc implements SpscQueue.   *)
(* A call is merged with its first remote access and a return with its     *)
(* last one, which makes calls shorter and so orders more of them.         *)
(*                                                                         *)
(* The lines are those of slotqueue/slotqueue.hpp, and those of            *)
(* slotqueue-unbounded.hpp where a class is not cached; how each class     *)
(* composes the steps into its methods is in the module of the class.      *)
(***************************************************************************)
EXTENDS Integers, Sequences, FiniteSets

CONSTANTS
  Size,          \* number of enqueuer ranks, 0..Size-1
  Capacity,      \* capacity_per_node
  MaxBatch,      \* largest vector passed to enqueue
  MaxTimestamp,  \* MAX_TIMESTAMP, all the bits of timestamp_t set
  MaxCalls       \* bound: number of calls of enqueue

ASSUME SlotsAssumption ==
  /\ Size \in Nat \ {0}
  /\ Capacity \in Nat \ {0}
  /\ MaxBatch \in Nat \ {0}
  /\ MaxTimestamp \in Nat \ {0}
  /\ MaxCalls \in Nat

VARIABLES
  counter,   \* the FaaCounter
  spsc,      \* for each rank, its SPSC: a sequence of [item, ts]
  slot,      \* _min_timestamp_ptr, the slots (window of the dequeuer)
  enq,       \* for each rank: control point and locals of its enqueue
  accepted,  \* for each rank: number of elements its returned enqueues put
  buf,       \* _min_timestamp_buf
  deq,       \* control point and locals of dequeue
  dOut,      \* what the last dequeue returned
  before,    \* history: what each element must not overtake (see MpscQueue)
  settled    \* history: elements whose enqueue returned before this dequeue

enqVars == <<enq, accepted>>
deqVars == <<buf, deq, dOut, settled>>
vars == <<counter, spsc, slot, enqVars, deqVars, before>>

Ranks == 0..Size-1
MAX == MaxTimestamp
Nothing == <<>>

(* timestamp_t keeps the low bits of the counter. *)
Timestamp(c) == c % (MaxTimestamp + 1)

EnqIdle == [pc |-> "idle", n |-> 0, ts |-> 0, old |-> 0, try |-> 1]
DeqIdle == [pc |-> "idle", next |-> 0, rank |-> 0, old |-> 0, new |-> 0, try |-> 1]

(* When the constructors have returned; copy is what the constructor of the *)
(* class leaves in the private copies.                                      *)
Constructed(copy) ==
  /\ counter = 0
  /\ spsc = [p \in Ranks |-> <<>>]
  /\ slot = [p \in Ranks |-> MAX]
  /\ enq = [p \in Ranks |-> EnqIdle]
  /\ accepted = [p \in Ranks |-> 0]
  /\ buf = [p \in Ranks |-> copy]
  /\ deq = DeqIdle
  /\ dOut = Nothing
  /\ before = [x \in {} |-> {}]
  /\ settled = {}

--------------------------------------------------------------------------------
(* History: the abstract queue the calls act on. *)

Batch(p, n) == {<<p, accepted[p] + i>> : i \in 1..n}
inQueue == DOMAIN before
returned == inQueue \ UNION {Batch(p, enq[p].n) : p \in Ranks}

RecordCall(new) ==
  before' = [x \in inQueue \cup new |->
               IF x \in new THEN returned \cup {y \in new : y[2] < x[2]} ELSE before[x]]

RecordGone(gone) == before' = [x \in inQueue \ gone |-> before[x] \ gone]

--------------------------------------------------------------------------------
(* enqueue(data) and enqueue(vector): a single element is a vector of one. *)

(* FaaCounter::get_and_increment. *)
GetAndIncrement ==
  /\ counter < MaxCalls
  /\ counter' = counter + 1

EnqueueCall(p, n) ==
  /\ enq[p].pc = "idle"
  /\ GetAndIncrement
  /\ enq' = [enq EXCEPT ![p] = [EnqIdle EXCEPT !.pc = "put", !.n = n, !.ts = Timestamp(counter)]]
  /\ RecordCall(Batch(p, n))
  /\ UNCHANGED <<spsc, slot, accepted, deqVars>>

EnqueueReturn(p) ==
  /\ enq' = [enq EXCEPT ![p] = EnqIdle]
  /\ accepted' = [accepted EXCEPT ![p] = @ + enq[p].n]

GoOn(p, pc) ==
  /\ enq' = [enq EXCEPT ![p].pc = pc]
  /\ UNCHANGED accepted

Fits(p) == Len(spsc[p]) + enq[p].n <= Capacity

Put(p) ==
  /\ enq[p].pc = "put"
  /\ spsc' = [spsc EXCEPT ![p] = @ \o [i \in 1..enq[p].n |->
                [item |-> <<p, accepted[p] + i>>, ts |-> enq[p].ts]]]
  /\ GoOn(p, "check")
  /\ UNCHANGED <<counter, slot, deqVars, before>>

EnqueuePut(p) == Fits(p) /\ Put(p)

(* The SPSC is full: the enqueue returns false, its timestamp is lost. *)
EnqueueFull(p) ==
  /\ enq[p].pc = "put"
  /\ ~Fits(p)
  /\ enq' = [enq EXCEPT ![p] = EnqIdle]
  /\ RecordGone(Batch(p, enq[p].n))
  /\ UNCHANGED <<counter, spsc, slot, accepted, deqVars>>

(* e_read_front and d_read_front as the refreshes use them. *)
FrontTimestamp(p) == IF spsc[p] = <<>> THEN MAX ELSE Head(spsc[p]).ts

(* _refreshEnqueue: the slot is this call's business only while one of its *)
(* elements is at the front.                                               *)
CheckFront(p) ==
  /\ enq[p].pc = "check"
  /\ IF FrontTimestamp(p) = enq[p].ts THEN GoOn(p, "readSlot") ELSE EnqueueReturn(p)
  /\ UNCHANGED <<counter, spsc, slot, deqVars, before>>

ReadSlot(p) ==
  /\ enq[p].pc = "readSlot"
  /\ enq' = [enq EXCEPT ![p].old = slot[p], ![p].pc = "recheck"]
  /\ UNCHANGED <<counter, spsc, slot, accepted, deqVars, before>>

(* Mutant of RecheckFront: does not look a second time. *)
RecheckFrontSkipped(p) ==
  /\ enq[p].pc = "recheck"
  /\ GoOn(p, "swap")
  /\ UNCHANGED <<counter, spsc, slot, deqVars, before>>

(* Look again: between the two looks the element may be gone, and its slot *)
(* refreshed, so that a compare-and-swap would bring its timestamp back.   *)
RecheckFront(p) ==
  /\ enq[p].pc = "recheck"
  /\ IF FrontTimestamp(p) = enq[p].ts THEN GoOn(p, "swap") ELSE EnqueueReturn(p)
  /\ UNCHANGED <<counter, spsc, slot, deqVars, before>>

SwapSlot(p) ==
  /\ enq[p].pc = "swap"
  /\ slot[p] = enq[p].old
  /\ slot' = [slot EXCEPT ![p] = enq[p].ts]
  /\ EnqueueReturn(p)
  /\ UNCHANGED <<counter, spsc, deqVars, before>>

(* Mutant of SwapSlotFails: no second refresh. *)
SwapSlotFailsOnce(p) ==
  /\ enq[p].pc = "swap"
  /\ slot[p] # enq[p].old
  /\ EnqueueReturn(p)
  /\ UNCHANGED <<counter, spsc, slot, deqVars, before>>

(* The compare-and-swap fails: refresh once more, but only once. *)
SwapSlotFails(p) ==
  /\ enq[p].pc = "swap"
  /\ slot[p] # enq[p].old
  /\ \/ /\ enq[p].try = 1
        /\ enq' = [enq EXCEPT ![p].try = 2, ![p].pc = "check"]
        /\ UNCHANGED accepted
     \/ enq[p].try = 2 /\ EnqueueReturn(p)
  /\ UNCHANGED <<counter, spsc, slot, deqVars, before>>

--------------------------------------------------------------------------------
(* dequeue. *)

DequeueCall ==
  /\ deq.pc = "idle"
  /\ deq' = [DeqIdle EXCEPT !.pc = "scan"]
  /\ settled' = returned
  /\ UNCHANGED <<counter, spsc, slot, enqVars, buf, dOut, before>>

(* The slots a scan of the ranks below limit has still to read. *)
ToRead(limit, cached) ==
  {p \in Ranks : deq.next <= p /\ p < limit /\ (cached => buf[p] = MAX)}
Lowest(S) == CHOOSE p \in S : \A r \in S : p <= r

(* _readMinimumRank: one remote read of either scan. *)
ScanSlot(limit, cached) ==
  /\ ToRead(limit, cached) # {}
  /\ LET p == Lowest(ToRead(limit, cached))
     IN  /\ buf' = [buf EXCEPT ![p] = slot[p]]
         /\ deq' = [deq EXCEPT !.next = p + 1]
  /\ UNCHANGED <<counter, spsc, slot, enqVars, dOut, settled, before>>

FirstScan(cached) == deq.pc = "scan" /\ ScanSlot(Size, cached)
SecondScan(cached) == deq.pc = "rescan" /\ ScanSlot(deq.rank, cached)

Visible == {p \in Ranks : buf[p] # MAX}

(* The first rank with the smallest timestamp. *)
Select(cached) ==
  /\ deq.pc = "scan"
  /\ ToRead(Size, cached) = {}
  /\ Visible # {}
  /\ LET least == {p \in Visible : \A r \in Visible : buf[p] <= buf[r]}
     IN  deq' = [deq EXCEPT !.pc = "rescan", !.next = 0, !.rank = Lowest(least)]
  /\ UNCHANGED <<counter, spsc, slot, enqVars, buf, dOut, settled, before>>

(* Mutant of SelectNone: scans until there is an element. *)
SelectNonePolls(cached) ==
  /\ deq.pc = "scan"
  /\ ToRead(Size, cached) = {}
  /\ Visible = {}
  /\ deq' = [deq EXCEPT !.next = 0]
  /\ UNCHANGED <<counter, spsc, slot, enqVars, buf, dOut, settled, before>>

(* Mutant of SelectNone: trusts the private copies. *)
SelectNoneUnread(cached) ==
  /\ deq.pc = "scan"
  /\ Visible = {}
  /\ deq' = DeqIdle /\ dOut' = Nothing
  /\ UNCHANGED <<counter, spsc, slot, enqVars, buf, settled, before>>

(* All slots are MAX_TIMESTAMP: dequeue returns false. *)
SelectNone(cached) ==
  /\ deq.pc = "scan"
  /\ ToRead(Size, cached) = {}
  /\ Visible = {}
  /\ deq' = DeqIdle /\ dOut' = Nothing
  /\ UNCHANGED <<counter, spsc, slot, enqVars, buf, settled, before>>

(* Mutant of Reselected: keeps the rank of the first scan. *)
ReselectedNot(rank) == rank

(***************************************************************************)
(* The second selection.  Its loop runs while i < rank and lowers rank to  *)
(* i at the first smaller timestamp, which ends it: it takes the lowest    *)
(* rank with a smaller timestamp, not the rank with the smallest.          *)
(***************************************************************************)
Reselected(rank) ==
  LET smaller == {p \in Visible : p < rank /\ buf[p] < buf[rank]}
  IN  IF smaller = {} THEN rank ELSE Lowest(smaller)

(* Mutant of Take: does not clear the private copy of the slot. *)
TakeKeepsCopy(cached) ==
  /\ deq.pc = "rescan"
  /\ ToRead(deq.rank, cached) = {}
  /\ LET rank == Reselected(deq.rank)
     IN  /\ spsc[rank] # <<>>
         /\ deq' = [DeqIdle EXCEPT !.pc = "readSlot", !.rank = rank]
         /\ dOut' = Head(spsc[rank]).item
         /\ spsc' = [spsc EXCEPT ![rank] = Tail(@)]
         /\ RecordGone({Head(spsc[rank]).item})
  /\ settled' = {}
  /\ UNCHANGED <<counter, slot, buf, enqVars>>

(* Select again and dequeue from the SPSC of that rank. *)
Take(cached) ==
  /\ deq.pc = "rescan"
  /\ ToRead(deq.rank, cached) = {}
  /\ LET rank == Reselected(deq.rank)
     IN  /\ buf' = IF cached THEN [buf EXCEPT ![rank] = MAX] ELSE buf
         /\ IF spsc[rank] = <<>>
            THEN deq' = DeqIdle /\ dOut' = Nothing /\ UNCHANGED <<spsc, before>>
            ELSE /\ deq' = [DeqIdle EXCEPT !.pc = "readSlot", !.rank = rank]
                 /\ dOut' = Head(spsc[rank]).item
                 /\ spsc' = [spsc EXCEPT ![rank] = Tail(@)]
                 /\ RecordGone({Head(spsc[rank]).item})
  /\ settled' = {}
  /\ UNCHANGED <<counter, slot, enqVars>>

(* _refreshDequeue. *)
DReadSlot ==
  /\ deq.pc = "readSlot"
  /\ deq' = [deq EXCEPT !.old = slot[deq.rank], !.pc = "front"]
  /\ UNCHANGED <<counter, spsc, slot, enqVars, buf, dOut, settled, before>>

DReadFront(cached) ==
  /\ deq.pc = "front"
  /\ deq' = [deq EXCEPT !.pc = "swap", !.new = FrontTimestamp(deq.rank)]
  /\ buf' = IF cached THEN [buf EXCEPT ![deq.rank] = FrontTimestamp(deq.rank)] ELSE buf
  /\ UNCHANGED <<counter, spsc, slot, enqVars, dOut, settled, before>>

DSwapSlot ==
  /\ deq.pc = "swap"
  /\ slot[deq.rank] = deq.old
  /\ slot' = [slot EXCEPT ![deq.rank] = deq.new]
  /\ deq' = DeqIdle
  /\ UNCHANGED <<counter, spsc, enqVars, buf, dOut, settled, before>>

(* The slot has changed meanwhile: refresh once more, but only once. *)
DSwapSlotFails ==
  /\ deq.pc = "swap"
  /\ slot[deq.rank] # deq.old
  /\ deq' = IF deq.try = 1 THEN [deq EXCEPT !.try = 2, !.pc = "readSlot"] ELSE DeqIdle
  /\ UNCHANGED <<counter, spsc, slot, enqVars, buf, dOut, settled, before>>

--------------------------------------------------------------------------------
(* _refreshEnqueue and _refreshDequeue with their repetitions, _readMinimumRank. *)
RefreshEnqueue(p) ==
  CheckFront(p) \/ ReadSlot(p) \/ RecheckFront(p) \/ SwapSlot(p) \/ SwapSlotFails(p)
RefreshDequeue(cached) == DReadSlot \/ DReadFront(cached) \/ DSwapSlot \/ DSwapSlotFails
ReadMinimumRank(cached) ==
  FirstScan(cached) \/ Select(cached) \/ SelectNone(cached) \/ SecondScan(cached)

--------------------------------------------------------------------------------
(* Type correctness. *)
Timestamps == 0..MaxTimestamp

TypeOK ==
  /\ counter \in 0..MaxCalls
  /\ \A p \in Ranks : \A i \in 1..Len(spsc[p]) :
       spsc[p][i].ts \in Timestamps /\ spsc[p][i].item \in inQueue
  /\ slot \in [Ranks -> Timestamps]
  /\ enq \in [Ranks -> [pc : {"idle", "count", "put", "check", "readSlot", "recheck", "swap"},
                        n : 0..MaxBatch, ts : Timestamps, old : Timestamps, try : 1..2]]
  /\ accepted \in [Ranks -> Nat]
  /\ buf \in [Ranks -> Timestamps]
  /\ deq \in [pc : {"idle", "scan", "rescan", "readSlot", "front", "swap"},
              next : 0..Size, rank : Ranks, old : Timestamps, new : Timestamps, try : 1..2]
  /\ dOut = Nothing \/ (dOut[1] \in Ranks /\ dOut[2] \in Nat)
  /\ settled \subseteq inQueue
  /\ \A x \in inQueue : before[x] \subseteq inQueue

Refreshing(p) == deq.pc \in {"readSlot", "front", "swap"} /\ deq.rank = p

(***************************************************************************)
(* A slot never names a timestamp that is not at the front of its SPSC,    *)
(* except while the dequeuer is about to correct it: neither a late        *)
(* compare-and-swap of an enqueue (ABA) nor two failed ones of a dequeue   *)
(* leave a stale timestamp behind.                                         *)
(***************************************************************************)
SlotIsFront == \A p \in Ranks : Refreshing(p) \/ slot[p] \in {MAX, FrontTimestamp(p)}

(***************************************************************************)
(* The dequeuer's private copy of a slot, which it may use for many calls  *)
(* without reading the slot again, is the timestamp at the front: the SPSC *)
(* of the rank it selects is never empty, nor is its minimum stale.        *)
(***************************************************************************)
BufIsFront == \A p \in Ranks : buf[p] \in {MAX, FrontTimestamp(p)}

(***************************************************************************)
(* Two failed refreshes are enough: once the enqueue of the front element  *)
(* has returned and no dequeue refreshes the slot, the slot or the         *)
(* dequeuer's copy of it shows the element (the report's lemma on          *)
(* unmatched enqueues).  Otherwise the element would be stranded, for only *)
(* its own enqueue and a dequeue from the same rank ever write the slot.   *)
(***************************************************************************)
NothingStranded ==
  \A p \in Ranks :
    spsc[p] # <<>> /\ Head(spsc[p]).item \in returned /\ ~Refreshing(p) => slot[p] # MAX \/ buf[p] # MAX

took == inQueue \ DOMAIN before'
takes == deq.pc = "rescan" /\ deq'.pc = "readSlot"

(***************************************************************************)
(* No VOrd violation: dequeue never takes an element while one whose       *)
(* enqueue had returned before the former's was called is still queued.    *)
(***************************************************************************)
NoOvertaking == [][takes => \A x \in took : before[x] = {}]_vars

(***************************************************************************)
(* What remains of it for any number of enqueuers: the elements that had   *)
(* been enqueued when dequeue was called are not overtaken.                *)
(***************************************************************************)
NoOvertakingSettled == [][takes => \A x \in took : before[x] \cap settled = {}]_vars

(***************************************************************************)
(* No VWit violation: dequeue returns false only if every element whose    *)
(* enqueue had returned when it was called is gone.                        *)
(***************************************************************************)
NoFalseEmpty == [][deq.pc \in {"scan", "rescan"} /\ deq'.pc = "idle" => settled = {}]_vars

(* Wait-freedom: every call returns, whatever the other ranks do. *)
EnqueuersReturn == \A p \in Ranks : (enq[p].pc # "idle") ~> (enq[p].pc = "idle")
DequeuerReturns == (deq.pc # "idle") ~> (deq.pc = "idle")
CallsReturn == EnqueuersReturn /\ DequeuerReturns

(* The loops of lib/benches and examples call dequeue until they have everything. *)
ConsumerKeepsCalling == WF_vars(DequeueCall)

(***************************************************************************)
(* Every element whose enqueue has returned true is dequeued in the end by *)
(* a consumer that keeps calling dequeue.  (The first Capacity + 1 of each *)
(* rank are followed: enough for the SPSC to fill and to be refilled.)     *)
(***************************************************************************)
EveryElementDequeued ==
  ConsumerKeepsCalling =>
    \A p \in Ranks, k \in 1..(Capacity + 1) :
      (<<p, k>> \in returned) ~> (<<p, k>> \notin inQueue)

--------------------------------------------------------------------------------
(***************************************************************************)
(* How many steps of its own a call can still take, with locals l: those   *)
(* of this attempt to refresh the slot, those of a second attempt, and     *)
(* those before.  A scan reads each slot at most once, the second scan at  *)
(* most those of the ranks below the selected one.                         *)
(***************************************************************************)
EnqueueSteps(l) ==
  LET retry == 4 * (2 - l.try)
  IN  CASE l.pc = "idle" -> 0
        [] l.pc = "count" -> 10
        [] l.pc = "put" -> 9
        [] l.pc = "check" -> 4 + retry
        [] l.pc = "readSlot" -> 3 + retry
        [] l.pc = "recheck" -> 2 + retry
        [] l.pc = "swap" -> 1 + retry

DequeueSteps(l) ==
  LET retry == 3 * (2 - l.try)
  IN  CASE l.pc = "idle" -> 0
        [] l.pc = "scan" -> (Size - l.next) + Size + 7
        [] l.pc = "rescan" -> (l.rank - l.next) + 7
        [] l.pc = "readSlot" -> 3 + retry
        [] l.pc = "front" -> 2 + retry
        [] l.pc = "swap" -> 1 + retry

MostEnqueueSteps == 10
MostDequeueSteps == 2 * Size + 7

--------------------------------------------------------------------------------
(***************************************************************************)
(* Linearizability.  An enqueue takes effect between its call and return;  *)
(* a dequeue when it takes from the SPSC, or finds all slots empty.        *)
(***************************************************************************)
Abstract == INSTANCE MpscQueue WITH
  Enqueuers <- Ranks,
  calling <- [p \in Ranks |-> enq[p].n],
  dState <- IF deq.pc = "idle" THEN "idle"
            ELSE IF deq.pc \in {"scan", "rescan"} THEN "called" ELSE "done"

Implements == Abstract!Spec

================================================================================
