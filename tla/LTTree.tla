--------------------------------- MODULE LTTree ---------------------------------
(***************************************************************************)
(* The dLTQueue of the report: what the six classes of ltqueue/ share.     *)
(*                                                                         *)
(* Every rank owns an SPSC queue to the dequeuer, a timestamp that should  *)
(* be the one of the SPSC's front, and a leaf of a binary tree; an inner   *)
(* node should hold the rank with the smallest timestamp below it.         *)
(* dequeue takes from the SPSC of the rank in the root.  Whoever changed   *)
(* an SPSC then refreshes its timestamp, its leaf and the nodes up to the  *)
(* root, each at most twice.  The _e_ and _d_ methods run the same         *)
(* statements, so each action here stands for both.                        *)
(*                                                                         *)
(* A tag is compared only with the tag an earlier read of the same cell    *)
(* returned.  So the cells carry none here: a caller that has read a cell  *)
(* is `fresh' until a compare-and-swap of another caller changes the cell. *)
(* Tags and timestamps that wrap around are left out (see Slots).          *)
(*                                                                         *)
(* An SPSC operation is one step (see SpscQueue).  The lines are those of  *)
(* ltqueue/ltqueue.hpp; how each class composes the steps into its methods *)
(* is in the module of the class.                                          *)
(***************************************************************************)
EXTENDS Integers, Sequences, FiniteSets

CONSTANTS
  Processes,   \* number of ranks, 0..Processes-1
  Dequeuer,    \* _dequeuer_rank
  Enqueuers,   \* the ranks that enqueue
  Capacity,    \* capacity_per_node
  MaxBatch,    \* largest vector passed to enqueue
  MaxCalls     \* bound: number of calls of enqueue

ASSUME LTTreeAssumption ==
  /\ Processes \in Nat \ {0}
  /\ Dequeuer \in 0..Processes-1
  /\ Enqueuers \subseteq 0..Processes-1 /\ Dequeuer \notin Enqueuers
  /\ Capacity \in Nat \ {0}
  /\ MaxBatch \in Nat \ {0}
  /\ MaxCalls \in Nat

VARIABLES
  counter,   \* the FaaCounter
  spsc,      \* for each enqueuer, its SPSC: a sequence of [item, ts]
  stamp,     \* _min_timestamp_ptr: a timestamp for each enqueuer
  tree,      \* _tree_ptr: a rank in each node
  call,      \* for each caller: control point and locals of its call
  accepted,  \* for each enqueuer: number of elements its returned enqueues put
  dOut,      \* what the last dequeue returned
  before,    \* history: what each element must not overtake (see MpscQueue)
  settled,   \* history: elements whose enqueue returned before this dequeue
  raced      \* history: an enqueue and a dequeue have refreshed one rank at once

vars == <<counter, spsc, stamp, tree, call, accepted, dOut, before, settled, raced>>

Callers == Enqueuers \cup {Dequeuer}
MAX == MaxCalls     \* MAX_TIMESTAMP: larger than every timestamp issued
DUMMY == -1         \* DUMMY_RANK
Nothing == <<>>

--------------------------------------------------------------------------------
(* The tree: an array of which the second half are the leaves. *)
Nodes == 0..(2 * Processes - 1)
Leaf(rank) == Processes + rank
Parent(index) == (index - 1) \div 2
Left(index) == 2 * index + 1
Right(index) == 2 * index + 2

(***************************************************************************)
(* A caller's locals.  rank is the rank it refreshes for, index the node   *)
(* at hand, child the child it looks at, seen the rank found there, value  *)
(* what its compare-and-swap will write, and least value's timestamp.      *)
(***************************************************************************)
Idle == [pc |-> "idle", rank |-> DUMMY, n |-> 0, ts |-> 0, try |-> 1, fresh |-> FALSE,
         index |-> 0, child |-> 0, seen |-> DUMMY, value |-> DUMMY, least |-> MAX]

(* The members and the history when the constructors return. *)
NoCalls ==
  /\ counter = 0
  /\ spsc = [p \in Enqueuers |-> <<>>]
  /\ call = [c \in Callers |-> Idle]
  /\ accepted = [p \in Enqueuers |-> 0]
  /\ dOut = Nothing
  /\ before = [x \in {} |-> {}]
  /\ settled = {}
  /\ raced = FALSE

Goto(c, locals) == call' = [call EXCEPT ![c] = locals]

--------------------------------------------------------------------------------
(* History: the abstract queue the calls act on. *)

Batch(p, n) == {<<p, accepted[p] + i>> : i \in 1..n}
inQueue == DOMAIN before
returned == inQueue \ UNION {Batch(p, call[p].n) : p \in Enqueuers}

RecordCall(new) ==
  before' = [x \in inQueue \cup new |->
               IF x \in new THEN returned \cup {y \in new : y[2] < x[2]} ELSE before[x]]

RecordGone(gone) == before' = [x \in inQueue \ gone |-> before[x] \ gone]

--------------------------------------------------------------------------------
(* enqueue(data) and enqueue(vector): a single element is a vector of one. *)

(* FaaCounter::get_and_increment. *)
GetAndIncrement ==
  /\ counter < MaxCalls
  /\ counter' = counter + 1

EnqueueCall(p, n) ==
  /\ call[p].pc = "idle"
  /\ GetAndIncrement
  /\ Goto(p, [Idle EXCEPT !.pc = "put", !.rank = p, !.n = n, !.ts = counter])
  /\ RecordCall(Batch(p, n))
  /\ UNCHANGED <<spsc, stamp, tree, accepted, dOut, settled, raced>>

Fits(p) == Len(spsc[p]) + call[p].n <= Capacity

Refreshing(c) == call[c].pc \notin {"idle", "count", "put", "check", "root", "take"}

(* The dequeuer is refreshing for rank p. *)
Serves(p) == Refreshing(Dequeuer) /\ call[Dequeuer].rank = p

(* The elements are put; pc is where the class goes on. *)
Put(p, pc) ==
  /\ call[p].pc = "put"
  /\ spsc' = [spsc EXCEPT ![p] = @ \o [i \in 1..call[p].n |->
                [item |-> <<p, accepted[p] + i>>, ts |-> call[p].ts]]]
  /\ Goto(p, [call[p] EXCEPT !.pc = pc])
  /\ raced' = (raced \/ (pc = "front" /\ Serves(p)))
  /\ UNCHANGED <<counter, stamp, tree, accepted, dOut, before, settled>>

EnqueuePut(p, pc) == Fits(p) /\ Put(p, pc)

(* The SPSC is full: the enqueue returns false, its timestamp is lost. *)
EnqueueFull(p) ==
  /\ call[p].pc = "put"
  /\ ~Fits(p)
  /\ Goto(p, Idle)
  /\ RecordGone(Batch(p, call[p].n))
  /\ UNCHANGED <<counter, spsc, stamp, tree, accepted, dOut, settled, raced>>

(* e_read_front and d_read_front as the refreshes use them. *)
FrontTimestamp(p) == IF spsc[p] = <<>> THEN MAX ELSE Head(spsc[p]).ts

Accept(c) ==
  accepted' = IF c \in Enqueuers THEN [accepted EXCEPT ![c] = @ + call[c].n] ELSE accepted

(* Another rank's element is at the front, or this one is gone already. *)
CheckFront(p) ==
  /\ call[p].pc = "check"
  /\ \/ /\ FrontTimestamp(p) = call[p].ts
        /\ Goto(p, [call[p] EXCEPT !.pc = "front"])
        /\ raced' = (raced \/ Serves(p))
        /\ UNCHANGED accepted
     \/ /\ FrontTimestamp(p) # call[p].ts
        /\ Goto(p, Idle)
        /\ Accept(p)
        /\ UNCHANGED raced
  /\ UNCHANGED <<counter, spsc, stamp, tree, dOut, before, settled>>

--------------------------------------------------------------------------------
(* _e_propagate and _d_propagate, and the refreshes they call. *)

(* The locals at the start of a refresh. *)
Start(c, pc, index) ==
  [Idle EXCEPT !.pc = pc, !.rank = call[c].rank, !.n = call[c].n, !.index = index]

(* The cell a caller has read for its compare-and-swap. *)
Cell(locals) ==
  IF locals.pc = "swapStamp" THEN <<"stamp", locals.rank>>
  ELSE IF locals.pc \in {"swapLeaf", "child", "childStamp", "swapNode"} THEN <<"tree", locals.index>>
  ELSE <<>>

(* Mutant of EndAttempt: no second attempt. *)
EndAttemptOnce(c, again, done) ==
  LET Seen(b) == call[c].fresh /\ Cell(call[b]) = Cell(call[c])
  IN  call' = [b \in Callers |-> IF b = c THEN done
                                 ELSE IF Seen(b) THEN [call[b] EXCEPT !.fresh = FALSE]
                                 ELSE call[b]]

(* Mutant of EndAttempt: attempts until one succeeds. *)
EndAttemptSucceeds(c, again, done) ==
  LET Seen(b) == call[c].fresh /\ Cell(call[b]) = Cell(call[c])
  IN  call' = [b \in Callers |-> IF b = c THEN IF call[c].fresh THEN done ELSE again
                                 ELSE IF Seen(b) THEN [call[b] EXCEPT !.fresh = FALSE]
                                 ELSE call[b]]

(***************************************************************************)
(* The end of one attempt to refresh a cell.  The compare-and-swap fails   *)
(* if another one changed the cell since it was read, and lets all others  *)
(* under way on the cell fail if it succeeds.  After a failure the caller  *)
(* makes one more attempt, and then goes on anyway.                        *)
(***************************************************************************)
EndAttempt(c, again, done) ==
  LET own == IF call[c].fresh \/ call[c].try = 2 THEN done ELSE [again EXCEPT !.try = 2]
      Seen(b) == call[c].fresh /\ Cell(call[b]) = Cell(call[c])
  IN  call' = [b \in Callers |-> IF b = c THEN own
                                 ELSE IF Seen(b) THEN [call[b] EXCEPT !.fresh = FALSE]
                                 ELSE call[b]]

(* _e_refresh_timestamp, _d_refresh_timestamp: the front is read first. *)
ReadFront(c) ==
  /\ call[c].pc = "front"
  /\ Goto(c, [call[c] EXCEPT !.pc = "stamp", !.value = FrontTimestamp(call[c].rank)])
  /\ UNCHANGED <<counter, spsc, stamp, tree, accepted, dOut, before, settled, raced>>

ReadStamp(c) ==
  /\ call[c].pc = "stamp"
  /\ Goto(c, [call[c] EXCEPT !.pc = "swapStamp", !.fresh = TRUE])
  /\ UNCHANGED <<counter, spsc, stamp, tree, accepted, dOut, before, settled, raced>>

SwapStamp(c) ==
  LET rank == call[c].rank
  IN  /\ call[c].pc = "swapStamp"
      /\ stamp' = IF call[c].fresh THEN [stamp EXCEPT ![rank] = call[c].value] ELSE stamp
      /\ EndAttempt(c, Start(c, "front", 0), Start(c, "leafStamp", Leaf(rank)))
      /\ UNCHANGED <<counter, spsc, tree, accepted, dOut, before, settled, raced>>

(* _e_refresh_self_node, _d_refresh_self_node: the timestamp is read first. *)
ReadLeafStamp(c) ==
  LET rank == call[c].rank
  IN  /\ call[c].pc = "leafStamp"
      /\ Goto(c, [call[c] EXCEPT !.pc = "leaf", !.value = IF stamp[rank] = MAX THEN DUMMY ELSE rank])
      /\ UNCHANGED <<counter, spsc, stamp, tree, accepted, dOut, before, settled, raced>>

ReadLeaf(c) ==
  /\ call[c].pc = "leaf"
  /\ Goto(c, [call[c] EXCEPT !.pc = "swapLeaf", !.fresh = TRUE])
  /\ UNCHANGED <<counter, spsc, stamp, tree, accepted, dOut, before, settled, raced>>

Written(c) == IF call[c].fresh THEN [tree EXCEPT ![call[c].index] = call[c].value] ELSE tree

SwapLeaf(c) ==
  LET leaf == call[c].index
  IN  /\ call[c].pc = "swapLeaf"
      /\ tree' = Written(c)
      /\ EndAttempt(c, Start(c, "leafStamp", leaf), Start(c, "node", Parent(leaf)))
      /\ UNCHANGED <<counter, spsc, stamp, accepted, dOut, before, settled, raced>>

(* _e_refresh, _d_refresh: the node is read before its children. *)
ReadNode(c) ==
  /\ call[c].pc = "node"
  /\ Goto(c, [call[c] EXCEPT !.pc = "child", !.fresh = TRUE, !.child = Left(call[c].index)])
  /\ UNCHANGED <<counter, spsc, stamp, tree, accepted, dOut, before, settled, raced>>

(* Mutant of Onward: reads the node after its children. *)
OnwardReadsNode(locals) ==
  LET more == locals.child = Left(locals.index) /\ Right(locals.index) \in Nodes
  IN  [locals EXCEPT !.pc = IF more THEN "child" ELSE "swapNode", !.fresh = TRUE,
                     !.child = IF more THEN Right(locals.index) ELSE 0, !.seen = DUMMY]

(* The next child, or the compare-and-swap when there is none. *)
Onward(locals) ==
  LET more == locals.child = Left(locals.index) /\ Right(locals.index) \in Nodes
  IN  [locals EXCEPT !.pc = IF more THEN "child" ELSE "swapNode",
                     !.child = IF more THEN Right(locals.index) ELSE 0, !.seen = DUMMY]

ReadChild(c) ==
  LET rank == tree[call[c].child]
  IN  /\ call[c].pc = "child"
      /\ Goto(c, IF rank = DUMMY THEN Onward(call[c])
                 ELSE [call[c] EXCEPT !.pc = "childStamp", !.seen = rank])
      /\ UNCHANGED <<counter, spsc, stamp, tree, accepted, dOut, before, settled, raced>>

(* Mutant of ReadChildStamp: the last child that names a rank wins. *)
ReadChildStampLast(c) ==
  LET rank == call[c].seen
  IN  /\ call[c].pc = "childStamp"
      /\ Goto(c, Onward([call[c] EXCEPT !.value = rank, !.least = stamp[rank]]))
      /\ UNCHANGED <<counter, spsc, stamp, tree, accepted, dOut, before, settled, raced>>

ReadChildStamp(c) ==
  LET rank == call[c].seen
  IN  /\ call[c].pc = "childStamp"
      /\ Goto(c, Onward(IF stamp[rank] < call[c].least
                        THEN [call[c] EXCEPT !.value = rank, !.least = stamp[rank]]
                        ELSE call[c]))
      /\ UNCHANGED <<counter, spsc, stamp, tree, accepted, dOut, before, settled, raced>>

(* Below the root go on with the parent; at the root the call returns. *)
SwapNode(c) ==
  LET index == call[c].index
      last == index = 0 /\ (call[c].fresh \/ call[c].try = 2)
  IN  /\ call[c].pc = "swapNode"
      /\ tree' = Written(c)
      /\ EndAttempt(c, Start(c, "node", index),
                    IF index = 0 THEN Idle ELSE Start(c, "node", Parent(index)))
      /\ IF last THEN Accept(c) ELSE UNCHANGED accepted
      /\ UNCHANGED <<counter, spsc, stamp, dOut, before, settled, raced>>

--------------------------------------------------------------------------------
(* dequeue. *)

DequeueCall ==
  /\ call[Dequeuer].pc = "idle"
  /\ Goto(Dequeuer, [Idle EXCEPT !.pc = "root"])
  /\ settled' = returned
  /\ UNCHANGED <<counter, spsc, stamp, tree, accepted, dOut, before, raced>>

ReturnFalse ==
  /\ Goto(Dequeuer, Idle)
  /\ dOut' = Nothing
  /\ settled' = {}

(* No rank in the root: dequeue returns false. *)
ReadRootDummy ==
  /\ call[Dequeuer].pc = "root"
  /\ tree[0] = DUMMY
  /\ ReturnFalse
  /\ UNCHANGED <<counter, spsc, stamp, tree, accepted, before, raced>>

ReadRoot ==
  /\ call[Dequeuer].pc = "root"
  /\ tree[0] # DUMMY
  /\ Goto(Dequeuer, [Idle EXCEPT !.pc = "take", !.rank = tree[0]])
  /\ UNCHANGED <<counter, spsc, stamp, tree, accepted, dOut, before, settled, raced>>

(* Mutant of TakeNothing: reads the root again. *)
TakeNothingPolls ==
  /\ call[Dequeuer].pc = "take"
  /\ spsc[call[Dequeuer].rank] = <<>>
  /\ Goto(Dequeuer, [Idle EXCEPT !.pc = "root"])
  /\ UNCHANGED <<counter, spsc, stamp, tree, accepted, dOut, before, settled, raced>>

(* The SPSC of the rank in the root is empty: dequeue returns false too. *)
TakeNothing ==
  /\ call[Dequeuer].pc = "take"
  /\ spsc[call[Dequeuer].rank] = <<>>
  /\ ReturnFalse
  /\ UNCHANGED <<counter, spsc, stamp, tree, accepted, before, raced>>

Take ==
  LET rank == call[Dequeuer].rank
  IN  /\ call[Dequeuer].pc = "take"
      /\ spsc[rank] # <<>>
      /\ Goto(Dequeuer, Start(Dequeuer, "front", 0))
      /\ dOut' = Head(spsc[rank]).item
      /\ spsc' = [spsc EXCEPT ![rank] = Tail(@)]
      /\ RecordGone({Head(spsc[rank]).item})
      /\ settled' = {}
      /\ raced' = (raced \/ Refreshing(rank))
      /\ UNCHANGED <<counter, stamp, tree, accepted>>

--------------------------------------------------------------------------------
(* The refreshes of the three kinds of cells. *)
RefreshTimestamp(c) == ReadFront(c) \/ ReadStamp(c) \/ SwapStamp(c)
RefreshSelfNode(c) == ReadLeafStamp(c) \/ ReadLeaf(c) \/ SwapLeaf(c)
RefreshNode(c) == ReadNode(c) \/ ReadChild(c) \/ ReadChildStamp(c) \/ SwapNode(c)

--------------------------------------------------------------------------------
(* Type correctness. *)
Timestamps == 0..MAX
RanksOrDummy == Enqueuers \cup {DUMMY}

TypeOK ==
  /\ counter \in 0..MaxCalls
  /\ \A p \in Enqueuers : \A i \in 1..Len(spsc[p]) :
       spsc[p][i].ts \in 0..counter-1 /\ spsc[p][i].item \in inQueue
  /\ stamp \in [Enqueuers -> Timestamps]
  /\ tree \in [Nodes -> RanksOrDummy]
  /\ call \in [Callers ->
       [pc : {"idle", "count", "put", "check", "root", "take", "front", "stamp", "swapStamp", "leafStamp",
              "leaf", "swapLeaf", "node", "child", "childStamp", "swapNode"},
        rank : RanksOrDummy, n : 0..MaxBatch, ts : Timestamps, try : 1..2, fresh : BOOLEAN,
        index : Nodes, child : Nodes, seen : RanksOrDummy,
        value : RanksOrDummy \cup Timestamps, least : Timestamps]]
  /\ accepted \in [Enqueuers -> Nat]
  /\ dOut = Nothing \/ (dOut[1] \in Enqueuers /\ dOut[2] \in Nat)
  /\ settled \subseteq inQueue
  /\ raced \in BOOLEAN

(* The ranks whose leaf is at or below a node. *)
RanksBelow[index \in Nodes] ==
  IF index >= Processes THEN {index - Processes}
  ELSE RanksBelow[Left(index)] \cup
         (IF Right(index) \in Nodes THEN RanksBelow[Right(index)] ELSE {})

(* A node names only ranks below it. *)
RankBeneath == \A i \in Nodes : tree[i] = DUMMY \/ tree[i] \in RanksBelow[i]

(* No call of this rank has refreshed its timestamp yet: three of the classes *)
(* leave in it what the memory held.                                          *)
Unwritten(p) ==
  /\ accepted[p] = 0
  /\ call[p].pc \in {"idle", "count", "put", "check", "front", "stamp", "swapStamp"}

(***************************************************************************)
(* Whatever a node's children held while it was refreshed, it names only   *)
(* ranks below it (the report's theorem on possible ranks).  Whoever reads *)
(* a rank's timestamp for its leaf or for a node comes after the rank's    *)
(* own first compare-and-swap, which does not fail: what three of the      *)
(* constructors leave in the timestamps is overwritten before it is used.  *)
(***************************************************************************)
NamedRanks ==
  /\ RankBeneath
  /\ \A i \in Nodes : tree[i] # DUMMY => ~Unwritten(tree[i])
  /\ \A c \in Callers : /\ call[c].pc = "leafStamp" => ~Unwritten(call[c].rank)
                        /\ call[c].pc = "childStamp" => ~Unwritten(call[c].seen)
  /\ \A p \in Enqueuers : Unwritten(p) /\ call[p].pc = "swapStamp" => call[p].fresh

(***************************************************************************)
(* Once all elements of a rank are gone and neither it nor the dequeuer    *)
(* is still refreshing for it, no node names it (the report's theorem on   *)
(* matched enqueues): otherwise the dequeuer would be led to an empty SPSC.*)
(***************************************************************************)
RankForgotten ==
  \A p \in Enqueuers :
    spsc[p] = <<>> /\ call[p].pc = "idle" /\ ~Serves(p) => \A i \in Nodes : tree[i] # p

TimestampOf(x) ==
  LET q == spsc[x[1]]
  IN  q[CHOOSE i \in 1..Len(q) : q[i].item = x].ts

(***************************************************************************)
(* While no dequeue is refreshing, the root leads to a timestamp at least  *)
(* as old as that of every element whose enqueue has returned (the         *)
(* report's theorem on unmatched enqueues).                                *)
(***************************************************************************)
RootShowsOldest ==
  ~Refreshing(Dequeuer) =>
    \A x \in returned : tree[0] # DUMMY /\ stamp[tree[0]] <= TimestampOf(x)

(* What the code guarantees of these: they hold unless an enqueue and a      *)
(* dequeue have refreshed the same rank at the same time.                   *)
RankForgottenApart == ~raced => RankForgotten
RootShowsOldestApart == ~raced => RootShowsOldest

took == inQueue \ DOMAIN before'

(***************************************************************************)
(* No VOrd violation unless such a race has occurred: dequeue never takes  *)
(* an element while one whose enqueue returned before the former's was     *)
(* called is still queued.                                                 *)
(***************************************************************************)
NoOvertakingApart == [][Take /\ ~raced => \A x \in took : before[x] = {}]_vars

returnsFalse == call[Dequeuer].pc \in {"root", "take"} /\ call'[Dequeuer].pc = "idle"

(***************************************************************************)
(* No VWit violation: dequeue returns false only if every element whose    *)
(* enqueue had returned when it was called is gone ...                     *)
(***************************************************************************)
NoFalseEmpty == [][returnsFalse => settled = {}]_vars

(* ... and what the code guarantees of it. *)
NoFalseEmptyApart == [][returnsFalse /\ ~raced => settled = {}]_vars

(***************************************************************************)
(* Linearizability, as far as the code guarantees it: unless such a race   *)
(* has occurred, each step is one of MpscQueue or none.  An enqueue takes  *)
(* effect between its call and return; a dequeue when it takes from an     *)
(* SPSC, or finds the root or an SPSC empty.                               *)
(***************************************************************************)
Abstract == INSTANCE MpscQueue WITH
  calling <- [p \in Enqueuers |-> call[p].n],
  dState <- IF call[Dequeuer].pc = "idle" THEN "idle"
            ELSE IF call[Dequeuer].pc \in {"root", "take"} THEN "called" ELSE "done"

ImplementsApart ==
  Abstract!Init /\ [][~raced => [Abstract!Next]_(Abstract!vars)]_vars

(***************************************************************************)
(* What remains true after such a race: elements go only to dequeue, each  *)
(* once and those of a rank in their order, unless their enqueue is refused.*)
(***************************************************************************)
OncePerRankInOrder ==
  [][/\ Take => took = {dOut'} /\ \A x \in inQueue : x[1] = dOut'[1] => dOut'[2] <= x[2]
     /\ \A x \in took : Take \/ EnqueueFull(x[1])]_vars

--------------------------------------------------------------------------------
(* How many steps of its own a call can still take. *)

(* The number of nodes from one up to the root. *)
PathLength[index \in Nodes] == IF index = 0 THEN 1 ELSE 1 + PathLength[Parent(index)]
Deepest == PathLength[2 * Processes - 1]

(* Two attempts of six steps at each node above the leaf of a rank. *)
Climb(rank) == 12 * (PathLength[Leaf(rank)] - 1)

(***************************************************************************)
(* The steps left with locals l: those of this attempt to refresh a cell,  *)
(* those of a second attempt, and those at the cells still to come.        *)
(***************************************************************************)
StepsOf(l) ==
  LET retry(n) == n * (2 - l.try)
      child(first, second) == IF l.child = Left(l.index) THEN first ELSE second
      climb == Climb(l.rank)
      above == 12 * (PathLength[l.index] - 1)
  IN  CASE l.pc = "idle" -> 0
        [] l.pc = "count" -> 15 + climb
        [] l.pc = "put" -> 14 + climb
        [] l.pc = "check" -> 13 + climb
        [] l.pc = "root" -> 2 + 12 * Deepest
        [] l.pc = "take" -> 13 + climb
        [] l.pc = "front" -> 9 + retry(3) + climb
        [] l.pc = "stamp" -> 8 + retry(3) + climb
        [] l.pc = "swapStamp" -> 7 + retry(3) + climb
        [] l.pc = "leafStamp" -> 3 + retry(3) + climb
        [] l.pc = "leaf" -> 2 + retry(3) + climb
        [] l.pc = "swapLeaf" -> 1 + retry(3) + climb
        [] l.pc = "node" -> 6 + retry(6) + above
        [] l.pc = "child" -> child(5, 3) + retry(6) + above
        [] l.pc = "childStamp" -> child(4, 2) + retry(6) + above
        [] l.pc = "swapNode" -> 1 + retry(6) + above

StepsLeft(c) == StepsOf(call[c])

(* The most steps of a call: those of an enqueue depend on its rank's leaf only. *)
MostSteps(c) == IF c = Dequeuer THEN 2 + 12 * Deepest ELSE 15 + Climb(c)

(* Wait-freedom: every call returns, whatever the other ranks do. *)
EnqueuersReturn == \A p \in Enqueuers : (call[p].pc # "idle") ~> (call[p].pc = "idle")
DequeuerReturns == (call[Dequeuer].pc # "idle") ~> (call[Dequeuer].pc = "idle")
CallsReturn == EnqueuersReturn /\ DequeuerReturns

================================================================================
