# Verification of MPiSC

TLA+ specifications, TLC runs and TLAPS proofs for the distributed
multi-producer single-consumer queues of this repository. Paths are relative to
`src/implementations/` unless they start with `report/`.

| Modules | Model of | Checked by |
|---|---|---|
| `SpscQueue`, `RingParameters`, `BoundedSpsc` | `lib/spsc/bounded_spsc.hpp` | `HostedBoundedSpsc.cfg`; `BoundedSpscProofs` |
| `HostedBoundedSpsc` | `lib/spsc/hosted_bounded_spsc.hpp` | `HostedBoundedSpsc.cfg`; `HostedBoundedSpscProofs` |
| `UnboundedSpsc` | `lib/spsc/unbounded_spsc.hpp` | `UnboundedSpsc.cfg`; `UnboundedSpscProofs` |
| `SharedCounter`, `CsFaaCounter` | `lib/distributed-counters/cs_faa.hpp` | `CsFaaCounter.cfg`; `CsFaaCounterProofs` |
| `MpscQueue`, `Slots`, `SlotQueue`, `HostedSlotQueue`, `UnboundedSlotQueue`, `SlotNodeQueue` | `slotqueue/*.hpp` but `slotqueue-node-2.hpp`; `lib/distributed-counters/faa.hpp` | `SlotQueues` with `SlotQueues_{two,slots}.cfg`, `SlotQueue_three.cfg`; `SlotQueuesProofs` |
| `LTTree`, `LTQueue`, `UnboundedLTQueue`, `LTNodeQueue`, `NaiveLTQueue`, `NaiveUnboundedLTQueue`, `EoLTQueue` | `ltqueue/*.hpp` | `LTQueues` with `LTQueues_{tree,classes}.cfg`, `LTQueue_hidden.cfg`; `LTQueuesProofs` |
| `AMQueue` | `active-message-queue/active-message-queue.hpp` | `AMQueue_{drain,lost}.cfg`; `AMQueueProofs` |
| `LQueue` | `lqueue/lqueue.hpp` | `LQueue.cfg`; `LQueueProofs` |

To check a module: `tlc -config LQueue.cfg LQueue`; to check the proofs:
`tlapm HostedBoundedSpscProofs.tla`.

## 1. Inventory

### The system

MPiSC is a header library. All ranks of an MPI communicator construct the same
queue object collectively; one rank is the dequeuer, the others enqueue. The
shared state lives in MPI RMA windows, each at one rank, and every rank reaches
it with one-sided operations wrapped by `lib/comm.hpp`. No rank serves requests:
concurrency is only that of the one-sided accesses, and no rank ever blocks on a
lock (`lqueue` excepted). There is no persistence, no retransmission and no
timeout except the bounded spin of `CsFaaCounter`.

An MPSC queue is built from a shared counter that issues timestamps, one SPSC
queue from every rank to the dequeuer, and a structure that tells the dequeuer
which SPSC queue has the oldest front: an array of slots (Slotqueue) or a tree
(dLTQueue).

| Component | State | Operations | Depends on | What makes it correct |
|---|---|---|---|---|
| RMA wrappers, `lib/comm.hpp` | - | `read/write/aread/awrite` `_sync` and `_async`, `flush`, `fetch_and_add_sync`, `compare_and_swap_sync` | MPI | `_sync` accesses are done on return, `_async` ones after `flush`, in any order |
| FAA counter, `lib/distributed-counters/faa.hpp` | a 64-bit counter at a host rank | `get_and_increment` | comm | no value is issued twice |
| Node-local counter, `cs_faa.hpp` | per node: start counter, per-rank start and result | `get_and_increment` that shares another rank's result | FAA counter, MPI shared memory | a result is shared only with a call that overlaps the one that obtained it |
| Bounded SPSC, `lib/spsc/bounded_spsc.hpp` | ring at the enqueuer, `first` and `last` at the dequeuer, a second tail at the enqueuer, private cursor copies, a read-ahead cache | `enqueue` (element, vector), `e_read_front`, `dequeue`, `d_read_front` | comm | linearizable FIFO of bounded size, wait-free |
| Hosted SPSC, `hosted_bounded_spsc.hpp` | the same, but one window at the dequeuer holds all ranks' rings | the same | comm | the same, and no rank writes to another's ring |
| Bounded SPSC 2, `bounded_spsc_2.hpp` | the same with each side's cursor at home | the same | comm | the same |
| Unbounded SPSC, `unbounded_spsc.hpp` | linked list, `first`, `last`, the announce, help and free-later cells, a private copy of `last` | `enqueue` (element), `e_read_front`, `dequeue`, `d_read_front` | BCL | the same without a bound, and no node is used after it was freed |
| Slotqueue, `slotqueue/slotqueue.hpp` | SPSC per rank, slot per rank at the dequeuer, private copy of the slots | `enqueue` (element, vector), `dequeue` | counter, SPSC | linearizable, wait-free; slots agree with the SPSC fronts |
| Slotqueue variants | other SPSC (unbounded, hosted) or counter (node); unbounded and hosted keep no private copy and read all slots in both scans | the same | the same | the same |
| dLTQueue, `ltqueue/ltqueue.hpp` | SPSC per rank, timestamp per rank, tree of ranks | the same | counter, SPSC | the same; the root leads to the oldest element |
| dLTQueue variants | refresh after every enqueue (naive) or every vector (eo), other SPSC (unbounded) or counter (node) | the same | the same | the same |
| AMQueue | two buffers, each with offset and writer count, and the number of the open one, at the dequeuer | `enqueue`, `dequeue` (a whole buffer) | comm | every accepted element is dequeued once; blocking only on running writers |
| LQueue, `lqueue/lqueue.hpp` | a counter and a buffer under MPI window locks | `enqueue`, `dequeue` (all there is) | MPI locks | every accepted element is dequeued once, in order; no deadlock |
| MPQueue, `mpqueue/mpqueue.hpp` | none of its own | send; probe and receive | MPI point to point | MPI's |
| Benchmarks, examples, ISx | drivers | - | all queues | they fix who calls what: the consumer of the microbenchmarks loops until it has counted every element |

### What is hard here

* Interleavings of single remote accesses: an operation is up to several dozen
  of them, and no test of the repository steers their order.
* Values read and used later: cursor copies, the read-ahead cache, the private
  slots, a front read before a compare-and-swap, a queue number read before a
  registration.
* Asynchronous puts and gets that complete in any order before a flush.
* Bounded retries: a refresh is tried twice, then its caller relies on whoever
  made it fail.
* Boundaries: full rings, vectors, ring wrap-around, timestamp truncation.
* Wait-freedom claims: no call may wait for another rank.

`PROJECT.json` lists the hazards one by one, at their lines, with the properties
that watch them.

## 2. The models

One action is one remote access together with the local statements around it. A
`_sync` access is atomic; asynchronous ones complete one by one in any order.
Payloads are numbered, so that loss, repetition and reordering show. A call is
merged with its first remote access and a return with its last one (`BoundedSpsc`
keeps them apart); this orders more calls before one another than the program
does, so it makes the ordering properties stronger and never weaker.
Every module holds, before the definition it belongs to, the mutated forms
(`Mutant of ...`) against which its properties have been tried.

### SpscQueue and BoundedSpsc

`SpscQueue` is the promise of an SPSC queue: a sequence `q`; a call takes effect
in one step between invocation and return; `enqueue` accepts the whole vector or,
if it does not fit, nothing; the dequeuer's calls fail only if the queue was empty
during the call. `BoundedSpsc` is class `Spsc`:

| Module | Code |
|---|---|
| `data` | `_data_win` of the enqueuer |
| `first`, `last`, `localLast` | `_first_win`, `_last_win` (dequeuer), `_enqueuer_local_last_win` (enqueuer) |
| `eFirst`, `eLast`, `dFirst`, `dLast` | `_first_buf`, `_last_buf` of either side |
| `cached`, `cachedSize` | `_cached_data`, `_cached_size` |
| `EnqueueCall` .. `EReturn` | both `enqueue`s: room check, refresh of the copy of `first`, the puts, the two publications (the enqueuer's copy, and the dequeuer's every `PublishPeriod` elements or after a vector) |
| `EReadFront*` | `e_read_front` |
| `DNonEmpty` .. `DAdvance` | `dequeue`, with the two refreshes of the tail, the cache and the read-ahead |
| `ReadFrontFetch`, `DReadFront` | `d_read_front` |

The refinement mapping takes the enqueue's effect at its first publication, the
dequeue's at its write of `first`, and `e_read_front`'s at its read of `first`.
`Implements` therefore says the queue is linearizable. Because of it an SPSC
operation is one step in the modules above it.

One enqueuer and one dequeuer are enough: the windows and private copies of two
enqueuers share nothing. `e_read_front` compares, as its second look, the whole
vectors of its private cursors; on a rank that only enqueues all other entries
stay 0, so the model compares the rank's own.

### HostedBoundedSpsc

The class runs the statements of `Spsc` on other windows: one window of the
dequeuer holds the ring of every rank, at `start_offset`. The module keeps that
window and takes each statement from `BoundedSpsc`, with `data` the part of the
window that belongs to the observed rank; its actions are whole methods, split at
remote accesses. Other enqueuers write to their rings at any time (`OtherWrites`);
their elements are all one value, as no property tells them apart. So
`HostedBoundedSpsc.cfg` explores `BoundedSpsc` and the sharing of the window at once.

### UnboundedSpsc

`value` and `next` are the nodes, `first`, `last`, `announce`, `freeLater`, `help`
the cells at the dequeuer and the enqueuer, `lastCached` the dequeuer's copy.
Nodes are numbered in the order of their allocation. The calls of `BCL::dealloc`
are commented out in the source (`unbounded_spsc.hpp:189, 191`), so nodes are never
freed; `retired` records the nodes they name, and `NoReadAfterFree` says that they
could be freed. `enqueue`, `dequeue` and `d_read_front` implement `SpscQueue`. Where
`e_read_front` takes effect is known only at its end (it may return a `help` that a
later dequeue overwrote), so it is left out of the mapping and has a property of its
own: what it returns was a front at some moment of the call (`FrontWasFront`, from
the history variable `fronts`).

### SharedCounter and CsFaaCounter

`SharedCounter` is what the queues need of a counter whose values several ranks of
a node may share: a value that a call returns was issued during the call, by it or
by another. `CsFaaCounter` is `get_and_increment`: clearing the number on show
(`Call`), the ticket (`TakeTicket`, `PublishTicket`), the loop over the node's ranks
(`Compare`, `Load`, `Spin`), the remote counter (`BaseIncrement`) and the number
shown (`Store`). 300 retries are `MaxRetries`; the retry after a shown number ends
the inner loop, but the outer loop goes on and a later rank's number replaces it, as
in the code.

### MpscQueue, Slots and the classes of slotqueue/

`MpscQueue` states linearizability of an MPSC queue by what the report forbids
(VFresh, VRepet, VOrd, VWit): for each queued element it keeps the set it must
not overtake. `Slots` has the steps over atomic SPSC queues: `slot` is
`_min_timestamp_ptr`, `buf` is `_min_timestamp_buf`. `CheckFront`, `ReadSlot`,
`RecheckFront`, `SwapSlot`, `SwapSlotFails` are `_refreshEnqueue` and its one
repetition; `FirstScan` .. `Take` are `_readMinimumRank` and the SPSC dequeue,
`DReadSlot`, `DReadFront`, `DSwapSlot(Fails)` are `_refreshDequeue`. The second
selection is modelled as the loop computes it: it lowers its own bound and ends
at the first smaller timestamp. The classes compose these steps: `SlotQueue` and
`SlotNodeQueue` with the private copies (`cached`), `HostedSlotQueue` and
`UnboundedSlotQueue` without, `SlotNodeQueue` with timestamps of a `SharedCounter`.
`SlotQueues` constructs one of the classes and runs it.

The unbounded classes of both families have an `enqueue` of a vector that calls
`_spsc.enqueue` with a vector, which `UnboundedSpsc` lacks: the template compiles
as long as nobody calls it, so the models of these classes enqueue one element.

### LTTree and the classes of ltqueue/

The `_e_` and `_d_` methods run the same statements on the same cells from
different sides, so one set of actions in `LTTree` stands for both: the caller c
refreshes for the rank in its locals. `ReadFront`, `ReadStamp`, `SwapStamp`
refresh the timestamp; `ReadLeafStamp`, `ReadLeaf`, `SwapLeaf` the leaf;
`ReadNode`, `ReadChild`, `ReadChildStamp`, `SwapNode` an inner node; each is
tried at most twice (`EndAttempt`). Tags are modelled by what they are compared
with: a compare-and-swap fails iff the cell has been changed since its caller read
it, so tags of 32 bits that come round again within one refresh are left out.

Each class has a module that composes these steps into its methods. They differ in
when an enqueue refreshes: `LTQueue`, `UnboundedLTQueue`, `LTNodeQueue` look at the
front first (`CheckFront`), the naive ones never do, `EoLTQueue` does for a single
element and not for a vector. `LTNodeQueue` takes timestamps from a `SharedCounter`.
Where the timestamps live (at the dequeuer or at the enqueuers) changes no step.
`LTQueues` constructs one of the classes and runs it, so that one configuration
checks them all.

`raced` becomes true when an enqueue and a dequeue are refreshing the same rank
at the same time: the second of them begins its refreshes while the first is between
the start and the end of its own. An enqueue that finds another element at the front
refreshes nothing and does not count; nor does a dequeue between its put and its look
at the front. The properties named `...Apart` are what the code guarantees until then.

`NaiveLTQueue`, `NaiveUnboundedLTQueue` and `EoLTQueue` keep a rank's timestamp in the
one-cell window of that rank, but their constructors write the initial timestamps at
displacements 0 to P-1 of the dequeuer's window (`naive-ltqueue.hpp:327, 341-348`,
`naive-ltqueue-unbounded.hpp:325, 338-346`, `eo-ltqueue.hpp:326, 339-347`). The cells
that are used are never initialised, so their `Init` lets `stamp` be anything; the
writes past the end of the dequeuer's window, of which the code does not say what they
overwrite, are not modelled. The rest of the three classes does not depend on it: a
rank's timestamp is read for its leaf or for a node only after the rank's own first
compare-and-swap on it, which never fails (`NamedRanks`).

### AMQueue

`queueNum`, `writers`, `offset`, `data` are the windows; an enqueue is
`EnqueueCall` (reads the queue number), `Register`, `Withdraw` and
`ReadQueueNum` (retry), `Reserve`, `GiveBack` and `LeaveFull` (buffer full),
`Write`, `Leave`; a dequeue is `DequeueCall` (switches), `Close`, `AwaitWriters`,
`ReadOffset`, `ResetOffset`, `ResetWriters`, `Copy`, `DReturn`. The last five are
plain memory accesses of the dequeuer to its own windows; the model takes them in
program order, one by one. After a race offset and slot can leave the buffer; a
write or read there has no effect in the model. `raced` becomes true when the
reset of the writer count overwrites the 1 of a rank that is about to withdraw,
or when a rank registers in the buffer while dequeue still copies it.
A dequeuer's own enqueues (examples) never run during its dequeue: another
enqueuer rank covers them.

### LQueue

Every lock, unlock, remote access and access of the dequeuer to its own memory is a
step. `counterLock` and `dataLock` are the sets of ranks that hold them: shared by
enqueues, alone by a dequeue. The constructor is part of the model, because the
dequeuer resets the counter under its lock but no rank waits for it
(`lqueue.hpp:35-38` has no barrier): `Init` lets the counter be 0, 1 or `Capacity`,
and an enqueue that increments it before the reset is `early`. The properties named
`...Apart` leave early enqueues out. After such an enqueue the rest of the model is
as the code has it.

## 3. The runs

| Run | Bounds | Result |
|---|---|---|
| `spsc_ring` | capacity 3, read-ahead 2, publication period 3, vectors up to 2, 4 elements, the ring between two others; 580 k states | all invariants, `Implements`, every call returns, every element is delivered |
| `unbounded_spsc` | 4 elements; 123 k states | no use after free, `Implements`, front reads, every call returns |
| `cs_faa_counter` | 3 ranks of a node, 2 retries, 4 calls; 561 k states | `Implements` of `SharedCounter`; a call returns though the others stop |
| `slotqueue_two_enqueuers` | class SlotQueue, 2 enqueuers, capacity 2, vectors up to 2, 3 calls; 222 k states | `Implements`, wait-freedom, delivery |
| `slotqueue_slots` | all classes, 3 enqueuers, capacity 2, 4 calls (variants: 3 elements); 3.4 M states | slots and their copies agree with the fronts; nothing stranded; no false empty; settled elements are not overtaken |
| `slotqueue_three_enqueuers` | 3 enqueuers, 3 calls | **violation** of `NoOvertaking` |
| `ltqueue_tree` | all classes, 3 processes, 2 enqueuers, capacity 2, 3 calls (variants: 2 elements); 3.2 M states | ranks stay beneath their nodes and are named only once their timestamps are written; up to the race everything else, and `ImplementsApart` |
| `ltqueue_classes` | all classes, capacity 1, 2 calls; 205 k states | every call returns, within a bounded number of its own steps (`StepsBounded`) |
| `ltqueue_hidden` | 2 processes, 2 calls | **violation** of `NoFalseEmpty` |
| `amqueue_drain` | 2 enqueuers, buffers of 1, 3 calls; 1.1 M states | exactly-once up to the race; blocking but no deadlock |
| `amqueue_lost` | 1 enqueuer, 2 calls | **violation** of `NothingLost` |
| `lqueue` | 2 enqueuers, capacity 2, 4 calls; 185 k states | once and in order, refused only when full, no deadlock, every call returns when the other side pauses |

Dequeue calls are unlimited in every run; calls of enqueue are what the bounds
limit. Deadlock is checked in every run but `cs_faa_counter`, which stops when its
calls are used up; elsewhere a dequeue can still be called.

Why the bounds suffice to be of use:

* *BoundedSpsc, HostedBoundedSpsc.* Four elements through three slots wrap the ring;
  a read-ahead of 2 in a ring of 3 gives caches that are full, partial and empty;
  publication period 3 leaves `last` behind `localLast` both within and across the
  ring; vectors of 2 both fit and do not fit. Rank 1 of 3 has a neighbour on either
  side of its ring. The proofs cover all other values.
* *UnboundedSpsc.* Four nodes let a node be announced, taken, put off and replaced in
  `free_later` twice while a front read is under way.
* *CsFaaCounter.* Three ranks of one node pass a number on twice; four calls let one
  rank begin a second call with its old number on show. Two retries give a spin that
  succeeds first, later and never.
* *Slots.* Two enqueuers suffice for the races on one slot and between the two
  scans; three are the least with two ranks below the one the first scan selects,
  which is where the second selection goes wrong. Four calls let one rank's slot
  be refreshed again while another call is still under way on it.
* *LTTree.* Three processes give a leaf at another depth than its sibling and a
  node with a leaf and a subtree that both change. Two enqueuers and the dequeuer
  are three parties at the root, enough for a refresh to fail twice.
* *AMQueue.* Buffers of one slot fill at once; two enqueuers give one that is
  registered and one that withdraws.
* *LQueue.* Two calls fill the buffer, two more are refused at the same time, and two
  enqueuers fill reserved slots in either order.

### Fairness

`ScheduledSpec` is weak fairness of the steps of each rank's current call: the
operating system runs every process and no access in these algorithms blocks. It
never makes a rank *call* an operation. Wait-freedom (`EnqueuersReturn`,
`DequeuerReturns`) is checked under it. That every element is delivered needs a
consumer that keeps calling dequeue, as the loops of `lib/benches` and the examples
do; this is a premise of the property (`ConsumerKeepsCalling => ...`), not part of
the specification. In `HostedBoundedSpsc` the premise is strong fairness because
`d_read_front` shares the dequeuer with it. AMQueue's dequeue waits for enqueuers
by design, so its return also uses their fairness. `CsFaaCounter` has weak
fairness of one rank at a time, so that the others may stop. MPI promises no fairness
of its locks, so in `LQueue` a call is only said to return once the other side makes
no more calls.

Calls that return are one property per run, `CallsReturn`, the conjunction of the
properties of either side.

### Findings

1. **Slotqueue, three enqueuers** (`slotqueue.hpp:104-110`): the second selection
   loop runs while `i < rank` and assigns `rank = i`, so it stops at the first
   smaller timestamp. An element can overtake one enqueued entirely before it.
   Elements enqueued before the dequeue began are safe (`NoOvertakingSettled`), and
   with two enqueuers the queue is linearizable.
2. **dLTQueue hides an element** (`ltqueue.hpp:210, 213` and `141, 144`): the front
   is read before the timestamp whose tag the compare-and-swap checks. The report's
   pseudocode has the other order. Likewise for the timestamp and the leaf
   (`ltqueue.hpp:111, 114` and `247, 250`), which leaves a rank without elements in
   the tree (`RankForgotten`). In a scratch copy of the model with both pairs of
   reads exchanged, the properties of `ltqueue_tree` held for `LTQueue` without the
   `raced` premise, at the same bounds.
3. **AMQueue reopens before it copies** (`active-message-queue.hpp:252-255,
   259-262`): a late enqueue overwrites an element that was accepted and not yet
   copied.

Hazards that no property covers are in `PROJECT.json` with the reason. Three concern
what the `...Apart` properties leave out: the vector enqueues of `EoLTQueue`, which
refresh whatever is at the front and so race with more dequeues; what becomes of
`LQueue`'s enqueues from before the reset; and the writer count of AMQueue after a race.

Seen while modelling, and not pursued by a run: AMQueue's dequeue resets the writer
count (`active-message-queue.hpp:253, 260`) while a rank that came too late may have its
1 in it, and that rank then takes it back (`198-200, 207-209`), so that the count is -1
after dequeue has returned, where a negative count is said to mean that the buffer is
being swapped (`related-works/index.typ:190`). Enqueues that find it when the buffer is
open again withdraw until a dequeue opens the other one, and of two that try at once the
second registers at 0. Besides, `timestamp_t` has 32 bits
(`slotqueue.hpp:14`) where the report has 64, and after 2^32 - 1 calls of enqueue a
timestamp is `MAX_TIMESTAMP`, which means "empty"; `Spsc_2` uses cells beyond its
windows (section 5); the constructor of `LQueue` may reset the counter after the
first enqueues; that of `UnboundedSpsc` broadcasts from rank 0 whatever
`dequeuer_rank` is (`unbounded_spsc.hpp:64-75`).

## 4. The proofs

Each theorem holds for all values of the constants that satisfy the assumption named
in the module that declares them. No theorem assumes more than that, those of
Slotqueue excepted (see there). Every proof has the same shape: a strengthened
invariant `IInv`, the lemmas that it holds initially and that each action keeps it,
and the theorems that follow from it. TLC has checked each `IInv` as an invariant on
small instances before it was proved.

| Module | Theorems (property in brackets where the name differs) |
|---|---|
| `BoundedSpscProofs` | `TypeCorrect`, `NoOverwrite` (`UnreadIntact`), `FrontReadStable` (`EFrontStable`), `FetchesRaceFree`, `CacheCoherent` (`CacheFollowsFront`), `StaleSafe` (`StaleCopiesAreSafe`), `Linearizable` (`Implements` of `SpscQueue`) |
| `HostedBoundedSpscProofs` | `RingImplemented`, and the seven above for the shared window |
| `UnboundedSpscProofs` | `NoneFreedInUse` (`NoReadAfterFree`), `OnlyFilledRead` (`DequeuerReadsFilled`), `FrontReadTrue` (`FrontWasFront`), `Linearizable` (`Implements` of `SpscQueue`) |
| `CsFaaCounterProofs` | `TypeCorrect`, `CopiesFresh`, `SharesNumbers` (`Implements` of `SharedCounter`) |
| `SlotQueuesProofs` | `TypeCorrect`, `SlotShowsFront` (`SlotIsFront`), `CopyShowsFront` (`CopyIsFront`), `NoneStranded`, `EmptyIsTrue` (`NoFalseEmpty`), `SettledInOrder` (`NoOvertakingSettled`), `TwoLinearizable` (`Implements` of `MpscQueue`), `SelectedInOrder`, `WaitFree` (`StepsBounded`) |
| `LTQueuesProofs` | `TypesCorrect` (`TypeOK`), `HistoryInductive`, `WrittenInductive`, `NamesWritten` (`NamedRanks`), `ApartInductive`, `ForgetsRank` (`RankForgottenApart`), `RootLeadsToOldest` (`RootShowsOldestApart`), `TakesOldest`, `FalseMeansEmpty` (`NoFalseEmptyApart`), `LinearizableApart` (`ImplementsApart`), `WaitFree` (`StepsBounded`), `OnceInOrder` |
| `AMQueueProofs` | `TypeCorrect`, `AloneUntilRace` (`DrainsAloneApart`), `OnceUntilRace` (`ExactlyOnceApart`) |
| `LQueueProofs` | `TypeCorrect`, `OncePerElement` (`ExactlyOnceApart`), `OutInOrder` (`OrderKept`), `RefusedWhenFull`, `SomeoneGoesOn` (`SomeoneProceeds`) |

### The rings

None of the ring's properties is inductive alone: that a slot is free when the
enqueuer writes it depends on how stale its copy of `first` is, which depends on what
the dequeuer has in flight. `IInv` of `BoundedSpscProofs` is the conjunction of

* `EnqueuerControl`: which locals each control point of the enqueuer implies,
* `TailIsPrivateTail`: the tail the dequeuer can learn is `eLast`, plus the vector
  once it is announced,
* `CursorsOrdered`: each copy is at most its original, `first <= tail`,
* `WritesFit`: while puts are in flight the vector fits above the real `first`,
* `UnreadIntact`, `EFrontStable`: of the properties themselves,
* `DequeuerControl`, `CacheInv`, `EmptyInv`: the same for the dequeuer, its cache
  and its record of an empty queue.

`InitInv` and `StepInv` establish it (one lemma for the enqueuer's steps and one
for the dequeuer's, each with one step per action, and two lemmas for what either
side's steps leave to the other); `SlotsDistinct` is the arithmetic that distinct
elements less than a capacity apart have distinct slots.

`Linearizable` maps each step to a step of `SpscQueue` or a stutter
(`EnqueuerRefines`, `DequeuerRefines`). The queue's contents are the interval of
numbers from `first` to `tail`; `ElementsAppended` and `ElementsTaken` say what a
publication and a write of `first` do to it. `EmptyInv` is what makes a failing
dequeue legal, `CacheInv` what makes a successful one return the head, and
`EFrontStable` lets `e_read_front` read its element after it took effect.

`HostedBoundedSpscProofs` carries all of this over to the hosted class, for every
number of ranks and whichever of them is observed, from the same assumption and
`HostedBoundedSpscAssumption` (the ranks' numbers, and that all offsets fit into the
`int` that `start_offset` returns). `RingImplemented` is a refinement:
`Spec => P!Spec`, where `P` is `BoundedSpscProofs` with the ring as it lies in the
window. Its step is that a write at one rank's offset does not touch another rank's
ring (`RingsDisjoint`: different ranks' offsets are at least a capacity apart, and a
slot is less than a capacity) and that a write into the own ring is the write of
`BoundedSpsc`. The other theorems then follow from the instances of those above;
`TypeCorrect` adds that the window keeps its addresses.

### UnboundedSpsc

`IInv` says where each cursor and copy lies (`CursorInv`), that nodes before `last`
are filled and linked (`FilledInv`), and what the locals of a call under way are
(`EnqueuerInv`, `DequeuerInv`). The two parts that are not obvious: `AnnouncedInv`,
that a node which `e_read_front` has announced and then seen at the front is the one a
later dequeue finds announced and keeps for later, so it is not retired; and `FrontInv`,
that all fronts between the one `e_read_front` saw first and the present one have been
fronts during its call, so that `help` is one of them. `DequeuerInv` states exactly
which element `help` has at each control point of a dequeue.

### CsFaaCounter

`CopyInv` is the heart: if rank p has taken its ticket, every rank of the node with a
later ticket shows, or is about to show, a number taken after the call of p began. It
holds although numbers are passed on many times, since whoever took a later ticket
cleared the number on show before and can itself only copy from still later tickets.
`SharesNumbers` then maps the store of a number to `SharedCounter`'s steps; that the
number of issued values is the counter comes from an invariant of its own.

### Slotqueue

All theorems are about `SlotQueues`, that is about all four classes at once: the proofs
of the steps refer to what the classes have in common (`Enqueueing`, `Dequeueing`,
`StepIs`, `MovesAre`). All but `WaitFree` assume `NoWrapAround`, `MaxCalls <= MaxTimestamp`: the model
truncates the counter as the code does (`slotqueue.hpp:207`), and a timestamp that comes
round again breaks what they say, so nothing of the kind holds without it. It is an assumption of
the theorems and not of the module, and the runs' constants satisfy it.

`SlotIsFront` alone says nothing about slots that are being refreshed. `SlotInv` adds,
for each point at which a refresh by the enqueuer or by the dequeuer may stand, what
slot and front can be; `QuietInv` is the case that the dequeuer is not refreshing the
slot, `RefreshInv` that it is. A slot that is empty although its SPSC is not can only be
so while the enqueuer has an attempt left that will succeed: this is where two attempts
are needed and two are enough. `StampInv` and `SpscInv` order the timestamps in an SPSC
and say which belong to the running call.

`HistoryInv` relates the history variables to the contents: of two elements of which one
must not overtake the other the first has the smaller timestamp (`BeforeInv`), and all
elements that were there when a dequeue began are shown to its scans (`SettledInv`). With
it a dequeue returns nothing only from an empty queue and overtakes no settled element.

The last part is about full linearizability, which fails for three enqueuers
(finding 1). `OrderInv` says what a scan has learned of the ranks it has passed:
the element it may take is preceded by none that a passed rank, whose slot was empty, has
now. `SelectedInOrder` proves, for every number of enqueuers, that the rank of the
*first* scan is always taken from in order, so the second selection is the only source
of disorder. With at most two enqueuers that selection has one candidate, and
`TwoLinearizable` is the refinement of `MpscQueue`.

`WaitFree` bounds the steps of a call, whatever the other ranks do and with no fairness
assumed: 10 for an enqueue, twice the number of ranks and 7 for a dequeue, where an
operation of an SPSC or of the counter counts as one step. It needs no order of
timestamps, and holds when they wrap around: `WaitFreeInv` only says that the second scan
has not passed the selected rank and that a call which has not put its elements is at its
first attempt. No configuration lists `StepsBounded` of `SlotQueues`; TLC agrees with it
under the constants of `SlotQueues_slots.cfg`, and with two ranks, five calls and a
`MaxTimestamp` of 1, where timestamps wrap around.

### LTTree and the classes of ltqueue/

All theorems are about `LTQueues`, that is about all six classes at once, for every
number of processes and hence every shape of the tree. `StepIs` splits a step into what
the classes share (`Enqueueing`, `Dequeueing`, `Refresh`), and the lemmas about a
refresh are proved once, for whichever caller runs it.

What holds whatever the refreshes do is `BaseInv`, in two parts. `PathInv` says that a
node, and what a caller is about to write to it, names ranks whose way from the leaf to
the root leads over the node. `OnPath` is defined without recursion, as membership in
every set of nodes that holds the leaf and each member's parent; that a way is a chain
of parents and children which ends at the root follows from suitable such sets and
from the order of the node numbers (`PathOrder`, `PathChild`, `PathRoot`). `HistoryInv` relates the history variables
to the SPSCs: within one rank elements and timestamps are ordered, and an element that
must not be overtaken has a smaller timestamp than those which must not overtake it.

`WrittenInv` says that a rank is in no node, and in nobody's hands to be put there, before
its first enqueue has refreshed its timestamp (`Unwritten`, `Unseen`), because only that
enqueue starts to spread it. It is what makes the constructors of the three classes
above harmless. Whatever is said of timestamps from here on is said of `Stamps`, which
is `MAX` for a rank that has not written its own, and `StampsRead` says that nobody
reads one that differs.

The rest, `ApartInv`, holds until an enqueue and a dequeue refresh one rank at once
(`raced`); afterwards it does not (finding 2). Its parts:

* `AgentInv`: what a caller carries to a compare-and-swap of a timestamp or a leaf was
  read and is still true, since nobody else refreshes the rank (`Alone`).
* `StampInv`: the timestamp of a rank, once written, is its front's unless a call under
  way is about to make it so; of a rank that nobody has refreshed yet nothing is claimed.
* `Shown` and `Named`, for each node: a rank below it with elements is named, or a rank
  at least as old, and a named rank has elements. Both have exceptions, and these are
  the difficulty: they may fail while some caller is going to write to the node
  (`Ahead`), or is there with an attempt left or one that will succeed (`NotFull`). An
  attempt can only fail because another caller wrote to the node in between, which read
  the children either before the change below, and then the second attempt reads them
  after it, or after the change. This is why two attempts are needed and two suffice.
* `ScanInv` makes that precise for the caller whose compare-and-swap will succeed: it
  carries the least timestamp of the children it has read, but for ranks on whose
  behalf another caller has yet to read the node (`Unread`, `Excused`).
* `TakeInv`: the rank dequeue is about to take from has an element that overtakes none.

`OldestShown` derives from these that the root leads to the oldest timestamp when no
dequeue is refreshing: an enqueue that has returned is at no node any more, so the
exceptions are void for its elements. The four theorems on the report's claims follow.

`LinearizableApart` puts them together: until a race every class refines `MpscQueue`.
An enqueue takes effect when it is called and is withdrawn if it is refused
(`EnqueueRefines`, for which races do not matter); a dequeue takes effect when it takes
an element or returns nothing (`DequeueRefines`, from `ApartInv`). A refusal is legal
because of `HowMany`: the number of a rank's elements in the abstract queue is the
length of its SPSC, plus those about to be put. `BegunInv` adds that a call which has
begun has at least one element.

`WaitFree` bounds the steps of a call, whatever the other ranks do and with no fairness
assumed. `StepsLeft(p)` is read off the control point of p; `StepsStep` shows that every
step of p lowers it and no step of another rank changes it. Its value at the call is
`MostSteps(p)`: 15 + 12 for each node above p's leaf for an enqueue, 2 + 12 for each node
of the longest way for a dequeue, where an operation of an SPSC or of the counter counts
as one step. An attempt that fails is followed by at most one more (`EndAttempt`), so the
bound does not grow with the number of ranks that interfere. `PathLength`, the number
of nodes on a way to the root, is the cardinality of the set `Up` of those nodes; that a
step up the tree lowers it by one is proved from the order of the node numbers.

`OnceInOrder` is what remains true after a race: an element leaves the queue only through
a dequeue, which takes one, the first of its rank, or because its own enqueue is
refused. So a race hides elements and lets others overtake them, and never duplicates or
drops one.

### AMQueue

Nothing survives the races (finding 3), so the invariant is conditional: the types and
that running calls have distinct elements hold always, all else (`Unraced`) while
`raced` is false. `CountInv`, that the writer count is the number of ranks registered
(minus the large number while the buffer is closed), is what makes the dequeuer's wait
mean that no writer is left; `SlotInv` accounts for the offsets that refused
enqueues have yet to give back; `PlaceInv` and `FoundInv` say that an element is in
exactly one place. `AMQueueAssumption` has the large number exceed the number of
enqueuers, as the code's does.

### LQueue

`LockInv` ties the locks to the control points and is what makes a dequeue exclude all
enqueues. `SlotInv` counts the slots given out: the counter less the increments of
enqueues that are being refused (`Used`); refused ones exist only when the buffer is
full, so no slot is given out twice and none is skipped, whatever the order of
increments and decrements. `Held` are the slots with an element that is still to come
out; `PlaceInv`, `FoundInv` and `OrderInv` say that each element is in exactly one
place, that none is lost and that slots are in order. `EarlyInv` confines
what precedes the constructor's reset. That the number of enqueuers is finite is
part of `LQueueAssumption`, since the proof counts the refused ones.

`SomeoneGoesOn` is freedom from deadlock, stated with the conditions under which a call
waits (`Blocked`, `DBlocked`) and proved from `LockInv`: while the dequeuer holds the
counter lock no enqueue holds any lock, and otherwise no enqueue waits.

### Only model-checked

* Liveness (`CallsReturn`, `CallsReturnApart`, `EveryCallReturns`, `EveryElementDequeued`):
  fairness is beyond the prover. For dLTQueue and Slotqueue
  `StepsBounded` says more, and is proved.
* The violations in section 3: the theorems say under which conditions they are absent.

`TypeOK` of `UnboundedSpsc`, `CsFaaCounter`, `Slots`, `LTTree`, `AMQueue` and `LQueue` says
what their variables are; no configuration lists it, and any of them can.

## 5. Not modelled, and abstractions to know of

* Accesses are atomic. `lib/comm.hpp` accumulates on `MPI_CHAR`, for which MPI
  guarantees atomicity of each byte only; a torn cursor is not modelled.
* A rank never plays both roles. In the examples and in ISx the dequeuer's rank
  also enqueues; with the bounded SPSC it then uses windows that its constructor
  allocates with size 0.
* Construction and destruction are collective and happen before and after all
  calls; `Init` is the state after the constructor's barrier. Only `LQueue` has
  none, and its constructor is modelled. What the constructors of three dLTQueue
  classes write beyond the dequeuer's window is not (section 2); the cells they leave
  uninitialised are.
* `Spsc_2` (`bounded_spsc_2.hpp`) and, for its sake, `SlotNodeQueue_2`
  (`slotqueue-node-2.hpp`), which is `SlotNodeQueue` over it. Its cursor windows have
  one cell at each rank (`bounded_spsc_2.hpp:49-52, 73-76`), but the constructor
  initialises one cell per rank of the dequeuer's (66-69), every access to the
  dequeuer's cursors is at cell `enqueuer_rank`, and nothing ever writes the cell from
  which an enqueuer reads `first` (144, 166, 192). For a rank other than 0 all of
  this is outside of the windows, so what the class does is not defined by its code.
* Memory: nodes of `UnboundedSpsc` are never freed, payloads are numbers, and
  timestamps and tags do not wrap around within the bounds.
* Components with status `not_modelled` in `PROJECT.json`. The ISx kernel, the
  plots and the report run no queue code. MPQueue is a send and a probe.

## 6. Plan

Every component that has a behaviour of its own is modelled, and each safety property
that a passing run checks is a theorem. What would still add to the project:

* for Slotqueue, a theorem without `NoWrapAround` that says how far counters may run
  ahead before a truncated timestamp is mistaken;
* for dLTQueue, that the ranks a dequeue misses after a race are among those raced;
  for AMQueue, that no element is returned twice even then;
* step bounds, as `StepsBounded`, for the SPSC classes and the node-local counter.
