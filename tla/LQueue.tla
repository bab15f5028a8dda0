-------------------------------- MODULE LQueue ---------------------------------
(***************************************************************************)
(* lqueue/lqueue.hpp: class LQueue.                                        *)
(*                                                                         *)
(* A counter and a buffer at the dequeuer, in two windows that are locked: *)
(* an enqueue locks both shared, with other enqueues, and takes a slot by  *)
(* incrementing the counter; a dequeue locks both for itself alone and     *)
(* copies all there is.  The constructor of the dequeuer resets the        *)
(* counter, under its lock too, but no rank waits for it: the enqueues     *)
(* that come before find whatever the memory held, and are forgotten.      *)
(* One action is one lock, unlock, remote access or access of the dequeuer *)
(* to its own memory.                                                      *)
(*                                                                         *)
(* An element is the number of the enqueue call that passed it.            *)
(***************************************************************************)
EXTENDS Integers, Sequences, FiniteSets

CONSTANTS
  Enqueuers,     \* the ranks that call enqueue
  Dequeuer,      \* _dequeuer_rank
  Capacity,      \* _capacity
  MaxCalls       \* bound: calls of enqueue ever made

ASSUME LQueueAssumption ==
  /\ IsFiniteSet(Enqueuers) /\ Dequeuer \notin Enqueuers
  /\ Capacity \in Nat \ {0} /\ MaxCalls \in Nat

VARIABLES
  counter, data,           \* *_counter_ptr, _data_ptr (windows of the dequeuer)
  counterLock, dataLock,   \* the ranks that hold the lock of either window
  pc, element, old, ok,    \* enqueuer: control point, argument, old_counter, result
  calls,                   \* number of enqueue calls made (bounds the model)
  dPc, current, copied,    \* dequeuer: control point, current_counter, i
  output,                  \* everything its calls returned, in order
  early,                   \* history: elements whose enqueue came before the reset
  accepted,                \* history: elements whose enqueue has returned true
  before                   \* history: those accepted before an element's call began

windows == <<counter, data, counterLock, dataLock>>
enqVars == <<pc, element, old, ok, calls>>
deqVars == <<dPc, current, copied, output>>
history == <<early, accepted, before>>
vars == <<windows, enqVars, deqVars, history>>

Garbage == 0
Elements == 1..MaxCalls

(* What fresh memory can make of the counter: room, some room, or none. *)
Uninitialised == {0, 1, Capacity}

Init ==
  /\ counter \in Uninitialised
  /\ data = [i \in 0..Capacity-1 |-> Garbage]
  /\ counterLock = {} /\ dataLock = {}
  /\ pc = [p \in Enqueuers |-> "idle"]
  /\ element = [p \in Enqueuers |-> Garbage]
  /\ old = [p \in Enqueuers |-> 0]
  /\ ok = [p \in Enqueuers |-> FALSE]
  /\ calls = 0
  /\ dPc = "construct" /\ current = 0 /\ copied = 0 /\ output = <<>>
  /\ early = {} /\ accepted = {} /\ before = [e \in Elements |-> {}]

--------------------------------------------------------------------------------
(* MPI_LOCK_SHARED is granted unless the dequeuer has the lock. *)
GrantShared(lock) == Dequeuer \notin lock

GrantExclusive(lock) == lock = {}

--------------------------------------------------------------------------------
(* The constructor at the dequeuer, after the windows have been allocated. *)

ConstructLock ==
  /\ dPc = "construct"
  /\ GrantExclusive(counterLock)
  /\ counterLock' = counterLock \cup {Dequeuer}
  /\ dPc' = "initialise"
  /\ UNCHANGED <<counter, data, dataLock, enqVars, current, copied, output, history>>

ConstructReset ==
  /\ dPc = "initialise"
  /\ counter' = 0
  /\ counterLock' = counterLock \ {Dequeuer}
  /\ dPc' = "idle"
  /\ UNCHANGED <<data, dataLock, enqVars, current, copied, output, history>>

Constructed == dPc \notin {"construct", "initialise"}

--------------------------------------------------------------------------------
(* enqueue. *)

Call(p) ==
  /\ pc[p] = "idle" /\ calls < MaxCalls
  /\ calls' = calls + 1
  /\ element' = [element EXCEPT ![p] = calls + 1]
  /\ before' = [before EXCEPT ![calls + 1] = accepted]
  /\ pc' = [pc EXCEPT ![p] = "lockCounter"]
  /\ UNCHANGED <<windows, old, ok, deqVars, early, accepted>>

LockCounter(p) ==
  /\ pc[p] = "lockCounter"
  /\ GrantShared(counterLock)
  /\ counterLock' = counterLock \cup {p}
  /\ pc' = [pc EXCEPT ![p] = "lockData"]
  /\ UNCHANGED <<counter, data, dataLock, element, old, ok, calls, deqVars, history>>

LockData(p) ==
  /\ pc[p] = "lockData"
  /\ GrantShared(dataLock)
  /\ dataLock' = dataLock \cup {p}
  /\ pc' = [pc EXCEPT ![p] = "increment"]
  /\ UNCHANGED <<counter, data, counterLock, element, old, ok, calls, deqVars, history>>

(* Mutant of Increment: off by one. *)
IncrementOffByOne(p) ==
  /\ pc[p] = "increment"
  /\ old' = [old EXCEPT ![p] = counter]
  /\ counter' = counter + 1
  /\ early' = IF Constructed THEN early ELSE early \cup {element[p]}
  /\ pc' = [pc EXCEPT ![p] = IF counter >= Capacity - 1 THEN "decrement" ELSE "put"]
  /\ UNCHANGED <<data, counterLock, dataLock, element, ok, calls, deqVars, accepted, before>>

Increment(p) ==
  /\ pc[p] = "increment"
  /\ old' = [old EXCEPT ![p] = counter]
  /\ counter' = counter + 1
  /\ early' = IF Constructed THEN early ELSE early \cup {element[p]}
  /\ pc' = [pc EXCEPT ![p] = IF counter >= Capacity THEN "decrement" ELSE "put"]
  /\ UNCHANGED <<data, counterLock, dataLock, element, ok, calls, deqVars, accepted, before>>

(* Mutant of Decrement: returns without giving the lock of the buffer back. *)
DecrementKeepsLock(p) ==
  /\ pc[p] = "decrement"
  /\ counter' = counter - 1
  /\ ok' = [ok EXCEPT ![p] = FALSE]
  /\ pc' = [pc EXCEPT ![p] = "unlockCounter"]
  /\ UNCHANGED <<data, counterLock, dataLock, element, old, calls, deqVars, history>>

(* The buffer is full: take the increment back. *)
Decrement(p) ==
  /\ pc[p] = "decrement"
  /\ counter' = counter - 1
  /\ ok' = [ok EXCEPT ![p] = FALSE]
  /\ pc' = [pc EXCEPT ![p] = "unlockData"]
  /\ UNCHANGED <<data, counterLock, dataLock, element, old, calls, deqVars, history>>

PutElement(p) ==
  /\ pc[p] = "put"
  /\ data' = [data EXCEPT ![old[p]] = element[p]]
  /\ ok' = [ok EXCEPT ![p] = TRUE]
  /\ pc' = [pc EXCEPT ![p] = "unlockData"]
  /\ UNCHANGED <<counter, counterLock, dataLock, element, old, calls, deqVars, history>>

UnlockData(p) ==
  /\ pc[p] = "unlockData"
  /\ dataLock' = dataLock \ {p}
  /\ pc' = [pc EXCEPT ![p] = "unlockCounter"]
  /\ UNCHANGED <<counter, data, counterLock, element, old, ok, calls, deqVars, history>>

UnlockCounter(p) ==
  /\ pc[p] = "unlockCounter"
  /\ counterLock' = counterLock \ {p}
  /\ pc' = [pc EXCEPT ![p] = "idle"]
  /\ accepted' = IF ok[p] THEN accepted \cup {element[p]} ELSE accepted
  /\ UNCHANGED <<counter, data, dataLock, element, old, ok, calls, deqVars, early, before>>

--------------------------------------------------------------------------------
(* dequeue. *)

DCall ==
  /\ dPc = "idle"
  /\ dPc' = "lockCounter"
  /\ UNCHANGED <<windows, enqVars, current, copied, output, history>>

DLockCounter ==
  /\ dPc = "lockCounter"
  /\ GrantExclusive(counterLock)
  /\ counterLock' = counterLock \cup {Dequeuer}
  /\ dPc' = "lockData"
  /\ UNCHANGED <<counter, data, dataLock, enqVars, current, copied, output, history>>

DLockData ==
  /\ dPc = "lockData"
  /\ GrantExclusive(dataLock)
  /\ dataLock' = dataLock \cup {Dequeuer}
  /\ dPc' = "read"
  /\ UNCHANGED <<counter, data, counterLock, enqVars, current, copied, output, history>>

(* Mutant of ReadCounter: waits for an element, with the locks. *)
ReadCounterPolls ==
  /\ dPc = "read"
  /\ current' = counter /\ copied' = 0
  /\ dPc' = IF counter = 0 THEN "read" ELSE "reset"
  /\ UNCHANGED <<windows, enqVars, output, history>>

ReadCounter ==
  /\ dPc = "read"
  /\ current' = counter /\ copied' = 0
  /\ dPc' = IF counter = 0 THEN "unlockData" ELSE "reset"
  /\ UNCHANGED <<windows, enqVars, output, history>>

(* Mutant of ResetCounter: leaves the elements it is about to copy. *)
ResetCounterNot ==
  /\ dPc = "reset"
  /\ dPc' = "copy"
  /\ UNCHANGED <<counter, data, counterLock, dataLock, enqVars, current, copied, output, history>>

ResetCounter ==
  /\ dPc = "reset"
  /\ counter' = 0
  /\ dPc' = "copy"
  /\ UNCHANGED <<data, counterLock, dataLock, enqVars, current, copied, output, history>>

(* Mutant of CopyElement: last in, first out. *)
CopyElementLast ==
  /\ dPc = "copy"
  /\ output' = Append(output, data[current - 1 - copied])
  /\ copied' = copied + 1
  /\ dPc' = IF copied + 1 < current THEN "copy" ELSE "unlockData"
  /\ UNCHANGED <<windows, enqVars, current, history>>

CopyElement ==
  /\ dPc = "copy"
  /\ output' = Append(output, data[copied])
  /\ copied' = copied + 1
  /\ dPc' = IF copied + 1 < current THEN "copy" ELSE "unlockData"
  /\ UNCHANGED <<windows, enqVars, current, history>>

DUnlockData ==
  /\ dPc = "unlockData"
  /\ dataLock' = dataLock \ {Dequeuer}
  /\ dPc' = "unlockCounter"
  /\ UNCHANGED <<counter, data, counterLock, enqVars, current, copied, output, history>>

DUnlockCounter ==
  /\ dPc = "unlockCounter"
  /\ counterLock' = counterLock \ {Dequeuer}
  /\ dPc' = "idle"
  /\ UNCHANGED <<counter, data, dataLock, enqVars, current, copied, output, history>>

--------------------------------------------------------------------------------
EnqueuerStep(p) ==
  \/ LockCounter(p) \/ LockData(p)
  \/ Increment(p) \/ Decrement(p) \/ PutElement(p)
  \/ UnlockData(p) \/ UnlockCounter(p)

DequeuerStep ==
  \/ ConstructLock \/ ConstructReset
  \/ DLockCounter \/ DLockData
  \/ ReadCounter \/ ResetCounter \/ CopyElement
  \/ DUnlockData \/ DUnlockCounter

Next ==
  \/ \E p \in Enqueuers : Call(p) \/ EnqueuerStep(p)
  \/ DCall \/ DequeuerStep

Spec == Init /\ [][Next]_vars

(* A rank that has called an operation keeps executing it.  MPI promises no  *)
(* fairness of its locks: one that is granted to others ever again need not  *)
(* be granted to this rank.                                                  *)
ScheduledSpec ==
  /\ Spec
  /\ \A p \in Enqueuers : WF_vars(EnqueuerStep(p))
  /\ WF_vars(DequeuerStep)

--------------------------------------------------------------------------------
Refusing == {p \in Enqueuers : pc[p] = "decrement"}
Reserved == {old[p] : p \in {q \in Enqueuers : pc[q] = "put"}}

(* Type correctness. *)
TypeOK ==
  /\ counter \in 0..Capacity + Cardinality(Enqueuers)
  /\ data \in [0..Capacity-1 -> Elements \cup {Garbage}]
  /\ counterLock \subseteq Enqueuers \cup {Dequeuer}
  /\ dataLock \subseteq Enqueuers \cup {Dequeuer}
  /\ pc \in [Enqueuers -> {"idle", "lockCounter", "lockData", "increment", "decrement", "put",
                           "unlockData", "unlockCounter"}]
  /\ element \in [Enqueuers -> Elements \cup {Garbage}]
  /\ old \in [Enqueuers -> 0..Capacity + Cardinality(Enqueuers)]
  /\ ok \in [Enqueuers -> BOOLEAN]
  /\ calls \in 0..MaxCalls
  /\ dPc \in {"construct", "initialise", "idle", "lockCounter", "lockData", "read", "reset",
              "copy", "unlockData", "unlockCounter"}
  /\ current \in 0..Capacity /\ copied \in 0..Capacity
  /\ output \in Seq(Elements)
  /\ early \subseteq Elements /\ accepted \subseteq Elements
  /\ before \in [Elements -> SUBSET Elements]

(* Slots of the buffer taken and not yet copied. *)
Waiting ==
  (IF dPc = "copy" THEN copied..current-1 ELSE {})
    \cup {i \in 0..Capacity-1 : i < counter - Cardinality(Refusing)}

(***************************************************************************)
(* Every element whose enqueue returned true is in the buffer or among     *)
(* what dequeue returned, once: a dequeue never runs between the increment *)
(* of an enqueue and its put or its decrement.  Elements enqueued before   *)
(* the dequeuer's constructor has reset the counter are not safe: the      *)
(* reset forgets them.                                                     *)
(***************************************************************************)
ExactlyOnceApart ==
  \A e \in accepted \ early :
    Cardinality({i \in Waiting \ Reserved : data[i] = e})
      + Cardinality({i \in DOMAIN output : output[i] = e}) = 1

(* An element comes out before every one whose enqueue began after its own *)
(* had returned, also across several dequeues.                             *)
OrderKept ==
  \A i, j \in DOMAIN output : i < j => output[j] \notin before[output[i]]

(* An enqueue is refused only when the buffer is full, though the counter    *)
(* also counts the enqueues that are being refused, unless it came before    *)
(* the reset.                                                                *)
RefusedWhenFullApart ==
  \A p \in Refusing : element[p] \notin early => Cardinality(Waiting) = Capacity

(* A rank in a call that waits for a lock which its holders keep from it. *)
Blocked(p) ==
  \/ pc[p] = "lockCounter" /\ ~GrantShared(counterLock)
  \/ pc[p] = "lockData" /\ ~GrantShared(dataLock)

DBlocked ==
  \/ dPc \in {"construct", "lockCounter"} /\ ~GrantExclusive(counterLock)
  \/ dPc = "lockData" /\ ~GrantExclusive(dataLock)

(* Ranks that wait for a lock never wait for each other: of those in a call  *)
(* one can always go on, whatever locks the calls that returned have left.   *)
SomeoneProceeds ==
  (dPc # "idle" \/ \E p \in Enqueuers : pc[p] # "idle") =>
    \/ dPc # "idle" /\ ~DBlocked
    \/ \E p \in Enqueuers : pc[p] # "idle" /\ ~Blocked(p)

(* Calls return once the other side stops calling: the locks they wait for *)
(* are given back by calls that return themselves.                         *)
EnqueuersReturn ==
  \A p \in Enqueuers :
    <>[](dPc = "idle") => ((pc[p] # "idle") ~> (pc[p] = "idle"))

DequeuerReturns ==
  (\A p \in Enqueuers : <>[](pc[p] = "idle")) => ((dPc # "idle") ~> (dPc = "idle"))

CallsReturn == EnqueuersReturn /\ DequeuerReturns

================================================================================
