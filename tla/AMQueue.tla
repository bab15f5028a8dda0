-------------------------------- MODULE AMQueue --------------------------------
(***************************************************************************)
(* active-message-queue/active-message-queue.hpp: class AMQueue.           *)
(*                                                                         *)
(* The dequeuer hosts two buffers.  An enqueue reads which one is open,    *)
(* registers there by adding 1 to its writer count, reserves a slot by     *)
(* adding 1 to its offset, writes and deregisters; a negative count sends  *)
(* it back to the start.  dequeue opens the other buffer, subtracts a      *)
(* large number from the writer count of this one, waits until no writer   *)
(* is left, and copies all that was written.                               *)
(*                                                                         *)
(* A call is merged with its first remote access, a return with its last.  *)
(* The dequeuer's plain accesses to its own windows are separate steps, in *)
(* program order.                                                          *)
(***************************************************************************)
EXTENDS Integers, FiniteSets

CONSTANTS
  Enqueuers,    \* the ranks that enqueue
  Capacity,     \* _capacity, of each buffer
  LargeNumber,  \* LARGE_NUMBER
  MaxCalls      \* bound: number of calls of enqueue

ASSUME AMQueueAssumption ==
  /\ IsFiniteSet(Enqueuers)
  /\ Capacity \in Nat \ {0}
  /\ LargeNumber \in Nat /\ LargeNumber > Cardinality(Enqueuers)
  /\ MaxCalls \in Nat

VARIABLES
  calls,        \* calls of enqueue so far; each enqueues the next element
  queueNum,     \* _queue_num: the open buffer
  writers,      \* _writer_count_0, _writer_count_1
  offset,       \* _offset_0, _offset_1
  data,         \* _data_0, _data_1
  enq,          \* for each rank: control point and locals of its enqueue
  prevQueueNum, \* _prev_queue_num
  deq,          \* control point and locals of dequeue
  accepted,     \* history: the elements whose enqueue returned true
  delivered,    \* history: how often dequeue has returned each element
  raced         \* history: a buffer was reopened too early (see Races)

enqVars == <<enq, accepted>>
deqVars == <<prevQueueNum, deq, delivered>>
vars == <<calls, queueNum, writers, offset, data, enqVars, deqVars, raced>>

Buffers == {0, 1}
Elements == 1..MaxCalls
Garbage == 0   \* what MPI_Win_allocate leaves in the data windows

(* The locals of a caller that is in no call. *)
EnqIdle == [pc |-> "idle", element |-> 0, queue |-> 0, slot |-> 0]
DeqIdle == [pc |-> "idle", queue |-> 0, size |-> 0, next |-> 0]

Init ==
  /\ calls = 0
  /\ queueNum = 0 /\ prevQueueNum = 0
  /\ writers = [b \in Buffers |-> 0]
  /\ offset = [b \in Buffers |-> 0]
  /\ data = [b \in Buffers |-> [i \in 0..Capacity-1 |-> Garbage]]
  /\ enq = [p \in Enqueuers |-> EnqIdle]
  /\ deq = DeqIdle
  /\ accepted = {}
  /\ delivered = [x \in Elements |-> 0]
  /\ raced = FALSE

(* fetch_and_add_sync, without what it returns. *)
FetchAndAdd(cell, b, n) == cell' = [cell EXCEPT ![b] = @ + n]

(***************************************************************************)
(* Races: dequeue resets the writer count while the 1 of a rank that is    *)
(* about to withdraw is in it, which leaves the count negative; or a rank  *)
(* that read the queue number long ago registers after the reset, while    *)
(* dequeue has yet to copy.                                                *)
(***************************************************************************)
CountIsDirty == writers[deq.queue] # -LargeNumber
CopyUnderWay(b) == deq.pc = "copy" /\ deq.queue = b /\ deq.next < deq.size

--------------------------------------------------------------------------------
(* enqueue. *)

EnqueueCall(p) ==
  /\ enq[p].pc = "idle"
  /\ calls < MaxCalls
  /\ calls' = calls + 1
  /\ enq' = [enq EXCEPT ![p] = [EnqIdle EXCEPT !.pc = "register", !.element = calls', !.queue = queueNum]]
  /\ UNCHANGED <<queueNum, writers, offset, data, accepted, deqVars, raced>>

ReadQueueNum(p) ==
  /\ enq[p].pc = "read"
  /\ enq' = [enq EXCEPT ![p].pc = "register", ![p].queue = queueNum]
  /\ UNCHANGED <<calls, queueNum, writers, offset, data, accepted, deqVars, raced>>

(* Mutant of Register: a closed buffer is not noticed. *)
RegisterAlways(p) ==
  LET b == enq[p].queue
  IN  /\ enq[p].pc = "register"
      /\ FetchAndAdd(writers, b, 1)
      /\ enq' = [enq EXCEPT ![p].pc = "reserve"]
      /\ UNCHANGED <<calls, queueNum, offset, data, accepted, deqVars, raced>>

Register(p) ==
  LET b == enq[p].queue
  IN  /\ enq[p].pc = "register"
      /\ FetchAndAdd(writers, b, 1)
      /\ \/ /\ writers[b] >= 0
            /\ enq' = [enq EXCEPT ![p].pc = "reserve"]
            /\ raced' = (raced \/ CopyUnderWay(b))
         \/ /\ writers[b] < 0
            /\ enq' = [enq EXCEPT ![p].pc = "withdraw"]
            /\ UNCHANGED raced
      /\ UNCHANGED <<calls, queueNum, offset, data, accepted, deqVars>>

Withdraw(p) ==
  /\ enq[p].pc = "withdraw"
  /\ FetchAndAdd(writers, enq[p].queue, -1)
  /\ enq' = [enq EXCEPT ![p].pc = "read"]
  /\ UNCHANGED <<calls, queueNum, offset, data, accepted, deqVars, raced>>

Reserve(p) ==
  LET slot == offset[enq[p].queue]
  IN  /\ enq[p].pc = "reserve"
      /\ FetchAndAdd(offset, enq[p].queue, 1)
      /\ enq' = [enq EXCEPT ![p].pc = IF slot >= Capacity THEN "giveBack" ELSE "write",
                            ![p].slot = slot]
      /\ UNCHANGED <<calls, queueNum, writers, data, accepted, deqVars, raced>>

(* Mutant of GiveBack: returns without deregistering. *)
GiveBackAndReturn(p) ==
  /\ enq[p].pc = "giveBack"
  /\ FetchAndAdd(offset, enq[p].queue, -1)
  /\ enq' = [enq EXCEPT ![p] = EnqIdle]
  /\ UNCHANGED <<calls, queueNum, writers, data, accepted, deqVars, raced>>

GiveBack(p) ==
  /\ enq[p].pc = "giveBack"
  /\ FetchAndAdd(offset, enq[p].queue, -1)
  /\ enq' = [enq EXCEPT ![p].pc = "leaveFull"]
  /\ UNCHANGED <<calls, queueNum, writers, data, accepted, deqVars, raced>>

(* Full: the enqueue returns false. *)
LeaveFull(p) ==
  /\ enq[p].pc = "leaveFull"
  /\ FetchAndAdd(writers, enq[p].queue, -1)
  /\ enq' = [enq EXCEPT ![p] = EnqIdle]
  /\ UNCHANGED <<calls, queueNum, offset, data, accepted, deqVars, raced>>

(* After a race the slot may lie outside of the buffer. *)
Write(p) ==
  /\ enq[p].pc = "write"
  /\ data' = [data EXCEPT ![enq[p].queue] = [i \in DOMAIN @ |-> IF i = enq[p].slot THEN enq[p].element ELSE @[i]]]
  /\ enq' = [enq EXCEPT ![p].pc = "leave"]
  /\ UNCHANGED <<calls, queueNum, writers, offset, accepted, deqVars, raced>>

Leave(p) ==
  /\ enq[p].pc = "leave"
  /\ FetchAndAdd(writers, enq[p].queue, -1)
  /\ enq' = [enq EXCEPT ![p] = EnqIdle]
  /\ accepted' = accepted \cup {enq[p].element}
  /\ UNCHANGED <<calls, queueNum, offset, data, deqVars, raced>>

--------------------------------------------------------------------------------
(* dequeue. *)

Goto(pc) == deq' = [deq EXCEPT !.pc = pc]

(* Open the other buffer. *)
DequeueCall ==
  /\ deq.pc = "idle"
  /\ deq' = [DeqIdle EXCEPT !.pc = "close", !.queue = prevQueueNum]
  /\ prevQueueNum' = 1 - prevQueueNum
  /\ queueNum' = prevQueueNum'
  /\ UNCHANGED <<calls, writers, offset, data, enqVars, delivered, raced>>

Close ==
  /\ deq.pc = "close"
  /\ FetchAndAdd(writers, deq.queue, -LargeNumber)
  /\ Goto("wait")
  /\ UNCHANGED <<calls, queueNum, offset, data, enqVars, prevQueueNum, delivered, raced>>

(* The loop that adds 0 until the last writer is gone. *)
AwaitWriters ==
  /\ deq.pc = "wait"
  /\ writers[deq.queue] <= -LargeNumber
  /\ Goto("size")
  /\ UNCHANGED <<calls, queueNum, writers, offset, data, enqVars, prevQueueNum, delivered, raced>>

ReadOffset ==
  /\ deq.pc = "size"
  /\ deq' = [deq EXCEPT !.pc = "resetOffset", !.size = offset[deq.queue]]
  /\ UNCHANGED <<calls, queueNum, writers, offset, data, enqVars, prevQueueNum, delivered, raced>>

(* Mutant of ResetOffset: the offset is not reset. *)
ResetOffsetNot ==
  /\ deq.pc = "resetOffset"
  /\ Goto("resetWriters")
  /\ UNCHANGED <<calls, queueNum, writers, offset, data, enqVars, prevQueueNum, delivered, raced>>

ResetOffset ==
  /\ deq.pc = "resetOffset"
  /\ offset' = [offset EXCEPT ![deq.queue] = 0]
  /\ Goto("resetWriters")
  /\ UNCHANGED <<calls, queueNum, writers, data, enqVars, prevQueueNum, delivered, raced>>

ResetWriters ==
  /\ deq.pc = "resetWriters"
  /\ writers' = [writers EXCEPT ![deq.queue] = 0]
  /\ raced' = (raced \/ CountIsDirty)
  /\ Goto("copy")
  /\ UNCHANGED <<calls, queueNum, offset, data, enqVars, prevQueueNum, delivered>>

Content(b, i) == IF i < Capacity THEN data[b][i] ELSE Garbage

Copy ==
  /\ deq.pc = "copy"
  /\ deq.next < deq.size
  /\ deq' = [deq EXCEPT !.next = @ + 1]
  /\ delivered' = LET x == Content(deq.queue, deq.next)
                  IN  IF x = Garbage THEN delivered ELSE [delivered EXCEPT ![x] = @ + 1]
  /\ UNCHANGED <<calls, queueNum, writers, offset, data, enqVars, prevQueueNum, raced>>

DReturn ==
  /\ deq.pc = "copy"
  /\ deq.next >= deq.size
  /\ deq' = DeqIdle
  /\ UNCHANGED <<calls, queueNum, writers, offset, data, enqVars, prevQueueNum, delivered, raced>>

--------------------------------------------------------------------------------
EnqueuerStep(p) ==
  \/ ReadQueueNum(p) \/ Register(p) \/ Withdraw(p)
  \/ Reserve(p) \/ GiveBack(p) \/ LeaveFull(p)
  \/ Write(p) \/ Leave(p)

DequeuerStep ==
  \/ Close \/ AwaitWriters \/ ReadOffset
  \/ ResetOffset \/ ResetWriters \/ Copy \/ DReturn

Next ==
  \/ \E p \in Enqueuers : EnqueueCall(p) \/ EnqueuerStep(p)
  \/ DequeueCall \/ DequeuerStep

Spec == Init /\ [][Next]_vars

(***************************************************************************)
(* A rank that has called an operation keeps executing it; nothing makes   *)
(* any rank call.  dequeue waits for the enqueuers, so its return needs    *)
(* their fairness too.                                                     *)
(***************************************************************************)
ScheduledSpec ==
  /\ Spec
  /\ \A p \in Enqueuers : WF_vars(EnqueuerStep(p))
  /\ WF_vars(DequeuerStep)

--------------------------------------------------------------------------------
(* Type correctness; up to a race, dequeue never reads past a buffer's end. *)
TypeOK ==
  /\ calls \in 0..MaxCalls
  /\ queueNum \in Buffers /\ prevQueueNum \in Buffers
  /\ writers \in [Buffers -> Int]
  /\ offset \in [Buffers -> Int]
  /\ data \in [Buffers -> [0..Capacity-1 -> Elements \cup {Garbage}]]
  /\ enq \in [Enqueuers ->
       [pc : {"idle", "read", "register", "withdraw", "reserve", "giveBack", "leaveFull", "write", "leave"},
        element : 0..MaxCalls, queue : Buffers, slot : Int]]
  /\ deq \in [pc : {"idle", "close", "wait", "size", "resetOffset", "resetWriters", "copy"},
              queue : Buffers, size : Int, next : Nat]
  /\ ~raced => deq.size \in 0..Capacity /\ \A b \in Buffers : offset[b] \in Nat /\ writers[b] >= -LargeNumber
  /\ accepted \subseteq Elements
  /\ delivered \in [Elements -> Nat]
  /\ raced \in BOOLEAN

Draining(b) == deq.pc \in {"size", "resetOffset", "resetWriters", "copy"} /\ deq.queue = b
Registered(p) == enq[p].pc \in {"reserve", "giveBack", "leaveFull", "write", "leave"}

(***************************************************************************)
(* From the end of its wait to the reset of the writer count dequeue has   *)
(* the buffer for itself: a rank that registered is waited for and one     *)
(* that comes later withdraws.                                             *)
(***************************************************************************)
DrainsAlone ==
  \A p \in Enqueuers, b \in Buffers :
    Draining(b) /\ (deq.pc = "copy" => CopyUnderWay(b)) => ~(Registered(p) /\ enq[p].queue = b)

(* The slots of a buffer that dequeue will still copy, now or later. *)
Kept(b) ==
  {i \in 0..Capacity-1 :
     IF Draining(b) /\ deq.pc \in {"resetWriters", "copy"}
     THEN i < offset[b] \/ (deq.next <= i /\ i < deq.size)
     ELSE i < offset[b]}

(***************************************************************************)
(* Every element whose enqueue has returned true has been dequeued, or is  *)
(* in a slot that is still to be copied.                                   *)
(***************************************************************************)
NothingLost ==
  \A x \in accepted : delivered[x] > 0 \/ \E b \in Buffers : \E i \in Kept(b) : data[b][i] = x

(* No element is dequeued twice. *)
NothingTwice == \A x \in Elements : delivered[x] <= 1

(* What the code guarantees: all of it, up to the first of the two races. *)
DrainsAloneApart == ~raced => DrainsAlone
ExactlyOnceApart == ~raced => NothingLost /\ NothingTwice

(* Blocking, but no deadlock: dequeue returns if the enqueuers run. *)
DequeuerReturns == (deq.pc # "idle") ~> (deq.pc = "idle")

(***************************************************************************)
(* An enqueue returns if the dequeuer stops calling dequeue, which sends   *)
(* it from one buffer to the other, and no race has left a count negative. *)
(***************************************************************************)
EnqueuersReturnApart ==
  []~raced /\ <>[](deq.pc = "idle") => \A p \in Enqueuers : (enq[p].pc # "idle") ~> (enq[p].pc = "idle")

CallsReturnApart == DequeuerReturns /\ EnqueuersReturnApart

================================================================================
