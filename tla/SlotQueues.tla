------------------------------- MODULE SlotQueues -------------------------------
(***************************************************************************)
(* The classes of slotqueue/ side by side: one of Classes is constructed   *)
(* and then used.  The properties are those of Slots.                      *)
(***************************************************************************)
EXTENDS Slots

CONSTANTS
  Classes,
  VariantCalls   \* bound: elements enqueued by a class other than SlotQueue

VARIABLE class   \* the class that is constructed

Slot == INSTANCE SlotQueue
Node == INSTANCE SlotNodeQueue
Hosted == INSTANCE HostedSlotQueue
Unbounded == INSTANCE UnboundedSlotQueue

ASSUME SlotQueuesAssumption ==
  Classes \subseteq {"SlotQueue", "SlotNodeQueue", "HostedSlotQueue", "UnboundedSlotQueue"}

Within ==
  class = "SlotQueue" \/ Cardinality(Node!Called) + Cardinality(Node!Accepted) <= VariantCalls

Init ==
  /\ class \in Classes
  /\ \/ class = "SlotQueue" /\ Slot!Init
     \/ class = "SlotNodeQueue" /\ Node!Init
     \/ class = "HostedSlotQueue" /\ Hosted!Init
     \/ class = "UnboundedSlotQueue" /\ Unbounded!Init

Next ==
  /\ \/ class = "SlotQueue" /\ Slot!Next
     \/ class = "SlotNodeQueue" /\ Node!Next
     \/ class = "HostedSlotQueue" /\ Hosted!Next
     \/ class = "UnboundedSlotQueue" /\ Unbounded!Next
  /\ UNCHANGED class
  /\ Within'

Spec == Init /\ [][Next]_<<vars, class>>

EnqueuerStep(p) ==
  /\ \/ class = "SlotQueue" /\ Slot!EnqueuerStep(p)
     \/ class = "SlotNodeQueue" /\ Node!EnqueuerStep(p)
     \/ class = "HostedSlotQueue" /\ Hosted!EnqueuerStep(p)
     \/ class = "UnboundedSlotQueue" /\ Unbounded!EnqueuerStep(p)
  /\ UNCHANGED class

DequeuerStep ==
  /\ \/ class \in {"SlotQueue", "SlotNodeQueue"} /\ Slot!DequeuerStep
     \/ class \in {"HostedSlotQueue", "UnboundedSlotQueue"} /\ Hosted!DequeuerStep
  /\ UNCHANGED class

(***************************************************************************)
(* Wait-freedom with its bound: a call has at most so many steps of its    *)
(* own to take, each of them leaves fewer to take, and none of another     *)
(* rank's leaves more.                                                     *)
(***************************************************************************)
StepsBounded ==
  /\ [](/\ \A p \in Ranks :
             EnqueueSteps(enq[p]) \in Nat /\ (EnqueueSteps(enq[p]) = 0 <=> enq[p].pc = "idle")
        /\ DequeueSteps(deq) \in Nat /\ (DequeueSteps(deq) = 0 <=> deq.pc = "idle"))
  /\ [][/\ \A p \in Ranks :
             /\ EnqueueSteps(enq'[p]) <=
                  IF enq[p].pc = "idle" THEN MostEnqueueSteps ELSE EnqueueSteps(enq[p])
             /\ EnqueuerStep(p) => EnqueueSteps(enq'[p]) < EnqueueSteps(enq[p])
        /\ DequeueSteps(deq') <= IF deq.pc = "idle" THEN MostDequeueSteps ELSE DequeueSteps(deq)
        /\ DequeuerStep => DequeueSteps(deq') < DequeueSteps(deq)]_vars

(***************************************************************************)
(* A rank that has called an operation keeps executing it.  Nothing makes  *)
(* any rank call: ScheduledSpec is what wait-freedom has to hold under.    *)
(***************************************************************************)
ScheduledSpec ==
  /\ Spec
  /\ \A p \in Ranks : WF_vars(EnqueuerStep(p))
  /\ WF_vars(DequeuerStep)

(***************************************************************************)
(* A class with private copies never uses a stale one (see Slots).         *)
(***************************************************************************)
CopyIsFront == class \in {"SlotQueue", "SlotNodeQueue"} => BufIsFront

================================================================================
