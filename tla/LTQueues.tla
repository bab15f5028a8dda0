-------------------------------- MODULE LTQueues --------------------------------
(***************************************************************************)
(* The six classes of ltqueue/ side by side: one of Classes is constructed *)
(* and then used.  The properties are those of LTTree.                     *)
(***************************************************************************)
EXTENDS LTTree

CONSTANTS
  Classes,
  VariantCalls   \* bound: elements enqueued by a class other than LTQueue

VARIABLE class   \* the class that is constructed

LT == INSTANCE LTQueue
Unbounded == INSTANCE UnboundedLTQueue
Node == INSTANCE LTNodeQueue
Naive == INSTANCE NaiveLTQueue
NaiveUnbounded == INSTANCE NaiveUnboundedLTQueue
Eo == INSTANCE EoLTQueue

ASSUME LTQueuesAssumption ==
  Classes \subseteq {"LTQueue", "UnboundedLTQueue", "LTNodeQueue",
                     "NaiveLTQueue", "NaiveUnboundedLTQueue", "EoLTQueue"}

Within ==
  \/ class = "LTQueue"
  \/ Cardinality(Node!Called) + Cardinality(Node!Accepted) <= VariantCalls

Init ==
  /\ class \in Classes
  /\ \/ class = "LTQueue" /\ LT!Init
     \/ class = "UnboundedLTQueue" /\ Unbounded!Init
     \/ class = "LTNodeQueue" /\ Node!Init
     \/ class = "NaiveLTQueue" /\ Naive!Init
     \/ class = "NaiveUnboundedLTQueue" /\ NaiveUnbounded!Init
     \/ class = "EoLTQueue" /\ Eo!Init

Next ==
  /\ \/ class = "LTQueue" /\ LT!Next
     \/ class = "UnboundedLTQueue" /\ Unbounded!Next
     \/ class = "LTNodeQueue" /\ Node!Next
     \/ class = "NaiveLTQueue" /\ Naive!Next
     \/ class = "NaiveUnboundedLTQueue" /\ NaiveUnbounded!Next
     \/ class = "EoLTQueue" /\ Eo!Next
  /\ UNCHANGED class
  /\ Within'

Spec == Init /\ [][Next]_<<vars, class>>

EnqueuerStep(p) ==
  /\ \/ class = "LTQueue" /\ LT!EnqueuerStep(p)
     \/ class = "UnboundedLTQueue" /\ Unbounded!EnqueuerStep(p)
     \/ class = "LTNodeQueue" /\ Node!EnqueuerStep(p)
     \/ class = "NaiveLTQueue" /\ Naive!EnqueuerStep(p)
     \/ class = "NaiveUnboundedLTQueue" /\ NaiveUnbounded!EnqueuerStep(p)
     \/ class = "EoLTQueue" /\ Eo!EnqueuerStep(p)
  /\ UNCHANGED class

(* All classes have the same dequeue. *)
DequeuerStep == LT!DequeuerStep /\ UNCHANGED class

(***************************************************************************)
(* Wait-freedom with its bound: a call has at most MostSteps steps of its  *)
(* own to take, each of them leaves fewer to take, and none of another     *)
(* rank's leaves more.                                                     *)
(***************************************************************************)
StepsBounded ==
  /\ [](\A c \in Callers : StepsLeft(c) \in Nat /\ (StepsLeft(c) = 0 <=> call[c].pc = "idle"))
  /\ [][\A c \in Callers :
          /\ StepsLeft(c)' <= IF call[c].pc = "idle" THEN MostSteps(c) ELSE StepsLeft(c)
          /\ (IF c = Dequeuer THEN DequeuerStep ELSE EnqueuerStep(c)) =>
               StepsLeft(c)' < StepsLeft(c)]_vars

(***************************************************************************)
(* A rank that has called an operation keeps executing it.  Nothing makes  *)
(* any rank call: ScheduledSpec is what wait-freedom has to hold under.    *)
(***************************************************************************)
ScheduledSpec ==
  /\ Spec
  /\ \A p \in Enqueuers : WF_vars(EnqueuerStep(p))
  /\ WF_vars(DequeuerStep)

================================================================================
