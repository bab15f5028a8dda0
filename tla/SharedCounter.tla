----------------------------- MODULE SharedCounter -----------------------------
(***************************************************************************)
(* What the counters of lib/distributed-counters promise to the queues     *)
(* built on them: get_and_increment returns a number the shared counter    *)
(* handed out between the call and its return.  FaaCounter gives out every *)
(* number once; CsFaaCounter lets ranks of one node return the same one.   *)
(* Either way what a call returns is above whatever was returned before it *)
(* began, which is all that the queues order their elements by.            *)
(***************************************************************************)
EXTENDS Integers

CONSTANTS
  Ranks,      \* the ranks that call get_and_increment
  MaxCount    \* bound: numbers handed out

VARIABLES
  counter,    \* numbers handed out so far
  state,      \* rank: "idle", "called" or "done"
  low,        \* rank: counter when its call began
  value       \* rank: what its call returns

vars == <<counter, state, low, value>>

Nothing == -1   \* no value yet

Init ==
  /\ counter = 0
  /\ state = [p \in Ranks |-> "idle"]
  /\ low = [p \in Ranks |-> 0]
  /\ value = [p \in Ranks |-> Nothing]

Call(p) ==
  /\ state[p] = "idle"
  /\ state' = [state EXCEPT ![p] = "called"]
  /\ low' = [low EXCEPT ![p] = counter]
  /\ UNCHANGED <<counter, value>>

(* The call increments the counter itself ... *)
TakeFresh(p) ==
  /\ state[p] = "called"
  /\ counter < MaxCount
  /\ counter' = counter + 1
  /\ state' = [state EXCEPT ![p] = "done"]
  /\ value' = [value EXCEPT ![p] = counter]
  /\ UNCHANGED low

(* ... or shares a number handed out since it began. *)
TakeShared(p) ==
  /\ state[p] = "called"
  /\ state' = [state EXCEPT ![p] = "done"]
  /\ \E v \in low[p]..counter-1 : value' = [value EXCEPT ![p] = v]
  /\ UNCHANGED <<counter, low>>

Return(p) ==
  /\ state[p] = "done"
  /\ state' = [state EXCEPT ![p] = "idle"]
  /\ value' = [value EXCEPT ![p] = Nothing]
  /\ UNCHANGED <<counter, low>>

Next == \E p \in Ranks : Call(p) \/ TakeFresh(p) \/ TakeShared(p) \/ Return(p)

Spec == Init /\ [][Next]_vars

================================================================================
