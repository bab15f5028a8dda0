----------------------------- MODULE CsFaaCounter ------------------------------
(***************************************************************************)
(* lib/distributed-counters/cs_faa.hpp: class CsFaaCounter.                *)
(*                                                                         *)
(* The ranks of a node share memory.  Every call takes a ticket of its     *)
(* node, and a rank that finds a later ticket than its own at another rank *)
(* waits a little for the number that rank takes and returns it too; one   *)
(* that finds none increments the remote counter.  One action is one       *)
(* access to an atomic of the shared memory or to the remote counter.      *)
(***************************************************************************)
EXTENDS Integers, FiniteSets

CONSTANTS
  Ranks,        \* the ranks of the communicator, numbers
  Nodes,        \* the sets of ranks that share a node's memory
  MaxRetries,   \* the literal 300 of get_and_increment
  MaxCalls      \* bound: calls ever made

ASSUME CsFaaCounterAssumption ==
  /\ Ranks \subseteq Nat /\ IsFiniteSet(Ranks)
  /\ UNION Nodes = Ranks /\ \A m, n \in Nodes : m = n \/ m \cap n = {}
  /\ MaxRetries \in Nat \ {0} /\ MaxCalls \in Nat

VARIABLES
  counter,      \* _base_counter (window of its host)
  tickets,      \* node: *_start_counter_ptr of the node's first rank
  ticket,       \* rank: *_self_start_counter_ptr
  number,       \* rank: *_self_remote_counter_ptr
  pc,           \* rank: control point
  mine, got,    \* rank: self_start, self_counter
  peer,         \* rank: i, the peer it looks at
  retries,      \* rank: its waits for that peer so far
  low,          \* history: counter when the rank's call began
  calls         \* number of calls made (bounds the model)

shared == <<counter, tickets, ticket, number>>
private == <<pc, mine, got, peer, retries, low, calls>>
vars == <<shared, private>>

MAX_COUNT == -1    \* ~0, as an MPI_Aint

(* The members of _sm_comm, in the order of their ranks. *)
Peers(p) == CHOOSE n \in Nodes : p \in n
FirstPeer(p) == CHOOSE i \in Peers(p) : \A j \in Peers(p) : i <= j
LaterPeers(p) == {i \in Peers(p) : i > peer[p]}

Init ==
  /\ counter = 0
  /\ tickets = [n \in Nodes |-> 0]
  /\ ticket = [p \in Ranks |-> 0]
  /\ number = [p \in Ranks |-> 0]
  /\ pc = [p \in Ranks |-> "idle"]
  /\ mine = [p \in Ranks |-> 0]
  /\ got = [p \in Ranks |-> MAX_COUNT]
  /\ peer = [p \in Ranks |-> FirstPeer(p)]
  /\ retries = [p \in Ranks |-> 0]
  /\ low = [p \in Ranks |-> 0]
  /\ calls = 0

--------------------------------------------------------------------------------
(* get_and_increment. *)

(* Mutant of Call: leaves the number of the rank's last call on show. *)
CallKeepsNumber(p) ==
  /\ pc[p] = "idle" /\ calls < MaxCalls
  /\ pc' = [pc EXCEPT ![p] = "ticket"]
  /\ low' = [low EXCEPT ![p] = counter]
  /\ calls' = calls + 1
  /\ UNCHANGED <<shared, mine, got, peer, retries>>

(* The call begins by taking back the number of the last one. *)
Call(p) ==
  /\ pc[p] = "idle" /\ calls < MaxCalls
  /\ number' = [number EXCEPT ![p] = MAX_COUNT]
  /\ pc' = [pc EXCEPT ![p] = "ticket"]
  /\ low' = [low EXCEPT ![p] = counter]
  /\ calls' = calls + 1
  /\ UNCHANGED <<counter, tickets, ticket, mine, got, peer, retries>>

TakeTicket(p) ==
  /\ pc[p] = "ticket"
  /\ mine' = [mine EXCEPT ![p] = tickets[Peers(p)]]
  /\ tickets' = [tickets EXCEPT ![Peers(p)] = @ + 1]
  /\ pc' = [pc EXCEPT ![p] = "publish"]
  /\ UNCHANGED <<counter, ticket, number, got, peer, retries, low, calls>>

PublishTicket(p) ==
  /\ pc[p] = "publish"
  /\ ticket' = [ticket EXCEPT ![p] = mine[p]]
  /\ got' = [got EXCEPT ![p] = MAX_COUNT]
  /\ peer' = [peer EXCEPT ![p] = FirstPeer(p)]
  /\ pc' = [pc EXCEPT ![p] = "compare"]
  /\ UNCHANGED <<counter, tickets, number, mine, retries, low, calls>>

(* Done with a peer, with number c found so far: on to the next one. *)
NextPeer(p, c) ==
  /\ got' = [got EXCEPT ![p] = c]
  /\ IF LaterPeers(p) # {}
     THEN /\ peer' = [peer EXCEPT ![p] = CHOOSE i \in LaterPeers(p) :
                                            \A j \in LaterPeers(p) : i <= j]
          /\ pc' = [pc EXCEPT ![p] = "compare"]
     ELSE /\ pc' = [pc EXCEPT ![p] = IF c = MAX_COUNT THEN "base" ELSE "store"]
          /\ UNCHANGED peer

(* Mutant of Later: trusts a peer that began first. *)
LaterOrEarlier(p, i) == mine[p] # ticket[i]

Later(p, i) == mine[p] < ticket[i]

(* Only a peer whose call began later can have a number of use. *)
Compare(p) ==
  /\ pc[p] = "compare"
  /\ \/ /\ Later(p, peer[p])
        /\ pc' = [pc EXCEPT ![p] = "load"]
        /\ UNCHANGED <<got, peer>>
     \/ ~Later(p, peer[p]) /\ NextPeer(p, got[p])
  /\ UNCHANGED <<shared, mine, retries, low, calls>>

Load(p) ==
  /\ pc[p] = "load"
  /\ \/ /\ number[peer[p]] = MAX_COUNT
        /\ pc' = [pc EXCEPT ![p] = "spin"]
        /\ retries' = [retries EXCEPT ![p] = 0]
        /\ UNCHANGED <<got, peer>>
     \/ /\ number[peer[p]] # MAX_COUNT
        /\ NextPeer(p, number[peer[p]])
        /\ UNCHANGED retries
  /\ UNCHANGED <<shared, mine, low, calls>>

(* Mutant of Spin: waits until the peer has its number. *)
SpinForever(p) ==
  /\ pc[p] = "spin"
  /\ \/ number[peer[p]] # MAX_COUNT /\ NextPeer(p, number[peer[p]])
     \/ number[peer[p]] = MAX_COUNT /\ UNCHANGED <<pc, got, peer>>
  /\ UNCHANGED <<shared, mine, retries, low, calls>>

(* The peer has no number yet: wait for it, but not for ever. *)
Spin(p) ==
  /\ pc[p] = "spin"
  /\ \/ number[peer[p]] # MAX_COUNT /\ NextPeer(p, number[peer[p]])
     \/ number[peer[p]] = MAX_COUNT /\ retries[p] + 1 = MaxRetries /\ NextPeer(p, got[p])
     \/ /\ number[peer[p]] = MAX_COUNT /\ retries[p] + 1 < MaxRetries
        /\ UNCHANGED <<pc, got, peer>>
  /\ retries' = [retries EXCEPT ![p] = @ + 1]
  /\ UNCHANGED <<shared, mine, low, calls>>

(* _base_counter.get_and_increment() *)
BaseIncrement(p) ==
  /\ pc[p] = "base"
  /\ got' = [got EXCEPT ![p] = counter]
  /\ counter' = counter + 1
  /\ pc' = [pc EXCEPT ![p] = "store"]
  /\ UNCHANGED <<tickets, ticket, number, mine, peer, retries, low, calls>>

(* Show the number to the peers and return it. *)
Store(p) ==
  /\ pc[p] = "store"
  /\ number' = [number EXCEPT ![p] = got[p]]
  /\ pc' = [pc EXCEPT ![p] = "idle"]
  /\ UNCHANGED <<counter, tickets, ticket, mine, got, peer, retries, low, calls>>

--------------------------------------------------------------------------------
Step(p) ==
  \/ TakeTicket(p) \/ PublishTicket(p)
  \/ Compare(p) \/ Load(p) \/ Spin(p)
  \/ BaseIncrement(p) \/ Store(p)

Next == \E p \in Ranks : Call(p) \/ Step(p)

Spec == Init /\ [][Next]_vars

--------------------------------------------------------------------------------
(* Type correctness. *)
TypeOK ==
  /\ counter \in Nat
  /\ tickets \in [Nodes -> Nat]
  /\ ticket \in [Ranks -> Nat] /\ mine \in [Ranks -> Nat] /\ low \in [Ranks -> Nat]
  /\ number \in [Ranks -> Nat \cup {MAX_COUNT}] /\ got \in [Ranks -> Nat \cup {MAX_COUNT}]
  /\ pc \in [Ranks -> {"idle", "ticket", "publish", "compare", "load", "spin", "base", "store"}]
  /\ peer \in [Ranks -> Ranks]
  /\ retries \in [Ranks -> 0..MaxRetries]
  /\ calls \in 0..MaxCalls

(***************************************************************************)
(* The number a rank shows, and any it copies, was handed out by the       *)
(* remote counter after every call that may still copy it began, though it *)
(* may have passed through several ranks and calls: that is why the queues *)
(* may take two elements with the same timestamp to be concurrent.         *)
(***************************************************************************)
CopiesAreFresh ==
  \A p \in Ranks : pc[p] # "idle" =>
    /\ got[p] = MAX_COUNT \/ pc[p] \in {"ticket", "publish"} \/ got[p] >= low[p]
    /\ pc[p] \in {"compare", "load", "spin"} =>
         \A i \in Peers(p) : Later(p, i) => number[i] = MAX_COUNT \/ number[i] >= low[p]

(***************************************************************************)
(* Wait-freedom: a call returns even if every other rank stops for good in *)
(* the middle of a call, its ticket taken and its number not yet shown.    *)
(***************************************************************************)
EveryCallReturns ==
  \A p \in Ranks : WF_vars(Step(p)) => ((pc[p] # "idle") ~> (pc[p] = "idle"))

(* CsFaaCounter is a shared counter: a call that returns a number another  *)
(* rank took returns one taken during the call itself.                     *)
Abstract == INSTANCE SharedCounter WITH
  MaxCount <- MaxCalls,
  state <- [p \in Ranks |-> IF pc[p] = "idle" THEN "idle"
                            ELSE IF pc[p] = "store" THEN "done" ELSE "called"],
  value <- [p \in Ranks |-> IF pc[p] = "store" THEN got[p] ELSE MAX_COUNT]

(* The refinement: every behaviour is one of SharedCounter. *)
Implements == Abstract!Spec

================================================================================
