-------------------------- MODULE CsFaaCounterProofs ---------------------------
(***************************************************************************)
(* Proofs about class CsFaaCounter, for every number of nodes, of ranks on *)
(* each and of retries: a number is only ever copied by calls that began   *)
(* before it was taken, so the class implements SharedCounter.             *)
(***************************************************************************)
EXTENDS CsFaaCounter, FiniteSetTheorems, WellFoundedInduction, TLAPS

Points == {"idle", "ticket", "publish", "compare", "load", "spin", "base", "store"}

(* The call may still copy a number, or has found one. *)
Copying == {"compare", "load", "spin"}
Numbered == {"compare", "load", "spin", "base", "store"}

(* A number, if any, that was taken no earlier than the call of p began. *)
Recent(p, v) == v = MAX_COUNT \/ v >= low[p]

(* A rank publishes the tickets it takes, its node gives out later ones. *)
TicketInv(p) ==
  /\ peer[p] \in Peers(p)
  /\ ticket[p] <= mine[p] /\ mine[p] <= tickets[Peers(p)]
  /\ pc[p] \in {"load", "spin"} => mine[p] < mine[peer[p]]
  /\ pc[p] = "spin" => retries[p] < MaxRetries

(* Numbers come from the counter, and are on show between two calls only. *)
NumberInv(p) ==
  /\ low[p] <= counter /\ got[p] < counter
  /\ mine[p] = 0 \/ number[p] < counter
  /\ pc[p] # "idle" => number[p] = MAX_COUNT
  /\ pc[p] = "store" => got[p] # MAX_COUNT

(***************************************************************************)
(* Whoever took a later ticket than p, and began by clearing the number on *)
(* show, has only numbers that p may copy, those copied from still later   *)
(* tickets included.                                                       *)
(***************************************************************************)
CopyInv(p) ==
  /\ pc[p] \in Numbered => Recent(p, got[p])
  /\ pc[p] \in Copying \cup {"publish"} =>
       \A i \in Peers(p) : mine[p] < mine[i] =>
         /\ Recent(p, number[i])
         /\ pc[i] \in Numbered => Recent(p, got[i])

IInv == TypeOK /\ \A p \in Ranks : TicketInv(p) /\ NumberInv(p) /\ CopyInv(p)

--------------------------------------------------------------------------------
(* The ranks of a node share one set of peers. *)
LEMMA PeersAre ==
  ASSUME NEW p \in Ranks
  PROVE  /\ Peers(p) \in Nodes /\ p \in Peers(p)
         /\ \A i \in Peers(p) : i \in Ranks /\ Peers(i) = Peers(p)
<1>1. \E n \in Nodes : p \in n
  BY CsFaaCounterAssumption
<1>2. Peers(p) \in Nodes /\ p \in Peers(p)
  BY <1>1 DEF Peers
<1>3. ASSUME NEW i \in Peers(p) PROVE i \in Ranks /\ Peers(i) = Peers(p)
  <2>1. i \in Ranks
    BY <1>2, CsFaaCounterAssumption
  <2>2. \E n \in Nodes : i \in n
    BY <1>2
  <2>3. Peers(i) \in Nodes /\ i \in Peers(i)
    BY <2>2 DEF Peers
  <2> QED BY <1>2, <2>1, <2>3, CsFaaCounterAssumption
<1> QED BY <1>2, <1>3

LEMMA LeastPeer ==
  ASSUME NEW S \in SUBSET Ranks, S # {}
  PROVE  (CHOOSE i \in S : \A j \in S : i <= j) \in S
<1> DEFINE Less == {ss \in Nat \X Nat : ss[1] < ss[2]}
<1>1. IsWellFoundedOn(Less, Nat)
  <2>1. OpToRel(<, Nat) = Less
    BY Zenon DEF OpToRel
  <2> QED BY <2>1, NatLessThanWellFounded, Zenon
<1>2. \A i, j \in Nat : j < i => <<j, i>> \in Less
  OBVIOUS
<1> HIDE DEF Less
<1>3. S \subseteq Nat
  BY CsFaaCounterAssumption
<1>4. PICK i \in S : \A j \in S : ~(<<j, i>> \in Less)
  BY <1>1, <1>3, WFMin
<1>5. ASSUME NEW j \in S PROVE i <= j
  <2>1. ~(j < i)
    BY <1>2, <1>3, <1>4
  <2> QED BY <1>3, <2>1
<1> QED BY <1>5

LEMMA FirstPeerIs == ASSUME NEW p \in Ranks PROVE FirstPeer(p) \in Peers(p)
BY PeersAre, LeastPeer DEF FirstPeer

(* The next peer is one, and without a number the last one sends on to the counter. *)
LEMMA NextPeerIs ==
  ASSUME TypeOK, NEW p \in Ranks, peer[p] \in Peers(p), NEW c, NextPeer(p, c)
  PROVE  \E q \in Peers(p), x \in {"compare", "base", "store"} :
           /\ got' = [got EXCEPT ![p] = c]
           /\ peer' = [peer EXCEPT ![p] = q] /\ pc' = [pc EXCEPT ![p] = x]
           /\ x = "store" => c # MAX_COUNT
<1>1. CASE LaterPeers(p) # {}
  <2> DEFINE q == CHOOSE i \in LaterPeers(p) : \A j \in LaterPeers(p) : i <= j
  <2>1. q \in LaterPeers(p)
    BY <1>1, PeersAre, LeastPeer DEF LaterPeers
  <2>2. q \in Peers(p)
    BY <2>1 DEF LaterPeers
  <2> QED BY <1>1, <2>2 DEF NextPeer
<1>2. CASE LaterPeers(p) = {}
  <2>1. peer' = [peer EXCEPT ![p] = peer[p]]
    BY <1>2 DEF NextPeer, TypeOK
  <2> QED BY <1>2, <2>1 DEF NextPeer
<1> QED BY <1>1, <1>2

(* What the steps of the loop over the peers have in common: number c is    *)
(* what the call had found before or what the peer shows; the loop is at q  *)
(* and x.                                                                   *)
Looks(p, c, q, x) ==
  /\ c = got[p] \/ (pc[p] \in {"load", "spin"} /\ c = number[peer[p]] /\ c # MAX_COUNT)
  /\ got' = [got EXCEPT ![p] = c]
  /\ peer' = [peer EXCEPT ![p] = q] /\ pc' = [pc EXCEPT ![p] = x]
  /\ x = "store" => c # MAX_COUNT
  /\ x \in {"load", "spin"} => c = got[p] /\ q = peer[p] /\ mine[p] < mine[q]
  /\ retries' \in [Ranks -> 0..MaxRetries]
  /\ x = "spin" => retries'[p] < MaxRetries
  /\ \A i \in Ranks \ {p} : retries'[i] = retries[i]

LEMMA LooksIs ==
  ASSUME TypeOK, NEW p \in Ranks, \A i \in Ranks : TicketInv(i), Compare(p) \/ Load(p) \/ Spin(p)
  PROVE  /\ pc[p] \in Copying
         /\ UNCHANGED <<shared, mine, low, calls>>
         /\ \E c \in Nat \cup {MAX_COUNT}, q \in Peers(p), x \in Numbered : Looks(p, c, q, x)
<1> USE DEF Looks, Copying, Numbered
<1>1. /\ peer[p] \in Peers(p) /\ peer[p] \in Ranks /\ MaxRetries \in Nat \ {0}
      /\ got[p] \in Nat \cup {MAX_COUNT} /\ number[peer[p]] \in Nat \cup {MAX_COUNT}
  <2>1. peer[p] \in Peers(p)
    BY DEF TicketInv
  <2>2. peer[p] \in Ranks
    BY DEF TypeOK
  <2>3. got[p] \in Nat \cup {MAX_COUNT} /\ number[peer[p]] \in Nat \cup {MAX_COUNT}
    BY <2>2 DEF TypeOK
  <2> QED BY <2>1, <2>2, <2>3, CsFaaCounterAssumption
<1>2. CASE Compare(p)
  <2>1. CASE Later(p, peer[p]) /\ pc' = [pc EXCEPT ![p] = "load"] /\ UNCHANGED <<got, peer>>
    <3>1. mine[p] < mine[peer[p]]
      BY <1>1, <2>1 DEF Later, TypeOK, TicketInv
    <3>2. Looks(p, got[p], peer[p], "load")
      BY <1>2, <2>1, <3>1 DEF Compare, TypeOK
    <3> QED BY <1>1, <1>2, <3>2 DEF Compare
  <2>2. CASE NextPeer(p, got[p])
    <3>1. PICK q \in Peers(p), x \in {"compare", "base", "store"} :
            /\ got' = [got EXCEPT ![p] = got[p]]
            /\ peer' = [peer EXCEPT ![p] = q] /\ pc' = [pc EXCEPT ![p] = x]
            /\ x = "store" => got[p] # MAX_COUNT
      BY <1>1, <2>2, NextPeerIs
    <3>2. Looks(p, got[p], q, x)
      BY <1>2, <3>1 DEF Compare, TypeOK
    <3> QED BY <1>1, <1>2, <3>2 DEF Compare
  <2> QED BY <1>2, <2>1, <2>2 DEF Compare
<1>3. CASE Load(p)
  <2>0. mine[p] < mine[peer[p]]
    BY <1>3 DEF Load, TicketInv
  <2>1. CASE pc' = [pc EXCEPT ![p] = "spin"] /\ retries' = [retries EXCEPT ![p] = 0]
          /\ UNCHANGED <<got, peer>>
    <3>2. Looks(p, got[p], peer[p], "spin")
      BY <1>1, <1>3, <2>0, <2>1 DEF Load, TypeOK
    <3> QED BY <1>1, <1>3, <3>2 DEF Load
  <2>2. CASE number[peer[p]] # MAX_COUNT /\ NextPeer(p, number[peer[p]]) /\ UNCHANGED retries
    <3>1. PICK q \in Peers(p), x \in {"compare", "base", "store"} :
            /\ got' = [got EXCEPT ![p] = number[peer[p]]]
            /\ peer' = [peer EXCEPT ![p] = q] /\ pc' = [pc EXCEPT ![p] = x]
            /\ x = "store" => number[peer[p]] # MAX_COUNT
      BY <1>1, <2>2, NextPeerIs
    <3>2. Looks(p, number[peer[p]], q, x)
      BY <1>3, <2>2, <3>1 DEF Load, TypeOK
    <3> QED BY <1>1, <1>3, <3>2 DEF Load
  <2> QED BY <1>3, <2>1, <2>2 DEF Load
<1>4. CASE Spin(p)
  <2>0. mine[p] < mine[peer[p]] /\ retries[p] < MaxRetries /\ retries[p] \in Nat
    BY <1>1, <1>4 DEF Spin, TicketInv, TypeOK
  <2>r. /\ retries' \in [Ranks -> 0..MaxRetries] /\ retries'[p] = retries[p] + 1
        /\ \A i \in Ranks \ {p} : retries'[i] = retries[i]
    BY <1>1, <1>4, <2>0 DEF Spin, TypeOK
  <2>1. CASE number[peer[p]] # MAX_COUNT /\ NextPeer(p, number[peer[p]])
    <3>1. PICK q \in Peers(p), x \in {"compare", "base", "store"} :
            /\ got' = [got EXCEPT ![p] = number[peer[p]]]
            /\ peer' = [peer EXCEPT ![p] = q] /\ pc' = [pc EXCEPT ![p] = x]
            /\ x = "store" => number[peer[p]] # MAX_COUNT
      BY <1>1, <2>1, NextPeerIs
    <3>2. Looks(p, number[peer[p]], q, x)
      BY <1>4, <2>r, <2>1, <3>1 DEF Spin
    <3> QED BY <1>1, <1>4, <3>2 DEF Spin
  <2>2. CASE NextPeer(p, got[p])
    <3>1. PICK q \in Peers(p), x \in {"compare", "base", "store"} :
            /\ got' = [got EXCEPT ![p] = got[p]]
            /\ peer' = [peer EXCEPT ![p] = q] /\ pc' = [pc EXCEPT ![p] = x]
            /\ x = "store" => got[p] # MAX_COUNT
      BY <1>1, <2>2, NextPeerIs
    <3>2. Looks(p, got[p], q, x)
      BY <1>4, <2>r, <3>1
    <3> QED BY <1>1, <1>4, <3>2 DEF Spin
  <2>3. CASE retries[p] + 1 < MaxRetries /\ UNCHANGED <<pc, got, peer>>
    <3>2. Looks(p, got[p], peer[p], "spin")
      BY <1>4, <2>0, <2>r, <2>3 DEF Spin, TypeOK
    <3> QED BY <1>1, <1>4, <3>2 DEF Spin
  <2> QED BY <1>4, <2>1, <2>2, <2>3 DEF Spin
<1> QED BY <1>2, <1>3, <1>4

--------------------------------------------------------------------------------
(* What the steps of p need of the types. *)
LEMMA TypesAre ==
  ASSUME TypeOK, NEW k \in Ranks
  PROVE  /\ counter \in Nat /\ ticket[k] \in Nat /\ mine[k] \in Nat /\ low[k] \in Nat
         /\ number[k] \in Int /\ number[k] >= MAX_COUNT /\ got[k] \in Int /\ got[k] >= MAX_COUNT
         /\ tickets[Peers(k)] \in Nat /\ pc[k] \in Points
<1>1. Peers(k) \in Nodes
  BY PeersAre
<1>2. number[k] \in Nat \cup {MAX_COUNT} /\ got[k] \in Nat \cup {MAX_COUNT}
  BY DEF TypeOK
<1>3. tickets[Peers(k)] \in Nat
  BY <1>1 DEF TypeOK
<1> QED BY <1>2, <1>3 DEF TypeOK, Points, MAX_COUNT

LEMMA InitInv == Init => IInv
<1> SUFFICES ASSUME Init PROVE IInv
  OBVIOUS
<1>1. \A p \in Ranks : FirstPeer(p) \in Peers(p) /\ FirstPeer(p) \in Ranks /\ Peers(p) \in Nodes
  BY FirstPeerIs, PeersAre
<1>2. TypeOK
  BY <1>1, CsFaaCounterAssumption DEF TypeOK, Init
<1>3. ASSUME NEW p \in Ranks PROVE TicketInv(p) /\ NumberInv(p) /\ CopyInv(p)
  BY <1>1 DEF Init, TicketInv, NumberInv, CopyInv, Numbered, Copying, MAX_COUNT
<1> QED BY <1>2, <1>3 DEF IInv

LEMMA CallInv ==
  ASSUME IInv, NEW p \in Ranks, Call(p)
  PROVE  IInv'
<1>1. /\ pc[p] = "idle" /\ pc' = [pc EXCEPT ![p] = "ticket"] /\ low' = [low EXCEPT ![p] = counter]
      /\ number' = [number EXCEPT ![p] = MAX_COUNT] /\ calls < MaxCalls /\ calls' = calls + 1
      /\ UNCHANGED <<counter, tickets, ticket, mine, got, peer, retries>>
  BY DEF Call
<1>2. TypeOK
  BY DEF IInv
<1>3. TypeOK'
  <2>1. calls' \in 0..MaxCalls
    BY <1>1, <1>2, CsFaaCounterAssumption DEF TypeOK
  <2> QED BY <1>1, <1>2, <2>1 DEF TypeOK
<1>4. ASSUME NEW k \in Ranks PROVE TicketInv(k)' /\ NumberInv(k)' /\ CopyInv(k)'
  <2>1. TicketInv(k) /\ NumberInv(k) /\ CopyInv(k)
    BY DEF IInv
  <2>2. /\ pc'[k] = IF k = p THEN "ticket" ELSE pc[k]
        /\ low'[k] = IF k = p THEN counter ELSE low[k]
        /\ number'[k] = IF k = p THEN MAX_COUNT ELSE number[k]
    BY <1>1, <1>2 DEF TypeOK
  <2>3. TicketInv(k)'
    BY <1>1, <2>1, <2>2 DEF TicketInv, Peers
  <2>4. NumberInv(k)'
    BY <1>1, <1>2, <2>1, <2>2, TypesAre DEF NumberInv, MAX_COUNT
  <2>5. CopyInv(k)'
    <3>1. k # p => \A i \in Peers(k) : i \in Ranks
      BY PeersAre
    <3>2. \A i \in Ranks : /\ pc'[i] = IF i = p THEN "ticket" ELSE pc[i]
                           /\ number'[i] = IF i = p THEN MAX_COUNT ELSE number[i]
      BY <1>1, <1>2 DEF TypeOK
    <3> QED BY <1>1, <2>1, <2>2, <3>1, <3>2 DEF CopyInv, Numbered, Copying, Recent, Peers
  <2> QED BY <2>3, <2>4, <2>5
<1> QED BY <1>3, <1>4 DEF IInv

LEMMA TakeTicketInv ==
  ASSUME IInv, NEW p \in Ranks, TakeTicket(p)
  PROVE  IInv'
<1>1. /\ pc[p] = "ticket" /\ pc' = [pc EXCEPT ![p] = "publish"]
      /\ mine' = [mine EXCEPT ![p] = tickets[Peers(p)]]
      /\ tickets' = [tickets EXCEPT ![Peers(p)] = @ + 1]
      /\ UNCHANGED <<counter, ticket, number, got, peer, retries, low, calls>>
  BY DEF TakeTicket
<1>2. TypeOK
  BY DEF IInv
<1>3. tickets[Peers(p)] \in Nat /\ Peers(p) \in Nodes
  BY <1>2, TypesAre, PeersAre
<1>4. TypeOK'
  BY <1>1, <1>2, <1>3 DEF TypeOK
<1>5. ASSUME NEW k \in Ranks
      PROVE  /\ pc'[k] = IF k = p THEN "publish" ELSE pc[k]
             /\ mine'[k] = IF k = p THEN tickets[Peers(p)] ELSE mine[k]
             /\ tickets'[Peers(k)] = tickets[Peers(k)] + IF Peers(k) = Peers(p) THEN 1 ELSE 0
  <2>1. Peers(k) \in Nodes /\ tickets[Peers(k)] \in Nat
    BY <1>2, TypesAre, PeersAre
  <2> QED BY <1>1, <1>2, <1>3, <2>1 DEF TypeOK
<1>6. ASSUME NEW k \in Ranks PROVE mine[k] <= mine'[k] /\ mine'[k] \in Nat /\ mine[k] \in Nat
  <2>1. TicketInv(p) /\ mine[k] \in Nat
    BY <1>2 DEF IInv, TypeOK
  <2> QED BY <1>3, <1>5, <2>1 DEF TicketInv
<1>7. ASSUME NEW k \in Ranks PROVE TicketInv(k)' /\ NumberInv(k)' /\ CopyInv(k)'
  <2>1. TicketInv(k) /\ NumberInv(k) /\ CopyInv(k) /\ NumberInv(p)
    BY DEF IInv
  <2>2. /\ ticket[k] \in Nat /\ mine[k] \in Nat /\ tickets[Peers(k)] \in Nat
        /\ peer[k] \in Ranks /\ peer'[k] = peer[k] /\ Peers(k)' = Peers(k)
        /\ \A i \in Peers(k) : i \in Ranks /\ Peers(i) = Peers(k)
    BY <1>1, <1>2, TypesAre, PeersAre DEF TypeOK, Peers
  <2>3. TicketInv(k)'
    <3>1. ticket'[k] <= mine'[k] /\ mine'[k] <= tickets'[Peers(k)]
      BY <1>1, <1>5, <1>6, <2>1, <2>2 DEF TicketInv
    <3>2. pc'[k] \in {"load", "spin"} => mine'[k] < mine'[peer[k]]
      BY <1>5, <1>6, <2>1, <2>2 DEF TicketInv
    <3>3. peer'[k] \in Peers(k) /\ (pc'[k] = "spin" => retries'[k] < MaxRetries)
      BY <1>1, <1>5, <2>1, <2>2 DEF TicketInv
    <3> QED BY <2>2, <3>1, <3>2, <3>3 DEF TicketInv
  <2>4. NumberInv(k)'
    <3>1. number[k] = MAX_COUNT \/ k # p
      BY <1>1, <2>1 DEF NumberInv
    <3> QED BY <1>1, <1>2, <1>5, <2>1, <3>1, TypesAre DEF NumberInv, MAX_COUNT
  <2>5. CopyInv(k)'
    <3> SUFFICES ASSUME pc'[k] \in Copying \cup {"publish"}, NEW i \in Peers(k), mine'[k] < mine'[i]
                 PROVE  Recent(k, number[i]) /\ (pc'[i] \in Numbered => Recent(k, got[i]))
      BY <1>1, <1>5, <2>1, <2>2 DEF CopyInv, Numbered, Recent
    <3>1. i \in Ranks /\ Peers(i) = Peers(k) /\ TicketInv(i)
      BY <2>2 DEF IInv
    <3>2. CASE i = p
      BY <1>1, <1>5, <2>1, <3>1, <3>2 DEF NumberInv, Recent, Numbered
    <3>3. CASE i # p /\ k = p
      <4>1. mine[i] <= tickets[Peers(p)]
        BY <3>1, <3>3 DEF TicketInv
      <4> QED BY <1>3, <1>5, <1>6, <3>1, <3>3, <4>1
    <3>4. CASE i # p /\ k # p
      BY <1>5, <2>1, <3>1, <3>4 DEF CopyInv
    <3> QED BY <3>2, <3>3, <3>4
  <2> QED BY <2>3, <2>4, <2>5
<1> QED BY <1>4, <1>7 DEF IInv

LEMMA PublishTicketInv ==
  ASSUME IInv, NEW p \in Ranks, PublishTicket(p)
  PROVE  IInv'
<1>1. /\ pc[p] = "publish" /\ pc' = [pc EXCEPT ![p] = "compare"]
      /\ ticket' = [ticket EXCEPT ![p] = mine[p]] /\ got' = [got EXCEPT ![p] = MAX_COUNT]
      /\ peer' = [peer EXCEPT ![p] = FirstPeer(p)]
      /\ UNCHANGED <<counter, tickets, number, mine, retries, low, calls>>
  BY DEF PublishTicket
<1>2. TypeOK
  BY DEF IInv
<1>3. FirstPeer(p) \in Peers(p) /\ FirstPeer(p) \in Ranks
  BY FirstPeerIs, PeersAre
<1>4. TypeOK'
  BY <1>1, <1>2, <1>3 DEF TypeOK
<1>5. ASSUME NEW k \in Ranks
      PROVE  /\ pc'[k] = IF k = p THEN "compare" ELSE pc[k]
             /\ got'[k] = IF k = p THEN MAX_COUNT ELSE got[k]
             /\ ticket'[k] = IF k = p THEN mine[p] ELSE ticket[k]
             /\ peer'[k] = IF k = p THEN FirstPeer(p) ELSE peer[k]
  BY <1>1, <1>2 DEF TypeOK
<1>6. ASSUME NEW k \in Ranks PROVE TicketInv(k)' /\ NumberInv(k)' /\ CopyInv(k)'
  <2>1. TicketInv(k) /\ NumberInv(k) /\ CopyInv(k)
    BY DEF IInv
  <2>2. /\ mine[k] \in Nat /\ counter \in Nat
        /\ \A i \in Peers(k) : i \in Ranks /\ Peers(i) = Peers(k)
    BY <1>2, TypesAre, PeersAre
  <2>3. TicketInv(k)'
    <3>1. Peers(k)' = Peers(k)
      BY DEF Peers
    <3>2. CASE k = p
      BY <1>1, <1>3, <1>5, <2>1, <2>2, <3>1, <3>2 DEF TicketInv
    <3>3. CASE k # p
      BY <1>1, <1>5, <2>1, <3>1, <3>3 DEF TicketInv
    <3> QED BY <3>2, <3>3
  <2>4. NumberInv(k)'
    BY <1>1, <1>5, <2>1, <2>2 DEF NumberInv, MAX_COUNT
  <2>5. CopyInv(k)'
    BY <1>1, <1>5, <2>1, <2>2 DEF CopyInv, Numbered, Copying, Recent, Peers
  <2> QED BY <2>3, <2>4, <2>5
<1> QED BY <1>4, <1>6 DEF IInv

LEMMA LooksInv ==
  ASSUME IInv, NEW p \in Ranks, Compare(p) \/ Load(p) \/ Spin(p)
  PROVE  IInv'
<1>1. TypeOK /\ \A k \in Ranks : TicketInv(k) /\ NumberInv(k) /\ CopyInv(k)
  BY DEF IInv
<1>2. pc[p] \in Copying /\ UNCHANGED <<counter, tickets, ticket, number, mine, low, calls>>
  BY <1>1, LooksIs DEF shared
<1>3. PICK c \in Nat \cup {MAX_COUNT}, q \in Peers(p), x \in Numbered : Looks(p, c, q, x)
  BY <1>1, LooksIs
<1>4. \A k \in Ranks : /\ got'[k] = IF k = p THEN c ELSE got[k]
                       /\ peer'[k] = IF k = p THEN q ELSE peer[k]
                       /\ pc'[k] = IF k = p THEN x ELSE pc[k]
  BY <1>1, <1>3 DEF Looks, TypeOK
<1>5. TypeOK'
  <2>1. q \in Ranks /\ x \in Points
    BY PeersAre DEF Numbered, Points
  <2>2. got' \in [Ranks -> Nat \cup {MAX_COUNT}] /\ peer' \in [Ranks -> Ranks]
          /\ pc' \in [Ranks -> Points]
    BY <1>1, <1>3, <2>1 DEF Looks, TypeOK, Points
  <2> QED BY <1>1, <1>2, <1>3, <2>2 DEF Looks, TypeOK, Points
<1>6. c = got[p] \/ \E j \in Peers(p) : mine[p] < mine[j] /\ c = number[j]
  BY <1>1, <1>3 DEF Looks, TicketInv
<1>7. /\ c < counter
      /\ Recent(p, c)
      /\ \A k \in Ranks : p \in Peers(k) /\ pc[k] \in Copying \cup {"publish"}
           /\ mine[k] < mine[p] => Recent(k, c)
  <2>1. CASE c = got[p]
    BY <1>1, <1>2, <2>1 DEF NumberInv, CopyInv, Copying, Numbered
  <2>2. ASSUME NEW j \in Peers(p), mine[p] < mine[j], c = number[j]
        PROVE  /\ c < counter
               /\ Recent(p, c)
               /\ \A k \in Ranks : p \in Peers(k) /\ pc[k] \in Copying \cup {"publish"}
                    /\ mine[k] < mine[p]
                                     => Recent(k, c)
    <3>1. j \in Ranks /\ mine[j] \in Nat /\ mine[p] \in Nat
      BY <1>1, TypesAre, PeersAre
    <3>2. c < counter
      BY <1>1, <2>2, <3>1 DEF NumberInv
    <3>3. Recent(p, c)
      BY <1>1, <1>2, <2>2 DEF CopyInv
    <3>4. ASSUME NEW k \in Ranks, p \in Peers(k), pc[k] \in Copying \cup {"publish"}, mine[k] < mine[p]
          PROVE  Recent(k, c)
      <4>1. j \in Peers(k) /\ mine[k] \in Nat
        BY <1>1, <3>4, PeersAre, TypesAre
      <4> QED BY <1>1, <2>2, <3>1, <3>4, <4>1 DEF CopyInv
    <3> QED BY <3>2, <3>3, <3>4
  <2> QED BY <1>6, <2>1, <2>2
<1>8. ASSUME NEW k \in Ranks PROVE TicketInv(k)' /\ NumberInv(k)' /\ CopyInv(k)'
  <2>1. TicketInv(k) /\ NumberInv(k) /\ CopyInv(k)
    BY <1>1
  <2>2. Peers(k)' = Peers(k) /\ (\A i \in Peers(k) : i \in Ranks) /\ pc[p] # "idle"
          /\ pc[p] \in Numbered
    BY <1>2, PeersAre DEF Peers, Copying, Numbered
  <2>3. TicketInv(k)'
    <3>1. CASE k = p
      BY <1>1, <1>2, <1>3, <1>4, <2>1, <2>2, <3>1 DEF TicketInv, Looks
    <3>2. CASE k # p
      BY <1>2, <1>3, <1>4, <2>1, <2>2, <3>2 DEF TicketInv, Looks
    <3> QED BY <3>1, <3>2
  <2>4. NumberInv(k)'
    BY <1>2, <1>3, <1>4, <1>7, <2>1, <2>2 DEF NumberInv, Looks
  <2>5. CopyInv(k)'
    <3>1. pc'[k] \in Numbered => Recent(k, got'[k])
      BY <1>4, <1>7, <2>1 DEF CopyInv
    <3>2. ASSUME pc'[k] \in Copying \cup {"publish"}, NEW i \in Peers(k), mine[k] < mine[i]
          PROVE  Recent(k, number[i]) /\ (pc'[i] \in Numbered => Recent(k, got'[i]))
      <4>1. pc[k] \in Copying \cup {"publish"}
        BY <1>2, <1>4, <3>2
      <4>2. Recent(k, number[i]) /\ (pc[i] \in Numbered => Recent(k, got[i]))
        BY <2>1, <3>2, <4>1 DEF CopyInv
      <4> QED BY <1>4, <1>7, <2>2, <3>2, <4>1, <4>2
    <3> QED BY <1>2, <2>2, <3>1, <3>2 DEF CopyInv, Recent
  <2> QED BY <2>3, <2>4, <2>5
<1> QED BY <1>5, <1>8 DEF IInv

LEMMA BaseIncrementInv ==
  ASSUME IInv, NEW p \in Ranks, BaseIncrement(p)
  PROVE  IInv'
<1>1. /\ pc[p] = "base" /\ pc' = [pc EXCEPT ![p] = "store"]
      /\ got' = [got EXCEPT ![p] = counter] /\ counter' = counter + 1
      /\ UNCHANGED <<tickets, ticket, number, mine, peer, retries, low, calls>>
  BY DEF BaseIncrement
<1>2. TypeOK /\ \A k \in Ranks : TicketInv(k) /\ NumberInv(k) /\ CopyInv(k)
  BY DEF IInv
<1>3. TypeOK'
  BY <1>1, <1>2 DEF TypeOK
<1>4. \A k \in Ranks : /\ pc'[k] = IF k = p THEN "store" ELSE pc[k]
                       /\ got'[k] = IF k = p THEN counter ELSE got[k]
  BY <1>1, <1>2 DEF TypeOK
<1>5. ASSUME NEW k \in Ranks PROVE TicketInv(k)' /\ NumberInv(k)' /\ CopyInv(k)'
  <2>1. TicketInv(k) /\ NumberInv(k) /\ CopyInv(k)
    BY <1>2
  <2>2. /\ Peers(k)' = Peers(k) /\ (\A i \in Peers(k) : i \in Ranks)
        /\ counter \in Nat /\ low[k] \in Nat /\ number[k] \in Int /\ got[k] \in Int
    BY <1>2, PeersAre, TypesAre DEF Peers
  <2>3. TicketInv(k)'
    BY <1>1, <1>4, <2>1, <2>2 DEF TicketInv
  <2>4. NumberInv(k)'
    BY <1>1, <1>4, <2>1, <2>2 DEF NumberInv, MAX_COUNT
  <2>5. CopyInv(k)'
    <3>1. Recent(k, counter)
      BY <2>1, <2>2 DEF Recent, NumberInv
    <3>2. pc'[k] \in Numbered => Recent(k, got'[k])
      BY <1>4, <2>1, <3>1 DEF CopyInv
    <3>3. ASSUME pc'[k] \in Copying \cup {"publish"}, NEW i \in Peers(k), mine[k] < mine[i]
          PROVE  Recent(k, number[i]) /\ (pc'[i] \in Numbered => Recent(k, got'[i]))
      <4>1. pc[k] \in Copying \cup {"publish"}
        BY <1>4, <3>3 DEF Copying
      <4>2. Recent(k, number[i]) /\ (pc[i] \in Numbered => Recent(k, got[i]))
        BY <2>1, <3>3, <4>1 DEF CopyInv
      <4> QED BY <1>4, <2>2, <3>1, <4>2
    <3> QED BY <1>1, <2>2, <3>2, <3>3 DEF CopyInv, Recent
  <2> QED BY <2>3, <2>4, <2>5
<1> QED BY <1>3, <1>5 DEF IInv

LEMMA StoreInv ==
  ASSUME IInv, NEW p \in Ranks, Store(p)
  PROVE  IInv'
<1>1. /\ pc[p] = "store" /\ pc' = [pc EXCEPT ![p] = "idle"]
      /\ number' = [number EXCEPT ![p] = got[p]]
      /\ UNCHANGED <<counter, tickets, ticket, mine, got, peer, retries, low, calls>>
  BY DEF Store
<1>2. TypeOK /\ \A k \in Ranks : TicketInv(k) /\ NumberInv(k) /\ CopyInv(k)
  BY DEF IInv
<1>3. TypeOK'
  BY <1>1, <1>2 DEF TypeOK
<1>4. \A k \in Ranks : /\ pc'[k] = IF k = p THEN "idle" ELSE pc[k]
                       /\ number'[k] = IF k = p THEN got[p] ELSE number[k]
  BY <1>1, <1>2 DEF TypeOK
<1>5. ASSUME NEW k \in Ranks PROVE TicketInv(k)' /\ NumberInv(k)' /\ CopyInv(k)'
  <2>1. TicketInv(k) /\ NumberInv(k) /\ CopyInv(k)
    BY <1>2
  <2>2. Peers(k)' = Peers(k) /\ (\A i \in Peers(k) : i \in Ranks)
    BY PeersAre DEF Peers
  <2>3. TicketInv(k)'
    BY <1>1, <1>4, <2>1, <2>2 DEF TicketInv
  <2>4. NumberInv(k)'
    BY <1>1, <1>4, <2>1 DEF NumberInv
  <2>5. CopyInv(k)'
    <3>1. pc[p] \in Numbered
      BY <1>1 DEF Numbered
    <3>2. pc'[k] \in Copying \cup {"publish"} \cup Numbered => k # p
      BY <1>4 DEF Copying, Numbered
    <3>3. ASSUME pc'[k] \in Copying \cup {"publish"}, NEW i \in Peers(k), mine[k] < mine[i]
          PROVE  Recent(k, number'[i]) /\ (pc'[i] \in Numbered => Recent(k, got[i]))
      <4>1. Recent(k, number[i]) /\ (pc[i] \in Numbered => Recent(k, got[i]))
        BY <1>4, <2>1, <3>2, <3>3 DEF CopyInv
      <4> QED BY <1>4, <2>2, <3>1, <4>1 DEF Numbered
    <3> QED BY <1>1, <1>4, <2>1, <2>2, <3>2, <3>3 DEF CopyInv, Recent
  <2> QED BY <2>3, <2>4, <2>5
<1> QED BY <1>3, <1>5 DEF IInv

LEMMA StepInv == IInv /\ [Next]_vars => IInv'
<1> SUFFICES ASSUME IInv, [Next]_vars PROVE IInv'
  OBVIOUS
<1>1. CASE UNCHANGED vars
  <2> USE <1>1 DEF vars, shared, private
  <2>1. TypeOK'
    BY DEF IInv, TypeOK
  <2>2. ASSUME NEW k \in Ranks PROVE TicketInv(k)' /\ NumberInv(k)' /\ CopyInv(k)'
    BY DEF IInv, TicketInv, NumberInv, CopyInv, Recent, Peers
  <2> QED BY <2>1, <2>2 DEF IInv
<1>2. ASSUME NEW p \in Ranks, Call(p) \/ Step(p) PROVE IInv'
  BY <1>2, CallInv, TakeTicketInv, PublishTicketInv, LooksInv, BaseIncrementInv, StoreInv DEF Step
<1> QED BY <1>1, <1>2 DEF Next

--------------------------------------------------------------------------------
(* The strengthened invariant holds for all constants.                     *)
THEOREM Inductive == Spec => []IInv
BY InitInv, StepInv, PTL DEF Spec

(* TypeOK: every variable of the counters and of the calls has its type.   *)
THEOREM TypeCorrect == Spec => []TypeOK
BY Inductive, PTL DEF IInv

(* CopiesAreFresh: a number that a call has, or could copy from a peer, was *)
(* taken from the remote counter after the call began, through however many *)
(* ranks and calls it has come.                                             *)
THEOREM CopiesFresh == Spec => []CopiesAreFresh
<1>1. IInv => CopiesAreFresh
  <2> SUFFICES ASSUME IInv, NEW p \in Ranks, pc[p] # "idle"
               PROVE  /\ got[p] = MAX_COUNT \/ pc[p] \in {"ticket", "publish"} \/ got[p] >= low[p]
                      /\ pc[p] \in Copying =>
                           \A i \in Peers(p) : Later(p, i) =>
                             number[i] = MAX_COUNT \/ number[i] >= low[p]
    BY DEF CopiesAreFresh, Copying
  <2>1. CopyInv(p) /\ pc[p] \in Points
    BY TypesAre DEF IInv
  <2>2. got[p] = MAX_COUNT \/ pc[p] \in {"ticket", "publish"} \/ got[p] >= low[p]
    BY <2>1 DEF CopyInv, Points, Numbered, Recent
  <2>3. ASSUME pc[p] \in Copying, NEW i \in Peers(p), Later(p, i)
        PROVE  number[i] = MAX_COUNT \/ number[i] >= low[p]
    <3>1. i \in Ranks /\ TicketInv(i)
      BY PeersAre DEF IInv
    <3>2. mine[p] < mine[i]
      BY <2>3, <3>1, TypesAre DEF Later, TicketInv, IInv
    <3> QED BY <2>1, <2>3, <3>2 DEF CopyInv, Recent
  <2> QED BY <2>2, <2>3
<1> QED BY <1>1, Inductive, PTL

--------------------------------------------------------------------------------
(* The calls that may still take a number from the remote counter: each can *)
(* take one at most, so the counter never runs ahead of the calls.          *)
Pending == {p \in Ranks : pc[p] \notin {"idle", "store"}}

CountInv == counter + Cardinality(Pending) <= calls

LEMMA PendingIs ==
  ASSUME TypeOK
  PROVE  /\ IsFiniteSet(Pending) /\ Cardinality(Pending) \in Nat
         /\ counter \in Nat /\ calls \in Nat /\ calls <= MaxCalls /\ MaxCalls \in Nat
<1>1. IsFiniteSet(Pending)
  BY CsFaaCounterAssumption, FS_Subset DEF Pending
<1> QED BY <1>1, FS_CardinalityType, CsFaaCounterAssumption DEF TypeOK

(* How a step of p changes the pending calls. *)
LEMMA PendingAfter ==
  ASSUME TypeOK, NEW p \in Ranks, NEW x \in Points, pc' = [pc EXCEPT ![p] = x]
  PROVE  /\ IsFiniteSet(Pending)' /\ Cardinality(Pending)' \in Nat
         /\ Cardinality(Pending)' = Cardinality(Pending)
              + (IF x \in {"idle", "store"} THEN 0 ELSE 1) - (IF p \in Pending THEN 1 ELSE 0)
<1>1. Pending' = IF x \in {"idle", "store"} THEN Pending \ {p} ELSE Pending \cup {p}
  BY DEF Pending, TypeOK
<1>2. IsFiniteSet(Pending) /\ Cardinality(Pending) \in Nat
  BY PendingIs
<1>3. /\ IsFiniteSet(Pending \cup {p}) /\ IsFiniteSet(Pending \ {p})
      /\ Cardinality(Pending \cup {p}) = IF p \in Pending THEN Cardinality(Pending) ELSE Cardinality(Pending) + 1
      /\ Cardinality(Pending \ {p}) = IF p \in Pending THEN Cardinality(Pending) - 1 ELSE Cardinality(Pending)
  BY <1>2, FS_AddElement, FS_RemoveElement
<1>4. Cardinality(Pending \cup {p}) \in Nat /\ Cardinality(Pending \ {p}) \in Nat
  BY <1>3, FS_CardinalityType
<1>5. IsFiniteSet(Pending') /\ Cardinality(Pending') \in Nat
  BY <1>1, <1>3, <1>4
<1>6. Cardinality(Pending') = Cardinality(Pending)
        + (IF x \in {"idle", "store"} THEN 0 ELSE 1) - (IF p \in Pending THEN 1 ELSE 0)
  BY <1>1, <1>2, <1>3
<1> QED BY <1>5, <1>6

LEMMA CountInitially == Init => CountInv
<1> SUFFICES ASSUME Init PROVE CountInv
  OBVIOUS
<1>1. Pending = {} /\ counter = 0 /\ calls = 0
  BY DEF Init, Pending
<1> QED BY <1>1, FS_EmptySet DEF CountInv

(* The counter keeps behind the calls: a call that becomes pending is a new *)
(* one, and one that takes a number is pending no longer.                   *)
LEMMA CountKept ==
  ASSUME TypeOK, CountInv, NEW p \in Ranks, NEW x \in Points, pc' = [pc EXCEPT ![p] = x],
         \/ pc[p] = "idle" /\ x = "ticket" /\ calls' = calls + 1 /\ counter' = counter
         \/ pc[p] \notin {"idle", "store"} /\ x # "idle" /\ UNCHANGED <<calls, counter>>
         \/ pc[p] \notin {"idle", "store"} /\ x = "store" /\ calls' = calls /\ counter' = counter + 1
         \/ pc[p] = "store" /\ x = "idle" /\ UNCHANGED <<calls, counter>>
  PROVE  CountInv' /\ (p \in Pending => counter < MaxCalls)
<1> DEFINE n == Cardinality(Pending)
<1>1. /\ IsFiniteSet(Pending) /\ n \in Nat /\ counter \in Nat /\ calls \in Nat /\ calls <= MaxCalls
      /\ MaxCalls \in Nat /\ counter + n <= calls
  BY PendingIs DEF CountInv
<1>2. PICK m \in Nat :
        /\ m = Cardinality(Pending)'
        /\ m = n + (IF x \in {"idle", "store"} THEN 0 ELSE 1) - (IF p \in Pending THEN 1 ELSE 0)
  BY PendingAfter
<1>3. p \in Pending <=> pc[p] \notin {"idle", "store"}
  BY DEF Pending
<1>4. p \in Pending => n >= 1
  <2>1. n # 0 \/ Pending = {}
    BY <1>1, FS_EmptySet
  <2> QED BY <1>1, <2>1
<1> HIDE DEF n
<1>5. counter' + m <= calls'
  BY <1>1, <1>2, <1>3
<1> QED BY <1>1, <1>2, <1>4, <1>5 DEF CountInv

--------------------------------------------------------------------------------
(* What SharedCounter sees of the calls. *)
AsState(x) == IF x = "idle" THEN "idle" ELSE IF x = "store" THEN "done" ELSE "called"

State == [p \in Ranks |-> IF pc[p] = "idle" THEN "idle" ELSE IF pc[p] = "store" THEN "done" ELSE "called"]
Value == [p \in Ranks |-> IF pc[p] = "store" THEN got[p] ELSE MAX_COUNT]

LEMMA ShownIs ==
  ASSUME TypeOK, TypeOK', NEW p \in Ranks, NEW x \in Points, pc' = [pc EXCEPT ![p] = x],
         \A k \in Ranks : k # p => got'[k] = got[k]
  PROVE  /\ State[p] = AsState(pc[p]) /\ State' = [State EXCEPT ![p] = AsState(x)]
         /\ Value' = [Value EXCEPT ![p] = IF x = "store" THEN got'[p] ELSE MAX_COUNT]
         /\ pc[p] # "store" /\ x # "store" => Value' = Value
         /\ AsState(x) = AsState(pc[p]) => State' = State
<1>1. \A k \in Ranks : pc'[k] = IF k = p THEN x ELSE pc[k]
  BY DEF TypeOK
<1>2. \A k \in Ranks : /\ State[k] = AsState(pc[k]) /\ State'[k] = AsState(pc'[k])
                       /\ Value[k] = IF pc[k] = "store" THEN got[k] ELSE MAX_COUNT
                       /\ Value'[k] = IF pc'[k] = "store" THEN got'[k] ELSE MAX_COUNT
  BY DEF State, Value, AsState
<1>3. /\ State = [k \in Ranks |-> State[k]] /\ State' = [k \in Ranks |-> State'[k]]
      /\ Value = [k \in Ranks |-> Value[k]] /\ Value' = [k \in Ranks |-> Value'[k]]
  BY DEF State, Value
<1>4. State' = [State EXCEPT ![p] = AsState(x)]
  BY <1>1, <1>2, <1>3
<1>5. Value' = [Value EXCEPT ![p] = IF x = "store" THEN got'[p] ELSE MAX_COUNT]
  BY <1>1, <1>2, <1>3
<1>6. pc[p] # "store" /\ x # "store" => Value' = Value
  BY <1>1, <1>2, <1>3
<1>7. AsState(x) = AsState(pc[p]) => State' = State
  BY <1>1, <1>2, <1>3
<1> QED BY <1>2, <1>4, <1>5, <1>6, <1>7

(* The steps of SharedCounter, by what they do to what is shown. *)
LEMMA AbstractSteps ==
  /\ \A p \in Ranks :
       /\ State[p] = "idle" /\ State' = [State EXCEPT ![p] = "called"]
       /\ low' = [low EXCEPT ![p] = counter] /\ UNCHANGED <<counter, Value>>
       => Abstract!Next
  /\ \A p \in Ranks :
       /\ State[p] = "called" /\ State' = [State EXCEPT ![p] = "done"]
       /\ counter < MaxCalls /\ counter' = counter + 1
       /\ Value' = [Value EXCEPT ![p] = counter] /\ UNCHANGED low
       => Abstract!Next
  /\ \A p \in Ranks : \A v \in low[p]..counter-1 :
       /\ State[p] = "called" /\ State' = [State EXCEPT ![p] = "done"]
       /\ Value' = [Value EXCEPT ![p] = v] /\ UNCHANGED <<counter, low>>
       => Abstract!Next
  /\ \A p \in Ranks :
       /\ State[p] = "done" /\ State' = [State EXCEPT ![p] = "idle"]
       /\ Value' = [Value EXCEPT ![p] = MAX_COUNT] /\ UNCHANGED <<counter, low>>
       => Abstract!Next
  /\ UNCHANGED <<State, Value, counter, low>> => UNCHANGED Abstract!vars
<1>1. ASSUME NEW p \in Ranks, State[p] = "idle", State' = [State EXCEPT ![p] = "called"],
             low' = [low EXCEPT ![p] = counter], UNCHANGED <<counter, Value>>
      PROVE  Abstract!Call(p)
  BY <1>1 DEF State, Value, Abstract!Call
<1>2. ASSUME NEW p \in Ranks, State[p] = "called", State' = [State EXCEPT ![p] = "done"],
             counter < MaxCalls, counter' = counter + 1,
             Value' = [Value EXCEPT ![p] = counter], UNCHANGED low
      PROVE  Abstract!TakeFresh(p)
  BY <1>2 DEF State, Value, Abstract!TakeFresh
<1>3. ASSUME NEW p \in Ranks, NEW v \in low[p]..counter-1,
             State[p] = "called", State' = [State EXCEPT ![p] = "done"],
             Value' = [Value EXCEPT ![p] = v], UNCHANGED <<counter, low>>
      PROVE  Abstract!TakeShared(p)
  BY <1>3 DEF State, Value, Abstract!TakeShared
<1>4. ASSUME NEW p \in Ranks, State[p] = "done", State' = [State EXCEPT ![p] = "idle"],
             Value' = [Value EXCEPT ![p] = MAX_COUNT], UNCHANGED <<counter, low>>
      PROVE  Abstract!Return(p)
  BY <1>4 DEF State, Value, Abstract!Return, MAX_COUNT, Abstract!Nothing
<1>5. UNCHANGED <<State, Value, counter, low>> => UNCHANGED Abstract!vars
  BY DEF State, Value, Abstract!vars
<1> QED BY <1>1, <1>2, <1>3, <1>4, <1>5 DEF Abstract!Next

(* The loop over the peers, for the abstract counter: the call goes on, or it *)
(* ends with a number that was taken since it began.                          *)
LEMMA LooksRefines ==
  ASSUME IInv, CountInv, NEW p \in Ranks, Compare(p) \/ Load(p) \/ Spin(p)
  PROVE  CountInv' /\ (Abstract!Next \/ UNCHANGED Abstract!vars)
<1>1. TypeOK /\ (\A k \in Ranks : TicketInv(k) /\ NumberInv(k) /\ CopyInv(k)) /\ IInv' /\ TypeOK'
  BY LooksInv DEF IInv
<1>2. pc[p] \in Copying /\ UNCHANGED <<counter, low, calls>>
  BY <1>1, LooksIs DEF shared
<1>3. PICK c \in Nat \cup {MAX_COUNT}, q \in Peers(p), x \in Numbered : Looks(p, c, q, x)
  BY <1>1, LooksIs
<1>4. /\ pc' = [pc EXCEPT ![p] = x] /\ got' = [got EXCEPT ![p] = c]
      /\ x \in Points /\ x # "idle" /\ (x = "store" => c # MAX_COUNT)
      /\ pc \in [Ranks -> Points] /\ got \in [Ranks -> Nat \cup {MAX_COUNT}]
      /\ pc[p] \notin {"idle", "store"}
  BY <1>1, <1>2, <1>3 DEF Looks, Numbered, Points, Copying, TypeOK
<1>5. CountInv'
  BY <1>1, <1>2, <1>4, CountKept
<1>6. /\ State[p] = "called" /\ State' = [State EXCEPT ![p] = AsState(x)]
      /\ Value' = [Value EXCEPT ![p] = IF x = "store" THEN c ELSE MAX_COUNT]
      /\ x # "store" => Value' = Value /\ State' = State
  <2>1. got'[p] = c /\ \A k \in Ranks : k # p => got'[k] = got[k]
    BY <1>4
  <2>2. AsState(pc[p]) = "called" /\ (x # "store" => AsState(x) = "called")
    BY <1>4 DEF AsState
  <2> QED BY <1>1, <1>4, <2>1, <2>2, ShownIs
<1>7. CASE x # "store"
  BY <1>2, <1>5, <1>6, <1>7, AbstractSteps
<1>8. CASE x = "store"
  <2>1. c \in low[p]..counter - 1
    <3>1. NumberInv(p)' /\ CopyInv(p)' /\ got'[p] = c /\ pc'[p] = "store"
      BY <1>1, <1>4, <1>8 DEF IInv
    <3>2. c < counter /\ c >= low[p] /\ counter \in Nat /\ low[p] \in Nat /\ c \in Nat
      BY <1>1, <1>2, <1>4, <1>8, <3>1, TypesAre DEF NumberInv, CopyInv, Numbered, Recent
    <3> QED BY <3>2
  <2>2. State' = [State EXCEPT ![p] = "done"] /\ Value' = [Value EXCEPT ![p] = c]
    BY <1>6, <1>8 DEF AsState
  <2> QED BY <1>2, <1>5, <1>6, <2>1, <2>2, AbstractSteps
<1> QED BY <1>7, <1>8

LEMMA StepRefines ==
  ASSUME IInv, CountInv, NEW p \in Ranks, Call(p) \/ Step(p)
  PROVE  CountInv' /\ (Abstract!Next \/ UNCHANGED Abstract!vars)
<1>1. TypeOK /\ TypeOK'
  BY StepInv DEF IInv, Next
<1>2. /\ pc \in [Ranks -> Points] /\ got \in [Ranks -> Nat \cup {MAX_COUNT}]
  BY <1>1 DEF TypeOK, Points
<1> USE DEF AsState, Points
<1>3. CASE Call(p)
  <2>1. /\ pc[p] = "idle" /\ pc' = [pc EXCEPT ![p] = "ticket"]
        /\ low' = [low EXCEPT ![p] = counter] /\ calls' = calls + 1 /\ UNCHANGED <<counter, got>>
    BY <1>3 DEF Call
  <2>2. CountInv'
    BY <1>1, <2>1, CountKept
  <2>3. State[p] = "idle" /\ State' = [State EXCEPT ![p] = "called"] /\ Value' = Value
    BY <1>1, <2>1, ShownIs
  <2> QED BY <2>1, <2>2, <2>3, AbstractSteps
<1>4. CASE TakeTicket(p) \/ PublishTicket(p)
  <2>1. PICK x \in {"publish", "compare"} : pc' = [pc EXCEPT ![p] = x]
    BY <1>4 DEF TakeTicket, PublishTicket
  <2>2. /\ pc[p] \in {"ticket", "publish"} /\ UNCHANGED <<low, calls, counter>>
        /\ \A k \in Ranks : k # p => got'[k] = got[k]
    BY <1>2, <1>4 DEF TakeTicket, PublishTicket
  <2>3. CountInv'
    BY <1>1, <2>1, <2>2, CountKept
  <2>4. State' = State /\ Value' = Value
    BY <1>1, <2>1, <2>2, ShownIs
  <2> QED BY <2>2, <2>3, <2>4, AbstractSteps
<1>5. CASE Compare(p) \/ Load(p) \/ Spin(p)
  BY <1>5, LooksRefines
<1>6. CASE BaseIncrement(p)
  <2>1. /\ pc[p] = "base" /\ pc' = [pc EXCEPT ![p] = "store"]
        /\ got' = [got EXCEPT ![p] = counter] /\ counter' = counter + 1 /\ UNCHANGED <<low, calls>>
    BY <1>6 DEF BaseIncrement
  <2>2. CountInv' /\ counter < MaxCalls
    <3>1. p \in Pending
      BY <2>1 DEF Pending
    <3> QED BY <1>1, <2>1, <3>1, CountKept
  <2>3. State[p] = "called" /\ State' = [State EXCEPT ![p] = "done"]
          /\ Value' = [Value EXCEPT ![p] = counter]
    BY <1>1, <1>2, <2>1, ShownIs
  <2> QED BY <2>1, <2>2, <2>3, AbstractSteps
<1>7. CASE Store(p)
  <2>1. /\ pc[p] = "store" /\ pc' = [pc EXCEPT ![p] = "idle"] /\ UNCHANGED <<got, counter, low, calls>>
    BY <1>7 DEF Store
  <2>2. CountInv'
    BY <1>1, <2>1, CountKept
  <2>3. State[p] = "done" /\ State' = [State EXCEPT ![p] = "idle"]
          /\ Value' = [Value EXCEPT ![p] = MAX_COUNT]
    BY <1>1, <2>1, ShownIs
  <2> QED BY <2>1, <2>2, <2>3, AbstractSteps
<1> QED BY <1>3, <1>4, <1>5, <1>6, <1>7 DEF Step

(* Implements: the class is a shared counter.  A number that a call returns *)
(* was taken between the call and its return, by it or by a peer.           *)
THEOREM SharesNumbers == Spec => Implements
<1>1. Init => Abstract!Init
  BY DEF Init, Abstract!Init, MAX_COUNT, Abstract!Nothing
<1>2. IInv /\ CountInv /\ [Next]_vars => CountInv' /\ (Abstract!Next \/ UNCHANGED Abstract!vars)
  <2> SUFFICES ASSUME IInv, CountInv, [Next]_vars
               PROVE  CountInv' /\ (Abstract!Next \/ UNCHANGED Abstract!vars)
    OBVIOUS
  <2>1. CASE UNCHANGED vars
    <3>1. UNCHANGED <<State, Value, counter, low>> /\ CountInv'
      BY <2>1 DEF vars, shared, private, CountInv, Pending, State, Value
    <3> QED BY <3>1, AbstractSteps
  <2>2. CASE Next
    BY <2>2, StepRefines DEF Next
  <2> QED BY <2>1, <2>2
<1> QED BY <1>1, <1>2, CountInitially, Inductive, PTL DEF Spec, Implements, Abstract!Spec

================================================================================
