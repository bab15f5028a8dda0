----------------------------- MODULE LQueueProofs ------------------------------
(***************************************************************************)
(* Proofs about class LQueue, for every number of enqueuers and of calls   *)
(* and every capacity: an accepted element is in the buffer or came out,   *)
(* once; elements come out in order; only a full buffer refuses one.       *)
(***************************************************************************)
EXTENDS LQueue, FiniteSetTheorems, SequenceTheorems, TLAPS

(* Where the calls stand that hold the lock of the counter, and of the data. *)
HoldsCounter(p) == pc[p] \notin {"idle", "lockCounter"}
HoldsData(p) == pc[p] \in {"increment", "decrement", "put", "unlockData"}
DHoldsCounter == dPc \notin {"construct", "idle", "lockCounter"}
DHoldsData == dPc \in {"read", "reset", "copy", "unlockData"}

(* An enqueue has yet to put its element; it has, and is to return true. *)
Unput(p) == pc[p] \in {"lockCounter", "lockData", "increment", "decrement", "put"}
Done(p) == pc[p] \in {"unlockData", "unlockCounter"} /\ ok[p]

(* Slots taken: the counter without the enqueues that are being refused. *)
Used == counter - Cardinality(Refusing)

(* Slots with an element that a dequeue has yet to copy. *)
Held ==
  IF dPc = "copy" THEN copied..current-1
  ELSE IF ~Constructed THEN {}
  ELSE {i \in 0..Capacity-1 : i < Used /\ \A p \in Enqueuers : pc[p] = "put" => old[p] # i}

Found(e) ==
  \/ \E i \in Held : data[i] = e
  \/ \E k \in DOMAIN output : output[k] = e

--------------------------------------------------------------------------------
(* A lock is held where its holder stands, the dequeuer's by nobody else. *)
LockInv ==
  /\ \A p \in Enqueuers :
       (p \in counterLock <=> HoldsCounter(p)) /\ (p \in dataLock <=> HoldsData(p))
  /\ Dequeuer \in counterLock <=> DHoldsCounter
  /\ Dequeuer \in dataLock <=> DHoldsData
  /\ DHoldsCounter => \A p \in Enqueuers : ~HoldsCounter(p)

(* The counter oversteps the capacity only by enqueues that give it back, *)
(* and every slot is given to one enqueue.                                *)
SlotInv ==
  /\ Used \in 0..Capacity
  /\ Refusing # {} => Used = Capacity
  /\ \A p \in Enqueuers : pc[p] = "put" => old[p] < Used
  /\ \A p, q \in Enqueuers : pc[p] = "put" /\ pc[q] = "put" /\ old[p] = old[q] => p = q

(* A dequeue copies as many elements as the counter showed it. *)
DequeuerInv ==
  /\ dPc = "reset" => current = counter /\ counter > 0 /\ copied = 0
  /\ dPc = "copy" => counter = 0 /\ copied < current

(* Elements are distinct calls' numbers, and accepted when the call returns. *)
ElementInv ==
  /\ accepted \subseteq 1..calls
  /\ \A e \in Elements : before[e] \subseteq accepted
  /\ \A p \in Enqueuers : pc[p] # "idle" =>
       element[p] \in 1..calls /\ element[p] \notin accepted
  /\ \A p, q \in Enqueuers :
       pc[p] # "idle" /\ pc[q] # "idle" /\ element[p] = element[q] => p = q

(* Nothing that came before the reset is counted on. *)
EarlyInv ==
  ~Constructed =>
    /\ output = <<>> /\ accepted \subseteq early
    /\ \A p \in Enqueuers :
         pc[p] \in {"decrement", "put", "unlockData", "unlockCounter"} => element[p] \in early

(* An element is in one place: with its call, in a slot or in the output. *)
PlaceInv ==
  /\ \A i \in Held : data[i] \in 1..calls
  /\ \A k \in DOMAIN output : output[k] <= calls
  /\ \A i, j \in Held : data[i] = data[j] => i = j
  /\ \A k, l \in DOMAIN output : output[k] = output[l] => k = l
  /\ \A i \in Held, k \in DOMAIN output : data[i] # output[k]
  /\ \A p \in Enqueuers : Unput(p) => ~Found(element[p])

(* No element is lost. *)
FoundInv ==
  /\ \A e \in accepted \ early : Found(e)
  /\ \A p \in Enqueuers : Done(p) => element[p] \in early \/ Found(element[p])

(* Slots in the order of their indices, put or not, come after the output. *)
OrderInv ==
  /\ OrderKept
  /\ \A k \in DOMAIN output, i \in Held : data[i] \notin before[output[k]]
  /\ \A i, j \in Held : i < j => data[j] \notin before[data[i]]
  /\ \A p \in Enqueuers, i \in Held :
       pc[p] = "put" /\ old[p] < i => data[i] \notin before[element[p]]

IInv ==
  /\ TypeOK /\ LockInv /\ SlotInv /\ DequeuerInv /\ ElementInv
  /\ EarlyInv /\ PlaceInv /\ FoundInv /\ OrderInv

--------------------------------------------------------------------------------
LEMMA RefusingIs ==
  /\ IsFiniteSet(Refusing) /\ Cardinality(Refusing) \in Nat
  /\ Cardinality(Refusing) <= Cardinality(Enqueuers)
<1>1. Refusing \subseteq Enqueuers
  BY DEF Refusing
<1> QED BY <1>1, FS_Subset, FS_CardinalityType, LQueueAssumption

(* What a step of p does to the number of enqueues that are being refused. *)
LEMMA RefusingAfter ==
  ASSUME NEW p \in Enqueuers, \A q \in Enqueuers \ {p} : pc'[q] = pc[q]
  PROVE  /\ (pc[p] = "decrement" <=> pc'[p] = "decrement") => Refusing' = Refusing
         /\ pc[p] # "decrement" /\ pc'[p] = "decrement" =>
              Cardinality(Refusing') = Cardinality(Refusing) + 1
         /\ pc[p] = "decrement" /\ pc'[p] # "decrement" =>
              Cardinality(Refusing') = Cardinality(Refusing) - 1
<1>1. IsFiniteSet(Refusing)
  BY RefusingIs
<1>2. CASE pc[p] = "decrement" <=> pc'[p] = "decrement"
  BY <1>2 DEF Refusing
<1>3. CASE pc[p] # "decrement" /\ pc'[p] = "decrement"
  <2>1. Refusing' = Refusing \cup {p} /\ p \notin Refusing
    BY <1>3 DEF Refusing
  <2> QED BY <1>1, <1>3, <2>1, FS_AddElement
<1>4. CASE pc[p] = "decrement" /\ pc'[p] # "decrement"
  <2>1. Refusing' = Refusing \ {p} /\ p \in Refusing
    BY <1>4 DEF Refusing
  <2> QED BY <1>1, <1>4, <2>1, FS_RemoveElement
<1> QED BY <1>2, <1>3, <1>4

(* A slot that is held is one of the buffer. *)
LEMMA HeldIs == ASSUME TypeOK PROVE \A i \in Held : i \in 0..Capacity-1
BY LQueueAssumption DEF TypeOK, Held

LEMMA OutputIs == ASSUME TypeOK PROVE \A k \in DOMAIN output : output[k] \in 1..MaxCalls
<1>1. output \in Seq(Elements)
  BY DEF TypeOK
<1> QED BY <1>1, LenProperties, ElementOfSeq DEF Elements

(* What a step needs of the types. *)
LEMMA TypesAre ==
  ASSUME TypeOK
  PROVE  /\ counter \in Nat /\ calls \in Nat /\ current \in 0..Capacity /\ copied \in 0..Capacity
         /\ Capacity \in Nat \ {0} /\ MaxCalls \in Nat /\ calls <= MaxCalls
         /\ Cardinality(Refusing) \in Nat /\ Cardinality(Enqueuers) \in Nat
         /\ Cardinality(Refusing) <= Cardinality(Enqueuers)
         /\ Dequeuer \notin Enqueuers
BY RefusingIs, FS_CardinalityType, LQueueAssumption DEF TypeOK

(***************************************************************************)
(* A step that moves no element out of the place it is in keeps what the   *)
(* invariant says of places: an element is accepted once it is found, and  *)
(* a slot is taken behind all that are held.                               *)
(***************************************************************************)
LEMMA PlacesKept ==
  ASSUME IInv, Held' = Held,
         UNCHANGED <<output, element, calls, before>>, \A i \in Held : data'[i] = data[i],
         early \subseteq early',
         \A e \in accepted' : e \in accepted \/ \E p \in Enqueuers : Done(p) /\ e = element[p],
         \A p \in Enqueuers :
           /\ Unput(p)' => Unput(p)
           /\ Done(p)' => Done(p) \/ element[p] \in early
           /\ pc'[p] = "put" =>
                (pc[p] = "put" /\ old'[p] = old[p]) \/ \A i \in Held : ~(old'[p] < i)
  PROVE  PlaceInv' /\ FoundInv' /\ OrderInv'
<1>1. PlaceInv /\ FoundInv /\ OrderInv
  BY DEF IInv
<1>2. \A e : Found(e)' <=> Found(e)
  BY DEF Found
<1>3. PlaceInv'
  BY <1>1, <1>2 DEF PlaceInv
<1>4. FoundInv'
  BY <1>1, <1>2 DEF FoundInv
<1>5. OrderInv'
  BY <1>1 DEF OrderInv, OrderKept
<1> QED BY <1>3, <1>4, <1>5

LEMMA InitInv == Init => IInv
<1> SUFFICES ASSUME Init PROVE IInv
  OBVIOUS
<1>1. Capacity \in Nat \ {0} /\ MaxCalls \in Nat /\ Cardinality(Enqueuers) \in Nat
  BY FS_CardinalityType, LQueueAssumption
<1>2. TypeOK
  BY <1>1 DEF Init, TypeOK, Uninitialised
<1>3. Refusing = {} /\ Cardinality(Refusing) = 0
  BY FS_EmptySet DEF Init, Refusing
<1>4. Held = {}
  BY DEF Init, Held, Constructed
<1>5. LockInv /\ DequeuerInv
  BY LQueueAssumption DEF Init, LockInv, DequeuerInv, HoldsCounter, HoldsData, DHoldsCounter, DHoldsData
<1>6. SlotInv
  BY <1>1, <1>3 DEF Init, SlotInv, Used, Uninitialised
<1>7. ElementInv /\ EarlyInv
  BY DEF Init, ElementInv, EarlyInv
<1>8. PlaceInv /\ FoundInv /\ OrderInv
  BY <1>4 DEF Init, PlaceInv, FoundInv, OrderInv, OrderKept, Found, Unput, Done
<1> QED BY <1>2, <1>5, <1>6, <1>7, <1>8 DEF IInv

--------------------------------------------------------------------------------
(* Every action keeps every conjunct of the invariant. *)
LEMMA CallKeeps == ASSUME IInv, NEW p \in Enqueuers, Call(p) PROVE IInv'
<1> USE DEF Call, windows, enqVars, deqVars, history
<1>1. /\ TypeOK /\ LockInv /\ SlotInv /\ DequeuerInv /\ ElementInv
      /\ EarlyInv /\ PlaceInv /\ FoundInv /\ OrderInv
  BY DEF IInv
<1>2. Used' = Used /\ Refusing' = Refusing
  <2>1. /\ \A q \in Enqueuers \ {p} : pc'[q] = pc[q]
        /\ pc[p] # "decrement" /\ pc'[p] # "decrement"
    BY <1>1 DEF TypeOK
  <2>2. Refusing' = Refusing
    BY <2>1, RefusingAfter
  <2> QED BY <2>2 DEF Used
<1>3. Held' = Held
  BY <1>1, <1>2 DEF Held, Constructed, TypeOK
<1>4. TypeOK'
  <2>1. calls + 1 \in Elements /\ calls + 1 \in 0..MaxCalls
    BY <1>1, TypesAre DEF Elements
  <2> QED BY <1>1, <2>1 DEF TypeOK
<1>5. LockInv'
  BY <1>1, <1>2, TypesAre DEF LockInv, HoldsCounter, HoldsData, DHoldsCounter, DHoldsData, TypeOK
<1>6. SlotInv'
  BY <1>1, <1>2, TypesAre DEF SlotInv, TypeOK
<1>7. DequeuerInv'
  BY <1>1, <1>2, TypesAre DEF DequeuerInv, TypeOK
<1>8. ElementInv'
  BY <1>1, <1>2, TypesAre DEF ElementInv, TypeOK
<1>9. EarlyInv'
  BY <1>1, <1>2, TypesAre DEF EarlyInv, Constructed, TypeOK
<1>9a. Held \subseteq 0..Capacity-1 /\ \A e : Found(e)' <=> Found(e)
  BY <1>1, <1>3, HeldIs DEF Found
<1>9b. /\ \A i \in Held : data[i] \in 1..calls
       /\ \A k \in DOMAIN output : output[k] \in 1..calls
  <2>1. \A k \in DOMAIN output : output[k] \in 1..MaxCalls
    BY <1>1, OutputIs
  <2> QED BY <1>1, <2>1, TypesAre DEF PlaceInv
<1>9c. ~Found(calls + 1) /\ calls \in Nat /\ calls' = calls + 1
  BY <1>1, <1>9b, TypesAre DEF Found
<1>9d. \A q \in Enqueuers : /\ pc'[q] = "put" <=> pc[q] = "put"
                            /\ q # p => pc'[q] = pc[q] /\ element'[q] = element[q]
  BY <1>1 DEF TypeOK
<1>9e. \A e \in 1..calls : before'[e] = before[e]
  BY <1>1, TypesAre DEF TypeOK, Elements
<1>10. PlaceInv'
  <2>1. ASSUME NEW q \in Enqueuers, Unput(q)' PROVE ~Found(element[q])'
    <3>1. CASE q = p
      BY <1>1, <1>9a, <1>9c, <3>1 DEF TypeOK
    <3>2. CASE q # p
      BY <1>1, <1>9a, <1>9d, <2>1, <3>2 DEF PlaceInv, Unput
    <3> QED BY <3>1, <3>2
  <2> QED BY <1>1, <1>3, <1>9b, <1>9c, <2>1 DEF PlaceInv
<1>11. FoundInv'
  <2>1. \A q \in Enqueuers : Done(q)' => Done(q) /\ q # p
    BY <1>1, <1>9d DEF Done, TypeOK
  <2> QED BY <1>1, <1>9a, <1>9d, <2>1 DEF FoundInv
<1>12. OrderInv'
  <2>1. OrderKept'
    BY <1>1, <1>9b, <1>9e DEF OrderInv, OrderKept
  <2>2. \A q \in Enqueuers : pc'[q] = "put" =>
          pc[q] = "put" /\ element'[q] = element[q] /\ element[q] \in 1..calls
    BY <1>1, <1>9d DEF ElementInv
  <2> QED BY <1>1, <1>3, <1>9b, <1>9e, <2>1, <2>2 DEF OrderInv
<1> QED BY <1>4, <1>5, <1>6, <1>7, <1>8, <1>9, <1>10, <1>11, <1>12 DEF IInv

LEMMA LockCounterKeeps == ASSUME IInv, NEW p \in Enqueuers, LockCounter(p) PROVE IInv'
<1> USE DEF LockCounter, windows, enqVars, deqVars, history, GrantShared
<1>1. /\ TypeOK /\ LockInv /\ SlotInv /\ DequeuerInv /\ ElementInv
      /\ EarlyInv /\ PlaceInv /\ FoundInv /\ OrderInv
  BY DEF IInv
<1>2. Used' = Used /\ Refusing' = Refusing
  <2>1. /\ \A q \in Enqueuers \ {p} : pc'[q] = pc[q]
        /\ pc[p] # "decrement" /\ pc'[p] # "decrement"
    BY <1>1 DEF TypeOK
  <2>2. Refusing' = Refusing
    BY <2>1, RefusingAfter
  <2> QED BY <2>2 DEF Used
<1>3. Held' = Held
  BY <1>1, <1>2 DEF Held, Constructed, TypeOK
<1>4. TypeOK'
  BY <1>1, <1>2, TypesAre DEF TypeOK
<1>5. LockInv'
  BY <1>1, <1>2, TypesAre DEF LockInv, HoldsCounter, HoldsData, DHoldsCounter, DHoldsData, TypeOK
<1>6. SlotInv'
  BY <1>1, <1>2, TypesAre DEF SlotInv, TypeOK
<1>7. DequeuerInv'
  BY <1>1, <1>2, TypesAre DEF DequeuerInv, TypeOK
<1>8. ElementInv'
  BY <1>1, <1>2, TypesAre DEF ElementInv, TypeOK
<1>9. EarlyInv'
  BY <1>1, <1>2, TypesAre DEF EarlyInv, Constructed, TypeOK
<1>10. PlaceInv' /\ FoundInv' /\ OrderInv'
  BY <1>1, <1>3, PlacesKept DEF Unput, Done, TypeOK
<1> QED BY <1>4, <1>5, <1>6, <1>7, <1>8, <1>9, <1>10 DEF IInv

LEMMA LockDataKeeps == ASSUME IInv, NEW p \in Enqueuers, LockData(p) PROVE IInv'
<1> USE DEF LockData, windows, enqVars, deqVars, history, GrantShared
<1>1. /\ TypeOK /\ LockInv /\ SlotInv /\ DequeuerInv /\ ElementInv
      /\ EarlyInv /\ PlaceInv /\ FoundInv /\ OrderInv
  BY DEF IInv
<1>2. Used' = Used /\ Refusing' = Refusing
  <2>1. /\ \A q \in Enqueuers \ {p} : pc'[q] = pc[q]
        /\ pc[p] # "decrement" /\ pc'[p] # "decrement"
    BY <1>1 DEF TypeOK
  <2>2. Refusing' = Refusing
    BY <2>1, RefusingAfter
  <2> QED BY <2>2 DEF Used
<1>3. Held' = Held
  BY <1>1, <1>2 DEF Held, Constructed, TypeOK
<1>4. TypeOK'
  BY <1>1, <1>2, TypesAre DEF TypeOK
<1>5. LockInv'
  BY <1>1, <1>2, TypesAre DEF LockInv, HoldsCounter, HoldsData, DHoldsCounter, DHoldsData, TypeOK
<1>6. SlotInv'
  BY <1>1, <1>2, TypesAre DEF SlotInv, TypeOK
<1>7. DequeuerInv'
  BY <1>1, <1>2, TypesAre DEF DequeuerInv, TypeOK
<1>8. ElementInv'
  BY <1>1, <1>2, TypesAre DEF ElementInv, TypeOK
<1>9. EarlyInv'
  BY <1>1, <1>2, TypesAre DEF EarlyInv, Constructed, TypeOK
<1>10. PlaceInv' /\ FoundInv' /\ OrderInv'
  BY <1>1, <1>3, PlacesKept DEF Unput, Done, TypeOK
<1> QED BY <1>4, <1>5, <1>6, <1>7, <1>8, <1>9, <1>10 DEF IInv

LEMMA IncrementKeeps == ASSUME IInv, NEW p \in Enqueuers, Increment(p) PROVE IInv'
<1> USE DEF Increment, windows, enqVars, deqVars, history
<1>1. /\ TypeOK /\ LockInv /\ SlotInv /\ DequeuerInv /\ ElementInv
      /\ EarlyInv /\ PlaceInv /\ FoundInv /\ OrderInv
  BY DEF IInv
<1>2. /\ Used' = IF counter >= Capacity THEN Used ELSE Used + 1
      /\ counter < Capacity => Refusing = {} /\ Refusing' = {} /\ Used = counter
      /\ counter >= Capacity => Used = Capacity
  <2>1. Refusing = {} => Cardinality(Refusing) = 0
    BY FS_EmptySet
  <2>2. counter < Capacity => Refusing = {} /\ Used = counter
    BY <1>1, <2>1, TypesAre DEF SlotInv, Used
  <2>3. counter >= Capacity => Used = Capacity
    BY <1>1, <2>1, TypesAre DEF SlotInv, Used
  <2>4. counter >= Capacity => Cardinality(Refusing') = Cardinality(Refusing) + 1
    <3>1. \A q \in Enqueuers \ {p} : pc'[q] = pc[q]
      BY <1>1 DEF TypeOK
    <3>2. counter >= Capacity => pc[p] # "decrement" /\ pc'[p] = "decrement"
      BY <1>1 DEF TypeOK
    <3> QED BY <3>1, <3>2, RefusingAfter
  <2>5. counter < Capacity => Refusing' = Refusing
    <3>1. \A q \in Enqueuers \ {p} : pc'[q] = pc[q]
      BY <1>1 DEF TypeOK
    <3>2. counter < Capacity => pc[p] # "decrement" /\ pc'[p] # "decrement"
      BY <1>1, TypesAre DEF TypeOK
    <3> QED BY <3>1, <3>2, RefusingAfter
  <2> QED BY <1>1, <2>2, <2>3, <2>4, <2>5, TypesAre DEF Used
<1>3. Held' = Held
  <2>1. CASE counter >= Capacity
    BY <1>1, <1>2, <2>1 DEF Held, Constructed, TypeOK
  <2>2. CASE counter < Capacity
    <3>1. dPc # "copy" /\ dPc' = dPc
      BY <1>1 DEF LockInv, HoldsCounter, DHoldsCounter
    <3>2. /\ pc'[p] = "put" /\ old'[p] = counter /\ Used' = counter + 1 /\ Used = counter
          /\ \A q \in Enqueuers \ {p} : pc'[q] = pc[q] /\ old'[q] = old[q]
      BY <1>1, <1>2, <2>2, TypesAre DEF TypeOK
    <3>3. ASSUME NEW i \in 0..Capacity-1
          PROVE  (i < Used /\ \A q \in Enqueuers : pc[q] = "put" => old[q] # i)
                   <=> (i < Used' /\ \A q \in Enqueuers : pc'[q] = "put" => old'[q] # i)
      BY <1>1, <3>2, TypesAre
    <3> QED BY <3>1, <3>3 DEF Held, Constructed
  <2> QED BY <1>1, <2>1, <2>2, TypesAre
<1>4. TypeOK'
  <2>0. Cardinality(Refusing') \in Nat /\ Cardinality(Refusing') <= Cardinality(Enqueuers)
    <3>1. Refusing' \subseteq Enqueuers
      BY DEF Refusing
    <3> QED BY <3>1, FS_Subset, FS_CardinalityType, LQueueAssumption
  <2>1. counter + 1 \in 0..Capacity + Cardinality(Enqueuers)
    <3>1. CASE counter < Capacity
      BY <3>1, TypesAre, <1>1
    <3>2. CASE counter >= Capacity
      <4>1. Used' = Capacity /\ Cardinality(Refusing') \in Nat
            /\ Cardinality(Refusing') <= Cardinality(Enqueuers)
        BY <1>2, <3>2, <2>0
      <4> QED BY <1>1, <4>1, TypesAre DEF Used
    <3> QED BY <1>1, <3>1, <3>2, TypesAre
  <2>2. early' \subseteq Elements
    <3>1. element[p] \in Elements
      BY <1>1, TypesAre DEF ElementInv, Elements
    <3> QED BY <1>1, <3>1 DEF TypeOK
  <2> QED BY <1>1, <2>1, <2>2 DEF TypeOK
<1>5. LockInv'
  BY <1>1, <1>2, TypesAre DEF LockInv, HoldsCounter, HoldsData, DHoldsCounter, DHoldsData, TypeOK
<1>6. SlotInv'
  BY <1>1, <1>2, TypesAre DEF SlotInv, TypeOK
<1>7. DequeuerInv'
  BY <1>1 DEF LockInv, HoldsCounter, DHoldsCounter, DequeuerInv
<1>8. ElementInv'
  BY <1>1, <1>2, TypesAre DEF ElementInv, TypeOK
<1>9. EarlyInv'
  BY <1>1, <1>2, TypesAre DEF EarlyInv, Constructed, TypeOK
<1>10. PlaceInv' /\ FoundInv' /\ OrderInv'
  <2>1. ASSUME NEW i \in Held, counter < Capacity PROVE ~(counter < i)
    <3>1. dPc # "copy"
      BY <1>1 DEF LockInv, HoldsCounter, DHoldsCounter
    <3>2. i < Used /\ i \in Nat
      BY <3>1, <1>1, HeldIs, TypesAre DEF Held
    <3> QED BY <1>1, <1>2, <2>1, <3>2, TypesAre
  <2>2. \A q \in Enqueuers : pc'[q] = "put" =>
          (pc[q] = "put" /\ old'[q] = old[q]) \/ \A i \in Held : ~(old'[q] < i)
    BY <1>1, <2>1, TypesAre DEF TypeOK
  <2>3. \A q \in Enqueuers : (Unput(q)' => Unput(q)) /\ (Done(q)' => Done(q))
    BY <1>1 DEF Unput, Done, TypeOK
  <2> QED BY <1>1, <1>3, <2>2, <2>3, PlacesKept DEF IInv
<1> QED BY <1>4, <1>5, <1>6, <1>7, <1>8, <1>9, <1>10 DEF IInv

LEMMA DecrementKeeps == ASSUME IInv, NEW p \in Enqueuers, Decrement(p) PROVE IInv'
<1> USE DEF Decrement, windows, enqVars, deqVars, history
<1>1. /\ TypeOK /\ LockInv /\ SlotInv /\ DequeuerInv /\ ElementInv
      /\ EarlyInv /\ PlaceInv /\ FoundInv /\ OrderInv
  BY DEF IInv
<1>2. Used' = Used /\ Used = Capacity
  <2>1. p \in Refusing /\ Cardinality(Refusing') = Cardinality(Refusing) - 1
    <3>1. \A q \in Enqueuers \ {p} : pc'[q] = pc[q]
      BY <1>1 DEF TypeOK
    <3>2. pc[p] = "decrement" /\ pc'[p] # "decrement"
      BY <1>1 DEF TypeOK
    <3> QED BY <3>1, <3>2, RefusingAfter DEF Refusing
  <2> QED BY <1>1, <2>1, TypesAre DEF SlotInv, Used
<1>3. Held' = Held
  BY <1>1, <1>2 DEF Held, Constructed, TypeOK
<1>4. TypeOK'
  <2>1. counter - 1 \in 0..Capacity + Cardinality(Enqueuers)
    <3>1. counter > 0
      BY <1>1, <1>2, TypesAre DEF Used
    <3> QED BY <1>1, <3>1, TypesAre DEF TypeOK
  <2> QED BY <1>1, <2>1 DEF TypeOK
<1>5. LockInv'
  BY <1>1, <1>2, TypesAre DEF LockInv, HoldsCounter, HoldsData, DHoldsCounter, DHoldsData, TypeOK
<1>6. SlotInv'
  BY <1>1, <1>2, TypesAre DEF SlotInv, TypeOK
<1>7. DequeuerInv'
  BY <1>1 DEF LockInv, HoldsCounter, DHoldsCounter, DequeuerInv
<1>8. ElementInv'
  BY <1>1, <1>2, TypesAre DEF ElementInv, TypeOK
<1>9. EarlyInv'
  BY <1>1, <1>2, TypesAre DEF EarlyInv, Constructed, TypeOK
<1>10. PlaceInv' /\ FoundInv' /\ OrderInv'
  BY <1>1, <1>3, PlacesKept DEF Unput, Done, TypeOK
<1> QED BY <1>4, <1>5, <1>6, <1>7, <1>8, <1>9, <1>10 DEF IInv

LEMMA PutElementKeeps == ASSUME IInv, NEW p \in Enqueuers, PutElement(p) PROVE IInv'
<1> USE DEF PutElement, windows, enqVars, deqVars, history
<1>1. /\ TypeOK /\ LockInv /\ SlotInv /\ DequeuerInv /\ ElementInv
      /\ EarlyInv /\ PlaceInv /\ FoundInv /\ OrderInv
  BY DEF IInv
<1>2. Used' = Used /\ Refusing' = Refusing
  <2>1. /\ \A q \in Enqueuers \ {p} : pc'[q] = pc[q]
        /\ pc[p] # "decrement" /\ pc'[p] # "decrement"
    BY <1>1 DEF TypeOK
  <2>2. Refusing' = Refusing
    BY <2>1, RefusingAfter
  <2> QED BY <2>2 DEF Used
<1>3. /\ old[p] \in 0..Capacity-1 /\ old[p] \notin Held
      /\ Held' = IF Constructed THEN Held \cup {old[p]} ELSE {}
  <2>1. dPc # "copy" /\ dPc' = dPc
    BY <1>1 DEF LockInv, DHoldsCounter, HoldsCounter
  <2>2. old[p] \in 0..Capacity-1 /\ old[p] < Used
    BY <1>1, TypesAre DEF SlotInv, TypeOK
  <2>3. \A q \in Enqueuers : /\ pc'[q] = "put" <=> pc[q] = "put" /\ q # p
                             /\ pc[q] = "put" /\ q # p => old[q] # old[p]
    BY <1>1 DEF SlotInv, TypeOK
  <2> QED BY <1>2, <2>1, <2>2, <2>3 DEF Held, Constructed
<1>4. TypeOK'
  BY <1>1, <1>2, TypesAre DEF TypeOK
<1>5. LockInv'
  BY <1>1, <1>2, TypesAre DEF LockInv, HoldsCounter, HoldsData, DHoldsCounter, DHoldsData, TypeOK
<1>6. SlotInv'
  BY <1>1, <1>2, TypesAre DEF SlotInv, TypeOK
<1>7. DequeuerInv'
  BY <1>1, <1>2, TypesAre DEF DequeuerInv, TypeOK
<1>8. ElementInv'
  BY <1>1, <1>2, TypesAre DEF ElementInv, TypeOK
<1>9. EarlyInv'
  BY <1>1, <1>2, TypesAre DEF EarlyInv, Constructed, TypeOK
<1>9a. \A i \in Held : i \in 0..Capacity-1 /\ i # old[p] /\ data'[i] = data[i]
  BY <1>1, <1>3, HeldIs DEF TypeOK
<1>9b. CASE ~Constructed
  <2>1. Held = {} /\ Held' = Held
    BY <1>3, <1>9b DEF Held, Constructed
  <2>2. \A q \in Enqueuers : /\ Unput(q)' => Unput(q)
                             /\ Done(q)' => Done(q) \/ element[q] \in early
                             /\ pc'[q] = "put" => pc[q] = "put"
    BY <1>1, <1>9b DEF EarlyInv, Unput, Done, TypeOK
  <2>3. PlaceInv' /\ FoundInv' /\ OrderInv'
    BY <1>9a, <2>1, <2>2, PlacesKept
  <2> QED BY <1>4, <1>5, <1>6, <1>7, <1>8, <1>9, <2>3 DEF IInv
<1>9c. CASE Constructed
  <2>1. /\ Held' = Held \cup {old[p]} /\ data'[old[p]] = element[p]
        /\ \A i \in Held : data'[i] = data[i]
    BY <1>1, <1>3, <1>9a, <1>9c DEF TypeOK
  <2>2. \A e : Found(e)' <=> Found(e) \/ e = element[p]
    BY <2>1 DEF Found
  <2>3. ~Found(element[p]) /\ element[p] \in 1..calls /\ element[p] \notin accepted
    BY <1>1 DEF PlaceInv, ElementInv, Unput
  <2>4. PlaceInv'
    <3>1. \A i \in Held : data[i] # element[p]
      BY <2>3 DEF Found
    <3>2. \A k \in DOMAIN output : output[k] # element[p]
      BY <2>3 DEF Found
    <3>3. \A i \in Held' : data'[i] \in 1..calls
      BY <1>1, <2>1, <2>3 DEF PlaceInv
    <3>4. \A i, j \in Held' : data'[i] = data'[j] => i = j
      BY <1>1, <2>1, <3>1 DEF PlaceInv
    <3>5. \A i \in Held', k \in DOMAIN output : data'[i] # output[k]
      BY <1>1, <2>1, <3>2 DEF PlaceInv
    <3>6. \A q \in Enqueuers : Unput(q)' => ~Found(element[q])'
      <4>1. \A q \in Enqueuers : Unput(q)' => Unput(q) /\ q # p
        BY <1>1 DEF Unput, TypeOK
      <4>2. \A q \in Enqueuers : Unput(q) /\ q # p => element[q] # element[p]
        BY <1>1 DEF Unput, ElementInv
      <4> QED BY <1>1, <2>2, <4>1, <4>2 DEF PlaceInv
    <3> QED BY <1>1, <3>3, <3>4, <3>5, <3>6 DEF PlaceInv
  <2>5. FoundInv'
    <3>1. \A q \in Enqueuers : Done(q)' => Done(q) \/ q = p
      BY <1>1 DEF Done, TypeOK
    <3> QED BY <1>1, <2>2, <3>1 DEF FoundInv
  <2>6. OrderInv'
    <3>1. \A e \in 1..calls : element[p] \notin before[e]
      BY <1>1, <2>3, TypesAre DEF ElementInv, Elements
    <3>2. \A k \in DOMAIN output : output[k] \in 1..calls
      <4>1. \A k \in DOMAIN output : output[k] \in 1..MaxCalls
        BY <1>1, OutputIs
      <4> QED BY <1>1, <4>1, TypesAre DEF PlaceInv
    <3>3. \A i \in Held : data[i] \in 1..calls
      BY <1>1 DEF PlaceInv
    <3>4. OrderKept'
      BY <1>1 DEF OrderInv, OrderKept
    <3>5. \A k \in DOMAIN output, i \in Held' : data'[i] \notin before[output[k]]
      BY <1>1, <2>1, <3>1, <3>2 DEF OrderInv
    <3>6. \A i, j \in Held' : i < j => data'[j] \notin before[data'[i]]
      BY <1>1, <1>3, <2>1, <2>3, <3>1, <3>3 DEF OrderInv
    <3>7. \A q \in Enqueuers, i \in Held' :
            pc'[q] = "put" /\ old[q] < i => data'[i] \notin before[element[q]]
      <4>1. \A q \in Enqueuers : pc'[q] = "put" => pc[q] = "put" /\ element[q] \in 1..calls
        BY <1>1 DEF ElementInv, TypeOK
      <4> QED BY <1>1, <2>1, <3>1, <4>1 DEF OrderInv
    <3> QED BY <3>4, <3>5, <3>6, <3>7 DEF OrderInv
  <2> QED BY <1>4, <1>5, <1>6, <1>7, <1>8, <1>9, <2>4, <2>5, <2>6 DEF IInv
<1> QED BY <1>9b, <1>9c

LEMMA UnlockDataKeeps == ASSUME IInv, NEW p \in Enqueuers, UnlockData(p) PROVE IInv'
<1> USE DEF UnlockData, windows, enqVars, deqVars, history
<1>1. /\ TypeOK /\ LockInv /\ SlotInv /\ DequeuerInv /\ ElementInv
      /\ EarlyInv /\ PlaceInv /\ FoundInv /\ OrderInv
  BY DEF IInv
<1>2. Used' = Used /\ Refusing' = Refusing
  <2>1. /\ \A q \in Enqueuers \ {p} : pc'[q] = pc[q]
        /\ pc[p] # "decrement" /\ pc'[p] # "decrement"
    BY <1>1 DEF TypeOK
  <2>2. Refusing' = Refusing
    BY <2>1, RefusingAfter
  <2> QED BY <2>2 DEF Used
<1>3. Held' = Held
  BY <1>1, <1>2 DEF Held, Constructed, TypeOK
<1>4. TypeOK'
  BY <1>1, <1>2, TypesAre DEF TypeOK
<1>5. LockInv'
  BY <1>1, <1>2, TypesAre DEF LockInv, HoldsCounter, HoldsData, DHoldsCounter, DHoldsData, TypeOK
<1>6. SlotInv'
  BY <1>1, <1>2, TypesAre DEF SlotInv, TypeOK
<1>7. DequeuerInv'
  BY <1>1, <1>2, TypesAre DEF DequeuerInv, TypeOK
<1>8. ElementInv'
  BY <1>1, <1>2, TypesAre DEF ElementInv, TypeOK
<1>9. EarlyInv'
  BY <1>1, <1>2, TypesAre DEF EarlyInv, Constructed, TypeOK
<1>10. PlaceInv' /\ FoundInv' /\ OrderInv'
  BY <1>1, <1>3, PlacesKept DEF Unput, Done, TypeOK
<1> QED BY <1>4, <1>5, <1>6, <1>7, <1>8, <1>9, <1>10 DEF IInv

LEMMA UnlockCounterKeeps == ASSUME IInv, NEW p \in Enqueuers, UnlockCounter(p) PROVE IInv'
<1> USE DEF UnlockCounter, windows, enqVars, deqVars, history
<1>1. /\ TypeOK /\ LockInv /\ SlotInv /\ DequeuerInv /\ ElementInv
      /\ EarlyInv /\ PlaceInv /\ FoundInv /\ OrderInv
  BY DEF IInv
<1>2. Used' = Used /\ Refusing' = Refusing
  <2>1. /\ \A q \in Enqueuers \ {p} : pc'[q] = pc[q]
        /\ pc[p] # "decrement" /\ pc'[p] # "decrement"
    BY <1>1 DEF TypeOK
  <2>2. Refusing' = Refusing
    BY <2>1, RefusingAfter
  <2> QED BY <2>2 DEF Used
<1>3. Held' = Held
  BY <1>1, <1>2 DEF Held, Constructed, TypeOK
<1>4. TypeOK'
  <2>1. accepted' \subseteq Elements
    <3>1. element[p] \in Elements
      BY <1>1, TypesAre DEF ElementInv, Elements
    <3> QED BY <1>1, <3>1 DEF TypeOK
  <2> QED BY <1>1, <2>1 DEF TypeOK
<1>5. LockInv'
  BY <1>1, <1>2, TypesAre DEF LockInv, HoldsCounter, HoldsData, DHoldsCounter, DHoldsData, TypeOK
<1>6. SlotInv'
  BY <1>1, <1>2, TypesAre DEF SlotInv, TypeOK
<1>7. DequeuerInv'
  BY <1>1, <1>2, TypesAre DEF DequeuerInv, TypeOK
<1>8. ElementInv'
  BY <1>1, <1>2, TypesAre DEF ElementInv, TypeOK
<1>9. EarlyInv'
  BY <1>1, <1>2, TypesAre DEF EarlyInv, Constructed, TypeOK
<1>10. PlaceInv' /\ FoundInv' /\ OrderInv'
  BY <1>1, <1>3, PlacesKept DEF Unput, Done, TypeOK
<1> QED BY <1>4, <1>5, <1>6, <1>7, <1>8, <1>9, <1>10 DEF IInv

LEMMA ConstructLockKeeps == ASSUME IInv, ConstructLock PROVE IInv'
<1> USE DEF ConstructLock, windows, enqVars, deqVars, history, GrantExclusive
<1>1. /\ TypeOK /\ LockInv /\ SlotInv /\ DequeuerInv /\ ElementInv
      /\ EarlyInv /\ PlaceInv /\ FoundInv /\ OrderInv
  BY DEF IInv
<1>2. Used' = Used /\ Refusing' = Refusing
  BY DEF Used, Refusing
<1>3. Held' = Held
  BY <1>1, <1>2 DEF Held, Constructed, TypeOK
<1>4. TypeOK'
  BY <1>1, <1>2, TypesAre DEF TypeOK
<1>5. LockInv'
  BY <1>1, <1>2, TypesAre DEF LockInv, HoldsCounter, HoldsData, DHoldsCounter, DHoldsData, TypeOK
<1>6. SlotInv'
  BY <1>1, <1>2, TypesAre DEF SlotInv, TypeOK
<1>7. DequeuerInv'
  BY <1>1, <1>2, TypesAre DEF DequeuerInv, TypeOK
<1>8. ElementInv'
  BY <1>1, <1>2, TypesAre DEF ElementInv, TypeOK
<1>9. EarlyInv'
  BY <1>1, <1>2, TypesAre DEF EarlyInv, Constructed, TypeOK
<1>10. PlaceInv' /\ FoundInv' /\ OrderInv'
  BY <1>1, <1>3, PlacesKept DEF Unput, Done, TypeOK
<1> QED BY <1>4, <1>5, <1>6, <1>7, <1>8, <1>9, <1>10 DEF IInv

LEMMA ConstructResetKeeps == ASSUME IInv, ConstructReset PROVE IInv'
<1> USE DEF ConstructReset, windows, enqVars, deqVars, history
<1>1. /\ TypeOK /\ LockInv /\ SlotInv /\ DequeuerInv /\ ElementInv
      /\ EarlyInv /\ PlaceInv /\ FoundInv /\ OrderInv
  BY DEF IInv
<1>2. Used' = 0 /\ Refusing = {} /\ Refusing' = {}
  <2>1. Refusing = {}
    BY <1>1 DEF Refusing, LockInv, DHoldsCounter, HoldsCounter
  <2>2. Refusing' = Refusing /\ Cardinality({}) = 0
    BY FS_EmptySet DEF Refusing
  <2> QED BY <1>1, <2>1, <2>2, TypesAre DEF Used
<1>3. Held' = Held
  <2>1. \A i \in 0..Capacity-1 : ~(i < Used')
    BY <1>2, TypesAre
  <2> QED BY <2>1 DEF Held, Constructed
<1>4. TypeOK'
  BY <1>1, <1>2, TypesAre DEF TypeOK
<1>5. LockInv'
  BY <1>1, <1>2, TypesAre DEF LockInv, HoldsCounter, HoldsData, DHoldsCounter, DHoldsData, TypeOK
<1>6. SlotInv'
  <2>1. Used' \in 0..Capacity
    BY <1>1, <1>2, TypesAre
  <2>2. \A p \in Enqueuers : pc[p] # "put"
    BY <1>1 DEF LockInv, DHoldsCounter, HoldsCounter
  <2> QED BY <1>2, <2>1, <2>2 DEF SlotInv
<1>7. DequeuerInv'
  BY <1>1, <1>2, TypesAre DEF DequeuerInv, TypeOK
<1>8. ElementInv'
  BY <1>1, <1>2, TypesAre DEF ElementInv, TypeOK
<1>9. EarlyInv'
  BY <1>1, <1>2, TypesAre DEF EarlyInv, Constructed, TypeOK
<1>10. PlaceInv' /\ FoundInv' /\ OrderInv'
  BY <1>1, <1>3, PlacesKept DEF Unput, Done, TypeOK
<1> QED BY <1>4, <1>5, <1>6, <1>7, <1>8, <1>9, <1>10 DEF IInv

LEMMA DCallKeeps == ASSUME IInv, DCall PROVE IInv'
<1> USE DEF DCall, windows, enqVars, deqVars, history
<1>1. /\ TypeOK /\ LockInv /\ SlotInv /\ DequeuerInv /\ ElementInv
      /\ EarlyInv /\ PlaceInv /\ FoundInv /\ OrderInv
  BY DEF IInv
<1>2. Used' = Used /\ Refusing' = Refusing
  BY DEF Used, Refusing
<1>3. Held' = Held
  BY <1>1, <1>2 DEF Held, Constructed, TypeOK
<1>4. TypeOK'
  BY <1>1, <1>2, TypesAre DEF TypeOK
<1>5. LockInv'
  BY <1>1, <1>2, TypesAre DEF LockInv, HoldsCounter, HoldsData, DHoldsCounter, DHoldsData, TypeOK
<1>6. SlotInv'
  BY <1>1, <1>2, TypesAre DEF SlotInv, TypeOK
<1>7. DequeuerInv'
  BY <1>1, <1>2, TypesAre DEF DequeuerInv, TypeOK
<1>8. ElementInv'
  BY <1>1, <1>2, TypesAre DEF ElementInv, TypeOK
<1>9. EarlyInv'
  BY <1>1, <1>2, TypesAre DEF EarlyInv, Constructed, TypeOK
<1>10. PlaceInv' /\ FoundInv' /\ OrderInv'
  BY <1>1, <1>3, PlacesKept DEF Unput, Done, TypeOK
<1> QED BY <1>4, <1>5, <1>6, <1>7, <1>8, <1>9, <1>10 DEF IInv

LEMMA DLockCounterKeeps == ASSUME IInv, DLockCounter PROVE IInv'
<1> USE DEF DLockCounter, windows, enqVars, deqVars, history, GrantExclusive
<1>1. /\ TypeOK /\ LockInv /\ SlotInv /\ DequeuerInv /\ ElementInv
      /\ EarlyInv /\ PlaceInv /\ FoundInv /\ OrderInv
  BY DEF IInv
<1>2. Used' = Used /\ Refusing' = Refusing
  BY DEF Used, Refusing
<1>3. Held' = Held
  BY <1>1, <1>2 DEF Held, Constructed, TypeOK
<1>4. TypeOK'
  BY <1>1, <1>2, TypesAre DEF TypeOK
<1>5. LockInv'
  BY <1>1, <1>2, TypesAre DEF LockInv, HoldsCounter, HoldsData, DHoldsCounter, DHoldsData, TypeOK
<1>6. SlotInv'
  BY <1>1, <1>2, TypesAre DEF SlotInv, TypeOK
<1>7. DequeuerInv'
  BY <1>1, <1>2, TypesAre DEF DequeuerInv, TypeOK
<1>8. ElementInv'
  BY <1>1, <1>2, TypesAre DEF ElementInv, TypeOK
<1>9. EarlyInv'
  BY <1>1, <1>2, TypesAre DEF EarlyInv, Constructed, TypeOK
<1>10. PlaceInv' /\ FoundInv' /\ OrderInv'
  BY <1>1, <1>3, PlacesKept DEF Unput, Done, TypeOK
<1> QED BY <1>4, <1>5, <1>6, <1>7, <1>8, <1>9, <1>10 DEF IInv

LEMMA DLockDataKeeps == ASSUME IInv, DLockData PROVE IInv'
<1> USE DEF DLockData, windows, enqVars, deqVars, history, GrantExclusive
<1>1. /\ TypeOK /\ LockInv /\ SlotInv /\ DequeuerInv /\ ElementInv
      /\ EarlyInv /\ PlaceInv /\ FoundInv /\ OrderInv
  BY DEF IInv
<1>2. Used' = Used /\ Refusing' = Refusing
  BY DEF Used, Refusing
<1>3. Held' = Held
  BY <1>1, <1>2 DEF Held, Constructed, TypeOK
<1>4. TypeOK'
  BY <1>1, <1>2, TypesAre DEF TypeOK
<1>5. LockInv'
  BY <1>1, <1>2, TypesAre DEF LockInv, HoldsCounter, HoldsData, DHoldsCounter, DHoldsData, TypeOK
<1>6. SlotInv'
  BY <1>1, <1>2, TypesAre DEF SlotInv, TypeOK
<1>7. DequeuerInv'
  BY <1>1, <1>2, TypesAre DEF DequeuerInv, TypeOK
<1>8. ElementInv'
  BY <1>1, <1>2, TypesAre DEF ElementInv, TypeOK
<1>9. EarlyInv'
  BY <1>1, <1>2, TypesAre DEF EarlyInv, Constructed, TypeOK
<1>10. PlaceInv' /\ FoundInv' /\ OrderInv'
  BY <1>1, <1>3, PlacesKept DEF Unput, Done, TypeOK
<1> QED BY <1>4, <1>5, <1>6, <1>7, <1>8, <1>9, <1>10 DEF IInv

LEMMA ReadCounterKeeps == ASSUME IInv, ReadCounter PROVE IInv'
<1> USE DEF ReadCounter, windows, enqVars, deqVars, history
<1>1. /\ TypeOK /\ LockInv /\ SlotInv /\ DequeuerInv /\ ElementInv
      /\ EarlyInv /\ PlaceInv /\ FoundInv /\ OrderInv
  BY DEF IInv
<1>2. Used' = Used /\ Refusing' = Refusing
  BY DEF Used, Refusing
<1>3. Held' = Held
  BY <1>1, <1>2 DEF Held, Constructed, TypeOK
<1>4. TypeOK'
  <2>1. counter \in 0..Capacity /\ 0 \in 0..Capacity
    <3>1. Refusing = {}
      BY <1>1 DEF Refusing, LockInv, DHoldsCounter, HoldsCounter
    <3>2. Cardinality(Refusing) = 0
      BY <3>1, FS_EmptySet
    <3> QED BY <1>1, <3>2, TypesAre DEF SlotInv, Used
  <2> QED BY <1>1, <2>1 DEF TypeOK
<1>5. LockInv'
  BY <1>1, <1>2, TypesAre DEF LockInv, HoldsCounter, HoldsData, DHoldsCounter, DHoldsData, TypeOK
<1>6. SlotInv'
  BY <1>1, <1>2, TypesAre DEF SlotInv, TypeOK
<1>7. DequeuerInv'
  BY <1>1, <1>2, TypesAre DEF DequeuerInv, TypeOK
<1>8. ElementInv'
  BY <1>1, <1>2, TypesAre DEF ElementInv, TypeOK
<1>9. EarlyInv'
  BY <1>1, <1>2, TypesAre DEF EarlyInv, Constructed, TypeOK
<1>10. PlaceInv' /\ FoundInv' /\ OrderInv'
  BY <1>1, <1>3, PlacesKept DEF Unput, Done, TypeOK
<1> QED BY <1>4, <1>5, <1>6, <1>7, <1>8, <1>9, <1>10 DEF IInv

LEMMA ResetCounterKeeps == ASSUME IInv, ResetCounter PROVE IInv'
<1> USE DEF ResetCounter, windows, enqVars, deqVars, history
<1>1. /\ TypeOK /\ LockInv /\ SlotInv /\ DequeuerInv /\ ElementInv
      /\ EarlyInv /\ PlaceInv /\ FoundInv /\ OrderInv
  BY DEF IInv
<1>2. Used' = 0 /\ Used = counter /\ Refusing = {} /\ Refusing' = {}
  <2>1. Refusing = {}
    BY <1>1 DEF Refusing, LockInv, DHoldsCounter, HoldsCounter
  <2>2. Refusing' = Refusing /\ Cardinality({}) = 0
    BY FS_EmptySet DEF Refusing
  <2> QED BY <1>1, <2>1, <2>2, TypesAre DEF Used
<1>3. Held' = Held
  <2>1. \A p \in Enqueuers : pc[p] # "put"
    BY <1>1 DEF LockInv, DHoldsCounter, HoldsCounter
  <2> QED BY <1>1, <1>2, <2>1, TypesAre DEF Held, Constructed, DequeuerInv, SlotInv
<1>4. TypeOK'
  BY <1>1, <1>2, TypesAre DEF TypeOK
<1>5. LockInv'
  BY <1>1, <1>2, TypesAre DEF LockInv, HoldsCounter, HoldsData, DHoldsCounter, DHoldsData, TypeOK
<1>6. SlotInv'
  <2>1. Used' \in 0..Capacity
    BY <1>1, <1>2, TypesAre
  <2>2. \A p \in Enqueuers : pc[p] # "put"
    BY <1>1 DEF LockInv, DHoldsCounter, HoldsCounter
  <2> QED BY <1>2, <2>1, <2>2 DEF SlotInv
<1>7. DequeuerInv'
  BY <1>1, <1>2, TypesAre DEF DequeuerInv, TypeOK
<1>8. ElementInv'
  BY <1>1, <1>2, TypesAre DEF ElementInv, TypeOK
<1>9. EarlyInv'
  BY <1>1, <1>2, TypesAre DEF EarlyInv, Constructed, TypeOK
<1>10. PlaceInv' /\ FoundInv' /\ OrderInv'
  BY <1>1, <1>3, PlacesKept DEF Unput, Done, TypeOK
<1> QED BY <1>4, <1>5, <1>6, <1>7, <1>8, <1>9, <1>10 DEF IInv

LEMMA CopyElementKeeps == ASSUME IInv, CopyElement PROVE IInv'
<1> USE DEF CopyElement, windows, enqVars, deqVars, history
<1>1. /\ TypeOK /\ LockInv /\ SlotInv /\ DequeuerInv /\ ElementInv
      /\ EarlyInv /\ PlaceInv /\ FoundInv /\ OrderInv
  BY DEF IInv
<1>2. Used' = Used /\ Refusing' = Refusing
  BY DEF Used, Refusing
<1>2a. copied \in 0..Capacity-1 /\ copied \in Held /\ data[copied] \in Elements
  <2>1. copied \in Held
    BY <1>1, TypesAre DEF Held, DequeuerInv
  <2>2. data[copied] \in 1..calls
    BY <1>1, <2>1 DEF PlaceInv
  <2> QED BY <1>1, <2>1, <2>2, HeldIs, TypesAre DEF Elements
<1>3. Held' = Held \ {copied} /\ \A i \in Held \ {copied} : copied < i
  <2>1. Used = 0 - Cardinality(Refusing) /\ \A i \in 0..Capacity-1 : ~(i < Used)
    BY <1>1, TypesAre DEF DequeuerInv, Used
  <2> QED BY <1>1, <1>2, <2>1, TypesAre DEF Held, Constructed, DequeuerInv
<1>4. TypeOK'
  <2>1. output' \in Seq(Elements)
    BY <1>1, <1>2a, AppendProperties DEF TypeOK
  <2>2. copied + 1 \in 0..Capacity
    BY <1>1, TypesAre DEF DequeuerInv
  <2> QED BY <1>1, <2>1, <2>2 DEF TypeOK
<1>5. LockInv'
  BY <1>1, <1>2, TypesAre DEF LockInv, HoldsCounter, HoldsData, DHoldsCounter, DHoldsData, TypeOK
<1>6. SlotInv'
  BY <1>1, <1>2, TypesAre DEF SlotInv, TypeOK
<1>7. DequeuerInv'
  BY <1>1, <1>2, TypesAre DEF DequeuerInv, TypeOK
<1>8. ElementInv'
  BY <1>1, <1>2, TypesAre DEF ElementInv, TypeOK
<1>9. EarlyInv'
  BY <1>1, <1>2, TypesAre DEF EarlyInv, Constructed, TypeOK
<1>9a. /\ Len(output) \in Nat /\ DOMAIN output = 1..Len(output)
       /\ DOMAIN output' = 1..Len(output) + 1
       /\ output'[Len(output) + 1] = data[copied]
       /\ \A k \in DOMAIN output : output'[k] = output[k]
  <2>1. output \in Seq(Elements)
    BY <1>1 DEF TypeOK
  <2> QED BY <1>2a, <2>1, AppendProperties, LenProperties
<1>9b. \A k \in DOMAIN output' : k \in DOMAIN output \/ k = Len(output) + 1
  BY <1>9a
<1>9c. \A e : Found(e)' <=> Found(e)
  BY <1>2a, <1>3, <1>9a, <1>9b DEF Found
<1>10. PlaceInv'
  <2>1. data[copied] \in 1..calls /\ \A k \in DOMAIN output : output[k] # data[copied]
    BY <1>1, <1>2a DEF PlaceInv
  <2>2. \A k \in DOMAIN output' : output'[k] <= calls
    BY <1>1, <1>9a, <1>9b, <2>1, TypesAre DEF PlaceInv
  <2>3. \A k, l \in DOMAIN output' : output'[k] = output'[l] => k = l
    BY <1>1, <1>9a, <1>9b, <2>1 DEF PlaceInv
  <2>4. \A i \in Held', k \in DOMAIN output' : data[i] # output'[k]
    BY <1>1, <1>2a, <1>3, <1>9a, <1>9b DEF PlaceInv
  <2>5. \A q \in Enqueuers : Unput(q)' => ~Found(element[q])'
    BY <1>1, <1>9c DEF PlaceInv, Unput
  <2> QED BY <1>1, <1>3, <2>2, <2>3, <2>4, <2>5 DEF PlaceInv
<1>11. FoundInv'
  BY <1>1, <1>9c DEF FoundInv, Done
<1>12. OrderInv'
  <2>1. OrderKept'
    <3> SUFFICES ASSUME NEW i \in DOMAIN output', NEW j \in DOMAIN output', i < j
                 PROVE  output'[j] \notin before[output'[i]]
      BY DEF OrderKept
    <3>1. i \in DOMAIN output
      BY <1>9a
    <3>2. CASE j \in DOMAIN output
      BY <1>1, <1>9a, <3>1, <3>2 DEF OrderInv, OrderKept
    <3>3. CASE j = Len(output) + 1
      BY <1>1, <1>2a, <1>9a, <3>1, <3>3 DEF OrderInv
    <3> QED BY <1>9b, <3>2, <3>3
  <2>2. \A k \in DOMAIN output', i \in Held' : data[i] \notin before[output'[k]]
    BY <1>1, <1>2a, <1>3, <1>9a, <1>9b DEF OrderInv
  <2> QED BY <1>1, <1>3, <2>1, <2>2 DEF OrderInv
<1> QED BY <1>4, <1>5, <1>6, <1>7, <1>8, <1>9, <1>10, <1>11, <1>12 DEF IInv

LEMMA DUnlockDataKeeps == ASSUME IInv, DUnlockData PROVE IInv'
<1> USE DEF DUnlockData, windows, enqVars, deqVars, history
<1>1. /\ TypeOK /\ LockInv /\ SlotInv /\ DequeuerInv /\ ElementInv
      /\ EarlyInv /\ PlaceInv /\ FoundInv /\ OrderInv
  BY DEF IInv
<1>2. Used' = Used /\ Refusing' = Refusing
  BY DEF Used, Refusing
<1>3. Held' = Held
  BY <1>1, <1>2 DEF Held, Constructed, TypeOK
<1>4. TypeOK'
  BY <1>1, <1>2, TypesAre DEF TypeOK
<1>5. LockInv'
  BY <1>1, <1>2, TypesAre DEF LockInv, HoldsCounter, HoldsData, DHoldsCounter, DHoldsData, TypeOK
<1>6. SlotInv'
  BY <1>1, <1>2, TypesAre DEF SlotInv, TypeOK
<1>7. DequeuerInv'
  BY <1>1, <1>2, TypesAre DEF DequeuerInv, TypeOK
<1>8. ElementInv'
  BY <1>1, <1>2, TypesAre DEF ElementInv, TypeOK
<1>9. EarlyInv'
  BY <1>1, <1>2, TypesAre DEF EarlyInv, Constructed, TypeOK
<1>10. PlaceInv' /\ FoundInv' /\ OrderInv'
  BY <1>1, <1>3, PlacesKept DEF Unput, Done, TypeOK
<1> QED BY <1>4, <1>5, <1>6, <1>7, <1>8, <1>9, <1>10 DEF IInv

LEMMA DUnlockCounterKeeps == ASSUME IInv, DUnlockCounter PROVE IInv'
<1> USE DEF DUnlockCounter, windows, enqVars, deqVars, history
<1>1. /\ TypeOK /\ LockInv /\ SlotInv /\ DequeuerInv /\ ElementInv
      /\ EarlyInv /\ PlaceInv /\ FoundInv /\ OrderInv
  BY DEF IInv
<1>2. Used' = Used /\ Refusing' = Refusing
  BY DEF Used, Refusing
<1>3. Held' = Held
  BY <1>1, <1>2 DEF Held, Constructed, TypeOK
<1>4. TypeOK'
  BY <1>1, <1>2, TypesAre DEF TypeOK
<1>5. LockInv'
  BY <1>1, <1>2, TypesAre DEF LockInv, HoldsCounter, HoldsData, DHoldsCounter, DHoldsData, TypeOK
<1>6. SlotInv'
  BY <1>1, <1>2, TypesAre DEF SlotInv, TypeOK
<1>7. DequeuerInv'
  BY <1>1, <1>2, TypesAre DEF DequeuerInv, TypeOK
<1>8. ElementInv'
  BY <1>1, <1>2, TypesAre DEF ElementInv, TypeOK
<1>9. EarlyInv'
  BY <1>1, <1>2, TypesAre DEF EarlyInv, Constructed, TypeOK
<1>10. PlaceInv' /\ FoundInv' /\ OrderInv'
  BY <1>1, <1>3, PlacesKept DEF Unput, Done, TypeOK
<1> QED BY <1>4, <1>5, <1>6, <1>7, <1>8, <1>9, <1>10 DEF IInv

LEMMA NextInv == IInv /\ [Next]_vars => IInv'
<1> SUFFICES ASSUME IInv, [Next]_vars PROVE IInv'
  OBVIOUS
<1>1. CASE UNCHANGED vars
  <2> USE <1>1 DEF vars, windows, enqVars, deqVars, history
  <2>1. Refusing' = Refusing /\ Held' = Held
    BY DEF Refusing, Held, Used, Constructed
  <2>2. (TypeOK /\ LockInv /\ SlotInv /\ DequeuerInv)'
    BY <2>1 DEF IInv, TypeOK, LockInv, HoldsCounter, HoldsData, DHoldsCounter, DHoldsData,
                SlotInv, Used, DequeuerInv
  <2>3. (ElementInv /\ EarlyInv)'
    BY DEF IInv, ElementInv, EarlyInv, Constructed
  <2>4. (PlaceInv /\ FoundInv /\ OrderInv)'
    BY <2>1, PlacesKept DEF Unput, Done
  <2> QED BY <2>2, <2>3, <2>4 DEF IInv
<1>2. CASE \E p \in Enqueuers : Call(p) \/ EnqueuerStep(p)
  BY <1>2, CallKeeps, LockCounterKeeps, LockDataKeeps, IncrementKeeps, DecrementKeeps,
     PutElementKeeps, UnlockDataKeeps, UnlockCounterKeeps DEF EnqueuerStep
<1>3. CASE DCall \/ DequeuerStep
  BY <1>3, ConstructLockKeeps, ConstructResetKeeps, DCallKeeps, DLockCounterKeeps, DLockDataKeeps,
     ReadCounterKeeps, ResetCounterKeeps, CopyElementKeeps, DUnlockDataKeeps, DUnlockCounterKeeps
     DEF DequeuerStep
<1> QED BY <1>1, <1>2, <1>3 DEF Next

(* The strengthened invariant holds for all constants. *)
THEOREM Inductive == Spec => []IInv
<1>1. Init => IInv
  BY InitInv
<1>2. IInv /\ [Next]_vars => IInv'
  BY NextInv
<1> QED BY <1>1, <1>2, PTL DEF Spec

(* The parts of every state have their types. *)
THEOREM TypeCorrect == Spec => []TypeOK
<1>1. IInv => TypeOK
  BY DEF IInv
<1> QED BY <1>1, Inductive, PTL

--------------------------------------------------------------------------------
(* The slots of LQueue that wait and are not reserved are those held. *)
LEMMA WaitingIs ==
  ASSUME IInv
  PROVE  /\ Constructed => Held = Waiting \ Reserved
         /\ dPc # "copy" => Waiting = {i \in 0..Capacity-1 : i < Used}
<1>1. TypeOK /\ LockInv /\ SlotInv /\ DequeuerInv
  BY DEF IInv
<1>2. dPc # "copy" => Waiting = {i \in 0..Capacity-1 : i < Used}
  BY DEF Waiting, Used
<1>3. ASSUME Constructed, dPc # "copy" PROVE Held = Waiting \ Reserved
  BY <1>2, <1>3 DEF Held, Reserved
<1>4. ASSUME Constructed, dPc = "copy" PROVE Held = Waiting \ Reserved
  <2>1. Reserved = {}
    BY <1>1, <1>4 DEF Reserved, LockInv, HoldsCounter, DHoldsCounter
  <2>2. \A i \in 0..Capacity-1 : ~(i < counter - Cardinality(Refusing))
    BY <1>1, <1>4, TypesAre DEF DequeuerInv
  <2> QED BY <1>4, <2>1, <2>2 DEF Held, Waiting
<1> QED BY <1>2, <1>3, <1>4

(* A set of at most one element, and how many it has. *)
LEMMA OneOrNone ==
  ASSUME NEW S, \A x, y \in S : x = y
  PROVE  Cardinality(S) = IF S = {} THEN 0 ELSE 1
<1>1. CASE S = {}
  BY <1>1, FS_EmptySet
<1>2. CASE S # {}
  <2>1. PICK x \in S : TRUE
    BY <1>2
  <2>2. S = {x}
    BY <2>1
  <2> QED BY <1>2, <2>2, FS_Singleton
<1> QED BY <1>1, <1>2

(***************************************************************************)
(* Every element whose enqueue returned true is in the buffer or among     *)
(* what dequeue returned, once, except those enqueued before the reset.    *)
(***************************************************************************)
THEOREM OncePerElement == Spec => []ExactlyOnceApart
<1>1. ASSUME IInv PROVE ExactlyOnceApart
  <2> SUFFICES ASSUME NEW e \in accepted \ early
               PROVE  Cardinality({i \in Waiting \ Reserved : data[i] = e})
                        + Cardinality({i \in DOMAIN output : output[i] = e}) = 1
    BY DEF ExactlyOnceApart
  <2> DEFINE S == {i \in Held : data[i] = e}
             O == {i \in DOMAIN output : output[i] = e}
  <2>1. EarlyInv /\ PlaceInv /\ FoundInv
    BY <1>1 DEF IInv
  <2>2. Constructed
    BY <2>1 DEF EarlyInv
  <2>3. Held = Waiting \ Reserved
    BY <1>1, <2>2, WaitingIs
  <2>4. (\A i, j \in S : i = j) /\ (\A i, j \in O : i = j) /\ (S = {} \/ O = {})
    BY <2>1 DEF PlaceInv
  <2>5. S # {} \/ O # {}
    BY <2>1 DEF FoundInv, Found
  <2> HIDE DEF S, O
  <2>6. Cardinality(S) + Cardinality(O) = 1
    BY <2>4, <2>5, OneOrNone
  <2> QED BY <2>3, <2>6 DEF S, O
<1> QED BY <1>1, Inductive, PTL

(* An element comes out before every one whose enqueue began after its own *)
(* had returned, also across several dequeues.                             *)
THEOREM OutInOrder == Spec => []OrderKept
<1>1. IInv => OrderKept
  BY DEF IInv, OrderInv
<1> QED BY <1>1, Inductive, PTL

(* An enqueue is refused only when the buffer is full, however many others *)
(* are being refused at the same time.                                     *)
THEOREM RefusedWhenFull == Spec => []RefusedWhenFullApart
<1>1. ASSUME IInv PROVE RefusedWhenFullApart
  <2> SUFFICES ASSUME NEW p \in Refusing PROVE Cardinality(Waiting) = Capacity
    BY DEF RefusedWhenFullApart
  <2>1. LockInv /\ SlotInv /\ TypeOK
    BY <1>1 DEF IInv
  <2>2. dPc # "copy"
    BY <2>1 DEF Refusing, LockInv, HoldsCounter, DHoldsCounter
  <2>3. Used = Capacity
    BY <2>1 DEF SlotInv
  <2>4. Waiting = 0..Capacity-1
    <3>1. Capacity \in Nat
      BY <2>1, TypesAre
    <3>2. Waiting = {i \in 0..Capacity-1 : i < Used}
      BY <1>1, <2>2, WaitingIs
    <3> QED BY <2>3, <3>1, <3>2
  <2>5. Cardinality(0..Capacity-1) = Capacity
    <3>1. Capacity \in Nat \ {0} /\ Capacity - 1 \in Int /\ 0 \in Int
      BY <2>1, TypesAre
    <3>2. Cardinality(0..Capacity-1) = IF 0 > Capacity - 1 THEN 0 ELSE (Capacity - 1) - 0 + 1
      BY <3>1, FS_Interval
    <3> QED BY <3>1, <3>2
  <2> QED BY <2>4, <2>5
<1> QED BY <1>1, Inductive, PTL

(* Calls that wait for locks, each while it holds one, never all wait for     *)
(* each other: a dequeue that has one lock keeps all enqueues from both, and  *)
(* enqueues that hold locks wait for nobody but a dequeue that has one.       *)
THEOREM SomeoneGoesOn == Spec => []SomeoneProceeds
<1>1. ASSUME IInv PROVE SomeoneProceeds
  <2> SUFFICES ASSUME dPc # "idle" \/ \E p \in Enqueuers : pc[p] # "idle"
               PROVE  \/ dPc # "idle" /\ ~DBlocked
                      \/ \E p \in Enqueuers : pc[p] # "idle" /\ ~Blocked(p)
    BY DEF SomeoneProceeds
  <2>1. LockInv
    BY <1>1 DEF IInv
  <2>2. counterLock \subseteq Enqueuers \cup {Dequeuer} /\ dataLock \subseteq Enqueuers \cup {Dequeuer}
    BY <1>1 DEF IInv, TypeOK
  <2>3. CASE DHoldsCounter
    <3>1. \A p \in Enqueuers : p \notin dataLock
      BY <2>1, <2>3 DEF LockInv, HoldsCounter, HoldsData
    <3>2. dPc = "lockData" => Dequeuer \notin dataLock
      BY <2>1 DEF LockInv, DHoldsData
    <3>3. ~DBlocked
      BY <2>2, <2>3, <3>1, <3>2 DEF DBlocked, DHoldsCounter, GrantExclusive
    <3> QED BY <2>3, <3>3 DEF DHoldsCounter
  <2>4. CASE ~DHoldsCounter
    <3>1. Dequeuer \notin counterLock /\ Dequeuer \notin dataLock
      BY <2>1, <2>4 DEF LockInv, DHoldsCounter, DHoldsData
    <3>2. \A p \in Enqueuers : ~Blocked(p)
      BY <3>1 DEF Blocked, GrantShared
    <3>3. CASE \E p \in Enqueuers : pc[p] # "idle"
      BY <3>2, <3>3
    <3>4. CASE \A p \in Enqueuers : pc[p] = "idle"
      <4>1. counterLock = {}
        BY <2>1, <2>2, <3>1, <3>4 DEF LockInv, HoldsCounter
      <4>2. dPc # "lockData"
        BY <2>4 DEF DHoldsCounter
      <4>3. ~DBlocked
        BY <4>1, <4>2 DEF DBlocked, GrantExclusive
      <4> QED BY <3>4, <4>3
    <3> QED BY <3>3, <3>4
  <2> QED BY <2>3, <2>4
<1> QED BY <1>1, Inductive, PTL

================================================================================
