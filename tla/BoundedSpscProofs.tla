--------------------------- MODULE BoundedSpscProofs ---------------------------
(***************************************************************************)
(* Proofs about BoundedSpsc for every capacity, read-ahead, publication    *)
(* period and number of elements: its invariants, and that it implements   *)
(* SpscQueue.                                                              *)
(***************************************************************************)
EXTENDS BoundedSpsc, SequenceTheorems, TLAPS

(***************************************************************************)
(* The inductive invariant, in parts.                                      *)
(***************************************************************************)

(* What the enqueuer's control point says about its call and the tail. *)
Announced ==
  \/ ePc = "publish" /\ eOp = "single"
  \/ ePc = "return" /\ eOp # "front" /\ eOk

EnqueuerControl ==
  /\ ePc \in {"check", "write", "publishLocal", "publish"} => eOp # "front"
  /\ ePc = "publishLocal" => eOp = "single"
  /\ ePc \in {"front", "frontRead"} => eOp = "front"
  /\ ePc # "write" => ePending = {}

(* The tail is the enqueuer's private one until the first publication. *)
TailIsPrivateTail == tail = IF Announced THEN eLast + eN ELSE eLast

CursorsOrdered ==
  /\ dFirst = first
  /\ eFirst <= first
  /\ first <= tail
  /\ dLast <= tail
  /\ tail - first <= Capacity

(* The elements being enqueued fit, and those already put are in place. *)
WritesFit ==
  ePc \in {"write", "publishLocal", "publish"} =>
    /\ eLast + eN - first <= Capacity
    /\ \A i \in (0..eN-1) \ ePending : data[Slot(eLast + i)] = eLast + i

(* What the dequeuer's control point says about its read-ahead. *)
DequeuerControl ==
  /\ dPc # "fetch" => dPending = {}
  /\ dPc \in {"take", "fetch", "advance"} => dFirst < dLast
  /\ dPc = "checkLocal" => cachedSize = 0
  /\ dPc = "advance" => dOp = "dequeue" /\ dOut = dFirst

CacheHolds(next, pending) ==
  /\ cachedSize > 0 => next + cachedSize <= dLast
  /\ \A j \in (0..cachedSize-1) \ pending : cached[j] = next + cachedSize - 1 - j

CacheInv ==
  /\ dPc \notin {"fetch", "advance"} => CacheHolds(dFirst, {})
  /\ dPc = "advance" => CacheHolds(dFirst + 1, {})
  /\ dPc = "fetch" /\ dOp = "dequeue" =>
       /\ dPending \subseteq 0..cachedSize
       /\ 0 \notin dPending => dOut = dFirst
       /\ CacheHolds(dFirst + 1, {cachedSize - o : o \in dPending})
  /\ dPc = "fetch" /\ dOp = "front" =>
       /\ dPending \subseteq 0..cachedSize-1
       /\ CacheHolds(dFirst, {cachedSize - 1 - o : o \in dPending})

(* A call that may still fail began on an empty queue or will see why not. *)
EmptyInv ==
  /\ dPc = "check" => wasEmpty \/ first < tail
  /\ dPc = "checkLocal" => wasEmpty \/ dFirst < localLast

IInv ==
  /\ TypeOK
  /\ EnqueuerControl
  /\ TailIsPrivateTail
  /\ CursorsOrdered
  /\ WritesFit
  /\ UnreadIntact
  /\ EFrontStable
  /\ DequeuerControl
  /\ CacheInv
  /\ EmptyInv

(* Division with remainder by a positive number. *)
LEMMA DivMod ==
  ASSUME NEW C \in Nat \ {0}, NEW a \in Nat
  PROVE  a % C \in 0..C-1 /\ \E d \in Nat : a = C * d + (a % C)
<1>1. a \div C \in Nat /\ a = C * (a \div C) + (a % C) /\ a % C \in 0..C-1
  OBVIOUS
<1> QED BY <1>1

(* Two numbers less than C apart have different remainders modulo C. *)
LEMMA SlotsDistinct ==
  ASSUME NEW C \in Nat \ {0}, NEW a \in Nat, NEW b \in Nat, a < b, b - a < C
  PROVE  a % C # b % C
<1>1. PICK qa \in Nat : a = C * qa + (a % C)
  BY DivMod
<1>2. PICK qb \in Nat : b = C * qb + (b % C)
  BY DivMod
<1>3. a % C \in Int /\ b % C \in Int /\ C * qa \in Int /\ C * qb \in Int
  BY DivMod
<1> SUFFICES ASSUME a % C = b % C PROVE FALSE
  OBVIOUS
<1>4. b - a = C * qb - C * qa
  BY <1>1, <1>2, <1>3
<1>5. CASE qb <= qa
  <2>1. C * qb <= C * qa
    BY <1>5
  <2> QED BY <2>1, <1>4, <1>3
<1>6. CASE qb >= qa + 1
  <2>1. C * qb >= C * qa + C
    <3>1. C * qb >= C * (qa + 1)
      BY <1>6
    <3>2. C * (qa + 1) = C * qa + C
      OBVIOUS
    <3> QED BY <3>1, <3>2
  <2> QED BY <2>1, <1>3, <1>4
<1> QED BY <1>5, <1>6

(* Slots are indices of the ring buffer, and any Capacity consecutive elements *)
(* have slots of their own.                                                *)
LEMMA SlotFacts ==
  /\ \A k \in Nat : Slot(k) \in 0..Capacity-1
  /\ \A k, m \in Nat : k < m /\ m - k < Capacity => Slot(k) # Slot(m)
BY DivMod, SlotsDistinct, BoundedSpscAssumption DEF Slot

(* Every step preserves the types. *)
LEMMA TypeStep ==
  ASSUME TypeOK, EnqueuerControl, DequeuerControl, [Next]_vars
  PROVE  TypeOK'
<1> USE BoundedSpscAssumption DEF windows, enqVars, deqVars
<1>1. ASSUME NEW op \in {"single", "batch"}, NEW n \in 1..MaxBatch, EnqueueCall(op, n)
      PROVE  TypeOK'
  BY <1>1 DEF EnqueueCall, TypeOK, EnqueuerControl
<1>2. ASSUME EnqueueRoom PROVE TypeOK'
  BY <1>2 DEF EnqueueRoom, StartWriting, HasRoom, TypeOK
<1>3. ASSUME EnqueueSync PROVE TypeOK'
  BY <1>3 DEF EnqueueSync, StartWriting, HasRoom, TypeOK
<1>4. ASSUME NEW i \in ePending, EnqueueWrite(i) PROVE TypeOK'
  <2>1. data' \in [0..Capacity-1 -> Int]
    <3>1. eLast + i \in Int
      BY DEF TypeOK
    <3> QED BY <1>4, <3>1 DEF EnqueueWrite, TypeOK
  <2>2. ePending' \subseteq 0..eN'-1
    BY <1>4 DEF EnqueueWrite, TypeOK
  <2>3. ePc' \in {"write", "publishLocal", "publish"}
    BY <1>4 DEF EnqueueWrite
  <2> QED
    BY <1>4, <2>1, <2>2, <2>3 DEF EnqueueWrite, TypeOK
<1>5. ASSUME EnqueuePublishLocal PROVE TypeOK'
  BY <1>5 DEF EnqueuePublishLocal, TypeOK
<1>6. ASSUME EnqueuePublish PROVE TypeOK'
  BY <1>6 DEF EnqueuePublish, TypeOK
<1>7. ASSUME EReturn PROVE TypeOK'
  BY <1>7 DEF EReturn, TypeOK
<1>8. ASSUME EReadFrontCall PROVE TypeOK'
  BY <1>8 DEF EReadFrontCall, TypeOK
<1>9. ASSUME EReadFrontNone PROVE TypeOK'
  BY <1>9 DEF EReadFrontNone, TypeOK
<1>10. ASSUME EReadFrontSync PROVE TypeOK'
  BY <1>10 DEF EReadFrontSync, TypeOK
<1>11. ASSUME EReadFrontRead PROVE TypeOK'
  BY <1>11 DEF EReadFrontRead, TypeOK
<1>12. ASSUME NEW op \in {"dequeue", "front"}, DCall(op) PROVE TypeOK'
  BY <1>12 DEF DCall, TypeOK, tail
<1>13. ASSUME DNonEmpty PROVE TypeOK'
  BY <1>13 DEF DNonEmpty, TypeOK
<1>14. ASSUME DSyncLast PROVE TypeOK'
  BY <1>14 DEF DSyncLast, TypeOK
<1>15. ASSUME DSyncLocalLast PROVE TypeOK'
  BY <1>15 DEF DSyncLocalLast, TypeOK
<1>16. ASSUME DequeueCached PROVE TypeOK'
  BY <1>16 DEF DequeueCached, TypeOK
<1>17. ASSUME DequeueFetch PROVE TypeOK'
  BY <1>17 DEF DequeueFetch, Min2, TypeOK, DequeuerControl
<1>18. ASSUME ReadFrontFetch PROVE TypeOK'
  BY <1>18 DEF ReadFrontFetch, Min2, TypeOK, DequeuerControl
<1>19. ASSUME NEW o \in dPending, DFetch(o) PROVE TypeOK'
  <2>1. data[Slot(dFirst + o)] \in Int
    <3>1. dFirst + o \in Nat
      BY DEF TypeOK
    <3>2. Slot(dFirst + o) \in 0..Capacity-1
      BY <3>1, SlotFacts
    <3> QED BY <3>2 DEF TypeOK
  <2>2. cached' \in [0..BatchSize-1 -> Int] /\ dOut' \in Int
    BY <1>19, <2>1 DEF DFetch, TypeOK
  <2>3. dPending' \subseteq 0..BatchSize
    BY <1>19 DEF DFetch, TypeOK
  <2>4. dPc' \in {"fetch", "advance", "take"}
    BY <1>19 DEF DFetch
  <2> QED
    BY <1>19, <2>2, <2>3, <2>4 DEF DFetch, TypeOK
<1>20. ASSUME DAdvance PROVE TypeOK'
  BY <1>20 DEF DAdvance, TypeOK
<1>21. ASSUME DReadFront PROVE TypeOK'
  BY <1>21 DEF DReadFront, TypeOK
<1>22. ASSUME DReturn PROVE TypeOK'
  BY <1>22 DEF DReturn, TypeOK
<1>23. CASE UNCHANGED vars
  BY <1>23 DEF vars, TypeOK
<1> QED
  BY <1>1, <1>2, <1>3, <1>4, <1>5, <1>6, <1>7, <1>8, <1>9, <1>10, <1>11, <1>12, <1>13,
     <1>14, <1>15, <1>16, <1>17, <1>18, <1>19, <1>20, <1>21, <1>22, <1>23
  DEF Next, EnqueuerCall, EnqueuerStep, DequeuerCall, DequeuerStep, vars

(* The conjuncts of the invariant that a step of the enqueuer can disturb. *)
EnqueuerInv ==
  /\ EnqueuerControl /\ TailIsPrivateTail /\ CursorsOrdered
  /\ WritesFit /\ UnreadIntact /\ EFrontStable

(* Every step of the enqueuer preserves the conjuncts about it. *)
LEMMA EnqueuerInvStep ==
  ASSUME TypeOK, TypeOK', EnqueuerInv, EnqueuerCall \/ EnqueuerStep
  PROVE  EnqueuerInv'
<1> USE BoundedSpscAssumption DEF windows, deqVars, EnqueuerInv
<1>a. first' = first /\ dFirst' = dFirst /\ dLast' = dLast
  BY DEF EnqueuerCall, EnqueuerStep, EnqueueCall, EReadFrontCall, EnqueueRoom, EnqueueSync,
         EnqueueWrite, EnqueuePublishLocal, EnqueuePublish, EReadFrontNone, EReadFrontSync,
         EReadFrontRead, EReturn
<1>b. first \in Nat /\ tail \in Nat /\ eLast \in Nat /\ eFirst \in Nat /\ eN \in Nat \ {0}
      /\ dLast \in Nat
  BY DEF TypeOK, tail
<1>1. ASSUME NEW op \in {"single", "batch"}, NEW n \in 1..MaxBatch, EnqueueCall(op, n)
      PROVE  EnqueuerInv'
  <2>1. tail' = tail /\ data' = data
    BY <1>1 DEF EnqueueCall, tail
  <2>2. EnqueuerControl' /\ TailIsPrivateTail'
    BY <1>1, <2>1, <1>b
    DEF EnqueueCall, TypeOK, EnqueuerControl, TailIsPrivateTail, Announced
  <2>3. CursorsOrdered'
    BY <1>1, <2>1, <1>a, <1>b DEF EnqueueCall, CursorsOrdered
  <2>4. WritesFit'
    BY <1>1, <2>1, <1>a, <1>b DEF EnqueueCall, WritesFit, CursorsOrdered
  <2>5. UnreadIntact'
    BY <2>1, <1>a DEF UnreadIntact
  <2>6. EFrontStable'
    BY <1>1, <2>1, <1>b
    DEF EnqueueCall, EFrontStable, UnreadIntact, TailIsPrivateTail, Announced
  <2> QED BY <2>2, <2>3, <2>4, <2>5, <2>6
<1>2. ASSUME EnqueueRoom PROVE EnqueuerInv'
  <2>1. tail' = tail /\ data' = data
    BY <1>2 DEF EnqueueRoom, tail
  <2>2. EnqueuerControl' /\ TailIsPrivateTail'
    BY <1>2, <2>1, <1>b
    DEF EnqueueRoom, StartWriting, HasRoom, TypeOK, EnqueuerControl, TailIsPrivateTail,
        Announced
  <2>3. CursorsOrdered'
    BY <1>2, <2>1, <1>a, <1>b DEF EnqueueRoom, CursorsOrdered
  <2>4. WritesFit'
    BY <1>2, <2>1, <1>a, <1>b
    DEF EnqueueRoom, StartWriting, HasRoom, WritesFit, CursorsOrdered
  <2>5. UnreadIntact'
    BY <2>1, <1>a DEF UnreadIntact
  <2>6. EFrontStable'
    BY <1>2, <2>1, <1>b
    DEF EnqueueRoom, StartWriting, HasRoom, EFrontStable, UnreadIntact, TailIsPrivateTail,
        Announced
  <2> QED BY <2>2, <2>3, <2>4, <2>5, <2>6
<1>3. ASSUME EnqueueSync PROVE EnqueuerInv'
  <2>1. tail' = tail /\ data' = data
    BY <1>3 DEF EnqueueSync, tail
  <2>2. EnqueuerControl' /\ TailIsPrivateTail'
    BY <1>3, <2>1, <1>b
    DEF EnqueueSync, StartWriting, HasRoom, TypeOK, EnqueuerControl, TailIsPrivateTail,
        Announced
  <2>3. CursorsOrdered'
    BY <1>3, <2>1, <1>a, <1>b DEF EnqueueSync, CursorsOrdered
  <2>4. WritesFit'
    BY <1>3, <2>1, <1>a, <1>b
    DEF EnqueueSync, StartWriting, HasRoom, WritesFit, CursorsOrdered
  <2>5. UnreadIntact'
    BY <2>1, <1>a DEF UnreadIntact
  <2>6. EFrontStable'
    BY <1>3, <2>1, <1>b
    DEF EnqueueSync, StartWriting, HasRoom, EFrontStable, UnreadIntact, TailIsPrivateTail,
        Announced
  <2> QED BY <2>2, <2>3, <2>4, <2>5, <2>6
<1>4. ASSUME NEW i \in ePending, EnqueueWrite(i) PROVE EnqueuerInv'
  <2>1. tail' = tail /\ tail = eLast /\ i \in 0..eN-1 /\ eLast + eN - first <= Capacity
    BY <1>4, <1>b DEF EnqueueWrite, tail, TailIsPrivateTail, Announced, WritesFit, TypeOK
  <2>2. data' = [data EXCEPT ![Slot(eLast + i)] = eLast + i] /\ eLast' = eLast /\ eN' = eN
        /\ ePc = "write" /\ ePending' = ePending \ {i}
    BY <1>4 DEF EnqueueWrite
  <2>3. data'[Slot(eLast + i)] = eLast + i
    BY <2>1, <2>2, <1>b, SlotFacts DEF TypeOK
  <2>4. ASSUME NEW k \in Nat, Slot(k) # Slot(eLast + i) PROVE data'[Slot(k)] = data[Slot(k)]
    BY <2>2, <2>4, SlotFacts DEF TypeOK
  <2>5. EnqueuerControl' /\ TailIsPrivateTail' /\ CursorsOrdered' /\ EFrontStable'
    BY <1>4, <2>1, <1>a, <1>b
   
    DEF EnqueueWrite, EnqueuerControl, TailIsPrivateTail, Announced, CursorsOrdered,
        EFrontStable
  <2>6. WritesFit'
    <3>1. ASSUME NEW j \in (0..eN-1) \ ePending' PROVE data'[Slot(eLast + j)] = eLast + j
      <4>1. CASE j = i
        BY <4>1, <2>3
      <4>2. CASE j # i
        <5>1. data[Slot(eLast + j)] = eLast + j
          BY <4>2, <2>2 DEF WritesFit
        <5>2. eLast + j \in Nat /\ eLast + i \in Nat
          BY <2>1, <1>b
        <5>3. Slot(eLast + j) # Slot(eLast + i)
          <6>1. CASE j < i
            BY <6>1, <5>2, <2>1, <1>b, SlotFacts DEF CursorsOrdered
          <6>2. CASE i < j
            BY <6>2, <5>2, <2>1, <1>b, SlotFacts DEF CursorsOrdered
          <6> QED BY <6>1, <6>2, <4>2, <2>1, <1>b
        <5> QED BY <5>1, <5>2, <5>3, <2>4
      <4> QED BY <4>1, <4>2
    <3> QED BY <3>1, <2>1, <2>2, <1>a DEF WritesFit
  <2>7. UnreadIntact'
    <3>1. ASSUME NEW k \in first..tail-1 PROVE data'[Slot(k)] = k
      <4> DEFINE m == eLast + i
      <4>1. k \in Nat /\ m \in Nat /\ k < m /\ m - k < Capacity
        BY <2>1, <1>b
      <4>2. Slot(k) # Slot(m)
        <5> HIDE DEF m
        <5> QED BY <4>1, SlotFacts
      <4> QED BY <4>1, <4>2, <2>4 DEF UnreadIntact
    <3> QED BY <3>1, <2>1, <1>a DEF UnreadIntact
  <2> QED BY <2>5, <2>6, <2>7
<1>5. ASSUME EnqueuePublishLocal PROVE EnqueuerInv'
  <2>1. data' = data /\ eFirst' = eFirst /\ eLast' = eLast /\ eN' = eN /\ ePending' = ePending
          /\ eOp' = eOp
    BY <1>5 DEF EnqueuePublishLocal
  <2>2. last \in Nat /\ localLast \in Nat /\ last <= tail /\ localLast <= tail
    BY DEF TypeOK, tail
  <2>3. tail \in {eLast, eLast + eN} /\ tail' = eLast + eN
    BY <1>5, <2>2, <1>b DEF EnqueuePublishLocal, TailIsPrivateTail, tail
  <2>4. eOp # "front" /\ ePending = {} /\ eLast + eN - first <= Capacity
    BY <1>5 DEF EnqueuePublishLocal, EnqueuerControl, WritesFit
  <2>5. EnqueuerControl' /\ TailIsPrivateTail'
    BY <1>5, <2>1, <2>3, <2>4
    DEF EnqueuePublishLocal, EnqueuerControl, TailIsPrivateTail, Announced
  <2>6. CursorsOrdered' /\ WritesFit' /\ EFrontStable'
    BY <1>5, <2>1, <2>3, <2>4, <1>a, <1>b
    DEF EnqueuePublishLocal, CursorsOrdered, WritesFit, EFrontStable
  <2>7. UnreadIntact'
    <3>1. ASSUME NEW k \in first..eLast + eN - 1 PROVE data[Slot(k)] = k
      <4>1. CASE k < eLast
        BY <4>1, <2>3, <1>b DEF UnreadIntact
      <4>2. CASE k >= eLast
        <5>1. k - eLast \in (0..eN-1) \ ePending /\ eLast + (k - eLast) = k
          BY <4>2, <2>4, <1>b
        <5> QED BY <1>5, <5>1 DEF EnqueuePublishLocal, WritesFit
      <4> QED BY <4>1, <4>2, <1>b
    <3> QED BY <3>1, <2>1, <2>3, <1>a, <1>b DEF UnreadIntact
  <2> QED BY <2>5, <2>6, <2>7
<1>6. ASSUME EnqueuePublish PROVE EnqueuerInv'
  <2>1. data' = data /\ eFirst' = eFirst /\ eLast' = eLast /\ eN' = eN /\ ePending' = ePending
          /\ eOp' = eOp
    BY <1>6 DEF EnqueuePublish
  <2>2. last \in Nat /\ localLast \in Nat /\ last <= tail /\ localLast <= tail
    BY DEF TypeOK, tail
  <2>3. tail \in {eLast, eLast + eN} /\ tail' = eLast + eN
    BY <1>6, <2>2, <1>b DEF EnqueuePublish, TailIsPrivateTail, tail
  <2>4. eOp # "front" /\ ePending = {} /\ eLast + eN - first <= Capacity
    BY <1>6 DEF EnqueuePublish, EnqueuerControl, WritesFit
  <2>5. EnqueuerControl' /\ TailIsPrivateTail'
    BY <1>6, <2>1, <2>3, <2>4
    DEF EnqueuePublish, EnqueuerControl, TailIsPrivateTail, Announced
  <2>6. CursorsOrdered' /\ WritesFit' /\ EFrontStable'
    BY <1>6, <2>1, <2>3, <2>4, <1>a, <1>b
    DEF EnqueuePublish, CursorsOrdered, WritesFit, EFrontStable
  <2>7. UnreadIntact'
    <3>1. ASSUME NEW k \in first..eLast + eN - 1 PROVE data[Slot(k)] = k
      <4>1. CASE k < eLast
        BY <4>1, <2>3, <1>b DEF UnreadIntact
      <4>2. CASE k >= eLast
        <5>1. k - eLast \in (0..eN-1) \ ePending /\ eLast + (k - eLast) = k
          BY <4>2, <2>4, <1>b
        <5> QED BY <1>6, <5>1 DEF EnqueuePublish, WritesFit
      <4> QED BY <4>1, <4>2, <1>b
    <3> QED BY <3>1, <2>1, <2>3, <1>a, <1>b DEF UnreadIntact
  <2> QED BY <2>5, <2>6, <2>7
<1>7. ASSUME EReturn PROVE EnqueuerInv'
  <2>1. tail' = tail /\ data' = data
    BY <1>7 DEF EReturn, tail
  <2>2. EnqueuerControl' /\ TailIsPrivateTail'
    BY <1>7, <2>1, <1>b DEF EReturn, TypeOK, EnqueuerControl, TailIsPrivateTail, Announced
  <2>3. CursorsOrdered'
    BY <1>7, <2>1, <1>a, <1>b DEF EReturn, CursorsOrdered
  <2>4. WritesFit'
    BY <1>7, <2>1, <1>a, <1>b DEF EReturn, WritesFit, CursorsOrdered
  <2>5. UnreadIntact'
    BY <2>1, <1>a DEF UnreadIntact
  <2>6. EFrontStable'
    BY <1>7, <2>1, <1>b
    DEF EReturn, EFrontStable, UnreadIntact, TailIsPrivateTail, Announced
  <2> QED BY <2>2, <2>3, <2>4, <2>5, <2>6
<1>8. ASSUME EReadFrontCall PROVE EnqueuerInv'
  <2>1. tail' = tail /\ data' = data
    BY <1>8 DEF EReadFrontCall, tail
  <2>2. EnqueuerControl' /\ TailIsPrivateTail'
    BY <1>8, <2>1, <1>b
    DEF EReadFrontCall, TypeOK, EnqueuerControl, TailIsPrivateTail, Announced
  <2>3. CursorsOrdered'
    BY <1>8, <2>1, <1>a, <1>b DEF EReadFrontCall, CursorsOrdered
  <2>4. WritesFit'
    BY <1>8, <2>1, <1>a, <1>b DEF EReadFrontCall, WritesFit, CursorsOrdered
  <2>5. UnreadIntact'
    BY <2>1, <1>a DEF UnreadIntact
  <2>6. EFrontStable'
    BY <1>8, <2>1, <1>b
    DEF EReadFrontCall, EFrontStable, UnreadIntact, TailIsPrivateTail, Announced
  <2> QED BY <2>2, <2>3, <2>4, <2>5, <2>6
<1>9. ASSUME EReadFrontNone PROVE EnqueuerInv'
  <2>1. tail' = tail /\ data' = data
    BY <1>9 DEF EReadFrontNone, tail
  <2>2. EnqueuerControl' /\ TailIsPrivateTail'
    BY <1>9, <2>1, <1>b
    DEF EReadFrontNone, TypeOK, EnqueuerControl, TailIsPrivateTail, Announced
  <2>3. CursorsOrdered'
    BY <1>9, <2>1, <1>a, <1>b DEF EReadFrontNone, CursorsOrdered
  <2>4. WritesFit'
    BY <1>9, <2>1, <1>a, <1>b DEF EReadFrontNone, WritesFit, CursorsOrdered
  <2>5. UnreadIntact'
    BY <2>1, <1>a DEF UnreadIntact
  <2>6. EFrontStable'
    BY <1>9, <2>1, <1>b
    DEF EReadFrontNone, EFrontStable, UnreadIntact, TailIsPrivateTail, Announced
  <2> QED BY <2>2, <2>3, <2>4, <2>5, <2>6
<1>10. ASSUME EReadFrontSync PROVE EnqueuerInv'
  <2>1. tail' = tail /\ data' = data
    BY <1>10 DEF EReadFrontSync, tail
  <2>2. EnqueuerControl' /\ TailIsPrivateTail'
    BY <1>10, <2>1, <1>b
    DEF EReadFrontSync, TypeOK, EnqueuerControl, TailIsPrivateTail, Announced
  <2>3. CursorsOrdered'
    BY <1>10, <2>1, <1>a, <1>b DEF EReadFrontSync, CursorsOrdered
  <2>4. WritesFit'
    BY <1>10, <2>1, <1>a, <1>b DEF EReadFrontSync, WritesFit, CursorsOrdered
  <2>5. UnreadIntact'
    BY <2>1, <1>a DEF UnreadIntact
  <2>6. EFrontStable'
    BY <1>10, <2>1, <1>b
    DEF EReadFrontSync, EFrontStable, UnreadIntact, TailIsPrivateTail, Announced
  <2> QED BY <2>2, <2>3, <2>4, <2>5, <2>6
<1>11. ASSUME EReadFrontRead PROVE EnqueuerInv'
  <2>1. tail' = tail /\ data' = data
    BY <1>11 DEF EReadFrontRead, tail
  <2>2. EnqueuerControl' /\ TailIsPrivateTail'
    BY <1>11, <2>1, <1>b
    DEF EReadFrontRead, TypeOK, EnqueuerControl, TailIsPrivateTail, Announced
  <2>3. CursorsOrdered'
    BY <1>11, <2>1, <1>a, <1>b DEF EReadFrontRead, CursorsOrdered
  <2>4. WritesFit'
    BY <1>11, <2>1, <1>a, <1>b DEF EReadFrontRead, WritesFit, CursorsOrdered
  <2>5. UnreadIntact'
    BY <2>1, <1>a DEF UnreadIntact
  <2>6. EFrontStable'
    BY <1>11, <2>1, <1>b
    DEF EReadFrontRead, EFrontStable, UnreadIntact, TailIsPrivateTail, Announced
  <2> QED BY <2>2, <2>3, <2>4, <2>5, <2>6
<1>12. EnqueueCall("single", 1) => EnqueuerInv'
  BY <1>1
<1>13. \A n \in 1..MaxBatch : EnqueueCall("batch", n) => EnqueuerInv'
  BY <1>1
<1> QED
  BY <1>2, <1>3, <1>4, <1>5, <1>6, <1>7, <1>8, <1>9, <1>10, <1>11, <1>12, <1>13
  DEF EnqueuerCall, EnqueuerStep

(* Moving the head forward only makes room. *)
LEMMA LowerHead ==
  \A head, next, end, room \in Nat : head <= next /\ end - head <= room => end - next <= room
<1> SUFFICES ASSUME NEW head \in Nat, NEW next \in Nat, NEW end \in Nat, NEW room \in Nat,
                    head <= next, end - head <= room
             PROVE  end - next <= room
  OBVIOUS
<1>1. end <= room + head
  OBVIOUS
<1>2. end <= room + next
  BY <1>1
<1> QED BY <1>2

(* The dequeuer disturbs them only by giving back the front slot. *)
LEMMA EnqueuerInvKept ==
  ASSUME TypeOK, EnqueuerInv, DequeuerControl, DequeuerCall \/ DequeuerStep
  PROVE  EnqueuerInv'
<1> USE BoundedSpscAssumption DEF windows, enqVars, EnqueuerInv
<1>1. /\ UNCHANGED <<data, last, localLast, enqVars>>
      /\ UNCHANGED <<first, dFirst>> \/ (first' = dFirst + 1 /\ dFirst' = dFirst + 1 /\ dFirst < dLast)
      /\ dLast' \in {dLast, last, localLast}
  BY
  DEF DequeuerCall, DequeuerStep, DequeuerControl, DCall, DNonEmpty, DSyncLast,
      DSyncLocalLast,
         DequeueCached, DequeueFetch, ReadFrontFetch, DFetch, DAdvance, DReadFront, DReturn
<1>2. tail' = tail /\ last <= tail /\ localLast <= tail /\ tail \in Nat
  BY <1>1 DEF tail, TypeOK
<1>3. first \in Nat /\ dFirst \in Nat /\ dLast \in Nat /\ eLast \in Nat /\ eN \in Nat /\ eFirst \in Nat
  BY DEF TypeOK
<1>4. first' \in Nat /\ first <= first' /\ first' <= tail /\ dFirst' = first'
  BY <1>1, <1>2, <1>3 DEF CursorsOrdered
<1>5. EnqueuerControl' /\ TailIsPrivateTail' /\ EFrontStable'
  BY <1>1, <1>2 DEF EnqueuerControl, TailIsPrivateTail, Announced, EFrontStable
<1>6. CursorsOrdered'
  <2>1. dLast' <= tail /\ Capacity \in Nat /\ eFirst' = eFirst
    BY <1>1, <1>2, <1>3 DEF CursorsOrdered
  <2>2. eFirst' <= first'
    BY <2>1, <1>3, <1>4 DEF CursorsOrdered
  <2>3. tail - first' <= Capacity
    BY <2>1, <1>2, <1>3, <1>4, LowerHead DEF CursorsOrdered
  <2> QED BY <2>1, <2>2, <2>3, <1>2, <1>4 DEF CursorsOrdered
<1>7. WritesFit'
  <2>1. data' = data /\ eLast' = eLast /\ eN' = eN /\ ePc' = ePc /\ ePending' = ePending
    BY <1>1
  <2>2. eLast + eN - first <= Capacity => eLast + eN - first' <= Capacity
    <3> DEFINE end == eLast + eN
    <3>1. end \in Nat /\ Capacity \in Nat
      BY <1>3
    <3> HIDE DEF end
    <3>2. end - first <= Capacity => end - first' <= Capacity
      BY <3>1, <1>3, <1>4, LowerHead
    <3>3. end - first = eLast + eN - first /\ end - first' = eLast + eN - first'
      BY <1>3, <1>4 DEF end
    <3> QED BY <3>2, <3>3
  <2> QED BY <2>1, <2>2 DEF WritesFit
<1>8. UnreadIntact'
  BY <1>1, <1>2, <1>3, <1>4 DEF UnreadIntact
<1> QED BY <1>5, <1>6, <1>7, <1>8

(* The conjuncts that speak of the dequeuer. *)
DequeuerInv == DequeuerControl /\ CacheInv /\ EmptyInv

(* The enqueuer disturbs them only by moving the tail forward. *)
LEMMA DequeuerInvKept ==
  ASSUME TypeOK, EnqueuerInv, DequeuerInv, EnqueuerCall \/ EnqueuerStep
  PROVE  DequeuerInv'
<1> USE DEF windows, deqVars, DequeuerInv
<1>1. UNCHANGED <<deqVars, first>>
      /\ \/ UNCHANGED <<last, localLast>>
         \/ ePc = "publishLocal" /\ localLast' = eLast + eN /\ last' = last
         \/ ePc = "publish" /\ last' = eLast + eN /\ localLast' = localLast
  BY DEF EnqueuerCall, EnqueuerStep, EnqueueCall, EReadFrontCall, EnqueueRoom, EnqueueSync,
         EnqueueWrite, EnqueuePublishLocal, EnqueuePublish, EReadFrontNone, EReadFrontSync,
         EReadFrontRead, EReturn
<1>2. DequeuerControl' /\ CacheInv'
  BY <1>1 DEF DequeuerControl, CacheInv, CacheHolds
<1>3. tail \in {eLast, eLast + eN} /\ eLast \in Nat /\ eN \in Nat
  BY DEF EnqueuerInv, TailIsPrivateTail, TypeOK
<1>4. tail <= tail' /\ localLast <= localLast' /\ tail' \in Nat /\ localLast' \in Nat
  BY <1>1, <1>3 DEF tail, TypeOK
<1>5. EmptyInv'
  BY <1>1, <1>4 DEF EmptyInv, TypeOK, tail
<1> QED BY <1>2, <1>5

(* Every step of the dequeuer preserves the conjuncts about it. *)
LEMMA DequeuerInvStep ==
  ASSUME TypeOK, TypeOK', EnqueuerInv, DequeuerInv, DequeuerCall \/ DequeuerStep
  PROVE  DequeuerInv'
<1> USE BoundedSpscAssumption DEF windows, DequeuerInv
<1>a. dFirst \in Nat /\ dLast \in Nat /\ cachedSize \in Nat /\ first \in Nat /\ tail \in Nat
      /\ last \in Nat /\ localLast \in Nat /\ dFirst = first /\ dLast <= tail
  BY DEF TypeOK, EnqueuerInv, CursorsOrdered, tail
<1>b. cachedSize > 0 => dFirst < dLast
  BY <1>a DEF CacheInv, CacheHolds, DequeuerControl, TypeOK
<1>1. ASSUME NEW op \in {"dequeue", "front"}, DCall(op) PROVE DequeuerInv'
  <2>1. DequeuerControl' /\ CacheInv'
    BY <1>1, <1>a, <1>b DEF DCall, DequeuerControl, CacheInv, CacheHolds
  <2>2. EmptyInv'
    <3>1. tail' = tail /\ first' = first /\ dPc' = "check" /\ wasEmpty' = (tail <= first)
      BY <1>1 DEF DCall, tail
    <3>2. CASE tail <= first
      BY <3>1, <3>2 DEF EmptyInv
    <3>3. CASE first < tail
      BY <3>1, <3>3 DEF EmptyInv
    <3> QED BY <3>2, <3>3, <1>a
  <2> QED BY <2>1, <2>2
<1>2. ASSUME DNonEmpty PROVE DequeuerInv'
  <2>1. DequeuerControl'
    BY <1>2, <1>a, <1>b DEF DNonEmpty, DequeuerControl, CacheInv, CacheHolds
  <2>2. CacheInv'
    BY <1>2, <1>a, <1>b DEF DNonEmpty, CacheInv, CacheHolds, DequeuerControl
  <2>3. EmptyInv'
    BY <1>2, <1>a DEF DNonEmpty, EmptyInv, tail
  <2> QED BY <2>1, <2>2, <2>3
<1>3. ASSUME DSyncLast PROVE DequeuerInv'
  <2>1. DequeuerControl'
    BY <1>3, <1>a, <1>b DEF DSyncLast, DequeuerControl, CacheInv, CacheHolds
  <2>2. CacheInv'
    BY <1>3, <1>a, <1>b DEF DSyncLast, CacheInv, CacheHolds, DequeuerControl
  <2>3. EmptyInv'
    BY <1>3, <1>a DEF DSyncLast, EmptyInv, tail
  <2> QED BY <2>1, <2>2, <2>3
<1>4. ASSUME DSyncLocalLast PROVE DequeuerInv'
  <2>1. DequeuerControl'
    BY <1>4, <1>a, <1>b DEF DSyncLocalLast, DequeuerControl, CacheInv, CacheHolds
  <2>2. CacheInv'
    BY <1>4, <1>a, <1>b DEF DSyncLocalLast, CacheInv, CacheHolds, DequeuerControl
  <2>3. EmptyInv'
    BY <1>4, <1>a DEF DSyncLocalLast, EmptyInv, tail
  <2> QED BY <2>1, <2>2, <2>3
<1>5. ASSUME DequeueCached PROVE DequeuerInv'
  <2>1. DequeuerControl'
    BY <1>5, <1>a, <1>b DEF DequeueCached, DequeuerControl, CacheInv, CacheHolds
  <2>2. CacheInv'
    BY <1>5, <1>a, <1>b DEF DequeueCached, CacheInv, CacheHolds, DequeuerControl
  <2>3. EmptyInv'
    BY <1>5, <1>a DEF DequeueCached, EmptyInv, tail
  <2> QED BY <2>1, <2>2, <2>3
<1>6. ASSUME DequeueFetch PROVE DequeuerInv'
  <2>1. DequeuerControl' /\ EmptyInv'
    BY <1>6, <1>a, <1>b DEF DequeueFetch, DequeuerControl, EmptyInv
  <2>2. CacheInv'
    <3> DEFINE n == cachedSize'
    <3>1. n \in Nat /\ dPending' = 0..n /\ (n > 0 => dFirst + 1 + n <= dLast)
      BY <1>6, <1>a DEF DequeueFetch, Min2, DequeuerControl
    <3>2. dPc' = "fetch" /\ dOp' = "dequeue" /\ dFirst' = dFirst /\ dLast' = dLast
      BY <1>6 DEF DequeueFetch
    <3> HIDE DEF n
    <3>3. ASSUME NEW j \in 0..n-1 PROVE j \in {n - p : p \in dPending'}
      <4>1. n - j \in dPending' /\ n - (n - j) = j
        BY <3>1
      <4> QED BY <4>1
    <3>4. 0 \in dPending' \/ dOp' = "front"
      BY <3>1, <3>2
    <3>5. CacheHolds(dFirst + 1, {cachedSize - p : p \in dPending})'
      BY <3>1, <3>2, <3>3 DEF CacheHolds, n
    <3> QED BY <3>1, <3>2, <3>4, <3>5 DEF CacheInv, n
  <2> QED BY <2>1, <2>2
<1>7. ASSUME ReadFrontFetch PROVE DequeuerInv'
  <2>1. DequeuerControl' /\ EmptyInv'
    BY <1>7, <1>a, <1>b DEF ReadFrontFetch, DequeuerControl, EmptyInv
  <2>2. CacheInv'
    <3> DEFINE n == cachedSize'
    <3>1. n \in Nat /\ dPending' = 0..n - 1 /\ (n > 0 => dFirst + n <= dLast)
      BY <1>7, <1>a DEF ReadFrontFetch, Min2, DequeuerControl
    <3>2. dPc' = "fetch" /\ dOp' = "front" /\ dFirst' = dFirst /\ dLast' = dLast
      BY <1>7 DEF ReadFrontFetch
    <3> HIDE DEF n
    <3>3. ASSUME NEW j \in 0..n-1 PROVE j \in {n - 1 - p : p \in dPending'}
      <4>1. n - 1 - j \in dPending' /\ n - 1 - (n - 1 - j) = j
        BY <3>1
      <4> QED BY <4>1
    <3>4. 0 \in dPending' \/ dOp' = "front"
      BY <3>1, <3>2
    <3>5. CacheHolds(dFirst, {cachedSize - 1 - p : p \in dPending})'
      BY <3>1, <3>2, <3>3 DEF CacheHolds, n
    <3> QED BY <3>1, <3>2, <3>4, <3>5 DEF CacheInv, n
  <2> QED BY <2>1, <2>2
<1>8. ASSUME NEW o \in dPending, DFetch(o) PROVE DequeuerInv'
  <2> DEFINE n == cachedSize
  <2>1. n' = n /\ dFirst' = dFirst /\ dLast' = dLast /\ dOp' = dOp /\ data' = data
        /\ dPending' = dPending \ {o} /\ dPc = "fetch" /\ n \in 0..BatchSize /\ o \in Nat
    BY <1>8 DEF DFetch, TypeOK
  <2>2. EmptyInv'
    BY <1>8 DEF DFetch, EmptyInv
  <2>3. DequeuerControl' /\ dFirst < dLast
    <3>1. dFirst < dLast
      BY <2>1 DEF DequeuerControl
    <3>2. dPc' = IF dPending' # {} THEN "fetch" ELSE IF dOp = "dequeue" THEN "advance" ELSE "take"
      BY <1>8 DEF DFetch
    <3>3. ASSUME dPc' = "advance" PROVE dOut' = dFirst
      <4>1. dOp = "dequeue" /\ dPending' = {}
        BY <3>2, <3>3
      <4>2. CASE o = 0
        <5>1. dOut' = data[Slot(dFirst + 0)]
          BY <1>8, <4>1, <4>2 DEF DFetch
        <5>2. data[Slot(dFirst)] = dFirst
          BY <3>1, <1>a DEF EnqueuerInv, UnreadIntact
        <5> QED BY <5>1, <5>2, <1>a
      <4>3. CASE o # 0
        <5>1. dOut' = dOut /\ 0 \notin dPending
          BY <1>8, <4>1, <4>3, <2>1 DEF DFetch
        <5> QED BY <5>1, <4>1, <2>1 DEF CacheInv
      <4> QED BY <4>2, <4>3
    <3> QED BY <2>1, <3>1, <3>2, <3>3 DEF DequeuerControl
  <2>4. ASSUME dOp = "dequeue" PROVE CacheInv'
    <3>1. dPending \subseteq 0..n /\ CacheHolds(dFirst + 1, {n - p : p \in dPending})
      BY <2>1, <2>4 DEF CacheInv
    <3>2. dFirst + o \in first..tail-1
      BY <3>1, <2>1, <2>3, <1>a DEF CacheHolds
    <3>3. data[Slot(dFirst + o)] = dFirst + o
      BY <3>2 DEF EnqueuerInv, UnreadIntact
    <3>4. CacheHolds(dFirst + 1, {n - p : p \in dPending})'
      <4>1. ASSUME NEW j \in (0..n-1) \ {n - p : p \in dPending'}
            PROVE  cached'[j] = dFirst + 1 + n - 1 - j
        <5>1. CASE j = n - o
          <6>1. o # 0 /\ cached' = [cached EXCEPT ![n - o] = data[Slot(dFirst + o)]]
            BY <1>8, <2>1, <2>4, <5>1 DEF DFetch, CachePos
          <6>2. j \in 0..BatchSize-1
            BY <2>1
          <6> QED BY <6>1, <6>2, <5>1, <3>3, <2>1, <1>a DEF TypeOK
        <5>2. CASE j # n - o
          <6>1. cached'[j] = cached[j]
            BY <1>8, <2>1, <2>4, <5>2 DEF DFetch, CachePos, TypeOK
          <6>2. j \notin {n - p : p \in dPending}
            BY <2>1, <5>2
          <6> QED BY <6>1, <6>2, <3>1 DEF CacheHolds
        <5> QED BY <5>1, <5>2
      <4> QED BY <4>1, <3>1, <2>1 DEF CacheHolds
    <3>5. 0 \notin dPending' => dOut' = dFirst
      <4>1. CASE o = 0
        BY <1>8, <4>1, <2>4, <3>3, <1>a DEF DFetch
      <4>2. CASE o # 0
        BY <1>8, <4>2, <2>1, <2>4 DEF DFetch, CacheInv
      <4> QED BY <4>1, <4>2
    <3>6. dPc' = IF dPending' # {} THEN "fetch" ELSE "advance"
      BY <1>8, <2>4 DEF DFetch
    <3>7. CASE dPending' = {}
      <4>1. {n - p : p \in dPending}' = {}
        BY <3>7
      <4> QED BY <3>4, <3>6, <3>7, <4>1, <2>1 DEF CacheInv, CacheHolds
    <3>8. CASE dPending' # {}
      BY <3>1, <3>4, <3>5, <3>6, <3>8, <2>1, <2>4 DEF CacheInv
    <3> QED BY <3>7, <3>8
  <2>5. ASSUME dOp = "front" PROVE CacheInv'
    <3>1. dPending \subseteq 0..n-1 /\ CacheHolds(dFirst, {n - 1 - p : p \in dPending})
      BY <2>1, <2>5 DEF CacheInv
    <3>2. dFirst + o \in first..tail-1
      BY <3>1, <2>1, <2>3, <1>a DEF CacheHolds
    <3>3. data[Slot(dFirst + o)] = dFirst + o
      BY <3>2 DEF EnqueuerInv, UnreadIntact
    <3>4. CacheHolds(dFirst, {n - 1 - p : p \in dPending})'
      <4>1. ASSUME NEW j \in (0..n-1) \ {n - 1 - p : p \in dPending'}
            PROVE  cached'[j] = dFirst + n - 1 - j
        <5>0. cached' = [cached EXCEPT ![n - 1 - o] = data[Slot(dFirst + o)]]
          BY <1>8, <2>1, <2>5 DEF DFetch, CachePos
        <5>1. CASE j = n - 1 - o
          <6>2. j \in 0..BatchSize-1
            BY <2>1
          <6> QED BY <5>0, <6>2, <5>1, <3>3, <2>1, <1>a DEF TypeOK
        <5>2. CASE j # n - 1 - o
          <6>1. cached'[j] = cached[j]
            BY <5>0, <2>1, <5>2 DEF TypeOK
          <6>2. j \notin {n - 1 - p : p \in dPending}
            BY <2>1, <5>2
          <6> QED BY <6>1, <6>2, <3>1 DEF CacheHolds
        <5> QED BY <5>1, <5>2
      <4> QED BY <4>1, <3>1, <2>1 DEF CacheHolds
    <3>6. dPc' = IF dPending' # {} THEN "fetch" ELSE "take"
      BY <1>8, <2>5 DEF DFetch
    <3>7. CASE dPending' = {}
      <4>1. {n - 1 - p : p \in dPending}' = {}
        BY <3>7
      <4> QED BY <3>4, <3>6, <3>7, <4>1, <2>1 DEF CacheInv, CacheHolds
    <3>8. CASE dPending' # {}
      BY <3>1, <3>4, <3>6, <3>8, <2>1, <2>5 DEF CacheInv
    <3> QED BY <3>7, <3>8
  <2> QED BY <2>2, <2>3, <2>4, <2>5 DEF TypeOK
<1>9. ASSUME DAdvance PROVE DequeuerInv'
  <2>1. DequeuerControl'
    BY <1>9, <1>a, <1>b DEF DAdvance, DequeuerControl, CacheInv, CacheHolds
  <2>2. CacheInv'
    BY <1>9, <1>a, <1>b DEF DAdvance, CacheInv, CacheHolds, DequeuerControl
  <2>3. EmptyInv'
    BY <1>9, <1>a DEF DAdvance, EmptyInv, tail
  <2> QED BY <2>1, <2>2, <2>3
<1>10. ASSUME DReadFront PROVE DequeuerInv'
  <2>1. DequeuerControl'
    BY <1>10, <1>a, <1>b DEF DReadFront, DequeuerControl, CacheInv, CacheHolds
  <2>2. CacheInv'
    BY <1>10, <1>a, <1>b DEF DReadFront, CacheInv, CacheHolds, DequeuerControl
  <2>3. EmptyInv'
    BY <1>10, <1>a DEF DReadFront, EmptyInv, tail
  <2> QED BY <2>1, <2>2, <2>3
<1>11. ASSUME DReturn PROVE DequeuerInv'
  <2>1. DequeuerControl'
    BY <1>11, <1>a, <1>b DEF DReturn, DequeuerControl, CacheInv, CacheHolds
  <2>2. CacheInv'
    BY <1>11, <1>a, <1>b DEF DReturn, CacheInv, CacheHolds, DequeuerControl
  <2>3. EmptyInv'
    BY <1>11, <1>a DEF DReturn, EmptyInv, tail
  <2> QED BY <2>1, <2>2, <2>3
<1> QED
  BY <1>1, <1>2, <1>3, <1>4, <1>5, <1>6, <1>7, <1>8, <1>9, <1>10, <1>11
  DEF DequeuerCall, DequeuerStep

(* The invariant holds initially. *)
LEMMA InitInv == Init => IInv
<1> SUFFICES ASSUME Init PROVE IInv
  OBVIOUS
<1> USE BoundedSpscAssumption DEF Init
<1>1. TypeOK
  <2>1. Garbage \in Int
    BY DEF Garbage
  <2>2. data \in [0..Capacity-1 -> Int] /\ cached \in [0..BatchSize-1 -> Int]
    BY <2>1
  <2>3. eOut \in Int /\ dOut \in Int
    BY <2>1
  <2>4. eN \in 1..MaxBatch /\ cachedSize \in 0..BatchSize
    OBVIOUS
  <2> QED BY <2>2, <2>3, <2>4 DEF TypeOK
<1>2. EnqueuerInv
  BY
  DEF EnqueuerInv, EnqueuerControl, TailIsPrivateTail, Announced, CursorsOrdered, WritesFit,
         UnreadIntact, EFrontStable, tail
<1>3. DequeuerInv
  BY DEF DequeuerInv, DequeuerControl, CacheInv, CacheHolds, EmptyInv
<1> QED BY <1>1, <1>2, <1>3 DEF IInv, EnqueuerInv, DequeuerInv

(* Every step preserves the invariant. *)
LEMMA StepInv == IInv /\ [Next]_vars => IInv'
<1> SUFFICES ASSUME IInv, [Next]_vars PROVE IInv'
  OBVIOUS
<1>1. TypeOK /\ EnqueuerInv /\ DequeuerInv
  BY DEF IInv, EnqueuerInv, DequeuerInv
<1>2. TypeOK'
  BY <1>1, TypeStep DEF EnqueuerInv, DequeuerInv
<1>3. EnqueuerInv' /\ DequeuerInv'
  <2>1. CASE EnqueuerCall \/ EnqueuerStep
    BY <1>1, <1>2, <2>1, EnqueuerInvStep, DequeuerInvKept
  <2>2. CASE DequeuerCall \/ DequeuerStep
    BY <1>1, <1>2, <2>2, EnqueuerInvKept, DequeuerInvStep DEF DequeuerInv
  <2>3. CASE UNCHANGED vars
    <3>1. EnqueuerInv'
      BY <1>1, <2>3
      DEF vars, windows, enqVars, deqVars, EnqueuerInv, EnqueuerControl, TailIsPrivateTail,
          Announced, CursorsOrdered, WritesFit, UnreadIntact, EFrontStable, tail
    <3>2. DequeuerInv'
      BY <1>1, <2>3
     
      DEF vars, windows, deqVars, DequeuerInv, DequeuerControl, CacheInv, CacheHolds,
          EmptyInv, tail
    <3> QED BY <3>1, <3>2
  <2> QED BY <2>1, <2>2, <2>3 DEF Next
<1> QED BY <1>2, <1>3 DEF IInv, EnqueuerInv, DequeuerInv

(* The invariant holds in every reachable state. *)
LEMMA Invariance == Spec => []IInv
BY InitInv, StepInv, PTL DEF Spec

(* Every variable of the two endpoints and of the windows keeps its type; in *)
(* particular every slot and cache index the code computes is in range.    *)
THEOREM TypeCorrect == Spec => []TypeOK
<1>1. IInv => TypeOK
  BY DEF IInv
<1> QED BY <1>1, Invariance, PTL

(* enqueue never overwrites an element that is published and not yet given *)
(* back by dequeue, for every capacity and batch size.                     *)
THEOREM NoOverwrite == Spec => []UnreadIntact
<1>1. IInv => UnreadIntact
  BY DEF IInv
<1> QED BY <1>1, Invariance, PTL

(* The remote read of e_read_front returns the front it decided on, even when *)
(* the dequeuer takes that element between the two reads.                  *)
THEOREM FrontReadStable == Spec => []EFrontStable
<1>1. IInv => EFrontStable
  BY DEF IInv
<1> QED BY <1>1, Invariance, PTL

(* The gets in flight are for published elements. *)
LEMMA FetchBounds ==
  ASSUME IInv, NEW o \in dPending
  PROVE  dPc = "fetch" /\ o \in Nat /\ dFirst + o \in first..tail-1
<1>1. /\ dPc = "fetch" /\ o \in Nat /\ dFirst = first /\ dFirst < dLast /\ dLast <= tail
      /\ dFirst \in Nat /\ dLast \in Nat /\ tail \in Nat /\ cachedSize \in Nat
  BY DEF IInv, DequeuerControl, CursorsOrdered, TypeOK, tail
<1>2. CASE dOp = "dequeue"
  <2>1. o <= cachedSize /\ (cachedSize > 0 => dFirst + 1 + cachedSize <= dLast)
    BY <1>1, <1>2 DEF IInv, CacheInv, CacheHolds
  <2> QED BY <1>1, <2>1
<1>3. CASE dOp = "front"
  <2>1. o <= cachedSize - 1 /\ (cachedSize > 0 => dFirst + cachedSize <= dLast)
    BY <1>1, <1>3 DEF IInv, CacheInv, CacheHolds
  <2> QED BY <1>1, <2>1
<1> QED BY <1>2, <1>3 DEF IInv, TypeOK

(* No asynchronous get of the dequeuer reads an unpublished slot, or one an *)
(* asynchronous put of the enqueuer may be writing.                        *)
THEOREM FetchesRaceFree == Spec => []FetchIsRaceFree
<1>1. ASSUME IInv PROVE FetchIsRaceFree
  <2> SUFFICES ASSUME NEW o \in dPending
               PROVE  /\ dFirst + o < tail
                      /\ data[Slot(dFirst + o)] = dFirst + o
                      /\ \A i \in ePending : Slot(dFirst + o) # Slot(eLast + i)
    BY DEF FetchIsRaceFree
  <2>1. dFirst + o \in first..tail-1 /\ first \in Nat /\ tail \in Nat /\ dFirst + o \in Nat
    BY <1>1, FetchBounds DEF IInv, TypeOK, tail
  <2>2. data[Slot(dFirst + o)] = dFirst + o
    BY <1>1, <2>1 DEF IInv, UnreadIntact
  <2>3. ASSUME NEW i \in ePending PROVE Slot(dFirst + o) # Slot(eLast + i)
    <3>1. ePc = "write" /\ tail = eLast /\ i \in 0..eN-1 /\ eLast \in Nat /\ eN \in Nat
          /\ eLast + eN - first <= Capacity
      BY <1>1 DEF IInv, EnqueuerControl, TailIsPrivateTail, Announced, WritesFit, TypeOK
    <3> DEFINE k == dFirst + o
               m == eLast + i
    <3>2. k \in Nat /\ m \in Nat /\ k < m /\ m - k < Capacity
      BY <2>1, <3>1, BoundedSpscAssumption
    <3>3. Slot(k) # Slot(m)
      <4> HIDE DEF k, m
      <4> QED BY <3>2, SlotFacts
    <3> QED BY <3>3
  <2> QED BY <2>1, <2>2, <2>3
<1> QED BY <1>1, Invariance, PTL

(* The read-ahead cache of dequeue and d_read_front always continues the   *)
(* queue from the front on, across any mixture of the two calls.           *)
THEOREM CacheCoherent == Spec => []CacheFollowsFront
<1>1. ASSUME IInv PROVE CacheFollowsFront
  <2>1. dLast <= tail /\ dFirst \in Nat /\ dLast \in Nat /\ tail \in Nat /\ cachedSize \in Nat
        /\ dPending \subseteq Nat
    BY <1>1 DEF IInv, CursorsOrdered, TypeOK, tail
  <2>2. CASE dPc \notin {"fetch", "advance"}
    BY <1>1, <2>1, <2>2 DEF IInv, CacheInv, CacheHolds, CacheFollowsFront
  <2>3. CASE dPc = "advance"
    BY <1>1, <2>1, <2>3 DEF IInv, CacheInv, CacheHolds, CacheFollowsFront
  <2>4. CASE dPc = "fetch" /\ dOp = "dequeue"
    BY <1>1, <2>1, <2>4 DEF IInv, CacheInv, CacheHolds, CacheFollowsFront, CachePos
  <2>5. CASE dPc = "fetch" /\ dOp = "front"
    BY <1>1, <2>1, <2>5 DEF IInv, CacheInv, CacheHolds, CacheFollowsFront, CachePos
  <2> QED BY <1>1, <2>2, <2>3, <2>4, <2>5 DEF IInv, TypeOK
<1> QED BY <1>1, Invariance, PTL

(* The stale cursor copies of both sides err on the safe side, and at most *)
(* Capacity elements are ever in the buffer.                               *)
THEOREM StaleSafe == Spec => []StaleCopiesAreSafe
<1>1. ASSUME IInv PROVE StaleCopiesAreSafe
  <2>1. eLast \in Nat /\ eN \in Nat /\ tail \in {eLast, eLast + eN}
    BY <1>1 DEF IInv, TypeOK, TailIsPrivateTail
  <2> QED BY <1>1, <2>1 DEF IInv, CursorsOrdered, StaleCopiesAreSafe
<1> QED BY <1>1, Invariance, PTL

--------------------------------------------------------------------------------
(* The elements from number a up to number b, and those that follow, as the *)
(* sequence of SpscQueue.                                                    *)
Elements(a, b) == [i \in 1..(b - a) |-> a + i - 1]

LEMMA ElementsAre ==
  ASSUME NEW a \in Nat, NEW b \in Nat, a <= b
  PROVE  Elements(a, b) \in Seq(Nat) /\ Len(Elements(a, b)) = b - a
<1>1. b - a \in Nat /\ \A i \in 1..(b - a) : a + i - 1 \in Nat
  OBVIOUS
<1> QED BY <1>1 DEF Elements

LEMMA ElementsAppended ==
  ASSUME NEW a \in Nat, NEW b \in Nat, a <= b, NEW n \in Nat
  PROVE  Elements(a, b + n) = Elements(a, b) \o [i \in 1..n |-> b + i - 1]
<1> DEFINE e == Elements(a, b) l == [i \in 1..n |-> b + i - 1] f == Elements(a, b + n)
<1>1. l \in Seq(Nat) /\ Len(l) = n /\ \A i \in 1..n : l[i] = b + i - 1
  <2>1. \A i \in 1..n : b + i - 1 \in Nat
    OBVIOUS
  <2> QED BY <2>1
<1>2. f \in Seq(Nat) /\ Len(f) = b - a + n /\ \A i \in 1..(b - a + n) : f[i] = a + i - 1
  <2>1. b + n \in Nat /\ a <= b + n /\ b + n - a = b - a + n
    OBVIOUS
  <2> QED BY <2>1, ElementsAre DEF Elements
<1>3. e \in Seq(Nat) /\ Len(e) = b - a /\ \A i \in 1..(b - a) : e[i] = a + i - 1
  BY ElementsAre DEF Elements
<1> HIDE DEF e, l, f
<1>4. e \o l \in Seq(Nat) /\ Len(e \o l) = b - a + n
  <2>1. e \o l \in Seq(Nat) /\ Len(e \o l) = Len(e) + Len(l)
    BY <1>1, <1>3, ConcatProperties
  <2> QED BY <1>1, <1>3, <2>1
<1>5. ASSUME NEW i \in 1..(b - a + n) PROVE (e \o l)[i] = a + i - 1
  <2>1. (e \o l)[i] = IF i <= b - a THEN e[i] ELSE l[i - (b - a)]
    BY <1>1, <1>3, ConcatProperties
  <2>2. CASE i <= b - a
    BY <1>3, <2>1, <2>2
  <2>3. CASE i > b - a
    <3>1. PICK k \in 1..n : k = i - (b - a)
      BY <2>3
    <3>2. (e \o l)[i] = l[k]
      BY <2>1, <2>3, <3>1
    <3>3. b + k - 1 = a + i - 1
      BY <3>1
    <3> QED BY <1>1, <3>2, <3>3
  <2>4. i <= b - a \/ i > b - a
    OBVIOUS
  <2> QED BY <2>2, <2>3, <2>4
<1>6. f = e \o l
  BY <1>2, <1>4, <1>5, SeqEqual
<1> QED BY <1>6 DEF e, l, f

LEMMA ElementsTaken ==
  ASSUME NEW a \in Nat, NEW b \in Nat, a < b
  PROVE  Head(Elements(a, b)) = a /\ Tail(Elements(a, b)) = Elements(a + 1, b)
<1> DEFINE e == Elements(a, b) f == Elements(a + 1, b)
<1>1. e \in Seq(Nat) /\ Len(e) = b - a /\ \A i \in 1..(b - a) : e[i] = a + i - 1
  BY ElementsAre DEF Elements
<1>2. f \in Seq(Nat) /\ Len(f) = b - a - 1 /\ \A i \in 1..(b - a - 1) : f[i] = a + i
  <2>1. b - (a + 1) = b - a - 1 /\ b - a - 1 \in Nat
          /\ \A i \in 1..(b - a - 1) : a + 1 + i - 1 = a + i
    OBVIOUS
  <2> QED BY <2>1 DEF Elements
<1> HIDE DEF e, f
<1>3. e # <<>> /\ Head(e) = e[1] /\ 1 \in 1..(b - a)
  BY <1>1
<1>4. Tail(e) \in Seq(Nat) /\ Len(Tail(e)) = b - a - 1 /\ \A i \in 1..(b - a - 1) : Tail(e)[i] = a + i
  <2>1. Tail(e) \in Seq(Nat) /\ Len(Tail(e)) = b - a - 1
          /\ \A i \in 1..(b - a - 1) : Tail(e)[i] = e[i + 1]
    BY <1>1, <1>3, HeadTailProperties
  <2> QED BY <1>1, <2>1
<1>5. Tail(e) = f
  BY <1>2, <1>4, SeqEqual
<1>6. Head(e) = a
  BY <1>1, <1>3
<1> QED BY <1>5, <1>6 DEF e, f

--------------------------------------------------------------------------------
(* An enqueue that is announced, and a front read that found an element, have *)
(* decided what they return.                                                  *)
OkInv == (ePc = "publish" /\ eOp = "single") \/ ePc = "frontRead" => eOk

LEMMA OkStep == IInv /\ OkInv /\ [Next]_vars => OkInv'
<1> SUFFICES ASSUME IInv, OkInv, [Next]_vars PROVE OkInv'
  OBVIOUS
<1>1. EnqueuerControl /\ eOk \in BOOLEAN
  BY DEF IInv, TypeOK
<1>2. CASE EnqueuerCall
  BY <1>2 DEF EnqueuerCall, EnqueueCall, EReadFrontCall, OkInv
<1>3. CASE EnqueuerStep
  BY <1>1, <1>3
  DEF EnqueuerStep, EnqueueRoom, EnqueueSync, StartWriting, EnqueueWrite, EnqueuePublishLocal,
      EnqueuePublish, EReadFrontNone, EReadFrontSync, EReadFrontRead, EReturn, OkInv
<1>4. CASE DequeuerCall \/ DequeuerStep \/ UNCHANGED vars
  <2>1. UNCHANGED enqVars
    BY <1>4
    DEF DequeuerCall, DCall, DequeuerStep, DNonEmpty, DSyncLast, DSyncLocalLast, DequeueCached,
        DequeueFetch, ReadFrontFetch, DFetch, DAdvance, DReadFront, DReturn, vars
  <2> QED BY <2>1 DEF enqVars, OkInv
<1> QED BY <1>2, <1>3, <1>4 DEF Next

(* What SpscQueue sees of the two sides' calls. *)
EState == IF ePc = "idle" THEN "idle" ELSE IF eDone THEN "done" ELSE "called"
EOp == IF eOp = "front" THEN "front" ELSE "enqueue"
EOut == IF eReadsLate THEN eFirst
        ELSE IF ePc = "return" /\ eOp = "front" /\ eOk THEN eOut ELSE Garbage
DState == IF dPc = "idle" THEN "idle" ELSE IF dPc = "return" THEN "done" ELSE "called"
DOut == IF dPc = "return" /\ dOk THEN dOut ELSE Garbage

(* The state of SpscQueue, with the names the proofs use. *)
EVisible == <<EState, EOp, eN, eOk, EOut>>
DVisible == <<DState, dOp, dOk, DOut, wasEmpty>>

LEMMA AbstractVars == UNCHANGED <<first, tail, EVisible, DVisible>> => UNCHANGED Abstract!vars
BY DEF EVisible, DVisible, EState, EOp, EOut, DState, DOut, Abstract!vars, Abstract!enqVars,
         Abstract!deqVars

(* The cursors are numbers, and the sequence has what is between them. *)
LEMMA Contents ==
  ASSUME IInv
  PROVE  /\ first \in Nat /\ tail \in Nat /\ eLast \in Nat /\ eFirst \in Nat /\ eN \in Nat
         /\ first <= tail /\ Len(Elements(first, tail)) = tail - first
<1>1. /\ first \in Nat /\ tail \in Nat /\ eLast \in Nat /\ eFirst \in Nat /\ eN \in Nat
      /\ first <= tail
  BY DEF IInv, TypeOK, CursorsOrdered, tail
<1> QED BY <1>1, ElementsAre

(* The steps of enqueue and of e_read_front. *)
LEMMA EnqueuerRefines ==
  ASSUME IInv, IInv', OkInv, EnqueuerCall \/ EnqueuerStep
  PROVE  Abstract!Next \/ UNCHANGED Abstract!vars
<1>1. /\ EnqueuerControl /\ TailIsPrivateTail /\ TailIsPrivateTail' /\ CursorsOrdered
      /\ WritesFit /\ EFrontStable /\ eOk \in BOOLEAN
      /\ first \in Nat /\ tail \in Nat /\ eLast \in Nat /\ eFirst \in Nat /\ eN \in Nat
      /\ first <= tail /\ Len(Elements(first, tail)) = tail - first
  BY Contents DEF IInv, TypeOK
<1>2. first' = first /\ UNCHANGED deqVars
  BY DEF EnqueuerCall, EnqueueCall, EReadFrontCall, EnqueuerStep, EnqueueRoom, EnqueueSync,
         EnqueueWrite, EnqueuePublishLocal, EnqueuePublish, EReadFrontNone, EReadFrontSync,
         EReadFrontRead, EReturn, windows
<1>3. UNCHANGED DVisible
  BY <1>2 DEF deqVars, DVisible, DState, DOut
<1>4. UNCHANGED <<last, localLast>> => tail' = tail
  BY DEF tail
<1>5. ASSUME NEW op \in {"single", "batch"}, NEW n \in 1..MaxBatch, EnqueueCall(op, n)
      PROVE  Abstract!Next
  <2>1. tail = eLast /\ tail' = tail
    BY <1>1, <1>4, <1>5 DEF EnqueueCall, TailIsPrivateTail, Announced, windows
  <2>2. /\ EState = "idle" /\ EState' = "called" /\ EOp' = "enqueue" /\ eN' = n
        /\ eOk' = eOk /\ EOut' = EOut /\ eLast + n <= MaxItems
    BY <1>5 DEF EnqueueCall, EState, EOp, EOut, eDone, eReadsLate
  <2>3. Abstract!EnqueueCall(n)
    BY <1>2, <1>3, <2>1, <2>2
    DEF Abstract!EnqueueCall, Abstract!deqVars, EState, EOp, EOut, DVisible, DState, DOut
  <2> QED BY <2>3 DEF Abstract!Next
<1>6. CASE EReadFrontCall
  <2>1. tail' = tail
    BY <1>4, <1>6 DEF EReadFrontCall, windows
  <2>2. /\ EState = "idle" /\ EState' = "called" /\ EOp' = "front" /\ eN' = eN
        /\ eOk' = eOk /\ EOut' = EOut
    BY <1>6 DEF EReadFrontCall, EState, EOp, EOut, eDone, eReadsLate
  <2>3. Abstract!EReadFrontCall
    BY <1>2, <1>3, <2>1, <2>2
    DEF Abstract!EReadFrontCall, Abstract!deqVars, EState, EOp, EOut, DVisible, DState, DOut
  <2> QED BY <2>3 DEF Abstract!Next
<1>7. CASE EnqueueSync /\ ~HasRoom(first)
  <2>1. tail = eLast /\ tail' = tail /\ tail - first + eN > Capacity
    <3>1. tail = eLast /\ tail' = tail
      BY <1>1, <1>4, <1>7 DEF EnqueueSync, TailIsPrivateTail, Announced, windows
    <3>2. ~(eLast + eN - first <= Capacity)
      BY <1>7 DEF HasRoom
    <3> QED BY <1>1, <3>1, <3>2, BoundedSpscAssumption
  <2>2. /\ EState = "called" /\ EState' = "done" /\ EOp = "enqueue" /\ EOp' = EOp /\ eN' = eN
        /\ eOk' = FALSE /\ EOut' = EOut
    BY <1>1, <1>7 DEF EnqueueSync, EnqueuerControl, EState, EOp, EOut, eDone, eReadsLate
  <2>3. Len(Elements(first, tail)) + eN > Capacity
    BY <1>1, <2>1
  <2>4. Abstract!Reject
    BY <1>2, <1>3, <2>1, <2>2, <2>3
    DEF Abstract!Reject, Abstract!deqVars, Elements, EState, EOp, EOut, DVisible, DState, DOut
  <2> QED BY <2>4 DEF Abstract!Next
<1>8. CASE EnqueuePublishLocal \/ (EnqueuePublish /\ eOp = "batch")
  <2>1. tail = eLast /\ tail' = tail + eN /\ tail - first + eN <= Capacity
    <3>1. tail = eLast
      BY <1>1, <1>8
      DEF EnqueuePublishLocal, EnqueuePublish, EnqueuerControl, TailIsPrivateTail, Announced
    <3>2. tail' = eLast + eN
      BY <1>1, <1>8
      DEF EnqueuePublishLocal, EnqueuePublish, EnqueuerControl, TailIsPrivateTail, Announced
    <3>3. eLast + eN - first <= Capacity
      BY <1>1, <1>8 DEF EnqueuePublishLocal, EnqueuePublish, WritesFit
    <3> QED BY <1>1, <3>1, <3>2, <3>3
  <2>2. /\ EState = "called" /\ EState' = "done" /\ EOp = "enqueue" /\ EOp' = EOp /\ eN' = eN
        /\ eOk' = TRUE /\ EOut' = EOut
    BY <1>1, <1>8
    DEF EnqueuePublishLocal, EnqueuePublish, EnqueuerControl, EState, EOp, EOut, eDone, eReadsLate
  <2>3. /\ Elements(first, tail)' = Elements(first, tail) \o [i \in 1..eN |-> tail + i - 1]
        /\ Len(Elements(first, tail)) + eN <= Capacity
    <3>1. Elements(first, tail)' = Elements(first, tail + eN)
      BY <1>2, <2>1 DEF Elements
    <3>2. Elements(first, tail + eN) = Elements(first, tail) \o [i \in 1..eN |-> tail + i - 1]
      BY <1>1, ElementsAppended
    <3> QED BY <1>1, <2>1, <3>1, <3>2
  <2>4. Abstract!Enqueue
    BY <1>2, <1>3, <2>1, <2>2, <2>3
    DEF Abstract!Enqueue, Abstract!Following, Abstract!deqVars, Elements, EState, EOp, EOut,
        DVisible, DState, DOut
  <2> QED BY <2>4 DEF Abstract!Next
<1>9. CASE EReadFrontNone \/ EReadFrontSync
  <2>1. tail = eLast /\ tail' = tail
    BY <1>1, <1>4, <1>9
    DEF EReadFrontNone, EReadFrontSync, EnqueuerControl, TailIsPrivateTail, Announced, windows
  <2>2. /\ EState = "called" /\ EState' = "done" /\ EOp = "front" /\ EOp' = EOp /\ eN' = eN
        /\ EOut = Garbage
    BY <1>1, <1>9
    DEF EReadFrontNone, EReadFrontSync, EnqueuerControl, EState, EOp, EOut, eDone, eReadsLate
  <2>3. eOk' = (first < tail) /\ EOut' = IF first < tail THEN first ELSE Garbage
    <3>1. CASE EReadFrontNone
      <4>1. ~(first < tail)
        BY <1>1, <2>1, <3>1 DEF EReadFrontNone, CursorsOrdered
      <4>2. eOk' = FALSE /\ EOut' = Garbage
        BY <3>1 DEF EReadFrontNone, EOut, eReadsLate
      <4>3. (first < tail) = FALSE
        BY <4>1
      <4> QED BY <4>1, <4>2, <4>3
    <3>2. CASE EReadFrontSync
      BY <1>9, <2>1, <3>2 DEF EReadFrontSync, EOut, eReadsLate
    <3> QED BY <1>9, <3>1, <3>2
  <2>4. /\ eOk' = (Len(Elements(first, tail)) > 0)
        /\ EOut' = IF Len(Elements(first, tail)) > 0 THEN Head(Elements(first, tail)) ELSE EOut
    <3>1. (Len(Elements(first, tail)) > 0) = (first < tail)
      BY <1>1
    <3>2. first < tail => Head(Elements(first, tail)) = first
      BY <1>1, ElementsTaken
    <3> QED BY <2>2, <2>3, <3>1, <3>2
  <2>5. Abstract!EReadFront
    BY <1>2, <1>3, <2>1, <2>2, <2>4
    DEF Abstract!EReadFront, Abstract!deqVars, Elements, EState, EOp, EOut, DVisible, DState, DOut
  <2> QED BY <2>5 DEF Abstract!Next
<1>10. CASE EReturn
  <2>1. tail' = tail
    BY <1>4, <1>10 DEF EReturn, windows
  <2>2. /\ EState = "done" /\ EState' = "idle" /\ EOp' = EOp /\ eN' = eN /\ eOk' = eOk
        /\ EOut' = Garbage
    BY <1>10 DEF EReturn, EState, EOp, EOut, eDone, eReadsLate
  <2>3. Abstract!EReturn
    BY <1>2, <1>3, <2>1, <2>2
    DEF Abstract!EReturn, Abstract!deqVars, Abstract!Nothing, Garbage, EState, EOp, EOut,
        DVisible, DState, DOut
  <2> QED BY <2>3 DEF Abstract!Next
<1>11. CASE \/ EnqueueRoom \/ (EnqueueSync /\ HasRoom(first))
            \/ \E i \in ePending : EnqueueWrite(i)
  <2>1. UNCHANGED <<last, localLast, eOp, eN, eOk>>
    BY <1>11 DEF EnqueueRoom, EnqueueSync, StartWriting, EnqueueWrite, windows
  <2>2. /\ ePc \in {"check", "write"} /\ ePc' \in {"write", "publishLocal", "publish"}
        /\ ePc' = "publish" => eOp # "single"
    BY <1>11 DEF EnqueueRoom, EnqueueSync, StartWriting, EnqueueWrite
  <2>3. EState = "called" /\ EState' = "called" /\ EOp' = EOp /\ EOut = Garbage /\ EOut' = Garbage
    BY <2>1, <2>2 DEF EState, EOp, EOut, eDone, eReadsLate
  <2>4. UNCHANGED EVisible
    BY <2>1, <2>3 DEF EVisible
  <2> QED BY <1>2, <1>3, <1>4, <2>1, <2>4, AbstractVars
<1>12. CASE EnqueuePublish /\ eOp = "single"
  <2>1. tail = eLast + eN /\ tail' = eLast + eN
    BY <1>1, <1>12 DEF EnqueuePublish, TailIsPrivateTail, Announced
  <2>2. eOk /\ eOk'
    BY <1>12 DEF EnqueuePublish, OkInv
  <2>3. EState = "done" /\ EState' = "done" /\ EOp' = EOp /\ eN' = eN /\ EOut' = EOut /\ eOk' = eOk
    BY <1>1, <1>12, <2>2 DEF EnqueuePublish, EState, EOp, EOut, eDone, eReadsLate
  <2>4. UNCHANGED EVisible
    BY <2>3 DEF EVisible
  <2> QED BY <1>2, <1>3, <2>1, <2>4, AbstractVars
<1>13. CASE EReadFrontRead
  <2>1. eOk /\ eOp = "front" /\ data[Slot(eFirst)] = eFirst
    BY <1>1, <1>13 DEF EReadFrontRead, OkInv, EnqueuerControl, EFrontStable
  <2>2. EState = "done" /\ EState' = "done" /\ EOp' = EOp /\ eN' = eN /\ EOut' = EOut /\ eOk' = eOk
    BY <1>13, <2>1 DEF EReadFrontRead, EState, EOp, EOut, eDone, eReadsLate
  <2>3. UNCHANGED EVisible /\ tail' = tail
    BY <1>4, <1>13, <2>2 DEF EVisible, EReadFrontRead, windows
  <2> QED BY <1>2, <1>3, <2>3, AbstractVars
<1>14. eOp \in {"single", "batch", "front"} /\ 1 \in 1..MaxBatch
  BY BoundedSpscAssumption DEF IInv, TypeOK
<1>15. ePc = "publish" => eOp # "front"
  BY <1>1 DEF EnqueuerControl
<1>16. EnqueuePublish => eOp = "single" \/ eOp = "batch"
  BY <1>14, <1>15 DEF EnqueuePublish
<1> QED
  BY <1>5, <1>6, <1>7, <1>8, <1>9, <1>10, <1>11, <1>12, <1>13, <1>14, <1>16
  DEF EnqueuerCall, EnqueuerStep

(* The steps of dequeue and of d_read_front. *)
LEMMA DequeuerRefines ==
  ASSUME IInv, DequeuerCall \/ DequeuerStep
  PROVE  Abstract!Next \/ UNCHANGED Abstract!vars
<1>1. /\ DequeuerControl /\ CacheInv /\ EmptyInv /\ CursorsOrdered /\ dOk \in BOOLEAN
      /\ dFirst = first /\ dLast \in Nat /\ cachedSize \in Nat
      /\ first \in Nat /\ tail \in Nat
      /\ first <= tail /\ Len(Elements(first, tail)) = tail - first
  BY Contents DEF IInv, TypeOK, CursorsOrdered
<1>2. UNCHANGED <<last, localLast, enqVars>>
  BY DEF DequeuerCall, DCall, DequeuerStep, DNonEmpty, DSyncLast, DSyncLocalLast, DequeueCached,
         DequeueFetch, ReadFrontFetch, DFetch, DAdvance, DReadFront, DReturn, windows
<1>3. UNCHANGED EVisible /\ tail' = tail
  BY <1>2 DEF enqVars, EVisible, EState, EOp, EOut, eDone, eReadsLate, tail
<1>4. ASSUME NEW op \in {"dequeue", "front"}, DCall(op)
      PROVE  Abstract!Next
  <2>1. /\ DState = "idle" /\ DState' = "called" /\ dOp' = op /\ wasEmpty' = (tail <= first)
        /\ first' = first /\ dOk' = dOk /\ DOut' = DOut
    BY <1>4 DEF DCall, DState, DOut, windows
  <2>2. wasEmpty' = (Len(Elements(first, tail)) = 0)
    BY <1>1, <2>1
  <2>3. Abstract!DCall(op)
    BY <1>3, <2>1, <2>2
    DEF Abstract!DCall, Abstract!enqVars, Elements, EVisible, EState, EOp, EOut, DState, DOut
  <2> QED BY <2>3 DEF Abstract!Next
<1>5. CASE DSyncLocalLast /\ dFirst >= localLast
  <2>1. /\ DState = "called" /\ DState' = "done" /\ dOk' = FALSE /\ DOut' = DOut
        /\ UNCHANGED <<first, dOp, wasEmpty>>
    <3>1. ~(dFirst < localLast)
      BY <1>5 DEF IInv, TypeOK
    <3> QED BY <1>5, <3>1 DEF DSyncLocalLast, DState, DOut, windows
  <2>2. wasEmpty
    <3>1. ~(dFirst < localLast)
      BY <1>5 DEF IInv, TypeOK
    <3> QED BY <1>1, <1>5, <3>1 DEF DSyncLocalLast, EmptyInv
  <2>3. Abstract!DEmpty
    BY <1>3, <2>1, <2>2
    DEF Abstract!DEmpty, Abstract!enqVars, EVisible, EState, EOp, EOut, DState, DOut
  <2> QED BY <2>3 DEF Abstract!Next
<1>6. CASE DReadFront
  <2>1. /\ DState = "called" /\ DState' = "done" /\ dOk' = TRUE
        /\ DOut' = cached[cachedSize - 1] /\ dOp = "front" /\ UNCHANGED <<first, dOp, wasEmpty>>
    BY <1>6 DEF DReadFront, DState, DOut, windows
  <2>2. first < tail /\ cached[cachedSize - 1] = first
    <3>1. dFirst < dLast /\ dLast <= tail /\ cachedSize > 0 /\ CacheHolds(dFirst, {})
      BY <1>1, <1>6 DEF DReadFront, DequeuerControl, CursorsOrdered, CacheInv
    <3>2. cachedSize - 1 \in 0..cachedSize-1
      BY <1>1, <3>1
    <3>3. cached[cachedSize - 1] = dFirst + cachedSize - 1 - (cachedSize - 1)
      BY <3>1, <3>2 DEF CacheHolds
    <3> QED BY <1>1, <3>1, <3>3
  <2>3. Len(Elements(first, tail)) > 0 /\ DOut' = Head(Elements(first, tail))
    BY <1>1, <2>1, <2>2, ElementsTaken
  <2>4. Abstract!DReadFront
    BY <1>3, <2>1, <2>3
    DEF Abstract!DReadFront, Abstract!enqVars, Elements, EVisible, EState, EOp, EOut, DState, DOut
  <2> QED BY <2>4 DEF Abstract!Next
<1>7. CASE DAdvance
  <2>1. /\ DState = "called" /\ DState' = "done" /\ dOk' = TRUE /\ DOut' = dOut
        /\ UNCHANGED <<dOp, wasEmpty>>
    BY <1>7 DEF DAdvance, DState, DOut
  <2>2. dOp = "dequeue" /\ dOut = first /\ first' = first + 1 /\ first < tail
    BY <1>1, <1>7 DEF DAdvance, DequeuerControl, CursorsOrdered
  <2>3. /\ Elements(first, tail)' = Tail(Elements(first, tail))
        /\ DOut' = Head(Elements(first, tail)) /\ Len(Elements(first, tail)) > 0
    <3>1. Elements(first, tail)' = Elements(first + 1, tail)
      BY <1>3, <2>2 DEF Elements
    <3>2. Head(Elements(first, tail)) = first /\ Tail(Elements(first, tail)) = Elements(first + 1, tail)
      BY <1>1, <2>2, ElementsTaken
    <3> QED BY <1>1, <2>1, <2>2, <3>1, <3>2
  <2>4. Abstract!Dequeue
    BY <1>3, <2>1, <2>2, <2>3
    DEF Abstract!Dequeue, Abstract!enqVars, Elements, EVisible, EState, EOp, EOut, DState, DOut
  <2> QED BY <2>4 DEF Abstract!Next
<1>8. CASE DReturn
  <2>1. /\ DState = "done" /\ DState' = "idle" /\ dOk' = dOk /\ DOut' = Garbage
        /\ UNCHANGED <<first, dOp, wasEmpty>>
    BY <1>8 DEF DReturn, DState, DOut, windows
  <2>2. Abstract!DReturn
    BY <1>3, <2>1
    DEF Abstract!DReturn, Abstract!enqVars, Abstract!Nothing, Garbage, EVisible, EState, EOp, EOut,
        DState, DOut
  <2> QED BY <2>2 DEF Abstract!Next
<1>9. CASE \/ DNonEmpty \/ DSyncLast \/ (DSyncLocalLast /\ dFirst < localLast)
           \/ DequeueCached \/ DequeueFetch \/ ReadFrontFetch \/ \E o \in dPending : DFetch(o)
  <2>1. /\ UNCHANGED <<first, dOp, dOk, wasEmpty>>
        /\ dPc \in {"check", "checkLocal", "take", "fetch"}
        /\ dPc' \in {"checkLocal", "take", "fetch", "advance"}
    <3>1. ~(dFirst < localLast /\ dFirst >= localLast)
      BY DEF IInv, TypeOK
    <3> QED BY <1>9, <3>1
            DEF DNonEmpty, DSyncLast, DSyncLocalLast, DequeueCached, DequeueFetch, ReadFrontFetch,
                DFetch, windows
  <2>2. UNCHANGED DVisible
    BY <2>1 DEF DVisible, DState, DOut
  <2> QED BY <1>3, <2>1, <2>2, AbstractVars
<1>10. DSyncLocalLast => dFirst < localLast \/ dFirst >= localLast
  BY DEF DSyncLocalLast
<1> QED
  BY <1>4, <1>5, <1>6, <1>7, <1>8, <1>9, <1>10 DEF DequeuerCall, DequeuerStep

(* Implements: the class is a linearizable queue of Capacity elements, for *)
(* every capacity, read-ahead, publication period and vector size.         *)
THEOREM Linearizable == Spec => Implements
<1>1. Init => Abstract!Init /\ OkInv
  <2> SUFFICES ASSUME Init PROVE Abstract!Init /\ OkInv
    OBVIOUS
  <2>1. Elements(0, 0) = <<>>
    BY DEF Elements
  <2>2. tail = 0
    BY DEF Init, tail
  <2>3. Abstract!Init
    BY <2>1, <2>2
    DEF Init, Abstract!Init, Abstract!Nothing, Garbage, Elements, eDone, eReadsLate
  <2> QED BY <2>3 DEF Init, OkInv
<1>2. IInv /\ IInv' /\ OkInv /\ [Next]_vars => Abstract!Next \/ UNCHANGED Abstract!vars
  <2> SUFFICES ASSUME IInv, IInv', OkInv, [Next]_vars
               PROVE  Abstract!Next \/ UNCHANGED Abstract!vars
    OBVIOUS
  <2>1. CASE UNCHANGED vars
    <3>1. UNCHANGED <<first, tail, EVisible, DVisible>>
      BY <2>1
      DEF vars, windows, enqVars, deqVars, tail, EVisible, EState, EOp, EOut, eDone, eReadsLate,
          DVisible, DState, DOut
    <3> QED BY <3>1, AbstractVars
  <2>2. CASE Next
    BY <2>2, EnqueuerRefines, DequeuerRefines DEF Next
  <2> QED BY <2>1, <2>2
<1> QED BY <1>1, <1>2, OkStep, Invariance, PTL DEF Spec, Implements, Abstract!Spec

================================================================================
