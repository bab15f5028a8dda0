------------------------ MODULE HostedBoundedSpscProofs ------------------------
(***************************************************************************)
(* Proofs about HostedBoundedSpsc, for every capacity, number of ranks and *)
(* choice of the two ranks: the rings that share the window stay apart, so *)
(* the class behaves as BoundedSpsc does and inherits what is proved of    *)
(* BoundedSpsc.                                                            *)
(***************************************************************************)
EXTENDS HostedBoundedSpsc, TLAPS

(* The theorems about a ring of the enqueuer's own, for its ring in the window. *)
P == INSTANCE BoundedSpscProofs WITH
  data <- [s \in 0..Capacity-1 |-> window[start_offset(Rank) + s]]

LEMMA RingAssumption == P!BoundedSpscAssumption
BY BoundedSpscAssumption DEF BoundedSpscAssumption, P!BoundedSpscAssumption

--------------------------------------------------------------------------------
(* Rings of C slots do not overlap. *)
LEMMA Offsets ==
  ASSUME NEW C \in Nat, NEW r \in Nat, NEW t \in Nat, r < t
  PROVE  C * r + C <= C * t
<1>1. PICK d \in Nat : t = r + 1 + d
  <2>1. t - r - 1 \in Nat /\ t = r + 1 + (t - r - 1)
    OBVIOUS
  <2> QED BY <2>1
<1>2. C * t = C * r + C + C * d
  BY <1>1
<1>3. C * d \in Nat
  OBVIOUS
<1> QED BY <1>2, <1>3

LEMMA OffsetType == \A r \in 0..CommSize-1 : start_offset(r) \in Nat
<1> SUFFICES ASSUME NEW r \in 0..CommSize-1 PROVE start_offset(r) \in Nat
  OBVIOUS
<1>1. Capacity \in Nat /\ r \in Nat
  BY BoundedSpscAssumption, HostedBoundedSpscAssumption
     DEF BoundedSpscAssumption, HostedBoundedSpscAssumption
<1> QED BY <1>1 DEF start_offset

(* Two ranks never share an address of the window (start_offset). *)
LEMMA RingsDisjoint ==
  ASSUME NEW r \in 0..CommSize-1, NEW t \in 0..CommSize-1, r # t,
         NEW i \in 0..Capacity-1, NEW j \in 0..Capacity-1
  PROVE  start_offset(r) + i # start_offset(t) + j
<1>1. Capacity \in Nat /\ CommSize \in Nat /\ r \in Nat /\ t \in Nat
  BY BoundedSpscAssumption, HostedBoundedSpscAssumption
     DEF BoundedSpscAssumption, HostedBoundedSpscAssumption
<1>2. start_offset(r) \in Nat /\ start_offset(t) \in Nat
  BY OffsetType
<1>3. CASE r < t
  <2>1. start_offset(r) + Capacity <= start_offset(t)
    BY <1>1, <1>3, Offsets DEF start_offset
  <2> QED BY <2>1, <1>1, <1>2
<1>4. CASE t < r
  <2>1. start_offset(t) + Capacity <= start_offset(r)
    BY <1>1, <1>4, Offsets DEF start_offset
  <2> QED BY <2>1, <1>1, <1>2
<1> QED BY <1>1, <1>3, <1>4

(* A rank's ring lies in the window. *)
Addresses == 0..Capacity*CommSize-1

LEMMA RingInWindow ==
  ASSUME NEW r \in 0..CommSize-1, NEW i \in 0..Capacity-1
  PROVE  start_offset(r) + i \in Addresses
<1>1. Capacity \in Nat /\ CommSize \in Nat /\ r \in Nat /\ r < CommSize
  BY BoundedSpscAssumption, HostedBoundedSpscAssumption
     DEF BoundedSpscAssumption, HostedBoundedSpscAssumption
<1>2. start_offset(r) \in Nat
  BY OffsetType
<1>3. start_offset(r) + Capacity <= Capacity * CommSize
  BY <1>1, Offsets DEF start_offset
<1>4. Capacity * CommSize \in Nat
  BY <1>1
<1> QED BY <1>1, <1>2, <1>3, <1>4 DEF Addresses

--------------------------------------------------------------------------------
(* The window keeps its size. *)
WindowInv == window = [a \in Addresses |-> window[a]]

LEMMA WindowInit == Init => WindowInv
BY DEF Init, WindowInv, Addresses

LEMMA WindowStep == WindowInv /\ [Next]_vars => WindowInv'
<1> SUFFICES ASSUME WindowInv, [Next]_vars PROVE WindowInv'
  OBVIOUS
<1>1. CASE UNCHANGED window
  BY <1>1 DEF WindowInv
<1>2. CASE \E i \in ePending : EnqueueWrite(i)
  BY <1>2 DEF WindowInv, EnqueueWrite
<1>3. CASE OtherWrites
  BY <1>3 DEF WindowInv, OtherWrites
<1>4. CASE EnqueueElement
  BY <1>1, <1>2, <1>4 DEF EnqueueElement, EnqueueRest, EnqueueWrite
<1>5. CASE EnqueueVector
  BY <1>1, <1>2, <1>5 DEF EnqueueVector, EnqueueRest
<1> QED
  BY <1>1, <1>3, <1>4, <1>5 DEF Next, e_read_front, dequeue, d_read_front, vars

(* What another enqueuer puts leaves this enqueuer's ring alone. *)
LEMMA OthersStayOut ==
  ASSUME WindowInv, OtherWrites
  PROVE  \A s \in 0..Capacity-1 :
           window'[start_offset(Rank) + s] = window[start_offset(Rank) + s]
<1> SUFFICES ASSUME NEW s \in 0..Capacity-1
             PROVE  window'[start_offset(Rank) + s] = window[start_offset(Rank) + s]
  OBVIOUS
<1>1. PICK r \in Others, j \in 0..Capacity-1 :
        window' = [window EXCEPT ![start_offset(r) + j] = Foreign]
  BY DEF OtherWrites
<1>2. Rank \in 0..CommSize-1 /\ r \in 0..CommSize-1 /\ r # Rank
  BY BoundedSpscAssumption, HostedBoundedSpscAssumption
     DEF BoundedSpscAssumption, HostedBoundedSpscAssumption, Others
<1>3. start_offset(r) + j # start_offset(Rank) + s
  BY <1>2, RingsDisjoint
<1>4. start_offset(Rank) + s \in Addresses
  BY <1>2, RingInWindow
<1>5. start_offset(Rank) + s \in DOMAIN window
  BY <1>4 DEF WindowInv
<1> QED BY <1>1, <1>3, <1>5

--------------------------------------------------------------------------------
LEMMA RingInit == Init => P!Init
BY DEF Init, Ring!Init, P!Init, Ring!Garbage, P!Garbage

(* The two instances of each action are one. *)
LEMMA SameActions ==
  /\ \A op, n : Ring!EnqueueCall(op, n) => P!EnqueueCall(op, n)
  /\ Ring!EnqueueRoom => P!EnqueueRoom
  /\ Ring!EnqueueSync => P!EnqueueSync
  /\ \A i : Ring!EnqueueWrite(i) => P!EnqueueWrite(i)
  /\ Ring!EnqueuePublishLocal => P!EnqueuePublishLocal
  /\ Ring!EnqueuePublish => P!EnqueuePublish
  /\ Ring!EReturn => P!EReturn
  /\ Ring!EReadFrontCall => P!EReadFrontCall
  /\ Ring!EReadFrontNone => P!EReadFrontNone
  /\ Ring!EReadFrontSync => P!EReadFrontSync
  /\ Ring!EReadFrontRead => P!EReadFrontRead
  /\ \A op : Ring!DCall(op) => P!DCall(op)
  /\ Ring!DNonEmpty => P!DNonEmpty
  /\ Ring!DSyncLast => P!DSyncLast
  /\ Ring!DSyncLocalLast => P!DSyncLocalLast
  /\ Ring!DequeueCached => P!DequeueCached
  /\ Ring!DequeueFetch => P!DequeueFetch
  /\ Ring!ReadFrontFetch => P!ReadFrontFetch
  /\ \A o : Ring!DFetch(o) => P!DFetch(o)
  /\ Ring!DAdvance => P!DAdvance
  /\ Ring!DReadFront => P!DReadFront
  /\ Ring!DReturn => P!DReturn
<1>1. \A op, n : Ring!EnqueueCall(op, n) => P!EnqueueCall(op, n)
  BY DEF Ring!EnqueueCall, P!EnqueueCall, Ring!windows, P!windows, Ring!enqVars, P!enqVars,
           Ring!deqVars, P!deqVars
<1>2. Ring!EnqueueRoom => P!EnqueueRoom
  BY DEF Ring!EnqueueRoom, P!EnqueueRoom, Ring!HasRoom, P!HasRoom, Ring!StartWriting, P!StartWriting,
           Ring!windows, P!windows, Ring!enqVars, P!enqVars, Ring!deqVars, P!deqVars
<1>3. Ring!EnqueueSync => P!EnqueueSync
  BY DEF Ring!EnqueueSync, P!EnqueueSync, Ring!HasRoom, P!HasRoom, Ring!StartWriting, P!StartWriting,
           Ring!windows, P!windows, Ring!enqVars, P!enqVars, Ring!deqVars, P!deqVars
<1>4. \A i : Ring!EnqueueWrite(i) => P!EnqueueWrite(i)
  BY DEF Ring!EnqueueWrite, P!EnqueueWrite, Ring!Slot, P!Slot, Ring!windows, P!windows, Ring!enqVars,
           P!enqVars, Ring!deqVars, P!deqVars
<1>5. Ring!EnqueuePublishLocal => P!EnqueuePublishLocal
  BY DEF Ring!EnqueuePublishLocal, P!EnqueuePublishLocal, Ring!windows, P!windows, Ring!enqVars,
           P!enqVars, Ring!deqVars, P!deqVars
<1>6. Ring!EnqueuePublish => P!EnqueuePublish
  BY DEF Ring!EnqueuePublish, P!EnqueuePublish, Ring!windows, P!windows, Ring!enqVars, P!enqVars,
           Ring!deqVars, P!deqVars
<1>7. Ring!EReturn => P!EReturn
  BY DEF Ring!EReturn, P!EReturn, Ring!windows, P!windows, Ring!enqVars, P!enqVars, Ring!deqVars,
           P!deqVars
<1>8. Ring!EReadFrontCall => P!EReadFrontCall
  BY DEF Ring!EReadFrontCall, P!EReadFrontCall, Ring!windows, P!windows, Ring!enqVars, P!enqVars,
           Ring!deqVars, P!deqVars
<1>9. Ring!EReadFrontNone => P!EReadFrontNone
  BY DEF Ring!EReadFrontNone, P!EReadFrontNone, Ring!windows, P!windows, Ring!enqVars, P!enqVars,
           Ring!deqVars, P!deqVars
<1>10. Ring!EReadFrontSync => P!EReadFrontSync
  BY DEF Ring!EReadFrontSync, P!EReadFrontSync, Ring!windows, P!windows, Ring!enqVars, P!enqVars,
           Ring!deqVars, P!deqVars
<1>11. Ring!EReadFrontRead => P!EReadFrontRead
  BY DEF Ring!EReadFrontRead, P!EReadFrontRead, Ring!Slot, P!Slot, Ring!windows, P!windows,
           Ring!enqVars, P!enqVars, Ring!deqVars, P!deqVars
<1>12. \A op : Ring!DCall(op) => P!DCall(op)
  BY DEF Ring!DCall, P!DCall, Ring!tail, P!tail, Ring!windows, P!windows, Ring!enqVars, P!enqVars,
           Ring!deqVars, P!deqVars
<1>13. Ring!DNonEmpty => P!DNonEmpty
  BY DEF Ring!DNonEmpty, P!DNonEmpty, Ring!windows, P!windows, Ring!enqVars, P!enqVars, Ring!deqVars,
           P!deqVars
<1>14. Ring!DSyncLast => P!DSyncLast
  BY DEF Ring!DSyncLast, P!DSyncLast, Ring!windows, P!windows, Ring!enqVars, P!enqVars, Ring!deqVars,
           P!deqVars
<1>15. Ring!DSyncLocalLast => P!DSyncLocalLast
  BY DEF Ring!DSyncLocalLast, P!DSyncLocalLast, Ring!windows, P!windows, Ring!enqVars, P!enqVars,
           Ring!deqVars, P!deqVars
<1>16. Ring!DequeueCached => P!DequeueCached
  BY DEF Ring!DequeueCached, P!DequeueCached, Ring!windows, P!windows, Ring!enqVars, P!enqVars,
           Ring!deqVars, P!deqVars
<1>17. Ring!DequeueFetch => P!DequeueFetch
  BY DEF Ring!DequeueFetch, P!DequeueFetch, Ring!Min2, P!Min2, Ring!windows, P!windows, Ring!enqVars,
           P!enqVars, Ring!deqVars, P!deqVars
<1>18. Ring!ReadFrontFetch => P!ReadFrontFetch
  BY DEF Ring!ReadFrontFetch, P!ReadFrontFetch, Ring!Min2, P!Min2, Ring!windows, P!windows,
           Ring!enqVars, P!enqVars, Ring!deqVars, P!deqVars
<1>19. \A o : Ring!DFetch(o) => P!DFetch(o)
  BY DEF Ring!DFetch, P!DFetch, Ring!CachePos, P!CachePos, Ring!Slot, P!Slot, Ring!windows,
           P!windows, Ring!enqVars, P!enqVars, Ring!deqVars, P!deqVars
<1>20. Ring!DAdvance => P!DAdvance
  BY DEF Ring!DAdvance, P!DAdvance, Ring!windows, P!windows, Ring!enqVars, P!enqVars, Ring!deqVars,
           P!deqVars
<1>21. Ring!DReadFront => P!DReadFront
  BY DEF Ring!DReadFront, P!DReadFront, Ring!windows, P!windows, Ring!enqVars, P!enqVars,
           Ring!deqVars, P!deqVars
<1>22. Ring!DReturn => P!DReturn
  BY DEF Ring!DReturn, P!DReturn, Ring!windows, P!windows, Ring!enqVars, P!enqVars, Ring!deqVars,
           P!deqVars
<1> QED BY <1>1, <1>2, <1>3, <1>4, <1>5, <1>6, <1>7, <1>8, <1>9, <1>10, <1>11, <1>12, <1>13, <1>14,
      <1>15, <1>16, <1>17, <1>18, <1>19, <1>20, <1>21, <1>22

LEMMA RingStep == WindowInv /\ [Next]_vars => [P!Next]_(P!vars)
<1> SUFFICES ASSUME WindowInv, [Next]_vars PROVE P!Next \/ UNCHANGED P!vars
  OBVIOUS
<1>1. CASE EnqueueElement
  BY <1>1, SameActions
     DEF EnqueueElement, EnqueueRest, EnqueueWrite, P!Next, P!EnqueuerCall, P!EnqueuerStep
<1>2. CASE EnqueueVector
  BY <1>2, SameActions
     DEF EnqueueVector, EnqueueRest, EnqueueWrite, P!Next, P!EnqueuerCall, P!EnqueuerStep
<1>3. CASE e_read_front
  BY <1>3, SameActions DEF e_read_front, P!Next, P!EnqueuerCall, P!EnqueuerStep
<1>4. CASE dequeue
  BY <1>4, SameActions DEF dequeue, DequeuerRest, P!Next, P!DequeuerCall, P!DequeuerStep
<1>5. CASE d_read_front
  BY <1>5, SameActions DEF d_read_front, DequeuerRest, P!Next, P!DequeuerCall, P!DequeuerStep
<1>6. CASE OtherWrites
  <2>1. [s \in 0..Capacity-1 |-> window'[start_offset(Rank) + s]]
          = [s \in 0..Capacity-1 |-> window[start_offset(Rank) + s]]
    BY <1>6, OthersStayOut
  <2>2. start_offset(Rank)' = start_offset(Rank)
    BY DEF start_offset
  <2>3. UNCHANGED P!windows
    BY <1>6, <2>1 DEF OtherWrites, cells, P!windows, start_offset
  <2> QED BY <1>6, <2>3 DEF OtherWrites, enqVars, deqVars, P!vars, P!enqVars, P!deqVars
<1>7. CASE UNCHANGED vars
  BY <1>7 DEF vars, cells, enqVars, deqVars, P!vars, P!windows, P!enqVars, P!deqVars, start_offset
<1> QED BY <1>1, <1>2, <1>3, <1>4, <1>5, <1>6, <1>7 DEF Next

(***************************************************************************)
(* The hosted class implements the class with a ring per enqueuer: the     *)
(* rings that share the dequeuer's window (start_offset) do not touch each *)
(* other.                                                                  *)
(***************************************************************************)
THEOREM RingImplemented == Spec => P!Spec
<1>1. Spec => []WindowInv
  BY WindowInit, WindowStep, PTL DEF Spec
<1> QED BY <1>1, RingInit, RingStep, PTL DEF Spec, P!Spec

--------------------------------------------------------------------------------
(* What BoundedSpscProofs shows of the ring of one enqueuer holds of its ring *)
(* in the window.                                                             *)

(* Published elements keep their slots in the shared window until they are *)
(* dequeued (enqueue's room check and start_offset).                       *)
THEOREM NoOverwrite == Spec => []UnreadIntact
<1>1. P!UnreadIntact => UnreadIntact
  BY DEF UnreadIntact, Ring!UnreadIntact, P!UnreadIntact, Ring!tail, P!tail, Ring!Slot, P!Slot
<1> QED BY <1>1, RingImplemented, P!NoOverwrite, RingAssumption, PTL

(* No get in flight reads a slot that an enqueue is writing (dequeue, *)
(* d_read_front).                                                     *)
THEOREM FetchesRaceFree == Spec => []FetchIsRaceFree
<1>1. P!FetchIsRaceFree => FetchIsRaceFree
  BY DEF FetchIsRaceFree, Ring!FetchIsRaceFree, P!FetchIsRaceFree, Ring!tail, P!tail, Ring!Slot, P!Slot
<1> QED BY <1>1, RingImplemented, P!FetchesRaceFree, RingAssumption, PTL

(* The read-ahead cache holds the elements after the front. *)
THEOREM CacheCoherent == Spec => []CacheFollowsFront
<1>1. P!CacheFollowsFront => CacheFollowsFront
  BY DEF CacheFollowsFront, Ring!CacheFollowsFront, P!CacheFollowsFront, Ring!tail, P!tail,
           Ring!CachePos, P!CachePos
<1> QED BY <1>1, RingImplemented, P!CacheCoherent, RingAssumption, PTL

(* e_read_front finds its element at the dequeuer even after it was taken. *)
THEOREM FrontReadStable == Spec => []EFrontStable
<1>1. P!EFrontStable => EFrontStable
  BY DEF EFrontStable, Ring!EFrontStable, P!EFrontStable, Ring!Slot, P!Slot
<1> QED BY <1>1, RingImplemented, P!FrontReadStable, RingAssumption, PTL

(* Stale cursor copies err on the safe side. *)
THEOREM StaleSafe == Spec => []StaleCopiesAreSafe
<1>1. P!StaleCopiesAreSafe => StaleCopiesAreSafe
  BY DEF StaleCopiesAreSafe, Ring!StaleCopiesAreSafe, P!StaleCopiesAreSafe, Ring!tail, P!tail
<1> QED BY <1>1, RingImplemented, P!StaleSafe, RingAssumption, PTL

(* The class is a linearizable queue of Capacity elements, like a ring of the *)
(* enqueuer's own (SpscQueue).                                                *)
THEOREM Linearizable == Spec => Implements
<1>1. /\ P!tail = Ring!tail /\ P!eDone = Ring!eDone /\ P!eReadsLate = Ring!eReadsLate
      /\ P!Garbage = Ring!Garbage /\ (P!tail)' = (Ring!tail)'
      /\ (P!eDone)' = (Ring!eDone)' /\ (P!eReadsLate)' = (Ring!eReadsLate)'
  BY DEF P!tail, Ring!tail, P!eDone, Ring!eDone, P!eReadsLate, Ring!eReadsLate, P!Garbage, Ring!Garbage
<1>2. P!Abstract!Init => Ring!Abstract!Init
  BY <1>1 DEF P!Abstract!Init, Ring!Abstract!Init, P!Abstract!Nothing, Ring!Abstract!Nothing
<1>3. P!Abstract!vars = Ring!Abstract!vars /\ (P!Abstract!vars)' = (Ring!Abstract!vars)'
  BY <1>1 DEF P!Abstract!vars, Ring!Abstract!vars, P!Abstract!enqVars, Ring!Abstract!enqVars,
                P!Abstract!deqVars, Ring!Abstract!deqVars
<1>4. P!Abstract!Next => Ring!Abstract!Next
  BY <1>1 DEF P!Abstract!Next, Ring!Abstract!Next, P!Abstract!EnqueueCall, Ring!Abstract!EnqueueCall,
                P!Abstract!EReadFrontCall, Ring!Abstract!EReadFrontCall, P!Abstract!Enqueue, Ring!Abstract!Enqueue, P!Abstract!Following, Ring!Abstract!Following, P!Abstract!Reject, Ring!Abstract!Reject, P!Abstract!EReadFront, Ring!Abstract!EReadFront, P!Abstract!EReturn, Ring!Abstract!EReturn, P!Abstract!DCall, Ring!Abstract!DCall, P!Abstract!Dequeue, Ring!Abstract!Dequeue, P!Abstract!DReadFront, Ring!Abstract!DReadFront, P!Abstract!DEmpty, Ring!Abstract!DEmpty, P!Abstract!DReturn, Ring!Abstract!DReturn, P!Abstract!Nothing, Ring!Abstract!Nothing, P!Abstract!vars, Ring!Abstract!vars, P!Abstract!enqVars, Ring!Abstract!enqVars, P!Abstract!deqVars, Ring!Abstract!deqVars
<1>5. [P!Abstract!Next]_(P!Abstract!vars) => [Ring!Abstract!Next]_(Ring!Abstract!vars)
  BY <1>3, <1>4
<1>6. P!Abstract!Spec => Ring!Abstract!Spec
  BY <1>2, <1>5, PTL DEF P!Abstract!Spec, Ring!Abstract!Spec
<1>7. P!Implements => Implements
  BY <1>6 DEF Implements, Ring!Implements, P!Implements
<1> QED BY <1>7, RingImplemented, P!Linearizable, RingAssumption, PTL

(* The window holds integers, and every variable has its type. *)
WindowType == window \in [Addresses -> Int]

LEMMA WindowTypeStep == P!TypeOK /\ WindowType /\ [Next]_vars => WindowType'
<1> SUFFICES ASSUME P!TypeOK, WindowType, [Next]_vars PROVE WindowType'
  OBVIOUS
<1>1. CASE UNCHANGED window
  BY <1>1 DEF WindowType
<1>2. ASSUME NEW i \in ePending, EnqueueWrite(i) PROVE WindowType'
  <2>1. eLast + i \in Int
    BY <1>2 DEF P!TypeOK
  <2> QED BY <1>2, <2>1 DEF WindowType, EnqueueWrite
<1>3. CASE OtherWrites
  <2>1. PICK r \in Others, s \in 0..Capacity-1 :
          window' = [window EXCEPT ![start_offset(r) + s] = Foreign]
    BY <1>3 DEF OtherWrites
  <2>2. Foreign \in Int
    BY DEF Foreign
  <2> QED BY <2>1, <2>2 DEF WindowType
<1>4. CASE EnqueueElement
  BY <1>1, <1>2, <1>4 DEF EnqueueElement, EnqueueRest, EnqueueWrite
<1>5. CASE EnqueueVector
  BY <1>1, <1>2, <1>5 DEF EnqueueVector, EnqueueRest
<1> QED
  BY <1>1, <1>3, <1>4, <1>5 DEF Next, e_read_front, dequeue, d_read_front, vars

(* The window holds elements at its Capacity * _comm_size addresses, and every *)
(* variable of the ring its type.                                              *)
THEOREM TypeCorrect == Spec => []TypeOK
<1>1. Init => WindowType
  BY DEF Init, WindowType, Addresses, Foreign, Ring!Garbage
<1>2. Spec => []P!TypeOK
  BY RingImplemented, P!TypeCorrect, RingAssumption, PTL
<1>3. P!TypeOK /\ WindowType => TypeOK
  BY DEF P!TypeOK, WindowType, Addresses, TypeOK, Ring!TypeOK
<1> QED BY <1>1, <1>2, <1>3, WindowTypeStep, PTL DEF Spec

================================================================================
