----------------------------- MODULE AMQueueProofs -----------------------------
(***************************************************************************)
(* Proofs about class AMQueue, for every number of enqueuers and of calls  *)
(* and every capacity: up to the first of the two races (see Races) a      *)
(* dequeue drains its buffer alone and no element is lost or comes out     *)
(* twice.                                                                  *)
(***************************************************************************)
EXTENDS AMQueue, FiniteSetTheorems, TLAPS

(* The ranks that are counted as writers of a buffer, and those that have  *)
(* reserved a slot behind its end.                                         *)
Present(b) == {p \in Enqueuers : enq[p].pc \notin {"idle", "read", "register"} /\ enq[p].queue = b}
Returning(b) == {p \in Enqueuers : enq[p].pc = "giveBack" /\ enq[p].queue = b}

(* The large number is in the writer count of the buffer. *)
Closed(b) == deq.queue = b /\ deq.pc \in {"wait", "size", "resetOffset", "resetWriters"}

(* Slots reserved in the buffer: the offset without what is given back. *)
Used(b) == offset[b] - Cardinality(Returning(b))

(* An enqueue has yet to write its element. *)
Unput(p) == enq[p].pc \in {"read", "register", "withdraw", "reserve", "write"}

(* Slots with an element that dequeue will still copy. *)
Held(b) ==
  {i \in Kept(b) : \A p \in Enqueuers : enq[p].pc = "write" /\ enq[p].queue = b => enq[p].slot # i}

InBuffer(x) == \E b \in Buffers : \E i \in Held(b) : data[b][i] = x

--------------------------------------------------------------------------------
(* The types of TypeOK, raced or not. *)
EnqRecords ==
  [pc : {"idle", "read", "register", "withdraw", "reserve", "giveBack", "leaveFull", "write", "leave"},
   element : 0..MaxCalls, queue : Buffers, slot : Int]
DeqRecords ==
  [pc : {"idle", "close", "wait", "size", "resetOffset", "resetWriters", "copy"},
   queue : Buffers, size : Int, next : Nat]

TypeInv ==
  /\ calls \in 0..MaxCalls
  /\ queueNum \in Buffers /\ prevQueueNum \in Buffers
  /\ writers \in [Buffers -> Int] /\ offset \in [Buffers -> Int]
  /\ data \in [Buffers -> [0..Capacity-1 -> Elements \cup {Garbage}]]
  /\ enq \in [Enqueuers -> EnqRecords] /\ deq \in DeqRecords
  /\ accepted \subseteq Elements /\ delivered \in [Elements -> Nat] /\ raced \in BOOLEAN

(* Calls that are under way enqueue different elements, raced or not. *)
ElementInv ==
  /\ \A p \in Enqueuers : enq[p].pc # "idle" => enq[p].element \in 1..calls
  /\ \A p, q \in Enqueuers :
       enq[p].pc # "idle" /\ enq[q].pc # "idle" /\ enq[p].element = enq[q].element => p = q

(* The count is the number of writers, below zero exactly when dequeue has *)
(* closed the buffer, and ranks withdraw from closed buffers only.         *)
CountInv ==
  /\ \A b \in Buffers :
       writers[b] = Cardinality(Present(b)) - (IF Closed(b) THEN LargeNumber ELSE 0)
  /\ \A p \in Enqueuers, b \in Buffers :
       enq[p].pc = "withdraw" /\ enq[p].queue = b => Closed(b)

(* The offset oversteps the capacity only by enqueues that give it back, *)
(* and every slot is given to one enqueue.                               *)
SlotInv ==
  /\ \A b \in Buffers : Used(b) \in 0..Capacity /\ (Returning(b) # {} => Used(b) = Capacity)
  /\ \A p \in Enqueuers, b \in Buffers :
       enq[p].pc = "write" /\ enq[p].queue = b => enq[p].slot \in 0..Used(b)-1
  /\ \A p, q \in Enqueuers :
       /\ enq[p].pc = "write" /\ enq[q].pc = "write"
       /\ enq[p].queue = enq[q].queue /\ enq[p].slot = enq[q].slot
       => p = q

(* What dequeue copies is what the offset was before it was reset. *)
DequeuerInv ==
  /\ deq.size \in 0..Capacity
  /\ deq.pc # "copy" => deq.next = 0
  /\ deq.pc = "resetOffset" => deq.size = offset[deq.queue]
  /\ deq.pc = "resetWriters" \/ CopyUnderWay(deq.queue) => offset[deq.queue] = 0

(* An element is in one place: with its call, in a slot or delivered. *)
PlaceInv ==
  /\ \A x \in Elements : delivered[x] <= 1 /\ (delivered[x] > 0 => x <= calls)
  /\ \A b \in Buffers : \A i \in Held(b) : data[b][i] \in 1..calls /\ delivered[data[b][i]] = 0
  /\ \A b, c \in Buffers : \A i \in Held(b), j \in Held(c) :
       data[b][i] = data[c][j] => b = c /\ i = j
  /\ \A p \in Enqueuers :
       Unput(p) => delivered[enq[p].element] = 0 /\ ~InBuffer(enq[p].element)

(* No element is lost. *)
FoundInv ==
  /\ \A x \in accepted : delivered[x] > 0 \/ InBuffer(x)
  /\ \A p \in Enqueuers : enq[p].pc = "leave" =>
       delivered[enq[p].element] > 0 \/ InBuffer(enq[p].element)

Unraced == CountInv /\ DrainsAlone /\ SlotInv /\ DequeuerInv /\ PlaceInv /\ FoundInv

IInv == TypeInv /\ ElementInv /\ (~raced => Unraced)

--------------------------------------------------------------------------------
(* What a step that changes one member does to the size of a set. *)
LEMMA OneChanges ==
  ASSUME NEW S, NEW T, NEW p, IsFiniteSet(S), S \ {p} = T \ {p}
  PROVE  /\ Cardinality(S) \in Nat /\ Cardinality(T) \in Nat
         /\ Cardinality(T) = Cardinality(S)
              + (IF p \in T THEN 1 ELSE 0) - (IF p \in S THEN 1 ELSE 0)
<1>1. Cardinality(S) \in Nat
  BY FS_CardinalityType
<1>2. CASE p \in S <=> p \in T
  <2>1. S = T
    BY <1>2
  <2> QED BY <1>1, <1>2, <2>1
<1>3. CASE p \in S /\ p \notin T
  <2>1. T = S \ {p}
    BY <1>3
  <2>2. Cardinality(T) = Cardinality(S) - 1 /\ IsFiniteSet(T)
    BY <1>3, <2>1, FS_RemoveElement
  <2>3. Cardinality(T) \in Nat
    BY <2>2, FS_CardinalityType
  <2> QED BY <1>1, <1>3, <2>2, <2>3
<1>4. CASE p \notin S /\ p \in T
  <2>1. T = S \cup {p}
    BY <1>4
  <2>2. Cardinality(T) = Cardinality(S) + 1
    BY <1>4, <2>1, FS_AddElement
  <2> QED BY <1>1, <1>4, <2>2
<1> QED BY <1>2, <1>3, <1>4

(* The writers of a buffer, and those that give a slot back, when p moves. *)
LEMMA CountsAfter ==
  ASSUME NEW p \in Enqueuers, NEW b, \A q \in Enqueuers \ {p} : enq'[q] = enq[q]
  PROVE  /\ Cardinality(Present(b)) \in Nat /\ Cardinality(Returning(b)) \in Nat
         /\ Cardinality(Present(b)') \in Nat /\ Cardinality(Returning(b)') \in Nat
         /\ Cardinality(Present(b)') = Cardinality(Present(b))
              + (IF p \in Present(b)' THEN 1 ELSE 0) - (IF p \in Present(b) THEN 1 ELSE 0)
         /\ Cardinality(Returning(b)') = Cardinality(Returning(b))
              + (IF p \in Returning(b)' THEN 1 ELSE 0) - (IF p \in Returning(b) THEN 1 ELSE 0)
<1>1. Present(b) \subseteq Enqueuers /\ Returning(b) \subseteq Enqueuers
  BY DEF Present, Returning
<1>2. IsFiniteSet(Present(b)) /\ IsFiniteSet(Returning(b))
  BY <1>1, FS_Subset, AMQueueAssumption
<1>3. Present(b) \ {p} = Present(b)' \ {p} /\ Returning(b) \ {p} = Returning(b)' \ {p}
  BY DEF Present, Returning
<1> HIDE DEF Present, Returning
<1> QED BY <1>2, <1>3, OneChanges

(* The large number outweighs all writers. *)
LEMMA CountsAre ==
  ASSUME NEW b
  PROVE  /\ Cardinality(Present(b)) \in Nat /\ Cardinality(Returning(b)) \in Nat
         /\ Cardinality(Present(b)) < LargeNumber
         /\ Cardinality(Present(b)) = 0 => Present(b) = {}
         /\ Present(b) = {} => Cardinality(Present(b)) = 0
         /\ Returning(b) = {} => Cardinality(Returning(b)) = 0
<1>1. Present(b) \subseteq Enqueuers /\ Returning(b) \subseteq Enqueuers
  BY DEF Present, Returning
<1>2. /\ IsFiniteSet(Present(b)) /\ IsFiniteSet(Returning(b))
      /\ Cardinality(Present(b)) <= Cardinality(Enqueuers)
  BY <1>1, FS_Subset, AMQueueAssumption
<1> HIDE DEF Present, Returning
<1> QED BY <1>2, FS_CardinalityType, FS_EmptySet, AMQueueAssumption

(***************************************************************************)
(* A step that moves no element out of the place it is in keeps what the   *)
(* invariant says of places.                                               *)
(***************************************************************************)
LEMMA PlacesKept ==
  ASSUME PlaceInv, FoundInv, UNCHANGED <<delivered, calls>>,
         \A b \in Buffers : Held(b)' = Held(b) /\ \A i \in Held(b) : data'[b][i] = data[b][i],
         \A x \in accepted' : x \in accepted \/ \E p \in Enqueuers : enq[p].pc = "leave"
           /\ x = enq[p].element,
         \A p \in Enqueuers :
           /\ Unput(p)' => Unput(p) /\ enq'[p].element = enq[p].element
           /\ enq'[p].pc = "leave" => enq[p].pc = "leave" /\ enq'[p].element = enq[p].element
  PROVE  PlaceInv' /\ FoundInv'
<1>1. \A x : InBuffer(x)' <=> InBuffer(x)
  BY DEF InBuffer
<1>2. PlaceInv'
  <2>1. \A p \in Enqueuers :
          Unput(p)' => (delivered[enq[p].element] = 0 /\ ~InBuffer(enq[p].element))'
    <3> SUFFICES ASSUME NEW p \in Enqueuers, Unput(p)'
                 PROVE  /\ delivered'[enq'[p].element] = 0
                        /\ ~\E b \in Buffers : \E i \in Held(b)' : data'[b][i] = enq'[p].element
      BY DEF InBuffer
    <3>1. delivered[enq[p].element] = 0 /\ ~InBuffer(enq[p].element)
      BY DEF PlaceInv
    <3> QED BY <3>1 DEF InBuffer
  <2> QED BY <2>1 DEF PlaceInv
<1>3. FoundInv'
  BY <1>1 DEF FoundInv
<1> QED BY <1>2, <1>3

(* What a step needs of the types. *)
LEMMA TypesAre ==
  ASSUME TypeInv
  PROVE  /\ calls \in Nat /\ MaxCalls \in Nat /\ calls <= MaxCalls /\ Capacity \in Nat \ {0}
         /\ LargeNumber \in Nat \ {0}
         /\ \A b \in Buffers : offset[b] \in Int /\ writers[b] \in Int
         /\ deq.queue \in Buffers /\ deq.size \in Int /\ deq.next \in Nat
         /\ \A p \in Enqueuers : /\ enq[p].queue \in Buffers /\ enq[p].slot \in Int
                                 /\ enq[p].element \in 0..MaxCalls
<1>1. Cardinality(Enqueuers) \in Nat
  BY FS_CardinalityType, AMQueueAssumption
<1>2. LargeNumber \in Nat \ {0} /\ MaxCalls \in Nat /\ Capacity \in Nat \ {0}
  BY <1>1, AMQueueAssumption
<1> QED BY <1>2 DEF TypeInv, EnqRecords, DeqRecords

LEMMA HeldIs == \A b : Held(b) \subseteq 0..Capacity-1
BY DEF Held, Kept

LEMMA InitInv == Init => IInv
<1> SUFFICES ASSUME Init PROVE IInv
  OBVIOUS
<1> USE DEF Init, EnqIdle, DeqIdle
<1>1. LargeNumber \in Nat /\ Capacity \in Nat \ {0} /\ MaxCalls \in Nat
  BY AMQueueAssumption
<1>2. TypeInv
  <2>1. EnqIdle \in EnqRecords /\ DeqIdle \in DeqRecords
    BY <1>1 DEF EnqRecords, DeqRecords, Buffers
  <2>2. enq \in [Enqueuers -> EnqRecords] /\ deq \in DeqRecords
    BY <2>1
  <2>3. 0 \in 0..MaxCalls /\ data \in [Buffers -> [0..Capacity-1 -> Elements \cup {Garbage}]]
    BY <1>1 DEF Garbage
  <2>4. writers \in [Buffers -> Int] /\ offset \in [Buffers -> Int] /\ delivered \in [Elements -> Nat]
    OBVIOUS
  <2> QED BY <2>2, <2>3, <2>4 DEF TypeInv, Buffers
<1>3. ElementInv
  BY DEF ElementInv
<1>4. \A b \in Buffers : /\ Cardinality(Present(b)) = 0 /\ Cardinality(Returning(b)) = 0
                         /\ Returning(b) = {} /\ Held(b) = {}
  <2>1. \A b \in Buffers : Present(b) = {} /\ Returning(b) = {} /\ Held(b) = {}
    BY DEF Present, Returning, Held, Kept, Draining
  <2> QED BY <2>1, FS_EmptySet
<1>5. CountInv /\ DrainsAlone
  BY <1>4 DEF CountInv, DrainsAlone, Closed, Draining
<1>6. SlotInv /\ DequeuerInv
  BY <1>1, <1>4 DEF SlotInv, DequeuerInv, Used, CopyUnderWay, Buffers
<1>7. PlaceInv /\ FoundInv
  BY <1>4 DEF PlaceInv, FoundInv, Unput
<1> QED BY <1>2, <1>3, <1>5, <1>6, <1>7 DEF IInv, Unraced

--------------------------------------------------------------------------------
(* Every action keeps the invariant: what it says of types and elements, *)
(* and, as long as there is no race, of all the rest.                    *)
LEMMA EnqueueCallKeeps == ASSUME IInv, NEW p \in Enqueuers, EnqueueCall(p) PROVE IInv'
<1> USE DEF EnqueueCall, FetchAndAdd, EnqIdle, enqVars, deqVars
<1>1. TypeInv /\ ElementInv /\ (~raced => Unraced)
  BY DEF IInv
<1>2. /\ \A q \in Enqueuers \ {p} : enq'[q] = enq[q]
      /\ enq[p].queue \in Buffers /\ enq[p].pc = "idle"
      /\ enq'[p].pc = "register"
      /\ enq'[p].element = calls + 1
      /\ enq'[p] \in EnqRecords /\ enq' \in [Enqueuers -> EnqRecords]
  <2>1. enq[p] \in EnqRecords
    BY <1>1 DEF TypeInv
  <2>2. enq[p].queue \in Buffers /\ enq'[p] \in EnqRecords
    <3>1. calls + 1 \in 0..MaxCalls /\ 0 \in 0..MaxCalls /\ queueNum \in Buffers
            /\ enq[p].queue \in Buffers
      BY <1>1, TypesAre DEF TypeInv
    <3>2. enq'[p] = [pc |-> "register", element |-> calls + 1, queue |-> queueNum, slot |-> 0]
      BY <1>1 DEF TypeInv
    <3> QED BY <3>1, <3>2 DEF EnqRecords
  <2> QED BY <1>1, <2>1, <2>2 DEF TypeInv, EnqRecords
<1>3. TypeInv'
  BY <1>1, <1>2, TypesAre DEF TypeInv, Buffers
<1>4. ElementInv'
  BY <1>1, <1>2, TypesAre DEF ElementInv
<1>5. ASSUME ~raced' PROVE Unraced'
  <2>1. CountInv /\ DrainsAlone /\ SlotInv /\ DequeuerInv /\ PlaceInv /\ FoundInv /\ ~raced
    BY <1>1, <1>5 DEF Unraced
  <2>2. \A b \in Buffers :
          /\ Cardinality(Present(b)) \in Nat /\ Cardinality(Returning(b)) \in Nat
          /\ Cardinality(Present(b)') = Cardinality(Present(b))
          /\ Returning(b)' = Returning(b)
    <3> SUFFICES ASSUME NEW b \in Buffers
                 PROVE  /\ Cardinality(Present(b)) \in Nat /\ Cardinality(Returning(b)) \in Nat
                        /\ Cardinality(Present(b)') = Cardinality(Present(b))
                        /\ Returning(b)' = Returning(b)
      OBVIOUS
    <3>1. p \in Present(b)' <=> p \in Present(b)
      BY <1>2 DEF Present
    <3>2. Returning(b)' = Returning(b)
      BY <1>2 DEF Returning
    <3> QED BY <1>2, <3>1, <3>2, CountsAfter
  <2>3. CountInv'
    BY <1>1, <1>2, <2>1, <2>2, TypesAre DEF CountInv, Closed
  <2>4. DrainsAlone'
    BY <1>1, <1>2, <2>1, <2>2, TypesAre DEF DrainsAlone, Registered, Draining, CopyUnderWay
  <2>5. SlotInv'
    BY <1>1, <1>2, <2>1, <2>2, TypesAre DEF SlotInv, Used
  <2>6. DequeuerInv'
    BY <1>1, <1>2, <2>1, <2>2, TypesAre DEF DequeuerInv, CopyUnderWay
  <2>7. \A b \in Buffers : Held(b)' = Held(b)
    BY <1>1, <1>2, <2>1, TypesAre DEF Held, Kept, Draining
  <2>8. PlaceInv' /\ FoundInv'
    <3>1. \A x : InBuffer(x)' <=> InBuffer(x)
      BY <2>7 DEF InBuffer
    <3>2. ~InBuffer(calls + 1) /\ delivered[calls + 1] = 0
      <4>1. calls + 1 \in Elements
        BY <1>1, TypesAre DEF Elements
      <4>2. delivered[calls + 1] \in Nat
        BY <1>1, <4>1 DEF TypeInv
      <4> QED BY <1>1, <2>1, <4>1, <4>2, TypesAre DEF PlaceInv, InBuffer
    <3>3. \A q \in Enqueuers : Unput(q)' =>
            delivered[enq'[q].element] = 0
              /\ ~\E b \in Buffers : \E i \in Held(b)' : data[b][i] = enq'[q].element
      <4> SUFFICES ASSUME NEW q \in Enqueuers, Unput(q)'
                   PROVE  delivered[enq'[q].element] = 0 /\ ~InBuffer(enq'[q].element)
        BY <2>7 DEF InBuffer
      <4>1. CASE q = p
        BY <1>2, <3>2, <4>1
      <4>2. CASE q # p
        BY <1>2, <2>1, <4>2 DEF PlaceInv, Unput
      <4> QED BY <4>1, <4>2
    <3>4. \A x \in 1..calls : x \in 1..calls'
      BY <1>1, TypesAre
    <3>5. \A x \in Elements : delivered[x] > 0 => x <= calls'
      BY <1>1, <2>1, TypesAre DEF PlaceInv, Elements
    <3>6. PlaceInv'
      BY <2>1, <2>7, <3>3, <3>4, <3>5 DEF PlaceInv, InBuffer
    <3>7. \A q \in Enqueuers : enq'[q].pc = "leave" => enq[q].pc = "leave" /\ enq'[q] = enq[q]
      BY <1>2
    <3>8. FoundInv'
      BY <2>1, <2>7, <3>7 DEF FoundInv, InBuffer
    <3> QED BY <3>6, <3>8
  <2> QED BY <2>3, <2>4, <2>5, <2>6, <2>8 DEF Unraced
<1> QED BY <1>3, <1>4, <1>5 DEF IInv

LEMMA ReadQueueNumKeeps == ASSUME IInv, NEW p \in Enqueuers, ReadQueueNum(p) PROVE IInv'
<1> USE DEF ReadQueueNum, FetchAndAdd, EnqIdle, enqVars, deqVars
<1>1. TypeInv /\ ElementInv /\ (~raced => Unraced)
  BY DEF IInv
<1>2. /\ \A q \in Enqueuers \ {p} : enq'[q] = enq[q]
      /\ enq[p].queue \in Buffers /\ enq[p].pc = "read"
      /\ enq'[p].pc = "register"
      /\ enq'[p].element = enq[p].element
      /\ enq'[p] \in EnqRecords /\ enq' \in [Enqueuers -> EnqRecords]
  <2>1. enq[p] \in EnqRecords
    BY <1>1 DEF TypeInv
  <2>2. enq[p].queue \in Buffers /\ enq'[p] \in EnqRecords
    BY <1>1, <2>1, TypesAre DEF TypeInv, EnqRecords, Buffers
  <2> QED BY <1>1, <2>1, <2>2 DEF TypeInv, EnqRecords
<1>3. TypeInv'
  BY <1>1, <1>2, TypesAre DEF TypeInv, Buffers
<1>4. ElementInv'
  BY <1>1, <1>2, TypesAre DEF ElementInv
<1>5. ASSUME ~raced' PROVE Unraced'
  <2>1. CountInv /\ DrainsAlone /\ SlotInv /\ DequeuerInv /\ PlaceInv /\ FoundInv /\ ~raced
    BY <1>1, <1>5 DEF Unraced
  <2>2. \A b \in Buffers :
          /\ Cardinality(Present(b)) \in Nat /\ Cardinality(Returning(b)) \in Nat
          /\ Cardinality(Present(b)') = Cardinality(Present(b))
          /\ Returning(b)' = Returning(b)
    <3> SUFFICES ASSUME NEW b \in Buffers
                 PROVE  /\ Cardinality(Present(b)) \in Nat /\ Cardinality(Returning(b)) \in Nat
                        /\ Cardinality(Present(b)') = Cardinality(Present(b))
                        /\ Returning(b)' = Returning(b)
      OBVIOUS
    <3>1. p \in Present(b)' <=> p \in Present(b)
      BY <1>2 DEF Present
    <3>2. Returning(b)' = Returning(b)
      BY <1>2 DEF Returning
    <3> QED BY <1>2, <3>1, <3>2, CountsAfter
  <2>3. CountInv'
    BY <1>1, <1>2, <2>1, <2>2, TypesAre DEF CountInv, Closed
  <2>4. DrainsAlone'
    BY <1>1, <1>2, <2>1, <2>2, TypesAre DEF DrainsAlone, Registered, Draining, CopyUnderWay
  <2>5. SlotInv'
    BY <1>1, <1>2, <2>1, <2>2, TypesAre DEF SlotInv, Used
  <2>6. DequeuerInv'
    BY <1>1, <1>2, <2>1, <2>2, TypesAre DEF DequeuerInv, CopyUnderWay
  <2>7. \A b \in Buffers : Held(b)' = Held(b)
    BY <1>1, <1>2, <2>1, TypesAre DEF Held, Kept, Draining
  <2>8. PlaceInv' /\ FoundInv'
    <3>1. \A q \in Enqueuers :
            /\ Unput(q)' => Unput(q) /\ enq'[q].element = enq[q].element
            /\ enq'[q].pc = "leave" => enq[q].pc = "leave" /\ enq'[q].element = enq[q].element
      BY <1>2 DEF Unput
    <3> QED BY <1>2, <2>1, <2>7, <3>1, PlacesKept
  <2> QED BY <2>3, <2>4, <2>5, <2>6, <2>8 DEF Unraced
<1> QED BY <1>3, <1>4, <1>5 DEF IInv

LEMMA RegisterKeeps == ASSUME IInv, NEW p \in Enqueuers, Register(p) PROVE IInv'
<1> USE DEF Register, FetchAndAdd, EnqIdle, enqVars, deqVars
<1>1. TypeInv /\ ElementInv /\ (~raced => Unraced)
  BY DEF IInv
<1>2. /\ \A q \in Enqueuers \ {p} : enq'[q] = enq[q]
      /\ enq[p].queue \in Buffers /\ enq[p].pc = "register"
      /\ enq'[p].pc = IF writers[enq[p].queue] < 0 THEN "withdraw" ELSE "reserve"
      /\ enq'[p].element = enq[p].element /\ enq'[p].queue = enq[p].queue
      /\ enq'[p] \in EnqRecords /\ enq' \in [Enqueuers -> EnqRecords]
  <2>1. enq[p] \in EnqRecords
    BY <1>1 DEF TypeInv
  <2>2. /\ enq[p].queue \in Buffers /\ enq'[p] \in EnqRecords
        /\ enq'[p] = [enq[p] EXCEPT !.pc = IF writers[enq[p].queue] < 0 THEN "withdraw" ELSE "reserve"]
        /\ enq' = [enq EXCEPT ![p] = enq'[p]]
    <3>1. enq[p].queue \in Buffers /\ writers[enq[p].queue] \in Int
      BY <1>1, TypesAre
    <3>2. enq' = [enq EXCEPT ![p] = [enq[p] EXCEPT !.pc = IF writers[enq[p].queue] < 0 THEN "withdraw" ELSE "reserve"]]
      BY <3>1
    <3>3. enq'[p] = [enq[p] EXCEPT !.pc = IF writers[enq[p].queue] < 0 THEN "withdraw" ELSE "reserve"]
      BY <1>1, <3>2 DEF TypeInv
    <3>4. enq'[p] \in EnqRecords
      BY <2>1, <3>3 DEF EnqRecords
    <3> QED BY <3>1, <3>2, <3>3, <3>4
  <2>3. \A q \in Enqueuers \ {p} : enq'[q] = enq[q]
    BY <1>1, <2>2 DEF TypeInv
  <2>4. enq' \in [Enqueuers -> EnqRecords]
    BY <1>1, <2>2 DEF TypeInv
  <2>5. /\ enq[p].pc = "register"
        /\ enq'[p].pc = IF writers[enq[p].queue] < 0 THEN "withdraw" ELSE "reserve"
        /\ enq'[p].element = enq[p].element /\ enq'[p].queue = enq[p].queue
    BY <2>1, <2>2 DEF EnqRecords
  <2> QED BY <2>2, <2>3, <2>4, <2>5
<1>3. TypeInv'
  <2>1. raced' \in BOOLEAN
    BY <1>1 DEF TypeInv, CopyUnderWay
  <2> QED BY <1>1, <1>2, <2>1, TypesAre DEF TypeInv, Buffers
<1>4. ElementInv'
  BY <1>1, <1>2, TypesAre DEF ElementInv
<1>5. ASSUME ~raced' PROVE Unraced'
  <2>1. CountInv /\ DrainsAlone /\ SlotInv /\ DequeuerInv /\ PlaceInv /\ FoundInv /\ ~raced
    <3>1. ~raced
      BY <1>5, Zenon
    <3> QED BY <1>1, <3>1 DEF Unraced
  <2>2. \A b \in Buffers :
          /\ Cardinality(Present(b)) \in Nat /\ Cardinality(Returning(b)) \in Nat
          /\ Cardinality(Present(b)') = Cardinality(Present(b)) + (IF b = enq[p].queue THEN 1 ELSE 0)
          /\ Returning(b)' = Returning(b)
    <3> SUFFICES ASSUME NEW b \in Buffers
                 PROVE  /\ Cardinality(Present(b)) \in Nat /\ Cardinality(Returning(b)) \in Nat
                        /\ Cardinality(Present(b)') = Cardinality(Present(b)) + (IF b = enq[p].queue THEN 1 ELSE 0)
                        /\ Returning(b)' = Returning(b)
      OBVIOUS
    <3>1. (p \in Present(b)' <=> b = enq[p].queue) /\ p \notin Present(b)
      BY <1>2 DEF Present
    <3>2. Returning(b)' = Returning(b)
      BY <1>2 DEF Returning
    <3> QED BY <1>2, <3>1, <3>2, CountsAfter
  <2>2a. writers[enq[p].queue] < 0 => Closed(enq[p].queue)
    <3>1. /\ Cardinality(Present(enq[p].queue)) \in Nat
          /\ writers[enq[p].queue] = Cardinality(Present(enq[p].queue))
                                       - (IF Closed(enq[p].queue) THEN LargeNumber ELSE 0)
      BY <1>2, <2>1, <2>2 DEF CountInv
    <3> QED BY <3>1
  <2>2b. ~(writers[enq[p].queue] < 0) => ~Closed(enq[p].queue) /\ ~CopyUnderWay(enq[p].queue)
    <3>1. ASSUME Closed(enq[p].queue) PROVE writers[enq[p].queue] < 0
      <4>1. /\ Cardinality(Present(enq[p].queue)) \in Nat
            /\ Cardinality(Present(enq[p].queue)) < LargeNumber
            /\ writers[enq[p].queue] = Cardinality(Present(enq[p].queue)) - LargeNumber
        BY <1>2, <2>1, <3>1, CountsAre DEF CountInv
      <4> QED BY <1>1, <4>1, TypesAre
    <3> QED BY <1>1, <1>5, <3>1
  <2>3. CountInv'
    <3>1. \A b \in Buffers : /\ writers'[b] = writers[b] + (IF b = enq[p].queue THEN 1 ELSE 0)
                             /\ writers[b] \in Int /\ (Closed(b)' <=> Closed(b))
      BY <1>1, <1>2, TypesAre DEF TypeInv, Closed
    <3>2. \A b \in Buffers :
            writers'[b] = Cardinality(Present(b)') - (IF Closed(b)' THEN LargeNumber ELSE 0)
      BY <1>1, <2>1, <2>2, <3>1, TypesAre DEF CountInv
    <3>3. \A q \in Enqueuers : enq'[q].pc = "withdraw" =>
            /\ enq'[q].queue = enq[q].queue
            /\ enq[q].pc = "withdraw" \/ (q = p /\ writers[enq[p].queue] < 0)
      BY <1>2
    <3>4. \A q \in Enqueuers, b \in Buffers :
            enq'[q].pc = "withdraw" /\ enq'[q].queue = b => Closed(b)'
      BY <2>1, <2>2a, <3>1, <3>3 DEF CountInv
    <3> QED BY <3>2, <3>4 DEF CountInv
  <2>4. DrainsAlone'
    <3> SUFFICES ASSUME NEW q \in Enqueuers, NEW b \in Buffers, Draining(b),
                        deq.pc = "copy" => CopyUnderWay(b)
                 PROVE  ~(Registered(q)' /\ enq'[q].queue = b)
      BY <1>1 DEF DrainsAlone, Draining, CopyUnderWay
    <3>1. CASE q # p
      BY <1>2, <2>1, <3>1 DEF DrainsAlone, Registered
    <3>2. CASE q = p /\ b = enq[p].queue
      BY <1>2, <2>2b, <3>2 DEF Draining, Closed, Registered
    <3>3. CASE q = p /\ b # enq[p].queue
      BY <1>2, <3>3
    <3> QED BY <3>1, <3>2, <3>3
  <2>5. SlotInv'
    BY <1>1, <1>2, <2>1, <2>2, TypesAre DEF SlotInv, Used
  <2>6. DequeuerInv'
    BY <1>1, <1>2, <2>1, <2>2, TypesAre DEF DequeuerInv, CopyUnderWay
  <2>7. \A b \in Buffers : Held(b)' = Held(b)
    BY <1>1, <1>2, <2>1, TypesAre DEF Held, Kept, Draining
  <2>8. PlaceInv' /\ FoundInv'
    <3>1. \A q \in Enqueuers :
            /\ Unput(q)' => Unput(q) /\ enq'[q].element = enq[q].element
            /\ enq'[q].pc = "leave" => enq[q].pc = "leave" /\ enq'[q].element = enq[q].element
      BY <1>2 DEF Unput
    <3> QED BY <1>2, <2>1, <2>7, <3>1, PlacesKept
  <2> QED BY <2>3, <2>4, <2>5, <2>6, <2>8 DEF Unraced
<1> QED BY <1>3, <1>4, <1>5 DEF IInv

LEMMA WithdrawKeeps == ASSUME IInv, NEW p \in Enqueuers, Withdraw(p) PROVE IInv'
<1> USE DEF Withdraw, FetchAndAdd, EnqIdle, enqVars, deqVars
<1>1. TypeInv /\ ElementInv /\ (~raced => Unraced)
  BY DEF IInv
<1>2. /\ \A q \in Enqueuers \ {p} : enq'[q] = enq[q]
      /\ enq[p].queue \in Buffers /\ enq[p].pc = "withdraw"
      /\ enq'[p].pc = "read"
      /\ enq'[p].element = enq[p].element /\ enq'[p].queue = enq[p].queue
      /\ enq'[p] \in EnqRecords /\ enq' \in [Enqueuers -> EnqRecords]
  <2>1. enq[p] \in EnqRecords
    BY <1>1 DEF TypeInv
  <2>2. enq[p].queue \in Buffers /\ enq'[p] \in EnqRecords
    BY <1>1, <2>1, TypesAre DEF TypeInv, EnqRecords, Buffers
  <2> QED BY <1>1, <2>1, <2>2 DEF TypeInv, EnqRecords
<1>3. TypeInv'
  BY <1>1, <1>2, TypesAre DEF TypeInv, Buffers
<1>4. ElementInv'
  BY <1>1, <1>2, TypesAre DEF ElementInv
<1>5. ASSUME ~raced' PROVE Unraced'
  <2>1. CountInv /\ DrainsAlone /\ SlotInv /\ DequeuerInv /\ PlaceInv /\ FoundInv /\ ~raced
    BY <1>1, <1>5 DEF Unraced
  <2>2. \A b \in Buffers :
          /\ Cardinality(Present(b)) \in Nat /\ Cardinality(Returning(b)) \in Nat
          /\ Cardinality(Present(b)') = Cardinality(Present(b)) - (IF b = enq[p].queue THEN 1 ELSE 0)
          /\ Returning(b)' = Returning(b)
    <3> SUFFICES ASSUME NEW b \in Buffers
                 PROVE  /\ Cardinality(Present(b)) \in Nat /\ Cardinality(Returning(b)) \in Nat
                        /\ Cardinality(Present(b)') = Cardinality(Present(b)) - (IF b = enq[p].queue THEN 1 ELSE 0)
                        /\ Returning(b)' = Returning(b)
      OBVIOUS
    <3>1. p \notin Present(b)' /\ (p \in Present(b) <=> b = enq[p].queue)
      BY <1>2 DEF Present
    <3>2. Returning(b)' = Returning(b)
      BY <1>2 DEF Returning
    <3> QED BY <1>2, <3>1, <3>2, CountsAfter
  <2>3. CountInv'
    <3>1. \A b \in Buffers : /\ writers'[b] = writers[b] + (IF b = enq[p].queue THEN -1 ELSE 0)
                             /\ writers[b] \in Int /\ (Closed(b)' <=> Closed(b))
      BY <1>1, <1>2, TypesAre DEF TypeInv, Closed
    <3>2. \A b \in Buffers :
            writers'[b] = Cardinality(Present(b)') - (IF Closed(b)' THEN LargeNumber ELSE 0)
      BY <1>1, <2>1, <2>2, <3>1, TypesAre DEF CountInv
    <3>3. \A q \in Enqueuers : enq'[q].pc = "withdraw" =>
            /\ enq'[q].queue = enq[q].queue
            /\ enq[q].pc = "withdraw"
      BY <1>2
    <3>4. \A q \in Enqueuers, b \in Buffers :
            enq'[q].pc = "withdraw" /\ enq'[q].queue = b => Closed(b)'
      BY <2>1, <3>1, <3>3 DEF CountInv
    <3> QED BY <3>2, <3>4 DEF CountInv
  <2>4. DrainsAlone'
    BY <1>1, <1>2, <2>1, <2>2, TypesAre DEF DrainsAlone, Registered, Draining, CopyUnderWay
  <2>5. SlotInv'
    BY <1>1, <1>2, <2>1, <2>2, TypesAre DEF SlotInv, Used
  <2>6. DequeuerInv'
    BY <1>1, <1>2, <2>1, <2>2, TypesAre DEF DequeuerInv, CopyUnderWay
  <2>7. \A b \in Buffers : Held(b)' = Held(b)
    BY <1>1, <1>2, <2>1, TypesAre DEF Held, Kept, Draining
  <2>8. PlaceInv' /\ FoundInv'
    <3>1. \A q \in Enqueuers :
            /\ Unput(q)' => Unput(q) /\ enq'[q].element = enq[q].element
            /\ enq'[q].pc = "leave" => enq[q].pc = "leave" /\ enq'[q].element = enq[q].element
      BY <1>2 DEF Unput
    <3> QED BY <1>2, <2>1, <2>7, <3>1, PlacesKept
  <2> QED BY <2>3, <2>4, <2>5, <2>6, <2>8 DEF Unraced
<1> QED BY <1>3, <1>4, <1>5 DEF IInv

LEMMA ReserveKeeps == ASSUME IInv, NEW p \in Enqueuers, Reserve(p) PROVE IInv'
<1> USE DEF Reserve, FetchAndAdd, EnqIdle, enqVars, deqVars
<1>1. TypeInv /\ ElementInv /\ (~raced => Unraced)
  BY DEF IInv
<1>2. /\ \A q \in Enqueuers \ {p} : enq'[q] = enq[q]
      /\ enq[p].queue \in Buffers /\ enq[p].pc = "reserve"
      /\ enq'[p].pc = IF offset[enq[p].queue] >= Capacity THEN "giveBack" ELSE "write"
      /\ enq'[p].element = enq[p].element /\ enq'[p].queue = enq[p].queue
           /\ enq'[p].slot = offset[enq[p].queue]
      /\ enq'[p] \in EnqRecords /\ enq' \in [Enqueuers -> EnqRecords]
  <2>1. enq[p] \in EnqRecords
    BY <1>1 DEF TypeInv
  <2>2. enq[p].queue \in Buffers /\ enq'[p] \in EnqRecords
    BY <1>1, <2>1, TypesAre DEF TypeInv, EnqRecords, Buffers
  <2> QED BY <1>1, <2>1, <2>2 DEF TypeInv, EnqRecords
<1>3. TypeInv'
  BY <1>1, <1>2, TypesAre DEF TypeInv, Buffers
<1>4. ElementInv'
  BY <1>1, <1>2, TypesAre DEF ElementInv
<1>5. ASSUME ~raced' PROVE Unraced'
  <2>1. CountInv /\ DrainsAlone /\ SlotInv /\ DequeuerInv /\ PlaceInv /\ FoundInv /\ ~raced
    BY <1>1, <1>5 DEF Unraced
  <2>2. \A b \in Buffers :
          /\ Cardinality(Present(b)) \in Nat /\ Cardinality(Returning(b)) \in Nat
          /\ Cardinality(Present(b)') = Cardinality(Present(b))
          /\ Cardinality(Returning(b)') = Cardinality(Returning(b))
               + (IF b = enq[p].queue /\ offset[b] >= Capacity THEN 1 ELSE 0)
    <3> SUFFICES ASSUME NEW b \in Buffers
                 PROVE  /\ Cardinality(Present(b)) \in Nat /\ Cardinality(Returning(b)) \in Nat
                        /\ Cardinality(Present(b)') = Cardinality(Present(b))
                        /\ Cardinality(Returning(b)') = Cardinality(Returning(b))
                             + (IF b = enq[p].queue /\ offset[b] >= Capacity THEN 1 ELSE 0)
      OBVIOUS
    <3>1. p \in Present(b)' <=> p \in Present(b)
      BY <1>2 DEF Present
    <3>2. (p \in Returning(b)' <=> b = enq[p].queue /\ offset[b] >= Capacity) /\ p \notin Returning(b)
      BY <1>2 DEF Returning
    <3> QED BY <1>2, <3>1, <3>2, CountsAfter
  <2>2a. /\ deq.queue = enq[p].queue => deq.pc \notin {"size", "resetOffset", "resetWriters"}
         /\ ~CopyUnderWay(enq[p].queue)
    BY <1>2, <2>1 DEF DrainsAlone, Registered, Draining, CopyUnderWay
  <2>2b. /\ offset[enq[p].queue] \in Int /\ offset'[enq[p].queue] = offset[enq[p].queue] + 1
         /\ \A b \in Buffers : b # enq[p].queue => offset'[b] = offset[b]
    BY <1>1, <1>2, TypesAre DEF TypeInv
  <2>3. CountInv'
    BY <1>1, <1>2, <2>1, <2>2, TypesAre DEF CountInv, Closed
  <2>4. DrainsAlone'
    BY <1>1, <1>2, <2>1, <2>2, TypesAre DEF DrainsAlone, Registered, Draining, CopyUnderWay
  <2>5. SlotInv'
    <3>0. LET b == enq[p].queue
          IN  /\ offset' = [offset EXCEPT ![b] = offset[b] + 1] /\ offset[b] \in Int
              /\ \A c \in Buffers : c # b => offset'[c] = offset[c]
              /\ offset'[b] = offset[b] + 1
      BY <1>1, <1>2, TypesAre DEF TypeInv
    <3>1. /\ Used(enq[p].queue)' = IF offset[enq[p].queue] >= Capacity THEN Used(enq[p].queue) ELSE Used(enq[p].queue) + 1
          /\ offset[enq[p].queue] >= Capacity => Used(enq[p].queue) = Capacity
          /\ ~(offset[enq[p].queue] >= Capacity) =>
               Returning(enq[p].queue) = {} /\ Returning(enq[p].queue)' = {}
                 /\ Used(enq[p].queue) = offset[enq[p].queue]
      <4>1. Returning(enq[p].queue) = {} => Used(enq[p].queue) = offset[enq[p].queue]
        BY <1>1, <1>2, CountsAre, TypesAre DEF Used
      <4>2. ~(offset[enq[p].queue] >= Capacity) => Returning(enq[p].queue) = {}
        BY <1>1, <1>2, <2>1, <2>2, TypesAre DEF SlotInv, Used
      <4>3. ~(offset[enq[p].queue] >= Capacity) => Returning(enq[p].queue)' = Returning(enq[p].queue)
        BY <1>2 DEF Returning
      <4>4. offset[enq[p].queue] >= Capacity => Used(enq[p].queue) = Capacity
        BY <1>1, <1>2, <2>1, <4>1, TypesAre DEF SlotInv
      <4>5. Used(enq[p].queue)' = IF offset[enq[p].queue] >= Capacity THEN Used(enq[p].queue) ELSE Used(enq[p].queue) + 1
        BY <1>1, <1>2, <2>2, <3>0, TypesAre DEF Used
      <4> QED BY <4>1, <4>2, <4>3, <4>4, <4>5
    <3>2. \A c \in Buffers : c # enq[p].queue => Used(c)' = Used(c) /\ Returning(c)' = Returning(c)
      <4>1. \A c \in Buffers : c # enq[p].queue => Returning(c)' = Returning(c)
        BY <1>2 DEF Returning
      <4> QED BY <3>0, <4>1 DEF Used
    <3>3. \A b \in Buffers : Used(b)' \in 0..Capacity /\ (Returning(b)' # {} => Used(b)' = Capacity)
      BY <1>1, <1>2, <2>1, <3>1, <3>2, TypesAre DEF SlotInv
    <3>4. \A q \in Enqueuers : enq'[q].pc = "write" =>
            \/ q # p /\ enq'[q] = enq[q]
            \/ /\ q = p /\ enq'[q].slot = Used(enq[p].queue) /\ enq'[q].queue = enq[p].queue
               /\ ~(offset[enq[p].queue] >= Capacity)
      BY <1>2, <2>1, <3>1 DEF SlotInv
    <3>5. \A b \in Buffers : Used(b) \in Nat /\ (Used(b)' = Used(b) \/ Used(b)' = Used(b) + 1)
      <4>1. \A b \in Buffers : Used(b) \in Nat
        BY <1>1, <2>1, TypesAre DEF SlotInv
      <4>2. \A b \in Buffers : b = enq[p].queue \/ Used(b)' = Used(b)
        BY <3>2
      <4> QED BY <1>2, <3>1, <4>1, <4>2
    <3>7. \A q \in Enqueuers, b \in Buffers :
            enq'[q].pc = "write" /\ enq'[q].queue = b => enq'[q].slot \in 0..Used(b)'-1
      <4> SUFFICES ASSUME NEW q \in Enqueuers,
                            NEW b \in Buffers, enq'[q].pc = "write", enq'[q].queue = b
                   PROVE  enq'[q].slot \in 0..Used(b)'-1
        OBVIOUS
      <4>1. CASE q # p /\ enq'[q] = enq[q]
        <5>1. enq[q].slot \in 0..Used(b)-1
          BY <2>1, <4>1 DEF SlotInv
        <5> QED BY <3>5, <4>1, <5>1
      <4>2. CASE q = p
        BY <1>2, <3>1, <3>4, <3>5, <4>2
      <4> QED BY <3>4, <4>1, <4>2
    <3>8. \A q, r \in Enqueuers :
            /\ enq'[q].pc = "write" /\ enq'[r].pc = "write"
            /\ enq'[q].queue = enq'[r].queue /\ enq'[q].slot = enq'[r].slot
            => q = r
      BY <1>2, <2>1, <3>4, <3>5 DEF SlotInv
    <3> QED BY <3>3, <3>7, <3>8 DEF SlotInv
  <2>6. DequeuerInv'
    BY <1>1, <2>1, <2>2a, <2>2b, TypesAre DEF DequeuerInv, CopyUnderWay
  <2>7. \A b \in Buffers : Held(b)' = Held(b)
    <3>1. ASSUME NEW b \in Buffers, b # enq[p].queue PROVE Held(b)' = Held(b)
      <4>1. Kept(b)' = Kept(b)
        BY <1>1, <2>2b, <3>1 DEF Kept, Draining
      <4>2. \A q \in Enqueuers : enq'[q].queue = b => enq'[q] = enq[q]
        BY <1>2, <3>1
      <4>3. \A q \in Enqueuers : enq[q].queue = b => enq'[q] = enq[q]
        BY <1>2, <3>1
      <4> QED BY <4>1, <4>2, <4>3 DEF Held
    <3>2. ASSUME NEW b \in Buffers, b = enq[p].queue PROVE Held(b)' = Held(b)
      <4>1. Kept(b) = {i \in 0..Capacity-1 : i < offset[b]}
        BY <1>1, <2>2a, <3>2, TypesAre DEF Kept, Draining, CopyUnderWay
      <4>2. Kept(b)' = {i \in 0..Capacity-1 : i < offset[b] + 1}
        BY <1>1, <2>2a, <2>2b, <3>2, TypesAre DEF Kept, Draining, CopyUnderWay
      <4>3. CASE offset[b] >= Capacity
        <5>1. Kept(b)' = Kept(b)
          BY <1>1, <2>2b, <3>2, <4>1, <4>2, <4>3, TypesAre
        <5> QED BY <1>2, <3>2, <4>3, <5>1 DEF Held
      <4>4. CASE ~(offset[b] >= Capacity)
        <5>1. \A i : i \in Kept(b) <=> i \in Kept(b)' /\ i # offset[b]
          BY <1>1, <2>2b, <3>2, <4>1, <4>2, TypesAre
        <5>2. \A q \in Enqueuers : enq'[q].pc = "write" =>
                (q # p /\ enq[q].pc = "write" /\ enq'[q] = enq[q]) \/ q = p
          BY <1>2
        <5>3. \A q \in Enqueuers : enq[q].pc = "write" => enq'[q] = enq[q]
          BY <1>2
        <5>4. enq'[p].pc = "write" /\ enq'[p].queue = b /\ enq'[p].slot = offset[b]
          BY <1>2, <3>2, <4>4
        <5>5. ASSUME NEW i \in Held(b) PROVE i \in Held(b)'
          <6>1. i \in Kept(b)' /\ i # offset[b]
            BY <5>1 DEF Held
          <6>2. \A q \in Enqueuers : enq'[q].pc = "write" /\ enq'[q].queue = b => enq'[q].slot # i
            BY <5>2, <5>4, <6>1 DEF Held
          <6> QED BY <6>1, <6>2 DEF Held
        <5>6. ASSUME NEW i \in Held(b)' PROVE i \in Held(b)
          <6>1. i \in Kept(b)' /\ \A q \in Enqueuers : enq'[q].pc = "write" /\ enq'[q].queue = b =>
                  enq'[q].slot # i
            BY DEF Held
          <6>2. \A q \in Enqueuers : enq[q].pc = "write" /\ enq[q].queue = b => enq[q].slot # i
            BY <5>3, <6>1
          <6> QED BY <5>1, <5>4, <6>1, <6>2 DEF Held
        <5> QED BY <5>5, <5>6
      <4> QED BY <4>3, <4>4
    <3> QED BY <3>1, <3>2
  <2>8. PlaceInv' /\ FoundInv'
    <3>1. \A q \in Enqueuers :
            /\ Unput(q)' => Unput(q) /\ enq'[q].element = enq[q].element
            /\ enq'[q].pc = "leave" => enq[q].pc = "leave" /\ enq'[q].element = enq[q].element
      BY <1>2 DEF Unput
    <3> QED BY <1>2, <2>1, <2>7, <3>1, PlacesKept
  <2> QED BY <2>3, <2>4, <2>5, <2>6, <2>8 DEF Unraced
<1> QED BY <1>3, <1>4, <1>5 DEF IInv

LEMMA GiveBackKeeps == ASSUME IInv, NEW p \in Enqueuers, GiveBack(p) PROVE IInv'
<1> USE DEF GiveBack, FetchAndAdd, EnqIdle, enqVars, deqVars
<1>1. TypeInv /\ ElementInv /\ (~raced => Unraced)
  BY DEF IInv
<1>2. /\ \A q \in Enqueuers \ {p} : enq'[q] = enq[q]
      /\ enq[p].queue \in Buffers /\ enq[p].pc = "giveBack"
      /\ enq'[p].pc = "leaveFull"
      /\ enq'[p].element = enq[p].element /\ enq'[p].queue = enq[p].queue
      /\ enq'[p] \in EnqRecords /\ enq' \in [Enqueuers -> EnqRecords]
  <2>1. enq[p] \in EnqRecords
    BY <1>1 DEF TypeInv
  <2>2. enq[p].queue \in Buffers /\ enq'[p] \in EnqRecords
    BY <1>1, <2>1, TypesAre DEF TypeInv, EnqRecords, Buffers
  <2> QED BY <1>1, <2>1, <2>2 DEF TypeInv, EnqRecords
<1>3. TypeInv'
  BY <1>1, <1>2, TypesAre DEF TypeInv, Buffers
<1>4. ElementInv'
  BY <1>1, <1>2, TypesAre DEF ElementInv
<1>5. ASSUME ~raced' PROVE Unraced'
  <2>1. CountInv /\ DrainsAlone /\ SlotInv /\ DequeuerInv /\ PlaceInv /\ FoundInv /\ ~raced
    BY <1>1, <1>5 DEF Unraced
  <2>2. \A b \in Buffers :
          /\ Cardinality(Present(b)) \in Nat /\ Cardinality(Returning(b)) \in Nat
          /\ Cardinality(Present(b)') = Cardinality(Present(b))
          /\ Cardinality(Returning(b)') = Cardinality(Returning(b)) - (IF b = enq[p].queue THEN 1 ELSE 0)
    <3> SUFFICES ASSUME NEW b \in Buffers
                 PROVE  /\ Cardinality(Present(b)) \in Nat /\ Cardinality(Returning(b)) \in Nat
                        /\ Cardinality(Present(b)') = Cardinality(Present(b))
                        /\ Cardinality(Returning(b)') = Cardinality(Returning(b)) - (IF b = enq[p].queue THEN 1 ELSE 0)
      OBVIOUS
    <3>1. p \in Present(b)' <=> p \in Present(b)
      BY <1>2 DEF Present
    <3>2. p \notin Returning(b)' /\ (p \in Returning(b) <=> b = enq[p].queue)
      BY <1>2 DEF Returning
    <3> QED BY <1>2, <3>1, <3>2, CountsAfter
  <2>2a. /\ deq.queue = enq[p].queue => deq.pc \notin {"size", "resetOffset", "resetWriters"}
         /\ ~CopyUnderWay(enq[p].queue)
    BY <1>2, <2>1 DEF DrainsAlone, Registered, Draining, CopyUnderWay
  <2>2b. /\ offset[enq[p].queue] \in Int /\ offset'[enq[p].queue] = offset[enq[p].queue] - 1
         /\ \A b \in Buffers : b # enq[p].queue => offset'[b] = offset[b]
    BY <1>1, <1>2, TypesAre DEF TypeInv
  <2>2c. \A b \in Buffers : Used(b)' = Used(b) /\ (Returning(b)' # {} => Returning(b) # {})
    <3>1. \A b \in Buffers : Returning(b)' \subseteq Returning(b)
      BY <1>2 DEF Returning
    <3>2. \A b \in Buffers : offset[b] \in Int
      BY <1>1, TypesAre
    <3> QED BY <2>2, <2>2b, <3>1, <3>2 DEF Used
  <2>2d. offset[enq[p].queue] - 1 >= Capacity
    <3>1. p \in Returning(enq[p].queue) /\ p \notin Returning(enq[p].queue)'
      BY <1>2 DEF Returning
    <3>2. /\ Cardinality(Returning(enq[p].queue)') \in Nat
          /\ Cardinality(Returning(enq[p].queue)') = Cardinality(Returning(enq[p].queue)) - 1
      BY <1>2, <3>1, CountsAfter
    <3>3. Used(enq[p].queue) = Capacity
      BY <1>2, <2>1, <3>1 DEF SlotInv
    <3> QED BY <1>1, <1>2, <2>2b, <3>2, <3>3, <2>2, TypesAre DEF Used
  <2>3. CountInv'
    BY <1>1, <1>2, <2>1, <2>2, TypesAre DEF CountInv, Closed
  <2>4. DrainsAlone'
    BY <1>1, <1>2, <2>1, <2>2, TypesAre DEF DrainsAlone, Registered, Draining, CopyUnderWay
  <2>5. SlotInv'
    <3>1. \A q \in Enqueuers : enq'[q].pc = "write" => enq'[q] = enq[q]
      BY <1>2
    <3> QED BY <2>1, <2>2c, <3>1 DEF SlotInv
  <2>6. DequeuerInv'
    BY <1>1, <2>1, <2>2a, <2>2b, TypesAre DEF DequeuerInv, CopyUnderWay
  <2>7. \A b \in Buffers : Held(b)' = Held(b)
    <3>1. \A b \in Buffers, i \in 0..Capacity-1 : i < offset'[b] <=> i < offset[b]
      BY <1>1, <2>2b, <2>2d, TypesAre
    <3>2. \A b \in Buffers : Kept(b)' = Kept(b)
      BY <1>1, <3>1 DEF Kept, Draining
    <3>3. \A q \in Enqueuers : (enq'[q].pc = "write" <=> enq[q].pc = "write")
            /\ (enq[q].pc = "write" => enq'[q] = enq[q])
      BY <1>2
    <3> QED BY <3>2, <3>3 DEF Held
  <2>8. PlaceInv' /\ FoundInv'
    <3>1. \A q \in Enqueuers :
            /\ Unput(q)' => Unput(q) /\ enq'[q].element = enq[q].element
            /\ enq'[q].pc = "leave" => enq[q].pc = "leave" /\ enq'[q].element = enq[q].element
      BY <1>2 DEF Unput
    <3> QED BY <1>2, <2>1, <2>7, <3>1, PlacesKept
  <2> QED BY <2>3, <2>4, <2>5, <2>6, <2>8 DEF Unraced
<1> QED BY <1>3, <1>4, <1>5 DEF IInv

LEMMA LeaveFullKeeps == ASSUME IInv, NEW p \in Enqueuers, LeaveFull(p) PROVE IInv'
<1> USE DEF LeaveFull, FetchAndAdd, EnqIdle, enqVars, deqVars
<1>1. TypeInv /\ ElementInv /\ (~raced => Unraced)
  BY DEF IInv
<1>2. /\ \A q \in Enqueuers \ {p} : enq'[q] = enq[q]
      /\ enq[p].queue \in Buffers /\ enq[p].pc = "leaveFull"
      /\ enq'[p].pc = "idle"
      /\ enq'[p] \in EnqRecords /\ enq' \in [Enqueuers -> EnqRecords]
  <2>1. enq[p] \in EnqRecords
    BY <1>1 DEF TypeInv
  <2>2. enq[p].queue \in Buffers /\ enq'[p] \in EnqRecords
    BY <1>1, <2>1, TypesAre DEF TypeInv, EnqRecords, Buffers
  <2> QED BY <1>1, <2>1, <2>2 DEF TypeInv, EnqRecords
<1>3. TypeInv'
  BY <1>1, <1>2, TypesAre DEF TypeInv, Buffers
<1>4. ElementInv'
  BY <1>1, <1>2, TypesAre DEF ElementInv
<1>5. ASSUME ~raced' PROVE Unraced'
  <2>1. CountInv /\ DrainsAlone /\ SlotInv /\ DequeuerInv /\ PlaceInv /\ FoundInv /\ ~raced
    BY <1>1, <1>5 DEF Unraced
  <2>2. \A b \in Buffers :
          /\ Cardinality(Present(b)) \in Nat /\ Cardinality(Returning(b)) \in Nat
          /\ Cardinality(Present(b)') = Cardinality(Present(b)) - (IF b = enq[p].queue THEN 1 ELSE 0)
          /\ Returning(b)' = Returning(b)
    <3> SUFFICES ASSUME NEW b \in Buffers
                 PROVE  /\ Cardinality(Present(b)) \in Nat /\ Cardinality(Returning(b)) \in Nat
                        /\ Cardinality(Present(b)') = Cardinality(Present(b)) - (IF b = enq[p].queue THEN 1 ELSE 0)
                        /\ Returning(b)' = Returning(b)
      OBVIOUS
    <3>1. p \notin Present(b)' /\ (p \in Present(b) <=> b = enq[p].queue)
      BY <1>2 DEF Present
    <3>2. Returning(b)' = Returning(b)
      BY <1>2 DEF Returning
    <3> QED BY <1>2, <3>1, <3>2, CountsAfter
  <2>3. CountInv'
    <3>1. \A b \in Buffers : /\ writers'[b] = writers[b] + (IF b = enq[p].queue THEN -1 ELSE 0)
                             /\ writers[b] \in Int /\ (Closed(b)' <=> Closed(b))
      <4>1. \A b \in Buffers : writers[b] \in Int /\ (Closed(b)' <=> Closed(b))
        BY <1>1, TypesAre DEF Closed
      <4>2. writers' = [writers EXCEPT ![enq[p].queue] = @ + -1]
        OBVIOUS
      <4> QED BY <1>1, <4>1, <4>2 DEF TypeInv
    <3>2. \A b \in Buffers :
            writers'[b] = Cardinality(Present(b)') - (IF Closed(b)' THEN LargeNumber ELSE 0)
      BY <1>1, <2>1, <2>2, <3>1, TypesAre DEF CountInv
    <3>3. \A q \in Enqueuers : enq'[q].pc = "withdraw" =>
            /\ enq'[q].queue = enq[q].queue
            /\ enq[q].pc = "withdraw"
      BY <1>2
    <3>4. \A q \in Enqueuers, b \in Buffers :
            enq'[q].pc = "withdraw" /\ enq'[q].queue = b => Closed(b)'
      BY <2>1, <3>1, <3>3 DEF CountInv
    <3> QED BY <3>2, <3>4 DEF CountInv
  <2>4. DrainsAlone'
    BY <1>1, <1>2, <2>1, <2>2, TypesAre DEF DrainsAlone, Registered, Draining, CopyUnderWay
  <2>5. SlotInv'
    BY <1>1, <1>2, <2>1, <2>2, TypesAre DEF SlotInv, Used
  <2>6. DequeuerInv'
    BY <1>1, <1>2, <2>1, <2>2, TypesAre DEF DequeuerInv, CopyUnderWay
  <2>7. \A b \in Buffers : Held(b)' = Held(b)
    BY <1>1, <1>2, <2>1, TypesAre DEF Held, Kept, Draining
  <2>8. PlaceInv' /\ FoundInv'
    <3>1. \A q \in Enqueuers :
            /\ Unput(q)' => Unput(q) /\ enq'[q].element = enq[q].element
            /\ enq'[q].pc = "leave" => enq[q].pc = "leave" /\ enq'[q].element = enq[q].element
      BY <1>2 DEF Unput
    <3> QED BY <1>2, <2>1, <2>7, <3>1, PlacesKept
  <2> QED BY <2>3, <2>4, <2>5, <2>6, <2>8 DEF Unraced
<1> QED BY <1>3, <1>4, <1>5 DEF IInv

LEMMA WriteKeeps == ASSUME IInv, NEW p \in Enqueuers, Write(p) PROVE IInv'
<1> USE DEF Write, FetchAndAdd, EnqIdle, enqVars, deqVars
<1>1. TypeInv /\ ElementInv /\ (~raced => Unraced)
  BY DEF IInv
<1>2. /\ \A q \in Enqueuers \ {p} : enq'[q] = enq[q]
      /\ enq[p].queue \in Buffers /\ enq[p].pc = "write"
      /\ enq'[p].pc = "leave"
      /\ enq'[p].element = enq[p].element /\ enq'[p].queue = enq[p].queue
      /\ enq'[p] \in EnqRecords /\ enq' \in [Enqueuers -> EnqRecords]
  <2>1. enq[p] \in EnqRecords
    BY <1>1 DEF TypeInv
  <2>2. enq[p].queue \in Buffers /\ enq'[p] \in EnqRecords
    BY <1>1, <2>1, TypesAre DEF TypeInv, EnqRecords, Buffers
  <2> QED BY <1>1, <2>1, <2>2 DEF TypeInv, EnqRecords
<1>3. TypeInv'
  <2>1. enq[p].element \in Elements \cup {Garbage}
    BY <1>1, TypesAre DEF Elements, Garbage
  <2> QED BY <1>1, <1>2, <2>1 DEF TypeInv
<1>4. ElementInv'
  BY <1>1, <1>2, TypesAre DEF ElementInv
<1>5. ASSUME ~raced' PROVE Unraced'
  <2>1. CountInv /\ DrainsAlone /\ SlotInv /\ DequeuerInv /\ PlaceInv /\ FoundInv /\ ~raced
    BY <1>1, <1>5 DEF Unraced
  <2>2. \A b \in Buffers :
          /\ Cardinality(Present(b)) \in Nat /\ Cardinality(Returning(b)) \in Nat
          /\ Cardinality(Present(b)') = Cardinality(Present(b))
          /\ Returning(b)' = Returning(b)
    <3> SUFFICES ASSUME NEW b \in Buffers
                 PROVE  /\ Cardinality(Present(b)) \in Nat /\ Cardinality(Returning(b)) \in Nat
                        /\ Cardinality(Present(b)') = Cardinality(Present(b))
                        /\ Returning(b)' = Returning(b)
      OBVIOUS
    <3>1. p \in Present(b)' <=> p \in Present(b)
      BY <1>2 DEF Present
    <3>2. Returning(b)' = Returning(b)
      BY <1>2 DEF Returning
    <3> QED BY <1>2, <3>1, <3>2, CountsAfter
  <2>3. CountInv'
    BY <1>1, <1>2, <2>1, <2>2, TypesAre DEF CountInv, Closed
  <2>4. DrainsAlone'
    BY <1>1, <1>2, <2>1, <2>2, TypesAre DEF DrainsAlone, Registered, Draining, CopyUnderWay
  <2>5. SlotInv'
    BY <1>1, <1>2, <2>1, <2>2, TypesAre DEF SlotInv, Used
  <2>6. DequeuerInv'
    BY <1>1, <1>2, <2>1, <2>2, TypesAre DEF DequeuerInv, CopyUnderWay
  <2>7. LET b == enq[p].queue
            s == enq[p].slot
        IN  /\ s \in 0..Capacity-1 /\ s \notin Held(b) /\ Held(b)' = Held(b) \cup {s}
            /\ \A c \in Buffers : c # b => Held(c)' = Held(c)
            /\ \A c \in Buffers : \A i \in 0..Capacity-1 :
                 data'[c][i] = IF c = b /\ i = s THEN enq[p].element ELSE data[c][i]
    <3> DEFINE b == enq[p].queue
               s == enq[p].slot
    <3>1. s \in 0..Used(b)-1 /\ Used(b) \in 0..Capacity
            /\ Used(b) = offset[b] - Cardinality(Returning(b))
      BY <1>2, <2>1 DEF SlotInv, Used
    <3>2. s \in 0..Capacity-1 /\ s < offset[b]
      BY <1>1, <1>2, <2>2, <3>1, TypesAre
    <3>3. \A c \in Buffers : Kept(c)' = Kept(c)
      BY <1>1 DEF Kept, Draining
    <3>4. s \in Kept(b)
      BY <3>2 DEF Kept
    <3>5. \A q \in Enqueuers : /\ enq'[q].pc = "write" <=> enq[q].pc = "write" /\ q # p
                               /\ q # p => enq'[q] = enq[q]
      BY <1>2
    <3>6. \A q \in Enqueuers : enq[q].pc = "write" /\ enq[q].queue = b /\ q # p => enq[q].slot # s
      BY <1>2, <2>1 DEF SlotInv
    <3>7. s \notin Held(b)
      BY <1>2 DEF Held
    <3>8. Held(b)' = Held(b) \cup {s}
      BY <3>3, <3>4, <3>5, <3>6, <1>2 DEF Held
    <3>9. \A c \in Buffers : c # b => Held(c)' = Held(c)
      BY <1>2, <3>3, <3>5 DEF Held
    <3>10. \A c \in Buffers : \A i \in 0..Capacity-1 :
             data'[c][i] = IF c = b /\ i = s THEN enq[p].element ELSE data[c][i]
      BY <1>1, <1>2 DEF TypeInv
    <3> QED BY <3>2, <3>7, <3>8, <3>9, <3>10
  <2>8. PlaceInv' /\ FoundInv'
    <3> DEFINE b == enq[p].queue
               s == enq[p].slot
               x == enq[p].element
    <3>1. b \in Buffers /\ s \in Held(b)' /\ data'[b][s] = x
      BY <1>2, <2>7
    <3>2. \A c \in Buffers : \A i \in Held(c)' : (c = b /\ i = s) \/ (i \in Held(c)
            /\ data'[c][i] = data[c][i] /\ ~(c = b /\ i = s))
      BY <2>7, HeldIs
    <3>3. \A c \in Buffers : \A i \in Held(c) : i \in Held(c)' /\ data'[c][i] = data[c][i]
      BY <2>7, HeldIs
    <3>4. delivered[x] = 0 /\ ~InBuffer(x) /\ x \in 1..calls
      BY <1>1, <1>2, <2>1 DEF PlaceInv, Unput, ElementInv
    <3>6. \A c \in Buffers : \A i \in Held(c) : data[c][i] # x
      BY <3>4 DEF InBuffer
    <3>7. \A c \in Buffers : \A i \in Held(c)' : data'[c][i] \in 1..calls /\ delivered[data'[c][i]] = 0
      BY <2>1, <3>1, <3>2, <3>4 DEF PlaceInv
    <3>8. \A c, d \in Buffers : \A i \in Held(c)', j \in Held(d)' :
            data'[c][i] = data'[d][j] => c = d /\ i = j
      BY <2>1, <3>1, <3>2, <3>6 DEF PlaceInv
    <3>9. \A q \in Enqueuers : Unput(q)' =>
            /\ delivered[enq'[q].element] = 0
            /\ ~\E c \in Buffers : \E i \in Held(c)' : data'[c][i] = enq'[q].element
      <4> SUFFICES ASSUME NEW q \in Enqueuers, Unput(q)'
                   PROVE  /\ delivered[enq'[q].element] = 0
                          /\ ~\E c \in Buffers : \E i \in Held(c)' : data'[c][i] = enq'[q].element
        OBVIOUS
      <4>1. q # p /\ enq'[q] = enq[q] /\ Unput(q)
        BY <1>2 DEF Unput
      <4>2. enq[q].element # x
        BY <1>1, <1>2, <4>1 DEF ElementInv, Unput
      <4>3. delivered[enq[q].element] = 0 /\ ~InBuffer(enq[q].element)
        BY <2>1, <4>1 DEF PlaceInv
      <4> QED BY <3>1, <3>2, <4>1, <4>2, <4>3 DEF InBuffer
    <3>10. PlaceInv'
      BY <1>1, <2>1, <3>7, <3>8, <3>9 DEF PlaceInv, InBuffer
    <3>11. \A q \in Enqueuers : enq'[q].pc = "leave" =>
             (enq[q].pc = "leave" /\ enq'[q] = enq[q]) \/ enq'[q].element = x
      BY <1>2
    <3>12. \A q \in Enqueuers : enq'[q].pc = "leave" =>
             delivered[enq'[q].element] > 0 \/ \E c \in Buffers : \E i \in Held(c)' :
               data'[c][i] = enq'[q].element
      <4> SUFFICES ASSUME NEW q \in Enqueuers, enq'[q].pc = "leave"
                   PROVE  delivered[enq'[q].element] > 0 \/ \E c \in Buffers : \E i \in Held(c)' :
                            data'[c][i] = enq'[q].element
        OBVIOUS
      <4>1. CASE enq'[q].element = x
        <5>1. enq'[p].queue \in Buffers /\ data'[enq'[p].queue][s] = x
          BY <1>2, <3>1
        <5>2. \E c \in Buffers : \E i \in Held(c)' : data'[c][i] = x
          BY <3>1, <5>1
        <5> QED BY <4>1, <5>2
      <4>2. CASE enq[q].pc = "leave" /\ enq'[q] = enq[q]
        <5>1. delivered[enq[q].element] > 0 \/ \E c \in Buffers : \E i \in Held(c) :
                data[c][i] = enq[q].element
          BY <2>1, <4>2 DEF FoundInv, InBuffer
        <5> QED BY <3>3, <4>2, <5>1
      <4> QED BY <3>11, <4>1, <4>2
    <3>13. FoundInv'
      <4>1. \A y \in accepted : delivered[y] > 0 \/ \E c \in Buffers : \E i \in Held(c)' :
              data'[c][i] = y
        <5> SUFFICES ASSUME NEW y \in accepted, ~(delivered[y] > 0)
                     PROVE  \E c \in Buffers : \E i \in Held(c)' : data'[c][i] = y
          OBVIOUS
        <5>1. PICK c \in Buffers : \E i \in Held(c) : data[c][i] = y
          BY <2>1 DEF FoundInv, InBuffer
        <5> QED BY <3>3, <5>1
      <4> QED BY <3>12, <4>1 DEF FoundInv, InBuffer
    <3> QED BY <3>10, <3>13
  <2> QED BY <2>3, <2>4, <2>5, <2>6, <2>8 DEF Unraced
<1> QED BY <1>3, <1>4, <1>5 DEF IInv

LEMMA LeaveKeeps == ASSUME IInv, NEW p \in Enqueuers, Leave(p) PROVE IInv'
<1> USE DEF Leave, FetchAndAdd, EnqIdle, enqVars, deqVars
<1>1. TypeInv /\ ElementInv /\ (~raced => Unraced)
  BY DEF IInv
<1>2. /\ \A q \in Enqueuers \ {p} : enq'[q] = enq[q]
      /\ enq[p].queue \in Buffers /\ enq[p].pc = "leave"
      /\ enq'[p].pc = "idle"
      /\ enq'[p] \in EnqRecords /\ enq' \in [Enqueuers -> EnqRecords]
  <2>1. enq[p] \in EnqRecords
    BY <1>1 DEF TypeInv
  <2>2. enq[p].queue \in Buffers /\ enq'[p] \in EnqRecords
    BY <1>1, <2>1, TypesAre DEF TypeInv, EnqRecords, Buffers
  <2> QED BY <1>1, <2>1, <2>2 DEF TypeInv, EnqRecords
<1>3. TypeInv'
  <2>1. enq[p].element \in Elements
    BY <1>1, <1>2, TypesAre DEF ElementInv, Elements
  <2> QED BY <1>1, <1>2, <2>1 DEF TypeInv
<1>4. ElementInv'
  BY <1>1, <1>2, TypesAre DEF ElementInv
<1>5. ASSUME ~raced' PROVE Unraced'
  <2>1. CountInv /\ DrainsAlone /\ SlotInv /\ DequeuerInv /\ PlaceInv /\ FoundInv /\ ~raced
    BY <1>1, <1>5 DEF Unraced
  <2>2. \A b \in Buffers :
          /\ Cardinality(Present(b)) \in Nat /\ Cardinality(Returning(b)) \in Nat
          /\ Cardinality(Present(b)') = Cardinality(Present(b)) - (IF b = enq[p].queue THEN 1 ELSE 0)
          /\ Returning(b)' = Returning(b)
    <3> SUFFICES ASSUME NEW b \in Buffers
                 PROVE  /\ Cardinality(Present(b)) \in Nat /\ Cardinality(Returning(b)) \in Nat
                        /\ Cardinality(Present(b)') = Cardinality(Present(b)) - (IF b = enq[p].queue THEN 1 ELSE 0)
                        /\ Returning(b)' = Returning(b)
      OBVIOUS
    <3>1. p \notin Present(b)' /\ (p \in Present(b) <=> b = enq[p].queue)
      BY <1>2 DEF Present
    <3>2. Returning(b)' = Returning(b)
      BY <1>2 DEF Returning
    <3> QED BY <1>2, <3>1, <3>2, CountsAfter
  <2>3. CountInv'
    <3>1. \A b \in Buffers : /\ writers'[b] = writers[b] + (IF b = enq[p].queue THEN -1 ELSE 0)
                             /\ writers[b] \in Int /\ (Closed(b)' <=> Closed(b))
      BY <1>1, <1>2, TypesAre DEF TypeInv, Closed
    <3>2. \A b \in Buffers :
            writers'[b] = Cardinality(Present(b)') - (IF Closed(b)' THEN LargeNumber ELSE 0)
      BY <1>1, <2>1, <2>2, <3>1, TypesAre DEF CountInv
    <3>3. \A q \in Enqueuers : enq'[q].pc = "withdraw" =>
            /\ enq'[q].queue = enq[q].queue
            /\ enq[q].pc = "withdraw"
      BY <1>2
    <3>4. \A q \in Enqueuers, b \in Buffers :
            enq'[q].pc = "withdraw" /\ enq'[q].queue = b => Closed(b)'
      BY <2>1, <3>1, <3>3 DEF CountInv
    <3> QED BY <3>2, <3>4 DEF CountInv
  <2>4. DrainsAlone'
    BY <1>1, <1>2, <2>1, <2>2, TypesAre DEF DrainsAlone, Registered, Draining, CopyUnderWay
  <2>5. SlotInv'
    BY <1>1, <1>2, <2>1, <2>2, TypesAre DEF SlotInv, Used
  <2>6. DequeuerInv'
    BY <1>1, <1>2, <2>1, <2>2, TypesAre DEF DequeuerInv, CopyUnderWay
  <2>7. \A b \in Buffers : Held(b)' = Held(b)
    BY <1>1, <1>2, <2>1, TypesAre DEF Held, Kept, Draining
  <2>8. PlaceInv' /\ FoundInv'
    <3>1. \A q \in Enqueuers :
            /\ Unput(q)' => Unput(q) /\ enq'[q].element = enq[q].element
            /\ enq'[q].pc = "leave" => enq[q].pc = "leave" /\ enq'[q].element = enq[q].element
      BY <1>2 DEF Unput
    <3> QED BY <1>2, <2>1, <2>7, <3>1, PlacesKept
  <2> QED BY <2>3, <2>4, <2>5, <2>6, <2>8 DEF Unraced
<1> QED BY <1>3, <1>4, <1>5 DEF IInv

LEMMA DequeueCallKeeps == ASSUME IInv, DequeueCall PROVE IInv'
<1> USE DEF DequeueCall, FetchAndAdd, Goto, DeqIdle, enqVars, deqVars
<1>1. TypeInv /\ ElementInv /\ (~raced => Unraced)
  BY DEF IInv
<1>2. \A b \in Buffers : Present(b)' = Present(b) /\ Returning(b)' = Returning(b)
  BY DEF Present, Returning
<1>2a. deq' \in DeqRecords
  <2>1. prevQueueNum \in Buffers /\ 0 \in Int /\ 0 \in Nat
    BY <1>1 DEF TypeInv
  <2>2. deq' = [pc |-> "close", queue |-> prevQueueNum, size |-> 0, next |-> 0]
    OBVIOUS
  <2> QED BY <2>1, <2>2 DEF DeqRecords
<1>3. TypeInv'
  BY <1>1, <1>2a, TypesAre DEF TypeInv, Buffers
<1>4. ElementInv'
  BY <1>1 DEF ElementInv
<1>5. ASSUME ~raced' PROVE Unraced'
  <2>1. CountInv /\ DrainsAlone /\ SlotInv /\ DequeuerInv /\ PlaceInv /\ FoundInv /\ ~raced
    BY <1>1, <1>5 DEF Unraced
  <2>3. CountInv'
    BY <1>1, <1>2, <2>1, TypesAre, CountsAre DEF CountInv, Closed, TypeInv, DeqRecords
  <2>4. DrainsAlone'
    BY <1>1, <1>2, <2>1, TypesAre, CountsAre DEF DrainsAlone, Registered, Draining, CopyUnderWay,
         TypeInv, DeqRecords
  <2>5. SlotInv'
    BY <1>1, <1>2, <2>1, TypesAre, CountsAre DEF SlotInv, Used, TypeInv, DeqRecords
  <2>6. DequeuerInv'
    BY <1>1, <1>2, <2>1, TypesAre, CountsAre DEF DequeuerInv, CopyUnderWay, TypeInv, DeqRecords
  <2>7. \A b \in Buffers : Held(b)' = Held(b)
    BY <1>1, <2>1, TypesAre DEF Held, Kept, Draining, DequeuerInv, TypeInv, DeqRecords
  <2>8. PlaceInv' /\ FoundInv'
    BY <2>1, <2>7, PlacesKept DEF Unput
  <2> QED BY <2>3, <2>4, <2>5, <2>6, <2>8 DEF Unraced
<1> QED BY <1>3, <1>4, <1>5 DEF IInv

LEMMA CloseKeeps == ASSUME IInv, Close PROVE IInv'
<1> USE DEF Close, FetchAndAdd, Goto, DeqIdle, enqVars, deqVars
<1>1. TypeInv /\ ElementInv /\ (~raced => Unraced)
  BY DEF IInv
<1>2. \A b \in Buffers : Present(b)' = Present(b) /\ Returning(b)' = Returning(b)
  BY DEF Present, Returning
<1>2a. deq' \in DeqRecords
  <2>1. deq \in DeqRecords
    BY <1>1 DEF TypeInv
  <2> QED BY <1>1, <2>1, TypesAre DEF TypeInv, DeqRecords, Buffers
<1>3. TypeInv'
  BY <1>1, <1>2a, TypesAre DEF TypeInv, Buffers
<1>4. ElementInv'
  BY <1>1 DEF ElementInv
<1>5. ASSUME ~raced' PROVE Unraced'
  <2>1. CountInv /\ DrainsAlone /\ SlotInv /\ DequeuerInv /\ PlaceInv /\ FoundInv /\ ~raced
    BY <1>1, <1>5 DEF Unraced
  <2>3. CountInv'
    <3>1. /\ \A b \in Buffers : writers'[b] = writers[b] - (IF b = deq.queue THEN LargeNumber ELSE 0)
          /\ \A b \in Buffers : ~Closed(b) /\ (Closed(b)' <=> b = deq.queue) /\ writers[b] \in Int
      BY <1>1, TypesAre DEF TypeInv, Closed, DeqRecords
    <3>2. \A b \in Buffers : Cardinality(Present(b)) \in Nat /\ writers[b] = Cardinality(Present(b))
      BY <2>1, <3>1, CountsAre DEF CountInv
    <3> QED BY <1>1, <1>2, <2>1, <3>1, <3>2, TypesAre DEF CountInv
  <2>4. DrainsAlone'
    BY <1>1, <1>2, <2>1, TypesAre, CountsAre DEF DrainsAlone, Registered, Draining, CopyUnderWay,
         TypeInv, DeqRecords
  <2>5. SlotInv'
    BY <1>1, <1>2, <2>1, TypesAre, CountsAre DEF SlotInv, Used, TypeInv, DeqRecords
  <2>6. DequeuerInv'
    BY <1>1, <1>2, <2>1, TypesAre, CountsAre DEF DequeuerInv, CopyUnderWay, TypeInv, DeqRecords
  <2>7. \A b \in Buffers : Held(b)' = Held(b)
    BY <1>1, <2>1, TypesAre DEF Held, Kept, Draining, DequeuerInv, TypeInv, DeqRecords
  <2>8. PlaceInv' /\ FoundInv'
    BY <2>1, <2>7, PlacesKept DEF Unput
  <2> QED BY <2>3, <2>4, <2>5, <2>6, <2>8 DEF Unraced
<1> QED BY <1>3, <1>4, <1>5 DEF IInv

LEMMA AwaitWritersKeeps == ASSUME IInv, AwaitWriters PROVE IInv'
<1> USE DEF AwaitWriters, FetchAndAdd, Goto, DeqIdle, enqVars, deqVars
<1>1. TypeInv /\ ElementInv /\ (~raced => Unraced)
  BY DEF IInv
<1>2. \A b \in Buffers : Present(b)' = Present(b) /\ Returning(b)' = Returning(b)
  BY DEF Present, Returning
<1>2a. deq' \in DeqRecords
  <2>1. deq \in DeqRecords
    BY <1>1 DEF TypeInv
  <2> QED BY <1>1, <2>1, TypesAre DEF TypeInv, DeqRecords, Buffers
<1>3. TypeInv'
  BY <1>1, <1>2a, TypesAre DEF TypeInv, Buffers
<1>4. ElementInv'
  BY <1>1 DEF ElementInv
<1>5. ASSUME ~raced' PROVE Unraced'
  <2>1. CountInv /\ DrainsAlone /\ SlotInv /\ DequeuerInv /\ PlaceInv /\ FoundInv /\ ~raced
    BY <1>1, <1>5 DEF Unraced
  <2>3. CountInv'
    BY <1>1, <1>2, <2>1, TypesAre, CountsAre DEF CountInv, Closed, TypeInv, DeqRecords
  <2>4. DrainsAlone'
    <3>1. deq.queue \in Buffers /\ Closed(deq.queue) /\ writers[deq.queue] <= -LargeNumber
      BY <1>1, TypesAre DEF Closed
    <3>2. /\ Cardinality(Present(deq.queue)) \in Nat
          /\ writers[deq.queue] = Cardinality(Present(deq.queue)) - LargeNumber
      BY <2>1, <3>1, CountsAre DEF CountInv
    <3>3. Cardinality(Present(deq.queue)) = 0
      BY <1>1, <3>1, <3>2, TypesAre
    <3>4. Present(deq.queue) = {}
      BY <3>3, CountsAre
    <3>5. \A q \in Enqueuers : ~(Registered(q) /\ enq[q].queue = deq.queue)
      BY <3>4 DEF Present, Registered
    <3> QED BY <1>1, <3>5 DEF DrainsAlone, Draining, Registered, TypeInv, DeqRecords
  <2>5. SlotInv'
    BY <1>1, <1>2, <2>1, TypesAre, CountsAre DEF SlotInv, Used, TypeInv, DeqRecords
  <2>6. DequeuerInv'
    BY <1>1, <1>2, <2>1, TypesAre, CountsAre DEF DequeuerInv, CopyUnderWay, TypeInv, DeqRecords
  <2>7. \A b \in Buffers : Held(b)' = Held(b)
    BY <1>1, <2>1, TypesAre DEF Held, Kept, Draining, DequeuerInv, TypeInv, DeqRecords
  <2>8. PlaceInv' /\ FoundInv'
    BY <2>1, <2>7, PlacesKept DEF Unput
  <2> QED BY <2>3, <2>4, <2>5, <2>6, <2>8 DEF Unraced
<1> QED BY <1>3, <1>4, <1>5 DEF IInv

LEMMA ReadOffsetKeeps == ASSUME IInv, ReadOffset PROVE IInv'
<1> USE DEF ReadOffset, FetchAndAdd, Goto, DeqIdle, enqVars, deqVars
<1>1. TypeInv /\ ElementInv /\ (~raced => Unraced)
  BY DEF IInv
<1>2. \A b \in Buffers : Present(b)' = Present(b) /\ Returning(b)' = Returning(b)
  BY DEF Present, Returning
<1>2a. deq' \in DeqRecords
  <2>1. deq \in DeqRecords
    BY <1>1 DEF TypeInv
  <2> QED BY <1>1, <2>1, TypesAre DEF TypeInv, DeqRecords, Buffers
<1>3. TypeInv'
  BY <1>1, <1>2a, TypesAre DEF TypeInv, Buffers
<1>4. ElementInv'
  BY <1>1 DEF ElementInv
<1>5. ASSUME ~raced' PROVE Unraced'
  <2>1. CountInv /\ DrainsAlone /\ SlotInv /\ DequeuerInv /\ PlaceInv /\ FoundInv /\ ~raced
    BY <1>1, <1>5 DEF Unraced
  <2>3. CountInv'
    BY <1>1, <1>2, <2>1, TypesAre, CountsAre DEF CountInv, Closed, TypeInv, DeqRecords
  <2>4. DrainsAlone'
    BY <1>1, <1>2, <2>1, TypesAre, CountsAre DEF DrainsAlone, Registered, Draining, CopyUnderWay,
         TypeInv, DeqRecords
  <2>5. SlotInv'
    BY <1>1, <1>2, <2>1, TypesAre, CountsAre DEF SlotInv, Used, TypeInv, DeqRecords
  <2>6. DequeuerInv'
    <3>1. Returning(deq.queue) = {} /\ deq.queue \in Buffers
      BY <1>1, <2>1, TypesAre DEF Returning, DrainsAlone, Draining, Registered
    <3>2. offset[deq.queue] \in 0..Capacity
      BY <1>1, <2>1, <3>1, CountsAre, TypesAre DEF SlotInv, Used
    <3> QED BY <1>1, <2>1, <3>2 DEF DequeuerInv, CopyUnderWay, TypeInv, DeqRecords
  <2>7. \A b \in Buffers : Held(b)' = Held(b)
    BY <1>1, <2>1, TypesAre DEF Held, Kept, Draining, DequeuerInv, TypeInv, DeqRecords
  <2>8. PlaceInv' /\ FoundInv'
    BY <2>1, <2>7, PlacesKept DEF Unput
  <2> QED BY <2>3, <2>4, <2>5, <2>6, <2>8 DEF Unraced
<1> QED BY <1>3, <1>4, <1>5 DEF IInv

LEMMA ResetOffsetKeeps == ASSUME IInv, ResetOffset PROVE IInv'
<1> USE DEF ResetOffset, FetchAndAdd, Goto, DeqIdle, enqVars, deqVars
<1>1. TypeInv /\ ElementInv /\ (~raced => Unraced)
  BY DEF IInv
<1>2. \A b \in Buffers : Present(b)' = Present(b) /\ Returning(b)' = Returning(b)
  BY DEF Present, Returning
<1>2a. deq' \in DeqRecords
  <2>1. deq \in DeqRecords
    BY <1>1 DEF TypeInv
  <2> QED BY <1>1, <2>1, TypesAre DEF TypeInv, DeqRecords, Buffers
<1>3. TypeInv'
  BY <1>1, <1>2a, TypesAre DEF TypeInv, Buffers
<1>4. ElementInv'
  BY <1>1 DEF ElementInv
<1>5. ASSUME ~raced' PROVE Unraced'
  <2>1. CountInv /\ DrainsAlone /\ SlotInv /\ DequeuerInv /\ PlaceInv /\ FoundInv /\ ~raced
    BY <1>1, <1>5 DEF Unraced
  <2>3. CountInv'
    BY <1>1, <1>2, <2>1, TypesAre, CountsAre DEF CountInv, Closed, TypeInv, DeqRecords
  <2>4. DrainsAlone'
    BY <1>1, <1>2, <2>1, TypesAre, CountsAre DEF DrainsAlone, Registered, Draining, CopyUnderWay,
         TypeInv, DeqRecords
  <2>5. SlotInv'
    <3>1. Returning(deq.queue) = {} /\ deq.queue \in Buffers
      BY <1>1, <2>1, TypesAre DEF Returning, DrainsAlone, Draining, Registered
    <3>2. Used(deq.queue)' = 0 /\ \A b \in Buffers : b # deq.queue => Used(b)' = Used(b)
      <4>1. offset'[deq.queue] = 0 /\ \A b \in Buffers : b # deq.queue => offset'[b] = offset[b]
        BY <1>1, <3>1 DEF TypeInv
      <4>2. \A b \in Buffers : b # deq.queue => Used(b)' = Used(b)
        BY <1>2, <4>1 DEF Used
      <4>3. Cardinality(Returning(deq.queue)') = 0
        BY <1>2, <3>1, CountsAre
      <4> QED BY <4>1, <4>2, <4>3 DEF Used
    <3>3. \A q \in Enqueuers : ~(enq[q].pc = "write" /\ enq[q].queue = deq.queue)
      BY <1>1, <2>1, TypesAre DEF DrainsAlone, Draining, Registered
    <3>4. 0 \in 0..Capacity
      BY <1>1, TypesAre
    <3> QED BY <1>2, <2>1, <3>1, <3>2, <3>3, <3>4 DEF SlotInv
  <2>6. DequeuerInv'
    BY <1>1, <1>2, <2>1, TypesAre, CountsAre DEF DequeuerInv, CopyUnderWay, TypeInv, DeqRecords
  <2>7. \A b \in Buffers : Held(b)' = Held(b)
    BY <1>1, <2>1, TypesAre DEF Held, Kept, Draining, DequeuerInv, TypeInv, DeqRecords
  <2>8. PlaceInv' /\ FoundInv'
    BY <2>1, <2>7, PlacesKept DEF Unput
  <2> QED BY <2>3, <2>4, <2>5, <2>6, <2>8 DEF Unraced
<1> QED BY <1>3, <1>4, <1>5 DEF IInv

LEMMA ResetWritersKeeps == ASSUME IInv, ResetWriters PROVE IInv'
<1> USE DEF ResetWriters, FetchAndAdd, Goto, DeqIdle, enqVars, deqVars
<1>1. TypeInv /\ ElementInv /\ (~raced => Unraced)
  BY DEF IInv
<1>2. \A b \in Buffers : Present(b)' = Present(b) /\ Returning(b)' = Returning(b)
  BY DEF Present, Returning
<1>2a. deq' \in DeqRecords
  <2>1. deq \in DeqRecords
    BY <1>1 DEF TypeInv
  <2> QED BY <1>1, <2>1, TypesAre DEF TypeInv, DeqRecords, Buffers
<1>3. TypeInv'
  BY <1>1, <1>2a, TypesAre DEF TypeInv, Buffers
<1>4. ElementInv'
  BY <1>1 DEF ElementInv
<1>5. ASSUME ~raced' PROVE Unraced'
  <2>1. CountInv /\ DrainsAlone /\ SlotInv /\ DequeuerInv /\ PlaceInv /\ FoundInv /\ ~raced
    BY <1>1, <1>5 DEF Unraced
  <2>3. CountInv'
    <3>1. Closed(deq.queue) /\ deq.queue \in Buffers /\ writers[deq.queue] = -LargeNumber
      BY <1>1, <1>5, TypesAre DEF Closed, CountIsDirty
    <3>2. Cardinality(Present(deq.queue)) = 0
      <4>1. /\ Cardinality(Present(deq.queue)) \in Nat
            /\ writers[deq.queue] = Cardinality(Present(deq.queue)) - LargeNumber
        BY <2>1, <3>1, CountsAre DEF CountInv
      <4> QED BY <1>1, <3>1, <4>1, TypesAre
    <3>3. \A q \in Enqueuers : ~(enq[q].pc = "withdraw" /\ enq[q].queue = deq.queue)
      BY <3>2, CountsAre DEF Present
    <3>4. \A b \in Buffers : writers'[b] = IF b = deq.queue THEN 0 ELSE writers[b]
      BY <1>1 DEF TypeInv
    <3>5. \A b \in Buffers : ~Closed(b)' /\ (b # deq.queue => ~Closed(b))
      BY <1>1 DEF Closed, TypeInv, DeqRecords
    <3>6. \A b \in Buffers : Cardinality(Present(b)) \in Nat
      BY CountsAre
    <3> QED BY <1>2, <2>1, <3>2, <3>3, <3>4, <3>5, <3>6 DEF CountInv
  <2>4. DrainsAlone'
    BY <1>1, <1>2, <2>1, TypesAre, CountsAre DEF DrainsAlone, Registered, Draining, CopyUnderWay,
         TypeInv, DeqRecords
  <2>5. SlotInv'
    BY <1>1, <1>2, <2>1, TypesAre, CountsAre DEF SlotInv, Used, TypeInv, DeqRecords
  <2>6. DequeuerInv'
    BY <1>1, <1>2, <2>1, TypesAre, CountsAre DEF DequeuerInv, CopyUnderWay, TypeInv, DeqRecords
  <2>7. \A b \in Buffers : Held(b)' = Held(b)
    BY <1>1, <2>1, TypesAre DEF Held, Kept, Draining, DequeuerInv, TypeInv, DeqRecords
  <2>8. PlaceInv' /\ FoundInv'
    BY <2>1, <2>7, PlacesKept DEF Unput
  <2> QED BY <2>3, <2>4, <2>5, <2>6, <2>8 DEF Unraced
<1> QED BY <1>3, <1>4, <1>5 DEF IInv

LEMMA CopyKeeps == ASSUME IInv, Copy PROVE IInv'
<1> USE DEF Copy, FetchAndAdd, Goto, DeqIdle, enqVars, deqVars
<1>1. TypeInv /\ ElementInv /\ (~raced => Unraced)
  BY DEF IInv
<1>2. \A b \in Buffers : Present(b)' = Present(b) /\ Returning(b)' = Returning(b)
  BY DEF Present, Returning
<1>2a. deq' \in DeqRecords
  <2>1. deq \in DeqRecords /\ deq.next + 1 \in Nat
    BY <1>1, TypesAre DEF TypeInv
  <2> QED BY <2>1 DEF DeqRecords
<1>3. TypeInv'
  <2>1. ASSUME Content(deq.queue, deq.next) # Garbage PROVE Content(deq.queue, deq.next) \in Elements
    <3>1. deq.next \in 0..Capacity-1 /\ deq.queue \in Buffers /\ Content(deq.queue,
            deq.next) = data[deq.queue][deq.next]
      BY <1>1, <2>1, TypesAre DEF Content
    <3>2. data[deq.queue] \in [0..Capacity-1 -> Elements \cup {Garbage}]
      BY <1>1, <3>1 DEF TypeInv
    <3> QED BY <2>1, <3>1, <3>2
  <2>2. delivered' \in [Elements -> Nat]
    BY <1>1, <2>1 DEF TypeInv
  <2> QED BY <1>1, <1>2a, <2>2 DEF TypeInv
<1>4. ElementInv'
  BY <1>1 DEF ElementInv
<1>5. ASSUME ~raced' PROVE Unraced'
  <2>1. CountInv /\ DrainsAlone /\ SlotInv /\ DequeuerInv /\ PlaceInv /\ FoundInv /\ ~raced
    BY <1>1, <1>5 DEF Unraced
  <2>3. CountInv'
    BY <1>1, <1>2, <2>1, TypesAre, CountsAre DEF CountInv, Closed, TypeInv, DeqRecords
  <2>4. DrainsAlone'
    BY <1>1, <1>2, <2>1, TypesAre, CountsAre DEF DrainsAlone, Registered, Draining, CopyUnderWay,
         TypeInv, DeqRecords
  <2>5. SlotInv'
    BY <1>1, <1>2, <2>1, TypesAre, CountsAre DEF SlotInv, Used, TypeInv, DeqRecords
  <2>6. DequeuerInv'
    BY <1>1, <1>2, <2>1, TypesAre, CountsAre DEF DequeuerInv, CopyUnderWay, TypeInv, DeqRecords
  <2>7. LET b == deq.queue
            s == deq.next
        IN  /\ b \in Buffers /\ s \in Held(b) /\ Held(b)' = Held(b) \ {s}
            /\ \A c \in Buffers : c # b => Held(c)' = Held(c)
    <3> DEFINE b == deq.queue
               s == deq.next
    <3>1. /\ b \in Buffers /\ s \in Nat /\ s < deq.size /\ deq.size \in 0..Capacity /\ offset[b] = 0
          /\ deq.pc = "copy" /\ deq'.pc = "copy" /\ deq'.queue = b /\ deq'.size = deq.size
               /\ deq'.next = s + 1
      BY <1>1, <2>1, TypesAre DEF DequeuerInv, CopyUnderWay, TypeInv, DeqRecords
    <3>2. \A q \in Enqueuers : ~(enq[q].pc = "write" /\ enq[q].queue = b)
      BY <2>1, <3>1 DEF DrainsAlone, Draining, CopyUnderWay, Registered
    <3>3. \A c \in Buffers : c # b => Held(c)' = Held(c)
      BY <3>1 DEF Held, Kept, Draining
    <3>4. Held(b) = {i \in 0..Capacity-1 : s <= i /\ i < deq.size}
      BY <1>1, <3>1, <3>2, TypesAre DEF Held, Kept, Draining
    <3>5. Held(b)' = {i \in 0..Capacity-1 : s + 1 <= i /\ i < deq.size}
      BY <1>1, <3>1, <3>2, TypesAre DEF Held, Kept, Draining
    <3> QED BY <1>1, <3>1, <3>3, <3>4, <3>5, TypesAre
  <2>8. PlaceInv' /\ FoundInv'
    <3> DEFINE b == deq.queue
               s == deq.next
               x == data[b][s]
    <3>1. s \in 0..Capacity-1 /\ b \in Buffers /\ s \in Held(b)
      BY <2>7, HeldIs
    <3>2. x \in 1..calls /\ delivered[x] = 0 /\ x \in Elements /\ x # Garbage
      <4>1. x \in 1..calls /\ delivered[x] = 0
        BY <2>1, <3>1 DEF PlaceInv
      <4> QED BY <1>1, <4>1, TypesAre DEF Elements, Garbage
    <3>3. Content(b, s) = x
      BY <1>1, <3>1, TypesAre DEF Content
    <3>4. delivered' = [delivered EXCEPT ![x] = @ + 1]
      BY <3>2, <3>3
    <3>5. delivered'[x] = 1 /\ \A y \in Elements : y # x => delivered'[y] = delivered[y]
      BY <1>1, <3>2, <3>4 DEF TypeInv
    <3>6. \A c \in Buffers : \A i \in Held(c)' : i \in Held(c) /\ ~(c = b /\ i = s)
      BY <2>7
    <3>7. \A c \in Buffers : \A i \in Held(c) : (c = b /\ i = s) \/ i \in Held(c)'
      BY <2>7
    <3>8. \A c \in Buffers : \A i \in Held(c)' : data[c][i] \in 1..calls /\ data[c][i] # x
            /\ delivered[data[c][i]] = 0
      BY <2>1, <3>1, <3>6 DEF PlaceInv
    <3>9. \A y \in 1..calls : y \in Elements
      BY <1>1, TypesAre DEF Elements
    <3>10. \A c \in Buffers : \A i \in Held(c)' : data[c][i] \in 1..calls /\ delivered'[data[c][i]] = 0
      BY <3>5, <3>8, <3>9
    <3>11. \A y \in Elements : delivered'[y] <= 1 /\ (delivered'[y] > 0 => y <= calls)
      BY <1>1, <2>1, <3>2, <3>5, TypesAre DEF PlaceInv
    <3>12. \A q \in Enqueuers : Unput(q) =>
             delivered'[enq[q].element] = 0
               /\ ~\E c \in Buffers : \E i \in Held(c)' : data[c][i] = enq[q].element
      <4> SUFFICES ASSUME NEW q \in Enqueuers, Unput(q)
                   PROVE  /\ delivered'[enq[q].element] = 0
                          /\ ~\E c \in Buffers : \E i \in Held(c)' : data[c][i] = enq[q].element
        OBVIOUS
      <4>1. delivered[enq[q].element] = 0 /\ ~InBuffer(enq[q].element) /\ enq[q].element \in 1..calls
        BY <1>1, <2>1 DEF PlaceInv, ElementInv, Unput
      <4>2. enq[q].element # x
        BY <3>1, <4>1 DEF InBuffer
      <4> QED BY <3>5, <3>6, <3>9, <4>1, <4>2 DEF InBuffer
    <3>13. PlaceInv'
      BY <2>1, <3>6, <3>10, <3>11, <3>12 DEF PlaceInv, InBuffer, Unput
    <3>14. \A y \in Elements : delivered[y] > 0 \/ InBuffer(y) =>
             delivered'[y] > 0 \/ \E c \in Buffers : \E i \in Held(c)' : data[c][i] = y
      <4> SUFFICES ASSUME NEW y \in Elements, delivered[y] > 0 \/ InBuffer(y), y # x
                   PROVE  delivered'[y] > 0 \/ \E c \in Buffers : \E i \in Held(c)' : data[c][i] = y
        BY <3>5
      <4> QED BY <3>5, <3>7 DEF InBuffer
    <3>15. \A y \in accepted : y \in Elements
      BY <1>1 DEF TypeInv
    <3>16. \A q \in Enqueuers : enq[q].pc = "leave" => enq[q].element \in Elements
      BY <1>1, <3>9 DEF ElementInv
    <3>17. FoundInv'
      BY <2>1, <3>14, <3>15, <3>16 DEF FoundInv, InBuffer
    <3> QED BY <3>13, <3>17
  <2> QED BY <2>3, <2>4, <2>5, <2>6, <2>8 DEF Unraced
<1> QED BY <1>3, <1>4, <1>5 DEF IInv

LEMMA DReturnKeeps == ASSUME IInv, DReturn PROVE IInv'
<1> USE DEF DReturn, FetchAndAdd, Goto, DeqIdle, enqVars, deqVars
<1>1. TypeInv /\ ElementInv /\ (~raced => Unraced)
  BY DEF IInv
<1>2. \A b \in Buffers : Present(b)' = Present(b) /\ Returning(b)' = Returning(b)
  BY DEF Present, Returning
<1>2a. deq' \in DeqRecords
  <2>1. deq \in DeqRecords
    BY <1>1 DEF TypeInv
  <2> QED BY <1>1, <2>1, TypesAre DEF TypeInv, DeqRecords, Buffers
<1>3. TypeInv'
  BY <1>1, <1>2a, TypesAre DEF TypeInv, Buffers
<1>4. ElementInv'
  BY <1>1 DEF ElementInv
<1>5. ASSUME ~raced' PROVE Unraced'
  <2>1. CountInv /\ DrainsAlone /\ SlotInv /\ DequeuerInv /\ PlaceInv /\ FoundInv /\ ~raced
    BY <1>1, <1>5 DEF Unraced
  <2>3. CountInv'
    BY <1>1, <1>2, <2>1, TypesAre, CountsAre DEF CountInv, Closed, TypeInv, DeqRecords
  <2>4. DrainsAlone'
    BY <1>1, <1>2, <2>1, TypesAre, CountsAre DEF DrainsAlone, Registered, Draining, CopyUnderWay,
         TypeInv, DeqRecords
  <2>5. SlotInv'
    BY <1>1, <1>2, <2>1, TypesAre, CountsAre DEF SlotInv, Used, TypeInv, DeqRecords
  <2>6. DequeuerInv'
    BY <1>1, <1>2, <2>1, TypesAre, CountsAre DEF DequeuerInv, CopyUnderWay, TypeInv, DeqRecords
  <2>7. \A b \in Buffers : Held(b)' = Held(b)
    BY <1>1, <2>1, TypesAre DEF Held, Kept, Draining, DequeuerInv, TypeInv, DeqRecords
  <2>8. PlaceInv' /\ FoundInv'
    BY <2>1, <2>7, PlacesKept DEF Unput
  <2> QED BY <2>3, <2>4, <2>5, <2>6, <2>8 DEF Unraced
<1> QED BY <1>3, <1>4, <1>5 DEF IInv

LEMMA NextInv == IInv /\ [Next]_vars => IInv'
<1> SUFFICES ASSUME IInv, [Next]_vars PROVE IInv'
  OBVIOUS
<1>1. CASE UNCHANGED vars
  <2> USE <1>1 DEF vars, enqVars, deqVars
  <2>1. \A b : /\ Present(b)' = Present(b) /\ Returning(b)' = Returning(b)
               /\ Closed(b)' = Closed(b) /\ Held(b)' = Held(b)
    BY DEF Present, Returning, Closed, Held, Kept, Draining
  <2>2. TypeInv' /\ ElementInv'
    BY DEF IInv, TypeInv, ElementInv
  <2>3. ASSUME ~raced PROVE Unraced'
    <3>1. CountInv' /\ SlotInv' /\ DequeuerInv' /\ DrainsAlone'
      BY <2>1, <2>3 DEF IInv, Unraced, CountInv, SlotInv, Used, DequeuerInv, DrainsAlone, Draining,
                        CopyUnderWay, Registered
    <3>2. PlaceInv' /\ FoundInv'
      BY <2>1, <2>3, PlacesKept DEF IInv, Unraced, Unput
    <3> QED BY <3>1, <3>2 DEF Unraced
  <2> QED BY <2>2, <2>3 DEF IInv
<1>2. CASE \E p \in Enqueuers : EnqueueCall(p) \/ EnqueuerStep(p)
  BY <1>2, EnqueueCallKeeps, ReadQueueNumKeeps, RegisterKeeps, WithdrawKeeps, ReserveKeeps,
     GiveBackKeeps, LeaveFullKeeps, WriteKeeps, LeaveKeeps DEF EnqueuerStep
<1>3. CASE DequeueCall \/ DequeuerStep
  BY <1>3, DequeueCallKeeps, CloseKeeps, AwaitWritersKeeps, ReadOffsetKeeps, ResetOffsetKeeps,
     ResetWritersKeeps, CopyKeeps, DReturnKeeps DEF DequeuerStep
<1> QED BY <1>1, <1>2, <1>3 DEF Next

(* The strengthened invariant holds for all constants, before and after a race. *)
THEOREM Inductive == Spec => []IInv
<1>1. Init => IInv
  BY InitInv
<1>2. IInv /\ [Next]_vars => IInv'
  BY NextInv
<1> QED BY <1>1, <1>2, PTL DEF Spec

(* The parts of every state have their types; up to a race dequeue never *)
(* reads past a buffer's end.                                            *)
THEOREM TypeCorrect == Spec => []TypeOK
<1>1. ASSUME IInv PROVE TypeOK
  <2>1. TypeInv
    BY <1>1 DEF IInv
  <2>2. ASSUME ~raced
        PROVE  deq.size \in 0..Capacity /\ \A b \in Buffers : offset[b] \in Nat
                 /\ writers[b] >= -LargeNumber
    <3>1. CountInv /\ SlotInv /\ DequeuerInv
      BY <1>1, <2>2 DEF IInv, Unraced
    <3>2. \A b \in Buffers : Cardinality(Present(b)) \in Nat /\ Cardinality(Returning(b)) \in Nat
      BY CountsAre
    <3>3. \A b \in Buffers : offset[b] \in Nat
      BY <2>1, <3>1, <3>2, TypesAre DEF SlotInv, Used
    <3>4. \A b \in Buffers : writers[b] >= -LargeNumber
      BY <2>1, <3>1, <3>2, TypesAre DEF CountInv
    <3> QED BY <3>1, <3>3, <3>4 DEF DequeuerInv
  <2> QED BY <2>1, <2>2 DEF TypeInv, TypeOK, EnqRecords, DeqRecords
<1> QED BY <1>1, Inductive, PTL

(***************************************************************************)
(* Up to a race, dequeue has the buffer for itself from the end of its     *)
(* wait until it has copied all, whichever ranks register meanwhile.       *)
(***************************************************************************)
THEOREM AloneUntilRace == Spec => []DrainsAloneApart
<1>1. IInv => DrainsAloneApart
  BY DEF IInv, Unraced, DrainsAloneApart
<1> QED BY <1>1, Inductive, PTL

(***************************************************************************)
(* Up to a race, every element whose enqueue has returned true is in a     *)
(* slot that is still to be copied or was dequeued, and none twice.        *)
(***************************************************************************)
THEOREM OnceUntilRace == Spec => []ExactlyOnceApart
<1>1. ASSUME IInv, ~raced PROVE NothingLost /\ NothingTwice
  <2>1. PlaceInv /\ FoundInv
    BY <1>1 DEF IInv, Unraced
  <2>2. \A b : Held(b) \subseteq Kept(b)
    BY DEF Held
  <2>3. NothingLost
    BY <2>1, <2>2 DEF FoundInv, InBuffer, NothingLost
  <2>4. NothingTwice
    BY <2>1 DEF PlaceInv, NothingTwice
  <2> QED BY <2>3, <2>4
<1>2. IInv => ExactlyOnceApart
  BY <1>1 DEF ExactlyOnceApart
<1> QED BY <1>2, Inductive, PTL

================================================================================
