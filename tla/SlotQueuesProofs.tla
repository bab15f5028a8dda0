--------------------------- MODULE SlotQueuesProofs ---------------------------
(***************************************************************************)
(* Proofs about the classes of slotqueue/, for every number of enqueuers,  *)
(* capacity and vector size, as long as the timestamps do not wrap around. *)
(***************************************************************************)
EXTENDS SlotQueues, SequenceTheorems, FiniteSetTheorems, WellFoundedInduction, TLAPS

(* The counter never reaches MAX_TIMESTAMP.                                *)
NoWrapAround == MaxCalls <= MaxTimestamp

--------------------------------------------------------------------------------
Cached == class \in {"SlotQueue", "SlotNodeQueue"}

(* What an enqueue has done: not put its elements yet; put them; put them and *)
(* seen one of them at the front.                                             *)
Putting(p) == enq[p].pc \in {"count", "put"}
Returning(p) == enq[p].pc \in {"check", "readSlot", "recheck", "swap"}
Committed(p) == enq[p].pc \in {"readSlot", "recheck", "swap"}

(* All timestamps of rank p so far are below it, and those to come are not. *)
Bound(p) == IF Putting(p) THEN enq[p].ts ELSE counter

(* Elements of p that were accepted or will be. *)
Granted(p) == accepted[p] + (IF Returning(p) THEN enq[p].n ELSE 0)

Elements == [item : Ranks \X Nat, ts : 0..MaxTimestamp-1]

(* The locals of enqueue and of dequeue. *)
Calls ==
  [pc : {"idle", "count", "put", "check", "readSlot", "recheck", "swap"},
   n : 0..MaxBatch, ts : Timestamps, old : Timestamps, try : 1..2]

Scans ==
  [pc : {"idle", "scan", "rescan", "readSlot", "front", "swap"},
   next : 0..Size, rank : Ranks, old : Timestamps, new : Timestamps, try : 1..2]

(* The types of the variables, as the proofs need them. *)
TypeInv ==
  /\ class \in {"SlotQueue", "SlotNodeQueue", "HostedSlotQueue", "UnboundedSlotQueue"}
  /\ counter \in 0..MaxCalls
  /\ spsc \in [Ranks -> Seq(Elements)]
  /\ slot \in [Ranks -> Timestamps]
  /\ enq \in [Ranks -> Calls]
  /\ accepted \in [Ranks -> Nat]
  /\ buf \in [Ranks -> Timestamps]
  /\ deq \in Scans
  /\ dOut = Nothing \/ dOut \in Ranks \X Nat
  /\ inQueue \subseteq Ranks \X Nat

(* A call's timestamp. *)
StampInv(p) ==
  /\ enq[p].pc = "idle" => enq[p].n = 0
  /\ Putting(p) => enq[p].try = 1
  /\ enq[p].pc = "count" => enq[p].ts <= counter
  /\ enq[p].pc \notin {"idle", "count"} => enq[p].ts < counter
  /\ slot[p] = MAX \/ slot[p] < Bound(p)

(* The SPSC of rank p: its elements in order, those of the current call last. *)
SpscInv(p) ==
  /\ \A i \in 1..Len(spsc[p]) :
       /\ spsc[p][i].item[1] = p /\ spsc[p][i].item \in inQueue
       /\ spsc[p][i].ts < Bound(p)
       /\ spsc[p][i].item[2] <= Granted(p)
       /\ Returning(p) =>
            /\ spsc[p][i].ts <= enq[p].ts
            /\ spsc[p][i].ts = enq[p].ts => spsc[p][i].item[2] > accepted[p]
       /\ Committed(p) => spsc[p][i].ts = enq[p].ts
  /\ \A i, j \in 1..Len(spsc[p]) :
       i < j => spsc[p][i].ts <= spsc[p][j].ts /\ spsc[p][i].item[2] < spsc[p][j].item[2]
  /\ Putting(p) => Batch(p, enq[p].n) \subseteq inQueue

(* The dequeuer's copy of the slot of p has been read since it last took from p. *)
Fresh(p) == Cached \/ deq.pc = "rescan" \/ (deq.pc = "scan" /\ p < deq.next)

(* No dequeue is refreshing the slot of p. *)
QuietInv(p) ==
  ~Refreshing(p) =>
    /\ slot[p] \in {MAX, FrontTimestamp(p)}
    /\ Fresh(p) /\ buf[p] # MAX => slot[p] = buf[p]
    /\ enq[p].pc = "swap" /\ slot[p] = enq[p].old => FrontTimestamp(p) = enq[p].ts
    /\ slot[p] = MAX /\ FrontTimestamp(p) # MAX =>
         /\ Returning(p) /\ FrontTimestamp(p) = enq[p].ts
         /\ enq[p].pc \in {"recheck", "swap"} /\ enq[p].try = 2 => enq[p].old = MAX

(* A dequeue is refreshing the slot of p. *)
RefreshInv(p) ==
  Refreshing(p) =>
    /\ slot[p] # MAX
    /\ enq[p].pc = "swap" /\ FrontTimestamp(p) # enq[p].ts => slot[p] = enq[p].ts
    /\ deq.pc \in {"front", "swap"} => slot[p] \in {deq.old, FrontTimestamp(p)}
    /\ deq.pc = "swap" =>
         /\ deq.new \in {MAX, FrontTimestamp(p)}
         /\ Cached => buf[p] = deq.new
         /\ deq.new = MAX /\ FrontTimestamp(p) # MAX /\ slot[p] = deq.old =>
              /\ Returning(p) /\ FrontTimestamp(p) = enq[p].ts /\ slot[p] # enq[p].ts
              /\ enq[p].try = 1
              /\ enq[p].pc \in {"recheck", "swap"} => enq[p].old = slot[p]

SlotInv(p) ==
  /\ QuietInv(p) /\ RefreshInv(p)
  /\ enq[p].pc \in {"recheck", "swap"} /\ enq[p].old = MAX => slot[p] = MAX /\ ~Refreshing(p)
  /\ Cached => buf[p] \in {MAX, FrontTimestamp(p)}

SelectedInv == deq.pc = "rescan" => buf[deq.rank] # MAX

IInv ==
  /\ TypeInv
  /\ \A p \in Ranks : StampInv(p) /\ SpscInv(p) /\ SlotInv(p)
  /\ SelectedInv

--------------------------------------------------------------------------------
(* x is an element of the SPSC of its rank, stamped t. *)
Stored(x, t) == \E i \in 1..Len(spsc[x[1]]) : spsc[x[1]][i] = [item |-> x, ts |-> t]

(* x is an element of a call that has not put it yet and has no timestamp below t. *)
Coming(x, t) == Putting(x[1]) /\ x \in Batch(x[1], enq[x[1]].n) /\ t = enq[x[1]].ts

(* The elements of the queue are those in the SPSCs and those about to be put. *)
ContentInv == \A x \in inQueue : \E t \in Timestamps : Stored(x, t) \/ Coming(x, t)

(* What an element must not overtake was there before it, with a smaller *)
(* timestamp if it is another rank's.                                     *)
BeforeInv ==
  \A x \in inQueue : \A y \in before[x] :
    /\ y \in inQueue
    /\ IF y[1] = x[1] THEN y[2] < x[2]
       ELSE /\ y[2] <= accepted[y[1]]
            /\ \A t, u \in Timestamps : Stored(y, t) /\ (Stored(x, u) \/ Coming(x, u)) => t < u

(* The elements that were there when dequeue was called are seen by its scans. *)
Settles(p) == \E x \in settled : x[1] = p

SettledInv ==
  /\ \A x \in settled : x \in inQueue /\ x[2] <= accepted[x[1]]
  /\ deq.pc \in {"scan", "rescan"} =>
       \A p \in Ranks : Settles(p) =>
         /\ slot[p] # MAX
         /\ deq.pc = "rescan" \/ p < deq.next => buf[p] # MAX
         /\ deq.pc = "rescan" => buf[deq.rank] <= buf[p]

HistoryInv == ContentInv /\ BeforeInv /\ SettledInv

--------------------------------------------------------------------------------
(* The classes compose the same steps: those of Slots and, where calls may share *)
(* a timestamp, these two for EnqueueCall.                                       *)
CountedCall(p, n) ==
  /\ enq[p].pc = "idle"
  /\ enq' = [enq EXCEPT ![p] = [EnqIdle EXCEPT !.pc = "count", !.n = n, !.ts = counter]]
  /\ RecordCall(Batch(p, n))
  /\ UNCHANGED <<counter, spsc, slot, accepted, deqVars>>

Stamping(p) ==
  /\ enq[p].pc = "count"
  /\ counter' \in {counter, counter + 1} /\ counter' <= MaxCalls
  /\ \E t \in Nat :
       /\ enq[p].ts <= t /\ t < counter'
       /\ enq' = [enq EXCEPT ![p].pc = "put", ![p].ts = Timestamp(t)]
  /\ UNCHANGED <<spsc, slot, accepted, before, deqVars>>

Enqueueing(p) ==
  \/ \E n \in 1..MaxBatch : EnqueueCall(p, n) \/ CountedCall(p, n)
  \/ Stamping(p) \/ Put(p) \/ EnqueueFull(p) \/ RefreshEnqueue(p)

Dequeueing(cached) ==
  DequeueCall \/ ReadMinimumRank(cached) \/ Take(cached) \/ RefreshDequeue(cached)

(* The step that calls enqueue, and those of a call. *)
Begins(p) == \E n \in 1..MaxBatch : EnqueueCall(p, n) \/ CountedCall(p, n)
Proceeding(p) == Node!TakeTimestamp(p) \/ Put(p) \/ EnqueueFull(p) \/ RefreshEnqueue(p)
DProceeding(cached) == ReadMinimumRank(cached) \/ Take(cached) \/ RefreshDequeue(cached)
Moves(cached) == (\E p \in Ranks : Begins(p) \/ Proceeding(p)) \/ DequeueCall \/ DProceeding(cached)

LEMMA SlotStep ==
  /\ \A p : Slot!EnqueuerStep(p) => Proceeding(p)
  /\ Slot!DequeuerStep => DProceeding(TRUE)
  /\ Slot!Next => Moves(TRUE)
<1> USE DEF
            MAX, Nothing, EnqIdle, DeqIdle, Ranks, enqVars, deqVars, Batch, inQueue, returned,
            RecordCall, RecordGone, Timestamp, GetAndIncrement, EnqueueCall, EnqueueReturn,
            GoOn, Fits, Put, EnqueueFull, FrontTimestamp, CheckFront, ReadSlot, RecheckFront,
            SwapSlot, SwapSlotFails, RefreshEnqueue, DequeueCall, ToRead, Lowest, ScanSlot,
            FirstScan, SecondScan, Visible, Select, SelectNone, Reselected, Take, DReadSlot,
            DReadFront, DSwapSlot, DSwapSlotFails, RefreshDequeue, ReadMinimumRank, Slot!MAX,
            Slot!Nothing, Slot!EnqIdle, Slot!DeqIdle, Slot!Ranks, Slot!enqVars, Slot!deqVars,
            Slot!Batch, Slot!inQueue, Slot!returned, Slot!RecordCall, Slot!RecordGone,
            Slot!Timestamp, Slot!GetAndIncrement, Slot!EnqueueCall, Slot!EnqueueReturn,
            Slot!GoOn, Slot!Fits, Slot!Put, Slot!EnqueueFull, Slot!FrontTimestamp,
            Slot!CheckFront, Slot!ReadSlot, Slot!RecheckFront, Slot!SwapSlot,
            Slot!SwapSlotFails, Slot!RefreshEnqueue, Slot!DequeueCall, Slot!ToRead,
            Slot!Lowest, Slot!ScanSlot, Slot!FirstScan, Slot!SecondScan, Slot!Visible,
            Slot!Select, Slot!SelectNone, Slot!Reselected, Slot!Take, Slot!DReadSlot,
            Slot!DReadFront, Slot!DSwapSlot, Slot!DSwapSlotFails, Slot!RefreshDequeue,
            Slot!ReadMinimumRank
<1>1. \A p : Slot!EnqueuerStep(p) => Proceeding(p)
  BY DEF Proceeding, Slot!EnqueuerStep, Slot!refreshEnqueue, Slot!EnqueuePut
<1>2. (Slot!DequeuerStep => DProceeding(TRUE)) /\ (Slot!DequeueCall => DequeueCall)
  BY DEF DProceeding, Slot!DequeuerStep, Slot!readMinimumRank, Slot!refreshDequeue
<1>3. \A p, n : Slot!EnqueueCall(p, n) => EnqueueCall(p, n)
  OBVIOUS
<1>4. \A n \in {1} : n \in 1..MaxBatch
  BY SlotsAssumption DEF SlotsAssumption
<1> HIDE DEF EnqueueCall, Slot!EnqueueCall, DequeueCall, Slot!DequeueCall, Slot!Ranks
<1> QED
  BY <1>1, <1>2, <1>3, <1>4 DEF Slot!Next, Slot!Ranks, Moves, Begins

LEMMA NodeStep ==
  /\ \A p : Node!EnqueuerStep(p) => Proceeding(p)
  /\ Node!DequeuerStep => DProceeding(TRUE)
  /\ Node!Next => Moves(TRUE)
<1> USE DEF
            MAX, Nothing, EnqIdle, DeqIdle, Ranks, enqVars, deqVars, Batch, inQueue, returned,
            RecordCall, RecordGone, Timestamp, GetAndIncrement, EnqueueCall, EnqueueReturn,
            GoOn, Fits, Put, EnqueueFull, FrontTimestamp, CheckFront, ReadSlot, RecheckFront,
            SwapSlot, SwapSlotFails, RefreshEnqueue, DequeueCall, ToRead, Lowest, ScanSlot,
            FirstScan, SecondScan, Visible, Select, SelectNone, Reselected, Take, DReadSlot,
            DReadFront, DSwapSlot, DSwapSlotFails, RefreshDequeue, ReadMinimumRank, Node!MAX,
            Node!Nothing, Node!EnqIdle, Node!DeqIdle, Node!Ranks, Node!enqVars, Node!deqVars,
            Node!Batch, Node!inQueue, Node!returned, Node!RecordCall, Node!RecordGone,
            Node!Timestamp, Node!GetAndIncrement, Node!EnqueueCall, Node!EnqueueReturn,
            Node!GoOn, Node!Fits, Node!Put, Node!EnqueueFull, Node!FrontTimestamp,
            Node!CheckFront, Node!ReadSlot, Node!RecheckFront, Node!SwapSlot,
            Node!SwapSlotFails, Node!RefreshEnqueue, Node!DequeueCall, Node!ToRead,
            Node!Lowest, Node!ScanSlot, Node!FirstScan, Node!SecondScan, Node!Visible,
            Node!Select, Node!SelectNone, Node!Reselected, Node!Take, Node!DReadSlot,
            Node!DReadFront, Node!DSwapSlot, Node!DSwapSlotFails, Node!RefreshDequeue,
            Node!ReadMinimumRank
<1>1. \A p : Node!EnqueuerStep(p) => Proceeding(p)
  BY DEF Proceeding, Node!EnqueuerStep, Node!refreshEnqueue, Node!EnqueuePut
<1>2. (Node!DequeuerStep => DProceeding(TRUE)) /\ (Node!DequeueCall => DequeueCall)
  BY DEF DProceeding, Node!DequeuerStep, Node!readMinimumRank, Node!refreshDequeue
<1>3. \A p, n : Node!EnqueueCounts(p, n) => CountedCall(p, n)
  BY DEF Node!EnqueueCounts, CountedCall
<1> HIDE DEF EnqueueCall, DequeueCall, Node!DequeueCall, Node!Ranks
<1> QED
  BY <1>1, <1>2, <1>3 DEF Node!Next, Node!Ranks, Moves, Begins

(* The counter that several ranks share. *)
LEMMA StampingIs ==
  ASSUME TypeInv, NEW p \in Ranks, StampInv(p), Node!TakeTimestamp(p)
  PROVE  Stamping(p)
<1>1. counter \in Nat /\ MaxCalls \in Nat /\ counter <= MaxCalls /\ enq[p].ts \in Nat /\ enq[p].ts <= counter
  BY SlotsAssumption DEF TypeInv, SlotsAssumption, StampInv, Calls, Node!TakeTimestamp, Timestamps
<1> DEFINE Gets(t) == enq' = [enq EXCEPT ![p].pc = "put", ![p].ts = Timestamp(t)]
<1>2. \A t : Node!Stamped(p, t) => Gets(t)
  BY DEF Node!Stamped, Timestamp, Node!Timestamp
<1>3. enq[p].pc = "count" /\ UNCHANGED <<spsc, slot, accepted, before, deqVars>>
  BY DEF Node!TakeTimestamp, deqVars, Node!deqVars
<1>4. counter' \in {counter, counter + 1} /\ counter' <= MaxCalls
        /\ \E t \in Nat : enq[p].ts <= t /\ t < counter' /\ Gets(t)
  <2> HIDE DEF Gets
  <2>1. CASE Node!GetAndIncrement /\ Node!Stamped(p, counter)
    BY <1>1, <1>2, <2>1 DEF Node!GetAndIncrement
  <2>2. CASE \E t \in Node!IssuedSince(enq[p].ts) : Node!Stamped(p, t) /\ UNCHANGED counter
    BY <1>1, <1>2, <2>2 DEF Node!IssuedSince
  <2> QED BY <2>1, <2>2 DEF Node!TakeTimestamp
<1> QED BY <1>3, <1>4 DEF Stamping

LEMMA HostedStep ==
  /\ \A p : Hosted!EnqueuerStep(p) => Proceeding(p)
  /\ Hosted!DequeuerStep => DProceeding(FALSE)
  /\ Hosted!Next => Moves(FALSE)
<1> USE DEF
            MAX, Nothing, EnqIdle, DeqIdle, Ranks, enqVars, deqVars, Batch, inQueue, returned,
            RecordCall, RecordGone, Timestamp, GetAndIncrement, EnqueueCall, EnqueueReturn,
            GoOn, Fits, Put, EnqueueFull, FrontTimestamp, CheckFront, ReadSlot, RecheckFront,
            SwapSlot, SwapSlotFails, RefreshEnqueue, DequeueCall, ToRead, Lowest, ScanSlot,
            FirstScan, SecondScan, Visible, Select, SelectNone, Reselected, Take, DReadSlot,
            DReadFront, DSwapSlot, DSwapSlotFails, RefreshDequeue, ReadMinimumRank, Hosted!MAX,
            Hosted!Nothing, Hosted!EnqIdle, Hosted!DeqIdle, Hosted!Ranks, Hosted!enqVars,
            Hosted!deqVars, Hosted!Batch, Hosted!inQueue, Hosted!returned, Hosted!RecordCall,
            Hosted!RecordGone, Hosted!Timestamp, Hosted!GetAndIncrement, Hosted!EnqueueCall,
            Hosted!EnqueueReturn, Hosted!GoOn, Hosted!Fits, Hosted!Put, Hosted!EnqueueFull,
            Hosted!FrontTimestamp, Hosted!CheckFront, Hosted!ReadSlot, Hosted!RecheckFront,
            Hosted!SwapSlot, Hosted!SwapSlotFails, Hosted!RefreshEnqueue, Hosted!DequeueCall,
            Hosted!ToRead, Hosted!Lowest, Hosted!ScanSlot, Hosted!FirstScan, Hosted!SecondScan,
            Hosted!Visible, Hosted!Select, Hosted!SelectNone, Hosted!Reselected, Hosted!Take,
            Hosted!DReadSlot, Hosted!DReadFront, Hosted!DSwapSlot, Hosted!DSwapSlotFails,
            Hosted!RefreshDequeue, Hosted!ReadMinimumRank
<1>1. \A p : Hosted!EnqueuerStep(p) => Proceeding(p)
  BY DEF Proceeding, Hosted!EnqueuerStep, Hosted!refreshEnqueue, Hosted!EnqueuePut
<1>2. (Hosted!DequeuerStep => DProceeding(FALSE)) /\ (Hosted!DequeueCall => DequeueCall)
  BY DEF DProceeding, Hosted!DequeuerStep, Hosted!readMinimumRank, Hosted!refreshDequeue
<1>3. \A p, n : Hosted!EnqueueCall(p, n) => EnqueueCall(p, n)
  OBVIOUS
<1>4. \A n \in {1} : n \in 1..MaxBatch
  BY SlotsAssumption DEF SlotsAssumption
<1> HIDE DEF EnqueueCall, Hosted!EnqueueCall, DequeueCall, Hosted!DequeueCall, Hosted!Ranks
<1> QED
  BY <1>1, <1>2, <1>3, <1>4 DEF Hosted!Next, Hosted!Ranks, Moves, Begins

LEMMA UnboundedStep ==
  /\ \A p : Unbounded!EnqueuerStep(p) => Proceeding(p)
  /\ Unbounded!DequeuerStep => DProceeding(FALSE)
  /\ Unbounded!Next => Moves(FALSE)
<1> USE DEF
            MAX, Nothing, EnqIdle, DeqIdle, Ranks, enqVars, deqVars, Batch, inQueue, returned,
            RecordCall, RecordGone, Timestamp, GetAndIncrement, EnqueueCall, EnqueueReturn,
            GoOn, Fits, Put, EnqueueFull, FrontTimestamp, CheckFront, ReadSlot, RecheckFront,
            SwapSlot, SwapSlotFails, RefreshEnqueue, DequeueCall, ToRead, Lowest, ScanSlot,
            FirstScan, SecondScan, Visible, Select, SelectNone, Reselected, Take, DReadSlot,
            DReadFront, DSwapSlot, DSwapSlotFails, RefreshDequeue, ReadMinimumRank,
            Unbounded!MAX, Unbounded!Nothing, Unbounded!EnqIdle, Unbounded!DeqIdle,
            Unbounded!Ranks, Unbounded!enqVars, Unbounded!deqVars, Unbounded!Batch,
            Unbounded!inQueue, Unbounded!returned, Unbounded!RecordCall, Unbounded!RecordGone,
            Unbounded!Timestamp, Unbounded!GetAndIncrement, Unbounded!EnqueueCall,
            Unbounded!EnqueueReturn, Unbounded!GoOn, Unbounded!Fits, Unbounded!Put,
            Unbounded!EnqueueFull, Unbounded!FrontTimestamp, Unbounded!CheckFront,
            Unbounded!ReadSlot, Unbounded!RecheckFront, Unbounded!SwapSlot,
            Unbounded!SwapSlotFails, Unbounded!RefreshEnqueue, Unbounded!DequeueCall,
            Unbounded!ToRead, Unbounded!Lowest, Unbounded!ScanSlot, Unbounded!FirstScan,
            Unbounded!SecondScan, Unbounded!Visible, Unbounded!Select, Unbounded!SelectNone,
            Unbounded!Reselected, Unbounded!Take, Unbounded!DReadSlot, Unbounded!DReadFront,
            Unbounded!DSwapSlot, Unbounded!DSwapSlotFails, Unbounded!RefreshDequeue,
            Unbounded!ReadMinimumRank
<1>1. \A p : Unbounded!EnqueuerStep(p) => Proceeding(p)
  BY DEF Proceeding, Unbounded!EnqueuerStep, Unbounded!refreshEnqueue
<1>2. (Unbounded!DequeuerStep => DProceeding(FALSE)) /\ (Unbounded!DequeueCall => DequeueCall)
  BY DEF DProceeding, Unbounded!DequeuerStep, Unbounded!readMinimumRank, Unbounded!refreshDequeue
<1>3. \A p, n : Unbounded!EnqueueCall(p, n) => EnqueueCall(p, n)
  OBVIOUS
<1>4. \A n \in {1} : n \in 1..MaxBatch
  BY SlotsAssumption DEF SlotsAssumption
<1> HIDE DEF EnqueueCall, Unbounded!EnqueueCall, DequeueCall, Unbounded!DequeueCall, Unbounded!Ranks
<1> QED
  BY <1>1, <1>2, <1>3, <1>4 DEF Unbounded!Next, Unbounded!Ranks, Moves, Begins

--------------------------------------------------------------------------------
(* Timestamps that do not wrap are the numbers of the counter. *)
LEMMA TimestampIs ==
  ASSUME NoWrapAround, NEW t \in Nat, t < MaxCalls
  PROVE  Timestamp(t) = t /\ t < MAX
<1>1. MaxTimestamp \in Nat /\ MaxCalls \in Nat /\ t < MaxTimestamp + 1 /\ t < MaxTimestamp
  BY SlotsAssumption DEF SlotsAssumption, NoWrapAround
<1>2. t % (MaxTimestamp + 1) = t
  BY <1>1
<1> QED BY <1>1, <1>2 DEF Timestamp, MAX

(* The front of an SPSC. *)
LEMMA FrontIs ==
  ASSUME TypeInv, NEW p \in Ranks
  PROVE  /\ Len(spsc[p]) \in Nat
         /\ FrontTimestamp(p) = IF Len(spsc[p]) = 0 THEN MAX ELSE spsc[p][1].ts
         /\ \A i \in 1..Len(spsc[p]) :
              spsc[p][i] \in Elements /\ spsc[p][i].ts \in Nat /\ spsc[p][i].ts < MAX
         /\ FrontTimestamp(p) \in Timestamps
         /\ FrontTimestamp(p) = MAX => spsc[p] = <<>>
<1>1. spsc[p] \in Seq(Elements) /\ MaxTimestamp \in Nat \ {0}
  BY SlotsAssumption DEF TypeInv, SlotsAssumption
<1>2. Len(spsc[p]) \in Nat /\ (spsc[p] = <<>> <=> Len(spsc[p]) = 0)
  BY <1>1
<1>3. \A i \in 1..Len(spsc[p]) :
        spsc[p][i] \in Elements /\ spsc[p][i].ts \in Nat /\ spsc[p][i].ts < MAX
  <2>1. \A i \in 1..Len(spsc[p]) : spsc[p][i] \in Elements
    BY <1>1, ElementOfSeq
  <2>2. \A e \in Elements : e.ts \in Nat /\ e.ts < MAX
    BY <1>1 DEF Elements, MAX
  <2> QED BY <2>1, <2>2
<1>4. spsc[p] # <<>> => Head(spsc[p]) = spsc[p][1] /\ 1 \in 1..Len(spsc[p])
  BY <1>1, <1>2
<1>5. FrontTimestamp(p) = IF Len(spsc[p]) = 0 THEN MAX ELSE spsc[p][1].ts
  BY <1>2, <1>4 DEF FrontTimestamp
<1> QED
  BY <1>1, <1>2, <1>3, <1>4, <1>5 DEF Timestamps, MAX

(* What a put does to the SPSCs. *)
LEMMA PutEffect ==
  ASSUME TypeInv, NEW p \in Ranks, Put(p), enq[p].ts < MAX
  PROVE  /\ spsc' \in [Ranks -> Seq(Elements)]
         /\ \A q \in Ranks : q # p => spsc'[q] = spsc[q]
         /\ Len(spsc[p]) \in Nat
         /\ Len(spsc'[p]) = Len(spsc[p]) + enq[p].n
         /\ \A i \in 1..Len(spsc[p]) : spsc'[p][i] = spsc[p][i]
         /\ \A i \in 1..Len(spsc'[p]) : i > Len(spsc[p]) =>
              /\ i - Len(spsc[p]) \in 1..enq[p].n
              /\ spsc'[p][i] = [item |-> <<p, accepted[p] + (i - Len(spsc[p]))>>, ts |-> enq[p].ts]
<1> DEFINE new == [i \in 1..enq[p].n |-> [item |-> <<p, accepted[p] + i>>, ts |-> enq[p].ts]]
<1>0. spsc' = [spsc EXCEPT ![p] = spsc[p] \o new]
  BY DEF Put, TypeInv
<1>1. /\ spsc \in [Ranks -> Seq(Elements)] /\ accepted[p] \in Nat
      /\ enq[p].n \in Nat /\ enq[p].ts \in Nat /\ enq[p].ts \in 0..MaxTimestamp-1
  BY SlotsAssumption DEF TypeInv, SlotsAssumption, MAX, Timestamps, Calls
<1>2. new \in Seq(Elements) /\ Len(new) = enq[p].n
  <2>1. \A i \in 1..enq[p].n : [item |-> <<p, accepted[p] + i>>, ts |-> enq[p].ts] \in Elements
    BY <1>1 DEF Elements
  <2>2. new \in [1..enq[p].n -> Elements]
    BY <2>1
  <2> HIDE DEF new
  <2>3. enq[p].n \in Nat
    BY <1>1
  <2> QED BY <2>2, <2>3
<1>3. spsc[p] \in Seq(Elements) /\ spsc' = [spsc EXCEPT ![p] = spsc[p] \o new]
  BY <1>0, <1>1
<1> HIDE DEF new
<1>4. /\ spsc[p] \o new \in Seq(Elements)
      /\ Len(spsc[p] \o new) = Len(spsc[p]) + enq[p].n
      /\ \A i \in 1..Len(spsc[p]) + enq[p].n :
           (spsc[p] \o new)[i] = IF i <= Len(spsc[p]) THEN spsc[p][i] ELSE new[i - Len(spsc[p])]
  BY <1>2, <1>3
<1>5. Len(spsc[p]) \in Nat
  BY <1>3
<1>6. spsc'[p] = spsc[p] \o new /\ \A q \in Ranks : q # p => spsc'[q] = spsc[q]
  BY <1>1, <1>3
<1>7. spsc' \in [Ranks -> Seq(Elements)]
  BY <1>1, <1>3, <1>4
<1>8. \A i \in 1..Len(spsc[p]) + enq[p].n : i > Len(spsc[p]) =>
        i - Len(spsc[p]) \in 1..enq[p].n
  BY <1>1, <1>5
<1>9. \A i \in 1..enq[p].n : new[i] = [item |-> <<p, accepted[p] + i>>, ts |-> enq[p].ts]
  BY DEF new
<1>10. Len(spsc'[p]) = Len(spsc[p]) + enq[p].n
  BY <1>4, <1>6
<1>11. \A i \in 1..Len(spsc[p]) : spsc'[p][i] = spsc[p][i]
  <2> SUFFICES ASSUME NEW i \in 1..Len(spsc[p])
               PROVE  (spsc[p] \o new)[i] = spsc[p][i]
    BY <1>6
  <2>1. i \in 1..Len(spsc[p]) + enq[p].n /\ i <= Len(spsc[p])
    BY <1>1, <1>5
  <2> QED BY <2>1, <1>4
<1>12. \A i \in 1..Len(spsc'[p]) : i > Len(spsc[p]) =>
         /\ i - Len(spsc[p]) \in 1..enq[p].n
         /\ spsc'[p][i] = [item |-> <<p, accepted[p] + (i - Len(spsc[p]))>>, ts |-> enq[p].ts]
  <2> SUFFICES ASSUME NEW i \in 1..Len(spsc[p]) + enq[p].n, i > Len(spsc[p])
               PROVE  /\ i - Len(spsc[p]) \in 1..enq[p].n
                      /\ (spsc[p] \o new)[i] =
                           [item |-> <<p, accepted[p] + (i - Len(spsc[p]))>>, ts |-> enq[p].ts]
    BY <1>6, <1>10
  <2>1. i - Len(spsc[p]) \in 1..enq[p].n
    BY <1>8
  <2>2. ~(i <= Len(spsc[p]))
    BY <1>1, <1>5
  <2>3. (spsc[p] \o new)[i] = new[i - Len(spsc[p])]
    BY <2>2, <1>4
  <2> QED BY <2>1, <2>3, <1>9
<1> QED BY <1>5, <1>6, <1>7, <1>10, <1>11, <1>12

(* What taking the front of rank r's SPSC does. *)
LEMMA TailEffect ==
  ASSUME TypeInv, NEW r \in Ranks, spsc[r] # <<>>, spsc' = [spsc EXCEPT ![r] = Tail(@)]
  PROVE  /\ spsc' \in [Ranks -> Seq(Elements)]
         /\ \A q \in Ranks : q # r => spsc'[q] = spsc[q]
         /\ Len(spsc[r]) \in Nat \ {0} /\ Head(spsc[r]) = spsc[r][1]
         /\ Len(spsc'[r]) = Len(spsc[r]) - 1
         /\ \A i \in 1..Len(spsc'[r]) : i + 1 \in 1..Len(spsc[r]) /\ spsc'[r][i] = spsc[r][i+1]
<1>1. spsc \in [Ranks -> Seq(Elements)] /\ spsc[r] \in Seq(Elements)
  BY DEF TypeInv
<1>2. /\ Tail(spsc[r]) \in Seq(Elements) /\ Len(spsc[r]) \in Nat \ {0}
      /\ Len(Tail(spsc[r])) = Len(spsc[r]) - 1 /\ Head(spsc[r]) = spsc[r][1]
      /\ \A i \in 1..Len(Tail(spsc[r])) : Tail(spsc[r])[i] = spsc[r][i+1]
  BY <1>1
<1>3. spsc'[r] = Tail(spsc[r])
  BY <1>1
<1>4. \A i \in 1..Len(spsc'[r]) : i + 1 \in 1..Len(spsc[r])
  <2>1. Len(spsc'[r]) = Len(spsc[r]) - 1 /\ Len(spsc[r]) \in Nat
    BY <1>2, <1>3
  <2> QED BY <2>1
<1>5. spsc' \in [Ranks -> Seq(Elements)] /\ \A q \in Ranks : q # r => spsc'[q] = spsc[q]
  BY <1>1, <1>2
<1> QED BY <1>2, <1>3, <1>4, <1>5

(* What a call and the end of elements do to the history of the queue. *)
LEMMA RecordCallIs ==
  ASSUME NEW new, RecordCall(new)
  PROVE  /\ inQueue' = inQueue \cup new
         /\ \A x \in inQueue' :
              before'[x] = IF x \in new THEN returned \cup {y \in new : y[2] < x[2]} ELSE before[x]
BY DEF RecordCall, inQueue

LEMMA RecordGoneIs ==
  ASSUME NEW gone, RecordGone(gone)
  PROVE  /\ inQueue' = inQueue \ gone
         /\ \A x \in inQueue' : before'[x] = before[x] \ gone
BY DEF RecordGone, inQueue

--------------------------------------------------------------------------------
(* Every step keeps the types. *)
LEMMA StampBelowMax ==
  ASSUME NoWrapAround, TypeInv, NEW p \in Ranks, StampInv(p)
  PROVE  /\ counter \in Nat /\ counter <= MAX /\ MAX \in Nat /\ enq[p].ts \in Nat
         /\ enq[p].pc \notin {"idle", "count"} => enq[p].ts < MAX
BY SlotsAssumption
   DEF NoWrapAround, SlotsAssumption, TypeInv, StampInv, MAX, Timestamps, Calls

LEMMA CallsClosed ==
  /\ EnqIdle \in Calls
  /\ \A n \in 0..MaxBatch, t \in Timestamps :
       /\ [EnqIdle EXCEPT !.pc = "put", !.n = n, !.ts = t] \in Calls
       /\ [EnqIdle EXCEPT !.pc = "count", !.n = n, !.ts = t] \in Calls
  /\ \A c \in Calls :
       /\ \A t \in Timestamps : [c EXCEPT !.old = t, !.pc = "recheck"] \in Calls
       /\ \A t \in Timestamps : [c EXCEPT !.pc = "put", !.ts = t] \in Calls
       /\ \A pc \in {"readSlot", "check", "swap"} : [c EXCEPT !.pc = pc] \in Calls
       /\ [c EXCEPT !.try = 2, !.pc = "check"] \in Calls
<1>1. MaxBatch \in Nat /\ MaxTimestamp \in Nat
  BY SlotsAssumption DEF SlotsAssumption
<1>2. EnqIdle \in Calls
  BY <1>1 DEF Calls, EnqIdle, Timestamps
<1>3. ASSUME NEW n \in 0..MaxBatch, NEW t \in Timestamps
      PROVE  /\ [EnqIdle EXCEPT !.pc = "put", !.n = n, !.ts = t] \in Calls
             /\ [EnqIdle EXCEPT !.pc = "count", !.n = n, !.ts = t] \in Calls
  <2>1. [EnqIdle EXCEPT !.pc = "put"] \in Calls /\ [EnqIdle EXCEPT !.pc = "count"] \in Calls
    BY <1>2 DEF Calls
  <2>2. \A c \in Calls : [c EXCEPT !.n = n] \in Calls
    BY DEF Calls
  <2>3. \A c \in Calls : [c EXCEPT !.ts = t] \in Calls
    BY DEF Calls
  <2> HIDE DEF Calls
  <2> QED BY <2>1, <2>2, <2>3
<1>4. ASSUME NEW c \in Calls, NEW t \in Timestamps
      PROVE  [c EXCEPT !.old = t, !.pc = "recheck"] \in Calls /\ [c EXCEPT !.pc = "put", !.ts = t] \in Calls
  BY DEF Calls
<1>5. ASSUME NEW c \in Calls, NEW pc \in {"readSlot", "check", "swap"}
      PROVE  [c EXCEPT !.pc = pc] \in Calls
  BY DEF Calls
<1>6. ASSUME NEW c \in Calls PROVE [c EXCEPT !.try = 2, !.pc = "check"] \in Calls
  <2>1. [c EXCEPT !.try = 2] \in Calls
    BY DEF Calls
  <2> QED BY <2>1 DEF Calls
<1> QED BY <1>2, <1>3, <1>4, <1>5, <1>6

LEMMA EnqueueTypes ==
  ASSUME NoWrapAround, TypeInv, NEW p \in Ranks, StampInv(p), Enqueueing(p), class' = class
  PROVE  TypeInv'
<1>0. /\ counter \in Nat /\ counter <= MAX /\ MAX \in Nat /\ enq[p].ts \in Nat
      /\ enq[p].pc \notin {"idle", "count"} => enq[p].ts < MAX
  BY StampBelowMax
<1>1. /\ MaxTimestamp \in Nat \ {0} /\ MaxCalls \in Nat /\ MaxBatch \in Nat \ {0}
      /\ Size \in Nat \ {0} /\ MaxCalls <= MaxTimestamp
  BY SlotsAssumption DEF SlotsAssumption, NoWrapAround
<1>2. \A n \in 0..MaxBatch : Batch(p, n) \subseteq Ranks \X Nat
  BY <1>1 DEF Batch, TypeInv
<1>3. enq \in [Ranks -> Calls] /\ enq[p] \in Calls /\ accepted \in [Ranks -> Nat] /\ enq[p].n \in Nat
  BY <1>1 DEF TypeInv, Calls
<1> USE DEF deqVars
<1>4. ASSUME NEW n \in 1..MaxBatch, EnqueueCall(p, n) PROVE TypeInv'
  <2>1. counter < MaxCalls /\ counter' = counter + 1 /\ Timestamp(counter) = counter
    BY <1>0, <1>4, TimestampIs DEF EnqueueCall, GetAndIncrement
  <2>2. counter \in Timestamps /\ counter' \in 0..MaxCalls /\ n \in 0..MaxBatch
    BY <1>0, <1>1, <2>1 DEF Timestamps, MAX
  <2>3. enq' \in [Ranks -> Calls]
    BY <1>3, <1>4, <2>1, <2>2, CallsClosed DEF EnqueueCall
  <2>4. inQueue' \subseteq Ranks \X Nat
    BY <1>2, <1>4, <2>2, RecordCallIs DEF EnqueueCall, TypeInv
  <2> QED
    BY <1>4, <2>2, <2>3, <2>4 DEF EnqueueCall, TypeInv
<1>5. ASSUME NEW n \in 1..MaxBatch, CountedCall(p, n) PROVE TypeInv'
  <2>1. counter \in Timestamps /\ n \in 0..MaxBatch
    BY <1>0, <1>1 DEF Timestamps, MAX
  <2>2. enq' \in [Ranks -> Calls]
    BY <1>3, <1>5, <2>1, CallsClosed DEF CountedCall
  <2>3. inQueue' \subseteq Ranks \X Nat
    BY <1>2, <1>5, <2>1, RecordCallIs DEF CountedCall, TypeInv
  <2> QED
    BY <1>5, <2>2, <2>3 DEF CountedCall, TypeInv
<1>6. ASSUME Stamping(p) PROVE TypeInv'
  <2>1. PICK t \in Nat : t < counter' /\ enq' = [enq EXCEPT ![p].pc = "put", ![p].ts = Timestamp(t)]
    BY <1>6 DEF Stamping
  <2>2. counter' \in 0..MaxCalls /\ Timestamp(t) = t /\ t \in Timestamps
    BY <1>0, <1>1, <1>6, <2>1, TimestampIs DEF Stamping, Timestamps, MAX
  <2>3. enq' = [enq EXCEPT ![p] = [enq[p] EXCEPT !.pc = "put", !.ts = t]]
    BY <2>1, <2>2
  <2>4. enq' \in [Ranks -> Calls]
    BY <1>3, <2>2, <2>3, CallsClosed
  <2> QED
    BY <1>6, <2>2, <2>4 DEF Stamping, TypeInv, inQueue
<1>7. ASSUME NEW pc \in {"readSlot", "check", "swap"}, GoOn(p, pc)
      PROVE  enq' \in [Ranks -> Calls] /\ accepted' \in [Ranks -> Nat]
  <2>1. enq' = [enq EXCEPT ![p] = [enq[p] EXCEPT !.pc = pc]]
    BY <1>7 DEF GoOn
  <2>2. [enq[p] EXCEPT !.pc = pc] \in Calls
    BY <1>3, CallsClosed
  <2> QED BY <1>3, <1>7, <2>1, <2>2 DEF GoOn
<1>8. ASSUME EnqueueReturn(p)
      PROVE  enq' \in [Ranks -> Calls] /\ accepted' \in [Ranks -> Nat]
  <2>1. accepted[p] + enq[p].n \in Nat
    BY <1>3
  <2>2. accepted' = [accepted EXCEPT ![p] = accepted[p] + enq[p].n]
    BY <1>8 DEF EnqueueReturn
  <2>3. enq' = [enq EXCEPT ![p] = EnqIdle]
    BY <1>8 DEF EnqueueReturn
  <2> QED BY <1>3, <2>1, <2>2, <2>3, CallsClosed
<1>9. ASSUME Put(p) PROVE TypeInv'
  <2>1. spsc' \in [Ranks -> Seq(Elements)]
    BY <1>0, <1>9, PutEffect DEF Put
  <2> QED
    BY <1>7, <1>9, <2>1 DEF Put, TypeInv, inQueue
<1>10. ASSUME EnqueueFull(p) PROVE TypeInv'
  <2>1. inQueue' \subseteq inQueue
    BY <1>10, RecordGoneIs DEF EnqueueFull
  <2>2. enq' \in [Ranks -> Calls]
    BY <1>3, <1>10, CallsClosed DEF EnqueueFull
  <2> QED
    BY <1>10, <2>1, <2>2 DEF EnqueueFull, TypeInv
<1>11. ASSUME CheckFront(p) \/ RecheckFront(p) PROVE TypeInv'
  BY <1>7, <1>8, <1>11 DEF CheckFront, RecheckFront, TypeInv, inQueue
<1>12. ASSUME ReadSlot(p) PROVE TypeInv'
  <2>1. enq' = [enq EXCEPT ![p] = [enq[p] EXCEPT !.old = slot[p], !.pc = "recheck"]]
    BY <1>12 DEF ReadSlot
  <2>2. enq' \in [Ranks -> Calls]
    BY <1>3, <2>1, CallsClosed DEF TypeInv
  <2> QED BY <1>12, <2>2 DEF ReadSlot, TypeInv, inQueue
<1>13. ASSUME SwapSlot(p) PROVE TypeInv'
  <2>1. slot' \in [Ranks -> Timestamps]
    BY <1>3, <1>13 DEF SwapSlot, TypeInv, Calls
  <2> QED BY <1>8, <1>13, <2>1 DEF SwapSlot, TypeInv, inQueue
<1>14. ASSUME SwapSlotFails(p) PROVE TypeInv'
  <2>1. CASE EnqueueReturn(p)
    BY <1>8, <1>14, <2>1 DEF SwapSlotFails, TypeInv, inQueue
  <2>2. CASE enq' = [enq EXCEPT ![p].try = 2, ![p].pc = "check"] /\ UNCHANGED accepted
    <3>1. enq' = [enq EXCEPT ![p] = [enq[p] EXCEPT !.try = 2, !.pc = "check"]]
      BY <2>2
    <3>2. enq' \in [Ranks -> Calls]
      BY <1>3, <3>1, CallsClosed
    <3> QED BY <1>14, <2>2, <3>2 DEF SwapSlotFails, TypeInv, inQueue
  <2> QED BY <1>14, <2>1, <2>2 DEF SwapSlotFails
<1> QED
  BY <1>4, <1>5, <1>6, <1>9, <1>10, <1>11, <1>12, <1>13, <1>14 DEF Enqueueing, RefreshEnqueue

--------------------------------------------------------------------------------
(* The lowest of a set of ranks, and the ranks the dequeuer selects. *)
LEMMA SmallestIn ==
  ASSUME NEW S, S \subseteq Nat, S # {}
  PROVE  \E k \in S : \A j \in S : k <= j
<1> DEFINE Less == {ss \in Nat \X Nat : ss[1] < ss[2]}
<1>1. IsWellFoundedOn(Less, Nat)
  <2>1. OpToRel(<, Nat) = Less
    BY Zenon DEF OpToRel
  <2> QED BY <2>1, NatLessThanWellFounded, Zenon
<1>2. \A x, y \in Nat : x < y => <<x, y>> \in Less
  OBVIOUS
<1> HIDE DEF Less
<1>3. PICK k \in S : \A j \in S : ~ (<<j, k>> \in Less)
  BY <1>1, WFMin
<1>4. ASSUME NEW j \in S PROVE k <= j
  <2>1. ~ (j < k)
    BY <1>2, <1>3
  <2> QED BY <2>1
<1> QED BY <1>4

LEMMA LowestIn ==
  ASSUME NEW S, S \subseteq Ranks, S # {}
  PROVE  Lowest(S) \in S /\ \A r \in S : Lowest(S) <= r
<1>1. S \subseteq Nat
  BY SlotsAssumption DEF SlotsAssumption, Ranks
<1>2. \E k \in S : \A j \in S : k <= j
  BY <1>1, SmallestIn
<1> QED BY <1>2 DEF Lowest

LEMMA LeastOf ==
  ASSUME \A p \in Ranks : buf[p] \in Nat, Visible # {}
  PROVE  LET rank == Lowest({p \in Visible : \A r \in Visible : buf[p] <= buf[r]})
         IN  rank \in Ranks /\ buf[rank] # MAX /\ \A r \in Visible : buf[rank] <= buf[r]
<1> DEFINE least == {p \in Visible : \A r \in Visible : buf[p] <= buf[r]}
           stamps == {buf[p] : p \in Visible}
<1>1. stamps \subseteq Nat /\ stamps # {} /\ least \subseteq Ranks
  BY DEF Visible
<1>2. PICK t \in stamps : \A u \in stamps : t <= u
  BY <1>1, SmallestIn
<1>3. least # {}
  BY <1>2
<1>4. Lowest(least) \in least
  BY <1>1, <1>3, LowestIn
<1> HIDE DEF stamps
<1> QED BY <1>1, <1>4 DEF Visible

LEMMA LeastIn ==
  ASSUME TypeInv, Visible # {}
  PROVE  LET rank == Lowest({p \in Visible : \A r \in Visible : buf[p] <= buf[r]})
         IN  rank \in Ranks /\ buf[rank] # MAX /\ \A r \in Visible : buf[rank] <= buf[r]
<1>1. \A p \in Ranks : buf[p] \in Nat
  BY SlotsAssumption DEF SlotsAssumption, TypeInv, Timestamps
<1> QED BY <1>1, LeastOf

LEMMA ReselectedIn ==
  ASSUME TypeInv, NEW rank \in Ranks, buf[rank] # MAX
  PROVE  Reselected(rank) \in Ranks /\ buf[Reselected(rank)] # MAX /\ buf[Reselected(rank)] <= buf[rank]
<1> DEFINE smaller == {p \in Visible : p < rank /\ buf[p] < buf[rank]}
<1>1. smaller \subseteq Ranks /\ \A p \in Ranks : buf[p] \in Nat
  BY SlotsAssumption DEF SlotsAssumption, TypeInv, Timestamps, Visible
<1>2. CASE smaller = {}
  BY <1>1, <1>2 DEF Reselected
<1>3. CASE smaller # {}
  <2>1. Reselected(rank) \in smaller
    BY <1>1, <1>3, LowestIn DEF Reselected
  <2> QED BY <1>1, <2>1 DEF Visible
<1> QED BY <1>2, <1>3

(* What a scan of either loop reads. *)
LEMMA ScanReads ==
  ASSUME deq.next \in Nat, NEW limit \in 0..Size, ScanSlot(limit, Cached)
  PROVE  \E p \in Ranks :
           /\ p < limit /\ p >= deq.next
           /\ \A q \in Ranks : q < p => q < deq.next \/ (Cached /\ buf[q] # MAX)
           /\ buf' = [buf EXCEPT ![p] = slot[p]] /\ deq' = [deq EXCEPT !.next = p + 1]
           /\ p + 1 \in 0..Size
<1> DEFINE p == Lowest(ToRead(limit, Cached))
<1>1. p \in ToRead(limit, Cached) /\ \A r \in ToRead(limit, Cached) : p <= r
  BY LowestIn DEF ScanSlot, ToRead
<1>2. p \in Ranks /\ p < limit /\ deq.next <= p /\ Size \in Nat /\ limit \in Nat /\ deq.next \in Nat
  BY <1>1, SlotsAssumption DEF ToRead, SlotsAssumption
<1>3. ASSUME NEW q \in Ranks, q < p, deq.next <= q PROVE Cached /\ buf[q] # MAX
  <2>1. q \notin ToRead(limit, Cached) /\ q < limit
    BY <1>1, <1>2, <1>3 DEF Ranks
  <2> QED BY <1>3, <2>1 DEF ToRead
<1>4. p + 1 \in 0..Size
  BY <1>2 DEF Ranks
<1>5. buf' = [buf EXCEPT ![p] = slot[p]] /\ deq' = [deq EXCEPT !.next = p + 1]
  BY DEF ScanSlot
<1> HIDE DEF p
<1>6. \A q \in Ranks : q < p => q < deq.next \/ (Cached /\ buf[q] # MAX)
  BY <1>2, <1>3 DEF Ranks
<1> QED BY <1>2, <1>4, <1>5, <1>6

LEMMA ScanSlotIs ==
  ASSUME TypeInv, NEW limit \in 0..Size, ScanSlot(limit, Cached)
  PROVE  \E p \in Ranks :
           /\ p < limit /\ p >= deq.next
           /\ \A q \in Ranks : q < p => q < deq.next \/ (Cached /\ buf[q] # MAX)
           /\ buf' = [buf EXCEPT ![p] = slot[p]] /\ deq' = [deq EXCEPT !.next = p + 1]
           /\ p + 1 \in 0..Size
<1>1. deq.next \in Nat
  BY SlotsAssumption DEF SlotsAssumption, TypeInv, Scans
<1> QED BY <1>1, ScanReads

--------------------------------------------------------------------------------
(* What dequeue takes: the element at the front of an SPSC whose slot shows it.  *)
Taking(r) ==
  /\ deq.pc = "rescan"
  /\ slot[r] # MAX /\ slot[r] = FrontTimestamp(r) /\ slot[r] = buf[r] /\ spsc[r] # <<>>
  /\ buf[r] <= buf[deq.rank]
  /\ buf' = IF Cached THEN [buf EXCEPT ![r] = MAX] ELSE buf
  /\ deq' = [DeqIdle EXCEPT !.pc = "readSlot", !.rank = r]
  /\ dOut' = Head(spsc[r]).item
  /\ spsc' = [spsc EXCEPT ![r] = Tail(@)]
  /\ RecordGone({Head(spsc[r]).item})
  /\ settled' = {}
  /\ UNCHANGED <<counter, slot, enqVars>>

LEMMA TakeIs ==
  ASSUME IInv, Take(Cached)
  PROVE  \E r \in Ranks : Taking(r) /\ r = Reselected(deq.rank)
<1> DEFINE r == Reselected(deq.rank)
<1>1. deq.pc = "rescan" /\ deq.rank \in Ranks /\ buf[deq.rank] # MAX
  BY DEF Take, IInv, TypeInv, SelectedInv, Scans
<1>2. r \in Ranks /\ buf[r] # MAX /\ buf[r] <= buf[deq.rank]
  BY <1>1, ReselectedIn DEF IInv
<1>3. slot[r] = buf[r] /\ slot[r] \in {MAX, FrontTimestamp(r)}
  BY <1>1, <1>2 DEF IInv, SlotInv, QuietInv, Refreshing, Fresh
<1>4. FrontTimestamp(r) # MAX /\ spsc[r] # <<>>
  BY <1>2, <1>3 DEF FrontTimestamp
<1>5. /\ buf' = IF Cached THEN [buf EXCEPT ![r] = MAX] ELSE buf
      /\ deq' = [DeqIdle EXCEPT !.pc = "readSlot", !.rank = r]
      /\ dOut' = Head(spsc[r]).item
      /\ spsc' = [spsc EXCEPT ![r] = Tail(@)]
      /\ RecordGone({Head(spsc[r]).item})
      /\ settled' = {}
      /\ UNCHANGED <<counter, slot, enqVars>>
  BY <1>4 DEF Take
<1>6. r = Reselected(deq.rank)
  OBVIOUS
<1> HIDE DEF r
<1> QED BY <1>1, <1>2, <1>3, <1>4, <1>5, <1>6 DEF Taking

LEMMA ScansClosed ==
  /\ DeqIdle \in Scans
  /\ [DeqIdle EXCEPT !.pc = "scan"] \in Scans
  /\ \A r \in Ranks : [DeqIdle EXCEPT !.pc = "readSlot", !.rank = r] \in Scans
  /\ \A d \in Scans :
       /\ \A k \in 0..Size : [d EXCEPT !.next = k] \in Scans
       /\ \A r \in Ranks : [d EXCEPT !.pc = "rescan", !.next = 0, !.rank = r] \in Scans
       /\ \A t \in Timestamps :
            [d EXCEPT !.old = t, !.pc = "front"] \in Scans /\ [d EXCEPT !.pc = "swap", !.new = t] \in Scans
       /\ [d EXCEPT !.try = 2, !.pc = "readSlot"] \in Scans
<1>1. MaxTimestamp \in Nat /\ Size \in Nat \ {0}
  BY SlotsAssumption DEF SlotsAssumption
<1>2. DeqIdle \in Scans
  BY <1>1 DEF Scans, DeqIdle, Timestamps, Ranks
<1>3. \A d \in Scans :
        /\ \A k \in 0..Size : [d EXCEPT !.next = k] \in Scans
        /\ \A r \in Ranks : [d EXCEPT !.rank = r] \in Scans
        /\ [d EXCEPT !.try = 2] \in Scans
  BY DEF Scans
<1>4. \A d \in Scans : \A t \in Timestamps :
        [d EXCEPT !.old = t] \in Scans /\ [d EXCEPT !.new = t] \in Scans
  BY DEF Scans
<1>5. \A d \in Scans : \A pc \in {"idle", "scan", "rescan", "readSlot", "front", "swap"} :
        [d EXCEPT !.pc = pc] \in Scans
  BY DEF Scans
<1> HIDE DEF Scans
<1>6. 0 \in 0..Size
  BY <1>1
<1> QED BY <1>2, <1>3, <1>4, <1>5, <1>6

LEMMA DequeueTypes ==
  ASSUME IInv, Dequeueing(Cached), class' = class
  PROVE  TypeInv'
<1>1. /\ MaxTimestamp \in Nat \ {0} /\ Size \in Nat \ {0} /\ deq \in Scans /\ deq.rank \in Ranks
      /\ TypeInv /\ MAX \in Timestamps /\ 0 \in 0..Size /\ Size \in 0..Size
      /\ \A p \in Ranks : FrontTimestamp(p) \in Timestamps /\ slot[p] \in Timestamps
  <2>1. TypeInv
    BY DEF IInv
  <2>2. MaxTimestamp \in Nat \ {0} /\ Size \in Nat \ {0} /\ MAX \in Timestamps
    BY SlotsAssumption DEF SlotsAssumption, Timestamps, MAX
  <2>3. deq \in Scans /\ deq.rank \in Ranks
    BY <2>1 DEF TypeInv, Scans
  <2>4. \A p \in Ranks : FrontTimestamp(p) \in Timestamps /\ slot[p] \in Timestamps
    BY <2>1, FrontIs DEF TypeInv
  <2> QED BY <2>1, <2>2, <2>3, <2>4
<1> USE DEF enqVars
<1>2. ASSUME DequeueCall PROVE TypeInv'
  BY <1>1, <1>2, ScansClosed DEF DequeueCall, TypeInv, inQueue
<1>3. ASSUME NEW limit \in 0..Size, ScanSlot(limit, Cached) PROVE TypeInv'
  <2>1. PICK p \in Ranks : /\ buf' = [buf EXCEPT ![p] = slot[p]] /\ deq' = [deq EXCEPT !.next = p + 1]
                           /\ p + 1 \in 0..Size
    BY <1>1, <1>3, ScanSlotIs
  <2>2. deq' \in Scans
    BY <1>1, <2>1, ScansClosed
  <2>3. buf' \in [Ranks -> Timestamps]
    BY <1>1, <2>1 DEF TypeInv
  <2> QED BY <1>1, <1>3, <2>2, <2>3 DEF ScanSlot, TypeInv, inQueue
<1>4. ASSUME Select(Cached) PROVE TypeInv'
  <2> DEFINE r == Lowest({p \in Visible : \A q \in Visible : buf[p] <= buf[q]})
  <2>1. r \in Ranks
    BY <1>1, <1>4, LeastIn DEF Select
  <2>2. deq' = [deq EXCEPT !.pc = "rescan", !.next = 0, !.rank = r]
    BY <1>4 DEF Select
  <2> HIDE DEF r
  <2>3. deq' \in Scans
    BY <1>1, <2>1, <2>2, ScansClosed
  <2> QED BY <1>1, <1>4, <2>3 DEF Select, TypeInv, inQueue
<1>5. ASSUME SelectNone(Cached) PROVE TypeInv'
  BY <1>1, <1>5, ScansClosed DEF SelectNone, TypeInv, inQueue
<1>6. ASSUME Take(Cached) PROVE TypeInv'
  <2>1. PICK r \in Ranks : Taking(r)
    BY <1>6, TakeIs
  <2>2. spsc' \in [Ranks -> Seq(Elements)] /\ Head(spsc[r]) = spsc[r][1] /\ Len(spsc[r]) \in Nat \ {0}
    BY <1>1, <2>1, TailEffect DEF Taking
  <2>3. spsc[r][1] \in Elements
    BY <1>1, <2>2, FrontIs
  <2>4. dOut' \in Ranks \X Nat
    BY <2>1, <2>2, <2>3 DEF Taking, Elements
  <2>5. deq' \in Scans
    BY <2>1, ScansClosed DEF Taking
  <2>6. buf' \in [Ranks -> Timestamps]
    BY <1>1, <2>1 DEF Taking, TypeInv
  <2>7. inQueue' \subseteq inQueue
    BY <2>1, RecordGoneIs DEF Taking
  <2> QED BY <1>1, <2>1, <2>2, <2>4, <2>5, <2>6, <2>7 DEF Taking, TypeInv
<1>7. ASSUME DReadSlot PROVE TypeInv'
  <2>1. deq' \in Scans
    BY <1>1, <1>7, ScansClosed DEF DReadSlot
  <2> QED BY <1>1, <1>7, <2>1 DEF DReadSlot, TypeInv, inQueue
<1>8. ASSUME DReadFront(Cached) PROVE TypeInv'
  <2>1. deq' \in Scans
    BY <1>1, <1>8, ScansClosed DEF DReadFront
  <2>2. buf' \in [Ranks -> Timestamps]
    BY <1>1, <1>8 DEF DReadFront, TypeInv
  <2> QED BY <1>1, <1>8, <2>1, <2>2 DEF DReadFront, TypeInv, inQueue
<1>9. ASSUME DSwapSlot PROVE TypeInv'
  <2>1. slot' \in [Ranks -> Timestamps]
    BY <1>1, <1>9 DEF DSwapSlot, TypeInv, Scans
  <2> QED BY <1>1, <1>9, <2>1, ScansClosed DEF DSwapSlot, TypeInv, inQueue
<1>10. ASSUME DSwapSlotFails PROVE TypeInv'
  <2>1. deq' \in Scans
    BY <1>1, <1>10, ScansClosed DEF DSwapSlotFails
  <2> QED BY <1>1, <1>10, <2>1 DEF DSwapSlotFails, TypeInv, inQueue
<1>11. deq.rank \in 0..Size
  BY <1>1 DEF Ranks
<1> QED
  BY <1>1, <1>2, <1>3, <1>4, <1>5, <1>6, <1>7, <1>8, <1>9, <1>10, <1>11
     DEF Dequeueing, ReadMinimumRank, RefreshDequeue, FirstScan, SecondScan

--------------------------------------------------------------------------------
(* A step of another rank keeps what is known about rank q. *)
LEMMA EnqueueFrame ==
  ASSUME TypeInv, NEW p \in Ranks, Enqueueing(p), NEW q \in Ranks, q # p
  PROVE  /\ enq'[q] = enq[q] /\ spsc'[q] = spsc[q] /\ slot'[q] = slot[q] /\ accepted'[q] = accepted[q]
         /\ counter \in Nat /\ counter' \in Nat /\ counter <= counter'
         /\ \A x \in inQueue : x[1] = q => x \in inQueue'
         /\ UNCHANGED deqVars
<1>1. counter \in Nat /\ \A n : \A x \in Batch(p, n) : x[1] = p
  BY SlotsAssumption DEF TypeInv, SlotsAssumption, Batch
<1> USE DEF TypeInv
<1>2. ASSUME NEW n \in 1..MaxBatch, EnqueueCall(p, n) \/ CountedCall(p, n)
      PROVE  /\ enq'[q] = enq[q] /\ UNCHANGED <<spsc, slot, accepted, deqVars>>
             /\ counter' \in {counter, counter + 1} /\ inQueue \subseteq inQueue'
  BY <1>2, RecordCallIs DEF EnqueueCall, CountedCall, GetAndIncrement
<1>3. ASSUME Stamping(p)
      PROVE  /\ enq'[q] = enq[q] /\ UNCHANGED <<spsc, slot, accepted, deqVars, before>>
             /\ counter' \in {counter, counter + 1}
  BY <1>3 DEF Stamping
<1>4. ASSUME Put(p)
      PROVE  /\ enq'[q] = enq[q] /\ spsc'[q] = spsc[q]
             /\ UNCHANGED <<slot, accepted, deqVars, before, counter>>
  BY <1>4 DEF Put, GoOn
<1>5. ASSUME EnqueueFull(p)
      PROVE  /\ enq'[q] = enq[q] /\ UNCHANGED <<spsc, slot, accepted, deqVars, counter>>
             /\ inQueue' = inQueue \ Batch(p, enq[p].n)
  BY <1>5, RecordGoneIs DEF EnqueueFull
<1>6. ASSUME RefreshEnqueue(p)
      PROVE  /\ enq'[q] = enq[q] /\ slot'[q] = slot[q] /\ accepted'[q] = accepted[q]
             /\ UNCHANGED <<spsc, deqVars, before, counter>>
  BY <1>6 DEF RefreshEnqueue, CheckFront, ReadSlot, RecheckFront, SwapSlot, SwapSlotFails,
              GoOn, EnqueueReturn
<1>7. before' = before => inQueue' = inQueue
  BY DEF inQueue
<1> HIDE DEF TypeInv
<1> QED BY <1>1, <1>2, <1>3, <1>4, <1>5, <1>6, <1>7 DEF Enqueueing

LEMMA FrontSame ==
  ASSUME NEW p, spsc'[p] = spsc[p]
  PROVE  FrontTimestamp(p)' = FrontTimestamp(p)
BY DEF FrontTimestamp

(* StampInv and SpscInv only grow with the counter and with the queue. *)
LEMMA SpscFrame ==
  ASSUME TypeInv, NEW q \in Ranks, StampInv(q), SpscInv(q),
         enq'[q] = enq[q], spsc'[q] = spsc[q], slot'[q] = slot[q], accepted'[q] = accepted[q],
         counter' \in Nat, counter <= counter', \A x \in inQueue : x[1] = q => x \in inQueue'
  PROVE  StampInv(q)' /\ SpscInv(q)'
<1>1. /\ counter \in Nat /\ Bound(q) \in Nat /\ Bound(q)' \in Nat /\ Bound(q) <= Bound(q)'
      /\ enq[q].ts \in Nat /\ slot[q] \in Nat /\ Granted(q)' = Granted(q)
      /\ Putting(q)' = Putting(q) /\ Returning(q)' = Returning(q) /\ Committed(q)' = Committed(q)
  BY SlotsAssumption
     DEF SlotsAssumption, TypeInv, Calls, Timestamps, Bound, Granted, Putting, Returning, Committed
<1>2. \A i \in 1..Len(spsc[q]) : spsc[q][i].ts \in Nat
  BY FrontIs
<1>3. StampInv(q)'
  BY <1>1 DEF StampInv, MAX
<1>4. \A n : Batch(q, n)' = Batch(q, n) /\ \A x \in Batch(q, n) : x[1] = q
  BY DEF Batch
<1>5. Putting(q)' => Batch(q, enq[q].n)' \subseteq inQueue'
  BY <1>1, <1>4 DEF SpscInv
<1>6. ASSUME NEW i \in 1..Len(spsc[q]) PROVE spsc[q][i].item \in inQueue' /\ spsc[q][i].ts < Bound(q)'
  BY <1>1, <1>2 DEF SpscInv
<1>7. SpscInv(q)'
  BY <1>1, <1>5, <1>6 DEF SpscInv
<1> QED BY <1>3, <1>7

LEMMA SlotFrame ==
  ASSUME NEW q \in Ranks, SlotInv(q), class' = class,
         enq'[q] = enq[q], spsc'[q] = spsc[q], slot'[q] = slot[q], UNCHANGED deqVars
  PROVE  SlotInv(q)'
<1>1. FrontTimestamp(q)' = FrontTimestamp(q)
  BY FrontSame
<1> QED
  BY <1>1 DEF SlotInv, QuietInv, RefreshInv, Refreshing, Fresh, Cached, Returning, MAX, deqVars

LEMMA OthersKept ==
  ASSUME IInv, NEW p \in Ranks, Enqueueing(p), class' = class
  PROVE  \A q \in Ranks : q # p => StampInv(q)' /\ SpscInv(q)' /\ SlotInv(q)'
<1>1. TypeInv /\ \A q \in Ranks : StampInv(q) /\ SpscInv(q) /\ SlotInv(q)
  BY DEF IInv
<1> QED BY <1>1, EnqueueFrame, SpscFrame, SlotFrame

--------------------------------------------------------------------------------
(* The steps of an enqueue before the put. *)
Beginning(p) ==
  /\ enq[p].pc \in {"idle", "count"} /\ enq'[p].pc \in {"count", "put"} /\ enq'[p].try = 1
  /\ Bound(p) <= Bound(p)'
  /\ enq'[p].ts <= counter' /\ (enq'[p].pc = "put" => enq'[p].ts < counter')
  /\ UNCHANGED <<spsc, slot, accepted, deqVars>>
  /\ \A x \in inQueue : x[1] = p => x \in inQueue'
  /\ Batch(p, enq[p].n)' \subseteq inQueue'

LEMMA CallIs ==
  ASSUME NoWrapAround, TypeInv, NEW p \in Ranks, NEW n \in 1..MaxBatch, EnqueueCall(p, n) \/ CountedCall(p, n)
  PROVE  /\ enq[p].pc = "idle" /\ enq'[p].pc \in {"count", "put"} /\ enq'[p].try = 1 /\ enq'[p].n = n
         /\ enq'[p].ts = counter /\ counter' \in {counter, counter + 1}
         /\ enq'[p].pc = "put" => counter' = counter + 1
         /\ RecordCall(Batch(p, n)) /\ UNCHANGED <<spsc, slot, accepted, deqVars>>
<1>1. counter \in Nat /\ enq \in [Ranks -> Calls]
  BY SlotsAssumption DEF SlotsAssumption, TypeInv
<1>2. CASE EnqueueCall(p, n)
  <2>1. Timestamp(counter) = counter
    BY <1>1, <1>2, TimestampIs DEF EnqueueCall, GetAndIncrement
  <2> QED BY <1>1, <1>2, <2>1 DEF EnqueueCall, GetAndIncrement, EnqIdle
<1>3. CASE CountedCall(p, n)
  BY <1>1, <1>3 DEF CountedCall, EnqIdle
<1> QED BY <1>2, <1>3

LEMMA BeginningIs ==
  ASSUME NoWrapAround, TypeInv, NEW p \in Ranks, StampInv(p), SpscInv(p),
         Stamping(p) \/ \E n \in 1..MaxBatch : EnqueueCall(p, n) \/ CountedCall(p, n)
  PROVE  Beginning(p)
<1>1. /\ counter \in Nat /\ enq \in [Ranks -> Calls] /\ enq[p] \in Calls /\ enq[p].ts \in Nat
      /\ accepted \in [Ranks -> Nat]
  BY SlotsAssumption DEF SlotsAssumption, TypeInv, Timestamps, Calls
<1>2. \A n : accepted' = accepted => Batch(p, n)' = Batch(p, n)
  BY DEF Batch
<1>3. ASSUME NEW n \in 1..MaxBatch, EnqueueCall(p, n) \/ CountedCall(p, n) PROVE Beginning(p)
  <2>1. /\ enq[p].pc = "idle" /\ enq'[p].pc \in {"count", "put"} /\ enq'[p].try = 1 /\ enq'[p].n = n
        /\ enq'[p].ts = counter /\ counter' \in {counter, counter + 1}
        /\ enq'[p].pc = "put" => counter' = counter + 1
    BY <1>3, CallIs
  <2>2. inQueue' = inQueue \cup Batch(p, n) /\ UNCHANGED <<spsc, slot, accepted, deqVars>>
    BY <1>3, RecordCallIs DEF EnqueueCall, CountedCall
  <2>3. Batch(p, enq[p].n)' \subseteq inQueue'
    BY <1>2, <2>1, <2>2
  <2>4. Bound(p) <= Bound(p)'
    BY <1>1, <2>1 DEF Bound, Putting
  <2>5. enq'[p].ts <= counter' /\ (enq'[p].pc = "put" => enq'[p].ts < counter')
    BY <1>1, <2>1
  <2> QED BY <2>1, <2>2, <2>3, <2>4, <2>5 DEF Beginning
<1>4. ASSUME Stamping(p) PROVE Beginning(p)
  <2>1. PICK t \in Nat : /\ enq[p].ts <= t /\ t < counter'
                         /\ enq' = [enq EXCEPT ![p].pc = "put", ![p].ts = Timestamp(t)]
    BY <1>4 DEF Stamping
  <2>2. /\ enq[p].pc = "count" /\ counter' \in {counter, counter + 1} /\ counter' <= MaxCalls
        /\ UNCHANGED <<spsc, slot, accepted, before, deqVars>>
    BY <1>4 DEF Stamping
  <2>3. Timestamp(t) = t
    BY <1>1, <2>1, <2>2, TimestampIs, SlotsAssumption DEF SlotsAssumption
  <2>4. enq'[p].pc = "put" /\ enq'[p].ts = t /\ enq'[p].n = enq[p].n /\ enq'[p].try = enq[p].try
    BY <1>1, <2>1, <2>3 DEF Calls
  <2>5. inQueue' = inQueue /\ Batch(p, enq[p].n)' \subseteq inQueue'
    BY <1>2, <2>2, <2>4 DEF SpscInv, Putting, inQueue
  <2>6. Bound(p) <= Bound(p)' /\ enq[p].try = 1
    BY <1>1, <2>1, <2>2, <2>4 DEF Bound, Putting, StampInv
  <2> QED BY <1>1, <2>1, <2>2, <2>4, <2>5, <2>6 DEF Beginning
<1> QED BY <1>3, <1>4

LEMMA BeginningKeeps ==
  ASSUME TypeInv, TypeInv', NEW p \in Ranks, StampInv(p), SpscInv(p), SlotInv(p), class' = class,
         Beginning(p)
  PROVE  StampInv(p)' /\ SpscInv(p)' /\ SlotInv(p)'
<1>1. /\ counter \in Nat /\ counter' \in Nat /\ enq'[p].ts \in Nat /\ slot[p] \in Nat
      /\ Bound(p) \in Nat /\ Bound(p)' \in Nat
      /\ Bound(p) <= Bound(p)' /\ Granted(p)' = Granted(p)
      /\ Putting(p)' /\ ~Returning(p) /\ ~Returning(p)' /\ ~Committed(p) /\ ~Committed(p)'
      /\ enq[p].pc \in {"idle", "count"} /\ enq'[p].pc \in {"count", "put"} /\ enq'[p].try = 1
      /\ enq'[p].ts <= counter' /\ (enq'[p].pc = "put" => enq'[p].ts < counter')
      /\ Batch(p, enq[p].n)' \subseteq inQueue' /\ \A x \in inQueue : x[1] = p => x \in inQueue'
  BY SlotsAssumption
     DEF SlotsAssumption, TypeInv, Calls, Timestamps, Bound, Granted, Putting, Returning, Committed, Beginning
<1>2. \A i \in 1..Len(spsc[p]) : spsc[p][i].ts \in Nat
  BY FrontIs
<1>3. UNCHANGED <<spsc, slot, accepted, deqVars>> /\ FrontTimestamp(p)' = FrontTimestamp(p)
  BY FrontSame DEF Beginning
<1>4. StampInv(p)'
  BY <1>1, <1>3 DEF StampInv, MAX
<1>5. ASSUME NEW i \in 1..Len(spsc[p]) PROVE spsc[p][i].item \in inQueue' /\ spsc[p][i].ts < Bound(p)'
  BY <1>1, <1>2 DEF SpscInv
<1>6. SpscInv(p)'
  BY <1>1, <1>3, <1>5 DEF SpscInv
<1>7. SlotInv(p)'
  BY <1>1, <1>3 DEF SlotInv, QuietInv, RefreshInv, Refreshing, Fresh, Cached, Returning, MAX, deqVars
<1> QED BY <1>4, <1>6, <1>7

--------------------------------------------------------------------------------
LEMMA FrontNext ==
  ASSUME TypeInv', NEW p \in Ranks
  PROVE  FrontTimestamp(p)' = IF Len(spsc'[p]) = 0 THEN MAX ELSE spsc'[p][1].ts
<1>1. spsc'[p] \in Seq(Elements)
  BY DEF TypeInv, Elements, MAX
<1>2. spsc'[p] = <<>> <=> Len(spsc'[p]) = 0
  BY <1>1
<1>3. spsc'[p] # <<>> => Head(spsc'[p]) = spsc'[p][1]
  BY <1>1
<1> QED BY <1>2, <1>3 DEF FrontTimestamp, MAX

(* The put. *)
LEMMA PutKeeps ==
  ASSUME TypeInv, TypeInv', NEW p \in Ranks, StampInv(p), SpscInv(p), SlotInv(p), class' = class,
         Put(p), enq[p].ts < MAX
  PROVE  StampInv(p)' /\ SpscInv(p)' /\ SlotInv(p)'
<1>1. /\ counter \in Nat /\ counter' = counter /\ enq[p].ts \in Nat /\ enq[p].n \in Nat /\ accepted[p] \in Nat
      /\ slot[p] \in Nat /\ slot' = slot /\ accepted' = accepted /\ before' = before /\ UNCHANGED deqVars
      /\ enq[p].pc = "put" /\ enq'[p].pc = "check" /\ enq'[p].try = enq[p].try
      /\ enq'[p].ts = enq[p].ts /\ enq'[p].n = enq[p].n /\ MAX \in Nat
  BY SlotsAssumption
     DEF SlotsAssumption, TypeInv, Calls, Timestamps, Put, GoOn, MAX
<1>2. /\ Bound(p) = enq[p].ts /\ Bound(p)' = counter /\ enq[p].ts < counter /\ enq[p].try = 1
      /\ Granted(p) = accepted[p] /\ Granted(p)' = accepted[p] + enq[p].n
      /\ Putting(p) /\ ~Returning(p) /\ ~Committed(p) /\ ~Putting(p)' /\ Returning(p)' /\ ~Committed(p)'
  BY <1>1 DEF Bound, Granted, Putting, Returning, Committed, StampInv
<1>3. /\ Len(spsc[p]) \in Nat /\ Len(spsc'[p]) = Len(spsc[p]) + enq[p].n
      /\ \A i \in 1..Len(spsc[p]) : spsc'[p][i] = spsc[p][i]
      /\ \A i \in 1..Len(spsc'[p]) : i > Len(spsc[p]) =>
           /\ i - Len(spsc[p]) \in 1..enq[p].n
           /\ spsc'[p][i] = [item |-> <<p, accepted[p] + (i - Len(spsc[p]))>>, ts |-> enq[p].ts]
  BY PutEffect
<1>13. accepted[p] \in Nat /\ enq[p].n \in Nat /\ enq[p].ts \in Nat /\ counter \in Nat /\ enq[p].ts < counter
  BY <1>1, <1>2
<1>4. StampInv(p)'
  BY <1>1, <1>2 DEF StampInv, MAX
<1>5. ASSUME NEW i \in 1..Len(spsc'[p]), i <= Len(spsc[p])
      PROVE  /\ i \in 1..Len(spsc[p]) /\ spsc'[p][i] = spsc[p][i]
             /\ spsc'[p][i].item[1] = p /\ spsc'[p][i].item \in inQueue
             /\ spsc'[p][i].ts \in Nat /\ spsc'[p][i].ts < enq[p].ts
             /\ spsc'[p][i].item[2] \in Nat /\ spsc'[p][i].item[2] <= accepted[p]
  <2>1. i \in 1..Len(spsc[p])
    BY <1>1, <1>3, <1>5
  <2>2. spsc'[p][i] = spsc[p][i] /\ spsc[p][i] \in Elements /\ spsc[p][i].ts \in Nat
    BY <1>3, <2>1, FrontIs
  <2>3. spsc[p][i].item[2] \in Nat
    BY <2>2 DEF Elements
  <2> QED BY <1>1, <1>2, <2>1, <2>2, <2>3 DEF SpscInv
<1>6. ASSUME NEW i \in 1..Len(spsc'[p]), i > Len(spsc[p])
      PROVE  /\ spsc'[p][i].item[1] = p /\ spsc'[p][i].item \in inQueue
             /\ spsc'[p][i].ts = enq[p].ts
             /\ spsc'[p][i].item[2] = accepted[p] + (i - Len(spsc[p]))
             /\ spsc'[p][i].item[2] > accepted[p] /\ spsc'[p][i].item[2] <= accepted[p] + enq[p].n
  <2> DEFINE k == i - Len(spsc[p])
  <2>1. k \in 1..enq[p].n /\ spsc'[p][i] = [item |-> <<p, accepted[p] + k>>, ts |-> enq[p].ts]
    BY <1>3, <1>6
  <2>2. <<p, accepted[p] + k>> \in Batch(p, enq[p].n)
    BY <2>1 DEF Batch
  <2>3. <<p, accepted[p] + k>> \in inQueue
    BY <1>2, <2>2 DEF SpscInv
  <2> HIDE DEF k
  <2>4. accepted[p] + k > accepted[p] /\ accepted[p] + k <= accepted[p] + enq[p].n
    BY <1>1, <2>1
  <2> QED BY <2>1, <2>3, <2>4 DEF k
<1>7. ASSUME NEW i \in 1..Len(spsc'[p])
      PROVE  /\ spsc'[p][i].item[1] = p /\ spsc'[p][i].item \in inQueue
             /\ spsc'[p][i].ts < counter /\ spsc'[p][i].ts <= enq[p].ts
             /\ spsc'[p][i].item[2] <= accepted[p] + enq[p].n
             /\ spsc'[p][i].ts = enq[p].ts => spsc'[p][i].item[2] > accepted[p]
  <2>1. CASE i <= Len(spsc[p])
    BY <1>5, <1>13, <2>1
  <2>2. CASE i > Len(spsc[p])
    <3>1. /\ spsc'[p][i].item[1] = p /\ spsc'[p][i].item \in inQueue /\ spsc'[p][i].ts = enq[p].ts
          /\ spsc'[p][i].item[2] > accepted[p] /\ spsc'[p][i].item[2] <= accepted[p] + enq[p].n
      BY <1>6, <2>2
    <3>2. enq[p].ts < counter /\ enq[p].ts <= enq[p].ts
      BY <1>13
    <3> QED BY <3>1, <3>2
  <2>3. i <= Len(spsc[p]) \/ i > Len(spsc[p])
    <3>1. i \in Nat /\ Len(spsc[p]) \in Nat
      BY <1>1, <1>3
    <3> QED BY <3>1
  <2> QED BY <2>1, <2>2, <2>3
<1>8. ASSUME NEW i \in 1..Len(spsc'[p]), NEW j \in 1..Len(spsc'[p]), i < j
      PROVE  spsc'[p][i].ts <= spsc'[p][j].ts /\ spsc'[p][i].item[2] < spsc'[p][j].item[2]
  <2>0. i \in Nat /\ j \in Nat
    BY <1>1, <1>3
  <2>1. CASE j <= Len(spsc[p])
    <3>1. i <= Len(spsc[p])
      BY <1>3, <1>8, <2>0, <2>1
    <3> QED BY <1>5, <1>8, <2>1, <3>1 DEF SpscInv
  <2>2. CASE i <= Len(spsc[p]) /\ j > Len(spsc[p])
    <3>1. spsc'[p][i].ts < enq[p].ts /\ spsc'[p][i].ts \in Nat /\ spsc'[p][j].ts = enq[p].ts
      BY <1>5, <1>6, <2>2
    <3>2. /\ spsc'[p][i].item[2] <= accepted[p] /\ spsc'[p][i].item[2] \in Nat
          /\ spsc'[p][j].item[2] = accepted[p] + (j - Len(spsc[p])) /\ Len(spsc[p]) \in Nat
      BY <1>3, <1>5, <1>6, <2>2
    <3>3. accepted[p] < accepted[p] + (j - Len(spsc[p]))
      BY <1>13, <2>0, <2>2, <3>2
    <3>4. spsc'[p][i].ts <= spsc'[p][j].ts
      BY <1>13, <3>1
    <3>5. spsc'[p][i].item[2] < spsc'[p][j].item[2]
      <4> DEFINE m == spsc'[p][i].item[2]
                 k == accepted[p] + (j - Len(spsc[p]))
      <4>1. m \in Nat /\ m <= accepted[p] /\ accepted[p] < k /\ k \in Int
        BY <1>13, <2>0, <3>2, <3>3
      <4> HIDE DEF m, k
      <4>2. m < k
        BY <1>13, <4>1
      <4> QED BY <3>2, <4>2 DEF m, k
    <3> QED BY <3>4, <3>5
  <2>3. CASE i > Len(spsc[p])
    <3>1. j > Len(spsc[p])
      BY <1>3, <1>8, <2>0, <2>3
    <3>2. /\ spsc'[p][i].item[2] = accepted[p] + (i - Len(spsc[p])) /\ Len(spsc[p]) \in Nat
          /\ spsc'[p][j].item[2] = accepted[p] + (j - Len(spsc[p]))
          /\ spsc'[p][i].ts = enq[p].ts /\ spsc'[p][j].ts = enq[p].ts
      BY <1>3, <1>6, <2>3, <3>1
    <3> QED BY <1>8, <1>13, <2>0, <3>2
  <2>4. Len(spsc[p]) \in Nat
    BY <1>3
  <2> QED BY <2>0, <2>1, <2>2, <2>3, <2>4
<1>9. SpscInv(p)'
  BY <1>1, <1>2, <1>7, <1>8 DEF SpscInv, inQueue
<1>10. FrontTimestamp(p)' = FrontTimestamp(p)
         \/ (FrontTimestamp(p) = MAX /\ FrontTimestamp(p)' = enq[p].ts)
  <2>1. FrontTimestamp(p) = IF Len(spsc[p]) = 0 THEN MAX ELSE spsc[p][1].ts
    BY FrontIs
  <2>2. FrontTimestamp(p)' = IF Len(spsc'[p]) = 0 THEN MAX ELSE spsc'[p][1].ts
    BY FrontNext
  <2>3. CASE Len(spsc[p]) = 0
    BY <1>1, <1>3, <1>6, <2>1, <2>2, <2>3
  <2>4. CASE Len(spsc[p]) # 0
    <3>1. 1 \in 1..Len(spsc[p]) /\ Len(spsc'[p]) # 0
      BY <1>1, <1>3, <2>4
    <3> QED BY <1>3, <2>1, <2>2, <2>4, <3>1
  <2> QED BY <2>3, <2>4
<1>11. slot[p] = MAX \/ slot[p] < enq[p].ts
  BY <1>2 DEF StampInv
<1>12. SlotInv(p)'
  <2>0. MAX' = MAX /\ enq[p].ts # MAX /\ slot[p] # enq[p].ts
    BY <1>1, <1>11 DEF MAX
  <2>1. (Refreshing(p)' <=> Refreshing(p)) /\ (Fresh(p)' <=> Fresh(p)) /\ (Cached' <=> Cached)
    BY <1>1 DEF Refreshing, Fresh, Cached, deqVars
  <2>2. buf' = buf /\ deq' = deq
    BY <1>1 DEF deqVars
  <2>3. QuietInv(p)'
    BY <1>1, <1>2, <1>10, <2>0, <2>1, <2>2 DEF SlotInv, QuietInv
  <2>4. RefreshInv(p)'
    BY <1>1, <1>2, <1>10, <2>0, <2>1, <2>2 DEF SlotInv, RefreshInv
  <2> QED BY <1>1, <1>10, <2>1, <2>2, <2>3, <2>4, <2>0 DEF SlotInv
<1> QED BY <1>4, <1>9, <1>12

--------------------------------------------------------------------------------
(* The front of an SPSC that holds elements of a committed call only. *)
LEMMA CommittedFront ==
  ASSUME TypeInv, NEW p \in Ranks, SpscInv(p), Committed(p)
  PROVE  FrontTimestamp(p) \in {MAX, enq[p].ts}
<1>1. FrontTimestamp(p) = IF Len(spsc[p]) = 0 THEN MAX ELSE spsc[p][1].ts
  BY FrontIs
<1>2. Len(spsc[p]) # 0 => 1 \in 1..Len(spsc[p])
  BY FrontIs
<1> QED BY <1>1, <1>2 DEF SpscInv

(* The steps of _refreshEnqueue that go on. *)
Moving(p) ==
  /\ UNCHANGED <<counter, spsc, slot, accepted, before, deqVars>>
  /\ enq'[p].ts = enq[p].ts /\ enq'[p].n = enq[p].n
  /\ \/ /\ enq[p].pc = "check" /\ enq'[p].pc = "readSlot"
        /\ FrontTimestamp(p) = enq[p].ts /\ enq'[p].try = enq[p].try
     \/ /\ enq[p].pc = "readSlot" /\ enq'[p].pc = "recheck"
        /\ enq'[p].old = slot[p] /\ enq'[p].try = enq[p].try
     \/ /\ enq[p].pc = "recheck" /\ enq'[p].pc = "swap"
        /\ FrontTimestamp(p) = enq[p].ts /\ enq'[p].old = enq[p].old /\ enq'[p].try = enq[p].try
     \/ enq[p].pc = "swap" /\ enq'[p].pc = "check" /\ slot[p] # enq[p].old

LEMMA MovingKeeps ==
  ASSUME TypeInv, TypeInv', NEW p \in Ranks, StampInv(p), SpscInv(p), SlotInv(p), class' = class,
         Moving(p), enq[p].ts < MAX
  PROVE  StampInv(p)' /\ SpscInv(p)' /\ SlotInv(p)'
<1>1. /\ UNCHANGED <<counter, spsc, slot, accepted, before, deqVars>>
      /\ enq'[p].ts = enq[p].ts /\ enq'[p].n = enq[p].n
  BY DEF Moving
<1>2. /\ enq[p].pc \in {"check", "readSlot", "recheck", "swap"}
      /\ enq'[p].pc \in {"check", "readSlot", "recheck", "swap"}
  BY DEF Moving
<1>3. /\ Bound(p)' = Bound(p) /\ Granted(p)' = Granted(p) /\ ~Putting(p) /\ ~Putting(p)'
      /\ Returning(p) /\ Returning(p)' /\ FrontTimestamp(p)' = FrontTimestamp(p) /\ inQueue' = inQueue
  BY <1>1, <1>2, FrontSame DEF Bound, Granted, Putting, Returning, inQueue
<1>4. StampInv(p)'
  BY <1>1, <1>2, <1>3 DEF StampInv, MAX
<1>5. Committed(p)' => \A i \in 1..Len(spsc[p]) : spsc[p][i].ts = enq[p].ts
  <2>1. CASE Committed(p)
    BY <2>1 DEF SpscInv
  <2>2. CASE enq[p].pc = "check" /\ enq'[p].pc = "readSlot" /\ FrontTimestamp(p) = enq[p].ts
    <3>1. Len(spsc[p]) # 0 => 1 \in 1..Len(spsc[p]) /\ spsc[p][1].ts = enq[p].ts
      BY <2>2, FrontIs
    <3>2. ASSUME NEW i \in 1..Len(spsc[p]) PROVE spsc[p][i].ts = enq[p].ts
      <4>1. Len(spsc[p]) \in Nat /\ spsc[p][i].ts \in Nat /\ i \in Nat /\ Len(spsc[p]) # 0 /\ enq[p].ts \in Nat
        <5>1. enq[p].ts \in Nat
          BY SlotsAssumption DEF TypeInv, Calls, Timestamps, SlotsAssumption
        <5>2. Len(spsc[p]) \in Nat /\ spsc[p][i].ts \in Nat
          BY <3>2, FrontIs
        <5> QED BY <3>2, <5>1, <5>2
      <4>2. spsc[p][i].ts <= enq[p].ts
        BY <1>3 DEF SpscInv
      <4>3. enq[p].ts <= spsc[p][i].ts
        <5>1. CASE i = 1
          BY <3>1, <4>1, <5>1
        <5>2. CASE 1 < i
          BY <3>1, <4>1, <5>2 DEF SpscInv
        <5> QED BY <3>2, <4>1, <5>1, <5>2
      <4> QED BY <4>1, <4>2, <4>3
    <3> QED BY <3>2
  <2> QED BY <2>1, <2>2 DEF Moving, Committed
<1>6. SpscInv(p)'
  BY <1>1, <1>3, <1>5 DEF SpscInv
<1>7. (Refreshing(p)' <=> Refreshing(p)) /\ (Fresh(p)' <=> Fresh(p)) /\ (Cached' <=> Cached) /\ MAX' = MAX
  BY <1>1 DEF Refreshing, Fresh, Cached, deqVars, MAX
<1>8. slot' = slot /\ buf' = buf /\ deq' = deq
  BY <1>1 DEF deqVars
<1>9. QuietInv(p)'
  BY <1>1, <1>3, <1>7, <1>8 DEF SlotInv, QuietInv, Moving
<1>10. RefreshInv(p)'
  BY <1>1, <1>3, <1>7, <1>8 DEF SlotInv, RefreshInv, Moving
<1>11. SlotInv(p)'
  BY <1>1, <1>3, <1>7, <1>8, <1>9, <1>10 DEF SlotInv, RefreshInv, Moving
<1> QED BY <1>4, <1>6, <1>11

(* The returns that leave the slot alone. *)
Leaving(p) ==
  /\ UNCHANGED <<counter, spsc, slot, deqVars>>
  /\ enq[p].pc \notin {"idle", "count"} /\ enq'[p] = EnqIdle
  /\ accepted'[p] = Granted(p)
  /\ \A x \in inQueue : x[1] = p /\ x[2] <= Granted(p) => x \in inQueue'
  /\ ~Returning(p) \/ FrontTimestamp(p) # enq[p].ts
       \/ (enq[p].pc = "swap" /\ enq[p].try = 2 /\ slot[p] # enq[p].old)

LEMMA LeavingKeeps ==
  ASSUME TypeInv, TypeInv', NEW p \in Ranks, StampInv(p), SpscInv(p), SlotInv(p), class' = class,
         Leaving(p)
  PROVE  StampInv(p)' /\ SpscInv(p)' /\ SlotInv(p)'
<1>1. /\ UNCHANGED <<counter, spsc, slot, deqVars>>
      /\ enq[p].pc \notin {"idle", "count"} /\ enq'[p].pc = "idle" /\ enq'[p].n = 0
  BY DEF Leaving, EnqIdle
<1>2. /\ counter \in Nat /\ enq[p].ts \in Nat /\ slot[p] \in Nat /\ enq[p].ts < counter
      /\ Bound(p) \in Nat /\ Bound(p)' = counter /\ Bound(p) <= counter
  BY <1>1, SlotsAssumption
     DEF SlotsAssumption, TypeInv, Calls, Timestamps, Bound, Putting, StampInv
<1>3. /\ Granted(p)' = Granted(p) /\ ~Putting(p)' /\ ~Returning(p)' /\ ~Committed(p)'
      /\ FrontTimestamp(p)' = FrontTimestamp(p)
  <2>1. accepted'[p] \in Nat
    BY DEF TypeInv
  <2> QED BY <1>1, <2>1, FrontSame DEF Granted, Putting, Returning, Committed, Leaving
<1>4. StampInv(p)'
  BY <1>1, <1>2, <1>3 DEF StampInv, MAX
<1>5. ASSUME NEW i \in 1..Len(spsc[p])
      PROVE  spsc[p][i].item \in inQueue' /\ spsc[p][i].ts < counter
  <2>1. spsc[p][i].ts \in Nat /\ spsc[p][i].ts < Bound(p)
    BY FrontIs DEF SpscInv
  <2>2. spsc[p][i].item \in inQueue'
    BY DEF SpscInv, Leaving
  <2> QED BY <1>2, <2>1, <2>2
<1>6. SpscInv(p)'
  BY <1>1, <1>2, <1>3, <1>5 DEF SpscInv
<1>7. (Refreshing(p)' <=> Refreshing(p)) /\ (Fresh(p)' <=> Fresh(p)) /\ (Cached' <=> Cached) /\ MAX' = MAX
  BY <1>1 DEF Refreshing, Fresh, Cached, deqVars, MAX
<1>8. slot' = slot /\ buf' = buf /\ deq' = deq
  BY <1>1 DEF deqVars
<1>9. QuietInv(p)'
  BY <1>1, <1>3, <1>7, <1>8 DEF SlotInv, QuietInv, Leaving
<1>10. RefreshInv(p)'
  BY <1>1, <1>3, <1>7, <1>8 DEF SlotInv, RefreshInv, Leaving
<1>11. SlotInv(p)'
  BY <1>1, <1>3, <1>7, <1>8, <1>9, <1>10 DEF SlotInv
<1> QED BY <1>4, <1>6, <1>11

(* The compare-and-swap that succeeds. *)
LEMMA SwapSlotKeeps ==
  ASSUME TypeInv, TypeInv', NEW p \in Ranks, StampInv(p), SpscInv(p), SlotInv(p), class' = class,
         SwapSlot(p), enq[p].ts < MAX
  PROVE  StampInv(p)' /\ SpscInv(p)' /\ SlotInv(p)'
<1>1. /\ UNCHANGED <<counter, spsc, deqVars, before>>
      /\ enq[p].pc = "swap" /\ enq'[p].pc = "idle" /\ enq'[p].n = 0
      /\ slot[p] = enq[p].old /\ slot'[p] = enq[p].ts /\ accepted'[p] = accepted[p] + enq[p].n
  BY DEF SwapSlot, EnqueueReturn, EnqIdle, TypeInv
<1>2. /\ counter \in Nat /\ enq[p].ts \in Nat /\ enq[p].ts < counter /\ MAX \in Nat
      /\ Bound(p) = counter /\ Bound(p)' = counter
  BY <1>1, SlotsAssumption
     DEF SlotsAssumption, TypeInv, Calls, Timestamps, Bound, Putting, StampInv, MAX
<1>3. /\ Granted(p)' = Granted(p) /\ ~Putting(p)' /\ ~Returning(p)' /\ ~Committed(p)'
      /\ FrontTimestamp(p)' = FrontTimestamp(p) /\ inQueue' = inQueue
      /\ FrontTimestamp(p) \in {MAX, enq[p].ts}
  <2>1. accepted'[p] \in Nat
    BY DEF TypeInv
  <2> QED BY <1>1, <2>1, FrontSame, CommittedFront DEF Granted, Putting, Returning, Committed, inQueue
<1>4. StampInv(p)'
  BY <1>1, <1>2, <1>3 DEF StampInv, MAX
<1>6. SpscInv(p)'
  BY <1>1, <1>2, <1>3, SMTT(30) DEF SpscInv
<1>7. (Refreshing(p)' <=> Refreshing(p)) /\ (Fresh(p)' <=> Fresh(p)) /\ (Cached' <=> Cached) /\ MAX' = MAX
  BY <1>1 DEF Refreshing, Fresh, Cached, deqVars, MAX
<1>8. buf' = buf /\ deq' = deq
  BY <1>1 DEF deqVars
<1>9. QuietInv(p)'
  BY <1>1, <1>2, <1>3, <1>7, <1>8 DEF SlotInv, QuietInv
<1>10. RefreshInv(p)'
  BY <1>1, <1>2, <1>3, <1>7, <1>8 DEF SlotInv, RefreshInv
<1>11. SlotInv(p)'
  BY <1>1, <1>3, <1>7, <1>8, <1>9, <1>10 DEF SlotInv
<1> QED BY <1>4, <1>6, <1>11

--------------------------------------------------------------------------------
(* Every step of an enqueue keeps the invariant. *)
LEMMA EnqueueKeeps ==
  ASSUME NoWrapAround, IInv, NEW p \in Ranks, Enqueueing(p), class' = class
  PROVE  IInv'
<1>1. TypeInv /\ StampInv(p) /\ SpscInv(p) /\ SlotInv(p)
  BY DEF IInv
<1>2. TypeInv'
  BY <1>1, EnqueueTypes
<1>3. \A q \in Ranks : q # p => StampInv(q)' /\ SpscInv(q)' /\ SlotInv(q)'
  BY OthersKept
<1>4. SelectedInv'
  <2>1. buf' = buf /\ deq' = deq
    BY DEF Enqueueing, EnqueueCall, CountedCall, Stamping, Put, EnqueueFull, RefreshEnqueue, CheckFront,
           ReadSlot, RecheckFront, SwapSlot, SwapSlotFails, deqVars
  <2> QED BY <2>1 DEF IInv, SelectedInv, MAX
<1> SUFFICES StampInv(p)' /\ SpscInv(p)' /\ SlotInv(p)'
  BY <1>2, <1>3, <1>4 DEF IInv, Ranks
<1>5. /\ enq[p].pc \notin {"idle", "count"} => enq[p].ts < MAX
      /\ enq \in [Ranks -> Calls] /\ enq[p].n \in Nat /\ accepted \in [Ranks -> Nat]
  BY <1>1, StampBelowMax, SlotsAssumption DEF TypeInv, Calls, SlotsAssumption
<1>6. ASSUME EnqueueReturn(p), UNCHANGED <<counter, spsc, slot, before, deqVars>>, Returning(p),
             FrontTimestamp(p) # enq[p].ts
               \/ (enq[p].pc = "swap" /\ enq[p].try = 2 /\ slot[p] # enq[p].old)
      PROVE  Leaving(p)
  <2>1. enq'[p] = EnqIdle /\ accepted'[p] = Granted(p)
    BY <1>5, <1>6 DEF EnqueueReturn, Granted
  <2> QED BY <1>6, <2>1 DEF Leaving, Returning, inQueue
<1>7. CASE Stamping(p) \/ \E n \in 1..MaxBatch : EnqueueCall(p, n) \/ CountedCall(p, n)
  BY <1>1, <1>2, <1>7, BeginningIs, BeginningKeeps
<1>8. CASE Put(p)
  BY <1>1, <1>2, <1>5, <1>8, PutKeeps DEF Put
<1>9. CASE EnqueueFull(p)
  <2>1. inQueue' = inQueue \ Batch(p, enq[p].n) /\ enq'[p] = EnqIdle /\ enq[p].pc = "put"
    BY <1>5, <1>9, RecordGoneIs DEF EnqueueFull
  <2>2. Granted(p) = accepted[p] /\ ~Returning(p) /\ accepted' = accepted
    BY <1>5, <1>9, <2>1 DEF Granted, Returning, EnqueueFull
  <2>3. \A x \in Batch(p, enq[p].n) : ~ (x[2] <= accepted[p])
    BY <1>5 DEF Batch
  <2>4. Leaving(p)
    BY <1>9, <2>1, <2>2, <2>3 DEF Leaving, EnqueueFull
  <2> QED BY <1>1, <1>2, <2>4, LeavingKeeps
<1>10. CASE CheckFront(p) \/ RecheckFront(p)
  <2>1. Moving(p) \/ Leaving(p)
    BY <1>5, <1>6, <1>10 DEF CheckFront, RecheckFront, GoOn, Moving, Returning, Calls
  <2> QED BY <1>1, <1>2, <1>5, <1>10, <2>1, MovingKeeps, LeavingKeeps DEF CheckFront, RecheckFront
<1>11. CASE ReadSlot(p)
  <2>1. Moving(p)
    BY <1>5, <1>11 DEF ReadSlot, Moving, Calls
  <2> QED BY <1>1, <1>2, <1>5, <1>11, <2>1, MovingKeeps DEF ReadSlot
<1>12. CASE SwapSlot(p)
  BY <1>1, <1>2, <1>5, <1>12, SwapSlotKeeps DEF SwapSlot
<1>13. CASE SwapSlotFails(p)
  <2>1. Moving(p) \/ Leaving(p)
    BY <1>5, <1>6, <1>13 DEF SwapSlotFails, Moving, Returning, Calls
  <2> QED BY <1>1, <1>2, <1>5, <1>13, <2>1, MovingKeeps, LeavingKeeps DEF SwapSlotFails
<1> QED
  BY <1>7, <1>8, <1>9, <1>10, <1>11, <1>12, <1>13 DEF Enqueueing, RefreshEnqueue

--------------------------------------------------------------------------------
(* The steps of dequeue that change neither SPSC nor slot. *)
Looking == UNCHANGED <<counter, spsc, slot, enqVars, before>>

LEMMA LookingKeeps ==
  ASSUME IInv, Looking, NEW q \in Ranks
  PROVE  StampInv(q)' /\ SpscInv(q)' /\ FrontTimestamp(q)' = FrontTimestamp(q)
<1>1. TypeInv /\ StampInv(q) /\ SpscInv(q) /\ counter \in Nat
  BY SlotsAssumption DEF IInv, TypeInv, SlotsAssumption
<1>2. /\ enq' = enq /\ spsc' = spsc /\ slot' = slot /\ accepted' = accepted /\ counter' = counter
      /\ inQueue' = inQueue
  BY DEF Looking, enqVars, inQueue
<1> QED BY <1>1, <1>2, SpscFrame, FrontSame

LEMMA ScanningKeeps ==
  ASSUME IInv, class' = class, NEW q \in Ranks,
         DequeueCall \/ FirstScan(Cached) \/ SecondScan(Cached) \/ Select(Cached) \/ SelectNone(Cached)
  PROVE  SlotInv(q)' /\ Looking
<1>1. TypeInv /\ SlotInv(q) /\ deq.rank \in Ranks /\ deq \in Scans /\ buf \in [Ranks -> Timestamps] /\ Size \in Nat
  BY SlotsAssumption DEF IInv, TypeInv, Scans, SlotsAssumption
<1>2. Looking /\ deq.pc \in {"idle", "scan", "rescan"}
  BY DEF Looking, DequeueCall, FirstScan, SecondScan, ScanSlot, Select, SelectNone
<1> SUFFICES SlotInv(q)'
  BY <1>2
<1>3. FrontTimestamp(q)' = FrontTimestamp(q) /\ enq' = enq /\ slot' = slot /\ MAX' = MAX /\ (Cached' <=> Cached)
  BY <1>2, LookingKeeps DEF Looking, enqVars, MAX, Cached
<1>4. ASSUME deq'.pc \in {"idle", "scan", "rescan"},
             Fresh(q)' /\ buf'[q] # MAX => (Fresh(q) /\ buf'[q] = buf[q]) \/ buf'[q] = slot[q],
             Cached => buf'[q] \in {buf[q], slot[q]}
      PROVE  SlotInv(q)'
  <2>1. ~Refreshing(q) /\ ~Refreshing(q)' /\ (Returning(q)' <=> Returning(q))
    BY <1>2, <1>3, <1>4 DEF Refreshing, Returning
  <2>2. QuietInv(q)'
    BY <1>1, <1>3, <1>4, <2>1 DEF SlotInv, QuietInv
  <2> QED BY <1>1, <1>3, <1>4, <2>1, <2>2 DEF SlotInv, QuietInv, RefreshInv
<1>5. CASE DequeueCall
  <2>1. deq.pc = "idle" /\ deq'.pc = "scan" /\ deq'.next = 0 /\ buf' = buf
    BY <1>5 DEF DequeueCall, DeqIdle
  <2>2. Fresh(q)' => Fresh(q)
    BY <1>3, <2>1, SlotsAssumption DEF Fresh, Ranks, SlotsAssumption
  <2> QED BY <1>4, <2>1, <2>2
<1>6. ASSUME NEW limit \in 0..Size, ScanSlot(limit, Cached), deq.pc \in {"scan", "rescan"}
      PROVE  SlotInv(q)'
  <2>1. PICK p \in Ranks :
           /\ p < limit /\ p >= deq.next
           /\ \A r \in Ranks : r < p => r < deq.next \/ (Cached /\ buf[r] # MAX)
           /\ buf' = [buf EXCEPT ![p] = slot[p]] /\ deq' = [deq EXCEPT !.next = p + 1]
    BY <1>1, <1>6, ScanSlotIs
  <2>2. deq'.pc = deq.pc /\ deq'.next = p + 1
    BY <1>1, <2>1 DEF Scans
  <2>3. CASE q = p
    BY <1>1, <1>4, <1>6, <2>1, <2>2, <2>3
  <2>4. CASE q # p
    <3>1. buf'[q] = buf[q]
      BY <1>1, <2>1, <2>4
    <3>2. q < p + 1 => q < p
      BY <2>4, SlotsAssumption DEF Ranks, SlotsAssumption
    <3>3. Fresh(q)' => Fresh(q)
      BY <1>3, <1>6, <2>1, <2>2, <3>2 DEF Fresh
    <3> QED BY <1>4, <1>6, <2>2, <3>1, <3>3
  <2> QED BY <2>3, <2>4
<1>7. CASE FirstScan(Cached) \/ SecondScan(Cached)
  <2>1. Size \in 0..Size /\ deq.rank \in 0..Size
    BY <1>1 DEF Ranks
  <2> QED BY <1>6, <1>7, <2>1 DEF FirstScan, SecondScan
<1>8. CASE Select(Cached)
  <2>1. deq.pc = "scan" /\ deq'.pc = "rescan" /\ buf' = buf /\ ToRead(Size, Cached) = {}
    BY <1>1, <1>8 DEF Select, Scans
  <2>2. buf[q] # MAX => Fresh(q)
    <3>1. q \notin ToRead(Size, Cached) /\ q < Size /\ q \in Nat /\ deq.next \in Nat
      BY <1>1, <2>1 DEF Ranks, Scans
    <3>2. Cached \/ q < deq.next
      BY <3>1 DEF ToRead
    <3> QED BY <2>1, <3>2 DEF Fresh
  <2> QED BY <1>4, <2>1, <2>2
<1>9. CASE SelectNone(Cached)
  <2>1. deq'.pc = "idle" /\ buf' = buf
    BY <1>9 DEF SelectNone, DeqIdle
  <2>2. Fresh(q)' => Fresh(q)
    BY <1>3, <2>1 DEF Fresh
  <2> QED BY <1>4, <2>1, <2>2
<1> QED BY <1>5, <1>7, <1>8, <1>9

(* What _refreshDequeue leaves of the rank. *)
LEMMA RefreshingRank ==
  ASSUME deq \in Scans, RefreshDequeue(Cached)
  PROVE  deq'.pc \in {"idle", "readSlot", "front", "swap"} /\ (deq'.pc # "idle" => deq'.rank = deq.rank)
<1>1. CASE DReadSlot
  BY <1>1 DEF DReadSlot, Scans
<1>2. CASE DReadFront(Cached)
  BY <1>2 DEF DReadFront, Scans
<1>3. CASE DSwapSlot
  BY <1>3 DEF DSwapSlot, DeqIdle
<1>4. CASE DSwapSlotFails
  <2>1. CASE deq' = [deq EXCEPT !.try = 2, !.pc = "readSlot"]
    BY <2>1 DEF Scans
  <2>2. CASE deq' = DeqIdle
    BY <2>2 DEF DeqIdle
  <2> QED BY <1>4, <2>1, <2>2 DEF DSwapSlotFails
<1> QED BY <1>1, <1>2, <1>3, <1>4 DEF RefreshDequeue

LEMMA SelectedKept ==
  ASSUME IInv, Dequeueing(Cached), class' = class
  PROVE  SelectedInv'
<1>1. TypeInv /\ deq \in Scans /\ deq.rank \in Ranks /\ buf \in [Ranks -> Timestamps]
  BY DEF IInv, TypeInv, Scans
<1>2. CASE FirstScan(Cached)
  BY <1>1, <1>2 DEF FirstScan, ScanSlot, SelectedInv, Scans
<1>3. CASE SecondScan(Cached)
  <2>1. deq.rank \in 0..Size /\ deq.rank \in Nat
    BY <1>1, SlotsAssumption DEF Ranks, SlotsAssumption
  <2>2. PICK p \in Ranks : /\ p < deq.rank /\ buf' = [buf EXCEPT ![p] = slot[p]]
                           /\ deq' = [deq EXCEPT !.next = p + 1]
    BY <1>1, <1>3, <2>1, ScanSlotIs DEF SecondScan
  <2>3. deq'.rank = deq.rank /\ p # deq.rank /\ deq.pc = "rescan"
    BY <1>1, <1>3, <2>1, <2>2 DEF Scans, SecondScan
  <2> QED BY <1>1, <2>2, <2>3 DEF IInv, SelectedInv, MAX
<1>4. CASE Select(Cached)
  <2> DEFINE r == Lowest({p \in Visible : \A q \in Visible : buf[p] <= buf[q]})
  <2>1. r \in Ranks /\ buf[r] # MAX
    BY <1>1, <1>4, LeastIn DEF Select
  <2>2. deq' = [deq EXCEPT !.pc = "rescan", !.next = 0, !.rank = r] /\ buf' = buf
    BY <1>4 DEF Select
  <2> HIDE DEF r
  <2>3. deq'.rank = r
    BY <1>1, <2>1, <2>2 DEF Scans
  <2> QED BY <2>1, <2>2, <2>3 DEF SelectedInv, MAX
<1>5. CASE Take(Cached)
  <2>1. \E r \in Ranks : deq' = [DeqIdle EXCEPT !.pc = "readSlot", !.rank = r]
    BY <1>5, TakeIs DEF Taking
  <2>2. deq'.pc = "readSlot"
    BY <2>1 DEF DeqIdle
  <2> QED BY <2>2 DEF SelectedInv
<1>6. CASE DequeueCall \/ SelectNone(Cached) \/ RefreshDequeue(Cached)
  <2>1. deq'.pc # "rescan"
    BY <1>1, <1>6, RefreshingRank DEF DequeueCall, SelectNone, DeqIdle
  <2> QED BY <2>1 DEF SelectedInv
<1> QED BY <1>2, <1>3, <1>4, <1>5, <1>6 DEF Dequeueing, ReadMinimumRank

--------------------------------------------------------------------------------
(* Taking the front of the SPSC of rank r. *)
LEMMA TakingKeeps ==
  ASSUME IInv, TypeInv', class' = class, NEW r \in Ranks, Taking(r), NEW q \in Ranks
  PROVE  StampInv(q)' /\ SpscInv(q)' /\ SlotInv(q)'
<1>1. TypeInv /\ StampInv(q) /\ SpscInv(q) /\ SlotInv(q) /\ StampInv(r) /\ SpscInv(r) /\ SlotInv(r)
  BY DEF IInv
<1>2. /\ UNCHANGED <<counter, slot, enqVars>> /\ deq.pc = "rescan" /\ slot[r] # MAX
      /\ slot[r] = FrontTimestamp(r) /\ counter \in Nat
      /\ buf \in [Ranks -> Timestamps]
  BY <1>1, SlotsAssumption DEF Taking, TypeInv, SlotsAssumption
<1>3. /\ \A p \in Ranks : p # r => spsc'[p] = spsc[p]
      /\ Len(spsc[r]) \in Nat \ {0} /\ Head(spsc[r]) = spsc[r][1] /\ Len(spsc'[r]) = Len(spsc[r]) - 1
      /\ \A i \in 1..Len(spsc'[r]) : i + 1 \in 1..Len(spsc[r]) /\ spsc'[r][i] = spsc[r][i+1]
  BY <1>1, TailEffect DEF Taking
<1>4. inQueue' = inQueue \ {spsc[r][1].item} /\ 1 \in 1..Len(spsc[r]) /\ spsc[r][1].item[1] = r
  BY <1>1, <1>3, RecordGoneIs DEF Taking, SpscInv
<1>5. deq'.pc = "readSlot" /\ deq'.rank = r
  BY DEF Taking, DeqIdle
<1>6. MAX' = MAX /\ (Cached' <=> Cached) /\ enq' = enq /\ slot' = slot /\ accepted' = accepted
  BY <1>2 DEF MAX, Cached, enqVars
<1>7. CASE q # r
  <2>1. \A x \in inQueue : x[1] = q => x \in inQueue'
    BY <1>4, <1>7
  <2>2. StampInv(q)' /\ SpscInv(q)'
    BY <1>1, <1>2, <1>3, <1>6, <1>7, <2>1, SpscFrame
  <2>3. FrontTimestamp(q)' = FrontTimestamp(q) /\ buf'[q] = buf[q]
    BY <1>2, <1>3, <1>7, FrontSame DEF Taking
  <2>4. ~Refreshing(q) /\ ~Refreshing(q)' /\ (Fresh(q)' => Fresh(q)) /\ (Returning(q)' <=> Returning(q))
    BY <1>2, <1>5, <1>6, <1>7 DEF Refreshing, Fresh, Returning
  <2>5. SlotInv(q)'
    BY <1>1, <1>6, <2>3, <2>4 DEF SlotInv, QuietInv, RefreshInv
  <2> QED BY <2>2, <2>5
<1>8. CASE q = r
  <2>1. StampInv(r)' /\ Bound(r)' = Bound(r) /\ Granted(r)' = Granted(r) /\ (Putting(r)' <=> Putting(r))
          /\ (Returning(r)' <=> Returning(r)) /\ (Committed(r)' <=> Committed(r))
    BY <1>1, <1>2, <1>6 DEF StampInv, Bound, Granted, Putting, Returning, Committed
  <2>2. \A i \in 1..Len(spsc'[r]) : i + 1 \in 1..Len(spsc[r]) /\ spsc'[r][i] = spsc[r][i+1] /\ 1 < i + 1
    BY <1>3
  <2>3. \A i \in 1..Len(spsc'[r]) : spsc'[r][i].item \in inQueue' /\ spsc'[r][i].item[1] = r
    <3>1. ASSUME NEW i \in 1..Len(spsc[r]), 1 < i PROVE spsc[r][i].item # spsc[r][1].item
      <4>1. spsc[r][1].item[2] < spsc[r][i].item[2] /\ spsc[r][1] \in Elements
        BY <1>1, <1>4, <3>1, FrontIs DEF SpscInv
      <4>2. spsc[r][1].item[2] \in Nat
        BY <4>1 DEF Elements
      <4> QED BY <4>1, <4>2
    <3> QED BY <1>1, <1>4, <2>2, <3>1 DEF SpscInv
  <2>4. Putting(r)' => Batch(r, enq[r].n)' \subseteq inQueue'
    <3>1. Batch(r, enq[r].n)' = Batch(r, enq[r].n)
      BY <1>6 DEF Batch
    <3>2. ASSUME Putting(r) PROVE spsc[r][1].item \notin Batch(r, enq[r].n)
      <4>0. accepted[r] \in Nat /\ Granted(r) = accepted[r]
        BY <1>1, <3>2 DEF Granted, Putting, Returning, TypeInv
      <4>1. spsc[r][1].item[2] <= accepted[r] /\ accepted[r] \in Nat
        BY <1>1, <1>4, <4>0 DEF SpscInv
      <4>2. \A x \in Batch(r, enq[r].n) : x[2] > accepted[r] /\ x[2] \in Nat
        BY <4>1 DEF Batch
      <4> QED BY <4>1, <4>2
    <3> QED BY <1>1, <1>4, <2>1, <3>1, <3>2 DEF SpscInv
  <2>5. \A i, j \in 1..Len(spsc'[r]) : i < j =>
          spsc'[r][i].ts <= spsc'[r][j].ts /\ spsc'[r][i].item[2] < spsc'[r][j].item[2]
    <3>1. \A i, j \in 1..Len(spsc'[r]) : i < j => i + 1 < j + 1
      BY <1>3
    <3> QED BY <1>1, <2>2, <3>1 DEF SpscInv
  <2>6. \A i \in 1..Len(spsc'[r]) :
          /\ spsc'[r][i].ts < Bound(r)
          /\ spsc'[r][i].item[2] <= Granted(r)
          /\ Returning(r) =>
               /\ spsc'[r][i].ts <= enq[r].ts
               /\ spsc'[r][i].ts = enq[r].ts => spsc'[r][i].item[2] > accepted[r]
          /\ Committed(r) => spsc'[r][i].ts = enq[r].ts
    BY <1>1, <2>2 DEF SpscInv
  <2>7. SpscInv(r)'
    BY <1>6, <2>1, <2>3, <2>4, <2>5, <2>6 DEF SpscInv
  <2>8. Refreshing(r)' /\ ~Refreshing(r) /\ (Cached => buf'[r] = MAX)
    BY <1>2, <1>5 DEF Refreshing, Taking
  <2>9. enq[r].pc = "swap" => slot[r] = enq[r].ts
    BY <1>1, <1>2, CommittedFront DEF Committed
  <2>10. SlotInv(r)'
    BY <1>1, <1>2, <1>5, <1>6, <2>8, <2>9 DEF SlotInv, QuietInv, RefreshInv
  <2> QED BY <1>8, <2>1, <2>7, <2>10
<1> QED BY <1>7, <1>8

(* The steps of _refreshDequeue. *)
LEMMA RefreshingKeeps ==
  ASSUME IInv, class' = class, NEW q \in Ranks, RefreshDequeue(Cached)
  PROVE  StampInv(q)' /\ SpscInv(q)' /\ SlotInv(q)'
<1> DEFINE r == deq.rank
<1>1. /\ TypeInv /\ StampInv(q) /\ SpscInv(q) /\ SlotInv(q)
      /\ deq \in Scans /\ r \in Ranks /\ buf \in [Ranks -> Timestamps] /\ slot \in [Ranks -> Timestamps]
      /\ deq.try \in 1..2
  BY DEF IInv, TypeInv, Scans
<1>2. /\ UNCHANGED <<counter, spsc, enqVars, before>> /\ FrontTimestamp(q)' = FrontTimestamp(q)
      /\ deq.pc \in {"readSlot", "front", "swap"} /\ counter \in Nat
  BY <1>1, FrontSame, SlotsAssumption
     DEF RefreshDequeue, DReadSlot, DReadFront, DSwapSlot, DSwapSlotFails, SlotsAssumption, TypeInv
<1>3. MAX' = MAX /\ (Cached' <=> Cached) /\ enq' = enq /\ accepted' = accepted /\ inQueue' = inQueue
      /\ spsc' = spsc
  BY <1>2 DEF MAX, Cached, enqVars, inQueue
<1>4. Refreshing(q) <=> q = r
  BY <1>2 DEF Refreshing
<1>5. CASE q # r
  <2>1. slot'[q] = slot[q] /\ buf'[q] = buf[q]
    BY <1>1, <1>5 DEF RefreshDequeue, DReadSlot, DReadFront, DSwapSlot, DSwapSlotFails
  <2>2. deq'.pc \in {"readSlot", "front", "swap"} => deq'.rank = r
    BY <1>1, RefreshingRank
  <2>3. deq'.pc \notin {"scan", "rescan"}
    BY <1>1, RefreshingRank
  <2>4. StampInv(q)' /\ SpscInv(q)'
    BY <1>1, <1>2, <1>3, <2>1, SpscFrame
  <2>5. ~Refreshing(q)' /\ (Fresh(q)' => Fresh(q)) /\ (Returning(q)' <=> Returning(q))
    BY <1>3, <1>5, <2>2, <2>3 DEF Refreshing, Fresh, Returning
  <2>6. SlotInv(q)'
    BY <1>1, <1>2, <1>3, <1>4, <1>5, <2>1, <2>5 DEF SlotInv, QuietInv, RefreshInv
  <2> QED BY <2>4, <2>6
<1>6. CASE q = r
  <2>1. Refreshing(q) /\ slot[q] # MAX /\ (Returning(q)' <=> Returning(q))
    BY <1>1, <1>3, <1>4, <1>6 DEF SlotInv, RefreshInv, Returning
  <2>2. enq[q].pc = "swap" => FrontTimestamp(q) \in {MAX, enq[q].ts}
    BY <1>1, CommittedFront DEF Committed
  <2>3. slot' = slot => StampInv(q)' /\ SpscInv(q)'
    BY <1>1, <1>2, <1>3, SpscFrame
  <2>4. CASE DReadSlot
    <3>1. deq'.pc = "front" /\ deq'.rank = q /\ deq'.old = slot[q] /\ slot' = slot /\ buf' = buf
      BY <1>1, <1>6, <2>4 DEF DReadSlot, Scans
    <3>2. Refreshing(q)'
      BY <3>1 DEF Refreshing
    <3>3. SlotInv(q)'
      BY <1>1, <1>2, <1>3, <2>1, <3>1, <3>2 DEF SlotInv, QuietInv, RefreshInv
    <3> QED BY <2>3, <3>1, <3>3
  <2>5. CASE DReadFront(Cached)
    <3>1. /\ deq.pc = "front" /\ deq'.pc = "swap" /\ deq'.rank = q /\ deq'.old = deq.old
          /\ deq'.new = FrontTimestamp(q)
          /\ slot' = slot /\ (Cached => buf'[q] = FrontTimestamp(q))
      BY <1>1, <1>6, <2>5 DEF DReadFront, Scans
    <3>2. Refreshing(q)'
      BY <3>1 DEF Refreshing
    <3>3. SlotInv(q)'
      BY <1>1, <1>2, <1>3, <2>1, <3>1, <3>2 DEF SlotInv, QuietInv, RefreshInv
    <3> QED BY <2>3, <3>1, <3>3
  <2>6. CASE DSwapSlot
    <3>1. deq.pc = "swap" /\ slot[q] = deq.old /\ slot'[q] = deq.new /\ deq'.pc = "idle" /\ buf' = buf
      BY <1>1, <1>6, <2>6 DEF DSwapSlot, DeqIdle
    <3>2. ~Refreshing(q)' /\ (Fresh(q)' => Cached)
      BY <1>3, <3>1 DEF Refreshing, Fresh
    <3>3. deq.new \in {MAX, FrontTimestamp(q)}
      BY <1>1, <2>1, <3>1 DEF SlotInv, RefreshInv
    <3>4. FrontTimestamp(q) = MAX \/ FrontTimestamp(q) < Bound(q)
      BY <1>1, FrontIs DEF SpscInv
    <3>5. Bound(q)' = Bound(q) /\ (Putting(q)' <=> Putting(q))
      BY <1>2, <1>3 DEF Bound, Putting
    <3>6. StampInv(q)'
      BY <1>1, <1>2, <1>3, <3>1, <3>3, <3>4, <3>5 DEF StampInv
    <3>7. SpscInv(q)'
      BY <1>1, <1>2, <1>3, <3>5 DEF SpscInv, Granted, Returning, Committed, Batch
    <3>8. QuietInv(q)'
      BY <1>1, <1>2, <1>3, <2>1, <2>2, <3>1, <3>2, <3>3 DEF SlotInv, RefreshInv, QuietInv
    <3>9. SlotInv(q)'
      BY <1>1, <1>2, <1>3, <2>1, <2>2, <3>1, <3>2, <3>3, <3>8 DEF SlotInv, RefreshInv
    <3> QED BY <3>6, <3>7, <3>9
  <2>7. CASE DSwapSlotFails
    <3>1. slot' = slot /\ buf' = buf /\ deq.pc = "swap" /\ slot[q] # deq.old
      BY <1>1, <1>6, <2>7 DEF DSwapSlotFails
    <3>2. (deq'.pc = "readSlot" /\ deq'.rank = q) \/ deq'.pc = "idle"
      BY <1>1, <1>6, <2>7 DEF DSwapSlotFails, Scans, DeqIdle
    <3>3. Fresh(q)' => Cached
      BY <1>3, <3>2 DEF Fresh
    <3>4. CASE deq'.pc = "readSlot" /\ deq'.rank = q
      <4>1. Refreshing(q)'
        BY <3>4 DEF Refreshing
      <4> QED BY <1>1, <1>2, <1>3, <2>1, <2>3, <3>1, <3>4, <4>1 DEF SlotInv, QuietInv, RefreshInv
    <3>5. CASE deq'.pc = "idle"
      <4>1. ~Refreshing(q)'
        BY <3>5 DEF Refreshing
      <4>2. slot[q] = FrontTimestamp(q)
        BY <1>1, <2>1, <3>1 DEF SlotInv, RefreshInv
      <4>3. QuietInv(q)'
        BY <1>1, <1>2, <1>3, <2>1, <2>2, <3>1, <3>3, <4>2 DEF SlotInv, QuietInv, RefreshInv
      <4>4. SlotInv(q)'
        BY <1>1, <1>2, <1>3, <2>1, <3>1, <4>1, <4>3 DEF SlotInv, RefreshInv
      <4> QED BY <2>3, <3>1, <4>4
    <3> QED BY <3>2, <3>4, <3>5
  <2> QED BY <2>4, <2>5, <2>6, <2>7 DEF RefreshDequeue
<1> QED BY <1>5, <1>6

LEMMA DequeueKeeps ==
  ASSUME IInv, Dequeueing(Cached), class' = class
  PROVE  IInv'
<1>1. TypeInv' /\ SelectedInv'
  BY DequeueTypes, SelectedKept
<1> SUFFICES ASSUME NEW q \in Ranks PROVE StampInv(q)' /\ SpscInv(q)' /\ SlotInv(q)'
  BY <1>1 DEF IInv, Ranks
<1>2. CASE Take(Cached)
  BY <1>1, <1>2, TakeIs, TakingKeeps
<1>3. CASE RefreshDequeue(Cached)
  BY <1>3, RefreshingKeeps
<1>4. CASE DequeueCall \/ ReadMinimumRank(Cached)
  BY <1>4, ScanningKeeps, LookingKeeps DEF ReadMinimumRank
<1> QED BY <1>2, <1>3, <1>4 DEF Dequeueing

--------------------------------------------------------------------------------
(* The invariant holds initially and is kept by every step. *)
LEMMA Initially == Init => IInv
<1> SUFFICES ASSUME Init PROVE IInv
  OBVIOUS
<1>1. class \in Classes /\ \E copy \in {0, MAX} : Constructed(copy) /\ (Cached => copy = MAX)
  <2>1. CASE class = "SlotQueue" /\ Slot!Init
    BY <2>1 DEF Init, Slot!Init, Slot!Constructed, Constructed, Cached, MAX, Slot!MAX, Ranks, Slot!Ranks,
            EnqIdle, Slot!EnqIdle, DeqIdle, Slot!DeqIdle, Nothing, Slot!Nothing
  <2>2. CASE class = "SlotNodeQueue" /\ Node!Init
    BY <2>2 DEF Init, Node!Init, Node!Constructed, Constructed, Cached, MAX, Node!MAX, Ranks, Node!Ranks,
            EnqIdle, Node!EnqIdle, DeqIdle, Node!DeqIdle, Nothing, Node!Nothing
  <2>3. CASE class = "HostedSlotQueue" /\ Hosted!Init
    BY <2>3 DEF Init, Hosted!Init, Hosted!Constructed, Constructed, Cached, MAX, Hosted!MAX, Ranks,
            Hosted!Ranks, EnqIdle, Hosted!EnqIdle, DeqIdle, Hosted!DeqIdle, Nothing, Hosted!Nothing
  <2>4. CASE class = "UnboundedSlotQueue" /\ Unbounded!Init
    BY <2>4 DEF Init, Unbounded!Init, Unbounded!Constructed, Constructed, Cached, MAX, Unbounded!MAX, Ranks,
            Unbounded!Ranks, EnqIdle, Unbounded!EnqIdle, DeqIdle, Unbounded!DeqIdle, Nothing, Unbounded!Nothing
  <2> QED BY <2>1, <2>2, <2>3, <2>4 DEF Init
<1>2. PICK copy \in {0, MAX} : Constructed(copy) /\ (Cached => copy = MAX)
  BY <1>1
<1>3. /\ 0 \in Ranks /\ 0 \in Timestamps /\ MAX \in Timestamps /\ 0 \in 0..MaxCalls /\ MAX \in Nat
  BY SlotsAssumption DEF SlotsAssumption, Ranks, Timestamps, MAX
<1>4. inQueue = {}
  BY <1>2 DEF Constructed, inQueue
<1>5. TypeInv
  <2>1. spsc \in [Ranks -> Seq(Elements)]
    BY <1>2 DEF Constructed
  <2>2. enq \in [Ranks -> Calls] /\ deq \in Scans
    BY <1>2, CallsClosed, ScansClosed DEF Constructed
  <2>3. slot \in [Ranks -> Timestamps] /\ buf \in [Ranks -> Timestamps] /\ accepted \in [Ranks -> Nat]
    BY <1>2, <1>3 DEF Constructed
  <2>4. class \in {"SlotQueue", "SlotNodeQueue", "HostedSlotQueue", "UnboundedSlotQueue"}
    BY <1>1, SlotQueuesAssumption DEF SlotQueuesAssumption
  <2> QED BY <1>2, <1>3, <1>4, <2>1, <2>2, <2>3, <2>4 DEF TypeInv, Constructed
<1>6. ASSUME NEW p \in Ranks PROVE StampInv(p) /\ SpscInv(p) /\ SlotInv(p)
  <2>1. /\ spsc[p] = <<>> /\ slot[p] = MAX /\ enq[p].pc = "idle" /\ enq[p].n = 0 /\ buf[p] = copy
        /\ deq.pc = "idle"
    BY <1>2 DEF Constructed, EnqIdle, DeqIdle
  <2>2. Len(spsc[p]) = 0 /\ FrontTimestamp(p) = MAX
    BY <2>1 DEF FrontTimestamp
  <2>3. ~Putting(p) /\ ~Refreshing(p) /\ (Fresh(p) => copy = MAX)
    BY <1>2, <2>1 DEF Putting, Refreshing, Fresh
  <2>4. StampInv(p)
    BY <2>1, <2>3 DEF StampInv
  <2>5. SpscInv(p)
    BY <2>2, <2>3 DEF SpscInv
  <2>6. SlotInv(p)
    BY <1>2, <2>1, <2>2, <2>3 DEF SlotInv, QuietInv, RefreshInv
  <2> QED BY <2>4, <2>5, <2>6
<1>7. SelectedInv
  BY <1>2 DEF SelectedInv, Constructed, DeqIdle
<1> QED BY <1>5, <1>6, <1>7 DEF IInv

LEMMA CachedOrNot ==
  /\ Cached /\ DProceeding(TRUE) => DProceeding(Cached)
  /\ ~Cached /\ DProceeding(FALSE) => DProceeding(Cached)
BY DEF DProceeding, ReadMinimumRank, FirstScan, SecondScan, ScanSlot, Select, SelectNone, ToRead, Take,
       RefreshDequeue, DReadFront, Cached

(* What all classes do. *)
LEMMA MovesAre ==
  ASSUME Next
  PROVE  Moves(Cached) /\ class' = class
<1>1. Cached <=> class \in {"SlotQueue", "SlotNodeQueue"}
  BY DEF Cached
<1> HIDE DEF Cached
<1>2. CASE class = "SlotQueue" /\ Slot!Next
  BY <1>1, <1>2, SlotStep, CachedOrNot DEF Next, Moves
<1>3. CASE class = "SlotNodeQueue" /\ Node!Next
  BY <1>1, <1>3, NodeStep, CachedOrNot DEF Next, Moves
<1>4. CASE class = "HostedSlotQueue" /\ Hosted!Next
  BY <1>1, <1>4, HostedStep, CachedOrNot DEF Next, Moves
<1>5. CASE class = "UnboundedSlotQueue" /\ Unbounded!Next
  BY <1>1, <1>5, UnboundedStep, CachedOrNot DEF Next, Moves
<1> QED BY <1>2, <1>3, <1>4, <1>5 DEF Next

LEMMA StepIs ==
  ASSUME IInv, Next
  PROVE  ((\E p \in Ranks : Enqueueing(p)) \/ Dequeueing(Cached)) /\ class' = class
<1>1. TypeInv /\ \A p \in Ranks : StampInv(p)
  BY DEF IInv
<1>2. \A p \in Ranks : Begins(p) \/ Proceeding(p) => Enqueueing(p)
  BY <1>1, StampingIs DEF Begins, Proceeding, Enqueueing
<1>3. DequeueCall \/ DProceeding(Cached) => Dequeueing(Cached)
  BY DEF DProceeding, Dequeueing
<1> QED BY <1>2, <1>3, MovesAre DEF Moves

LEMMA StutterKeeps == IInv /\ UNCHANGED <<vars, class>> => IInv'
<1> SUFFICES ASSUME IInv, UNCHANGED <<vars, class>> PROVE IInv'
  OBVIOUS
<1>1. /\ counter' = counter /\ spsc' = spsc /\ slot' = slot /\ enq' = enq /\ accepted' = accepted
      /\ buf' = buf /\ deq' = deq /\ dOut' = dOut /\ before' = before /\ settled' = settled /\ class' = class
  BY DEF vars, enqVars, deqVars
<1>2. TypeInv /\ TypeInv'
  BY <1>1 DEF IInv, TypeInv, inQueue, Elements, Calls, Scans
<1>3. ASSUME NEW q \in Ranks PROVE StampInv(q)' /\ SpscInv(q)' /\ SlotInv(q)'
  <2>1. Looking /\ UNCHANGED deqVars
    BY <1>1 DEF Looking, enqVars, deqVars
  <2>2. SlotInv(q)
    BY DEF IInv
  <2> QED BY <1>1, <2>1, <2>2, LookingKeeps, SlotFrame
<1>4. SelectedInv'
  BY <1>1 DEF IInv, SelectedInv, MAX
<1> QED BY <1>2, <1>3, <1>4 DEF IInv, Ranks

(* The strengthened invariant holds for every class, while timestamps do not wrap. *)
THEOREM Inductive == ASSUME NoWrapAround PROVE Spec => []IInv
<1>1. IInv /\ [Next]_<<vars, class>> => IInv'
  BY StepIs, EnqueueKeeps, DequeueKeeps, StutterKeeps
<1> QED BY <1>1, Initially, PTL DEF Spec

(* SlotIsFront: neither a late compare-and-swap nor failed ones leave a stale slot. *)
THEOREM SlotShowsFront == ASSUME NoWrapAround PROVE Spec => []SlotIsFront
<1>1. IInv => SlotIsFront
  BY DEF IInv, SlotInv, QuietInv, SlotIsFront
<1> QED BY <1>1, Inductive, PTL

(* CopyIsFront: a class with private copies of the slots never uses a stale one. *)
THEOREM CopyShowsFront == ASSUME NoWrapAround PROVE Spec => []CopyIsFront
<1>1. IInv => CopyIsFront
  BY DEF IInv, SlotInv, CopyIsFront, BufIsFront, Cached
<1> QED BY <1>1, Inductive, PTL

(* NothingStranded: an element whose enqueue has returned is shown to the dequeuer. *)
THEOREM NoneStranded == ASSUME NoWrapAround PROVE Spec => []NothingStranded
<1>1. IInv => NothingStranded
  <2> SUFFICES ASSUME IInv, NEW p \in Ranks, spsc[p] # <<>>, Head(spsc[p]).item \in returned,
                      ~Refreshing(p), slot[p] = MAX
               PROVE  FALSE
    BY DEF NothingStranded
  <2>1. TypeInv /\ SpscInv(p) /\ SlotInv(p)
    BY DEF IInv
  <2>2. spsc[p] \in Seq(Elements) /\ Len(spsc[p]) # 0 /\ Head(spsc[p]) = spsc[p][1]
    BY <2>1 DEF TypeInv
  <2>3. /\ 1 \in 1..Len(spsc[p]) /\ FrontTimestamp(p) = spsc[p][1].ts /\ spsc[p][1] \in Elements
        /\ FrontTimestamp(p) # MAX
    BY <2>1, <2>2, FrontIs, SlotsAssumption DEF MAX, SlotsAssumption
  <2>4. Returning(p) /\ FrontTimestamp(p) = enq[p].ts
    BY <2>1, <2>3 DEF SlotInv, QuietInv
  <2> DEFINE x == spsc[p][1].item
  <2>5. x[1] = p /\ x[2] > accepted[p] /\ x[2] <= accepted[p] + enq[p].n
    BY <2>1, <2>3, <2>4 DEF SpscInv, Granted
  <2>6. x = <<p, x[2]>> /\ x[2] \in Nat /\ accepted[p] \in Nat /\ enq[p].n \in Nat
    BY <2>1, <2>3, <2>5, SlotsAssumption DEF Elements, TypeInv, Calls, SlotsAssumption
  <2> HIDE DEF x
  <2>7. x[2] - accepted[p] \in 1..enq[p].n /\ x[2] = accepted[p] + (x[2] - accepted[p])
    BY <2>5, <2>6
  <2>8. x \in Batch(p, enq[p].n)
    BY <2>6, <2>7 DEF Batch
  <2>9. x \notin returned
    BY <2>8 DEF returned
  <2> QED BY <2>2, <2>9 DEF x
<1> QED BY <1>1, Inductive, PTL

--------------------------------------------------------------------------------
(* Where the elements of the queue are. *)
LEMMA StoredIs ==
  ASSUME IInv, NEW x, x[1] \in Ranks, NEW t, Stored(x, t)
  PROVE  /\ x \in inQueue /\ x[2] <= Granted(x[1]) /\ t \in Nat /\ t < Bound(x[1])
         /\ t \in Timestamps /\ FrontTimestamp(x[1]) <= t
         /\ spsc[x[1]] # <<>> /\ spsc[x[1]][1].item[2] <= x[2]
         /\ Returning(x[1]) /\ FrontTimestamp(x[1]) = enq[x[1]].ts => x[2] > accepted[x[1]]
<1> DEFINE p == x[1]
<1>1. TypeInv /\ SpscInv(p) /\ p \in Ranks
  BY DEF IInv
<1>2. PICK i \in 1..Len(spsc[p]) : spsc[p][i] = [item |-> x, ts |-> t]
  BY DEF Stored
<1>3. spsc[p][i].item = x /\ spsc[p][i].ts = t
  BY <1>2
<1>4. /\ t \in Nat /\ t < MAX /\ Len(spsc[p]) \in Nat /\ Len(spsc[p]) # 0 /\ 1 \in 1..Len(spsc[p])
      /\ FrontTimestamp(p) = spsc[p][1].ts /\ spsc[p][1] \in Elements /\ spsc[p][i] \in Elements
  BY <1>1, <1>3, FrontIs
<1>5. t \in Timestamps /\ spsc[p][1].item[2] \in Nat /\ x[2] \in Nat /\ spsc[p][1].ts \in Nat
  BY <1>1, <1>3, <1>4, FrontIs, SlotsAssumption DEF Timestamps, MAX, Elements, SlotsAssumption
<1>6. spsc[p][1].ts <= t /\ spsc[p][1].item[2] <= x[2]
  <2>1. CASE i = 1
    BY <1>3, <1>5, <2>1
  <2>2. CASE 1 < i
    BY <1>1, <1>3, <1>4, <1>5, <2>2 DEF SpscInv
  <2> QED BY <2>1, <2>2
<1>7. Returning(p) /\ FrontTimestamp(p) = enq[p].ts => x[2] > accepted[p]
  BY <1>1, <1>3, <1>4, <1>5, <1>6 DEF SpscInv, TypeInv
<1>8. spsc[p] # <<>>
  BY <1>4
<1>9. x \in inQueue /\ x[2] <= Granted(p) /\ t < Bound(p)
  BY <1>1, <1>3 DEF SpscInv
<1> HIDE DEF p
<1> QED BY <1>4, <1>5, <1>6, <1>7, <1>8, <1>9 DEF p

LEMMA BatchIs ==
  ASSUME TypeInv, NEW p \in Ranks, NEW n \in Nat, NEW x \in Ranks \X Nat
  PROVE  x \in Batch(p, n) <=> x[1] = p /\ x[2] > accepted[p] /\ x[2] <= accepted[p] + n
<1>1. accepted[p] \in Nat /\ x = <<x[1], x[2]>> /\ x[2] \in Nat
  BY DEF TypeInv
<1>2. ASSUME x[1] = p, x[2] > accepted[p], x[2] <= accepted[p] + n PROVE x \in Batch(p, n)
  <2>1. x[2] - accepted[p] \in 1..n /\ x[2] = accepted[p] + (x[2] - accepted[p])
    BY <1>1, <1>2
  <2> QED BY <1>1, <1>2, <2>1 DEF Batch
<1>3. ASSUME x \in Batch(p, n) PROVE x[1] = p /\ x[2] > accepted[p] /\ x[2] <= accepted[p] + n
  <2>1. PICK i \in 1..n : x = <<p, accepted[p] + i>>
    BY <1>3 DEF Batch
  <2> QED BY <1>1, <2>1
<1> QED BY <1>2, <1>3

(* An element that was accepted is stored. *)
LEMMA AcceptedStored ==
  ASSUME IInv, ContentInv, NEW x \in inQueue, x[2] <= accepted[x[1]]
  PROVE  x \in Ranks \X Nat /\ \E t \in Timestamps : Stored(x, t)
<1>1. TypeInv /\ x \in Ranks \X Nat
  BY DEF IInv, TypeInv
<1>2. x[1] \in Ranks /\ x[2] \in Nat /\ accepted[x[1]] \in Nat /\ enq[x[1]].n \in Nat
  BY <1>1, SlotsAssumption DEF TypeInv, Calls, SlotsAssumption
<1>3. \A t : ~Coming(x, t)
  BY <1>1, <1>2, BatchIs DEF Coming
<1> QED BY <1>1, <1>3 DEF ContentInv

(* The slot of a rank that has such an element shows one. *)
LEMMA AcceptedShown ==
  ASSUME IInv, ContentInv, NEW x \in inQueue, x[2] <= accepted[x[1]],
         deq.pc \notin {"readSlot", "front", "swap"}
  PROVE  slot[x[1]] # MAX
<1> DEFINE p == x[1]
<1>1. p \in Ranks /\ x \in Ranks \X Nat
  BY DEF IInv, TypeInv
<1>2. PICK t \in Timestamps : Stored(x, t)
  BY AcceptedStored
<1>3. spsc[p] # <<>> /\ (Returning(p) /\ FrontTimestamp(p) = enq[p].ts => x[2] > accepted[p])
  BY <1>1, <1>2, StoredIs
<1>4. FrontTimestamp(p) # MAX
  BY <1>1, <1>3, FrontIs DEF IInv
<1>5. ~Refreshing(p)
  BY DEF Refreshing
<1>6. slot[p] = MAX => Returning(p) /\ FrontTimestamp(p) = enq[p].ts
  BY <1>1, <1>4, <1>5 DEF IInv, SlotInv, QuietInv
<1>7. accepted[p] \in Nat /\ x[2] \in Nat
  BY <1>1 DEF IInv, TypeInv
<1> HIDE DEF p
<1>8. x[2] <= accepted[p]
  BY DEF p
<1> QED BY <1>3, <1>6, <1>7, <1>8 DEF p

(* The elements whose enqueue has returned are the accepted ones. *)
LEMMA ReturnedIs ==
  ASSUME IInv, ContentInv, NEW x \in returned
  PROVE  x \in inQueue /\ x \in Ranks \X Nat /\ x[2] <= accepted[x[1]] /\ \E t \in Timestamps : Stored(x, t)
<1> DEFINE p == x[1]
<1>1. TypeInv /\ x \in inQueue /\ x \in Ranks \X Nat /\ \A q \in Ranks : x \notin Batch(q, enq[q].n)
  BY DEF returned, IInv, TypeInv
<1>2. p \in Ranks /\ x[2] \in Nat /\ accepted[p] \in Nat /\ enq[p].n \in Nat
  BY <1>1, SlotsAssumption DEF TypeInv, Calls, SlotsAssumption
<1>3. PICK t \in Timestamps : Stored(x, t)
  BY <1>1, <1>2 DEF ContentInv, Coming
<1>4. x[2] <= Granted(p)
  BY <1>2, <1>3, StoredIs
<1>5. x[2] <= accepted[p]
  <2>1. Granted(p) <= accepted[p] + enq[p].n
    BY <1>2 DEF Granted
  <2>2. x[2] <= accepted[p] + enq[p].n /\ (x[2] > accepted[p] \/ x[2] <= accepted[p])
    BY <1>2, <1>4, <2>1 DEF Granted
  <2> QED BY <1>1, <1>2, <2>2, BatchIs
<1> QED BY <1>1, <1>3, <1>5

--------------------------------------------------------------------------------
(* Steps that add nothing to the queue. *)
LEMMA ContentFrame ==
  ASSUME ContentInv, inQueue' \subseteq inQueue,
         \A x \in inQueue', t \in Timestamps :
           Stored(x, t) \/ Coming(x, t) => \E u \in Timestamps : Stored(x, u)' \/ Coming(x, u)'
  PROVE  ContentInv'
BY DEF ContentInv, Timestamps

LEMMA BeforeFrame ==
  ASSUME BeforeInv, inQueue' \subseteq inQueue, inQueue \subseteq Ranks \X Nat,
         \A x \in inQueue' : before'[x] \subseteq before[x] \cap inQueue',
         \A p \in Ranks : accepted[p] \in Nat /\ accepted'[p] \in Nat /\ accepted[p] <= accepted'[p],
         \A x \in inQueue', u \in Timestamps :
           Stored(x, u)' \/ Coming(x, u)' =>
             \E v \in Timestamps : v <= u /\ (Stored(x, v) \/ Coming(x, v)),
         \A y \in inQueue', t \in Timestamps :
           Stored(y, t)' /\ y[2] <= accepted[y[1]] => Stored(y, t)
  PROVE  BeforeInv'
<1> SUFFICES ASSUME NEW x \in inQueue', NEW y \in before'[x]
             PROVE  /\ y \in inQueue'
                    /\ IF y[1] = x[1] THEN y[2] < x[2]
                       ELSE /\ y[2] <= accepted'[y[1]]
                            /\ \A t, u \in Timestamps :
                                 Stored(y, t)' /\ (Stored(x, u)' \/ Coming(x, u)') => t < u
  BY DEF BeforeInv, Timestamps
<1>1. x \in inQueue /\ y \in before[x] /\ y \in inQueue' /\ y \in Ranks \X Nat
  OBVIOUS
<1>2. y[1] = x[1] => y[2] < x[2]
  BY <1>1 DEF BeforeInv
<1>3. ASSUME y[1] # x[1]
      PROVE  /\ y[2] <= accepted'[y[1]]
             /\ \A t, u \in Timestamps :
                  Stored(y, t)' /\ (Stored(x, u)' \/ Coming(x, u)') => t < u
  <2>1. /\ y[2] <= accepted[y[1]]
        /\ \A t, u \in Timestamps : Stored(y, t) /\ (Stored(x, u) \/ Coming(x, u)) => t < u
    BY <1>1, <1>3 DEF BeforeInv
  <2>2. y[1] \in Ranks /\ y[2] \in Nat
    BY <1>1
  <2>3. y[2] <= accepted'[y[1]]
    BY <2>1, <2>2
  <2>4. ASSUME NEW t \in Timestamps, NEW u \in Timestamps, Stored(y, t)', Stored(x, u)' \/ Coming(x, u)'
        PROVE  t < u
    <3>1. PICK v \in Timestamps : v <= u /\ (Stored(x, v) \/ Coming(x, v))
      BY <2>4
    <3>2. Stored(y, t)
      BY <1>1, <2>1, <2>4
    <3>3. t < v
      BY <2>1, <3>1, <3>2
    <3> QED BY <3>1, <3>3, SlotsAssumption DEF Timestamps, SlotsAssumption
  <2> QED BY <2>3, <2>4
<1> QED BY <1>1, <1>2, <1>3

--------------------------------------------------------------------------------
(* A call puts its elements behind all that have returned. *)
LEMMA CallHistory ==
  ASSUME NoWrapAround, IInv, ContentInv, BeforeInv, NEW p \in Ranks, NEW n \in 1..MaxBatch,
         EnqueueCall(p, n) \/ CountedCall(p, n)
  PROVE  ContentInv' /\ BeforeInv'
<1>1. /\ TypeInv /\ inQueue \subseteq Ranks \X Nat /\ counter \in Nat /\ counter \in Timestamps
      /\ accepted \in [Ranks -> Nat] /\ enq \in [Ranks -> Calls] /\ n \in Nat
  <2>1. TypeInv
    BY DEF IInv
  <2> QED BY <2>1, SlotsAssumption DEF NoWrapAround, TypeInv, SlotsAssumption, Timestamps
<1>2. /\ enq[p].pc = "idle" /\ Putting(p)' /\ enq'[p].n = n /\ enq'[p].ts = counter
      /\ spsc' = spsc /\ accepted' = accepted /\ \A q \in Ranks : q # p => enq'[q] = enq[q]
      /\ inQueue' = inQueue \cup Batch(p, n)
      /\ \A x \in inQueue' :
           before'[x] = IF x \in Batch(p, n) THEN returned \cup {y \in Batch(p, n) : y[2] < x[2]} ELSE before[x]
  <2>1. \A q \in Ranks : q # p => enq'[q] = enq[q]
    BY <1>1 DEF EnqueueCall, CountedCall
  <2> QED BY <1>1, <2>1, CallIs, RecordCallIs DEF Putting
<1>3. \A q, k : Batch(q, k)' = Batch(q, k)
  BY <1>2 DEF Batch
<1>4. \A x, t : Stored(x, t)' <=> Stored(x, t)
  BY <1>2 DEF Stored
<1>5. ASSUME NEW x \in inQueue' PROVE x \in Ranks \X Nat
  BY <1>1, <1>2, <1>5 DEF Batch
<1>6. ASSUME NEW x \in Ranks \X Nat, NEW t
      PROVE  Coming(x, t)' <=> IF x[1] = p THEN x \in Batch(p, n) /\ t = counter ELSE Coming(x, t)
  BY <1>2, <1>3, <1>6 DEF Coming, Putting
<1>7. ASSUME NEW x \in inQueue, x[1] = p PROVE x[2] <= accepted[p] /\ x \notin Batch(p, n)
  <2>1. ~Putting(p) /\ ~Returning(p) /\ Granted(p) = accepted[p]
    BY <1>1, <1>2 DEF Putting, Returning, Granted
  <2>2. x \in Ranks \X Nat /\ \A t : ~Coming(x, t)
    BY <1>1, <1>7, <2>1 DEF Coming
  <2>3. PICK t \in Timestamps : Stored(x, t)
    BY <2>2 DEF ContentInv
  <2>4. x[2] <= accepted[p]
    BY <1>7, <2>1, <2>3, StoredIs
  <2>5. x[2] \in Nat /\ accepted[p] \in Nat
    BY <1>1, <2>2
  <2> QED BY <1>1, <2>2, <2>4, <2>5, BatchIs
<1>8. ContentInv'
  <2> SUFFICES ASSUME NEW x \in inQueue' PROVE \E t \in Timestamps : Stored(x, t)' \/ Coming(x, t)'
    BY DEF ContentInv, Timestamps
  <2>1. x \in Ranks \X Nat
    BY <1>5
  <2>2. CASE x \in Batch(p, n)
    <3>1. x[1] = p
      BY <2>2 DEF Batch
    <3> QED BY <1>1, <1>6, <2>1, <2>2, <3>1
  <2>3. CASE x \notin Batch(p, n)
    <3>1. PICK t \in Timestamps : Stored(x, t) \/ Coming(x, t)
      BY <1>2, <2>3 DEF ContentInv
    <3>2. Coming(x, t) => x[1] # p
      BY <1>2 DEF Coming, Putting
    <3> QED BY <1>4, <1>6, <2>1, <3>1, <3>2
  <2> QED BY <2>2, <2>3
<1>9. BeforeInv'
  <2> SUFFICES ASSUME NEW x \in inQueue', NEW y \in before'[x]
               PROVE  /\ y \in inQueue'
                      /\ IF y[1] = x[1] THEN y[2] < x[2]
                         ELSE /\ y[2] <= accepted[y[1]]
                              /\ \A t, u \in Timestamps :
                                   Stored(y, t) /\ (Stored(x, u) \/ Coming(x, u)') => t < u
    BY <1>2, <1>4 DEF BeforeInv, Timestamps
  <2>1. x \in Ranks \X Nat
    BY <1>5
  <2>2. CASE x \notin Batch(p, n)
    <3>1. x \in inQueue /\ y \in before[x]
      BY <1>2, <2>2
    <3>2. \A u : Coming(x, u)' => Coming(x, u)
      BY <1>6, <2>1, <2>2
    <3> QED BY <1>2, <3>1, <3>2 DEF BeforeInv
  <2>3. CASE x \in Batch(p, n) /\ y \in Batch(p, n)
    <3>1. x[1] = p /\ y[1] = p /\ \A z \in inQueue : z[1] = p => z \notin Batch(p, n)
      BY <1>7, <2>3 DEF Batch
    <3>2. y \notin returned
      BY <2>3, <3>1 DEF returned
    <3> QED BY <1>2, <2>3, <3>1, <3>2
  <2>4. CASE x \in Batch(p, n) /\ y \notin Batch(p, n)
    <3>0. y \in returned
      BY <1>2, <2>4
    <3>1. y \in returned /\ x[1] = p /\ x[2] > accepted[p] /\ x[2] \in Nat
      BY <1>1, <2>1, <2>4, <3>0, BatchIs
    <3>2. y \in inQueue /\ y \in Ranks \X Nat /\ y[2] <= accepted[y[1]]
      BY <3>1, ReturnedIs
    <3>3. y[1] = p => y[2] < x[2]
      BY <1>1, <3>1, <3>2
    <3>4. ASSUME NEW t \in Timestamps, NEW u \in Timestamps, Stored(y, t), Stored(x, u) \/ Coming(x, u)'
          PROVE  t < u
      <4>1. ~Stored(x, u)
        BY <1>7, <2>4, <3>1, StoredIs
      <4>2. u = counter
        BY <1>6, <2>1, <3>1, <3>4, <4>1
      <4>3. t \in Nat /\ t < Bound(y[1]) /\ y[1] \in Ranks
        BY <3>2, <3>4, StoredIs
      <4>4. Bound(y[1]) \in Nat /\ Bound(y[1]) <= counter
        <5>1. StampInv(y[1]) /\ enq[y[1]].ts \in Nat
          BY <1>1, <4>3, SlotsAssumption DEF IInv, Calls, Timestamps, SlotsAssumption
        <5> QED BY <1>1, <5>1 DEF Bound, Putting, StampInv
      <4> QED BY <1>1, <4>2, <4>3, <4>4
    <3> QED BY <1>2, <3>1, <3>2, <3>3, <3>4
  <2> QED BY <2>2, <2>3, <2>4
<1> QED BY <1>8, <1>9

--------------------------------------------------------------------------------
(* The other steps of an enqueue. *)
LEMMA StampingHistory ==
  ASSUME NoWrapAround, IInv, ContentInv, BeforeInv, NEW p \in Ranks, Stamping(p)
  PROVE  ContentInv' /\ BeforeInv'
<1>1. TypeInv /\ inQueue \subseteq Ranks \X Nat /\ enq \in [Ranks -> Calls] /\ accepted \in [Ranks -> Nat]
        /\ counter \in Nat
  BY SlotsAssumption DEF IInv, TypeInv, SlotsAssumption
<1>2. PICK u \in Nat : /\ enq[p].ts <= u /\ u < counter'
                       /\ enq' = [enq EXCEPT ![p].pc = "put", ![p].ts = Timestamp(u)]
  BY DEF Stamping
<1>3. Timestamp(u) = u /\ u \in Timestamps
  BY <1>1, <1>2, TimestampIs, SlotsAssumption DEF Stamping, NoWrapAround, SlotsAssumption, Timestamps
<1>4. /\ enq[p].pc = "count" /\ enq'[p].pc = "put" /\ enq'[p].ts = u /\ enq'[p].n = enq[p].n
      /\ \A q \in Ranks : q # p => enq'[q] = enq[q]
      /\ spsc' = spsc /\ accepted' = accepted /\ before' = before /\ inQueue' = inQueue
  BY <1>1, <1>2, <1>3 DEF Stamping, Calls, inQueue
<1>5. enq[p].ts \in Timestamps /\ \A x, t : Stored(x, t)' <=> Stored(x, t)
  BY <1>1, <1>4 DEF Calls, Stored
<1>6. ASSUME NEW x \in inQueue, NEW t
      PROVE  Coming(x, t)' <=> IF x[1] = p THEN Coming(x, enq[p].ts) /\ t = u ELSE Coming(x, t)
  <2>1. x[1] \in Ranks /\ Batch(x[1], enq[x[1]].n)' = Batch(x[1], enq[x[1]].n)
    BY <1>1, <1>4 DEF Batch
  <2>2. Putting(x[1])' <=> Putting(x[1])
    BY <1>4, <2>1 DEF Putting
  <2> QED BY <1>4, <2>1, <2>2 DEF Coming
<1>7. ContentInv'
  <2>1. ASSUME NEW x \in inQueue', NEW t \in Timestamps, Stored(x, t) \/ Coming(x, t)
        PROVE  \E v \in Timestamps : Stored(x, v)' \/ Coming(x, v)'
    <3>1. Coming(x, t) /\ x[1] = p => t = enq[p].ts
      BY DEF Coming
    <3> QED BY <1>3, <1>4, <1>5, <1>6, <2>1, <3>1
  <2> QED BY <1>4, <2>1, ContentFrame
<1>8. BeforeInv'
  <2>1. ASSUME NEW x \in inQueue', NEW v \in Timestamps, Stored(x, v)' \/ Coming(x, v)'
        PROVE  \E t \in Timestamps : t <= v /\ (Stored(x, t) \/ Coming(x, t))
    <3>1. v \in Nat
      BY SlotsAssumption DEF SlotsAssumption, Timestamps
    <3> QED BY <1>2, <1>4, <1>5, <1>6, <2>1, <3>1
  <2>2. \A x \in inQueue' : before'[x] \subseteq before[x] \cap inQueue'
    BY <1>4 DEF BeforeInv
  <2>3. \A q \in Ranks : accepted[q] \in Nat /\ accepted'[q] \in Nat /\ accepted[q] <= accepted'[q]
    BY <1>1, <1>4
  <2> QED BY <1>1, <1>4, <1>5, <2>1, <2>2, <2>3, BeforeFrame
<1> QED BY <1>7, <1>8

LEMMA PutHistory ==
  ASSUME NoWrapAround, IInv, ContentInv, BeforeInv, NEW p \in Ranks, Put(p)
  PROVE  ContentInv' /\ BeforeInv'
<1>1. /\ TypeInv /\ inQueue \subseteq Ranks \X Nat /\ enq \in [Ranks -> Calls] /\ accepted \in [Ranks -> Nat]
      /\ enq[p].ts < MAX /\ enq[p].n \in Nat /\ enq[p].ts \in Timestamps
  <2>1. TypeInv /\ StampInv(p) /\ enq[p].pc = "put"
    BY DEF IInv, Put
  <2>2. enq[p].ts < MAX
    BY <2>1, StampBelowMax
  <2>3. inQueue \subseteq Ranks \X Nat /\ enq \in [Ranks -> Calls] /\ accepted \in [Ranks -> Nat]
    BY <2>1 DEF TypeInv
  <2>4. enq[p].n \in Nat /\ enq[p].ts \in Timestamps
    BY <2>3, SlotsAssumption DEF SlotsAssumption, Calls
  <2> QED BY <2>1, <2>2, <2>3, <2>4
<1>2. /\ enq[p].pc = "put" /\ enq'[p].pc = "check" /\ \A q \in Ranks : q # p => enq'[q] = enq[q]
      /\ accepted' = accepted /\ before' = before /\ inQueue' = inQueue
  BY <1>1 DEF Put, GoOn, inQueue
<1>3. /\ \A q \in Ranks : q # p => spsc'[q] = spsc[q]
      /\ Len(spsc[p]) \in Nat /\ Len(spsc'[p]) = Len(spsc[p]) + enq[p].n
      /\ \A i \in 1..Len(spsc[p]) : spsc'[p][i] = spsc[p][i]
      /\ \A i \in 1..Len(spsc'[p]) : i > Len(spsc[p]) =>
           /\ i - Len(spsc[p]) \in 1..enq[p].n
           /\ spsc'[p][i] = [item |-> <<p, accepted[p] + (i - Len(spsc[p]))>>, ts |-> enq[p].ts]
  BY <1>1, PutEffect
<1>4. ASSUME NEW x \in inQueue, NEW t, Stored(x, t) PROVE Stored(x, t)'
  <2>1. PICK i \in 1..Len(spsc[x[1]]) : spsc[x[1]][i] = [item |-> x, ts |-> t]
    BY <1>4 DEF Stored
  <2>2. CASE x[1] = p
    <3>1. i \in 1..Len(spsc'[p]) /\ spsc'[p][i] = [item |-> x, ts |-> t]
      BY <1>1, <1>3, <2>1, <2>2
    <3> QED BY <2>2, <3>1 DEF Stored
  <2>3. CASE x[1] # p
    BY <1>1, <1>3, <2>1, <2>3 DEF Stored
  <2> QED BY <2>2, <2>3
<1>5. ASSUME NEW x \in inQueue, NEW t, x[1] = p, Coming(x, t) PROVE Stored(x, t)'
  <2>1. PICK k \in 1..enq[p].n : x = <<p, accepted[p] + k>>
    BY <1>5 DEF Coming, Batch
  <2>2. Len(spsc[p]) + k \in 1..Len(spsc'[p]) /\ Len(spsc[p]) + k > Len(spsc[p])
          /\ (Len(spsc[p]) + k) - Len(spsc[p]) = k
    BY <1>1, <1>3
  <2>3. spsc'[p][Len(spsc[p]) + k] = [item |-> x, ts |-> enq[p].ts]
    BY <1>3, <2>1, <2>2
  <2>4. \E i \in 1..Len(spsc'[p]) : spsc'[p][i] = [item |-> x, ts |-> enq[p].ts]
    BY <2>2, <2>3
  <2>5. t = enq[p].ts
    BY <1>5 DEF Coming
  <2> QED BY <1>5, <2>4, <2>5 DEF Stored
<1>6. ASSUME NEW x \in inQueue, NEW t, Stored(x, t)'
      PROVE  Stored(x, t) \/ (x[1] = p /\ t = enq[p].ts /\ Coming(x, t) /\ x[2] > accepted[p])
  <2>1. PICK i \in 1..Len(spsc'[x[1]]) : spsc'[x[1]][i] = [item |-> x, ts |-> t]
    BY <1>6 DEF Stored
  <2>2. CASE x[1] = p /\ i > Len(spsc[p])
    <3> DEFINE k == i - Len(spsc[p])
    <3>1. k \in 1..enq[p].n /\ [item |-> x, ts |-> t] = [item |-> <<p, accepted[p] + k>>, ts |-> enq[p].ts]
      BY <1>3, <2>1, <2>2
    <3> HIDE DEF k
    <3>2. x = <<p, accepted[p] + k>> /\ t = enq[p].ts
      BY <3>1
    <3>3. x[2] > accepted[p]
      BY <1>1, <3>1, <3>2
    <3>4. x \in Batch(p, enq[p].n)
      BY <3>1, <3>2 DEF Batch
    <3> QED BY <1>2, <2>2, <3>2, <3>3, <3>4 DEF Coming, Putting
  <2>3. CASE x[1] = p /\ i <= Len(spsc[p])
    <3>1. i \in 1..Len(spsc[p])
      BY <1>3, <2>1, <2>3
    <3> QED BY <1>3, <2>1, <2>3, <3>1 DEF Stored
  <2>4. CASE x[1] # p
    BY <1>1, <1>3, <2>1, <2>4 DEF Stored
  <2> QED BY <1>1, <1>3, <2>1, <2>2, <2>3, <2>4
<1>7. ASSUME NEW x \in inQueue, NEW t PROVE Coming(x, t)' <=> x[1] # p /\ Coming(x, t)
  <2>1. x[1] \in Ranks /\ ~Putting(p)'
    BY <1>1, <1>2 DEF Putting
  <2>2. x[1] # p => Putting(x[1])' = Putting(x[1]) /\ Batch(x[1], enq[x[1]].n)' = Batch(x[1], enq[x[1]].n)
    BY <1>2, <2>1 DEF Batch, Putting
  <2> QED BY <1>2, <2>1, <2>2 DEF Coming
<1>8. ContentInv'
  <2>1. ASSUME NEW x \in inQueue', NEW t \in Timestamps, Stored(x, t) \/ Coming(x, t)
        PROVE  \E v \in Timestamps : Stored(x, v)' \/ Coming(x, v)'
    <3>1. Stored(x, t)' \/ Coming(x, t)'
      BY <1>2, <1>4, <1>5, <1>7, <2>1
    <3> QED BY <3>1
  <2> QED BY <1>2, <2>1, ContentFrame
<1>9. BeforeInv'
  <2>1. ASSUME NEW x \in inQueue', NEW v \in Timestamps, Stored(x, v)' \/ Coming(x, v)'
        PROVE  \E t \in Timestamps : t <= v /\ (Stored(x, t) \/ Coming(x, t))
    <3>1. v <= v
      BY SlotsAssumption DEF SlotsAssumption, Timestamps
    <3> QED BY <1>2, <1>6, <1>7, <2>1, <3>1
  <2>2. \A x \in inQueue' : before'[x] \subseteq before[x] \cap inQueue'
    BY <1>2 DEF BeforeInv
  <2>3. \A q \in Ranks : accepted[q] \in Nat /\ accepted'[q] \in Nat /\ accepted[q] <= accepted'[q]
    BY <1>1, <1>2
  <2>4. ASSUME NEW y \in inQueue', NEW t \in Timestamps, Stored(y, t)', y[2] <= accepted[y[1]]
        PROVE  Stored(y, t)
    <3>1. y \in inQueue /\ y[2] \in Nat /\ accepted[y[1]] \in Nat
      BY <1>1, <1>2
    <3>2. Stored(y, t) \/ (y[1] = p /\ y[2] > accepted[p])
      BY <1>6, <2>4, <3>1
    <3> QED BY <2>4, <3>1, <3>2
  <2> QED BY <1>1, <1>2, <2>1, <2>2, <2>3, <2>4, BeforeFrame
<1> QED BY <1>8, <1>9

LEMMA LeavingHistory ==
  ASSUME IInv, ContentInv, BeforeInv, NEW p \in Ranks, EnqueueFull(p) \/ RefreshEnqueue(p)
  PROVE  ContentInv' /\ BeforeInv'
<1>1. /\ TypeInv /\ inQueue \subseteq Ranks \X Nat /\ enq \in [Ranks -> Calls] /\ accepted \in [Ranks -> Nat]
      /\ enq[p].n \in Nat
  <2>1. TypeInv
    BY DEF IInv
  <2> QED BY <2>1, SlotsAssumption DEF TypeInv, SlotsAssumption, Calls
<1>2. /\ ~Putting(p)' /\ spsc' = spsc
      /\ \A q \in Ranks : q # p => enq'[q] = enq[q] /\ accepted'[q] = accepted[q]
      /\ \A q \in Ranks : accepted'[q] \in Nat /\ accepted[q] <= accepted'[q]
  <2>1. CASE EnqueueFull(p)
    BY <1>1, <2>1 DEF EnqueueFull, EnqIdle, Putting
  <2>2. CASE ReadSlot(p)
    BY <1>1, <2>2 DEF ReadSlot, Calls, Putting
  <2>3. ASSUME NEW pc \in {"readSlot", "swap"}, GoOn(p, pc), spsc' = spsc
        PROVE  /\ ~Putting(p)' /\ spsc' = spsc
               /\ \A q \in Ranks : q # p => enq'[q] = enq[q] /\ accepted'[q] = accepted[q]
               /\ \A q \in Ranks : accepted'[q] \in Nat /\ accepted[q] <= accepted'[q]
    BY <1>1, <2>3 DEF GoOn, Calls, Putting
  <2>4. ASSUME EnqueueReturn(p), spsc' = spsc
        PROVE  /\ ~Putting(p)' /\ spsc' = spsc
               /\ \A q \in Ranks : q # p => enq'[q] = enq[q] /\ accepted'[q] = accepted[q]
               /\ \A q \in Ranks : accepted'[q] \in Nat /\ accepted[q] <= accepted'[q]
    BY <1>1, <2>4 DEF EnqueueReturn, EnqIdle, Putting
  <2>5. CASE SwapSlotFails(p) /\ enq' = [enq EXCEPT ![p].try = 2, ![p].pc = "check"] /\ accepted' = accepted
    BY <1>1, <2>5 DEF SwapSlotFails, Calls, Putting
  <2> QED
    BY <2>1, <2>2, <2>3, <2>4, <2>5
       DEF RefreshEnqueue, CheckFront, RecheckFront, SwapSlot, SwapSlotFails
<1>3. /\ inQueue' \subseteq inQueue /\ \A x \in inQueue' : before'[x] \subseteq before[x] \cap inQueue'
      /\ \A x \in inQueue' : \A t : ~(x[1] = p /\ Coming(x, t))
  <2>1. CASE EnqueueFull(p)
    <3>1. /\ inQueue' = inQueue \ Batch(p, enq[p].n)
          /\ \A x \in inQueue' : before'[x] = before[x] \ Batch(p, enq[p].n)
      BY <2>1, RecordGoneIs DEF EnqueueFull
    <3> QED BY <3>1 DEF BeforeInv, Coming
  <2>2. CASE RefreshEnqueue(p)
    <3>1. before' = before /\ inQueue' = inQueue /\ ~Putting(p)
      BY <2>2
         DEF RefreshEnqueue, CheckFront, ReadSlot, RecheckFront, SwapSlot, SwapSlotFails, inQueue, Putting
    <3> QED BY <3>1 DEF BeforeInv, Coming
  <2> QED BY <2>1, <2>2
<1>4. \A x, t : Stored(x, t)' <=> Stored(x, t)
  BY <1>2 DEF Stored
<1>5. ASSUME NEW x \in inQueue', NEW t PROVE Coming(x, t)' <=> Coming(x, t)
  <2>1. x[1] \in Ranks
    BY <1>1, <1>3
  <2>2. x[1] # p => Putting(x[1])' = Putting(x[1]) /\ Batch(x[1], enq[x[1]].n)' = Batch(x[1], enq[x[1]].n)
    BY <1>2, <2>1 DEF Batch, Putting
  <2> QED BY <1>2, <1>3, <2>1, <2>2 DEF Coming
<1>6. ContentInv'
  BY <1>3, <1>4, <1>5, ContentFrame
<1>7. BeforeInv'
  <2>1. \A x \in inQueue', v \in Timestamps : Stored(x, v)' \/ Coming(x, v)' =>
          \E t \in Timestamps : t <= v /\ (Stored(x, t) \/ Coming(x, t))
    <3>1. \A v \in Timestamps : v <= v
      BY SlotsAssumption DEF SlotsAssumption, Timestamps
    <3> QED BY <1>4, <1>5, <3>1
  <2> QED BY <1>1, <1>2, <1>3, <1>4, <2>1, BeforeFrame
<1> QED BY <1>6, <1>7

(* The steps of dequeue: only Take changes the queue. *)
LEMMA DequeueHistory ==
  ASSUME IInv, ContentInv, BeforeInv, Dequeueing(Cached)
  PROVE  ContentInv' /\ BeforeInv'
<1>1. /\ TypeInv /\ inQueue \subseteq Ranks \X Nat /\ accepted \in [Ranks -> Nat]
  <2>1. TypeInv
    BY DEF IInv
  <2> QED BY <2>1 DEF TypeInv
<1>2. enq' = enq /\ accepted' = accepted
  BY DEF Dequeueing, ReadMinimumRank, FirstScan, SecondScan, ScanSlot, Select, SelectNone, Take, DequeueCall,
         RefreshDequeue, DReadSlot, DReadFront, DSwapSlot, DSwapSlotFails, enqVars
<1>3. \A x, t : Coming(x, t)' <=> Coming(x, t)
  BY <1>2 DEF Coming, Putting, Batch
<1>4. ASSUME inQueue' \subseteq inQueue, \A x \in inQueue' : before'[x] \subseteq before[x] \cap inQueue',
             \A x \in inQueue' : \A t : Stored(x, t)' <=> Stored(x, t)
      PROVE  ContentInv' /\ BeforeInv'
  <2>1. ContentInv'
    BY <1>3, <1>4, ContentFrame
  <2>2. \A x \in inQueue', v \in Timestamps : Stored(x, v)' \/ Coming(x, v)' =>
          \E t \in Timestamps : t <= v /\ (Stored(x, t) \/ Coming(x, t))
    <3>1. \A v \in Timestamps : v <= v
      BY SlotsAssumption DEF SlotsAssumption, Timestamps
    <3> QED BY <1>3, <1>4, <3>1
  <2>3. \A q \in Ranks : accepted[q] \in Nat /\ accepted'[q] \in Nat /\ accepted[q] <= accepted'[q]
    BY <1>1, <1>2
  <2>4. BeforeInv'
    BY <1>1, <1>4, <2>2, <2>3, BeforeFrame
  <2> QED BY <2>1, <2>4
<1>5. CASE Take(Cached)
  <2>1. PICK r \in Ranks : Taking(r)
    BY <1>5, TakeIs
  <2> DEFINE h == spsc[r][1].item
  <2>2. /\ \A p \in Ranks : p # r => spsc'[p] = spsc[p]
        /\ Len(spsc[r]) \in Nat \ {0} /\ Head(spsc[r]) = spsc[r][1] /\ Len(spsc'[r]) = Len(spsc[r]) - 1
        /\ \A i \in 1..Len(spsc'[r]) : i + 1 \in 1..Len(spsc[r]) /\ spsc'[r][i] = spsc[r][i+1]
    BY <1>1, <2>1, TailEffect DEF Taking
  <2>3. inQueue' = inQueue \ {h} /\ \A x \in inQueue' : before'[x] = before[x] \ {h}
    BY <2>1, <2>2, RecordGoneIs DEF Taking
  <2>4. ASSUME NEW x \in inQueue', NEW t PROVE Stored(x, t)' <=> Stored(x, t)
    <3>1. x[1] \in Ranks
      BY <1>1, <2>3
    <3>2. CASE x[1] # r
      BY <2>2, <3>1, <3>2 DEF Stored
    <3>3. CASE x[1] = r
      <4>1. Stored(x, t)' => Stored(x, t)
        BY <2>2, <3>3 DEF Stored
      <4>2. ASSUME NEW i \in 1..Len(spsc[r]), spsc[r][i] = [item |-> x, ts |-> t]
            PROVE  i - 1 \in 1..Len(spsc'[r]) /\ spsc'[r][i-1] = spsc[r][i]
        <5>1. i # 1
          BY <2>3, <4>2
        <5>2. i - 1 \in 1..Len(spsc'[r]) /\ (i - 1) + 1 = i
          BY <2>2, <5>1
        <5> QED BY <2>2, <5>2
      <4> QED BY <3>3, <4>1, <4>2 DEF Stored
    <3> QED BY <3>2, <3>3
  <2> HIDE DEF h
  <2>5. \A x \in inQueue' : before'[x] \subseteq before[x] \cap inQueue'
    BY <2>3 DEF BeforeInv
  <2> QED BY <1>4, <2>3, <2>4, <2>5
<1>6. CASE before' = before /\ spsc' = spsc
  <2>1. inQueue' = inQueue /\ \A x, t : Stored(x, t)' <=> Stored(x, t)
    BY <1>6 DEF inQueue, Stored
  <2>2. \A x \in inQueue' : before'[x] \subseteq before[x] \cap inQueue'
    BY <1>6, <2>1 DEF BeforeInv
  <2> QED BY <1>4, <2>1, <2>2
<1>7. Take(Cached) \/ (before' = before /\ spsc' = spsc)
  BY DEF Dequeueing, ReadMinimumRank, FirstScan, SecondScan, ScanSlot, Select, SelectNone, DequeueCall,
         RefreshDequeue, DReadSlot, DReadFront, DSwapSlot, DSwapSlotFails
<1> QED BY <1>5, <1>6, <1>7

--------------------------------------------------------------------------------
(* An enqueue neither removes nor hides an element that was there before dequeue. *)
LEMMA EnqueueSettled ==
  ASSUME NoWrapAround, IInv, SettledInv, NEW p \in Ranks, Enqueueing(p)
  PROVE  SettledInv'
<1>1. /\ TypeInv /\ inQueue \subseteq Ranks \X Nat /\ enq \in [Ranks -> Calls] /\ accepted \in [Ranks -> Nat]
      /\ slot \in [Ranks -> Timestamps] /\ enq[p].n \in Nat /\ StampInv(p)
      /\ \A n \in Nat : accepted[p] + n \in Nat /\ accepted[p] <= accepted[p] + n
  <2>1. TypeInv /\ StampInv(p)
    BY DEF IInv
  <2> QED BY <2>1, SlotsAssumption DEF TypeInv, SlotsAssumption, Calls
<1>2. buf' = buf /\ deq' = deq /\ settled' = settled /\ MAX' = MAX
  BY DEF Enqueueing, EnqueueCall, CountedCall, Stamping, Put, EnqueueFull, RefreshEnqueue, CheckFront,
         ReadSlot, RecheckFront, SwapSlot, SwapSlotFails, deqVars, MAX
<1>3. \A q \in Ranks : slot'[q] = slot[q] \/ slot'[q] # MAX
  <2>1. CASE SwapSlot(p)
    <3>1. enq[p].ts < MAX /\ enq[p].ts # MAX
      BY <1>1, <2>1, StampBelowMax DEF SwapSlot
    <3> QED BY <1>1, <2>1, <3>1 DEF SwapSlot
  <2>2. CASE slot' = slot
    BY <2>2
  <2> QED
    BY <2>1, <2>2 DEF Enqueueing, EnqueueCall, CountedCall, Stamping, Put, EnqueueFull, RefreshEnqueue,
                      CheckFront, ReadSlot, RecheckFront, SwapSlotFails
<1>4. \A q \in Ranks : accepted'[q] \in Nat /\ accepted[q] <= accepted'[q]
  <2>1. CASE EnqueueReturn(p)
    BY <1>1, <2>1 DEF EnqueueReturn
  <2>2. CASE accepted' = accepted
    BY <1>1, <2>2
  <2> QED
    BY <2>1, <2>2 DEF Enqueueing, EnqueueCall, CountedCall, Stamping, Put, EnqueueFull, RefreshEnqueue,
                      CheckFront, ReadSlot, RecheckFront, SwapSlot, SwapSlotFails, GoOn
<1>5. ASSUME NEW x \in settled PROVE x \in inQueue' /\ x[2] <= accepted'[x[1]]
  <2>1. x \in inQueue /\ x \in Ranks \X Nat /\ x[1] \in Ranks /\ x[2] \in Nat /\ x[2] <= accepted[x[1]]
    BY <1>1 DEF SettledInv
  <2>2. x \notin Batch(p, enq[p].n)
    BY <1>1, <2>1, BatchIs
  <2>3. x \in inQueue'
    <3>1. CASE EnqueueFull(p)
      BY <2>1, <2>2, <3>1, RecordGoneIs DEF EnqueueFull
    <3>2. CASE \E n \in 1..MaxBatch : EnqueueCall(p, n) \/ CountedCall(p, n)
      BY <2>1, <3>2, RecordCallIs DEF EnqueueCall, CountedCall
    <3>3. CASE before' = before
      BY <2>1, <3>3 DEF inQueue
    <3> QED
      BY <3>1, <3>2, <3>3 DEF Enqueueing, Stamping, Put, RefreshEnqueue, CheckFront, ReadSlot, RecheckFront,
                              SwapSlot, SwapSlotFails
  <2> QED BY <1>1, <1>4, <2>1, <2>3
<1>6. \A q : Settles(q)' <=> Settles(q)
  BY <1>2 DEF Settles
<1> QED BY <1>2, <1>3, <1>5, <1>6 DEF SettledInv, Ranks

(* The slots of the ranks whose elements were there are read and compared. *)
LEMMA ScanSettled ==
  ASSUME NoWrapAround, IInv, ContentInv, SettledInv, NEW limit \in 0..Size, ScanSlot(limit, Cached),
         deq.pc = "scan" \/ (deq.pc = "rescan" /\ limit = deq.rank)
  PROVE  SettledInv'
<1>1. TypeInv /\ deq \in Scans /\ deq.rank \in Ranks /\ buf \in [Ranks -> Timestamps]
  BY DEF IInv, TypeInv, Scans
<1>2. /\ slot' = slot /\ settled' = settled /\ accepted' = accepted /\ inQueue' = inQueue /\ MAX' = MAX
      /\ \A q : Settles(q)' <=> Settles(q)
  BY DEF ScanSlot, enqVars, inQueue, MAX, Settles
<1>3. PICK r \in Ranks :
        /\ r < limit /\ r >= deq.next
        /\ \A q \in Ranks : q < r => q < deq.next \/ (Cached /\ buf[q] # MAX)
        /\ buf' = [buf EXCEPT ![r] = slot[r]] /\ deq' = [deq EXCEPT !.next = r + 1]
  BY <1>1, ScanSlotIs
<1>4. deq'.pc = deq.pc /\ deq'.rank = deq.rank /\ deq'.next = r + 1
  BY <1>1, <1>3 DEF Scans
<1>5. ASSUME NEW q \in Ranks, Settles(q)
      PROVE  /\ slot[q] # MAX
             /\ deq.pc = "rescan" \/ q < r + 1 => buf'[q] # MAX
             /\ deq.pc = "rescan" => buf'[deq.rank] <= buf'[q]
  <2>1. slot[q] # MAX /\ (deq.pc = "rescan" \/ q < deq.next => buf[q] # MAX)
          /\ (deq.pc = "rescan" => buf[deq.rank] <= buf[q])
    BY <1>5 DEF SettledInv
  <2>2. buf'[q] # MAX \/ (deq.pc = "scan" /\ q >= r + 1)
    <3>1. CASE q = r
      BY <1>1, <1>3, <2>1, <3>1
    <3>2. CASE q # r
      <4>1. buf'[q] = buf[q] /\ (q < r \/ q >= r + 1)
        BY <1>1, <1>3, <3>2, SlotsAssumption DEF Ranks, SlotsAssumption
      <4> QED BY <1>3, <2>1, <4>1
    <3> QED BY <3>1, <3>2
  <2>3. ASSUME deq.pc = "rescan" PROVE buf'[deq.rank] = buf[deq.rank] /\ buf'[q] = buf[q]
    <3>1. r # deq.rank
      BY <1>1, <1>3, <2>3, SlotsAssumption DEF Ranks, SlotsAssumption
    <3>2. q = r => slot[q] = buf[q]
      BY <2>1, <2>3 DEF IInv, SlotInv, QuietInv, Refreshing, Fresh
    <3> QED BY <1>1, <1>3, <3>1, <3>2
  <2>4. ~ (q >= r + 1 /\ q < r + 1)
    BY SlotsAssumption DEF Ranks, SlotsAssumption
  <2> QED BY <2>1, <2>2, <2>3, <2>4
<1>6. \A x \in settled : x \in inQueue /\ x[2] <= accepted[x[1]]
  BY DEF SettledInv
<1> QED BY <1>2, <1>4, <1>5, <1>6 DEF SettledInv, Ranks

(* When dequeue is called, the slot of every rank that has an element in the *)
(* queue whose enqueue has returned shows one.                               *)
LEMMA CallSettled ==
  ASSUME NoWrapAround, IInv, ContentInv, SettledInv, DequeueCall
  PROVE  SettledInv'
<1>1. /\ deq.pc = "idle" /\ deq'.pc = "scan" /\ deq'.next = 0 /\ settled' = returned
      /\ slot' = slot /\ accepted' = accepted /\ inQueue' = inQueue /\ MAX' = MAX
  BY DEF DequeueCall, DeqIdle, enqVars, inQueue, MAX
<1>2. \A x \in returned : x \in inQueue /\ x[2] <= accepted[x[1]]
  BY ReturnedIs
<1>3. ASSUME NEW p \in Ranks, Settles(p)' PROVE slot[p] # MAX
  BY <1>1, <1>2, <1>3, AcceptedShown DEF Settles
<1>4. \A p \in Ranks : ~ (p < 0)
  BY SlotsAssumption DEF Ranks, SlotsAssumption
<1> QED BY <1>1, <1>2, <1>3, <1>4 DEF SettledInv, Ranks

LEMMA DequeueSettled ==
  ASSUME NoWrapAround, IInv, ContentInv, SettledInv, Dequeueing(Cached)
  PROVE  SettledInv'
<1>1. TypeInv /\ deq \in Scans /\ deq.rank \in Ranks /\ Size \in Nat /\ Size \in 0..Size /\ deq.rank \in 0..Size
  BY SlotsAssumption DEF IInv, TypeInv, Scans, SlotsAssumption, Ranks
<1>2. \A x \in settled : x \in inQueue /\ x[2] <= accepted[x[1]]
  BY DEF SettledInv
<1>3. CASE DequeueCall
  BY <1>3, CallSettled
<1>4. CASE FirstScan(Cached) \/ SecondScan(Cached)
  BY <1>1, <1>4, ScanSettled DEF FirstScan, SecondScan
<1>5. CASE Select(Cached)
  <2> DEFINE r == Lowest({p \in Visible : \A q \in Visible : buf[p] <= buf[q]})
  <2>1. r \in Ranks /\ \A q \in Visible : buf[r] <= buf[q]
    BY <1>1, <1>5, LeastIn DEF Select
  <2>2. deq.pc = "scan" /\ ToRead(Size, Cached) = {}
        /\ deq' = [deq EXCEPT !.pc = "rescan", !.next = 0, !.rank = r]
        /\ UNCHANGED <<slot, accepted, buf, settled, before>>
    BY <1>5 DEF Select, enqVars
  <2> HIDE DEF r
  <2>3. deq'.pc = "rescan" /\ deq'.rank = r
    BY <1>1, <2>1, <2>2 DEF Scans
  <2>4. ASSUME NEW q \in Ranks, Settles(q) PROVE slot[q] # MAX /\ buf[q] # MAX /\ q \in Visible
    <3>1. slot[q] # MAX /\ (q < deq.next => buf[q] # MAX)
      BY <2>2, <2>4 DEF SettledInv
    <3>2. q < deq.next \/ (Cached /\ buf[q] # MAX)
      <4>1. q \notin ToRead(Size, Cached) /\ q < Size /\ q \in Nat /\ deq.next \in Nat
        BY <1>1, <2>2 DEF Ranks, Scans
      <4> QED BY <4>1 DEF ToRead
    <3> QED BY <3>1, <3>2 DEF Visible
  <2>5. \A q : Settles(q)' <=> Settles(q)
    BY <2>2 DEF Settles
  <2>6. inQueue' = inQueue /\ MAX' = MAX
    BY <2>2 DEF inQueue, MAX
  <2> QED BY <1>2, <2>1, <2>2, <2>3, <2>4, <2>5, <2>6 DEF SettledInv, Ranks
<1>6. CASE Take(Cached)
  <2>1. settled' = {}
    BY <1>6 DEF Take
  <2> QED BY <2>1 DEF SettledInv, Settles
<1>7. CASE SelectNone(Cached) \/ RefreshDequeue(Cached)
  <2>1. deq'.pc \notin {"scan", "rescan"}
    BY <1>1, <1>7, RefreshingRank DEF SelectNone, DeqIdle
  <2>2. settled' = settled /\ accepted' = accepted /\ inQueue' = inQueue
    BY <1>7 DEF SelectNone, RefreshDequeue, DReadSlot, DReadFront, DSwapSlot, DSwapSlotFails, enqVars, inQueue
  <2> QED BY <1>2, <2>1, <2>2 DEF SettledInv
<1> QED BY <1>3, <1>4, <1>5, <1>6, <1>7 DEF Dequeueing, ReadMinimumRank

(* The history variables agree with the SPSCs and the slots in every state. *)
THEOREM HistoryInductive == ASSUME NoWrapAround PROVE Spec => [](IInv /\ HistoryInv)
<1>1. Init => HistoryInv
  <2> SUFFICES ASSUME Init PROVE HistoryInv
    OBVIOUS
  <2>1. before = [x \in {} |-> {}] /\ settled = {}
    BY DEF Init, Slot!Init, Slot!Constructed, Node!Init, Node!Constructed, Hosted!Init, Hosted!Constructed,
           Unbounded!Init, Unbounded!Constructed
  <2>2. inQueue = {}
    BY <2>1 DEF inQueue
  <2> QED BY <2>1, <2>2 DEF HistoryInv, ContentInv, BeforeInv, SettledInv, Settles
<1>2. IInv /\ HistoryInv /\ [Next]_<<vars, class>> => HistoryInv'
  <2> SUFFICES ASSUME IInv, HistoryInv, [Next]_<<vars, class>> PROVE HistoryInv'
    OBVIOUS
  <2>1. CASE UNCHANGED <<vars, class>>
    <3>1. /\ spsc' = spsc /\ slot' = slot /\ enq' = enq /\ accepted' = accepted /\ buf' = buf /\ deq' = deq
          /\ before' = before /\ settled' = settled /\ inQueue' = inQueue
      BY <2>1 DEF vars, enqVars, deqVars, inQueue
    <3>2. \A x, t : (Stored(x, t)' <=> Stored(x, t)) /\ (Coming(x, t)' <=> Coming(x, t))
      BY <3>1 DEF Stored, Coming, Putting, Batch
    <3>3. ContentInv' /\ BeforeInv'
      BY <3>1, <3>2 DEF HistoryInv, ContentInv, BeforeInv, Timestamps
    <3>4. SettledInv'
      BY <3>1 DEF HistoryInv, SettledInv, Settles, MAX, Ranks
    <3> QED BY <3>3, <3>4 DEF HistoryInv
  <2>2. ASSUME NEW p \in Ranks, Enqueueing(p) PROVE HistoryInv'
    <3>1. ContentInv' /\ BeforeInv'
      BY <2>2, CallHistory, StampingHistory, PutHistory, LeavingHistory DEF Enqueueing, HistoryInv
    <3>2. SettledInv'
      BY <2>2, EnqueueSettled DEF HistoryInv
    <3> QED BY <3>1, <3>2 DEF HistoryInv
  <2>3. CASE Dequeueing(Cached)
    <3>1. ContentInv' /\ BeforeInv'
      BY <2>3, DequeueHistory DEF HistoryInv
    <3>2. SettledInv'
      BY <2>3, DequeueSettled DEF HistoryInv
    <3> QED BY <3>1, <3>2 DEF HistoryInv
  <2> QED BY <2>1, <2>2, <2>3, StepIs
<1> QED BY <1>1, <1>2, Inductive, PTL DEF Spec

(* TypeOK: every variable of the queue and of the calls has its type. *)
THEOREM TypeCorrect == ASSUME NoWrapAround PROVE Spec => []TypeOK
<1>1. IInv /\ HistoryInv => TypeOK
  <2> SUFFICES ASSUME IInv, HistoryInv PROVE TypeOK
    OBVIOUS
  <2>1. TypeInv /\ \A p \in Ranks : SpscInv(p)
    BY DEF IInv
  <2>2. ASSUME NEW p \in Ranks, NEW i \in 1..Len(spsc[p])
        PROVE  spsc[p][i].ts \in Timestamps /\ spsc[p][i].item \in inQueue
    <3>1. spsc[p][i].ts \in Nat /\ spsc[p][i].ts < MAX
      BY <2>1, FrontIs
    <3>2. spsc[p][i].ts \in Timestamps
      BY <3>1, SlotsAssumption DEF Timestamps, MAX, SlotsAssumption
    <3> QED BY <2>1, <3>2 DEF SpscInv
  <2>3. settled \subseteq inQueue /\ \A x \in inQueue : before[x] \subseteq inQueue
    BY DEF HistoryInv, SettledInv, BeforeInv
  <2>4. dOut = Nothing \/ (dOut[1] \in Ranks /\ dOut[2] \in Nat)
    BY <2>1 DEF TypeInv
  <2> QED BY <2>1, <2>2, <2>3, <2>4 DEF TypeInv, TypeOK, Calls, Scans
<1> QED BY <1>1, HistoryInductive, PTL

(* NoFalseEmpty: dequeue returns false only when every element whose enqueue had  *)
(* returned when it was called is gone.                                           *)
LEMMA EmptyIsEmpty ==
  ASSUME IInv, SettledInv, Next, deq.pc \in {"scan", "rescan"}, deq'.pc = "idle"
  PROVE  settled = {}
<1>1. TypeInv /\ deq \in Scans /\ deq.rank \in Ranks /\ Size \in Nat
  BY SlotsAssumption DEF IInv, TypeInv, Scans, SlotsAssumption
<1>2. \A p \in Ranks : ~Enqueueing(p)
  <2>1. ASSUME NEW p \in Ranks, Enqueueing(p) PROVE deq' = deq
    BY <2>1 DEF Enqueueing, EnqueueCall, CountedCall, Stamping, Put, EnqueueFull, RefreshEnqueue, CheckFront,
                ReadSlot, RecheckFront, SwapSlot, SwapSlotFails, deqVars
  <2> QED BY <2>1
<1>3. Dequeueing(Cached)
  BY <1>2, StepIs
<1>4. SelectNone(Cached)
  <2>1. ~FirstScan(Cached) /\ ~SecondScan(Cached) /\ ~Select(Cached)
    BY <1>1 DEF FirstScan, SecondScan, ScanSlot, Select, Scans
  <2>2. ~Take(Cached)
    <3>1. \A r \in Ranks : Taking(r) => deq'.pc = "readSlot"
      BY DEF Taking, DeqIdle
    <3> QED BY <3>1, TakeIs
  <2>3. ~DequeueCall /\ ~RefreshDequeue(Cached)
    BY DEF DequeueCall, RefreshDequeue, DReadSlot, DReadFront, DSwapSlot, DSwapSlotFails
  <2> QED BY <1>3, <2>1, <2>2, <2>3 DEF Dequeueing, ReadMinimumRank
<1>5. ASSUME NEW x \in settled PROVE FALSE
  <2>1. x[1] \in Ranks
    BY <1>1 DEF SettledInv, TypeInv
  <2>2. deq.pc = "scan" /\ buf[x[1]] = MAX /\ x[1] \notin ToRead(Size, Cached)
    BY <1>4, <2>1 DEF SelectNone, Visible
  <2>3. x[1] < deq.next
    BY <1>1, <2>1, <2>2 DEF ToRead, Ranks, Scans
  <2> QED BY <2>1, <2>2, <2>3 DEF SettledInv, Settles
<1> QED BY <1>5

(* NoFalseEmpty: dequeue returns nothing only if every enqueue that had returned when *)
(* it was called has had its elements taken.                                          *)
THEOREM EmptyIsTrue == ASSUME NoWrapAround PROVE Spec => NoFalseEmpty
<1>1. IInv /\ HistoryInv /\ [Next]_<<vars, class>>
        => [deq.pc \in {"scan", "rescan"} /\ deq'.pc = "idle" => settled = {}]_vars
  BY EmptyIsEmpty DEF HistoryInv, vars, enqVars, deqVars
<1> QED BY <1>1, HistoryInductive, PTL DEF Spec, NoFalseEmpty

(* Only Take takes an element. *)
LEMMA TakesIs ==
  ASSUME IInv, Next, takes
  PROVE  Take(Cached)
<1>1. ASSUME NEW p \in Ranks, Enqueueing(p) PROVE deq' = deq
  BY <1>1 DEF Enqueueing, EnqueueCall, CountedCall, Stamping, Put, EnqueueFull, RefreshEnqueue, CheckFront,
              ReadSlot, RecheckFront, SwapSlot, SwapSlotFails, deqVars
<1>2. Dequeueing(Cached)
  BY <1>1, StepIs DEF takes
<1>3. ~FirstScan(Cached) /\ ~SecondScan(Cached) /\ ~Select(Cached) /\ ~SelectNone(Cached)
  BY DEF FirstScan, SecondScan, ScanSlot, Select, SelectNone, takes, IInv, TypeInv, Scans
<1>4. ~DequeueCall /\ ~RefreshDequeue(Cached)
  BY DEF DequeueCall, RefreshDequeue, DReadSlot, DReadFront, DSwapSlot, DSwapSlotFails, takes
<1> QED BY <1>2, <1>3, <1>4 DEF Dequeueing, ReadMinimumRank

(* NoOvertakingSettled: dequeue does not take an element that entered the queue   *)
(* after another one that was there when dequeue was called.                      *)
LEMMA SettledFirst ==
  ASSUME IInv, ContentInv, BeforeInv, SettledInv, Next, takes, NEW h \in took, NEW y \in before[h] \cap settled
  PROVE  FALSE
<1>1. TypeInv /\ deq.rank \in Ranks /\ inQueue \subseteq Ranks \X Nat
  BY DEF IInv, TypeInv, Scans
<1>2. PICK r \in Ranks : Taking(r)
  BY TakesIs, TakeIs
<1>3. /\ Len(spsc[r]) \in Nat \ {0} /\ Head(spsc[r]) = spsc[r][1] /\ 1 \in 1..Len(spsc[r])
      /\ inQueue' = inQueue \ {spsc[r][1].item}
  <2>1. Len(spsc[r]) \in Nat \ {0} /\ Head(spsc[r]) = spsc[r][1]
    BY <1>1, <1>2, TailEffect DEF Taking
  <2>2. 1 \in 1..Len(spsc[r])
    BY <2>1
  <2> QED BY <1>2, <2>1, <2>2, RecordGoneIs DEF Taking
<1>4. h = spsc[r][1].item /\ h \in inQueue /\ h \in Ranks \X Nat
  BY <1>1, <1>3 DEF took, inQueue
<1>5. h[1] = r /\ spsc[r][1] \in Elements /\ FrontTimestamp(r) = spsc[r][1].ts
  BY <1>1, <1>3, <1>4, FrontIs DEF IInv, SpscInv
<1>6. Stored(h, FrontTimestamp(r)) /\ FrontTimestamp(r) \in Timestamps
  <2>1. spsc[r][1] = [item |-> h, ts |-> FrontTimestamp(r)]
    BY <1>4, <1>5 DEF Elements
  <2> QED BY <1>1, <1>3, <1>5, <2>1, FrontIs DEF Stored
<1>7. y \in inQueue /\ y \in Ranks \X Nat /\ y[1] \in Ranks /\ y[2] \in Nat /\ y[2] <= accepted[y[1]]
  BY <1>1 DEF SettledInv
<1>8. PICK t \in Timestamps : Stored(y, t)
  BY <1>7, AcceptedStored
<1>9. CASE y[1] = r
  <2>1. y[2] < h[2] /\ h[2] \in Nat
    BY <1>4, <1>5, <1>9 DEF BeforeInv
  <2>2. h[2] <= y[2]
    BY <1>4, <1>7, <1>8, <1>9, StoredIs
  <2> QED BY <1>7, <2>1, <2>2
<1>10. CASE y[1] # r
  <2>1. t < FrontTimestamp(r)
    BY <1>4, <1>5, <1>6, <1>8, <1>10 DEF BeforeInv
  <2>2. FrontTimestamp(y[1]) <= t
    BY <1>7, <1>8, StoredIs
  <2>3. deq.pc = "rescan" /\ buf[r] = FrontTimestamp(r) /\ buf[r] <= buf[deq.rank] /\ Settles(y[1])
    BY <1>2 DEF Taking, Settles
  <2>4. slot[y[1]] # MAX /\ buf[y[1]] # MAX /\ buf[deq.rank] <= buf[y[1]]
    BY <1>7, <2>3 DEF SettledInv
  <2>5. buf[y[1]] = FrontTimestamp(y[1])
    BY <1>7, <2>3, <2>4 DEF IInv, SlotInv, QuietInv, Refreshing, Fresh
  <2>6. /\ buf[r] \in Nat /\ buf[deq.rank] \in Nat /\ buf[y[1]] \in Nat /\ t \in Nat
    BY <1>1, <1>7, SlotsAssumption DEF TypeInv, Timestamps, SlotsAssumption
  <2> QED BY <2>1, <2>2, <2>3, <2>4, <2>5, <2>6
<1> QED BY <1>9, <1>10

(* NoOvertakingSettled: dequeue takes no element while one is queued whose enqueue  *)
(* had returned before that element's was called and before dequeue was.            *)
THEOREM SettledInOrder == ASSUME NoWrapAround PROVE Spec => NoOvertakingSettled
<1>1. IInv /\ HistoryInv /\ [Next]_<<vars, class>> => [takes => \A x \in took : before[x] \cap settled = {}]_vars
  BY SettledFirst DEF HistoryInv, vars, enqVars, deqVars
<1> QED BY <1>1, HistoryInductive, PTL DEF Spec, NoOvertakingSettled

--------------------------------------------------------------------------------
(***************************************************************************)
(* Two enqueuers: the classes are linearizable.                            *)
(***************************************************************************)

(* Of rank q nothing is in the queue that the front of rank r must not overtake. *)
NoneBefore(r, q) == spsc[r] # <<>> => \A y \in before[Head(spsc[r]).item] : y[1] # q

(* A rank whose slot was read as MAX_TIMESTAMP after that of r had been read has *)
(* nothing that the front of r must not overtake.  The first scan reads the      *)
(* ranks above r after r; the second one reads those below the selected rank.    *)
OrderInv ==
  /\ deq.pc = "scan" =>
       \A r, q \in Ranks : r < q /\ q < deq.next /\ buf[r] # MAX /\ buf[q] = MAX => NoneBefore(r, q)
  /\ deq.pc = "rescan" =>
       \A q \in Ranks :
         /\ q > deq.rank => IF buf[q] = MAX THEN NoneBefore(deq.rank, q) ELSE buf[deq.rank] <= buf[q]
         /\ q < deq.rank /\ q < deq.next /\ buf[q] = MAX => NoneBefore(deq.rank, q)

(* A call has elements. *)
CallInv == \A p \in Ranks : enq[p].pc # "idle" => enq[p].n > 0

--------------------------------------------------------------------------------
(* What a scan has read of a rank is still at its front. *)
LEMMA CopyShown ==
  ASSUME IInv, NEW r \in Ranks, buf[r] # MAX, deq.pc = "rescan" \/ (deq.pc = "scan" /\ r < deq.next)
  PROVE  spsc[r] # <<>> /\ slot[r] = buf[r] /\ buf[r] = FrontTimestamp(r)
BY DEF IInv, SlotInv, QuietInv, Refreshing, Fresh, FrontTimestamp

(* The front of an SPSC stays there during an enqueue, and what it must not *)
(* overtake does not grow.                                                  *)
LEMMA FrontKept ==
  ASSUME NoWrapAround, IInv, NEW p \in Ranks, Enqueueing(p), NEW r \in Ranks, spsc[r] # <<>>
  PROVE  Head(spsc'[r]) = Head(spsc[r]) /\ before'[Head(spsc[r]).item] \subseteq before[Head(spsc[r]).item]
<1> DEFINE h == spsc[r][1].item
<1>1. /\ TypeInv /\ SpscInv(r) /\ StampInv(p) /\ accepted \in [Ranks -> Nat] /\ accepted[r] \in Nat
      /\ ~Returning(r) => Granted(r) = accepted[r]
  <2>1. TypeInv /\ SpscInv(r) /\ StampInv(p)
    BY DEF IInv
  <2> QED BY <2>1 DEF TypeInv, Granted
<1>2. spsc[r] \in Seq(Elements) /\ Len(spsc[r]) # 0 /\ Head(spsc[r]) = spsc[r][1]
  BY <1>1 DEF TypeInv
<1>3. 1 \in 1..Len(spsc[r]) /\ h \in inQueue /\ h[1] = r /\ h[2] <= Granted(r) /\ h \in Ranks \X Nat
  BY <1>1, <1>2 DEF SpscInv, TypeInv
<1>4. CASE Put(p)
  <2>1. enq[p].ts < MAX
    BY <1>1, <1>4, StampBelowMax DEF Put
  <2>2. CASE r = p
    <3>1. /\ Len(spsc'[r]) = Len(spsc[r]) + enq[r].n /\ spsc'[r][1] = spsc[r][1]
          /\ spsc' \in [Ranks -> Seq(Elements)]
      BY <1>1, <1>3, <1>4, <2>1, <2>2, PutEffect
    <3>2. enq[r].n \in Nat /\ Len(spsc[r]) \in Nat
      BY <1>1, <1>2, SlotsAssumption DEF TypeInv, Calls, SlotsAssumption
    <3>3. spsc'[r] \in Seq(Elements) /\ Len(spsc'[r]) # 0
      BY <1>2, <3>1, <3>2
    <3>4. Head(spsc'[r]) = spsc'[r][1]
      BY <3>3
    <3> QED BY <1>2, <1>4, <3>1, <3>4 DEF Put
  <2>3. CASE r # p
    BY <1>1, <1>4, <2>3 DEF Put, TypeInv
  <2> QED BY <2>2, <2>3
<1>5. CASE EnqueueFull(p)
  <2>1. h \notin Batch(p, enq[p].n)
    <3>1. r = p => h[2] <= accepted[p]
      BY <1>1, <1>3, <1>5 DEF EnqueueFull, Returning
    <3>2. enq[p].n \in Nat /\ h[2] \in Nat /\ accepted[p] \in Nat
      BY <1>1, <1>3, SlotsAssumption DEF TypeInv, Calls, SlotsAssumption
    <3> QED BY <1>1, <1>3, <3>1, <3>2, BatchIs
  <2>2. h \in inQueue' /\ before'[h] \subseteq before[h]
    BY <1>3, <1>5, <2>1, RecordGoneIs DEF EnqueueFull
  <2> QED BY <1>2, <1>5, <2>2 DEF EnqueueFull
<1>6. ASSUME NEW n \in 1..MaxBatch, EnqueueCall(p, n) \/ CountedCall(p, n)
      PROVE  spsc' = spsc /\ before'[h] \subseteq before[h]
  <2>1. h \notin Batch(p, n)
    <3>1. r = p => h[2] <= accepted[p]
      BY <1>1, <1>3, <1>6 DEF EnqueueCall, CountedCall, Returning
    <3>2. n \in Nat /\ h[2] \in Nat /\ accepted[p] \in Nat
      BY <1>1, <1>3, SlotsAssumption DEF SlotsAssumption
    <3> QED BY <1>1, <1>3, <3>1, <3>2, BatchIs
  <2>2. RecordCall(Batch(p, n)) /\ spsc' = spsc
    BY <1>6 DEF EnqueueCall, CountedCall
  <2> HIDE DEF h
  <2>3. h \in inQueue' /\ before'[h] = before[h]
    BY <1>3, <2>1, <2>2, RecordCallIs
  <2> QED BY <2>2, <2>3
<1>7. CASE spsc' = spsc /\ before' = before
  BY <1>7
<1> HIDE DEF h
<1>8. Stamping(p) \/ RefreshEnqueue(p) => spsc' = spsc /\ before' = before
  BY DEF Stamping, RefreshEnqueue, CheckFront, ReadSlot, RecheckFront, SwapSlot, SwapSlotFails
<1> QED BY <1>2, <1>4, <1>5, <1>6, <1>7, <1>8 DEF Enqueueing, h

LEMMA EnqueueOrder ==
  ASSUME NoWrapAround, IInv, OrderInv, NEW p \in Ranks, Enqueueing(p)
  PROVE  OrderInv'
<1>1. buf' = buf /\ deq' = deq /\ MAX' = MAX /\ Ranks' = Ranks
  BY DEF Enqueueing, EnqueueCall, CountedCall, Stamping, Put, EnqueueFull, RefreshEnqueue, CheckFront,
         ReadSlot, RecheckFront, SwapSlot, SwapSlotFails, deqVars, MAX, Ranks
<1>2. ASSUME NEW r \in Ranks, NEW q \in Ranks, spsc[r] # <<>>, NoneBefore(r, q) PROVE NoneBefore(r, q)'
  BY <1>2, FrontKept DEF NoneBefore
<1>3. ASSUME deq.pc = "scan", NEW r \in Ranks, NEW q \in Ranks, r < q, q < deq.next, buf[r] # MAX, buf[q] = MAX
      PROVE  NoneBefore(r, q)'
  <2>1. r < deq.next
    BY <1>3, SlotsAssumption DEF Ranks, SlotsAssumption, IInv, TypeInv, Scans
  <2> QED BY <1>2, <1>3, <2>1, CopyShown DEF OrderInv
<1>4. deq.pc = "rescan" => deq.rank \in Ranks /\ spsc[deq.rank] # <<>>
  BY CopyShown DEF IInv, TypeInv, Scans, SelectedInv
<1> QED BY <1>1, <1>2, <1>3, <1>4 DEF OrderInv

(* A slot read as MAX_TIMESTAMP. *)
LEMMA ReadNone ==
  ASSUME IInv, ContentInv, BeforeInv, NEW r \in Ranks, NEW p \in Ranks, r # p, slot[p] = MAX,
         deq.pc \in {"scan", "rescan"}
  PROVE  NoneBefore(r, p)
<1> SUFFICES ASSUME spsc[r] # <<>>, NEW y \in before[Head(spsc[r]).item], y[1] = p PROVE FALSE
  BY DEF NoneBefore
<1> DEFINE h == spsc[r][1].item
<1>1. TypeInv /\ SpscInv(r)
  BY DEF IInv
<1>2. spsc[r] \in Seq(Elements) /\ Len(spsc[r]) # 0 /\ Head(spsc[r]) = spsc[r][1] /\ 1 \in 1..Len(spsc[r])
  BY <1>1 DEF TypeInv
<1>3. h \in inQueue /\ h[1] = r /\ y \in before[h]
  BY <1>1, <1>2 DEF SpscInv
<1> HIDE DEF h
<1>4. y \in inQueue /\ y[2] <= accepted[p]
  BY <1>3 DEF BeforeInv
<1> QED BY <1>4, AcceptedShown

LEMMA ScanOrder ==
  ASSUME IInv, ContentInv, BeforeInv, OrderInv, NEW limit \in 0..Size, ScanSlot(limit, Cached),
         deq.pc = "scan" \/ (deq.pc = "rescan" /\ limit = deq.rank)
  PROVE  OrderInv'
<1>1. /\ TypeInv /\ deq \in Scans /\ deq.rank \in Ranks /\ buf \in [Ranks -> Timestamps]
      /\ \A q \in Ranks : q \in Nat /\ buf[q] \in Nat
  <2>1. TypeInv
    BY DEF IInv
  <2>2. deq \in Scans /\ deq.rank \in Ranks /\ buf \in [Ranks -> Timestamps]
    BY <2>1 DEF TypeInv, Scans
  <2> QED BY <2>1, <2>2, SlotsAssumption DEF Ranks, SlotsAssumption, Timestamps
<1>2. \A r, q : NoneBefore(r, q)' <=> NoneBefore(r, q)
  BY DEF ScanSlot, NoneBefore
<1>3. PICK p \in Ranks :
        /\ p < limit /\ p >= deq.next
        /\ \A q \in Ranks : q < p => q < deq.next \/ (Cached /\ buf[q] # MAX)
        /\ buf' = [buf EXCEPT ![p] = slot[p]] /\ deq' = [deq EXCEPT !.next = p + 1]
  BY <1>1, ScanSlotIs
<1>4. deq'.pc = deq.pc /\ deq'.rank = deq.rank /\ deq'.next = p + 1 /\ deq.next \in Nat /\ MAX' = MAX
  BY <1>1, <1>3, SlotsAssumption DEF Scans, MAX, SlotsAssumption
<1>5. \A q \in Ranks : buf'[q] = IF q = p THEN slot[p] ELSE buf[q]
  BY <1>1, <1>3
<1>6. \A r \in Ranks : r # p /\ slot[p] = MAX => NoneBefore(r, p)
  BY ReadNone
<1>7. \A q \in Ranks : q < p + 1 /\ q # p => q < p
  BY <1>1
<1>8. ASSUME deq.pc = "scan", NEW r \in Ranks, NEW q \in Ranks,
             r < q, q < p + 1, buf'[r] # MAX, buf'[q] = MAX
      PROVE  NoneBefore(r, q)
  <2>1. r # p /\ r # q
    BY <1>1, <1>8
  <2>2. CASE q = p
    BY <1>5, <1>6, <1>8, <2>1, <2>2
  <2>3. CASE q # p
    <3>1. buf[q] = MAX /\ buf[r] # MAX /\ q < deq.next
      BY <1>3, <1>5, <1>7, <1>8, <2>1, <2>3
    <3> QED BY <1>8, <3>1 DEF OrderInv
  <2> QED BY <2>2, <2>3
<1>9. ASSUME deq.pc = "rescan", NEW q \in Ranks
      PROVE  /\ q > deq.rank => IF buf'[q] = MAX THEN NoneBefore(deq.rank, q) ELSE buf'[deq.rank] <= buf'[q]
             /\ q < deq.rank /\ q < p + 1 /\ buf'[q] = MAX => NoneBefore(deq.rank, q)
  <2>1. p < deq.rank /\ p # deq.rank /\ buf'[deq.rank] = buf[deq.rank]
    BY <1>1, <1>3, <1>5, <1>9
  <2>2. q > deq.rank => q # p
    BY <1>1, <2>1
  <2>3. ASSUME q < deq.rank, q < p + 1, buf'[q] = MAX PROVE NoneBefore(deq.rank, q)
    <3>1. CASE q = p
      BY <1>1, <1>5, <1>6, <2>1, <2>3, <3>1
    <3>2. CASE q # p
      BY <1>3, <1>5, <1>7, <1>9, <2>3, <3>2 DEF OrderInv
    <3> QED BY <3>1, <3>2
  <2> QED BY <1>5, <1>9, <2>1, <2>2, <2>3 DEF OrderInv
<1> QED BY <1>2, <1>4, <1>8, <1>9 DEF OrderInv, Ranks

LEMMA DequeueOrder ==
  ASSUME IInv, ContentInv, BeforeInv, OrderInv, Dequeueing(Cached)
  PROVE  OrderInv'
<1>1. /\ TypeInv /\ deq \in Scans /\ deq.rank \in Ranks /\ Size \in Nat /\ Size \in 0..Size /\ deq.rank \in 0..Size
      /\ \A q \in Ranks : q \in Nat
  BY SlotsAssumption DEF IInv, TypeInv, Scans, SlotsAssumption, Ranks
<1>2. CASE FirstScan(Cached) \/ SecondScan(Cached)
  BY <1>1, <1>2, ScanOrder DEF FirstScan, SecondScan
<1>3. CASE DequeueCall
  <2>1. deq'.pc = "scan" /\ deq'.next = 0
    BY <1>3 DEF DequeueCall, DeqIdle
  <2>2. \A q \in Ranks : ~ (q < 0)
    BY <1>1
  <2> QED BY <2>1, <2>2 DEF OrderInv, Ranks
<1>4. CASE Select(Cached)
  <2>1. PICK r \in Ranks :
          /\ buf[r] # MAX /\ \A q \in Visible : buf[r] <= buf[q]
          /\ deq' = [deq EXCEPT !.pc = "rescan", !.next = 0, !.rank = r]
    BY <1>1, <1>4, LeastIn DEF Select
  <2>2. deq.pc = "scan" /\ ToRead(Size, Cached) = {} /\ UNCHANGED <<buf, spsc, before>>
    BY <1>4 DEF Select
  <2>3. deq'.pc = "rescan" /\ deq'.rank = r /\ deq'.next = 0 /\ MAX' = MAX
    BY <1>1, <2>1, <2>2 DEF Scans, MAX
  <2>4. \A q : NoneBefore(r, q)' <=> NoneBefore(r, q)
    BY <2>2, <2>3 DEF NoneBefore
  <2>5. ASSUME NEW q \in Ranks, q > r PROVE IF buf[q] = MAX THEN NoneBefore(r, q) ELSE buf[r] <= buf[q]
    <3>1. CASE buf[q] = MAX
      <4>1. q \notin ToRead(Size, Cached) /\ q < Size /\ q \in Nat /\ deq.next \in Nat /\ r < q
        BY <1>1, <2>1, <2>2, <2>5 DEF Ranks, Scans
      <4>2. q < deq.next
        BY <3>1, <4>1 DEF ToRead
      <4> QED BY <2>1, <2>2, <3>1, <4>1, <4>2 DEF OrderInv
    <3>2. CASE buf[q] # MAX
      BY <2>1, <3>2 DEF Visible
    <3> QED BY <3>1, <3>2
  <2>6. \A q \in Ranks : ~ (q < 0)
    BY <1>1
  <2> QED BY <2>2, <2>3, <2>4, <2>5, <2>6 DEF OrderInv, Ranks
<1>5. CASE SelectNone(Cached) \/ RefreshDequeue(Cached) \/ Take(Cached)
  <2>1. Take(Cached) => deq'.pc = "readSlot"
    BY TakeIs DEF Taking, DeqIdle
  <2>2. deq'.pc \notin {"scan", "rescan"}
    BY <1>1, <1>5, <2>1, RefreshingRank DEF SelectNone, DeqIdle
  <2> QED BY <2>2 DEF OrderInv
<1> QED BY <1>2, <1>3, <1>4, <1>5 DEF Dequeueing, ReadMinimumRank

--------------------------------------------------------------------------------
(* The element that is taken overtakes none, for any number of enqueuers if it is *)
(* taken from the rank the first scan selected, and always for two of them.       *)
LEMMA InOrder ==
  ASSUME IInv, ContentInv, BeforeInv, OrderInv, Take(Cached), NEW r \in Ranks, Taking(r),
         r = Reselected(deq.rank), r = deq.rank \/ Size <= 2
  PROVE  before[Head(spsc[r]).item] = {}
<1> DEFINE h == spsc[r][1].item
<1>1. /\ TypeInv /\ SpscInv(r) /\ deq.rank \in Ranks /\ inQueue \subseteq Ranks \X Nat
      /\ buf \in [Ranks -> Timestamps] /\ \A q \in Ranks : q \in Nat /\ buf[q] \in Nat
  <2>1. TypeInv /\ SpscInv(r)
    BY DEF IInv
  <2>2. deq.rank \in Ranks /\ inQueue \subseteq Ranks \X Nat /\ buf \in [Ranks -> Timestamps]
    BY <2>1 DEF TypeInv, Scans
  <2> QED BY <2>1, <2>2, SlotsAssumption DEF Ranks, SlotsAssumption, Timestamps
<1>2. /\ spsc[r] # <<>> /\ Head(spsc[r]) = spsc[r][1] /\ 1 \in 1..Len(spsc[r]) /\ buf[r] = FrontTimestamp(r)
      /\ deq.pc = "rescan" /\ ToRead(deq.rank, Cached) = {} /\ buf[r] <= buf[deq.rank] /\ buf[r] # MAX
  <2>1. spsc[r] \in Seq(Elements) /\ spsc[r] # <<>>
    BY <1>1 DEF Taking, TypeInv
  <2> QED BY <2>1 DEF Taking, Take
<1>3. h \in inQueue /\ h[1] = r /\ h[2] <= Granted(r) /\ h \in Ranks \X Nat /\ h[2] \in Nat
      /\ spsc[r][1] \in Elements /\ FrontTimestamp(r) = spsc[r][1].ts /\ FrontTimestamp(r) \in Timestamps
  <2>1. h \in inQueue /\ h[1] = r /\ h[2] <= Granted(r)
    BY <1>1, <1>2 DEF SpscInv
  <2> QED BY <1>1, <1>2, <2>1, FrontIs
<1>4. Stored(h, FrontTimestamp(r))
  <2>1. spsc[r][1] = [item |-> h, ts |-> FrontTimestamp(r)]
    BY <1>3 DEF Elements
  <2> QED BY <1>2, <1>3, <2>1 DEF Stored
<1> SUFFICES ASSUME NEW y \in before[h] PROVE FALSE
  BY <1>2
<1> HIDE DEF h
<1> DEFINE p == y[1]
<1>5. y \in inQueue /\ y \in Ranks \X Nat /\ p \in Ranks /\ y[2] \in Nat
  BY <1>1, <1>3 DEF BeforeInv
<1>6. CASE p = r
  <2>1. y[2] < h[2]
    BY <1>3, <1>6 DEF BeforeInv
  <2>2. PICK t \in Timestamps : Stored(y, t) \/ Coming(y, t)
    BY <1>5 DEF ContentInv
  <2>3. CASE Stored(y, t)
    <3>1. spsc[r][1].item[2] <= y[2]
      BY <1>5, <1>6, <2>3, StoredIs
    <3> QED BY <1>3, <1>5, <2>1, <3>1 DEF h
  <2>4. CASE Coming(y, t)
    <3>1. accepted[r] \in Nat /\ enq[r].n \in Nat /\ Granted(r) = accepted[r]
      <4>1. accepted[r] \in Nat /\ enq[r] \in Calls /\ ~Returning(r)
        BY <1>1, <1>6, <2>4 DEF TypeInv, Coming, Putting, Returning
      <4> QED BY <4>1, SlotsAssumption DEF Granted, Calls, SlotsAssumption
    <3>2. y[2] > accepted[r]
      BY <1>1, <1>5, <1>6, <2>4, <3>1, BatchIs DEF Coming
    <3> QED BY <1>3, <1>5, <2>1, <3>1, <3>2
  <2> QED BY <2>2, <2>3, <2>4
<1>7. CASE p # r
  <2>1. y[2] <= accepted[p] /\ \A t, u \in Timestamps : Stored(y, t) /\ Stored(h, u) => t < u
    BY <1>3, <1>7 DEF BeforeInv
  <2>2. PICK t \in Timestamps : Stored(y, t)
    BY <1>5, <2>1, AcceptedStored
  <2>3. t < buf[r] /\ FrontTimestamp(p) <= t /\ t \in Nat /\ FrontTimestamp(p) \in Nat
    <3>1. t < FrontTimestamp(r)
      BY <1>3, <1>4, <2>1, <2>2
    <3>2. FrontTimestamp(p) <= t
      BY <1>1, <1>5, <2>2, StoredIs
    <3>3. FrontTimestamp(p) \in Timestamps
      BY <1>1, <1>5, FrontIs
    <3> QED BY <1>2, <2>2, <3>1, <3>2, <3>3, SlotsAssumption DEF Timestamps, SlotsAssumption
  <2>4. buf[p] # MAX => buf[p] < buf[r]
    BY <1>1, <1>2, <1>5, <2>3, CopyShown
  <2>5. ~NoneBefore(r, p)
    BY <1>2 DEF NoneBefore, h
  <2>6. CASE r = deq.rank /\ p > deq.rank
    BY <1>1, <1>2, <1>5, <2>4, <2>5, <2>6 DEF OrderInv
  <2>7. CASE r = deq.rank /\ p < deq.rank
    <3>1. buf[p] # MAX
      <4>1. p \notin ToRead(deq.rank, Cached) /\ deq.next \in Nat
        BY <1>1, <1>2, SlotsAssumption DEF TypeInv, Scans, SlotsAssumption
      <4>2. buf[p] = MAX => p < deq.next
        BY <1>1, <1>5, <2>7, <4>1 DEF ToRead
      <4> QED BY <1>2, <1>5, <2>5, <2>7, <4>2 DEF OrderInv
    <3> DEFINE smaller == {q \in Visible : q < deq.rank /\ buf[q] < buf[deq.rank]}
    <3>2. p \in smaller /\ smaller \subseteq Ranks
      BY <1>5, <2>4, <2>7, <3>1 DEF Visible
    <3>3. Lowest(smaller) \in smaller
      BY <3>2, LowestIn
    <3>4. r = Lowest(smaller)
      BY <3>2 DEF Reselected
    <3> QED BY <1>1, <2>7, <3>3, <3>4
  <2>8. CASE r # deq.rank
    <3>1. p = deq.rank
      BY <1>1, <1>5, <1>7, <2>8, SlotsAssumption DEF Ranks, SlotsAssumption
    <3>2. buf[p] # MAX
      BY <1>2, <3>1 DEF IInv, SelectedInv
    <3> QED BY <1>1, <1>2, <1>5, <2>4, <3>1, <3>2
  <2> QED BY <1>1, <1>5, <1>7, <2>6, <2>7, <2>8
<1> QED BY <1>6, <1>7

(* The elements of rank p in the queue: those in its SPSC and those it is about to put. *)
LEMMA HowMany ==
  ASSUME IInv, ContentInv, NEW p \in Ranks, Putting(p)
  PROVE  Cardinality({x \in inQueue : x[1] = p}) = Len(spsc[p]) + enq[p].n
<1> DEFINE L == Len(spsc[p])
           n == enq[p].n
           T == {x \in inQueue : x[1] = p}
           f == [i \in 1..(L + n) |-> IF i <= L THEN spsc[p][i].item ELSE <<p, accepted[p] + (i - L)>>]
<1>1. /\ TypeInv /\ SpscInv(p) /\ L \in Nat /\ n \in Nat /\ accepted[p] \in Nat /\ inQueue \subseteq Ranks \X Nat
      /\ Granted(p) = accepted[p]
  <2>1. TypeInv /\ SpscInv(p)
    BY DEF IInv
  <2>2. enq[p] \in Calls /\ accepted[p] \in Nat /\ inQueue \subseteq Ranks \X Nat /\ L \in Nat
    BY <2>1, FrontIs DEF TypeInv
  <2>3. n \in Nat /\ Granted(p) = accepted[p]
    BY <2>2, SlotsAssumption DEF Calls, SlotsAssumption, Granted, Putting, Returning
  <2> QED BY <2>1, <2>2, <2>3
<1>2. ASSUME NEW i \in 1..L
      PROVE  spsc[p][i].item \in T /\ spsc[p][i].item[2] \in Nat /\ spsc[p][i].item[2] <= accepted[p]
  BY <1>1 DEF SpscInv
<1>3. ASSUME NEW i \in 1..(L + n), i > L
      PROVE  <<p, accepted[p] + (i - L)>> \in T /\ accepted[p] + (i - L) \in Nat /\ accepted[p] + (i - L) > accepted[p]
  <2>1. i - L \in 1..n
    BY <1>1, <1>3
  <2>2. <<p, accepted[p] + (i - L)>> \in inQueue
    BY <1>1, <2>1 DEF SpscInv, Batch
  <2> QED BY <1>1, <2>1, <2>2
<1>4. \A i \in 1..(L + n) : i > L \/ i \in 1..L
  BY <1>1
<1>5. f \in [1..(L + n) -> T]
  <2>1. ASSUME NEW i \in 1..(L + n)
        PROVE  (IF i <= L THEN spsc[p][i].item ELSE <<p, accepted[p] + (i - L)>>) \in T
    <3>1. CASE i <= L
      <4>1. i \in 1..L
        BY <1>1, <3>1
      <4> QED BY <1>2, <3>1, <4>1
    <3>2. CASE ~(i <= L)
      <4>1. i > L
        BY <1>1, <3>2
      <4> QED BY <1>3, <3>2, <4>1
    <3> QED BY <3>1, <3>2
  <2> QED BY <2>1
<1>6. ASSUME NEW i \in 1..(L + n), NEW j \in 1..(L + n), i < j PROVE f[i] # f[j]
  <2> SUFFICES f[i][2] < f[j][2] /\ f[i][2] \in Nat /\ f[j][2] \in Nat
    OBVIOUS
  <2>1. CASE j <= L
    <3>1. i \in 1..L /\ j \in 1..L /\ f[i] = spsc[p][i].item /\ f[j] = spsc[p][j].item
      BY <1>1, <1>6, <2>1
    <3> HIDE DEF f, L
    <3> QED BY <1>1, <1>2, <1>6, <3>1 DEF SpscInv, L
  <2>2. CASE j > L /\ i <= L
    <3>1. i \in 1..L /\ f[i] = spsc[p][i].item /\ f[j][2] = accepted[p] + (j - L)
      BY <1>1, <2>2
    <3> HIDE DEF f
    <3>2. spsc[p][i].item[2] <= accepted[p] /\ spsc[p][i].item[2] \in Nat
      BY <1>2, <3>1
    <3>3. accepted[p] \in Nat /\ j \in Nat /\ L \in Nat
      BY <1>1, <1>2, <1>3
    <3> HIDE DEF L
    <3> QED BY <2>2, <3>1, <3>2, <3>3
  <2>3. CASE i > L
    <3>1. f[i][2] = accepted[p] + (i - L) /\ f[j][2] = accepted[p] + (j - L)
      BY <1>1, <1>6, <2>3
    <3> HIDE DEF f
    <3> QED BY <1>1, <1>3, <1>6, <2>3, <3>1
  <2> QED BY <1>1, <2>1, <2>2, <2>3
<1>7. \A i, j \in 1..(L + n) : f[i] = f[j] => i = j
  <2>1. \A i, j \in 1..(L + n) : i = j \/ i < j \/ j < i
    BY <1>1
  <2> QED BY <1>6, <2>1
<1>8. ASSUME NEW x \in T PROVE \E i \in 1..(L + n) : f[i] = x
  <2>1. PICK t \in Timestamps : Stored(x, t) \/ Coming(x, t)
    BY DEF ContentInv
  <2>2. CASE Stored(x, t)
    <3>1. PICK i \in 1..L : spsc[p][i] = [item |-> x, ts |-> t]
      BY <2>2 DEF Stored
    <3>2. i \in 1..(L + n) /\ i <= L /\ spsc[p][i].item = x
      BY <1>1, <3>1
    <3> QED BY <3>2
  <2>3. CASE Coming(x, t)
    <3>1. PICK k \in 1..n : x = <<p, accepted[p] + k>>
      BY <2>3 DEF Coming, Batch
    <3>2. L + k \in 1..(L + n) /\ ~(L + k <= L) /\ (L + k) - L = k
      BY <1>1
    <3>3. f[L + k] = x
      BY <3>1, <3>2
    <3> QED BY <3>2, <3>3
  <2> QED BY <2>1, <2>2, <2>3
<1> HIDE DEF f, T
<1>9. f \in Bijection(1..(L + n), T)
  BY <1>5, <1>7, <1>8 DEF Bijection, Injection, Surjection, IsInjective
<1>10. ExistsBijection(1..(L + n), T) /\ L + n \in Nat
  BY <1>1, <1>9 DEF ExistsBijection
<1>11. Cardinality(T) = L + n
  BY <1>10, FS_CountingElements
<1> QED BY <1>11 DEF T

--------------------------------------------------------------------------------
(* The refinement mapping of Abstract (see Slots). *)
Calling == [p \in Ranks |-> enq[p].n]
DState ==
  IF deq.pc = "idle" THEN "idle" ELSE IF deq.pc \in {"scan", "rescan"} THEN "called" ELSE "done"

LEMMA CardinalityIs == \A S : Abstract!Cardinality(S) = Cardinality(S)
BY Zenon DEF Cardinality, Abstract!Cardinality

(* The steps of the abstract queue in terms of the variables here. *)
LEMMA AbstractSteps ==
  /\ \A p \in Ranks, n \in 1..MaxBatch :
       /\ Calling[p] = 0 /\ Calling' = [Calling EXCEPT ![p] = n] /\ RecordCall(Batch(p, n))
       /\ UNCHANGED <<accepted, DState, settled, dOut>>
       => Abstract!Next
  /\ \A p \in Ranks :
       /\ Calling[p] > 0
       /\ accepted' = [accepted EXCEPT ![p] = @ + Calling[p]]
       /\ Calling' = [Calling EXCEPT ![p] = 0]
       /\ UNCHANGED <<before, DState, settled, dOut>>
       => Abstract!Next
  /\ \A p \in Ranks :
       /\ Calling[p] > 0
       /\ Batch(p, Calling[p]) \subseteq inQueue
       /\ Cardinality({x \in inQueue : x[1] = p}) > Capacity
       /\ RecordGone(Batch(p, Calling[p]))
       /\ Calling' = [Calling EXCEPT ![p] = 0]
       /\ UNCHANGED <<accepted, DState, settled, dOut>>
       => Abstract!Next
  /\ /\ DState = "idle" /\ DState' = "called" /\ settled' = returned
     /\ UNCHANGED <<before, accepted, Calling, dOut>>
     => Abstract!Next
  /\ \A x \in inQueue :
       /\ DState = "called" /\ before[x] = {} /\ RecordGone({x})
       /\ DState' = "done" /\ settled' = {} /\ dOut' = x
       /\ UNCHANGED <<accepted, Calling>>
       => Abstract!Next
  /\ /\ DState = "done" /\ DState' = "idle" /\ UNCHANGED <<before, accepted, Calling, settled, dOut>>
     => Abstract!Next
  /\ /\ DState = "called" /\ settled = {} /\ DState' = "idle" /\ dOut' = Nothing
     /\ UNCHANGED <<before, accepted, Calling, settled>>
     => Abstract!Next
  /\ UNCHANGED <<before, accepted, Calling, DState, settled, dOut>> => UNCHANGED Abstract!vars
<1>1. ASSUME NEW p \in Ranks, NEW n \in 1..MaxBatch,
             Calling[p] = 0, Calling' = [Calling EXCEPT ![p] = n], RecordCall(Batch(p, n)),
             UNCHANGED <<accepted, DState, settled, dOut>>
      PROVE  Abstract!Next
  <2>1. returned = Abstract!returned
    BY DEF returned, inQueue, Batch, Abstract!returned, Abstract!inQueue, Abstract!Batch
  <2>2. Abstract!EnqueueCall(p, n)
    BY <1>1, <2>1 DEF Calling, DState, RecordCall, inQueue, Batch, Abstract!EnqueueCall, Abstract!inQueue, Abstract!Batch
  <2> QED BY <2>2 DEF Abstract!Next
<1>2. ASSUME NEW p \in Ranks, Calling[p] > 0,
             accepted' = [accepted EXCEPT ![p] = @ + Calling[p]],
             Calling' = [Calling EXCEPT ![p] = 0],
             UNCHANGED <<before, DState, settled, dOut>>
      PROVE  Abstract!Next
  <2>1. Abstract!EnqueueReturn(p)
    BY <1>2 DEF Calling, DState, Abstract!EnqueueReturn
  <2> QED BY <2>1 DEF Abstract!Next
<1>3. ASSUME NEW p \in Ranks, Calling[p] > 0, Batch(p, Calling[p]) \subseteq inQueue,
             Cardinality({x \in inQueue : x[1] = p}) > Capacity,
             RecordGone(Batch(p, Calling[p])),
             Calling' = [Calling EXCEPT ![p] = 0],
             UNCHANGED <<accepted, DState, settled, dOut>>
      PROVE  Abstract!Next
  <2>1. Abstract!EnqueueReject(p)
    BY <1>3, CardinalityIs DEF Calling, DState, RecordGone, inQueue, Batch, Abstract!EnqueueReject, Abstract!Without,
                Abstract!inQueue, Abstract!Batch
  <2> QED BY <2>1 DEF Abstract!Next
<1>4. ASSUME DState = "idle", DState' = "called", settled' = returned,
             UNCHANGED <<before, accepted, Calling, dOut>>
      PROVE  Abstract!Next
  <2>1. returned = Abstract!returned
    BY DEF returned, inQueue, Batch, Abstract!returned, Abstract!inQueue, Abstract!Batch
  <2>2. Abstract!DequeueCall
    BY <1>4, <2>1 DEF Calling, DState, Abstract!DequeueCall
  <2> QED BY <2>2 DEF Abstract!Next
<1>5. ASSUME NEW x \in inQueue, DState = "called", before[x] = {}, RecordGone({x}),
             DState' = "done", settled' = {}, dOut' = x,
             UNCHANGED <<accepted, Calling>>
      PROVE  Abstract!Next
  <2>1. Abstract!DequeueItem(x) /\ x \in Abstract!inQueue
    BY <1>5 DEF Calling, DState, RecordGone, inQueue, Abstract!DequeueItem, Abstract!Without, Abstract!inQueue
  <2> QED BY <2>1 DEF Abstract!Next
<1>6. ASSUME DState = "done", DState' = "idle", UNCHANGED <<before, accepted, Calling, settled, dOut>>
      PROVE  Abstract!Next
  BY <1>6 DEF Calling, DState, Abstract!DequeueReturn, Abstract!Next
<1>7. ASSUME DState = "called", settled = {}, DState' = "idle", dOut' = Nothing,
             UNCHANGED <<before, accepted, Calling, settled>>
      PROVE  Abstract!Next
  BY <1>7 DEF Calling, DState, Nothing, Abstract!Nothing, Abstract!DequeueEmpty, Abstract!Next
<1>8. UNCHANGED <<before, accepted, Calling, DState, settled, dOut>> => UNCHANGED Abstract!vars
  BY DEF Calling, DState, Abstract!vars
<1> QED BY <1>1, <1>2, <1>3, <1>4, <1>5, <1>6, <1>7, <1>8

--------------------------------------------------------------------------------
(* What a step of rank p makes of calls. *)
LEMMA CallingIs ==
  ASSUME TypeInv, TypeInv', NEW p \in Ranks, \A q \in Ranks : q # p => enq'[q] = enq[q]
  PROVE  /\ Calling' = [Calling EXCEPT ![p] = enq'[p].n]
         /\ Calling[p] = enq[p].n /\ Calling[p] \in Nat
         /\ enq'[p].n = enq[p].n => Calling' = Calling
<1>1. Calling = [q \in Ranks |-> enq[q].n] /\ Calling' = [q \in Ranks |-> enq'[q].n]
  BY DEF Calling, Ranks
<1>2. enq[p].n \in Nat
  BY SlotsAssumption DEF TypeInv, Calls, SlotsAssumption
<1> QED BY <1>1, <1>2

LEMMA EnqueueRefines ==
  ASSUME NoWrapAround, IInv, ContentInv, CallInv, NEW p \in Ranks, Enqueueing(p), class' = class
  PROVE  (Abstract!Next \/ UNCHANGED Abstract!vars) /\ CallInv'
<1>1. /\ TypeInv /\ TypeInv' /\ StampInv(p) /\ SpscInv(p) /\ enq \in [Ranks -> Calls] /\ enq[p] \in Calls
      /\ accepted \in [Ranks -> Nat] /\ enq[p].n \in Nat /\ Capacity \in Nat
  <2>1. TypeInv /\ StampInv(p) /\ SpscInv(p)
    BY DEF IInv
  <2>2. TypeInv'
    BY <2>1, EnqueueTypes
  <2>3. enq \in [Ranks -> Calls] /\ enq[p] \in Calls /\ accepted \in [Ranks -> Nat]
    BY <2>1 DEF TypeInv
  <2> QED BY <2>1, <2>2, <2>3, SlotsAssumption DEF Calls, SlotsAssumption
<1>2. \A q \in Ranks : q # p => enq'[q] = enq[q]
  BY <1>1, EnqueueFrame
<1>3. /\ Calling' = [Calling EXCEPT ![p] = enq'[p].n] /\ Calling[p] = enq[p].n
      /\ enq'[p].n = enq[p].n => Calling' = Calling
  BY <1>1, <1>2, CallingIs
<1>4. DState' = DState /\ settled' = settled /\ dOut' = dOut
  BY DEF Enqueueing, EnqueueCall, CountedCall, Stamping, Put, EnqueueFull, RefreshEnqueue, CheckFront,
         ReadSlot, RecheckFront, SwapSlot, SwapSlotFails, deqVars, DState
<1>5. (enq'[p].pc # "idle" => enq'[p].n > 0) => CallInv'
  BY <1>2 DEF CallInv, Ranks
<1>6. ASSUME NEW n \in 1..MaxBatch, EnqueueCall(p, n) \/ CountedCall(p, n)
      PROVE  Abstract!Next /\ CallInv'
  <2>1. /\ enq[p].pc = "idle" /\ enq'[p].n = n /\ RecordCall(Batch(p, n)) /\ accepted' = accepted
        /\ enq[p].n = 0
    BY <1>1, <1>6, CallIs DEF StampInv
  <2>2. Abstract!Next
    BY <1>3, <1>4, <2>1, AbstractSteps
  <2>3. n > 0
    OBVIOUS
  <2> QED BY <1>5, <2>1, <2>2, <2>3
<1>7. ASSUME enq[p].pc # "idle", enq'[p].n = enq[p].n, accepted' = accepted, before' = before
      PROVE  UNCHANGED Abstract!vars /\ CallInv'
  <2>1. UNCHANGED Abstract!vars
    BY <1>3, <1>4, <1>7, AbstractSteps
  <2> QED BY <1>5, <1>7, <2>1 DEF CallInv
<1>8. ASSUME enq[p].pc # "idle", EnqueueReturn(p), before' = before
      PROVE  Abstract!Next /\ CallInv'
  <2>1. enq'[p] = EnqIdle /\ accepted' = [accepted EXCEPT ![p] = @ + Calling[p]] /\ Calling[p] > 0
    BY <1>1, <1>3, <1>8 DEF EnqueueReturn, CallInv
  <2>2. enq'[p].n = 0 /\ enq'[p].pc = "idle"
    BY <2>1 DEF EnqIdle
  <2>3. Abstract!Next
    BY <1>3, <1>4, <1>8, <2>1, <2>2, AbstractSteps
  <2> QED BY <1>5, <2>2, <2>3
<1>9. CASE EnqueueFull(p)
  <2>1. enq'[p] = EnqIdle /\ accepted' = accepted /\ Calling[p] > 0 /\ Putting(p) /\ RecordGone(Batch(p, Calling[p]))
    BY <1>1, <1>3, <1>9 DEF EnqueueFull, CallInv, Putting
  <2>2. enq'[p].n = 0 /\ enq'[p].pc = "idle"
    BY <2>1 DEF EnqIdle
  <2>3. Batch(p, Calling[p]) \subseteq inQueue
    BY <1>1, <1>3, <2>1 DEF SpscInv
  <2>4. Cardinality({x \in inQueue : x[1] = p}) > Capacity
    <3>1. ~ (Len(spsc[p]) + enq[p].n <= Capacity) /\ Len(spsc[p]) \in Nat
      BY <1>1, <1>9, FrontIs DEF EnqueueFull, Fits
    <3>2. Cardinality({x \in inQueue : x[1] = p}) = Len(spsc[p]) + enq[p].n
      BY <2>1, HowMany
    <3> QED BY <1>1, <3>1, <3>2
  <2>5. Abstract!Next
    BY <1>3, <1>4, <2>1, <2>2, <2>3, <2>4, AbstractSteps
  <2> QED BY <1>5, <2>2, <2>5
<1>10. CASE Stamping(p)
  <2>1. PICK t : enq' = [enq EXCEPT ![p].pc = "put", ![p].ts = t]
    BY <1>10 DEF Stamping
  <2>2. enq'[p].n = enq[p].n
    BY <1>1, <2>1 DEF Calls
  <2> QED BY <1>7, <1>10, <2>2 DEF Stamping
<1>11. CASE Put(p)
  <2>1. enq'[p].n = enq[p].n
    BY <1>1, <1>11 DEF Put, GoOn, Calls
  <2> QED BY <1>7, <1>11, <2>1 DEF Put, GoOn
<1>12. CASE RefreshEnqueue(p)
  <2>1. enq[p].pc # "idle" /\ before' = before
    BY <1>12 DEF RefreshEnqueue, CheckFront, ReadSlot, RecheckFront, SwapSlot, SwapSlotFails
  <2>2. EnqueueReturn(p) \/ (enq'[p].n = enq[p].n /\ accepted' = accepted)
    BY <1>1, <1>12
       DEF RefreshEnqueue, CheckFront, ReadSlot, RecheckFront, SwapSlot, SwapSlotFails, GoOn, Calls
  <2> QED BY <1>7, <1>8, <2>1, <2>2
<1> QED BY <1>6, <1>9, <1>10, <1>11, <1>12 DEF Enqueueing

LEMMA DequeueRefines ==
  ASSUME NoWrapAround, Size <= 2, IInv, HistoryInv, OrderInv, CallInv, Next, Dequeueing(Cached), class' = class
  PROVE  (Abstract!Next \/ UNCHANGED Abstract!vars) /\ CallInv'
<1>1. TypeInv /\ deq \in Scans /\ deq.rank \in Ranks
  BY DEF IInv, TypeInv, Scans
<1>2. enq' = enq /\ accepted' = accepted
  BY DEF Dequeueing, ReadMinimumRank, FirstScan, SecondScan, ScanSlot, Select, SelectNone, Take, DequeueCall,
         RefreshDequeue, DReadSlot, DReadFront, DSwapSlot, DSwapSlotFails, enqVars
<1>3. CallInv' /\ Calling' = Calling
  BY <1>2 DEF CallInv, Calling, Ranks
<1>4. CASE DequeueCall
  <2>1. /\ deq.pc = "idle" /\ deq'.pc = "scan" /\ settled' = returned
        /\ UNCHANGED <<before, accepted, Calling, dOut>>
    BY <1>3, <1>4 DEF DequeueCall, DeqIdle, enqVars
  <2>2. DState = "idle" /\ DState' = "called"
    BY <2>1 DEF DState
  <2> QED BY <1>3, <2>1, <2>2, AbstractSteps
<1>5. CASE FirstScan(Cached) \/ SecondScan(Cached) \/ Select(Cached)
  <2>1. /\ deq.pc \in {"scan", "rescan"} /\ deq'.pc \in {"scan", "rescan"}
        /\ UNCHANGED <<before, accepted, settled, dOut>>
    BY <1>1, <1>5 DEF FirstScan, SecondScan, ScanSlot, Select, enqVars, Scans
  <2>2. DState' = DState
    BY <2>1 DEF DState
  <2> QED BY <1>3, <2>1, <2>2, AbstractSteps
<1>6. CASE SelectNone(Cached)
  <2>1. /\ deq.pc = "scan" /\ deq'.pc = "idle" /\ dOut' = Nothing
        /\ UNCHANGED <<before, accepted, settled>>
    BY <1>6 DEF SelectNone, DeqIdle, enqVars
  <2>2. DState = "called" /\ DState' = "idle"
    BY <2>1 DEF DState
  <2>3. settled = {}
    BY <2>1, EmptyIsEmpty DEF HistoryInv
  <2> QED BY <1>3, <2>1, <2>2, <2>3, AbstractSteps
<1>7. CASE Take(Cached)
  <2>1. PICK r \in Ranks : Taking(r) /\ r = Reselected(deq.rank)
    BY <1>7, TakeIs
  <2> DEFINE h == Head(spsc[r]).item
  <2>2. before[h] = {}
    BY <1>7, <2>1, InOrder DEF HistoryInv
  <2>3. /\ deq.pc = "rescan" /\ deq'.pc = "readSlot" /\ dOut' = h /\ RecordGone({h})
        /\ settled' = {} /\ accepted' = accepted
    BY <2>1 DEF Taking, DeqIdle, enqVars
  <2>4. h \in inQueue
    <3>1. spsc[r] \in Seq(Elements) /\ spsc[r] # <<>> /\ SpscInv(r)
      BY <1>1, <2>1 DEF Taking, TypeInv, IInv
    <3>2. Head(spsc[r]) = spsc[r][1] /\ 1 \in 1..Len(spsc[r])
      BY <3>1
    <3> QED BY <3>1, <3>2 DEF SpscInv
  <2>5. DState = "called" /\ DState' = "done"
    BY <2>3 DEF DState
  <2> HIDE DEF h
  <2> QED BY <1>3, <2>2, <2>3, <2>4, <2>5, AbstractSteps
<1>8. CASE RefreshDequeue(Cached)
  <2>1. deq.pc \in {"readSlot", "front", "swap"} /\ UNCHANGED <<before, accepted, settled, dOut>>
    BY <1>8 DEF RefreshDequeue, DReadSlot, DReadFront, DSwapSlot, DSwapSlotFails, enqVars
  <2>2. DState = "done" /\ DState' \in {"idle", "done"}
    BY <1>1, <1>8, <2>1, RefreshingRank DEF DState
  <2> QED BY <1>3, <2>1, <2>2, AbstractSteps
<1> QED BY <1>3, <1>4, <1>5, <1>6, <1>7, <1>8 DEF Dequeueing, ReadMinimumRank

--------------------------------------------------------------------------------
LEMMA OrderInitially == Init => OrderInv /\ CallInv /\ Abstract!Init
<1> SUFFICES ASSUME Init PROVE OrderInv /\ CallInv /\ Abstract!Init
  OBVIOUS
<1>1. /\ before = [x \in {} |-> {}] /\ settled = {} /\ accepted = [p \in Ranks |-> 0] /\ dOut = Nothing
      /\ deq = DeqIdle /\ enq = [p \in Ranks |-> EnqIdle]
  BY DEF Init, Slot!Init, Slot!Constructed, Node!Init, Node!Constructed, Hosted!Init, Hosted!Constructed,
         Unbounded!Init, Unbounded!Constructed, Ranks, Slot!Ranks, Node!Ranks, Hosted!Ranks, Unbounded!Ranks,
         EnqIdle, Slot!EnqIdle, Node!EnqIdle, Hosted!EnqIdle, Unbounded!EnqIdle,
         DeqIdle, Slot!DeqIdle, Node!DeqIdle, Hosted!DeqIdle, Unbounded!DeqIdle,
         Nothing, Slot!Nothing, Node!Nothing, Hosted!Nothing, Unbounded!Nothing
<1>2. deq.pc = "idle" /\ \A p \in Ranks : enq[p].pc = "idle" /\ enq[p].n = 0
  BY <1>1 DEF DeqIdle, EnqIdle
<1>3. OrderInv /\ CallInv
  BY <1>2 DEF OrderInv, CallInv
<1>4. Abstract!Init
  BY <1>1, <1>2 DEF Abstract!Init, Nothing, Abstract!Nothing
<1> QED BY <1>3, <1>4

LEMMA OrderStutters ==
  OrderInv /\ CallInv /\ UNCHANGED <<vars, class>> => OrderInv' /\ CallInv' /\ UNCHANGED Abstract!vars
<1> SUFFICES ASSUME OrderInv, CallInv, UNCHANGED <<vars, class>>
             PROVE  OrderInv' /\ CallInv' /\ UNCHANGED Abstract!vars
  OBVIOUS
<1>1. /\ spsc' = spsc /\ enq' = enq /\ accepted' = accepted /\ buf' = buf /\ deq' = deq /\ dOut' = dOut
      /\ before' = before /\ settled' = settled
  BY DEF vars, enqVars, deqVars
<1>2. OrderInv' /\ CallInv'
  BY <1>1 DEF OrderInv, NoneBefore, CallInv, Ranks, MAX
<1>3. Calling' = Calling /\ DState' = DState
  BY <1>1 DEF Calling, DState, Ranks
<1>4. UNCHANGED Abstract!vars
  BY <1>1, <1>3, AbstractSteps
<1> QED BY <1>2, <1>4

(* What dequeue must not overtake is known to its scans, in every state. *)
THEOREM OrderInductive == ASSUME NoWrapAround PROVE Spec => [](IInv /\ HistoryInv /\ OrderInv /\ CallInv)
<1>1. IInv /\ HistoryInv /\ OrderInv /\ CallInv /\ [Next]_<<vars, class>> => OrderInv' /\ CallInv'
  <2> SUFFICES ASSUME IInv, HistoryInv, OrderInv, CallInv, [Next]_<<vars, class>> PROVE OrderInv' /\ CallInv'
    OBVIOUS
  <2>1. CASE UNCHANGED <<vars, class>>
    BY <2>1, OrderStutters
  <2>2. CASE Next
    <3>1. ASSUME NEW p \in Ranks, Enqueueing(p), class' = class PROVE OrderInv' /\ CallInv'
      BY <3>1, EnqueueOrder, EnqueueRefines DEF HistoryInv
    <3>2. ASSUME Dequeueing(Cached) PROVE OrderInv' /\ CallInv'
      <4>1. OrderInv'
        BY <3>2, DequeueOrder DEF HistoryInv
      <4>2. enq' = enq
        BY <3>2
           DEF Dequeueing, ReadMinimumRank, FirstScan, SecondScan, ScanSlot, Select, SelectNone, Take,
               DequeueCall, RefreshDequeue, DReadSlot, DReadFront, DSwapSlot, DSwapSlotFails, enqVars
      <4> QED BY <4>1, <4>2 DEF CallInv, Ranks
    <3> QED BY <2>2, <3>1, <3>2, StepIs
  <2> QED BY <2>1, <2>2
<1> QED BY <1>1, OrderInitially, HistoryInductive, PTL DEF Spec

(* Implements: with two enqueuers (or one) the classes are linearizable. *)
THEOREM TwoLinearizable == ASSUME NoWrapAround, Size <= 2 PROVE Spec => Implements
<1>1. IInv /\ HistoryInv /\ OrderInv /\ CallInv /\ [Next]_<<vars, class>>
        => Abstract!Next \/ UNCHANGED Abstract!vars
  <2> SUFFICES ASSUME IInv, HistoryInv, OrderInv, CallInv, [Next]_<<vars, class>>
               PROVE  Abstract!Next \/ UNCHANGED Abstract!vars
    OBVIOUS
  <2>1. CASE UNCHANGED <<vars, class>>
    BY <2>1, OrderStutters
  <2>2. CASE Next
    <3>1. ASSUME NEW p \in Ranks, Enqueueing(p), class' = class PROVE Abstract!Next \/ UNCHANGED Abstract!vars
      BY <3>1, EnqueueRefines DEF HistoryInv
    <3>2. ASSUME Dequeueing(Cached), class' = class PROVE Abstract!Next \/ UNCHANGED Abstract!vars
      BY <2>2, <3>2, DequeueRefines
    <3> QED BY <2>2, <3>1, <3>2, StepIs
  <2> QED BY <2>1, <2>2
<1> QED BY <1>1, OrderInductive, OrderInitially, PTL DEF Spec, Implements, Abstract!Spec

(***************************************************************************)
(* With any number of enqueuers, only an element of a rank below the one   *)
(* the first scan selected ever overtakes another: what the second scan    *)
(* finds is taken although ranks above it may have changed meanwhile.      *)
(***************************************************************************)
SelectedOvertakesNone == [][takes /\ deq'.rank = deq.rank => \A x \in took : before[x] = {}]_vars

(* SelectedOvertakesNone: the rank of the first scan is taken from in order. *)
THEOREM SelectedInOrder == ASSUME NoWrapAround PROVE Spec => SelectedOvertakesNone
<1>1. IInv /\ HistoryInv /\ OrderInv /\ [Next]_<<vars, class>>
        => [takes /\ deq'.rank = deq.rank => \A x \in took : before[x] = {}]_vars
  <2> SUFFICES ASSUME IInv, HistoryInv, OrderInv, Next, takes, deq'.rank = deq.rank, NEW x \in took
               PROVE  before[x] = {}
    BY DEF vars, enqVars, deqVars
  <2>1. Take(Cached)
    BY TakesIs
  <2>2. PICK r \in Ranks : Taking(r) /\ r = Reselected(deq.rank)
    BY <2>1, TakeIs
  <2>3. r = deq.rank
    BY <2>2 DEF Taking, DeqIdle
  <2>4. before[Head(spsc[r]).item] = {}
    BY <2>1, <2>2, <2>3, InOrder DEF HistoryInv
  <2>5. inQueue' = inQueue \ {Head(spsc[r]).item}
    BY <2>2, RecordGoneIs DEF Taking
  <2>6. x = Head(spsc[r]).item
    BY <2>5 DEF took, inQueue
  <2> QED BY <2>4, <2>6
<1> QED BY <1>1, OrderInductive, PTL DEF Spec, SelectedOvertakesNone

--------------------------------------------------------------------------------
(***************************************************************************)
(* Wait-freedom.  The number of steps left needs little of the state, and  *)
(* nothing that timestamps which wrap around could disturb.                *)
(***************************************************************************)
EnqueueLocals ==
  [pc : {"idle", "count", "put", "check", "readSlot", "recheck", "swap"},
   n : 0..MaxBatch, ts : Nat, old : Nat, try : 1..2]

DequeueLocals ==
  [pc : {"idle", "scan", "rescan", "readSlot", "front", "swap"},
   next : 0..Size, rank : Ranks, old : Nat, new : Nat, try : 1..2]

StampedElements == [item : Ranks \X Nat, ts : Nat]

CellsInv ==
  /\ counter \in Nat
  /\ accepted \in [Ranks -> Nat]
  /\ spsc \in [Ranks -> Seq(StampedElements)]
  /\ slot \in [Ranks -> Nat]
  /\ buf \in [Ranks -> Nat]

EnqueueLocal(l) == l \in EnqueueLocals /\ (l.pc \in {"count", "put"} => l.try = 1)
DequeueLocal(l) == l \in DequeueLocals /\ (l.pc = "rescan" => l.next <= l.rank)

(* What the count of the steps needs, whatever the timestamps are. *)
WaitFreeInv ==
  /\ CellsInv
  /\ enq \in [Ranks -> EnqueueLocals] /\ \A p \in Ranks : EnqueueLocal(enq[p])
  /\ DequeueLocal(deq)

LEMMA Parameters ==
  /\ Size \in Nat \ {0} /\ MaxBatch \in Nat \ {0} /\ MaxTimestamp \in Nat \ {0} /\ MAX \in Nat
  /\ 0 \in Ranks /\ \A r \in Ranks : r \in Nat /\ r < Size /\ r \in 0..Size
  /\ \A c \in Nat : Timestamp(c) \in Nat
BY SlotsAssumption DEF SlotsAssumption, MAX, Ranks, Timestamp

(* Updates of the locals. *)
LEMMA EnqueueLocalsClosed ==
  \A l \in EnqueueLocals :
    /\ \A t \in Nat : [l EXCEPT !.pc = "put", !.ts = t] \in EnqueueLocals
    /\ \A pc \in {"check", "readSlot", "swap"} : [l EXCEPT !.pc = pc] \in EnqueueLocals
    /\ \A t \in Nat : [l EXCEPT !.old = t, !.pc = "recheck"] \in EnqueueLocals
    /\ [l EXCEPT !.try = 2, !.pc = "check"] \in EnqueueLocals
<1>1. ASSUME NEW l \in EnqueueLocals, NEW t \in Nat
      PROVE  /\ [l EXCEPT !.ts = t] \in EnqueueLocals /\ [l EXCEPT !.old = t] \in EnqueueLocals
             /\ [l EXCEPT !.try = 2] \in EnqueueLocals
  BY <1>1 DEF EnqueueLocals
<1>2. \A l \in EnqueueLocals, pc \in {"count", "put", "check", "readSlot", "recheck", "swap"} :
        [l EXCEPT !.pc = pc] \in EnqueueLocals
  BY DEF EnqueueLocals
<1> HIDE DEF EnqueueLocals
<1>3. 0 \in Nat
  OBVIOUS
<1> QED BY <1>1, <1>2, <1>3

LEMMA IdleLocals ==
  /\ EnqueueLocal(EnqIdle) /\ EnqueueSteps(EnqIdle) = 0
  /\ DequeueLocal(DeqIdle) /\ DequeueSteps(DeqIdle) = 0
<1>1. MaxBatch \in Nat \ {0} /\ Size \in Nat \ {0} /\ 0 \in Ranks
  BY Parameters
<1>2. EnqIdle \in EnqueueLocals /\ EnqIdle.pc = "idle"
  BY <1>1 DEF EnqueueLocals, EnqIdle
<1>3. DeqIdle \in DequeueLocals /\ DeqIdle.pc = "idle"
  BY <1>1 DEF DequeueLocals, DeqIdle
<1> HIDE DEF EnqIdle, DeqIdle, EnqueueLocals, DequeueLocals
<1> QED BY <1>2, <1>3 DEF EnqueueLocal, DequeueLocal, EnqueueSteps, DequeueSteps

LEMMA CallLocals ==
  ASSUME NEW n \in 1..MaxBatch, NEW t \in Nat, NEW pc \in {"count", "put"}
  PROVE  EnqueueLocal([EnqIdle EXCEPT !.pc = pc, !.n = n, !.ts = t])
<1> DEFINE m == [EnqIdle EXCEPT !.pc = pc, !.n = n, !.ts = t]
<1>1. MaxBatch \in Nat /\ n \in 0..MaxBatch
  BY Parameters
<1>2. EnqIdle \in EnqueueLocals /\ EnqIdle.try = 1
  BY <1>1 DEF EnqueueLocals, EnqIdle
<1>3. \A l \in EnqueueLocals :
        /\ [l EXCEPT !.pc = pc] \in EnqueueLocals /\ [l EXCEPT !.pc = pc].try = l.try
        /\ [l EXCEPT !.n = n] \in EnqueueLocals /\ [l EXCEPT !.n = n].try = l.try
        /\ [l EXCEPT !.ts = t] \in EnqueueLocals /\ [l EXCEPT !.ts = t].try = l.try
  BY <1>1 DEF EnqueueLocals
<1> HIDE DEF EnqIdle, EnqueueLocals
<1>4. m = [[[EnqIdle EXCEPT !.pc = pc] EXCEPT !.n = n] EXCEPT !.ts = t]
  OBVIOUS
<1>5. m \in EnqueueLocals /\ m.try = 1
  BY <1>2, <1>3, <1>4
<1> HIDE DEF m
<1>6. EnqueueLocal(m)
  BY <1>5 DEF EnqueueLocal
<1> QED BY <1>6 DEF m

LEMMA DequeueLocalsClosed ==
  /\ DeqIdle \in DequeueLocals /\ DeqIdle.pc = "idle"
  /\ [DeqIdle EXCEPT !.pc = "scan"] \in DequeueLocals
  /\ \A r \in Ranks : [DeqIdle EXCEPT !.pc = "readSlot", !.rank = r] \in DequeueLocals
  /\ \A d \in DequeueLocals :
       /\ \A k \in 0..Size : [d EXCEPT !.next = k] \in DequeueLocals
       /\ \A r \in Ranks : [d EXCEPT !.pc = "rescan", !.next = 0, !.rank = r] \in DequeueLocals
       /\ \A t \in Nat :
            [d EXCEPT !.old = t, !.pc = "front"] \in DequeueLocals /\ [d EXCEPT !.pc = "swap", !.new = t] \in DequeueLocals
       /\ [d EXCEPT !.try = 2, !.pc = "readSlot"] \in DequeueLocals
<1>1. Size \in Nat \ {0} /\ 0 \in Ranks /\ 0 \in 0..Size
  BY Parameters
<1>2. DeqIdle \in DequeueLocals /\ DeqIdle.pc = "idle"
  BY <1>1 DEF DequeueLocals, DeqIdle
<1>3. \A d \in DequeueLocals :
        /\ \A k \in 0..Size : [d EXCEPT !.next = k] \in DequeueLocals
        /\ \A r \in Ranks : [d EXCEPT !.rank = r] \in DequeueLocals
        /\ \A t \in Nat : [d EXCEPT !.old = t] \in DequeueLocals /\ [d EXCEPT !.new = t] \in DequeueLocals
        /\ [d EXCEPT !.try = 2] \in DequeueLocals
  BY DEF DequeueLocals
<1>4. \A d \in DequeueLocals : \A pc \in {"idle", "scan", "rescan", "readSlot", "front", "swap"} :
        [d EXCEPT !.pc = pc] \in DequeueLocals
  BY DEF DequeueLocals
<1> HIDE DEF DequeueLocals
<1> QED BY <1>1, <1>2, <1>3, <1>4

(* The front of an SPSC and what is left behind it. *)
LEMMA FrontStamp ==
  ASSUME CellsInv, NEW p \in Ranks
  PROVE  /\ FrontTimestamp(p) \in Nat
         /\ spsc[p] # <<>> => Tail(spsc[p]) \in Seq(StampedElements)
<1>1. spsc[p] \in Seq(StampedElements)
  BY DEF CellsInv
<1>2. spsc[p] # <<>> => Head(spsc[p]) \in StampedElements
  BY <1>1
<1>3. spsc[p] # <<>> => Head(spsc[p]).ts \in Nat
  BY <1>2 DEF StampedElements
<1>4. MAX \in Nat
  BY Parameters
<1> QED BY <1>1, <1>3, <1>4 DEF FrontTimestamp

(* The steps left, for each set of locals. *)
LEMMA EnqueueStepsAre ==
  ASSUME NEW l, EnqueueLocal(l)
  PROVE  EnqueueSteps(l) \in Nat /\ (EnqueueSteps(l) = 0 <=> l.pc = "idle") /\ EnqueueSteps(l) <= MostEnqueueSteps
<1>1. l.pc \in {"idle", "count", "put", "check", "readSlot", "recheck", "swap"} /\ l.try \in 1..2
  BY DEF EnqueueLocal, EnqueueLocals
<1> QED BY <1>1 DEF EnqueueSteps, MostEnqueueSteps

LEMMA DequeueStepsAre ==
  ASSUME NEW l, DequeueLocal(l)
  PROVE  DequeueSteps(l) \in Nat /\ (DequeueSteps(l) = 0 <=> l.pc = "idle") /\ DequeueSteps(l) <= MostDequeueSteps
<1>1. Size \in Nat \ {0} /\ \A r \in Ranks : r \in Nat /\ r < Size
  BY Parameters
<1>2. l.rank \in Ranks /\ l.next \in 0..Size /\ l.try \in 1..2
      /\ l.pc \in {"idle", "scan", "rescan", "readSlot", "front", "swap"} /\ (l.pc = "rescan" => l.next <= l.rank)
  BY DEF DequeueLocal, DequeueLocals
<1> QED BY <1>1, <1>2 DEF DequeueSteps, MostDequeueSteps

(* What a step of an enqueue does to its locals and to the cells. *)
LEMMA EnqueueGoesOn ==
  ASSUME WaitFreeInv, NEW p \in Ranks, Begins(p) \/ Proceeding(p)
  PROVE  /\ CellsInv' /\ deq' = deq
         /\ \E l : /\ enq' = [enq EXCEPT ![p] = l] /\ EnqueueLocal(l)
                   /\ enq[p].pc = "idle" \/ EnqueueSteps(l) < EnqueueSteps(enq[p])
                   /\ Proceeding(p) => enq[p].pc # "idle"
<1> DEFINE l == enq[p]
           Goal == /\ CellsInv' /\ deq' = deq
                   /\ \E m : /\ enq' = [enq EXCEPT ![p] = m] /\ EnqueueLocal(m)
                             /\ l.pc = "idle" \/ EnqueueSteps(m) < EnqueueSteps(l)
                             /\ Proceeding(p) => l.pc # "idle"
<1> SUFFICES Goal
  OBVIOUS
<1>1. CellsInv /\ enq \in [Ranks -> EnqueueLocals] /\ l \in EnqueueLocals /\ EnqueueLocal(l)
  BY DEF WaitFreeInv
<1>2. /\ counter \in Nat /\ accepted \in [Ranks -> Nat] /\ slot \in [Ranks -> Nat]
      /\ spsc \in [Ranks -> Seq(StampedElements)] /\ accepted[p] \in Nat /\ slot[p] \in Nat
      /\ l.n \in Nat /\ l.ts \in Nat /\ l.try \in 1..2
  <2>1. MaxBatch \in Nat
    BY Parameters
  <2>2. l.n \in Nat /\ l.ts \in Nat /\ l.try \in 1..2
    BY <1>1, <2>1 DEF EnqueueLocals
  <2> HIDE DEF l
  <2> QED BY <1>1, <2>2 DEF CellsInv
<1>3. EnqueueLocal(EnqIdle) /\ EnqueueSteps(EnqIdle) = 0 /\ (l.pc # "idle" => EnqueueSteps(l) > 0)
  <2>1. EnqueueSteps(l) \in Nat /\ (EnqueueSteps(l) = 0 <=> l.pc = "idle")
    BY <1>1, EnqueueStepsAre
  <2> HIDE DEF l
  <2> QED BY <2>1, IdleLocals
<1>4. ASSUME NEW n \in 1..MaxBatch, EnqueueCall(p, n) \/ CountedCall(p, n) PROVE Goal
  <2>1. PICK pc \in {"count", "put"}, t \in Nat :
          enq' = [enq EXCEPT ![p] = [EnqIdle EXCEPT !.pc = pc, !.n = n, !.ts = t]]
    BY <1>2, <1>4, Parameters DEF EnqueueCall, CountedCall
  <2>2. l.pc = "idle" /\ ~Proceeding(p)
    BY <1>4 DEF EnqueueCall, CountedCall, Proceeding, Node!TakeTimestamp, Put, EnqueueFull, RefreshEnqueue,
                CheckFront, ReadSlot, RecheckFront, SwapSlot, SwapSlotFails
  <2>3. EnqueueLocal([EnqIdle EXCEPT !.pc = pc, !.n = n, !.ts = t])
    BY CallLocals
  <2>4. CellsInv' /\ deq' = deq
    BY <1>1, <1>2, <1>4 DEF EnqueueCall, CountedCall, GetAndIncrement, CellsInv, deqVars
  <2> QED BY <2>1, <2>2, <2>3, <2>4
<1>5. ASSUME NEW m, enq' = [enq EXCEPT ![p] = m], EnqueueLocal(m), EnqueueSteps(m) < EnqueueSteps(l),
             l.pc # "idle", CellsInv', deq' = deq
      PROVE  Goal
  BY <1>5
<1>6. CASE Node!TakeTimestamp(p)
  <2>1. PICK t \in Nat : enq' = [enq EXCEPT ![p].pc = "put", ![p].ts = t]
    <3>1. \A t \in Nat : Node!Timestamp(t) \in Nat
      BY Parameters DEF Timestamp, Node!Timestamp
    <3>2. \A t \in Node!IssuedSince(l.ts) : t \in Nat
      BY <1>2 DEF Node!IssuedSince
    <3> QED BY <1>2, <1>6, <3>1, <3>2 DEF Node!TakeTimestamp, Node!Stamped
  <2> DEFINE m == [l EXCEPT !.pc = "put", !.ts = t]
  <2>2. enq' = [enq EXCEPT ![p] = m] /\ l.pc = "count"
    BY <1>1, <1>6, <2>1 DEF Node!TakeTimestamp
  <2>3. m \in EnqueueLocals /\ m.pc = "put" /\ m.try = l.try /\ l.try = 1
    BY <1>1, <2>2, EnqueueLocalsClosed DEF EnqueueLocals, EnqueueLocal
  <2>4. CellsInv' /\ deq' = deq
    BY <1>1, <1>2, <1>6 DEF Node!TakeTimestamp, Node!GetAndIncrement, GetAndIncrement, CellsInv, Node!deqVars
  <2> HIDE DEF m
  <2>5. EnqueueLocal(m) /\ EnqueueSteps(m) < EnqueueSteps(l)
    BY <2>2, <2>3 DEF EnqueueLocal, EnqueueSteps
  <2> QED BY <1>5, <2>2, <2>4, <2>5
<1>7. ASSUME NEW pc, GoOn(p, pc), <<l.pc, pc>> \in {<<"put", "check">>, <<"check", "readSlot">>, <<"recheck", "swap">>},
             CellsInv', deq' = deq
      PROVE  Goal
  <2> DEFINE m == [l EXCEPT !.pc = pc]
  <2>1. enq' = [enq EXCEPT ![p] = m]
    BY <1>1, <1>7 DEF GoOn
  <2>2. m \in EnqueueLocals /\ m.pc = pc /\ m.try = l.try /\ (l.pc = "put" => l.try = 1)
    BY <1>1, <1>7, EnqueueLocalsClosed DEF EnqueueLocals, EnqueueLocal
  <2> HIDE DEF m
  <2>3. EnqueueLocal(m) /\ EnqueueSteps(m) < EnqueueSteps(l)
    BY <1>2, <1>7, <2>2 DEF EnqueueLocal, EnqueueSteps
  <2> QED BY <1>5, <1>7, <2>1, <2>3
<1>8. ASSUME enq' = [enq EXCEPT ![p] = EnqIdle], l.pc # "idle", CellsInv', deq' = deq PROVE Goal
  BY <1>3, <1>8
<1>9. ASSUME EnqueueReturn(p), l.pc # "idle", spsc' = spsc, counter' = counter, buf' = buf, deq' = deq,
             slot' \in [Ranks -> Nat]
      PROVE  Goal
  <2>1. accepted' \in [Ranks -> Nat]
    BY <1>2, <1>9 DEF EnqueueReturn
  <2> QED BY <1>1, <1>8, <1>9, <2>1 DEF CellsInv, EnqueueReturn
<1>10. CASE Put(p)
  <2> DEFINE new == [i \in 1..l.n |-> [item |-> <<p, accepted[p] + i>>, ts |-> l.ts]]
  <2>1. \A i \in 1..l.n : [item |-> <<p, accepted[p] + i>>, ts |-> l.ts] \in StampedElements
    BY <1>2 DEF StampedElements
  <2>2. new \in Seq(StampedElements)
    <3>1. new \in [1..l.n -> StampedElements]
      BY <2>1
    <3>2. l.n \in Nat
      BY <1>2
    <3> HIDE DEF new, l
    <3> QED BY <3>1, <3>2
  <2>3. spsc' = [spsc EXCEPT ![p] = spsc[p] \o new]
    BY <1>2, <1>10 DEF Put
  <2> HIDE DEF new
  <2>4. spsc[p] \o new \in Seq(StampedElements)
    BY <1>2, <2>2
  <2>5. spsc' \in [Ranks -> Seq(StampedElements)]
    BY <1>2, <2>3, <2>4
  <2> QED BY <1>1, <1>7, <1>10, <2>5 DEF Put, GoOn, CellsInv, deqVars
<1>11. CASE EnqueueFull(p)
  BY <1>1, <1>8, <1>11 DEF EnqueueFull, CellsInv, deqVars
<1>12. CASE CheckFront(p)
  <2>1. CellsInv /\ accepted' = accepted => CellsInv'
    BY <1>12 DEF CheckFront, CellsInv, deqVars
  <2>2. CASE GoOn(p, "readSlot")
    BY <1>1, <1>7, <1>12, <2>1, <2>2 DEF CheckFront, GoOn, deqVars
  <2>3. CASE EnqueueReturn(p)
    BY <1>2, <1>9, <1>12, <2>3 DEF CheckFront, deqVars
  <2> QED BY <1>12, <2>2, <2>3 DEF CheckFront
<1>13. CASE ReadSlot(p)
  <2> DEFINE m == [l EXCEPT !.old = slot[p], !.pc = "recheck"]
  <2>1. enq' = [enq EXCEPT ![p] = m] /\ l.pc = "readSlot"
    BY <1>1, <1>13 DEF ReadSlot
  <2>2. m \in EnqueueLocals /\ m.pc = "recheck" /\ m.try = l.try
    BY <1>1, <1>2, EnqueueLocalsClosed DEF EnqueueLocals
  <2>3. CellsInv' /\ deq' = deq
    BY <1>1, <1>13 DEF ReadSlot, CellsInv, deqVars
  <2> HIDE DEF m
  <2>4. EnqueueLocal(m) /\ EnqueueSteps(m) < EnqueueSteps(l)
    BY <1>2, <2>1, <2>2 DEF EnqueueLocal, EnqueueSteps
  <2> QED BY <1>5, <2>1, <2>3, <2>4
<1>14. CASE RecheckFront(p)
  <2>1. CellsInv /\ accepted' = accepted => CellsInv'
    BY <1>14 DEF RecheckFront, CellsInv, deqVars
  <2>2. CASE GoOn(p, "swap")
    BY <1>1, <1>7, <1>14, <2>1, <2>2 DEF RecheckFront, GoOn, deqVars
  <2>3. CASE EnqueueReturn(p)
    BY <1>2, <1>9, <1>14, <2>3 DEF RecheckFront, deqVars
  <2> QED BY <1>14, <2>2, <2>3 DEF RecheckFront
<1>15. CASE SwapSlot(p)
  <2>1. slot' \in [Ranks -> Nat]
    BY <1>2, <1>15 DEF SwapSlot
  <2> QED BY <1>9, <1>15, <2>1 DEF SwapSlot, deqVars
<1>16. CASE SwapSlotFails(p)
  <2>1. CASE EnqueueReturn(p)
    BY <1>2, <1>9, <1>16, <2>1 DEF SwapSlotFails, deqVars
  <2>2. CASE l.try = 1 /\ enq' = [enq EXCEPT ![p].try = 2, ![p].pc = "check"] /\ UNCHANGED accepted
    <3> DEFINE m == [l EXCEPT !.try = 2, !.pc = "check"]
    <3>1. enq' = [enq EXCEPT ![p] = m] /\ l.pc = "swap" /\ l.try = 1
      BY <1>1, <1>16, <2>2 DEF SwapSlotFails
    <3>2. m \in EnqueueLocals /\ m.pc = "check" /\ m.try = 2
      BY <1>1, EnqueueLocalsClosed DEF EnqueueLocals
    <3>3. CellsInv' /\ deq' = deq
      BY <1>1, <1>16, <2>2 DEF SwapSlotFails, CellsInv, deqVars
    <3> HIDE DEF m
    <3>4. EnqueueLocal(m) /\ EnqueueSteps(m) < EnqueueSteps(l)
      BY <3>1, <3>2 DEF EnqueueLocal, EnqueueSteps
    <3> QED BY <1>5, <3>1, <3>3, <3>4
  <2> QED BY <1>16, <2>1, <2>2 DEF SwapSlotFails
<1> HIDE DEF Goal
<1> QED
  BY <1>4, <1>6, <1>10, <1>11, <1>12, <1>13, <1>14, <1>15, <1>16 DEF Begins, Proceeding, RefreshEnqueue

(* What a step of a dequeue does. *)
LEMMA DequeueGoesOn ==
  ASSUME WaitFreeInv, DequeueCall \/ DProceeding(Cached)
  PROVE  /\ CellsInv' /\ enq' = enq /\ DequeueLocal(deq')
         /\ deq.pc = "idle" \/ DequeueSteps(deq') < DequeueSteps(deq)
         /\ DProceeding(Cached) => deq.pc # "idle"
<1> DEFINE Goal == /\ CellsInv' /\ enq' = enq /\ DequeueLocal(deq')
                   /\ deq.pc = "idle" \/ DequeueSteps(deq') < DequeueSteps(deq)
                   /\ DProceeding(Cached) => deq.pc # "idle"
<1> SUFFICES Goal
  OBVIOUS
<1>1. CellsInv /\ deq \in DequeueLocals /\ DequeueLocal(deq)
  BY DEF WaitFreeInv, DequeueLocal
<1>2. /\ slot \in [Ranks -> Nat] /\ buf \in [Ranks -> Nat] /\ spsc \in [Ranks -> Seq(StampedElements)]
      /\ deq.rank \in Ranks /\ deq.next \in 0..Size /\ deq.next \in Nat /\ deq.try \in 1..2
      /\ deq.rank \in Nat /\ deq.rank < Size /\ deq.rank \in 0..Size
      /\ Size \in Nat \ {0} /\ Size \in 0..Size /\ 0 \in 0..Size
  <2>1. deq.rank \in Ranks /\ deq.next \in 0..Size /\ deq.try \in 1..2
    BY <1>1 DEF DequeueLocals
  <2>2. Size \in Nat \ {0} /\ deq.rank \in Nat /\ deq.rank < Size /\ deq.rank \in 0..Size
    BY <2>1, Parameters
  <2>3. deq.next \in Nat /\ Size \in 0..Size /\ 0 \in 0..Size
    BY <2>1, <2>2
  <2> QED BY <1>1, <2>1, <2>2, <2>3 DEF CellsInv
<1>3. DequeueLocal(DeqIdle) /\ DequeueSteps(DeqIdle) = 0 /\ (deq.pc # "idle" => DequeueSteps(deq) > 0)
  <2>1. DequeueSteps(deq) \in Nat /\ (DequeueSteps(deq) = 0 <=> deq.pc = "idle")
    BY <1>1, DequeueStepsAre
  <2> QED BY <2>1, IdleLocals
<1>4. CASE DequeueCall
  <2>1. deq.pc = "idle" /\ deq' = [DeqIdle EXCEPT !.pc = "scan"]
    BY <1>4 DEF DequeueCall
  <2>2. deq' \in DequeueLocals /\ deq'.pc = "scan"
    BY <2>1, DequeueLocalsClosed DEF DeqIdle
  <2>3. ~DProceeding(Cached)
    BY <2>1 DEF DProceeding, ReadMinimumRank, FirstScan, SecondScan, Select, SelectNone, Take, RefreshDequeue,
                DReadSlot, DReadFront, DSwapSlot, DSwapSlotFails
  <2> QED BY <1>1, <1>4, <2>1, <2>2, <2>3 DEF DequeueCall, CellsInv, enqVars, DequeueLocal
<1>5. ASSUME NEW limit \in 0..Size, ScanSlot(limit, Cached),
             deq.pc = "scan" \/ (deq.pc = "rescan" /\ limit = deq.rank)
      PROVE  Goal
  <2>1. PICK p \in Ranks : /\ p < limit /\ p >= deq.next /\ p + 1 \in 0..Size
                           /\ buf' = [buf EXCEPT ![p] = slot[p]] /\ deq' = [deq EXCEPT !.next = p + 1]
    BY <1>2, <1>5, ScanReads
  <2>2. deq' \in DequeueLocals /\ deq'.pc = deq.pc /\ deq'.next = p + 1 /\ deq'.rank = deq.rank
    BY <1>1, <2>1, DequeueLocalsClosed DEF DequeueLocals
  <2>3. p \in Nat
    BY Parameters
  <2>4. DequeueLocal(deq')
    <3>1. deq.pc = "rescan" => p + 1 <= deq.rank
      BY <1>2, <1>5, <2>1, <2>3
    <3> QED BY <2>2, <3>1 DEF DequeueLocal
  <2>5. DequeueSteps(deq') < DequeueSteps(deq)
    <3>1. deq.next < deq'.next /\ deq.next \in Nat /\ deq'.next \in Nat
      BY <1>2, <2>1, <2>2, <2>3
    <3>2. deq'.pc = deq.pc /\ deq'.rank = deq.rank /\ deq.pc \in {"scan", "rescan"}
      BY <1>5, <2>2
    <3>3. deq.rank \in Nat /\ Size \in Nat
      BY <1>2
    <3> QED BY <3>1, <3>2, <3>3 DEF DequeueSteps
  <2>6. buf' \in [Ranks -> Nat]
    BY <1>2, <2>1
  <2> QED BY <1>1, <1>5, <2>4, <2>5, <2>6 DEF ScanSlot, CellsInv, enqVars
<1>6. CASE Select(Cached)
  <2> DEFINE r == Lowest({p \in Visible : \A q \in Visible : buf[p] <= buf[q]})
  <2>1. r \in Ranks
    <3>1. \A p \in Ranks : buf[p] \in Nat
      BY <1>2
    <3> QED BY <1>6, <3>1, LeastOf DEF Select
  <2>2. deq' = [deq EXCEPT !.pc = "rescan", !.next = 0, !.rank = r] /\ deq.pc = "scan"
    BY <1>6 DEF Select
  <2> HIDE DEF r
  <2>3. deq' \in DequeueLocals /\ deq'.pc = "rescan" /\ deq'.next = 0 /\ deq'.rank = r
    BY <1>1, <2>1, <2>2, DequeueLocalsClosed DEF DequeueLocals
  <2>4. r \in Nat /\ r < Size
    BY <2>1, Parameters
  <2>5. DequeueLocal(deq') /\ DequeueSteps(deq') < DequeueSteps(deq)
    BY <1>2, <2>2, <2>3, <2>4 DEF DequeueLocal, DequeueSteps
  <2> QED BY <1>1, <1>6, <2>2, <2>5 DEF Select, CellsInv, enqVars
<1>7. CASE SelectNone(Cached)
  BY <1>1, <1>3, <1>7 DEF SelectNone, CellsInv, enqVars
<1>8. CASE Take(Cached)
  <2>1. PICK r : r = Reselected(deq.rank)
    OBVIOUS
  <2>2. r \in Ranks
    <3> DEFINE smaller == {p \in Visible : p < deq.rank /\ buf[p] < buf[deq.rank]}
    <3>1. smaller \subseteq Ranks
      BY DEF Visible
    <3>2. smaller # {} => Lowest(smaller) \in Ranks
      BY <3>1, LowestIn
    <3> QED BY <1>2, <2>1, <3>2 DEF Reselected
  <2>3. buf' \in [Ranks -> Nat]
    BY <1>2, <1>8, <2>1, <2>2, Parameters DEF Take
  <2>4. deq.pc = "rescan" /\ enq' = enq /\ UNCHANGED <<counter, slot, accepted>>
    BY <1>8 DEF Take, enqVars
  <2>5. CASE spsc[r] = <<>>
    BY <1>1, <1>3, <1>8, <2>1, <2>3, <2>4, <2>5 DEF Take, CellsInv
  <2>6. CASE spsc[r] # <<>>
    <3>1. deq' = [DeqIdle EXCEPT !.pc = "readSlot", !.rank = r] /\ spsc' = [spsc EXCEPT ![r] = Tail(@)]
      BY <1>8, <2>1, <2>6 DEF Take
    <3>2. spsc' \in [Ranks -> Seq(StampedElements)]
      BY <1>1, <1>2, <2>2, <2>6, <3>1, FrontStamp
    <3>3. deq' \in DequeueLocals /\ deq'.pc = "readSlot" /\ deq'.try = 1
      BY <2>2, <3>1, DequeueLocalsClosed DEF DeqIdle
    <3>4. DequeueLocal(deq') /\ DequeueSteps(deq') < DequeueSteps(deq)
      BY <1>1, <1>2, <2>4, <3>3 DEF DequeueLocal, DequeueSteps
    <3> QED BY <1>1, <2>3, <2>4, <3>2, <3>4 DEF CellsInv
  <2> QED BY <2>5, <2>6
<1>9. CASE DReadSlot
  <2>1. deq.pc = "readSlot" /\ deq' = [deq EXCEPT !.old = slot[deq.rank], !.pc = "front"] /\ slot[deq.rank] \in Nat
    BY <1>2, <1>9 DEF DReadSlot
  <2>2. deq' \in DequeueLocals /\ deq'.pc = "front" /\ deq'.try = deq.try
    BY <1>1, <2>1, DequeueLocalsClosed DEF DequeueLocals
  <2>3. DequeueLocal(deq') /\ DequeueSteps(deq') < DequeueSteps(deq)
    BY <1>2, <2>1, <2>2 DEF DequeueLocal, DequeueSteps
  <2> QED BY <1>1, <1>9, <2>1, <2>3 DEF DReadSlot, CellsInv, enqVars
<1>10. CASE DReadFront(Cached)
  <2>1. FrontTimestamp(deq.rank) \in Nat
    BY <1>1, <1>2, FrontStamp
  <2>2. deq.pc = "front" /\ deq' = [deq EXCEPT !.pc = "swap", !.new = FrontTimestamp(deq.rank)]
    BY <1>10 DEF DReadFront
  <2>3. deq' \in DequeueLocals /\ deq'.pc = "swap" /\ deq'.try = deq.try
    BY <1>1, <2>1, <2>2, DequeueLocalsClosed DEF DequeueLocals
  <2>4. DequeueLocal(deq') /\ DequeueSteps(deq') < DequeueSteps(deq)
    BY <1>2, <2>2, <2>3 DEF DequeueLocal, DequeueSteps
  <2>5. buf' \in [Ranks -> Nat]
    BY <1>2, <1>10, <2>1 DEF DReadFront
  <2> QED BY <1>1, <1>10, <2>2, <2>4, <2>5 DEF DReadFront, CellsInv, enqVars
<1>11. CASE DSwapSlot
  <2>1. deq.new \in Nat
    BY <1>1 DEF DequeueLocals
  <2>2. slot' \in [Ranks -> Nat]
    BY <1>2, <1>11, <2>1 DEF DSwapSlot
  <2> QED BY <1>1, <1>3, <1>11, <2>2 DEF DSwapSlot, CellsInv, enqVars
<1>12. CASE DSwapSlotFails
  <2>1. deq.pc = "swap" /\ CellsInv' /\ enq' = enq
    BY <1>1, <1>12 DEF DSwapSlotFails, CellsInv, enqVars
  <2>2. CASE deq.try # 1
    BY <1>3, <1>12, <2>1, <2>2 DEF DSwapSlotFails
  <2>3. CASE deq.try = 1
    <3>1. deq' = [deq EXCEPT !.try = 2, !.pc = "readSlot"]
      BY <1>12, <2>3 DEF DSwapSlotFails
    <3>2. deq' \in DequeueLocals /\ deq'.pc = "readSlot" /\ deq'.try = 2
      BY <1>1, <3>1, DequeueLocalsClosed DEF DequeueLocals
    <3>3. DequeueLocal(deq') /\ DequeueSteps(deq') < DequeueSteps(deq)
      BY <2>1, <2>3, <3>2 DEF DequeueLocal, DequeueSteps
    <3> QED BY <2>1, <3>3
  <2> QED BY <2>2, <2>3
<1>13. FirstScan(Cached) \/ SecondScan(Cached) => Goal
  BY <1>2, <1>5 DEF FirstScan, SecondScan
<1> HIDE DEF Goal
<1> QED
  BY <1>4, <1>6, <1>7, <1>8, <1>9, <1>10, <1>11, <1>12, <1>13 DEF DProceeding, ReadMinimumRank, RefreshDequeue

LEMMA WaitFreeInitially == Init => WaitFreeInv
<1> SUFFICES ASSUME Init PROVE WaitFreeInv
  OBVIOUS
<1>1. PICK copy \in {0, MAX} : Constructed(copy)
  BY DEF Init, Slot!Init, Node!Init, Hosted!Init, Unbounded!Init, Constructed, Slot!Constructed,
         Node!Constructed, Hosted!Constructed, Unbounded!Constructed, MAX, Slot!MAX, Node!MAX, Hosted!MAX,
         Unbounded!MAX, Ranks, Slot!Ranks, Node!Ranks, Hosted!Ranks, Unbounded!Ranks, EnqIdle, Slot!EnqIdle,
         Node!EnqIdle, Hosted!EnqIdle, Unbounded!EnqIdle, DeqIdle, Slot!DeqIdle, Node!DeqIdle,
         Hosted!DeqIdle, Unbounded!DeqIdle, Nothing, Slot!Nothing, Node!Nothing, Hosted!Nothing,
         Unbounded!Nothing
<1>2. copy \in Nat /\ MAX \in Nat
  BY Parameters
<1>3. CellsInv
  BY <1>1, <1>2 DEF Constructed, CellsInv
<1>4. EnqueueLocal(EnqIdle) /\ DequeueLocal(DeqIdle)
  BY IdleLocals
<1>5. enq \in [Ranks -> EnqueueLocals] /\ \A p \in Ranks : EnqueueLocal(enq[p])
  BY <1>1, <1>4 DEF Constructed, EnqueueLocal
<1> QED BY <1>1, <1>3, <1>4, <1>5 DEF WaitFreeInv, Constructed

(* Each step of a call leaves it fewer, and the other calls as many. *)
FewerSteps ==
  /\ \A p \in Ranks :
       /\ EnqueueSteps(enq'[p]) <= IF enq[p].pc = "idle" THEN MostEnqueueSteps ELSE EnqueueSteps(enq[p])
       /\ EnqueuerStep(p) => EnqueueSteps(enq'[p]) < EnqueueSteps(enq[p])
  /\ DequeueSteps(deq') <= IF deq.pc = "idle" THEN MostDequeueSteps ELSE DequeueSteps(deq)
  /\ DequeuerStep => DequeueSteps(deq') < DequeueSteps(deq)

LEMMA StepsAreTaken ==
  /\ \A p : EnqueuerStep(p) => Proceeding(p)
  /\ DequeuerStep => DProceeding(Cached)
<1>1. Cached <=> class \in {"SlotQueue", "SlotNodeQueue"}
  BY DEF Cached
<1> HIDE DEF Cached
<1>2. \A p : EnqueuerStep(p) => Proceeding(p)
  BY SlotStep, NodeStep, HostedStep, UnboundedStep DEF EnqueuerStep
<1>3. DequeuerStep => DProceeding(Cached)
  BY <1>1, SlotStep, HostedStep, CachedOrNot DEF DequeuerStep
<1> QED BY <1>2, <1>3

LEMMA WaitFreeStep ==
  ASSUME WaitFreeInv, Next
  PROVE  WaitFreeInv' /\ FewerSteps
<1>1. enq \in [Ranks -> EnqueueLocals] /\ (\A p \in Ranks : EnqueueLocal(enq[p])) /\ DequeueLocal(deq)
  BY DEF WaitFreeInv
<1>2. ASSUME NEW p \in Ranks, EnqueuerStep(p) PROVE EnqueueSteps(enq'[p]) < EnqueueSteps(enq[p])
  <2>1. Proceeding(p)
    BY <1>2, StepsAreTaken
  <2>2. PICK l : enq' = [enq EXCEPT ![p] = l] /\ EnqueueSteps(l) < EnqueueSteps(enq[p])
    BY <2>1, EnqueueGoesOn
  <2> QED BY <1>1, <2>2
<1>3. DequeuerStep => DequeueSteps(deq') < DequeueSteps(deq)
  BY StepsAreTaken, DequeueGoesOn
<1>4. \A p \in Ranks : EnqueueSteps(enq[p]) \in Nat
  BY <1>1, EnqueueStepsAre
<1>5. DequeueSteps(deq) \in Nat
  BY <1>1, DequeueStepsAre
<1>6. ASSUME NEW p \in Ranks, Begins(p) \/ Proceeding(p) PROVE WaitFreeInv' /\ FewerSteps
  <2>1. CellsInv' /\ deq' = deq
    BY <1>6, EnqueueGoesOn
  <2>2. PICK l : /\ enq' = [enq EXCEPT ![p] = l] /\ EnqueueLocal(l)
                 /\ enq[p].pc = "idle" \/ EnqueueSteps(l) < EnqueueSteps(enq[p])
    BY <1>6, EnqueueGoesOn
  <2>3. enq'[p] = l /\ \A q \in Ranks : q # p => enq'[q] = enq[q]
    BY <1>1, <2>2
  <2>4. enq' \in [Ranks -> EnqueueLocals] /\ \A q \in Ranks : EnqueueLocal(enq'[q])
    BY <1>1, <2>2, <2>3 DEF EnqueueLocal
  <2>5. EnqueueSteps(l) <= MostEnqueueSteps /\ EnqueueSteps(l) \in Nat
    BY <2>2, EnqueueStepsAre
  <2>6. \A q \in Ranks : EnqueueSteps(enq'[q]) <= IF enq[q].pc = "idle" THEN MostEnqueueSteps ELSE EnqueueSteps(enq[q])
    <3> SUFFICES ASSUME NEW q \in Ranks
                 PROVE  EnqueueSteps(enq'[q]) <= IF enq[q].pc = "idle" THEN MostEnqueueSteps ELSE EnqueueSteps(enq[q])
      OBVIOUS
    <3>1. EnqueueSteps(enq[q]) <= MostEnqueueSteps
      BY <1>1, EnqueueStepsAre
    <3> QED BY <1>4, <2>2, <2>3, <2>5, <3>1
  <2>7. DequeueSteps(deq') <= IF deq.pc = "idle" THEN MostDequeueSteps ELSE DequeueSteps(deq)
    <3>1. DequeueSteps(deq) <= MostDequeueSteps
      BY <1>1, DequeueStepsAre
    <3> QED BY <1>5, <2>1, <3>1
  <2>8. FewerSteps
    BY <1>2, <1>3, <2>6, <2>7 DEF FewerSteps
  <2>9. DequeueLocal(deq)'
    BY <1>1, <2>1 DEF DequeueLocal, DequeueLocals, Ranks
  <2>10. enq' \in [Ranks' -> EnqueueLocals'] /\ \A q \in Ranks' : EnqueueLocal(enq[q])'
    BY <2>4 DEF EnqueueLocal, EnqueueLocals, Ranks
  <2> QED BY <2>1, <2>8, <2>9, <2>10 DEF WaitFreeInv
<1>7. ASSUME DequeueCall \/ DProceeding(Cached) PROVE WaitFreeInv' /\ FewerSteps
  <2>1. CellsInv' /\ enq' = enq /\ DequeueLocal(deq') /\ (deq.pc = "idle" \/ DequeueSteps(deq') < DequeueSteps(deq))
    BY <1>7, DequeueGoesOn
  <2>2. DequeueSteps(deq') \in Nat /\ DequeueSteps(deq') <= MostDequeueSteps
    BY <2>1, DequeueStepsAre
  <2>3. DequeueSteps(deq') <= IF deq.pc = "idle" THEN MostDequeueSteps ELSE DequeueSteps(deq)
    BY <1>5, <2>1, <2>2
  <2>4. \A q \in Ranks : EnqueueSteps(enq'[q]) <= IF enq[q].pc = "idle" THEN MostEnqueueSteps ELSE EnqueueSteps(enq[q])
    <3> SUFFICES ASSUME NEW q \in Ranks
                 PROVE  EnqueueSteps(enq'[q]) <= IF enq[q].pc = "idle" THEN MostEnqueueSteps ELSE EnqueueSteps(enq[q])
      OBVIOUS
    <3>1. EnqueueSteps(enq[q]) <= MostEnqueueSteps
      BY <1>1, EnqueueStepsAre
    <3> QED BY <1>4, <2>1, <3>1
  <2>5. FewerSteps
    BY <1>2, <1>3, <2>3, <2>4 DEF FewerSteps
  <2>6. DequeueLocal(deq)'
    BY <2>1 DEF DequeueLocal, DequeueLocals, Ranks
  <2>7. enq' \in [Ranks' -> EnqueueLocals'] /\ \A q \in Ranks' : EnqueueLocal(enq[q])'
    BY <1>1, <2>1 DEF EnqueueLocal, EnqueueLocals, Ranks
  <2> QED BY <2>1, <2>5, <2>6, <2>7 DEF WaitFreeInv
<1> QED BY <1>6, <1>7, MovesAre DEF Moves

LEMMA WaitFreeStutter == WaitFreeInv /\ UNCHANGED <<vars, class>> => WaitFreeInv'
BY DEF WaitFreeInv, CellsInv, EnqueueLocal, DequeueLocal, EnqueueLocals, DequeueLocals, StampedElements, Ranks,
       vars, enqVars, deqVars

(* StepsBounded: every call is wait-free with a bound, also when timestamps wrap around. *)
THEOREM WaitFree == Spec => StepsBounded
<1> DEFINE Counted ==
             /\ \A p \in Ranks :
                  EnqueueSteps(enq[p]) \in Nat /\ (EnqueueSteps(enq[p]) = 0 <=> enq[p].pc = "idle")
             /\ DequeueSteps(deq) \in Nat /\ (DequeueSteps(deq) = 0 <=> deq.pc = "idle")
<1>1. WaitFreeInv => Counted
  BY EnqueueStepsAre, DequeueStepsAre DEF WaitFreeInv
<1>2. WaitFreeInv /\ [Next]_<<vars, class>> => WaitFreeInv' /\ [FewerSteps]_vars
  BY WaitFreeStep, WaitFreeStutter
<1> HIDE DEF Counted
<1>3. Spec => []Counted /\ [][FewerSteps]_vars
  BY <1>1, <1>2, WaitFreeInitially, PTL DEF Spec
<1> QED BY <1>3 DEF Counted, FewerSteps, StepsBounded

================================================================================
