---------------------------- MODULE LTQueuesProofs ----------------------------
(***************************************************************************)
(* Proofs about the classes of ltqueue/, for every number of ranks, every  *)
(* set of enqueuers, every capacity and every vector size.                 *)
(***************************************************************************)
EXTENDS LTQueues, SequenceTheorems, FiniteSetTheorems, WellFoundedInduction, TLAPS

--------------------------------------------------------------------------------
(* The tree: the nodes from a leaf up to the root. *)

Ranks == 0..Processes-1

(* A set of nodes that holds the parent of each of its nodes. *)
Rising(S) == \A i \in S : i # 0 => Parent(i) \in S

(* The nodes from node i up to the root. *)
Up(i) == {j \in Nodes : \A S \in SUBSET Nodes : Rising(S) /\ i \in S => j \in S}

(* Node i is on the way from the leaf of rank p to the root. *)
OnPath(p, i) == i \in Up(Leaf(p))

LEMMA ParentIs ==
  ASSUME NEW i \in Nodes, i # 0
  PROVE  /\ Parent(i) \in Nodes /\ Parent(i) < i /\ Parent(i) < Processes
         /\ i = Left(Parent(i)) \/ i = Right(Parent(i))
BY LTTreeAssumption DEF Nodes, Parent, Left, Right, LTTreeAssumption

LEMMA UpIs ==
  ASSUME NEW i \in Nodes
  PROVE  Up(i) \in SUBSET Nodes /\ i \in Up(i) /\ Rising(Up(i)) /\ \A j \in Up(i) : j <= i
<1>1. Up(i) \in SUBSET Nodes /\ i \in Up(i)
  BY DEF Up
<1>2. Rising(Up(i))
  BY ParentIs DEF Up, Rising
<1>3. \A j \in Up(i) : j <= i
  <2> DEFINE S == {j \in Nodes : j <= i}
  <2>1. Rising(S) /\ S \in SUBSET Nodes /\ i \in S
    <3>1. \A j \in Nodes : j \in Int
      BY LTTreeAssumption DEF Nodes, LTTreeAssumption
    <3>2. ASSUME NEW j \in S, j # 0 PROVE Parent(j) \in S
      BY <3>1, <3>2, ParentIs
    <3> QED BY <3>1, <3>2 DEF Rising
  <2> QED BY <2>1 DEF Up
<1> QED BY <1>1, <1>2, <1>3

LEMMA UpStep ==
  ASSUME NEW i \in Nodes, i # 0, NEW j \in Up(i), j # i
  PROVE  j \in Up(Parent(i))
<1> DEFINE S == {i} \cup Up(Parent(i))
<1>1. Parent(i) \in Nodes
  BY ParentIs
<1>2. S \in SUBSET Nodes /\ i \in S /\ Rising(S)
  BY <1>1, UpIs DEF Rising
<1> QED BY <1>2 DEF Up

LEMMA LeafIs ==
  ASSUME NEW p \in Ranks
  PROVE  /\ Leaf(p) \in Nodes /\ Leaf(p) # 0 /\ Leaf(p) >= Processes
         /\ OnPath(p, Leaf(p)) /\ \A i : OnPath(p, i) => i \in Nodes /\ i <= Leaf(p)
<1>1. Leaf(p) \in Nodes /\ Leaf(p) # 0 /\ Leaf(p) >= Processes
  BY LTTreeAssumption DEF Nodes, Leaf, Ranks, LTTreeAssumption
<1> QED BY <1>1, UpIs DEF OnPath

LEMMA PathUp ==
  ASSUME NEW p \in Ranks, NEW i \in Nodes, i # 0, OnPath(p, i)
  PROVE  OnPath(p, Parent(i))
BY LeafIs, UpIs DEF OnPath, Rising

(* The nodes on a path are the parents of one another. *)
LEMMA PathOrder ==
  ASSUME NEW p \in Ranks, NEW i, OnPath(p, i), NEW j, OnPath(p, j), i < j
  PROVE  i <= Parent(j)
<1> DEFINE S == {k \in Nodes : OnPath(p, k) /\ j <= k /\ j \in Up(k)} \cup Up(j)
<1>1. i \in Nodes /\ j \in Nodes /\ Leaf(p) \in Nodes /\ \A k \in Nodes : k \in Nat
  BY LeafIs, LTTreeAssumption DEF Nodes, LTTreeAssumption
<1>2. S \in SUBSET Nodes
  BY <1>1, UpIs
<1>3. Leaf(p) \in S
  BY <1>1, LeafIs DEF OnPath
<1>4. ASSUME NEW k \in S, k # 0 PROVE Parent(k) \in S
  <2>1. CASE k \in Up(j)
    BY <1>1, <1>4, <2>1, UpIs DEF Rising
  <2>2. CASE k \notin Up(j)
    <3>1. k \in Nodes /\ OnPath(p, k) /\ j <= k /\ j \in Up(k) /\ k # j
      BY <1>1, <2>2, UpIs
    <3>2. j \in Up(Parent(k)) /\ Parent(k) \in Nodes /\ OnPath(p, Parent(k))
      BY <1>4, <3>1, UpStep, ParentIs, PathUp
    <3> QED BY <1>1, <3>2, UpIs
  <2> QED BY <2>1, <2>2
<1>5. i \in S
  BY <1>2, <1>3, <1>4, <1>1 DEF OnPath, Up, Rising
<1>6. i \in Up(j) /\ i # j /\ j # 0
  BY <1>1, <1>5
<1>7. i \in Up(Parent(j)) /\ Parent(j) \in Nodes
  BY <1>1, <1>6, UpStep, ParentIs
<1> QED BY <1>7, UpIs

(* A node on a path is its leaf or has a child on it. *)
LEMMA PathChild ==
  ASSUME NEW p \in Ranks, NEW i, OnPath(p, i)
  PROVE  IF i < Processes THEN \E j \in {Left(i), Right(i)} \cap Nodes : OnPath(p, j)
         ELSE i = Leaf(p)
<1> DEFINE S == {k \in Nodes : OnPath(p, k)
      /\ (k = Leaf(p) \/ \E j \in Nodes : j # 0 /\ OnPath(p, j) /\ k = Parent(j))}
<1>1. i \in Nodes /\ Leaf(p) \in S /\ \A k \in Nodes : k \in Nat
  BY LeafIs, LTTreeAssumption DEF Nodes, LTTreeAssumption
<1>2. Rising(S) /\ S \in SUBSET Nodes
  BY PathUp, ParentIs DEF Rising
<1>3. i \in S
  BY <1>1, <1>2 DEF OnPath, Up
<1>4. CASE i = Leaf(p)
  BY <1>1, <1>4, LeafIs, LTTreeAssumption DEF LTTreeAssumption
<1>5. ASSUME NEW j \in Nodes, j # 0, OnPath(p, j), i = Parent(j)
      PROVE  i < Processes /\ j \in {Left(i), Right(i)}
  BY <1>5, ParentIs
<1> QED BY <1>1, <1>3, <1>4, <1>5, LTTreeAssumption DEF LTTreeAssumption

LEMMA PathRoot ==
  ASSUME NEW p \in Ranks
  PROVE  OnPath(p, 0)
<1> DEFINE S == {i \in Nat : OnPath(p, i)}
<1>1. \A k \in Nodes : k \in Nat
  BY LTTreeAssumption DEF Nodes, LTTreeAssumption
<1>2. Leaf(p) \in S
  BY <1>1, LeafIs
<1>3. PICK m \in S : \A k \in S : ~ <<k, m>> \in OpToRel(<, Nat)
  BY <1>2, WFMin, NatLessThanWellFounded
<1>4. \A k \in S : ~ (k < m)
  BY <1>3 DEF OpToRel
<1>5. m # 0 => Parent(m) \in S /\ Parent(m) < m
  BY <1>1, LeafIs, PathUp, ParentIs
<1> QED BY <1>4, <1>5

(* The recursive definition of RanksBelow has a solution. *)
LEMMA RanksBelowIs ==
  ASSUME NEW i \in Nodes
  PROVE  RanksBelow[i] = IF i >= Processes THEN {i - Processes}
                         ELSE RanksBelow[Left(i)] \cup
                                (IF Right(i) \in Nodes THEN RanksBelow[Right(i)] ELSE {})
<1> DEFINE Is(f) == f = [k \in Nodes |->
             IF k >= Processes THEN {k - Processes}
             ELSE f[Left(k)] \cup (IF Right(k) \in Nodes THEN f[Right(k)] ELSE {})]
           g == [k \in Nodes |-> {p \in Ranks : OnPath(p, k)}]
<1>1. ASSUME NEW k \in Nodes
      PROVE g[k] = IF k >= Processes THEN {k - Processes}
             ELSE g[Left(k)] \cup (IF Right(k) \in Nodes THEN g[Right(k)] ELSE {})
  <2>1. CASE k >= Processes
    <3>1. k - Processes \in Ranks /\ Leaf(k - Processes) = k
      BY <2>1, LTTreeAssumption DEF Nodes, Leaf, Ranks, LTTreeAssumption
    <3>2. \A p \in Ranks : Leaf(p) = k => p = k - Processes
      BY LTTreeAssumption DEF Nodes, Leaf, Ranks, LTTreeAssumption
    <3>3. \A p \in Ranks : OnPath(p, k) <=> p = k - Processes
      <4>1. ~ (k < Processes)
        BY <2>1, LTTreeAssumption DEF Nodes, LTTreeAssumption
      <4> QED BY <3>1, <3>2, <4>1, LeafIs, PathChild
    <3> QED BY <2>1, <3>1, <3>3
  <2>2. CASE k < Processes
    <3>1. Left(k) \in Nodes /\ Left(k) # 0 /\ Right(k) # 0 /\ Parent(Left(k)) = k
            /\ Parent(Right(k)) = k
      BY <2>2, LTTreeAssumption DEF Nodes, Left, Right, Parent, LTTreeAssumption
    <3>2. \A p \in Ranks :
            OnPath(p, k) <=> OnPath(p, Left(k)) \/ (Right(k) \in Nodes /\ OnPath(p, Right(k)))
      BY <2>2, <3>1, PathChild, PathUp
    <3>3. ~ (k >= Processes)
      BY <2>2, LTTreeAssumption DEF Nodes, LTTreeAssumption
    <3> QED BY <3>1, <3>2, <3>3
  <2> QED BY <2>1, <2>2, LTTreeAssumption DEF Nodes, LTTreeAssumption
<1>2. Is(g)
  BY <1>1
<1>3. Is(CHOOSE f : Is(f))
  <2> HIDE DEF Is
  <2> QED BY <1>2
<1>4. RanksBelow = CHOOSE f : Is(f)
  BY DEF RanksBelow
<1> HIDE DEF g
<1>5. Is(RanksBelow)
  BY <1>3, <1>4
<1> QED BY <1>5

(* A node is above the leaf of a rank if it is on the path of the rank. *)
LEMMA PathBelow ==
  ASSUME NEW p \in Ranks, NEW i, OnPath(p, i)
  PROVE  p \in RanksBelow[i]
<1> DEFINE S == {k \in Nodes : p \in RanksBelow[k]}
<1>1. Leaf(p) \in S
  <2>1. Leaf(p) - Processes = p
    BY LTTreeAssumption DEF Leaf, Ranks, LTTreeAssumption
  <2> QED BY <2>1, LeafIs, RanksBelowIs
<1>2. ASSUME NEW k \in S, k # 0 PROVE Parent(k) \in S
  <2>1. Parent(k) \in Nodes /\ Parent(k) < Processes /\ (k = Left(Parent(k)) \/ k = Right(Parent(k)))
    BY <1>2, ParentIs
  <2>2. ~ (Parent(k) >= Processes)
    BY <2>1, LTTreeAssumption DEF Nodes, LTTreeAssumption
  <2> QED BY <1>2, <2>1, <2>2, RanksBelowIs
<1> QED BY <1>1, <1>2 DEF OnPath, Up, Rising

--------------------------------------------------------------------------------
(* The steps of the classes are those of LTTree. *)

Refresh(c) == RefreshTimestamp(c) \/ RefreshSelfNode(c) \/ RefreshNode(c)

Enqueueing(p) ==
  \/ \E n \in 1..MaxBatch : EnqueueCall(p, n) \/ Node!EnqueueCounts(p, n)
  \/ Node!TakeTimestamp(p) \/ Put(p, "check") \/ Put(p, "front") \/ EnqueueFull(p) \/ CheckFront(p)
  \/ Refresh(p)

(* A step of an enqueue that has been called. *)
Proceeding(p) ==
  \/ Node!TakeTimestamp(p) \/ Put(p, "check") \/ Put(p, "front") \/ EnqueueFull(p) \/ CheckFront(p)
  \/ Refresh(p)

Dequeueing ==
  DequeueCall \/ ReadRootDummy \/ ReadRoot \/ TakeNothing \/ Take \/ Refresh(Dequeuer)

LEMMA LTStep ==
  /\ LT!Next => (\E p \in Enqueuers : Enqueueing(p)) \/ Dequeueing
  /\ \A p \in Enqueuers : LT!EnqueuerStep(p) => Proceeding(p)
  /\ LT!DequeuerStep => Dequeueing
<1> DEFINE Ends == \A c, again, done : LT!EndAttempt(c, again, done) => EndAttempt(c, again, done)
           Starts == \A c, pc, index : LT!Start(c, pc, index) = Start(c, pc, index)
           Accepts == \A c : LT!Accept(c) = Accept(c)
           Writes == \A c : LT!Written(c) = Written(c)
<1>1. Ends
  <2>1. \A locals : LT!Cell(locals) = Cell(locals)
    BY DEF LT!Cell, Cell
  <2> QED BY ONLY <2>1 DEF LT!EndAttempt, EndAttempt, LT!Callers, Callers
<1>2. Starts /\ Accepts /\ Writes
  BY DEF Start, Idle, MAX, DUMMY, Accept, Written, LT!Start, LT!Idle, LT!MAX, LT!DUMMY,
    LT!Accept, LT!Written
<1> HIDE DEF Ends, Starts, Accepts, Writes
<1>3. \A c : LT!RefreshTimestamp(c) => Refresh(c)
  <2>1. \A c : LT!SwapStamp(c) => SwapStamp(c)
    BY ONLY <1>1, <1>2 DEF Ends, Starts, LT!SwapStamp, SwapStamp, LT!Leaf, Leaf
  <2>2. \A c : LT!ReadFront(c) \/ LT!ReadStamp(c) => ReadFront(c) \/ ReadStamp(c)
    BY DEF ReadFront, ReadStamp, Goto, FrontTimestamp, MAX, LT!ReadFront, LT!ReadStamp, LT!Goto,
      LT!FrontTimestamp, LT!MAX
  <2> QED BY ONLY <2>1, <2>2 DEF LT!RefreshTimestamp, RefreshTimestamp, Refresh
<1>4. \A c : LT!RefreshSelfNode(c) => Refresh(c)
  <2>1. \A c : LT!SwapLeaf(c) => SwapLeaf(c)
    BY ONLY <1>1, <1>2 DEF Ends, Starts, Writes, LT!SwapLeaf, SwapLeaf, LT!Parent, Parent
  <2>2. \A c : LT!ReadLeafStamp(c) \/ LT!ReadLeaf(c) => ReadLeafStamp(c) \/ ReadLeaf(c)
    BY DEF ReadLeafStamp, ReadLeaf, Goto, DUMMY, MAX, LT!ReadLeafStamp, LT!ReadLeaf, LT!Goto,
      LT!DUMMY, LT!MAX
  <2> QED BY ONLY <2>1, <2>2 DEF LT!RefreshSelfNode, RefreshSelfNode, Refresh
<1>5. \A c : LT!RefreshNode(c) => Refresh(c)
  <2>1. \A c : LT!SwapNode(c) => SwapNode(c)
    BY ONLY <1>1, <1>2 DEF Ends, Starts, Accepts, Writes, LT!SwapNode, SwapNode, LT!Parent, Parent,
         LT!Idle, Idle, LT!MAX, MAX, LT!DUMMY, DUMMY
  <2>2. \A c : LT!ReadNode(c) => ReadNode(c)
    BY DEF LT!ReadNode, ReadNode, LT!Goto, Goto, LT!Left, Left
  <2>3. \A c : LT!ReadChild(c) => ReadChild(c)
    BY DEF ReadChild, Goto, Onward, Left, Right, Nodes, DUMMY, LT!ReadChild, LT!Goto, LT!Onward,
      LT!Left, LT!Right, LT!Nodes, LT!DUMMY
  <2>4. \A c : LT!ReadChildStamp(c) => ReadChildStamp(c)
    BY DEF ReadChildStamp, Goto, Onward, Left, Right, Nodes, DUMMY, LT!ReadChildStamp, LT!Goto,
      LT!Onward, LT!Left, LT!Right, LT!Nodes, LT!DUMMY
  <2> QED BY ONLY <2>1, <2>2, <2>3, <2>4 DEF LT!RefreshNode, RefreshNode, Refresh
<1>6. LT!Take => Take
  <2>1. LT!Start(Dequeuer, "front", 0) = Start(Dequeuer, "front", 0)
    BY <1>2 DEF Starts
  <2> QED
    BY <2>1 DEF Take, Goto, RecordGone, inQueue, Refreshing, LT!Take, LT!Goto, LT!RecordGone,
      LT!inQueue, LT!Refreshing
<1>7. LT!DequeueCall \/ LT!ReadRootDummy \/ LT!ReadRoot \/ LT!TakeNothing
        => DequeueCall \/ ReadRootDummy \/ ReadRoot \/ TakeNothing
  BY DEF DequeueCall, ReadRootDummy, ReadRoot, TakeNothing, ReturnFalse, Goto, Idle, MAX, DUMMY,
    Nothing, returned, Batch, inQueue, LT!DequeueCall, LT!ReadRootDummy, LT!ReadRoot,
    LT!TakeNothing, LT!ReturnFalse, LT!Goto, LT!Idle, LT!MAX, LT!DUMMY, LT!Nothing, LT!returned,
    LT!Batch, LT!inQueue
<1>8. LT!DPropagate \/ LT!DequeuerStep \/ LT!DequeueCall => Dequeueing
  BY ONLY <1>3, <1>4, <1>5, <1>6, <1>7 DEF LT!DPropagate, LT!DRefreshTimestamp, LT!DRefreshSelfNode,
       LT!DRefresh, LT!DequeuerStep, Dequeueing
<1>9. \A p : LT!EPropagate(p) => Refresh(p)
  BY ONLY <1>3, <1>4, <1>5 DEF LT!EPropagate, LT!ERefreshTimestamp, LT!ERefreshSelfNode, LT!ERefresh
<1>10. \A p, pc : LT!Put(p, pc) => Put(p, pc)
  BY DEF Put, Goto, Serves, Refreshing, LT!Put, LT!Goto, LT!Serves,
    LT!Refreshing
<1>11. \A p : LT!EnqueueFull(p) => EnqueueFull(p)
  BY DEF EnqueueFull, Fits, Goto, Idle, MAX, DUMMY, RecordGone, Batch, inQueue, LT!EnqueueFull,
    LT!Fits, LT!Goto, LT!Idle, LT!MAX, LT!DUMMY, LT!RecordGone, LT!Batch, LT!inQueue
<1>12. \A p : LT!CheckFront(p) => CheckFront(p)
  <2>1. LT!Idle = Idle /\ \A p : LT!FrontTimestamp(p) = FrontTimestamp(p)
    BY DEF Idle, MAX, DUMMY, FrontTimestamp, LT!Idle, LT!MAX, LT!DUMMY, LT!FrontTimestamp
  <2> QED BY <1>2, <2>1 DEF Accepts, CheckFront, LT!CheckFront, Serves, LT!Serves, Refreshing,
       LT!Refreshing, Goto, LT!Goto
<1>13. \A p, n : LT!EnqueueCall(p, n) => EnqueueCall(p, n)
  BY DEF EnqueueCall, GetAndIncrement, Goto, Idle, MAX, DUMMY, RecordCall, Batch, inQueue,
    returned, LT!EnqueueCall, LT!GetAndIncrement, LT!Goto, LT!Idle, LT!MAX, LT!DUMMY,
    LT!RecordCall, LT!Batch, LT!inQueue, LT!returned
<1>15. \A p \in Enqueuers : LT!EnqueuerStep(p) => Proceeding(p)
  BY ONLY <1>9, <1>10, <1>11, <1>12
     DEF LT!EnqueuerStep, LT!EnqueuePut, Proceeding
<1> QED BY ONLY <1>8, <1>13, <1>15
           DEF LT!Next, Enqueueing, Proceeding

LEMMA UnboundedStep ==
  /\ Unbounded!Next => (\E p \in Enqueuers : Enqueueing(p)) \/ Dequeueing
  /\ \A p \in Enqueuers : Unbounded!EnqueuerStep(p) => Proceeding(p)
<1> DEFINE Ends == \A c, again, done : Unbounded!EndAttempt(c, again, done) =>
      EndAttempt(c, again, done)
           Starts == \A c, pc, index : Unbounded!Start(c, pc, index) = Start(c, pc, index)
           Accepts == \A c : Unbounded!Accept(c) = Accept(c)
           Writes == \A c : Unbounded!Written(c) = Written(c)
<1>1. Ends
  <2>1. \A locals : Unbounded!Cell(locals) = Cell(locals)
    BY DEF Unbounded!Cell, Cell
  <2> QED BY ONLY <2>1 DEF Unbounded!EndAttempt, EndAttempt, Unbounded!Callers, Callers
<1>2. Starts /\ Accepts /\ Writes
  BY DEF Start, Idle, MAX, DUMMY, Accept, Written, Unbounded!Start, Unbounded!Idle,
    Unbounded!MAX, Unbounded!DUMMY, Unbounded!Accept, Unbounded!Written
<1> HIDE DEF Ends, Starts, Accepts, Writes
<1>3. \A c : Unbounded!RefreshTimestamp(c) => Refresh(c)
  <2>1. \A c : Unbounded!SwapStamp(c) => SwapStamp(c)
    BY ONLY <1>1, <1>2 DEF Ends, Starts, Unbounded!SwapStamp, SwapStamp, Unbounded!Leaf, Leaf
  <2>2. \A c : Unbounded!ReadFront(c) \/ Unbounded!ReadStamp(c) => ReadFront(c) \/ ReadStamp(c)
    BY DEF ReadFront, ReadStamp, Goto, FrontTimestamp, MAX, Unbounded!ReadFront,
      Unbounded!ReadStamp, Unbounded!Goto, Unbounded!FrontTimestamp, Unbounded!MAX
  <2> QED BY ONLY <2>1, <2>2 DEF Unbounded!RefreshTimestamp, RefreshTimestamp, Refresh
<1>4. \A c : Unbounded!RefreshSelfNode(c) => Refresh(c)
  <2>1. \A c : Unbounded!SwapLeaf(c) => SwapLeaf(c)
    BY ONLY <1>1, <1>2 DEF Ends, Starts, Writes, Unbounded!SwapLeaf, SwapLeaf, Unbounded!Parent, Parent
  <2>2. \A c : Unbounded!ReadLeafStamp(c) \/ Unbounded!ReadLeaf(c) => ReadLeafStamp(c) \/ ReadLeaf(c)
    BY DEF ReadLeafStamp, ReadLeaf, Goto, DUMMY, MAX, Unbounded!ReadLeafStamp,
      Unbounded!ReadLeaf, Unbounded!Goto, Unbounded!DUMMY, Unbounded!MAX
  <2> QED BY ONLY <2>1, <2>2 DEF Unbounded!RefreshSelfNode, RefreshSelfNode, Refresh
<1>5. \A c : Unbounded!RefreshNode(c) => Refresh(c)
  <2>1. \A c : Unbounded!SwapNode(c) => SwapNode(c)
    BY ONLY <1>1, <1>2 DEF Ends, Starts, Accepts, Writes, Unbounded!SwapNode, SwapNode,
         Unbounded!Parent, Parent,
         Unbounded!Idle, Idle, Unbounded!MAX, MAX, Unbounded!DUMMY, DUMMY
  <2>2. \A c : Unbounded!ReadNode(c) => ReadNode(c)
    BY DEF Unbounded!ReadNode, ReadNode, Unbounded!Goto, Goto, Unbounded!Left, Left
  <2>3. \A c : Unbounded!ReadChild(c) => ReadChild(c)
    BY DEF ReadChild, Goto, Onward, Left, Right, Nodes, DUMMY, Unbounded!ReadChild,
      Unbounded!Goto, Unbounded!Onward, Unbounded!Left, Unbounded!Right, Unbounded!Nodes,
      Unbounded!DUMMY
  <2>4. \A c : Unbounded!ReadChildStamp(c) => ReadChildStamp(c)
    BY DEF ReadChildStamp, Goto, Onward, Left, Right, Nodes, DUMMY, Unbounded!ReadChildStamp,
      Unbounded!Goto, Unbounded!Onward, Unbounded!Left, Unbounded!Right, Unbounded!Nodes,
      Unbounded!DUMMY
  <2> QED BY ONLY <2>1, <2>2, <2>3, <2>4 DEF Unbounded!RefreshNode, RefreshNode, Refresh
<1>6. Unbounded!Take => Take
  <2>1. Unbounded!Start(Dequeuer, "front", 0) = Start(Dequeuer, "front", 0)
    BY <1>2 DEF Starts
  <2> QED
    BY <2>1 DEF Take, Goto, RecordGone, inQueue, Refreshing, Unbounded!Take, Unbounded!Goto,
      Unbounded!RecordGone, Unbounded!inQueue, Unbounded!Refreshing
<1>7. Unbounded!DequeueCall \/ Unbounded!ReadRootDummy \/ Unbounded!ReadRoot \/ Unbounded!TakeNothing
        => DequeueCall \/ ReadRootDummy \/ ReadRoot \/ TakeNothing
  BY DEF DequeueCall, ReadRootDummy, ReadRoot, TakeNothing, ReturnFalse, Goto, Idle, MAX, DUMMY,
    Nothing, returned, Batch, inQueue, Unbounded!DequeueCall, Unbounded!ReadRootDummy,
    Unbounded!ReadRoot, Unbounded!TakeNothing, Unbounded!ReturnFalse, Unbounded!Goto,
    Unbounded!Idle, Unbounded!MAX, Unbounded!DUMMY, Unbounded!Nothing, Unbounded!returned,
    Unbounded!Batch, Unbounded!inQueue
<1>8. Unbounded!DPropagate \/ Unbounded!DequeuerStep \/ Unbounded!DequeueCall => Dequeueing
  BY ONLY <1>3, <1>4, <1>5, <1>6, <1>7 DEF Unbounded!DPropagate, Unbounded!DRefreshTimestamp,
       Unbounded!DRefreshSelfNode,
       Unbounded!DRefresh, Unbounded!DequeuerStep, Dequeueing
<1>9. \A p : Unbounded!EPropagate(p) => Refresh(p)
  BY ONLY <1>3, <1>4, <1>5 DEF Unbounded!EPropagate, Unbounded!ERefreshTimestamp,
       Unbounded!ERefreshSelfNode, Unbounded!ERefresh
<1>10. \A p, pc : Unbounded!Put(p, pc) => Put(p, pc)
  BY DEF Put, Goto, Serves, Refreshing, Unbounded!Put, Unbounded!Goto, Unbounded!Serves,
    Unbounded!Refreshing
<1>12. \A p : Unbounded!CheckFront(p) => CheckFront(p)
  <2>1. Unbounded!Idle = Idle /\ \A p : Unbounded!FrontTimestamp(p) = FrontTimestamp(p)
    BY DEF Idle, MAX, DUMMY, FrontTimestamp, Unbounded!Idle, Unbounded!MAX, Unbounded!DUMMY,
      Unbounded!FrontTimestamp
  <2> QED BY <1>2, <2>1 DEF Accepts, CheckFront, Unbounded!CheckFront, Serves, Unbounded!Serves, Refreshing,
       Unbounded!Refreshing, Goto, Unbounded!Goto
<1>13. \A p, n : Unbounded!EnqueueCall(p, n) => EnqueueCall(p, n)
  BY DEF EnqueueCall, GetAndIncrement, Goto, Idle, MAX, DUMMY, RecordCall, Batch, inQueue,
    returned, Unbounded!EnqueueCall, Unbounded!GetAndIncrement, Unbounded!Goto, Unbounded!Idle,
    Unbounded!MAX, Unbounded!DUMMY, Unbounded!RecordCall, Unbounded!Batch, Unbounded!inQueue,
    Unbounded!returned
<1>14. 1 \in 1..MaxBatch
  BY LTTreeAssumption DEF LTTreeAssumption
<1>15. \A p \in Enqueuers : Unbounded!EnqueuerStep(p) => Proceeding(p)
  BY ONLY <1>9, <1>10, <1>12
     DEF Unbounded!EnqueuerStep, Proceeding
<1> QED BY ONLY <1>8, <1>13, <1>14, <1>15
           DEF Unbounded!Next, Enqueueing, Proceeding

LEMMA NodeStep ==
  /\ Node!Next => (\E p \in Enqueuers : Enqueueing(p)) \/ Dequeueing
  /\ \A p \in Enqueuers : Node!EnqueuerStep(p) => Proceeding(p)
<1> DEFINE Ends == \A c, again, done : Node!EndAttempt(c, again, done) => EndAttempt(c, again, done)
           Starts == \A c, pc, index : Node!Start(c, pc, index) = Start(c, pc, index)
           Accepts == \A c : Node!Accept(c) = Accept(c)
           Writes == \A c : Node!Written(c) = Written(c)
<1>1. Ends
  <2>1. \A locals : Node!Cell(locals) = Cell(locals)
    BY DEF Node!Cell, Cell
  <2> QED BY ONLY <2>1 DEF Node!EndAttempt, EndAttempt, Node!Callers, Callers
<1>2. Starts /\ Accepts /\ Writes
  BY DEF Start, Idle, MAX, DUMMY, Accept, Written, Node!Start, Node!Idle, Node!MAX, Node!DUMMY,
    Node!Accept, Node!Written
<1> HIDE DEF Ends, Starts, Accepts, Writes
<1>3. \A c : Node!RefreshTimestamp(c) => Refresh(c)
  <2>1. \A c : Node!SwapStamp(c) => SwapStamp(c)
    BY ONLY <1>1, <1>2 DEF Ends, Starts, Node!SwapStamp, SwapStamp, Node!Leaf, Leaf
  <2>2. \A c : Node!ReadFront(c) \/ Node!ReadStamp(c) => ReadFront(c) \/ ReadStamp(c)
    BY DEF ReadFront, ReadStamp, Goto, FrontTimestamp, MAX, Node!ReadFront, Node!ReadStamp,
      Node!Goto, Node!FrontTimestamp, Node!MAX
  <2> QED BY ONLY <2>1, <2>2 DEF Node!RefreshTimestamp, RefreshTimestamp, Refresh
<1>4. \A c : Node!RefreshSelfNode(c) => Refresh(c)
  <2>1. \A c : Node!SwapLeaf(c) => SwapLeaf(c)
    BY ONLY <1>1, <1>2 DEF Ends, Starts, Writes, Node!SwapLeaf, SwapLeaf, Node!Parent, Parent
  <2>2. \A c : Node!ReadLeafStamp(c) \/ Node!ReadLeaf(c) => ReadLeafStamp(c) \/ ReadLeaf(c)
    BY DEF ReadLeafStamp, ReadLeaf, Goto, DUMMY, MAX, Node!ReadLeafStamp, Node!ReadLeaf,
      Node!Goto, Node!DUMMY, Node!MAX
  <2> QED BY ONLY <2>1, <2>2 DEF Node!RefreshSelfNode, RefreshSelfNode, Refresh
<1>5. \A c : Node!RefreshNode(c) => Refresh(c)
  <2>1. \A c : Node!SwapNode(c) => SwapNode(c)
    BY ONLY <1>1, <1>2 DEF Ends, Starts, Accepts, Writes, Node!SwapNode, SwapNode, Node!Parent, Parent,
         Node!Idle, Idle, Node!MAX, MAX, Node!DUMMY, DUMMY
  <2>2. \A c : Node!ReadNode(c) => ReadNode(c)
    BY DEF Node!ReadNode, ReadNode, Node!Goto, Goto, Node!Left, Left
  <2>3. \A c : Node!ReadChild(c) => ReadChild(c)
    BY DEF ReadChild, Goto, Onward, Left, Right, Nodes, DUMMY, Node!ReadChild, Node!Goto,
      Node!Onward, Node!Left, Node!Right, Node!Nodes, Node!DUMMY
  <2>4. \A c : Node!ReadChildStamp(c) => ReadChildStamp(c)
    BY DEF ReadChildStamp, Goto, Onward, Left, Right, Nodes, DUMMY, Node!ReadChildStamp,
      Node!Goto, Node!Onward, Node!Left, Node!Right, Node!Nodes, Node!DUMMY
  <2> QED BY ONLY <2>1, <2>2, <2>3, <2>4 DEF Node!RefreshNode, RefreshNode, Refresh
<1>6. Node!Take => Take
  <2>1. Node!Start(Dequeuer, "front", 0) = Start(Dequeuer, "front", 0)
    BY <1>2 DEF Starts
  <2> QED
    BY <2>1 DEF Take, Goto, RecordGone, inQueue, Refreshing, Node!Take, Node!Goto,
      Node!RecordGone, Node!inQueue, Node!Refreshing
<1>7. Node!DequeueCall \/ Node!ReadRootDummy \/ Node!ReadRoot \/ Node!TakeNothing
        => DequeueCall \/ ReadRootDummy \/ ReadRoot \/ TakeNothing
  BY DEF DequeueCall, ReadRootDummy, ReadRoot, TakeNothing, ReturnFalse, Goto, Idle, MAX, DUMMY,
    Nothing, returned, Batch, inQueue, Node!DequeueCall, Node!ReadRootDummy, Node!ReadRoot,
    Node!TakeNothing, Node!ReturnFalse, Node!Goto, Node!Idle, Node!MAX, Node!DUMMY,
    Node!Nothing, Node!returned, Node!Batch, Node!inQueue
<1>8. Node!DPropagate \/ Node!DequeuerStep \/ Node!DequeueCall => Dequeueing
  BY ONLY <1>3, <1>4, <1>5, <1>6, <1>7 DEF Node!DPropagate, Node!DRefreshTimestamp,
       Node!DRefreshSelfNode,
       Node!DRefresh, Node!DequeuerStep, Dequeueing
<1>9. \A p : Node!EPropagate(p) => Refresh(p)
  BY ONLY <1>3, <1>4, <1>5 DEF Node!EPropagate, Node!ERefreshTimestamp, Node!ERefreshSelfNode,
       Node!ERefresh
<1>10. \A p, pc : Node!Put(p, pc) => Put(p, pc)
  BY DEF Put, Goto, Serves, Refreshing, Node!Put, Node!Goto, Node!Serves,
    Node!Refreshing
<1>11. \A p : Node!EnqueueFull(p) => EnqueueFull(p)
  BY DEF EnqueueFull, Fits, Goto, Idle, MAX, DUMMY, RecordGone, Batch, inQueue,
    Node!EnqueueFull, Node!Fits, Node!Goto, Node!Idle, Node!MAX, Node!DUMMY, Node!RecordGone,
    Node!Batch, Node!inQueue
<1>12. \A p : Node!CheckFront(p) => CheckFront(p)
  <2>1. Node!Idle = Idle /\ \A p : Node!FrontTimestamp(p) = FrontTimestamp(p)
    BY DEF Idle, MAX, DUMMY, FrontTimestamp, Node!Idle, Node!MAX, Node!DUMMY,
      Node!FrontTimestamp
  <2> QED BY <1>2, <2>1 DEF Accepts, CheckFront, Node!CheckFront, Serves, Node!Serves, Refreshing,
       Node!Refreshing, Goto, Node!Goto
<1>15. \A p \in Enqueuers : Node!EnqueuerStep(p) => Proceeding(p)
  BY ONLY <1>9, <1>10, <1>11, <1>12
     DEF Node!EnqueuerStep, Node!EnqueuePut, Proceeding
<1> QED BY ONLY <1>8, <1>15
           DEF Node!Next, Enqueueing, Proceeding

LEMMA NaiveStep ==
  /\ Naive!Next => (\E p \in Enqueuers : Enqueueing(p)) \/ Dequeueing
  /\ \A p \in Enqueuers : Naive!EnqueuerStep(p) => Proceeding(p)
<1> DEFINE Ends == \A c, again, done : Naive!EndAttempt(c, again, done) => EndAttempt(c, again, done)
           Starts == \A c, pc, index : Naive!Start(c, pc, index) = Start(c, pc, index)
           Accepts == \A c : Naive!Accept(c) = Accept(c)
           Writes == \A c : Naive!Written(c) = Written(c)
<1>1. Ends
  <2>1. \A locals : Naive!Cell(locals) = Cell(locals)
    BY DEF Naive!Cell, Cell
  <2> QED BY ONLY <2>1 DEF Naive!EndAttempt, EndAttempt, Naive!Callers, Callers
<1>2. Starts /\ Accepts /\ Writes
  BY DEF Start, Idle, MAX, DUMMY, Accept, Written, Naive!Start, Naive!Idle, Naive!MAX,
    Naive!DUMMY, Naive!Accept, Naive!Written
<1> HIDE DEF Ends, Starts, Accepts, Writes
<1>3. \A c : Naive!RefreshTimestamp(c) => Refresh(c)
  <2>1. \A c : Naive!SwapStamp(c) => SwapStamp(c)
    BY ONLY <1>1, <1>2 DEF Ends, Starts, Naive!SwapStamp, SwapStamp, Naive!Leaf, Leaf
  <2>2. \A c : Naive!ReadFront(c) \/ Naive!ReadStamp(c) => ReadFront(c) \/ ReadStamp(c)
    BY DEF ReadFront, ReadStamp, Goto, FrontTimestamp, MAX, Naive!ReadFront, Naive!ReadStamp,
      Naive!Goto, Naive!FrontTimestamp, Naive!MAX
  <2> QED BY ONLY <2>1, <2>2 DEF Naive!RefreshTimestamp, RefreshTimestamp, Refresh
<1>4. \A c : Naive!RefreshSelfNode(c) => Refresh(c)
  <2>1. \A c : Naive!SwapLeaf(c) => SwapLeaf(c)
    BY ONLY <1>1, <1>2 DEF Ends, Starts, Writes, Naive!SwapLeaf, SwapLeaf, Naive!Parent, Parent
  <2>2. \A c : Naive!ReadLeafStamp(c) \/ Naive!ReadLeaf(c) => ReadLeafStamp(c) \/ ReadLeaf(c)
    BY DEF ReadLeafStamp, ReadLeaf, Goto, DUMMY, MAX, Naive!ReadLeafStamp, Naive!ReadLeaf,
      Naive!Goto, Naive!DUMMY, Naive!MAX
  <2> QED BY ONLY <2>1, <2>2 DEF Naive!RefreshSelfNode, RefreshSelfNode, Refresh
<1>5. \A c : Naive!RefreshNode(c) => Refresh(c)
  <2>1. \A c : Naive!SwapNode(c) => SwapNode(c)
    BY ONLY <1>1, <1>2 DEF Ends, Starts, Accepts, Writes, Naive!SwapNode, SwapNode, Naive!Parent,
         Parent,
         Naive!Idle, Idle, Naive!MAX, MAX, Naive!DUMMY, DUMMY
  <2>2. \A c : Naive!ReadNode(c) => ReadNode(c)
    BY DEF Naive!ReadNode, ReadNode, Naive!Goto, Goto, Naive!Left, Left
  <2>3. \A c : Naive!ReadChild(c) => ReadChild(c)
    BY DEF ReadChild, Goto, Onward, Left, Right, Nodes, DUMMY, Naive!ReadChild, Naive!Goto,
      Naive!Onward, Naive!Left, Naive!Right, Naive!Nodes, Naive!DUMMY
  <2>4. \A c : Naive!ReadChildStamp(c) => ReadChildStamp(c)
    BY DEF ReadChildStamp, Goto, Onward, Left, Right, Nodes, DUMMY, Naive!ReadChildStamp,
      Naive!Goto, Naive!Onward, Naive!Left, Naive!Right, Naive!Nodes, Naive!DUMMY
  <2> QED BY ONLY <2>1, <2>2, <2>3, <2>4 DEF Naive!RefreshNode, RefreshNode, Refresh
<1>6. Naive!Take => Take
  <2>1. Naive!Start(Dequeuer, "front", 0) = Start(Dequeuer, "front", 0)
    BY <1>2 DEF Starts
  <2> QED
    BY <2>1 DEF Take, Goto, RecordGone, inQueue, Refreshing, Naive!Take, Naive!Goto,
      Naive!RecordGone, Naive!inQueue, Naive!Refreshing
<1>7. Naive!DequeueCall \/ Naive!ReadRootDummy \/ Naive!ReadRoot \/ Naive!TakeNothing
        => DequeueCall \/ ReadRootDummy \/ ReadRoot \/ TakeNothing
  BY DEF DequeueCall, ReadRootDummy, ReadRoot, TakeNothing, ReturnFalse, Goto, Idle, MAX, DUMMY,
    Nothing, returned, Batch, inQueue, Naive!DequeueCall, Naive!ReadRootDummy, Naive!ReadRoot,
    Naive!TakeNothing, Naive!ReturnFalse, Naive!Goto, Naive!Idle, Naive!MAX, Naive!DUMMY,
    Naive!Nothing, Naive!returned, Naive!Batch, Naive!inQueue
<1>8. Naive!DPropagate \/ Naive!DequeuerStep \/ Naive!DequeueCall => Dequeueing
  BY ONLY <1>3, <1>4, <1>5, <1>6, <1>7 DEF Naive!DPropagate, Naive!DRefreshTimestamp,
       Naive!DRefreshSelfNode,
       Naive!DRefresh, Naive!DequeuerStep, Dequeueing
<1>9. \A p : Naive!EPropagate(p) => Refresh(p)
  BY ONLY <1>3, <1>4, <1>5 DEF Naive!EPropagate, Naive!ERefreshTimestamp, Naive!ERefreshSelfNode,
       Naive!ERefresh
<1>10. \A p, pc : Naive!Put(p, pc) => Put(p, pc)
  BY DEF Put, Goto, Serves, Refreshing, Naive!Put, Naive!Goto, Naive!Serves,
    Naive!Refreshing
<1>11. \A p : Naive!EnqueueFull(p) => EnqueueFull(p)
  BY DEF EnqueueFull, Fits, Goto, Idle, MAX, DUMMY, RecordGone, Batch, inQueue,
    Naive!EnqueueFull, Naive!Fits, Naive!Goto, Naive!Idle, Naive!MAX, Naive!DUMMY,
    Naive!RecordGone, Naive!Batch, Naive!inQueue
<1>13. \A p, n : Naive!EnqueueCall(p, n) => EnqueueCall(p, n)
  BY DEF EnqueueCall, GetAndIncrement, Goto, Idle, MAX, DUMMY, RecordCall, Batch, inQueue,
    returned, Naive!EnqueueCall, Naive!GetAndIncrement, Naive!Goto, Naive!Idle, Naive!MAX,
    Naive!DUMMY, Naive!RecordCall, Naive!Batch, Naive!inQueue, Naive!returned
<1>15. \A p \in Enqueuers : Naive!EnqueuerStep(p) => Proceeding(p)
  BY ONLY <1>9, <1>10, <1>11
     DEF Naive!EnqueuerStep, Naive!EnqueuePut, Proceeding
<1> QED BY ONLY <1>8, <1>13, <1>15
           DEF Naive!Next, Enqueueing, Proceeding

LEMMA NaiveUnboundedStep ==
  /\ NaiveUnbounded!Next => (\E p \in Enqueuers : Enqueueing(p)) \/ Dequeueing
  /\ \A p \in Enqueuers : NaiveUnbounded!EnqueuerStep(p) => Proceeding(p)
<1> DEFINE Ends == \A c, again, done : NaiveUnbounded!EndAttempt(c, again, done) =>
      EndAttempt(c, again, done)
           Starts == \A c, pc, index : NaiveUnbounded!Start(c, pc, index) = Start(c, pc, index)
           Accepts == \A c : NaiveUnbounded!Accept(c) = Accept(c)
           Writes == \A c : NaiveUnbounded!Written(c) = Written(c)
<1>1. Ends
  <2>1. \A locals : NaiveUnbounded!Cell(locals) = Cell(locals)
    BY DEF NaiveUnbounded!Cell, Cell
  <2> QED BY ONLY <2>1 DEF NaiveUnbounded!EndAttempt, EndAttempt, NaiveUnbounded!Callers, Callers
<1>2. Starts /\ Accepts /\ Writes
  BY DEF Start, Idle, MAX, DUMMY, Accept, Written, NaiveUnbounded!Start, NaiveUnbounded!Idle,
    NaiveUnbounded!MAX, NaiveUnbounded!DUMMY, NaiveUnbounded!Accept, NaiveUnbounded!Written
<1> HIDE DEF Ends, Starts, Accepts, Writes
<1>3. \A c : NaiveUnbounded!RefreshTimestamp(c) => Refresh(c)
  <2>1. \A c : NaiveUnbounded!SwapStamp(c) => SwapStamp(c)
    BY ONLY <1>1, <1>2 DEF Ends, Starts, NaiveUnbounded!SwapStamp, SwapStamp, NaiveUnbounded!Leaf, Leaf
  <2>2. \A c : NaiveUnbounded!ReadFront(c) \/ NaiveUnbounded!ReadStamp(c) =>
          ReadFront(c) \/ ReadStamp(c)
    BY DEF ReadFront, ReadStamp, Goto, FrontTimestamp, MAX, NaiveUnbounded!ReadFront,
      NaiveUnbounded!ReadStamp, NaiveUnbounded!Goto, NaiveUnbounded!FrontTimestamp,
      NaiveUnbounded!MAX
  <2> QED BY ONLY <2>1, <2>2 DEF NaiveUnbounded!RefreshTimestamp, RefreshTimestamp, Refresh
<1>4. \A c : NaiveUnbounded!RefreshSelfNode(c) => Refresh(c)
  <2>1. \A c : NaiveUnbounded!SwapLeaf(c) => SwapLeaf(c)
    BY ONLY <1>1, <1>2 DEF Ends, Starts, Writes, NaiveUnbounded!SwapLeaf, SwapLeaf,
         NaiveUnbounded!Parent, Parent
  <2>2. \A c : NaiveUnbounded!ReadLeafStamp(c) \/ NaiveUnbounded!ReadLeaf(c) =>
          ReadLeafStamp(c) \/ ReadLeaf(c)
    BY DEF ReadLeafStamp, ReadLeaf, Goto, DUMMY, MAX, NaiveUnbounded!ReadLeafStamp,
      NaiveUnbounded!ReadLeaf, NaiveUnbounded!Goto, NaiveUnbounded!DUMMY, NaiveUnbounded!MAX
  <2> QED BY ONLY <2>1, <2>2 DEF NaiveUnbounded!RefreshSelfNode, RefreshSelfNode, Refresh
<1>5. \A c : NaiveUnbounded!RefreshNode(c) => Refresh(c)
  <2>1. \A c : NaiveUnbounded!SwapNode(c) => SwapNode(c)
    BY ONLY <1>1, <1>2 DEF Ends, Starts, Accepts, Writes, NaiveUnbounded!SwapNode, SwapNode,
         NaiveUnbounded!Parent, Parent,
         NaiveUnbounded!Idle, Idle, NaiveUnbounded!MAX, MAX, NaiveUnbounded!DUMMY, DUMMY
  <2>2. \A c : NaiveUnbounded!ReadNode(c) => ReadNode(c)
    BY DEF NaiveUnbounded!ReadNode, ReadNode, NaiveUnbounded!Goto, Goto, NaiveUnbounded!Left, Left
  <2>3. \A c : NaiveUnbounded!ReadChild(c) => ReadChild(c)
    BY DEF ReadChild, Goto, Onward, Left, Right, Nodes, DUMMY, NaiveUnbounded!ReadChild,
      NaiveUnbounded!Goto, NaiveUnbounded!Onward, NaiveUnbounded!Left, NaiveUnbounded!Right,
      NaiveUnbounded!Nodes, NaiveUnbounded!DUMMY
  <2>4. \A c : NaiveUnbounded!ReadChildStamp(c) => ReadChildStamp(c)
    BY DEF ReadChildStamp, Goto, Onward, Left, Right, Nodes, DUMMY,
      NaiveUnbounded!ReadChildStamp, NaiveUnbounded!Goto, NaiveUnbounded!Onward,
      NaiveUnbounded!Left, NaiveUnbounded!Right, NaiveUnbounded!Nodes, NaiveUnbounded!DUMMY
  <2> QED BY ONLY <2>1, <2>2, <2>3, <2>4 DEF NaiveUnbounded!RefreshNode, RefreshNode, Refresh
<1>6. NaiveUnbounded!Take => Take
  <2>1. NaiveUnbounded!Start(Dequeuer, "front", 0) = Start(Dequeuer, "front", 0)
    BY <1>2 DEF Starts
  <2> QED
    BY <2>1 DEF Take, Goto, RecordGone, inQueue, Refreshing, NaiveUnbounded!Take,
      NaiveUnbounded!Goto, NaiveUnbounded!RecordGone, NaiveUnbounded!inQueue,
      NaiveUnbounded!Refreshing
<1>7. NaiveUnbounded!DequeueCall \/ NaiveUnbounded!ReadRootDummy \/ NaiveUnbounded!ReadRoot
        \/ NaiveUnbounded!TakeNothing
        => DequeueCall \/ ReadRootDummy \/ ReadRoot \/ TakeNothing
  BY DEF DequeueCall, ReadRootDummy, ReadRoot, TakeNothing, ReturnFalse, Goto, Idle, MAX, DUMMY,
    Nothing, returned, Batch, inQueue, NaiveUnbounded!DequeueCall, NaiveUnbounded!ReadRootDummy,
    NaiveUnbounded!ReadRoot, NaiveUnbounded!TakeNothing, NaiveUnbounded!ReturnFalse,
    NaiveUnbounded!Goto, NaiveUnbounded!Idle, NaiveUnbounded!MAX, NaiveUnbounded!DUMMY,
    NaiveUnbounded!Nothing, NaiveUnbounded!returned, NaiveUnbounded!Batch,
    NaiveUnbounded!inQueue
<1>8. NaiveUnbounded!DPropagate \/ NaiveUnbounded!DequeuerStep \/ NaiveUnbounded!DequeueCall =>
        Dequeueing
  BY ONLY <1>3, <1>4, <1>5, <1>6, <1>7 DEF NaiveUnbounded!DPropagate,
       NaiveUnbounded!DRefreshTimestamp, NaiveUnbounded!DRefreshSelfNode,
       NaiveUnbounded!DRefresh, NaiveUnbounded!DequeuerStep, Dequeueing
<1>9. \A p : NaiveUnbounded!EPropagate(p) => Refresh(p)
  BY ONLY <1>3, <1>4, <1>5 DEF NaiveUnbounded!EPropagate, NaiveUnbounded!ERefreshTimestamp,
       NaiveUnbounded!ERefreshSelfNode, NaiveUnbounded!ERefresh
<1>10. \A p, pc : NaiveUnbounded!Put(p, pc) => Put(p, pc)
  BY DEF Put, Goto, Serves, Refreshing, NaiveUnbounded!Put, NaiveUnbounded!Goto, NaiveUnbounded!Serves,
    NaiveUnbounded!Refreshing
<1>13. \A p, n : NaiveUnbounded!EnqueueCall(p, n) => EnqueueCall(p, n)
  BY DEF EnqueueCall, GetAndIncrement, Goto, Idle, MAX, DUMMY, RecordCall, Batch, inQueue,
    returned, NaiveUnbounded!EnqueueCall, NaiveUnbounded!GetAndIncrement, NaiveUnbounded!Goto,
    NaiveUnbounded!Idle, NaiveUnbounded!MAX, NaiveUnbounded!DUMMY, NaiveUnbounded!RecordCall,
    NaiveUnbounded!Batch, NaiveUnbounded!inQueue, NaiveUnbounded!returned
<1>14. 1 \in 1..MaxBatch
  BY LTTreeAssumption DEF LTTreeAssumption
<1>15. \A p \in Enqueuers : NaiveUnbounded!EnqueuerStep(p) => Proceeding(p)
  BY ONLY <1>9, <1>10
     DEF NaiveUnbounded!EnqueuerStep, Proceeding
<1> QED BY ONLY <1>8, <1>13, <1>14, <1>15
           DEF NaiveUnbounded!Next, Enqueueing, Proceeding

LEMMA EoStep ==
  /\ Eo!Next => (\E p \in Enqueuers : Enqueueing(p)) \/ Dequeueing
  /\ \A p \in Enqueuers : Eo!EnqueuerStep(p) => Proceeding(p)
<1> DEFINE Ends == \A c, again, done : Eo!EndAttempt(c, again, done) => EndAttempt(c, again, done)
           Starts == \A c, pc, index : Eo!Start(c, pc, index) = Start(c, pc, index)
           Accepts == \A c : Eo!Accept(c) = Accept(c)
           Writes == \A c : Eo!Written(c) = Written(c)
<1>1. Ends
  <2>1. \A locals : Eo!Cell(locals) = Cell(locals)
    BY DEF Eo!Cell, Cell
  <2> QED BY ONLY <2>1 DEF Eo!EndAttempt, EndAttempt, Eo!Callers, Callers
<1>2. Starts /\ Accepts /\ Writes
  BY DEF Start, Idle, MAX, DUMMY, Accept, Written, Eo!Start, Eo!Idle, Eo!MAX, Eo!DUMMY,
    Eo!Accept, Eo!Written
<1> HIDE DEF Ends, Starts, Accepts, Writes
<1>3. \A c : Eo!RefreshTimestamp(c) => Refresh(c)
  <2>1. \A c : Eo!SwapStamp(c) => SwapStamp(c)
    BY ONLY <1>1, <1>2 DEF Ends, Starts, Eo!SwapStamp, SwapStamp, Eo!Leaf, Leaf
  <2>2. \A c : Eo!ReadFront(c) \/ Eo!ReadStamp(c) => ReadFront(c) \/ ReadStamp(c)
    BY DEF ReadFront, ReadStamp, Goto, FrontTimestamp, MAX, Eo!ReadFront, Eo!ReadStamp, Eo!Goto,
      Eo!FrontTimestamp, Eo!MAX
  <2> QED BY ONLY <2>1, <2>2 DEF Eo!RefreshTimestamp, RefreshTimestamp, Refresh
<1>4. \A c : Eo!RefreshSelfNode(c) => Refresh(c)
  <2>1. \A c : Eo!SwapLeaf(c) => SwapLeaf(c)
    BY ONLY <1>1, <1>2 DEF Ends, Starts, Writes, Eo!SwapLeaf, SwapLeaf, Eo!Parent, Parent
  <2>2. \A c : Eo!ReadLeafStamp(c) \/ Eo!ReadLeaf(c) => ReadLeafStamp(c) \/ ReadLeaf(c)
    BY DEF ReadLeafStamp, ReadLeaf, Goto, DUMMY, MAX, Eo!ReadLeafStamp, Eo!ReadLeaf, Eo!Goto,
      Eo!DUMMY, Eo!MAX
  <2> QED BY ONLY <2>1, <2>2 DEF Eo!RefreshSelfNode, RefreshSelfNode, Refresh
<1>5. \A c : Eo!RefreshNode(c) => Refresh(c)
  <2>1. \A c : Eo!SwapNode(c) => SwapNode(c)
    BY ONLY <1>1, <1>2 DEF Ends, Starts, Accepts, Writes, Eo!SwapNode, SwapNode, Eo!Parent, Parent,
         Eo!Idle, Idle, Eo!MAX, MAX, Eo!DUMMY, DUMMY
  <2>2. \A c : Eo!ReadNode(c) => ReadNode(c)
    BY DEF Eo!ReadNode, ReadNode, Eo!Goto, Goto, Eo!Left, Left
  <2>3. \A c : Eo!ReadChild(c) => ReadChild(c)
    BY DEF ReadChild, Goto, Onward, Left, Right, Nodes, DUMMY, Eo!ReadChild, Eo!Goto, Eo!Onward,
      Eo!Left, Eo!Right, Eo!Nodes, Eo!DUMMY
  <2>4. \A c : Eo!ReadChildStamp(c) => ReadChildStamp(c)
    BY DEF ReadChildStamp, Goto, Onward, Left, Right, Nodes, DUMMY, Eo!ReadChildStamp, Eo!Goto,
      Eo!Onward, Eo!Left, Eo!Right, Eo!Nodes, Eo!DUMMY
  <2> QED BY ONLY <2>1, <2>2, <2>3, <2>4 DEF Eo!RefreshNode, RefreshNode, Refresh
<1>6. Eo!Take => Take
  <2>1. Eo!Start(Dequeuer, "front", 0) = Start(Dequeuer, "front", 0)
    BY <1>2 DEF Starts
  <2> QED
    BY <2>1 DEF Take, Goto, RecordGone, inQueue, Refreshing, Eo!Take, Eo!Goto, Eo!RecordGone,
      Eo!inQueue, Eo!Refreshing
<1>7. Eo!DequeueCall \/ Eo!ReadRootDummy \/ Eo!ReadRoot \/ Eo!TakeNothing
        => DequeueCall \/ ReadRootDummy \/ ReadRoot \/ TakeNothing
  BY DEF DequeueCall, ReadRootDummy, ReadRoot, TakeNothing, ReturnFalse, Goto, Idle, MAX, DUMMY,
    Nothing, returned, Batch, inQueue, Eo!DequeueCall, Eo!ReadRootDummy, Eo!ReadRoot,
    Eo!TakeNothing, Eo!ReturnFalse, Eo!Goto, Eo!Idle, Eo!MAX, Eo!DUMMY, Eo!Nothing, Eo!returned,
    Eo!Batch, Eo!inQueue
<1>8. Eo!DPropagate \/ Eo!DequeuerStep \/ Eo!DequeueCall => Dequeueing
  BY ONLY <1>3, <1>4, <1>5, <1>6, <1>7 DEF Eo!DPropagate, Eo!DRefreshTimestamp, Eo!DRefreshSelfNode,
       Eo!DRefresh, Eo!DequeuerStep, Dequeueing
<1>9. \A p : Eo!EPropagate(p) => Refresh(p)
  BY ONLY <1>3, <1>4, <1>5 DEF Eo!EPropagate, Eo!ERefreshTimestamp, Eo!ERefreshSelfNode, Eo!ERefresh
<1>10. \A p, pc : Eo!Put(p, pc) => Put(p, pc)
  BY DEF Put, Goto, Serves, Refreshing, Eo!Put, Eo!Goto, Eo!Serves,
    Eo!Refreshing
<1>11. \A p : Eo!EnqueueFull(p) => EnqueueFull(p)
  BY DEF EnqueueFull, Fits, Goto, Idle, MAX, DUMMY, RecordGone, Batch, inQueue, Eo!EnqueueFull,
    Eo!Fits, Eo!Goto, Eo!Idle, Eo!MAX, Eo!DUMMY, Eo!RecordGone, Eo!Batch, Eo!inQueue
<1>12. \A p : Eo!CheckFront(p) => CheckFront(p)
  <2>1. Eo!Idle = Idle /\ \A p : Eo!FrontTimestamp(p) = FrontTimestamp(p)
    BY DEF Idle, MAX, DUMMY, FrontTimestamp, Eo!Idle, Eo!MAX, Eo!DUMMY, Eo!FrontTimestamp
  <2> QED BY <1>2, <2>1 DEF Accepts, CheckFront, Eo!CheckFront, Serves, Eo!Serves, Refreshing,
       Eo!Refreshing, Goto, Eo!Goto
<1>13. \A p, n : Eo!EnqueueCall(p, n) => EnqueueCall(p, n)
  BY DEF EnqueueCall, GetAndIncrement, Goto, Idle, MAX, DUMMY, RecordCall, Batch, inQueue,
    returned, Eo!EnqueueCall, Eo!GetAndIncrement, Eo!Goto, Eo!Idle, Eo!MAX, Eo!DUMMY,
    Eo!RecordCall, Eo!Batch, Eo!inQueue, Eo!returned
<1>15. \A p \in Enqueuers : Eo!EnqueuerStep(p) => Proceeding(p)
  BY ONLY <1>9, <1>10, <1>11, <1>12
     DEF Eo!EnqueuerStep, Eo!EnqueuePut, Eo!EnqueueOne, Eo!EnqueueVector, Proceeding
<1> QED BY ONLY <1>8, <1>13, <1>15
           DEF Eo!Next, Enqueueing, Proceeding

--------------------------------------------------------------------------------
(* Types, and the locals of a caller at each control point. *)

LEMMA StepIs == Next => UNCHANGED class /\ ((\E p \in Enqueuers : Enqueueing(p)) \/ Dequeueing)
<1> HIDE DEF Enqueueing, Dequeueing
<1> QED BY LTStep, UnboundedStep, NodeStep, NaiveStep, NaiveUnboundedStep, EoStep DEF Next

(* The steps the fairness and the step counts are about. *)
LEMMA EnqueuerStepIs ==
  ASSUME NEW p \in Enqueuers, EnqueuerStep(p)
  PROVE  Enqueueing(p) /\ Proceeding(p)
<1>1. Proceeding(p)
  <2> HIDE DEF Proceeding, Enqueueing, Dequeueing
  <2> QED BY LTStep, UnboundedStep, NodeStep, NaiveStep, NaiveUnboundedStep, EoStep DEF EnqueuerStep
<1> QED BY <1>1 DEF Proceeding, Enqueueing

LEMMA ProceedingIs ==
  ASSUME NEW p \in Enqueuers, Proceeding(p)
  PROVE  call[p].pc # "idle"
BY DEF Proceeding, Node!TakeTimestamp, Put, EnqueueFull, CheckFront, Refresh, RefreshTimestamp,
       RefreshSelfNode, RefreshNode, ReadFront, ReadStamp, SwapStamp, ReadLeafStamp, ReadLeaf, SwapLeaf,
       ReadNode, ReadChild, ReadChildStamp, SwapNode

LEMMA DequeuerStepIs ==
  ASSUME DequeuerStep
  PROVE  Dequeueing /\ call[Dequeuer].pc # "idle"
<1>1. Dequeueing
  BY LTStep DEF DequeuerStep
<1>2. LT!ReadRootDummy \/ LT!ReadRoot \/ LT!TakeNothing \/ LT!Take => call[Dequeuer].pc # "idle"
  BY DEF LT!ReadRootDummy, LT!ReadRoot, LT!TakeNothing, LT!Take
<1>3. LT!DPropagate => call[Dequeuer].pc # "idle"
  BY DEF LT!DPropagate, LT!DRefreshTimestamp, LT!DRefreshSelfNode, LT!DRefresh, LT!RefreshTimestamp,
         LT!RefreshSelfNode, LT!RefreshNode, LT!ReadFront, LT!ReadStamp, LT!SwapStamp, LT!ReadLeafStamp,
         LT!ReadLeaf, LT!SwapLeaf, LT!ReadNode, LT!ReadChild, LT!ReadChildStamp, LT!SwapNode
<1> QED BY <1>1, <1>2, <1>3 DEF DequeuerStep, LT!DequeuerStep

LEMMA InitIs ==
  Init => stamp \in [Enqueuers -> Timestamps] /\ tree = [i \in Nodes |-> DUMMY] /\ NoCalls
BY LTTreeAssumption DEF LTTreeAssumption, Timestamps, LT!Timestamps, Unbounded!Timestamps,
       Node!Timestamps, Naive!Timestamps, NaiveUnbounded!Timestamps, Eo!Timestamps,
       Init, LT!Init, Unbounded!Init, Node!Init, Naive!Init, NaiveUnbounded!Init, Eo!Init, NoCalls,
       LT!NoCalls, Unbounded!NoCalls, Node!NoCalls, Naive!NoCalls, NaiveUnbounded!NoCalls, Eo!NoCalls,
       MAX, LT!MAX, Unbounded!MAX, Node!MAX, Naive!MAX, NaiveUnbounded!MAX, Eo!MAX,
       DUMMY, LT!DUMMY, Unbounded!DUMMY, Node!DUMMY, Naive!DUMMY, NaiveUnbounded!DUMMY, Eo!DUMMY,
       Nodes, LT!Nodes, Unbounded!Nodes, Node!Nodes, Naive!Nodes, NaiveUnbounded!Nodes, Eo!Nodes,
       Callers, LT!Callers, Unbounded!Callers, Node!Callers, Naive!Callers, NaiveUnbounded!Callers,
       Eo!Callers, Idle, LT!Idle, Unbounded!Idle, Node!Idle, Naive!Idle, NaiveUnbounded!Idle, Eo!Idle,
       Nothing, LT!Nothing, Unbounded!Nothing, Node!Nothing, Naive!Nothing, NaiveUnbounded!Nothing,
       Eo!Nothing

--------------------------------------------------------------------------------
Putting(c) == call[c].pc \in {"count", "put"}
StampPcs == {"check", "front", "stamp", "swapStamp"}
LeafPcs == {"leafStamp", "leaf", "swapLeaf"}
Scanning == {"child", "childStamp", "swapNode"}
NodePcs == {"node"} \cup Scanning
Working(c) == call[c].pc \in StampPcs \cup LeafPcs \cup NodePcs

(* All timestamps of rank p so far are below it, and those to come are not. *)
Bound(p) == IF Putting(p) THEN call[p].ts ELSE counter

(* Elements of p that were accepted or will be. *)
Granted(p) == accepted[p] + (IF Working(p) THEN call[p].n ELSE 0)

Elements == [item : Enqueuers \X Nat, ts : 0..MAX-1]

Pcs == {"idle", "count", "put", "check", "root", "take", "front", "stamp", "swapStamp", "leafStamp",
        "leaf", "swapLeaf", "node", "child", "childStamp", "swapNode"}

Locals ==
  [pc : Pcs, rank : RanksOrDummy, n : 0..MaxBatch, ts : Timestamps, try : 1..2, fresh : BOOLEAN,
   index : Nodes, child : Nodes, seen : RanksOrDummy, value : RanksOrDummy \cup Timestamps,
   least : Timestamps]

TypeInv ==
  /\ counter \in 0..MaxCalls
  /\ spsc \in [Enqueuers -> Seq(Elements)]
  /\ stamp \in [Enqueuers -> Timestamps]
  /\ tree \in [Nodes -> RanksOrDummy]
  /\ call \in [Callers -> Locals]
  /\ accepted \in [Enqueuers -> Nat]
  /\ dOut = Nothing \/ dOut \in Enqueuers \X Nat
  /\ inQueue \subseteq Enqueuers \X Nat
  /\ raced \in BOOLEAN

(* The locals of a caller at each control point. *)
CallInv(c) ==
  /\ call[c].pc = "idle" => call[c].n = 0
  /\ c = Dequeuer => call[c].n = 0 /\ call[c].pc \notin {"count", "put", "check"}
  /\ c # Dequeuer => call[c].pc \notin {"root", "take"} /\ (call[c].pc # "idle" => call[c].rank = c)
  /\ Working(c) \/ call[c].pc = "take" => call[c].rank \in Enqueuers
  /\ call[c].pc = "count" => call[c].ts <= counter
  /\ call[c].pc \in {"put", "check"} => call[c].ts < counter
  /\ call[c].pc \in {"stamp", "swapStamp"} => call[c].value \in Timestamps
  /\ call[c].pc \in LeafPcs => call[c].index = Leaf(call[c].rank)
  /\ call[c].pc \in {"leaf", "swapLeaf"} => call[c].value \in {DUMMY, call[c].rank}
  /\ call[c].pc \in NodePcs => call[c].index < Processes /\ call[c].value \in RanksOrDummy
  /\ call[c].pc \in {"child", "childStamp"} =>
       call[c].child \in {Left(call[c].index), Right(call[c].index)} \cap Nodes
  /\ call[c].pc = "childStamp" => call[c].seen \in Enqueuers

Calls == TypeInv /\ \A c \in Callers : CallInv(c)

(* The locals of other callers change at most in fresh. *)
Same(b) ==
  /\ call'[b] \in Locals
  /\ call'[b].pc = call[b].pc /\ call'[b].rank = call[b].rank /\ call'[b].n = call[b].n
  /\ call'[b].ts = call[b].ts /\ call'[b].try = call[b].try /\ call'[b].index = call[b].index
  /\ call'[b].child = call[b].child /\ call'[b].seen = call[b].seen
  /\ call'[b].value = call[b].value /\ call'[b].least = call[b].least

LEMMA Constants ==
  /\ Processes \in Nat \ {0} /\ Dequeuer \in Ranks /\ Enqueuers \subseteq Ranks
  /\ Dequeuer \notin Enqueuers
  /\ MaxBatch \in Nat \ {0} /\ MaxCalls \in Nat /\ MAX \in Nat /\ MAX \in Timestamps
  /\ \A p \in Enqueuers : p \in Nat /\ p # DUMMY
  /\ \A t \in Timestamps : t \in Nat /\ t <= MAX
  /\ \A i \in Nodes : i \in Nat
  /\ 0 \in Nodes /\ DUMMY = -1 /\ Capacity \in Nat
BY LTTreeAssumption DEF LTTreeAssumption, Ranks, MAX, Timestamps, DUMMY, Nodes

LEMMA ChildIs ==
  ASSUME NEW i \in Nodes, i < Processes
  PROVE  Left(i) \in Nodes /\ Left(i) # Right(i)
BY LTTreeAssumption DEF Nodes, Left, Right, LTTreeAssumption

LEMMA IdleIs ==
  /\ Idle \in Locals /\ Idle.pc = "idle" /\ Idle.n = 0 /\ Idle.rank = DUMMY /\ Idle.try = 1
  /\ Idle.fresh = FALSE /\ Idle.index = 0 /\ Idle.value = DUMMY /\ Idle.least = MAX /\ Idle.seen = DUMMY
BY Constants DEF Idle, Locals, Pcs, RanksOrDummy, Timestamps

Started(l, c, pc, index, try) ==
  /\ l \in Locals
  /\ l.pc = pc /\ l.rank = call[c].rank /\ l.n = call[c].n
  /\ l.try = try /\ l.fresh = FALSE /\ l.index = index
  /\ l.value = DUMMY /\ l.least = MAX

LEMMA StartIs ==
  ASSUME TypeInv, NEW c \in Callers, NEW pc \in Pcs, NEW index \in Nodes
  PROVE  /\ Started(Start(c, pc, index), c, pc, index, 1)
         /\ Started([Start(c, pc, index) EXCEPT !.try = 2], c, pc, index, 2)
<1> DEFINE s == Start(c, pc, index)
<1>1. call[c] \in Locals
  BY DEF TypeInv
<1>2. call[c].rank \in RanksOrDummy /\ call[c].n \in 0..MaxBatch
  BY <1>1 DEF Locals
<1>3. /\ s.pc = pc /\ s.rank = call[c].rank /\ s.n = call[c].n /\ s.try = 1 /\ s.fresh = FALSE
      /\ s.index = index /\ s.value = DUMMY /\ s.least = MAX
  BY DEF Start, Idle
<1>4. s \in Locals
  BY <1>2, Constants, IdleIs DEF Start, Locals
<1> HIDE DEF s
<1>5. Started(s, c, pc, index, 1)
  BY <1>3, <1>4 DEF Started
<1>6. Started([s EXCEPT !.try = 2], c, pc, index, 2)
  BY <1>3, <1>4 DEF Started, Locals
<1> QED BY <1>5, <1>6 DEF s

LEMMA GotoIs ==
  ASSUME TypeInv, NEW c \in Callers, NEW l \in Locals, Goto(c, l)
  PROVE  call' \in [Callers -> Locals] /\ call'[c] = l /\ \A b \in Callers : b # c =>
           call'[b] = call[b] /\ Same(b)
<1>1. call \in [Callers -> Locals]
  BY DEF TypeInv
<1>2. call' = [call EXCEPT ![c] = l]
  BY DEF Goto
<1>3. call' \in [Callers -> Locals] /\ call'[c] = l /\ \A b \in Callers : b # c => call'[b] = call[b]
  BY <1>1, <1>2
<1> QED BY <1>1, <1>3 DEF Same

(* The end of an attempt: failing for the second time is like succeeding. *)
Clashes(b, c) == call[c].fresh /\ Cell(call[b]) = Cell(call[c])

LEMMA EndIs ==
  ASSUME TypeInv, NEW c \in Callers, NEW again \in Locals,
           NEW done \in Locals, EndAttempt(c, again, done)
  PROVE  /\ call' \in [Callers -> Locals]
         /\ call'[c] = IF call[c].fresh \/ call[c].try = 2 THEN done ELSE [again EXCEPT !.try = 2]
         /\ \A b \in Callers : b # c => Same(b) /\ call'[b].fresh = (call[b].fresh /\ ~Clashes(b, c))
<1> DEFINE own == IF call[c].fresh \/ call[c].try = 2 THEN done ELSE [again EXCEPT !.try = 2]
           Mark(b) == IF Clashes(b, c) THEN [call[b] EXCEPT !.fresh = FALSE] ELSE call[b]
<1>1. call' = [b \in Callers |-> IF b = c THEN own ELSE Mark(b)]
  BY DEF EndAttempt, Clashes
<1>2. own \in Locals
  BY DEF Locals
<1>3. \A b \in Callers : call[b] \in Locals
  BY DEF TypeInv
<1>4. ASSUME NEW b \in Callers
      PROVE  /\ Mark(b) \in Locals
             /\ Mark(b).fresh = (call[b].fresh /\ ~Clashes(b, c))
             /\ Mark(b).pc = call[b].pc /\ Mark(b).rank = call[b].rank /\ Mark(b).n = call[b].n
             /\ Mark(b).ts = call[b].ts /\ Mark(b).try = call[b].try /\ Mark(b).index = call[b].index
             /\ Mark(b).child = call[b].child /\ Mark(b).seen = call[b].seen
             /\ Mark(b).value = call[b].value /\ Mark(b).least = call[b].least
  <2>1. call[b] \in Locals /\ call[b].fresh \in BOOLEAN
    BY <1>3 DEF Locals
  <2> HIDE DEF Mark
  <2>2. CASE Clashes(b, c)
    <3>1. Mark(b) = [call[b] EXCEPT !.fresh = FALSE]
      BY <2>2 DEF Mark
    <3> QED BY <2>1, <2>2, <3>1 DEF Locals
  <2>3. CASE ~Clashes(b, c)
    <3>1. Mark(b) = call[b]
      BY <2>3 DEF Mark
    <3> QED BY <2>1, <2>3, <3>1
  <2> QED BY <2>2, <2>3
<1> HIDE DEF Mark, own
<1>5. call' \in [Callers -> Locals] /\ call'[c] = own /\ \A b \in Callers : b # c => call'[b] = Mark(b)
  BY <1>1, <1>2, <1>4
<1> QED BY <1>4, <1>5 DEF Same, own

--------------------------------------------------------------------------------
(* The effect of the steps of a refresh. *)

(* A caller goes on with the refresh of the same cell. *)
Advances(c, pc) ==
  /\ call' \in [Callers -> Locals]
  /\ call'[c].pc = pc /\ call'[c].rank = call[c].rank /\ call'[c].n = call[c].n
  /\ call'[c].try = call[c].try /\ call'[c].index = call[c].index
  /\ \A b \in Callers : b # c => call'[b] = call[b] /\ Same(b)

(* A caller ends an attempt. *)
Ends(c) ==
  /\ call' \in [Callers -> Locals]
  /\ \A b \in Callers : b # c => Same(b) /\ call'[b].fresh = (call[b].fresh /\ ~Clashes(b, c))

Succeeds(c) == call[c].fresh \/ call[c].try = 2

LEMMA FrontType ==
  ASSUME TypeInv, NEW p \in Enqueuers
  PROVE  /\ FrontTimestamp(p) \in Timestamps
         /\ spsc[p] = <<>> <=> FrontTimestamp(p) = MAX
         /\ spsc[p] # <<>> => /\ Len(spsc[p]) # 0 /\ 1 \in 1..Len(spsc[p]) /\ Head(spsc[p]) = spsc[p][1]
                              /\ FrontTimestamp(p) = spsc[p][1].ts
         /\ Len(spsc[p]) \in Nat /\ \A i \in 1..Len(spsc[p]) : spsc[p][i] \in Elements
<1>1. spsc[p] \in Seq(Elements)
  BY DEF TypeInv
<1>2. spsc[p] # <<>> =>
        Head(spsc[p]) = spsc[p][1] /\ Len(spsc[p]) # 0 /\ 1 \in 1..Len(spsc[p])
        /\ spsc[p][1] \in Elements
  BY <1>1
<1>3. \A x \in Elements : x.ts \in Timestamps /\ x.ts # MAX
  BY Constants DEF Elements, Timestamps
<1>4. Len(spsc[p]) \in Nat /\ \A i \in 1..Len(spsc[p]) : spsc[p][i] \in Elements
  BY <1>1
<1> QED BY <1>2, <1>3, <1>4, Constants DEF FrontTimestamp

LEMMA CallerIs ==
  ASSUME Calls, NEW c \in Callers
  PROVE  TypeInv /\ CallInv(c) /\ call[c] \in Locals /\ call \in [Callers -> Locals]
BY DEF Calls, TypeInv

LEMMA ReadFrontIs ==
  ASSUME Calls, NEW c \in Callers, ReadFront(c)
  PROVE  Advances(c, "stamp") /\ call'[c].value = FrontTimestamp(call[c].rank)
           /\ call[c].rank \in Enqueuers
<1>1. TypeInv /\ CallInv(c) /\ call[c] \in Locals /\ call[c].pc = "front" /\ call[c].rank \in Enqueuers
  BY CallerIs DEF ReadFront, CallInv, Working, StampPcs
<1> DEFINE l == [call[c] EXCEPT !.pc = "stamp", !.value = FrontTimestamp(call[c].rank)]
<1>2. l \in Locals /\ l.pc = "stamp" /\ l.rank = call[c].rank /\ l.n = call[c].n /\ l.try = call[c].try
      /\ l.index = call[c].index /\ l.value = FrontTimestamp(call[c].rank)
  BY <1>1, FrontType DEF Locals, Pcs
<1>3. Goto(c, l)
  BY DEF ReadFront
<1> HIDE DEF l
<1> QED BY <1>1, <1>2, <1>3, GotoIs DEF Advances

LEMMA ReadStampIs ==
  ASSUME Calls, NEW c \in Callers, ReadStamp(c)
  PROVE  Advances(c, "swapStamp") /\ call'[c].value = call[c].value /\ call'[c].fresh = TRUE
<1>1. TypeInv /\ call[c] \in Locals
  BY CallerIs
<1> DEFINE l == [call[c] EXCEPT !.pc = "swapStamp", !.fresh = TRUE]
<1>2. l \in Locals /\ l.pc = "swapStamp" /\ l.rank = call[c].rank /\ l.n = call[c].n
        /\ l.try = call[c].try
      /\ l.index = call[c].index /\ l.value = call[c].value /\ l.fresh = TRUE
  BY <1>1 DEF Locals, Pcs
<1>3. Goto(c, l)
  BY DEF ReadStamp
<1> HIDE DEF l
<1> QED BY <1>1, <1>2, <1>3, GotoIs DEF Advances

LEMMA ReadLeafStampIs ==
  ASSUME Calls, NEW c \in Callers, ReadLeafStamp(c)
  PROVE  /\ Advances(c, "leaf") /\ call[c].rank \in Enqueuers
         /\ call'[c].value = IF stamp[call[c].rank] = MAX THEN DUMMY ELSE call[c].rank
<1>1. TypeInv /\ CallInv(c) /\ call[c] \in Locals /\ call[c].rank \in Enqueuers
  BY CallerIs DEF ReadLeafStamp, CallInv, Working, LeafPcs
<1> DEFINE v == IF stamp[call[c].rank] = MAX THEN DUMMY ELSE call[c].rank
           l == [call[c] EXCEPT !.pc = "leaf", !.value = v]
<1>2. v \in RanksOrDummy
  BY <1>1 DEF RanksOrDummy
<1> HIDE DEF v
<1>3. l \in Locals /\ l.pc = "leaf" /\ l.rank = call[c].rank /\ l.n = call[c].n /\ l.try = call[c].try
      /\ l.index = call[c].index /\ l.value = v
  BY <1>1, <1>2 DEF Locals, Pcs
<1>4. Goto(c, l)
  BY DEF ReadLeafStamp, v
<1> HIDE DEF l
<1>5. Advances(c, "leaf") /\ call'[c].value = v
  BY <1>1, <1>3, <1>4, GotoIs DEF Advances
<1> QED BY <1>1, <1>5 DEF v

LEMMA ReadLeafIs ==
  ASSUME Calls, NEW c \in Callers, ReadLeaf(c)
  PROVE  Advances(c, "swapLeaf") /\ call'[c].value = call[c].value /\ call'[c].fresh = TRUE
<1>1. TypeInv /\ call[c] \in Locals
  BY CallerIs
<1> DEFINE l == [call[c] EXCEPT !.pc = "swapLeaf", !.fresh = TRUE]
<1>2. l \in Locals /\ l.pc = "swapLeaf" /\ l.rank = call[c].rank /\ l.n = call[c].n
        /\ l.try = call[c].try
      /\ l.index = call[c].index /\ l.value = call[c].value /\ l.fresh = TRUE
  BY <1>1 DEF Locals, Pcs
<1>3. Goto(c, l)
  BY DEF ReadLeaf
<1> HIDE DEF l
<1> QED BY <1>1, <1>2, <1>3, GotoIs DEF Advances

LEMMA ReadNodeIs ==
  ASSUME Calls, NEW c \in Callers, ReadNode(c)
  PROVE  /\ Advances(c, "child") /\ call'[c].value = call[c].value /\ call'[c].least = call[c].least
         /\ call'[c].fresh = TRUE /\ call'[c].child = Left(call[c].index)
<1>1. TypeInv /\ CallInv(c) /\ call[c] \in Locals /\ call[c].index \in Nodes
        /\ call[c].index < Processes
  BY CallerIs DEF ReadNode, CallInv, NodePcs, Locals
<1> DEFINE l == [call[c] EXCEPT !.pc = "child", !.fresh = TRUE, !.child = Left(call[c].index)]
<1>2. l \in Locals /\ l.pc = "child" /\ l.rank = call[c].rank /\ l.n = call[c].n /\ l.try = call[c].try
      /\ l.index = call[c].index /\ l.value = call[c].value /\ l.least = call[c].least
      /\ l.fresh = TRUE /\ l.child = Left(call[c].index)
  BY <1>1, ChildIs DEF Locals, Pcs
<1>3. Goto(c, l)
  BY DEF ReadNode
<1> HIDE DEF l
<1> QED BY <1>1, <1>2, <1>3, GotoIs DEF Advances

(* There is another child to read after this one. *)
More(l) == l.child = Left(l.index) /\ Right(l.index) \in Nodes

LEMMA OnwardIs ==
  ASSUME NEW l \in Locals
  PROVE  LET o == Onward(l)
         IN  /\ o \in Locals /\ o.pc = IF More(l) THEN "child" ELSE "swapNode"
             /\ More(l) => o.child = Right(l.index)
             /\ o.rank = l.rank /\ o.n = l.n /\ o.try = l.try /\ o.index = l.index
             /\ o.value = l.value /\ o.least = l.least /\ o.fresh = l.fresh
<1> DEFINE P(pc, child) == [l EXCEPT !.pc = pc, !.child = child, !.seen = DUMMY]
<1>1. ASSUME NEW pc \in {"child", "swapNode"}, NEW child \in Nodes
      PROVE  /\ P(pc, child) \in Locals /\ P(pc, child).pc = pc /\ P(pc, child).child = child
             /\ P(pc, child).rank = l.rank /\ P(pc, child).n = l.n /\ P(pc, child).try = l.try
             /\ P(pc, child).index = l.index /\ P(pc, child).value = l.value
             /\ P(pc, child).least = l.least /\ P(pc, child).fresh = l.fresh
  BY DEF Locals, Pcs, RanksOrDummy
<1>2. Onward(l) = P(IF More(l) THEN "child" ELSE "swapNode", IF More(l) THEN Right(l.index) ELSE 0)
  BY DEF Onward, More
<1> HIDE DEF P
<1>3. CASE More(l)
  <2>1. Onward(l) = P("child", Right(l.index)) /\ Right(l.index) \in Nodes
    BY <1>2, <1>3 DEF More
  <2> QED BY <1>1, <1>3, <2>1
<1>4. CASE ~More(l)
  <2>1. Onward(l) = P("swapNode", 0)
    BY <1>2, <1>4
  <2> QED BY <1>1, <1>4, <2>1, Constants
<1> QED BY <1>3, <1>4

(* A caller goes on with the next child or with its compare-and-swap. *)
Continues(c) ==
  /\ Advances(c, IF More(call[c]) THEN "child" ELSE "swapNode")
  /\ More(call[c]) => call'[c].child = Right(call[c].index)
  /\ call'[c].fresh = call[c].fresh

LEMMA ReadChildIs ==
  ASSUME Calls, NEW c \in Callers, ReadChild(c)
  PROVE  /\ call'[c].value = call[c].value /\ call'[c].least = call[c].least /\ call[c].child \in Nodes
         /\ IF tree[call[c].child] = DUMMY THEN Continues(c)
            ELSE /\ Advances(c, "childStamp") /\ call'[c].seen = tree[call[c].child]
                 /\ call'[c].child = call[c].child /\ call'[c].fresh = call[c].fresh
<1> DEFINE rank == tree[call[c].child]
<1>1. TypeInv /\ CallInv(c) /\ call[c] \in Locals /\ call[c].child \in Nodes /\ rank \in RanksOrDummy
  BY CallerIs DEF ReadChild, CallInv, Locals, TypeInv
<1> HIDE DEF rank
<1>2. CASE rank = DUMMY
  <2> DEFINE l == Onward(call[c])
  <2>1. Goto(c, l)
    BY <1>2 DEF ReadChild, rank
  <2>2. /\ l \in Locals /\ l.pc = IF More(call[c]) THEN "child" ELSE "swapNode"
        /\ More(call[c]) => l.child = Right(call[c].index)
        /\ l.rank = call[c].rank /\ l.n = call[c].n /\ l.try = call[c].try /\ l.index = call[c].index
        /\ l.value = call[c].value /\ l.least = call[c].least /\ l.fresh = call[c].fresh
    BY <1>1, OnwardIs
  <2> HIDE DEF l
  <2> QED BY <1>1, <1>2, <2>1, <2>2, GotoIs DEF Continues, Advances, rank
<1>3. CASE rank # DUMMY
  <2> DEFINE l == [call[c] EXCEPT !.pc = "childStamp", !.seen = rank]
  <2>1. Goto(c, l)
    BY <1>3 DEF ReadChild, rank
  <2>2. /\ l \in Locals /\ l.pc = "childStamp" /\ l.seen = rank /\ l.child = call[c].child
        /\ l.rank = call[c].rank /\ l.n = call[c].n /\ l.try = call[c].try /\ l.index = call[c].index
        /\ l.value = call[c].value /\ l.least = call[c].least /\ l.fresh = call[c].fresh
    BY <1>1 DEF Locals, Pcs
  <2> HIDE DEF l
  <2> QED BY <1>1, <1>3, <2>1, <2>2, GotoIs DEF Advances, rank
<1> QED BY <1>2, <1>3

LEMMA ReadChildStampIs ==
  ASSUME Calls, NEW c \in Callers, ReadChildStamp(c)
  PROVE  /\ call[c].seen \in Enqueuers /\ Continues(c)
         /\ IF stamp[call[c].seen] < call[c].least
            THEN call'[c].value = call[c].seen /\ call'[c].least = stamp[call[c].seen]
            ELSE call'[c].value = call[c].value /\ call'[c].least = call[c].least
<1> DEFINE rank == call[c].seen
           lower == stamp[rank] < call[c].least
           k == IF lower THEN [call[c] EXCEPT !.value = rank, !.least = stamp[rank]] ELSE call[c]
           l == Onward(k)
<1>1. TypeInv /\ CallInv(c) /\ call[c] \in Locals /\ rank \in Enqueuers /\ stamp[rank] \in Timestamps
  BY CallerIs DEF ReadChildStamp, CallInv, Locals, TypeInv
<1>2. Goto(c, l)
  BY DEF ReadChildStamp
<1>3. /\ k \in Locals /\ k.child = call[c].child /\ k.rank = call[c].rank /\ k.n = call[c].n
      /\ k.try = call[c].try /\ k.index = call[c].index /\ k.fresh = call[c].fresh
      /\ IF lower THEN k.value = rank /\ k.least = stamp[rank]
         ELSE k.value = call[c].value /\ k.least = call[c].least
  <2> HIDE DEF k, lower
  <2>1. CASE lower
    <3>1. k = [call[c] EXCEPT !.value = rank, !.least = stamp[rank]]
            /\ rank \in RanksOrDummy \cup Timestamps
      BY <1>1, <2>1 DEF k, RanksOrDummy
    <3> QED BY <1>1, <2>1, <3>1 DEF Locals
  <2>2. CASE ~lower
    <3>1. k = call[c]
      BY <2>2 DEF k
    <3> QED BY <1>1, <2>2, <3>1
  <2> QED BY <2>1, <2>2
<1> HIDE DEF k
<1>4. /\ l \in Locals /\ l.pc = IF More(k) THEN "child" ELSE "swapNode"
      /\ More(k) => l.child = Right(k.index)
      /\ l.rank = k.rank /\ l.n = k.n /\ l.try = k.try /\ l.index = k.index
      /\ l.value = k.value /\ l.least = k.least /\ l.fresh = k.fresh
  BY <1>3, OnwardIs
<1>5. More(k) = More(call[c])
  BY <1>3 DEF More
<1> HIDE DEF l, lower
<1>6. /\ call' \in [Callers -> Locals] /\ call'[c] = l
      /\ \A b \in Callers : b # c => call'[b] = call[b] /\ Same(b)
  BY <1>1, <1>2, <1>4, GotoIs
<1>7. Continues(c)
  BY <1>3, <1>4, <1>5, <1>6 DEF Continues, Advances
<1>8. IF lower THEN call'[c].value = rank /\ call'[c].least = stamp[rank]
         ELSE call'[c].value = call[c].value /\ call'[c].least = call[c].least
  BY <1>3, <1>4, <1>6
<1> QED BY <1>1, <1>7, <1>8 DEF lower

LEMMA SwapStampIs ==
  ASSUME Calls, NEW c \in Callers, SwapStamp(c)
  PROVE  /\ Ends(c) /\ call[c].rank \in Enqueuers
         /\ IF Succeeds(c) THEN Started(call'[c], c, "leafStamp", Leaf(call[c].rank), 1)
            ELSE Started(call'[c], c, "front", 0, 2)
<1>1. TypeInv /\ CallInv(c) /\ call[c].rank \in Enqueuers
  BY CallerIs DEF SwapStamp, CallInv, Working, StampPcs
<1> DEFINE again == Start(c, "front", 0)
           done == Start(c, "leafStamp", Leaf(call[c].rank))
<1>2. EndAttempt(c, again, done)
  BY DEF SwapStamp
<1>3. /\ Started(again, c, "front", 0, 1) /\ Started([again EXCEPT !.try = 2], c, "front", 0, 2)
      /\ Started(done, c, "leafStamp", Leaf(call[c].rank), 1)
  BY <1>1, Constants, LeafIs, StartIs DEF Pcs
<1>4. again \in Locals /\ done \in Locals
  BY <1>3 DEF Started
<1> HIDE DEF again, done
<1> QED BY <1>1, <1>2, <1>3, <1>4, EndIs DEF Ends, Succeeds

LEMMA SwapLeafIs ==
  ASSUME Calls, NEW c \in Callers, SwapLeaf(c)
  PROVE  /\ Ends(c) /\ call[c].rank \in Enqueuers /\ call[c].index = Leaf(call[c].rank)
         /\ IF Succeeds(c) THEN Started(call'[c], c, "node", Parent(call[c].index), 1)
            ELSE Started(call'[c], c, "leafStamp", call[c].index, 2)
<1>1. TypeInv /\ CallInv(c) /\ call[c].rank \in Enqueuers /\ call[c].index = Leaf(call[c].rank)
  BY CallerIs DEF SwapLeaf, CallInv, Working, LeafPcs
<1> DEFINE index == call[c].index
           again == Start(c, "leafStamp", index)
           done == Start(c, "node", Parent(index))
<1>2. EndAttempt(c, again, done)
  BY DEF SwapLeaf
<1>3. index \in Nodes /\ Parent(index) \in Nodes
  BY <1>1, Constants, LeafIs, ParentIs
<1>4. /\ Started(again, c, "leafStamp", index, 1)
      /\ Started([again EXCEPT !.try = 2], c, "leafStamp", index, 2)
      /\ Started(done, c, "node", Parent(index), 1)
  BY <1>1, <1>3, StartIs DEF Pcs
<1>5. again \in Locals /\ done \in Locals
  BY <1>4 DEF Started
<1> HIDE DEF again, done
<1> QED BY <1>1, <1>2, <1>4, <1>5, EndIs DEF Ends, Succeeds

LEMMA SwapNodeIs ==
  ASSUME Calls, NEW c \in Callers, SwapNode(c)
  PROVE  /\ Ends(c) /\ call[c].rank \in Enqueuers /\ call[c].index \in Nodes
         /\ call[c].index < Processes
         /\ IF ~Succeeds(c) THEN Started(call'[c], c, "node", call[c].index, 2)
            ELSE IF call[c].index = 0 THEN call'[c] = Idle
            ELSE Started(call'[c], c, "node", Parent(call[c].index), 1)
         /\ IF call[c].index = 0 /\ Succeeds(c) THEN Accept(c) ELSE accepted' = accepted
<1>1. TypeInv /\ CallInv(c) /\ call[c].rank \in Enqueuers /\ call[c].index \in Nodes
        /\ call[c].index < Processes
  BY CallerIs DEF SwapNode, CallInv, Working, NodePcs, Scanning, Locals
<1> DEFINE index == call[c].index
           again == Start(c, "node", index)
           onward == Start(c, "node", Parent(index))
           done == IF index = 0 THEN Idle ELSE onward
<1>2. EndAttempt(c, again, done)
  BY DEF SwapNode
<1>3. /\ Started(again, c, "node", index, 1) /\ Started([again EXCEPT !.try = 2], c, "node", index, 2)
      /\ index # 0 => Started(onward, c, "node", Parent(index), 1)
  BY <1>1, ParentIs, StartIs DEF Pcs
<1>4. again \in Locals /\ done \in Locals
  BY <1>3, IdleIs DEF Started
<1>5. IF index = 0 /\ Succeeds(c) THEN Accept(c) ELSE accepted' = accepted
  BY DEF SwapNode, Succeeds
<1> HIDE DEF again, onward
<1>6. Ends(c) /\ call'[c] = IF Succeeds(c) THEN done ELSE [again EXCEPT !.try = 2]
  BY <1>1, <1>2, <1>4, EndIs DEF Ends, Succeeds
<1> QED BY <1>1, <1>3, <1>5, <1>6

--------------------------------------------------------------------------------
(* Types. *)
LEMMA SameCallInv ==
  ASSUME NEW b \in Callers, CallInv(b), Same(b), counter' = counter
  PROVE  CallInv(b)'
BY DEF CallInv, Same, Working, StampPcs, LeafPcs, NodePcs, Scanning, DUMMY, Timestamps, MAX

Refreshes(c) == call[c].pc \in (StampPcs \ {"check"}) \cup LeafPcs \cup NodePcs

LEMMA AcceptIs ==
  ASSUME TypeInv, NEW c \in Callers, Accept(c)
  PROVE  accepted' \in [Enqueuers -> Nat]
           /\ \A p \in Enqueuers : accepted'[p] = accepted[p] + (IF p = c THEN call[c].n ELSE 0)
<1>1. accepted \in [Enqueuers -> Nat] /\ call[c] \in Locals
  BY DEF TypeInv
<1>2. call[c].n \in Nat
  BY <1>1, Constants DEF Locals
<1>3. CASE c \in Enqueuers
  BY <1>1, <1>2, <1>3 DEF Accept
<1>4. CASE c \notin Enqueuers
  <2>1. accepted' = accepted
    BY <1>4 DEF Accept
  <2> QED BY <1>1, <1>4, <2>1
<1> QED BY <1>3, <1>4

(* What all steps of a refresh have in common. *)
Kept(c) ==
  /\ UNCHANGED <<counter, spsc, dOut, before, settled, raced>>
  /\ Refreshes(c)
  /\ call' \in [Callers -> Locals]
  /\ \A b \in Callers : b # c => Same(b)
  /\ \/ Refreshes(c)' /\ call'[c].rank = call[c].rank /\ call'[c].n = call[c].n /\ accepted' = accepted
     \/ call'[c] = Idle /\ Accept(c)

LEMMA RefreshCalls ==
  ASSUME Calls, NEW c \in Callers, Refresh(c)
  PROVE  Calls' /\ Kept(c)
<1>1. TypeInv /\ CallInv(c) /\ call[c] \in Locals /\ stamp \in [Enqueuers -> Timestamps]
        /\ tree \in [Nodes -> RanksOrDummy]
      /\ accepted \in [Enqueuers -> Nat]
  BY CallerIs DEF TypeInv
<1>2. ASSUME NEW pc, Advances(c, pc) \/ Ends(c)
               PROVE call' \in [Callers -> Locals] /\ \A b \in Callers : b # c => Same(b)
  BY <1>2 DEF Advances, Ends
<1>3. ASSUME UNCHANGED <<counter, spsc, dOut, before, settled, raced>>,
               stamp' \in [Enqueuers -> Timestamps],
             tree' \in [Nodes -> RanksOrDummy], accepted' \in [Enqueuers -> Nat],
             call' \in [Callers -> Locals], \A b \in Callers : b # c => Same(b), CallInv(c)'
      PROVE  Calls'
  <2>1. TypeInv'
    BY <1>1, <1>3 DEF TypeInv, Callers, Locals, Elements, Nodes, RanksOrDummy, Timestamps, MAX,
         DUMMY, inQueue,
       Nothing, Pcs
  <2>2. \A b \in Callers : CallInv(b)'
    BY <1>3, SameCallInv DEF Calls
  <2> QED BY <2>1, <2>2 DEF Calls, Callers
<1>4. CASE ReadFront(c)
  <2>1. Advances(c, "stamp") /\ call[c].rank \in Enqueuers /\ call'[c].value \in Timestamps
    BY <1>1, <1>4, ReadFrontIs, FrontType
  <2>2. CallInv(c)'
    BY <1>1, <1>4, <2>1 DEF ReadFront, CallInv, Advances, Working, StampPcs, LeafPcs, NodePcs,
         Scanning, Timestamps, MAX
  <2> QED BY <1>1, <1>2, <1>3, <1>4, <2>1, <2>2 DEF ReadFront, Kept, Refreshes, StampPcs, Advances
<1>5. CASE ReadStamp(c)
  <2>1. Advances(c, "swapStamp") /\ call'[c].value = call[c].value
    BY <1>5, ReadStampIs
  <2>2. CallInv(c)'
    BY <1>1, <1>5, <2>1 DEF ReadStamp, CallInv, Advances, Working, StampPcs, LeafPcs, NodePcs,
         Scanning, Timestamps, MAX
  <2> QED BY <1>1, <1>2, <1>3, <1>5, <2>1, <2>2 DEF ReadStamp, Kept, Refreshes, StampPcs, Advances
<1>6. CASE ReadLeafStamp(c)
  <2>1. Advances(c, "leaf") /\ call[c].rank \in Enqueuers /\ call'[c].value \in {DUMMY, call[c].rank}
    BY <1>6, ReadLeafStampIs
  <2>2. CallInv(c)'
    BY <1>1, <1>6, <2>1 DEF ReadLeafStamp, CallInv, Advances, Working, StampPcs, LeafPcs, NodePcs,
         Scanning, DUMMY
  <2> QED BY <1>1, <1>2, <1>3, <1>6, <2>1, <2>2 DEF ReadLeafStamp, Kept, Refreshes, LeafPcs, Advances
<1>7. CASE ReadLeaf(c)
  <2>1. Advances(c, "swapLeaf") /\ call'[c].value = call[c].value
    BY <1>7, ReadLeafIs
  <2>2. CallInv(c)'
    BY <1>1, <1>7, <2>1 DEF ReadLeaf, CallInv, Advances, Working, StampPcs, LeafPcs, NodePcs,
         Scanning, DUMMY
  <2> QED BY <1>1, <1>2, <1>3, <1>7, <2>1, <2>2 DEF ReadLeaf, Kept, Refreshes, LeafPcs, Advances
<1>8. CASE ReadNode(c)
  <2>1. Advances(c, "child") /\ call'[c].value = call[c].value /\ call'[c].child = Left(call[c].index)
    BY <1>8, ReadNodeIs
  <2>2. call[c].index < Processes /\ Left(call[c].index) \in Nodes
    BY <1>1, <1>8, ChildIs DEF CallInv, ReadNode, NodePcs, Locals
  <2>3. CallInv(c)'
    BY <1>1, <1>8, <2>1, <2>2 DEF ReadNode, CallInv, Advances, Working, StampPcs, LeafPcs, NodePcs,
         Scanning, DUMMY,
       RanksOrDummy, Nodes
  <2> QED BY <1>1, <1>2, <1>3, <1>8, <2>1, <2>3 DEF ReadNode, Kept, Refreshes, NodePcs, Scanning,
        Advances
<1>9. ASSUME Continues(c), call[c].pc \in {"child", "childStamp"}, call'[c].value \in RanksOrDummy
      PROVE  CallInv(c)' /\ Refreshes(c)'
  BY <1>1, <1>9 DEF CallInv, Continues, Advances, Working, Refreshes, StampPcs, LeafPcs, NodePcs,
       Scanning, DUMMY,
     RanksOrDummy, Nodes, More
<1>10. CASE ReadChild(c)
  <2>1. call[c].pc = "child" /\ call[c].value \in RanksOrDummy
    BY <1>1, <1>10 DEF ReadChild, CallInv, NodePcs, Scanning
  <2>2. CASE Continues(c)
    <3>1. CallInv(c)' /\ Refreshes(c)'
      BY <1>9, <1>10, <2>1, <2>2, ReadChildIs
    <3> QED BY <1>1, <1>2, <1>3, <1>10, <2>1, <2>2, <3>1 DEF ReadChild, Kept, Refreshes, Advances,
          Continues, NodePcs, Scanning
  <2>3. CASE ~Continues(c)
    <3> DEFINE rank == tree[call[c].child]
    <3>1. /\ Advances(c, "childStamp") /\ call'[c].seen = rank /\ call'[c].child = call[c].child
          /\ call'[c].value = call[c].value /\ rank # DUMMY /\ call[c].child \in Nodes
      BY <1>10, <2>3, ReadChildIs
    <3>2. rank \in Enqueuers
      BY <1>1, <3>1 DEF RanksOrDummy
    <3> HIDE DEF rank
    <3>3. CallInv(c)'
      BY <1>1, <2>1, <3>1, <3>2 DEF CallInv, Advances, Working, StampPcs, LeafPcs, NodePcs, Scanning,
           DUMMY,
         RanksOrDummy, Nodes
    <3> QED BY <1>1, <1>2, <1>3, <1>10, <2>1, <3>1, <3>3 DEF ReadChild, Kept, Refreshes, Advances,
          NodePcs, Scanning
  <2> QED BY <2>2, <2>3
<1>11. CASE ReadChildStamp(c)
  <2>1. call[c].pc = "childStamp" /\ call[c].value \in RanksOrDummy
    BY <1>1, <1>11 DEF ReadChildStamp, CallInv, NodePcs, Scanning
  <2>2. Continues(c) /\ call'[c].value \in RanksOrDummy
    BY <1>11, <2>1, ReadChildStampIs DEF RanksOrDummy
  <2>3. CallInv(c)' /\ Refreshes(c)'
    BY <1>9, <2>1, <2>2
  <2> QED BY <1>1, <1>2, <1>3, <1>11, <2>1, <2>2, <2>3 DEF ReadChildStamp, Kept, Refreshes, Advances,
        Continues,
             NodePcs, Scanning
<1>12. \A l, pc, index, try : l = call'[c] /\ Started(l, c, pc, index, try) =>
         /\ call'[c].pc = pc /\ call'[c].rank = call[c].rank /\ call'[c].n = call[c].n
         /\ call'[c].index = index
         /\ call'[c].value = DUMMY
  BY DEF Started
<1>13. CASE SwapStamp(c)
  <2>1. /\ Ends(c) /\ call[c].rank \in Enqueuers /\ call'[c].rank = call[c].rank
        /\ call'[c].n = call[c].n
        /\ \/ call'[c].pc = "leafStamp" /\ call'[c].index = Leaf(call[c].rank)
           \/ call'[c].pc = "front"
    BY <1>12, <1>13, SwapStampIs
  <2>2. CallInv(c)'
    BY <1>1, <1>13, <2>1 DEF SwapStamp, CallInv, Working, StampPcs, LeafPcs, NodePcs, Scanning, Leaf
  <2>3. stamp' \in [Enqueuers -> Timestamps]
    <3>1. call[c].value \in Timestamps
      BY <1>1, <1>13 DEF SwapStamp, CallInv
    <3> QED BY <1>1, <1>13, <2>1, <3>1 DEF SwapStamp
  <2> QED BY <1>1, <1>2, <1>3, <1>13, <2>1, <2>2, <2>3 DEF SwapStamp, Kept, Refreshes, StampPcs,
        LeafPcs, Ends
<1>14. call[c].value \in RanksOrDummy /\ call[c].index \in Nodes =>
         Written(c) \in [Nodes -> RanksOrDummy]
  BY <1>1 DEF Written
<1>15. CASE SwapLeaf(c)
  <2>1. /\ Ends(c) /\ call[c].rank \in Enqueuers /\ call'[c].rank = call[c].rank
        /\ call'[c].n = call[c].n
        /\ call[c].index = Leaf(call[c].rank) /\ call[c].index \in Nodes
        /\ \/ call'[c].pc = "node" /\ call'[c].index = Parent(call[c].index) /\ call'[c].value = DUMMY
           \/ call'[c].pc = "leafStamp" /\ call'[c].index = Leaf(call[c].rank)
    BY <1>1, <1>12, <1>15, SwapLeafIs DEF Locals
  <2>2. call[c].value \in RanksOrDummy
    BY <1>1, <1>15, <2>1 DEF SwapLeaf, CallInv, RanksOrDummy
  <2>3. Parent(call[c].index) < Processes
    BY <2>1, Constants, LeafIs, ParentIs
  <2>4. CallInv(c)'
    BY <1>1, <1>15, <2>1, <2>3 DEF SwapLeaf, CallInv, Working, StampPcs, LeafPcs, NodePcs, Scanning,
         Leaf, RanksOrDummy
  <2> QED BY <1>1, <1>2, <1>3, <1>14, <1>15, <2>1, <2>2, <2>4 DEF SwapLeaf, Kept, Refreshes,
        StampPcs, LeafPcs, Ends, NodePcs
<1>16. CASE SwapNode(c)
  <2>1. /\ Ends(c) /\ call[c].index \in Nodes /\ call[c].index < Processes /\ call[c].rank \in Enqueuers
        /\ \/ /\ call'[c].rank = call[c].rank /\ call'[c].n = call[c].n /\ call'[c].pc = "node"
              /\ accepted' = accepted
              /\ call'[c].index = call[c].index
                   \/ (call[c].index # 0 /\ call'[c].index = Parent(call[c].index))
              /\ call'[c].value = DUMMY
           \/ call'[c] = Idle /\ Accept(c)
    BY <1>12, <1>16, SwapNodeIs
  <2>2. call[c].value \in RanksOrDummy
    BY <1>1, <1>16 DEF SwapNode, CallInv, NodePcs, Scanning
  <2>3. call[c].index # 0 => Parent(call[c].index) < Processes
    BY <2>1, ParentIs
  <2>4. accepted' \in [Enqueuers -> Nat]
    BY <1>1, <2>1, AcceptIs
  <2>5. CallInv(c)'
    <3>1. CASE call'[c] = Idle
      BY <1>1, <3>1, IdleIs DEF CallInv, Working, StampPcs, LeafPcs, NodePcs, Scanning, Timestamps, MAX
    <3>2. CASE call'[c] # Idle
      BY <1>1, <1>16, <2>1, <2>3, <3>2 DEF SwapNode, CallInv, Working, StampPcs, LeafPcs, NodePcs,
           Scanning, RanksOrDummy
    <3> QED BY <3>1, <3>2
  <2> QED BY <1>1, <1>2, <1>3, <1>14, <1>16, <2>1, <2>2, <2>4, <2>5 DEF SwapNode, Kept, Refreshes,
        Ends, NodePcs, Scanning
<1> QED BY <1>4, <1>5, <1>6, <1>7, <1>8, <1>10, <1>11, <1>13, <1>15, <1>16 DEF Refresh,
      RefreshTimestamp, RefreshSelfNode, RefreshNode

--------------------------------------------------------------------------------
(* The effect of the other steps. *)

(* What a call and the end of elements do to the history of the queue. *)
LEMMA RecordCallIs ==
  ASSUME NEW new, RecordCall(new)
  PROVE  /\ inQueue' = inQueue \cup new
         /\ \A x \in inQueue' :
              before'[x] = IF x \in new THEN returned \cup {y \in new : y[2] < x[2]} ELSE before[x]
BY DEF RecordCall, inQueue

LEMMA RecordGoneIs ==
  ASSUME NEW gone, RecordGone(gone)
  PROVE  /\ inQueue' = inQueue \ gone
         /\ \A x \in inQueue' : before'[x] = before[x] \ gone
BY DEF RecordGone, inQueue

(* Only caller c moves. *)
Goes(c) ==
  /\ call' \in [Callers -> Locals]
  /\ \A b \in Callers : b # c => call'[b] = call[b] /\ Same(b)

LEMMA CallIs ==
  ASSUME Calls, NEW p \in Enqueuers,
           NEW n \in 1..MaxBatch, EnqueueCall(p, n) \/ Node!EnqueueCounts(p, n)
  PROVE  /\ Goes(p) /\ call[p].pc = "idle" /\ call'[p].pc \in {"count", "put"} /\ call'[p].rank = p
         /\ call'[p].n = n /\ call'[p].ts = counter
         /\ counter' = IF call'[p].pc = "put" THEN counter + 1 ELSE counter
         /\ counter' <= MaxCalls /\ counter' \in Nat
         /\ RecordCall(Batch(p, n)) /\ UNCHANGED <<spsc, stamp, tree, accepted, dOut, settled, raced>>
<1>1. TypeInv /\ counter \in 0..MaxCalls /\ p \in Callers /\ MaxCalls \in Nat
  BY Constants DEF Calls, TypeInv, Callers
<1> DEFINE L(pc) == [Idle EXCEPT !.pc = pc, !.rank = p, !.n = n, !.ts = counter]
<1>2. ASSUME NEW pc \in {"count", "put"}
      PROVE  L(pc) \in Locals /\ L(pc).pc = pc /\ L(pc).rank = p /\ L(pc).n = n /\ L(pc).ts = counter
  <2>1. p \in RanksOrDummy /\ n \in 0..MaxBatch /\ counter \in Timestamps /\ pc \in Pcs
    BY <1>1, Constants DEF RanksOrDummy, Timestamps, MAX, Pcs
  <2>2. Idle \in Locals
    BY IdleIs
  <2> QED BY <2>1, <2>2 DEF Locals
<1> DEFINE Sets(pc) == Goto(p, L(pc))
<1>3. CASE EnqueueCall(p, n)
  <2>1. Sets("put") /\ counter < MaxCalls /\ counter' = counter + 1
    BY <1>3 DEF EnqueueCall, GetAndIncrement
  <2>2. call[p].pc = "idle" /\ RecordCall(Batch(p, n))
          /\ UNCHANGED <<spsc, stamp, tree, accepted, dOut, settled, raced>>
    BY <1>3 DEF EnqueueCall
  <2> HIDE DEF L
  <2> QED BY <1>1, <1>2, <2>1, <2>2, GotoIs DEF Goes
<1>4. CASE Node!EnqueueCounts(p, n)
  <2>1. Sets("count") /\ counter' = counter
    BY <1>4 DEF Node!EnqueueCounts, Node!Goto, Goto, Node!Idle, Idle, MAX, Node!MAX, DUMMY, Node!DUMMY
  <2>2. call[p].pc = "idle" /\ RecordCall(Batch(p, n))
          /\ UNCHANGED <<spsc, stamp, tree, accepted, dOut, settled, raced>>
    BY <1>4 DEF Node!EnqueueCounts, Node!RecordCall, RecordCall, Node!Batch, Batch, Node!inQueue,
                  inQueue,
       Node!returned, returned
  <2> HIDE DEF L
  <2> QED BY <1>1, <1>2, <2>1, <2>2, GotoIs DEF Goes
<1> QED BY <1>3, <1>4

LEMMA TimestampTaken ==
  ASSUME Calls, NEW p \in Enqueuers, Node!TakeTimestamp(p)
  PROVE  /\ Goes(p) /\ call[p].pc = "count" /\ call'[p].pc = "put" /\ call'[p].rank = call[p].rank
         /\ call'[p].n = call[p].n /\ call[p].ts <= call'[p].ts /\ call'[p].ts < counter'
         /\ counter' \in {counter, counter + 1} /\ counter' <= MaxCalls /\ counter' \in Nat
         /\ UNCHANGED <<spsc, stamp, tree, accepted, dOut, before, settled, raced>>
<1>1. TypeInv /\ counter \in 0..MaxCalls /\ p \in Callers /\ MaxCalls \in Nat /\ call[p] \in Locals
      /\ call[p].ts \in Nat /\ CallInv(p) /\ call[p].pc = "count"
  BY Constants DEF Calls, TypeInv, Callers, Locals, Node!TakeTimestamp
<1>2. call[p].ts <= counter
  BY <1>1 DEF CallInv
<1> DEFINE L(t) == [call[p] EXCEPT !.pc = "put", !.ts = t]
<1>3. ASSUME NEW t \in Timestamps
      PROVE  L(t) \in Locals /\ L(t).pc = "put" /\ L(t).rank = call[p].rank /\ L(t).n = call[p].n
               /\ L(t).ts = t
  BY <1>1 DEF Locals, Pcs
<1>4. UNCHANGED <<spsc, stamp, tree, accepted, dOut, before, settled, raced>>
  BY DEF Node!TakeTimestamp
<1>5. \E t \in Timestamps : /\ Goto(p, L(t)) /\ call[p].ts <= t /\ t < counter'
                            /\ counter' \in {counter, counter + 1}
                            /\ counter' <= MaxCalls
  <2>1. CASE Node!GetAndIncrement /\ Node!Goto(p, L(counter))
    <3>1. counter \in Timestamps /\ counter' = counter + 1 /\ counter' <= MaxCalls
      BY <1>1, <2>1 DEF Node!GetAndIncrement, Timestamps, MAX
    <3>2. Goto(p, L(counter))
      BY <2>1 DEF Node!Goto, Goto
    <3> HIDE DEF L
    <3> QED BY <1>1, <1>2, <3>1, <3>2
  <2>2. ASSUME NEW t \in Node!IssuedSince(call[p].ts), Node!Goto(p, L(t)), counter' = counter
        PROVE  /\ t \in Timestamps /\ Goto(p, L(t)) /\ call[p].ts <= t /\ t < counter'
               /\ counter' \in {counter, counter + 1}
               /\ counter' <= MaxCalls
    BY <1>1, <2>2 DEF Node!IssuedSince, Node!Goto, Goto, Timestamps, MAX
  <2> QED BY <2>1, <2>2 DEF Node!TakeTimestamp
<1> HIDE DEF L
<1> QED BY <1>1, <1>3, <1>4, <1>5, GotoIs DEF Goes

LEMMA PutIs ==
  ASSUME Calls, NEW p \in Enqueuers, NEW pc \in {"check", "front"}, Put(p, pc)
  PROVE  /\ Goes(p) /\ call[p].pc = "put" /\ call'[p].pc = pc /\ call'[p].rank = p
         /\ call'[p].n = call[p].n /\ call'[p].ts = call[p].ts /\ call'[p].try = call[p].try
         /\ spsc' \in [Enqueuers -> Seq(Elements)]
         /\ \A q \in Enqueuers : q # p => spsc'[q] = spsc[q]
         /\ Len(spsc[p]) \in Nat
         /\ Len(spsc'[p]) = Len(spsc[p]) + call[p].n
         /\ \A i \in 1..Len(spsc[p]) : spsc'[p][i] = spsc[p][i]
         /\ \A i \in 1..Len(spsc'[p]) : i > Len(spsc[p]) =>
              /\ i - Len(spsc[p]) \in 1..call[p].n
              /\ spsc'[p][i] = [item |-> <<p, accepted[p] + (i - Len(spsc[p]))>>, ts |-> call[p].ts]
         /\ raced' = (raced \/ (pc = "front" /\ Serves(p)))
         /\ UNCHANGED <<counter, stamp, tree, accepted, dOut, before, settled>>
<1>1. TypeInv /\ p \in Callers /\ call[p] \in Locals /\ CallInv(p) /\ call[p].pc = "put" /\ p # Dequeuer
  BY Constants DEF Calls, TypeInv, Callers, Put
<1>2. call[p].rank = p /\ call[p].ts < counter /\ call[p].n \in Nat /\ call[p].ts \in Nat
  BY <1>1, Constants DEF CallInv, Locals, Timestamps
<1> DEFINE l == [call[p] EXCEPT !.pc = pc]
<1>3. l \in Locals /\ l.pc = pc /\ l.rank = p /\ l.n = call[p].n /\ l.ts = call[p].ts
        /\ l.try = call[p].try
  BY <1>1, <1>2 DEF Locals, Pcs
<1>4. Goto(p, l)
  BY DEF Put
<1> HIDE DEF l
<1>5. Goes(p) /\ call'[p] = l
  BY <1>1, <1>3, <1>4, GotoIs DEF Goes
<1> DEFINE new == [i \in 1..call[p].n |-> [item |-> <<p, accepted[p] + i>>, ts |-> call[p].ts]]
<1>6. /\ spsc \in [Enqueuers -> Seq(Elements)] /\ accepted[p] \in Nat /\ call[p].ts \in 0..MAX-1
  BY <1>1, <1>2, Constants DEF TypeInv, MAX
<1>7. new \in Seq(Elements) /\ Len(new) = call[p].n
  <2>1. \A i \in 1..call[p].n : [item |-> <<p, accepted[p] + i>>, ts |-> call[p].ts] \in Elements
    BY <1>6 DEF Elements
  <2>2. new \in [1..call[p].n -> Elements]
    BY <2>1
  <2> HIDE DEF new
  <2> QED BY <1>2, <2>2
<1>8. spsc' = [spsc EXCEPT ![p] = spsc[p] \o new]
  BY <1>6 DEF Put
<1>9. \A i \in 1..call[p].n : new[i] = [item |-> <<p, accepted[p] + i>>, ts |-> call[p].ts]
  OBVIOUS
<1> HIDE DEF new
<1>10. /\ spsc[p] \o new \in Seq(Elements) /\ Len(spsc[p]) \in Nat
       /\ Len(spsc[p] \o new) = Len(spsc[p]) + call[p].n
       /\ \A i \in 1..Len(spsc[p]) + call[p].n :
            (spsc[p] \o new)[i] = IF i <= Len(spsc[p]) THEN spsc[p][i] ELSE new[i - Len(spsc[p])]
  <2>1. spsc[p] \in Seq(Elements)
    BY <1>6
  <2> QED BY <1>7, <2>1
<1>11. spsc'[p] = spsc[p] \o new /\ \A q \in Enqueuers : q # p => spsc'[q] = spsc[q]
  BY <1>6, <1>8
<1>12. spsc' \in [Enqueuers -> Seq(Elements)]
  BY <1>6, <1>8, <1>10
<1>13. /\ raced' = (raced \/ (pc = "front" /\ Serves(p)))
       /\ UNCHANGED <<counter, stamp, tree, accepted, dOut, before, settled>>
  BY DEF Put
<1>14. \A i \in 1..Len(spsc[p]) + call[p].n : i > Len(spsc[p]) => i - Len(spsc[p]) \in 1..call[p].n
  BY <1>2, <1>10
<1>15. \A i \in 1..Len(spsc'[p]) : i > Len(spsc[p]) =>
              /\ i - Len(spsc[p]) \in 1..call[p].n
              /\ spsc'[p][i] = [item |-> <<p, accepted[p] + (i - Len(spsc[p]))>>, ts |-> call[p].ts]
  BY <1>2, <1>9, <1>10, <1>11, <1>14
<1>16. \A i \in 1..Len(spsc[p]) : spsc'[p][i] = spsc[p][i]
  BY <1>2, <1>10, <1>11
<1>17. Len(spsc'[p]) = Len(spsc[p]) + call[p].n
  BY <1>10, <1>11
<1> QED BY <1>1, <1>3, <1>5, <1>10, <1>11, <1>12, <1>13, <1>15, <1>16, <1>17

LEMMA FullIs ==
  ASSUME Calls, NEW p \in Enqueuers, EnqueueFull(p)
  PROVE  /\ Goes(p) /\ call[p].pc = "put" /\ call'[p] = Idle /\ RecordGone(Batch(p, call[p].n))
         /\ UNCHANGED <<counter, spsc, stamp, tree, accepted, dOut, settled, raced>>
BY IdleIs, GotoIs DEF EnqueueFull, Goes, Calls, Callers

LEMMA CheckIs ==
  ASSUME Calls, NEW p \in Enqueuers, CheckFront(p)
  PROVE  /\ Goes(p) /\ call[p].pc = "check" /\ call[p].rank = p
         /\ UNCHANGED <<counter, spsc, stamp, tree, dOut, before, settled>>
         /\ \/ /\ FrontTimestamp(p) = call[p].ts /\ call'[p].pc = "front" /\ call'[p].rank = p
               /\ call'[p].n = call[p].n /\ call'[p].try = call[p].try /\ accepted' = accepted
               /\ raced' = (raced \/ Serves(p))
            \/ FrontTimestamp(p) # call[p].ts /\ call'[p] = Idle /\ Accept(p) /\ raced' = raced
<1>1. TypeInv /\ p \in Callers /\ call[p] \in Locals /\ CallInv(p) /\ call[p].pc = "check"
        /\ p # Dequeuer
  BY Constants DEF Calls, TypeInv, Callers, CheckFront
<1>2. call[p].rank = p
  BY <1>1 DEF CallInv
<1> DEFINE l == [call[p] EXCEPT !.pc = "front"]
<1>3. l \in Locals /\ l.pc = "front" /\ l.rank = p /\ l.n = call[p].n /\ l.try = call[p].try
  BY <1>1, <1>2 DEF Locals, Pcs
<1>4. \/ /\ FrontTimestamp(p) = call[p].ts /\ Goto(p, l) /\ accepted' = accepted
         /\ raced' = (raced \/ Serves(p))
      \/ FrontTimestamp(p) # call[p].ts /\ Goto(p, Idle) /\ Accept(p) /\ raced' = raced
  BY DEF CheckFront
<1>5. UNCHANGED <<counter, spsc, stamp, tree, dOut, before, settled>>
  BY DEF CheckFront
<1> HIDE DEF l
<1> QED BY <1>1, <1>2, <1>3, <1>4, <1>5, IdleIs, GotoIs DEF Goes

--------------------------------------------------------------------------------
LEMMA DequeueCallIs ==
  ASSUME Calls, DequeueCall
  PROVE  /\ Goes(Dequeuer) /\ call[Dequeuer].pc = "idle" /\ call'[Dequeuer].pc = "root"
         /\ call'[Dequeuer].n = 0
         /\ settled' = returned
         /\ UNCHANGED <<counter, spsc, stamp, tree, accepted, dOut, before, raced>>
<1> DEFINE l == [Idle EXCEPT !.pc = "root"]
<1>1. l \in Locals /\ l.pc = "root" /\ l.n = 0
  BY IdleIs DEF Locals, Pcs
<1>2. TypeInv /\ Dequeuer \in Callers /\ Goto(Dequeuer, l)
  BY DEF DequeueCall, Calls, Callers
<1> HIDE DEF l
<1> QED BY <1>1, <1>2, GotoIs DEF DequeueCall, Goes

LEMMA ReturnsFalse ==
  ASSUME Calls, ReadRootDummy \/ TakeNothing
  PROVE  /\ Goes(Dequeuer) /\ call'[Dequeuer] = Idle /\ dOut' = Nothing /\ settled' = {}
         /\ \/ call[Dequeuer].pc = "root" /\ tree[0] = DUMMY
            \/ call[Dequeuer].pc = "take" /\ spsc[call[Dequeuer].rank] = <<>>
         /\ UNCHANGED <<counter, spsc, stamp, tree, accepted, before, raced>>
BY IdleIs, GotoIs DEF ReadRootDummy, TakeNothing, ReturnFalse, Goes, Calls, Callers

LEMMA ReadRootIs ==
  ASSUME Calls, ReadRoot
  PROVE  /\ Goes(Dequeuer) /\ call[Dequeuer].pc = "root" /\ call'[Dequeuer].pc = "take"
         /\ call'[Dequeuer].n = 0
         /\ tree[0] \in Enqueuers /\ call'[Dequeuer].rank = tree[0]
         /\ UNCHANGED <<counter, spsc, stamp, tree, accepted, dOut, before, settled, raced>>
<1> DEFINE rank == tree[0]
           l == [Idle EXCEPT !.pc = "take", !.rank = rank]
<1>1. rank \in Enqueuers
  BY Constants DEF ReadRoot, Calls, TypeInv, RanksOrDummy
<1>2. TypeInv /\ Dequeuer \in Callers /\ Goto(Dequeuer, l)
  BY DEF ReadRoot, Calls, Callers
<1> HIDE DEF rank
<1>3. l \in Locals /\ l.pc = "take" /\ l.rank = rank /\ l.n = 0
  BY <1>1, IdleIs DEF Locals, Pcs, RanksOrDummy
<1> HIDE DEF l
<1>4. Goes(Dequeuer) /\ call'[Dequeuer] = l
  BY <1>2, <1>3, GotoIs DEF Goes
<1>5. /\ call[Dequeuer].pc = "root"
      /\ UNCHANGED <<counter, spsc, stamp, tree, accepted, dOut, before, settled, raced>>
  BY DEF ReadRoot
<1> QED BY <1>1, <1>3, <1>4, <1>5 DEF rank

LEMMA TakeIs ==
  ASSUME Calls, Take
  PROVE  LET r == call[Dequeuer].rank
         IN  /\ Goes(Dequeuer) /\ call[Dequeuer].pc = "take"
             /\ Started(call'[Dequeuer], Dequeuer, "front", 0, 1)
             /\ r \in Enqueuers /\ spsc[r] # <<>> /\ Len(spsc[r]) \in Nat \ {0}
             /\ Head(spsc[r]) = spsc[r][1]
             /\ spsc' \in [Enqueuers -> Seq(Elements)]
             /\ \A q \in Enqueuers : q # r => spsc'[q] = spsc[q]
             /\ Len(spsc'[r]) = Len(spsc[r]) - 1
             /\ \A i \in 1..Len(spsc'[r]) : i + 1 \in 1..Len(spsc[r]) /\ spsc'[r][i] = spsc[r][i+1]
             /\ dOut' = spsc[r][1].item /\ RecordGone({spsc[r][1].item}) /\ settled' = {}
             /\ raced' = (raced \/ Refreshing(r))
             /\ UNCHANGED <<counter, stamp, tree, accepted>>
<1> DEFINE r == call[Dequeuer].rank
           l == Start(Dequeuer, "front", 0)
<1>1. TypeInv /\ Dequeuer \in Callers /\ CallInv(Dequeuer) /\ call[Dequeuer].pc = "take"
        /\ r \in Enqueuers
      /\ spsc[r] # <<>>
  BY DEF Take, Calls, Callers, CallInv
<1>2. Goto(Dequeuer, l) /\ dOut' = Head(spsc[r]).item /\ spsc' = [spsc EXCEPT ![r] = Tail(@)]
      /\ RecordGone({Head(spsc[r]).item}) /\ settled' = {}
      /\ raced' = (raced \/ Refreshing(r))
      /\ UNCHANGED <<counter, stamp, tree, accepted>>
  BY DEF Take
<1>3. Started(l, Dequeuer, "front", 0, 1) /\ l \in Locals
  <2>1. "front" \in Pcs /\ 0 \in Nodes
    BY Constants DEF Pcs
  <2>2. Started(l, Dequeuer, "front", 0, 1)
    BY <1>1, <2>1, StartIs
  <2> QED BY <2>2 DEF Started
<1> HIDE DEF l
<1>4. Goes(Dequeuer) /\ Started(call'[Dequeuer], Dequeuer, "front", 0, 1)
  BY <1>1, <1>2, <1>3, GotoIs DEF Goes
<1> HIDE DEF r
<1>5. spsc \in [Enqueuers -> Seq(Elements)] /\ spsc[r] \in Seq(Elements)
  BY <1>1 DEF TypeInv
<1>6. /\ Tail(spsc[r]) \in Seq(Elements) /\ Len(spsc[r]) \in Nat \ {0}
      /\ Len(Tail(spsc[r])) = Len(spsc[r]) - 1 /\ Head(spsc[r]) = spsc[r][1]
      /\ \A i \in 1..Len(Tail(spsc[r])) : Tail(spsc[r])[i] = spsc[r][i+1]
  BY <1>1, <1>5
<1>7. spsc'[r] = Tail(spsc[r])
  BY <1>1, <1>2, <1>5
<1>8. \A i \in 1..Len(spsc'[r]) : i + 1 \in 1..Len(spsc[r])
  <2>1. Len(spsc'[r]) = Len(spsc[r]) - 1 /\ Len(spsc[r]) \in Nat
    BY <1>6, <1>7
  <2> QED BY <2>1
<1>9. spsc' \in [Enqueuers -> Seq(Elements)] /\ \A q \in Enqueuers : q # r => spsc'[q] = spsc[q]
  BY <1>1, <1>2, <1>5, <1>6
<1> QED BY <1>1, <1>2, <1>4, <1>6, <1>7, <1>8, <1>9 DEF r

LEMMA GoesCalls ==
  ASSUME Calls, NEW c \in Callers, Goes(c), CallInv(c)', counter' \in 0..MaxCalls, counter <= counter',
         spsc' \in [Enqueuers -> Seq(Elements)], accepted' \in [Enqueuers -> Nat],
         dOut' = Nothing \/ dOut' \in Enqueuers \X Nat, inQueue' \subseteq Enqueuers \X Nat,
         raced' \in BOOLEAN, UNCHANGED <<stamp, tree>>
  PROVE  Calls'
<1>1. TypeInv'
  BY DEF Goes, Calls, TypeInv, Callers, Locals, Elements, Nodes, RanksOrDummy, Timestamps, MAX,
           DUMMY, Nothing, Pcs
<1>2. ASSUME NEW b \in Callers, b # c PROVE CallInv(b)'
  <2>1. CallInv(b) /\ Same(b) /\ call[b] \in Locals /\ counter \in Nat /\ counter' \in Nat
    BY <1>2, Constants DEF Goes, Calls, TypeInv
  <2>2. call[b].ts \in Nat
    BY <2>1, Constants DEF Locals
  <2>3. \A t \in Nat : (t <= counter => t <= counter') /\ (t < counter => t < counter')
    BY <2>1
  <2> QED BY <2>1, <2>2, <2>3 DEF CallInv, Same, Working, StampPcs, LeafPcs, NodePcs, Scanning,
        DUMMY, Timestamps, MAX
<1> QED BY <1>1, <1>2 DEF Calls, Callers

LEMMA EnqueueCalls ==
  ASSUME Calls, NEW p \in Enqueuers, Enqueueing(p)
  PROVE  Calls'
<1>1. /\ TypeInv /\ p \in Callers /\ p # Dequeuer /\ CallInv(p)
      /\ inQueue \subseteq Enqueuers \X Nat /\ counter \in 0..MaxCalls
      /\ counter <= counter /\ MaxCalls \in Nat /\ accepted \in [Enqueuers -> Nat] /\ raced \in BOOLEAN
      /\ (dOut = Nothing \/ dOut \in Enqueuers \X Nat) /\ spsc \in [Enqueuers -> Seq(Elements)]
           /\ call[p] \in Locals
  <2>1. p \in Callers /\ p # Dequeuer /\ MaxCalls \in Nat
    BY Constants DEF Callers
  <2>2. TypeInv /\ CallInv(p) /\ call[p] \in Locals
    BY <2>1, CallerIs
  <2>3. counter \in 0..MaxCalls /\ counter <= counter
    BY <2>1, <2>2 DEF TypeInv
  <2> QED BY <2>1, <2>2, <2>3 DEF TypeInv
<1>2. before' = before => inQueue' = inQueue
  BY DEF inQueue
<1>3. ASSUME NEW n \in 1..MaxBatch, EnqueueCall(p, n) \/ Node!EnqueueCounts(p, n) PROVE Calls'
  <2>1. /\ Goes(p) /\ call[p].pc = "idle" /\ call'[p].pc \in {"count", "put"} /\ call'[p].rank = p
        /\ call'[p].n = n /\ call'[p].ts = counter
        /\ counter' = IF call'[p].pc = "put" THEN counter + 1 ELSE counter
        /\ counter' <= MaxCalls /\ counter' \in Nat
        /\ RecordCall(Batch(p, n)) /\ UNCHANGED <<spsc, stamp, tree, accepted, dOut, settled, raced>>
    BY <1>3, CallIs
  <2>2. CallInv(p)'
    BY <1>1, <2>1 DEF CallInv, Working, StampPcs, LeafPcs, NodePcs, Scanning
  <2>3. inQueue' \subseteq Enqueuers \X Nat
    <3>1. inQueue' = inQueue \cup Batch(p, n) /\ accepted[p] \in Nat /\ n \in Nat
      BY <1>1, <2>1, Constants, RecordCallIs
    <3> QED BY <1>1, <3>1 DEF Batch
  <2>4. counter' \in 0..MaxCalls /\ counter <= counter'
    BY <1>1, <2>1
  <2> QED BY <1>1, <2>1, <2>2, <2>3, <2>4, GoesCalls
<1>4. CASE Node!TakeTimestamp(p)
  <2>1. /\ Goes(p) /\ call[p].pc = "count" /\ call'[p].pc = "put" /\ call'[p].rank = call[p].rank
        /\ call'[p].n = call[p].n /\ call[p].ts <= call'[p].ts /\ call'[p].ts < counter'
        /\ counter' \in {counter, counter + 1} /\ counter' <= MaxCalls /\ counter' \in Nat
        /\ UNCHANGED <<spsc, stamp, tree, accepted, dOut, before, settled, raced>>
    BY <1>4, TimestampTaken
  <2>2. CallInv(p)'
    BY <1>1, <2>1 DEF CallInv, Working, StampPcs, LeafPcs, NodePcs, Scanning
  <2>3. counter' \in 0..MaxCalls /\ counter <= counter'
    BY <1>1, <2>1
  <2> QED BY <1>1, <1>2, <2>1, <2>2, <2>3, GoesCalls
<1>5. ASSUME NEW pc \in {"check", "front"}, Put(p, pc) PROVE Calls'
  <2>1. /\ Goes(p) /\ call[p].pc = "put" /\ call'[p].pc = pc /\ call'[p].rank = p
        /\ call'[p].n = call[p].n /\ call'[p].ts = call[p].ts
        /\ spsc' \in [Enqueuers -> Seq(Elements)]
        /\ raced' = (raced \/ (pc = "front" /\ Serves(p)))
        /\ UNCHANGED <<counter, stamp, tree, accepted, dOut, before, settled>>
    BY <1>5, PutIs
  <2>2. CallInv(p)'
    BY <1>1, <1>5, <2>1 DEF CallInv, Working, StampPcs, LeafPcs, NodePcs, Scanning
  <2>3. raced' \in BOOLEAN
    BY <2>1
  <2> QED BY <1>1, <1>2, <2>1, <2>2, <2>3, GoesCalls
<1>6. CASE EnqueueFull(p)
  <2>1. /\ Goes(p) /\ call'[p] = Idle /\ RecordGone(Batch(p, call[p].n))
        /\ UNCHANGED <<counter, spsc, stamp, tree, accepted, dOut, settled, raced>>
    BY <1>6, FullIs
  <2>2. CallInv(p)'
    BY <1>1, <2>1, IdleIs DEF CallInv, Working, StampPcs, LeafPcs, NodePcs, Scanning
  <2>3. inQueue' \subseteq Enqueuers \X Nat
    BY <1>1, <2>1, RecordGoneIs
  <2> QED BY <1>1, <2>1, <2>2, <2>3, GoesCalls
<1>7. CASE CheckFront(p)
  <2>1. /\ Goes(p) /\ call[p].pc = "check" /\ call[p].rank = p
        /\ UNCHANGED <<counter, spsc, stamp, tree, dOut, before, settled>>
        /\ \/ call'[p].pc = "front" /\ call'[p].rank = p /\ call'[p].n = call[p].n
                /\ accepted' = accepted /\ raced' = (raced \/ Serves(p))
           \/ call'[p] = Idle /\ Accept(p) /\ raced' = raced
    BY <1>7, CheckIs
  <2>2. CallInv(p)'
    BY <1>1, <2>1, IdleIs DEF CallInv, Working, StampPcs, LeafPcs, NodePcs, Scanning
  <2>3. accepted' \in [Enqueuers -> Nat]
    BY <1>1, <2>1, AcceptIs
  <2> QED BY <1>1, <1>2, <2>1, <2>2, <2>3, GoesCalls
<1>8. CASE Refresh(p)
  BY <1>1, <1>8, RefreshCalls
<1> QED BY <1>3, <1>4, <1>5, <1>6, <1>7, <1>8 DEF Enqueueing

LEMMA DequeueCalls ==
  ASSUME Calls, Dequeueing
  PROVE  Calls'
<1>1. /\ TypeInv /\ Dequeuer \in Callers /\ CallInv(Dequeuer)
      /\ inQueue \subseteq Enqueuers \X Nat /\ counter \in 0..MaxCalls
      /\ counter <= counter /\ accepted \in [Enqueuers -> Nat] /\ raced \in BOOLEAN
      /\ (dOut = Nothing \/ dOut \in Enqueuers \X Nat) /\ spsc \in [Enqueuers -> Seq(Elements)]
  BY Constants DEF Calls, TypeInv, Callers
<1>2. before' = before => inQueue' = inQueue
  BY DEF inQueue
<1>3. CASE DequeueCall
  <2>1. /\ Goes(Dequeuer) /\ call'[Dequeuer].pc = "root" /\ call'[Dequeuer].n = 0
        /\ UNCHANGED <<counter, spsc, stamp, tree, accepted, dOut, before, raced>>
    BY <1>3, DequeueCallIs
  <2>2. CallInv(Dequeuer)'
    BY <1>1, <2>1 DEF CallInv, Working, StampPcs, LeafPcs, NodePcs, Scanning
  <2> QED BY <1>1, <1>2, <2>1, <2>2, GoesCalls
<1>4. CASE ReadRootDummy \/ TakeNothing
  <2>1. /\ Goes(Dequeuer) /\ call'[Dequeuer] = Idle /\ dOut' = Nothing
        /\ UNCHANGED <<counter, spsc, stamp, tree, accepted, before, raced>>
    BY <1>4, ReturnsFalse
  <2>2. CallInv(Dequeuer)'
    BY <1>1, <2>1, IdleIs DEF CallInv, Working, StampPcs, LeafPcs, NodePcs, Scanning
  <2> QED BY <1>1, <1>2, <2>1, <2>2, GoesCalls
<1>5. CASE ReadRoot
  <2>1. /\ Goes(Dequeuer) /\ call'[Dequeuer].pc = "take" /\ call'[Dequeuer].n = 0
        /\ tree[0] \in Enqueuers /\ call'[Dequeuer].rank = tree[0]
        /\ UNCHANGED <<counter, spsc, stamp, tree, accepted, dOut, before, settled, raced>>
    BY <1>5, ReadRootIs
  <2>2. CallInv(Dequeuer)'
    BY <1>1, <2>1 DEF CallInv, Working, StampPcs, LeafPcs, NodePcs, Scanning
  <2> QED BY <1>1, <1>2, <2>1, <2>2, GoesCalls
<1>6. CASE Take
  <2> DEFINE r == call[Dequeuer].rank
  <2>1. /\ Goes(Dequeuer) /\ Started(call'[Dequeuer], Dequeuer, "front", 0, 1)
        /\ r \in Enqueuers /\ Len(spsc[r]) \in Nat \ {0}
        /\ spsc' \in [Enqueuers -> Seq(Elements)]
        /\ dOut' = spsc[r][1].item /\ RecordGone({spsc[r][1].item})
        /\ raced' = (raced \/ Refreshing(r))
        /\ UNCHANGED <<counter, stamp, tree, accepted>>
    BY <1>6, TakeIs
  <2>2. CallInv(Dequeuer)'
    BY <1>1, <2>1 DEF CallInv, Working, StampPcs, LeafPcs, NodePcs, Scanning, Started
  <2>3. inQueue' \subseteq Enqueuers \X Nat
    BY <1>1, <2>1, RecordGoneIs
  <2>4. dOut' \in Enqueuers \X Nat
    <3>1. spsc[r][1] \in Elements
      BY <1>1, <2>1
    <3> QED BY <2>1, <3>1 DEF Elements
  <2>5. raced' \in BOOLEAN
    BY <2>1
  <2> HIDE DEF r
  <2> QED BY <1>1, <2>1, <2>2, <2>3, <2>4, <2>5, GoesCalls
<1>7. CASE Refresh(Dequeuer)
  BY <1>1, <1>7, RefreshCalls
<1> QED BY <1>3, <1>4, <1>5, <1>6, <1>7 DEF Dequeueing

--------------------------------------------------------------------------------
(* A node names only ranks whose leaf is below it. *)

(* A node, and what is about to be written to it, names ranks on whose path it is. *)
PathCall(c) ==
  /\ call[c].pc \in NodePcs =>
       OnPath(call[c].rank, call[c].index)
         /\ (call[c].value # DUMMY => OnPath(call[c].value, call[c].index))
  /\ call[c].pc = "childStamp" => OnPath(call[c].seen, call[c].child)

PathInv ==
  /\ \A i \in Nodes : tree[i] # DUMMY => OnPath(tree[i], i)
  /\ \A c \in Callers : PathCall(c)

LEMMA ChildParent ==
  ASSUME NEW i \in Nodes, NEW j \in {Left(i), Right(i)} \cap Nodes
  PROVE  j # 0 /\ Parent(j) = i
BY LTTreeAssumption DEF Nodes, Left, Right, Parent, LTTreeAssumption

LEMMA SamePath ==
  ASSUME NEW b \in Callers, PathCall(b), Same(b)
  PROVE  PathCall(b)'
BY DEF PathCall, Same, NodePcs, Scanning, DUMMY

LEMMA GoesPath ==
  ASSUME Calls, PathInv, NEW c \in Callers, Goes(c), call'[c].pc \notin NodePcs, tree' = tree
  PROVE  PathInv'
<1>1. PathCall(c)'
  BY DEF PathCall, NodePcs, Scanning
<1>2. \A b \in Callers : b # c => PathCall(b)'
  BY SamePath DEF PathInv, Goes
<1> QED BY <1>1, <1>2 DEF PathInv, Callers, Nodes, DUMMY

LEMMA RefreshPath ==
  ASSUME Calls, PathInv, NEW c \in Callers, Refresh(c)
  PROVE  PathInv'
<1>1. TypeInv /\ CallInv(c) /\ PathCall(c) /\ call[c] \in Locals /\ \A b \in Callers : b # c => Same(b)
  BY CallerIs, RefreshCalls DEF Kept, PathInv
<1>2. ASSUME PathCall(c)', \A i \in Nodes : tree'[i] # DUMMY => OnPath(tree'[i], i) PROVE PathInv'
  BY <1>1, <1>2, SamePath DEF PathInv, Callers, Nodes, DUMMY
<1>3. \A i \in Nodes : tree[i] # DUMMY => OnPath(tree[i], i)
  BY DEF PathInv
<1>4. ASSUME call'[c].pc \notin NodePcs PROVE PathCall(c)'
  BY <1>4 DEF PathCall, NodePcs, Scanning
<1>5. ASSUME NEW pc \in StampPcs \cup LeafPcs, Advances(c, pc), tree' = tree PROVE PathInv'
  <2>1. call'[c].pc \notin NodePcs
    BY <1>5 DEF Advances, StampPcs, LeafPcs, NodePcs, Scanning
  <2> QED BY <1>2, <1>3, <1>4, <1>5, <2>1
<1>6. CASE ReadFront(c) \/ ReadStamp(c) \/ ReadLeafStamp(c) \/ ReadLeaf(c)
  <2>1. tree' = tree /\ \E pc \in StampPcs \cup LeafPcs : Advances(c, pc)
    BY <1>6, ReadFrontIs, ReadStampIs, ReadLeafStampIs, ReadLeafIs
       DEF ReadFront, ReadStamp, ReadLeafStamp, ReadLeaf, StampPcs, LeafPcs
  <2> QED BY <1>5, <2>1
<1>7. CASE ReadNode(c)
  <2>1. Advances(c, "child") /\ call'[c].value = call[c].value /\ tree' = tree /\ call[c].pc = "node"
    BY <1>7, ReadNodeIs DEF ReadNode
  <2>2. PathCall(c)'
    BY <1>1, <2>1 DEF PathCall, Advances, NodePcs, Scanning, DUMMY
  <2> QED BY <1>2, <1>3, <2>1, <2>2
<1>8. CASE ReadChild(c)
  <2>1. call'[c].value = call[c].value /\ tree' = tree /\ call[c].pc = "child"
          /\ call[c].child \in Nodes
    BY <1>8, ReadChildIs DEF ReadChild
  <2>2. CASE Continues(c)
    <3>1. PathCall(c)'
      BY <1>1, <2>1, <2>2 DEF PathCall, Continues, Advances, NodePcs, Scanning, DUMMY
    <3> QED BY <1>2, <1>3, <2>1, <3>1
  <2>3. CASE ~Continues(c)
    <3>1. /\ Advances(c, "childStamp") /\ call'[c].seen = tree[call[c].child]
          /\ call'[c].child = call[c].child
          /\ tree[call[c].child] # DUMMY
      BY <1>8, <2>3, ReadChildIs
    <3>2. OnPath(tree[call[c].child], call[c].child)
      BY <1>3, <2>1, <3>1
    <3>3. PathCall(c)'
      BY <1>1, <2>1, <3>1, <3>2 DEF PathCall, Advances, NodePcs, Scanning, DUMMY
    <3> QED BY <1>2, <1>3, <2>1, <3>3
  <2> QED BY <2>2, <2>3
<1>9. CASE ReadChildStamp(c)
  <2>1. /\ Continues(c) /\ tree' = tree /\ call[c].pc = "childStamp" /\ call[c].seen \in Enqueuers
        /\ call'[c].value \in {call[c].value, call[c].seen}
    BY <1>9, ReadChildStampIs DEF ReadChildStamp
  <2>2. OnPath(call[c].seen, call[c].index)
    <3>1. /\ OnPath(call[c].seen, call[c].child) /\ call[c].index \in Nodes
          /\ call[c].child \in {Left(call[c].index), Right(call[c].index)} \cap Nodes
      BY <1>1, <2>1 DEF PathCall, CallInv, Locals
    <3>2. call[c].seen \in Ranks
      BY <2>1, Constants
    <3> QED BY <3>1, <3>2, ChildParent, PathUp
  <2>3. PathCall(c)'
    BY <1>1, <2>1, <2>2 DEF PathCall, Continues, Advances, NodePcs, Scanning, DUMMY
  <2> QED BY <1>2, <1>3, <2>1, <2>3
<1>10. CASE SwapStamp(c)
  <2>1. tree' = tree /\ call'[c].pc \notin NodePcs
    BY <1>10, SwapStampIs DEF SwapStamp, Started, NodePcs, Scanning
  <2> QED BY <1>2, <1>3, <1>4, <2>1
<1>11. ASSUME tree' = Written(c), call[c].value \in RanksOrDummy, call[c].index \in Nodes,
              call[c].value # DUMMY => OnPath(call[c].value, call[c].index)
       PROVE  \A i \in Nodes : tree'[i] # DUMMY => OnPath(tree'[i], i)
  <2>1. \A i \in Nodes : tree'[i] \in {tree[i], IF i = call[c].index THEN call[c].value ELSE tree[i]}
    BY <1>1, <1>11 DEF Written, TypeInv
  <2> QED BY <1>3, <1>11, <2>1
<1>12. CASE SwapLeaf(c)
  <2>1. /\ call[c].rank \in Enqueuers /\ call[c].index = Leaf(call[c].rank) /\ tree' = Written(c)
        /\ call[c].value \in {DUMMY, call[c].rank} /\ call[c].index \in Nodes
        /\ \/ call'[c].pc = "node" /\ call'[c].index = Parent(call[c].index) /\ call'[c].value = DUMMY
              /\ call'[c].rank = call[c].rank
           \/ call'[c].pc = "leafStamp"
    BY <1>1, <1>12, SwapLeafIs DEF SwapLeaf, Started, CallInv, Locals
  <2>2. OnPath(call[c].rank, call[c].index) /\ OnPath(call[c].rank, Parent(call[c].index))
    BY <2>1, Constants, LeafIs, PathUp
  <2>3. \A i \in Nodes : tree'[i] # DUMMY => OnPath(tree'[i], i)
    BY <1>11, <2>1, <2>2 DEF RanksOrDummy
  <2>4. PathCall(c)'
    BY <2>1, <2>2 DEF PathCall, NodePcs, Scanning, DUMMY
  <2> QED BY <1>2, <2>3, <2>4
<1>13. CASE SwapNode(c)
  <2>1. /\ call[c].index \in Nodes /\ call[c].rank \in Enqueuers /\ tree' = Written(c)
        /\ call[c].pc = "swapNode"
        /\ \/ /\ call'[c].rank = call[c].rank /\ call'[c].value = DUMMY
              /\ call'[c].pc = "node"
              /\ call'[c].index = call[c].index
                   \/ (call[c].index # 0 /\ call'[c].index = Parent(call[c].index))
           \/ call'[c] = Idle
    BY <1>13, SwapNodeIs DEF SwapNode, Started
  <2>2. call[c].value \in RanksOrDummy /\ OnPath(call[c].rank, call[c].index)
        /\ (call[c].value # DUMMY => OnPath(call[c].value, call[c].index))
    BY <1>1, <2>1 DEF CallInv, PathCall, NodePcs, Scanning
  <2>3. call[c].index # 0 => OnPath(call[c].rank, Parent(call[c].index))
    BY <2>1, <2>2, Constants, PathUp
  <2>4. PathCall(c)'
    <3>1. CASE call'[c] = Idle
      BY <1>4, <3>1, IdleIs DEF NodePcs, Scanning
    <3>2. CASE call'[c] # Idle
      BY <2>1, <2>2, <2>3, <3>2 DEF PathCall, NodePcs, Scanning, DUMMY
    <3> QED BY <3>1, <3>2
  <2> QED BY <1>2, <1>11, <2>1, <2>2, <2>4
<1> QED BY <1>6, <1>7, <1>8, <1>9, <1>10, <1>12, <1>13 DEF Refresh, RefreshTimestamp,
      RefreshSelfNode, RefreshNode

(* All other steps leave the tree alone. *)
LEMMA PathStep ==
  ASSUME Calls, PathInv, (\E p \in Enqueuers : Enqueueing(p)) \/ Dequeueing
  PROVE  PathInv'
<1>1. ASSUME NEW p \in Enqueuers, Enqueueing(p) PROVE PathInv'
  <2>1. CASE Refresh(p)
    BY <2>1, RefreshPath DEF Callers
  <2>2. CASE ~Refresh(p)
    <3>1. Goes(p) /\ tree' = tree /\ call'[p].pc \notin NodePcs /\ p \in Callers
      BY <1>1, <2>2, CallIs, TimestampTaken, PutIs, FullIs, CheckIs, IdleIs DEF Enqueueing, NodePcs,
           Scanning, Callers
    <3> QED BY <3>1, GoesPath
  <2> QED BY <2>1, <2>2
<1>2. CASE Dequeueing
  <2>1. CASE Refresh(Dequeuer)
    BY <2>1, RefreshPath DEF Callers
  <2>2. CASE ~Refresh(Dequeuer)
    <3>1. Goes(Dequeuer) /\ tree' = tree /\ call'[Dequeuer].pc \notin NodePcs
      BY <1>2, <2>2, DequeueCallIs, ReturnsFalse, ReadRootIs, TakeIs, IdleIs DEF Dequeueing, NodePcs,
           Scanning, Started
    <3> QED BY <3>1, GoesPath DEF Callers
  <2> QED BY <2>1, <2>2
<1> QED BY <1>1, <1>2

LEMMA CallsStep ==
  ASSUME Calls, (\E p \in Enqueuers : Enqueueing(p)) \/ Dequeueing
  PROVE  Calls'
BY EnqueueCalls, DequeueCalls

LEMMA Initially == Init => Calls /\ PathInv
<1> SUFFICES ASSUME Init PROVE Calls /\ PathInv
  OBVIOUS
<1>1. stamp \in [Enqueuers -> Timestamps] /\ tree = [i \in Nodes |-> DUMMY] /\ NoCalls
  BY InitIs
<1>2. inQueue = {}
  BY <1>1 DEF NoCalls, inQueue
<1>3. TypeInv
  <2>1. <<>> \in Seq(Elements)
    OBVIOUS
  <2>2. spsc \in [Enqueuers -> Seq(Elements)] /\ tree \in [Nodes -> RanksOrDummy]
    BY <1>1, <2>1 DEF NoCalls, RanksOrDummy
  <2>3. stamp \in [Enqueuers -> Timestamps] /\ call \in [Callers -> Locals]
    BY <1>1, Constants, IdleIs DEF NoCalls
  <2>4. counter = 0 /\ accepted = [p \in Enqueuers |-> 0] /\ dOut = Nothing /\ raced = FALSE
    BY <1>1 DEF NoCalls
  <2>5. accepted \in [Enqueuers -> Nat] /\ raced \in BOOLEAN
    BY <2>4
  <2>6. 0 \in 0..MaxCalls
    BY LTTreeAssumption DEF LTTreeAssumption
  <2> QED BY <1>2, <2>2, <2>3, <2>4, <2>5, <2>6 DEF TypeInv
<1>4. \A c \in Callers : call[c] = Idle
  BY <1>1 DEF NoCalls
<1>5. \A c \in Callers : CallInv(c) /\ PathCall(c)
  BY <1>4, IdleIs DEF CallInv, PathCall, Working, StampPcs, LeafPcs, NodePcs, Scanning
<1> QED BY <1>1, <1>3, <1>5 DEF Calls, PathInv

LEMMA CallsStutter ==
  ASSUME UNCHANGED <<vars, class>>
  PROVE  (Calls => Calls') /\ (PathInv => PathInv')
<1> USE DEF vars
<1>1. Calls => Calls'
  BY DEF Calls, TypeInv, CallInv, Callers, Locals, Elements, Nodes, RanksOrDummy, Timestamps, MAX,
           DUMMY, inQueue,
         Nothing, Pcs, Working, StampPcs, LeafPcs, NodePcs, Scanning, Leaf, Left, Right
<1>2. PathInv => PathInv'
  BY DEF PathInv, PathCall, Callers, Nodes, DUMMY, NodePcs, Scanning
<1> QED BY <1>1, <1>2

(* Types and locals, and a node names only ranks whose way to the root leads over it. *)
THEOREM TypesInductive == Spec => [](Calls /\ PathInv)
<1>1. Init => Calls /\ PathInv
  BY Initially
<1>2. Calls /\ PathInv /\ [Next]_<<vars, class>> => Calls' /\ PathInv'
  BY CallsStutter, StepIs, PathStep, CallsStep
<1> QED BY <1>1, <1>2, PTL DEF Spec

--------------------------------------------------------------------------------
(* The SPSCs. *)

(* What the SPSC of rank p holds: its elements, in order, with timestamps that do not decrease. *)
SpscInv(p) ==
  /\ \A i \in 1..Len(spsc[p]) :
       /\ spsc[p][i].item[1] = p /\ spsc[p][i].item \in inQueue
       /\ spsc[p][i].ts < Bound(p) /\ spsc[p][i].item[2] <= Granted(p)
       /\ call[p].pc = "check" => (spsc[p][i].ts = call[p].ts <=> spsc[p][i].item[2] > accepted[p])
  /\ \A i, j \in 1..Len(spsc[p]) :
       i < j => spsc[p][i].ts <= spsc[p][j].ts /\ spsc[p][i].item[2] < spsc[p][j].item[2]
  /\ Putting(p) => Batch(p, call[p].n) \subseteq inQueue

LEMMA LocalsIs ==
  ASSUME NEW l \in Locals
  PROVE  l.n \in Nat /\ l.ts \in Nat /\ l.ts \in Timestamps /\ l.index \in Nodes /\ l.index \in Nat
<1>1. l.n \in 0..MaxBatch /\ l.ts \in Timestamps /\ l.index \in Nodes
  BY DEF Locals
<1>2. \A n \in 0..MaxBatch : n \in Nat
  BY LTTreeAssumption DEF LTTreeAssumption
<1>3. \A t \in Timestamps : t \in Nat
  BY LTTreeAssumption DEF LTTreeAssumption, Timestamps, MAX
<1> QED BY <1>1, <1>2, <1>3, Constants

LEMMA BoundIs ==
  ASSUME Calls, NEW p \in Enqueuers
  PROVE  /\ Bound(p) \in Nat /\ Bound(p) <= counter /\ counter \in Nat /\ call[p].ts \in Nat
         /\ Granted(p) \in Nat /\ accepted[p] \in Nat /\ call[p].n \in Nat /\ accepted[p] <= Granted(p)
         /\ Granted(p) <= accepted[p] + call[p].n
         /\ p \in Callers /\ p # Dequeuer /\ call[p] \in Locals
<1>1. TypeInv /\ CallInv(p) /\ call[p] \in Locals /\ p \in Callers /\ p # Dequeuer
  BY Constants, CallerIs DEF Callers
<1>2. counter \in Nat /\ accepted[p] \in Nat
  BY <1>1, Constants DEF TypeInv
<1>3. call[p].n \in Nat /\ call[p].ts \in Nat
  BY <1>1, LocalsIs
<1> QED BY <1>1, <1>2, <1>3 DEF Bound, Granted, Putting, CallInv

LEMMA BoundNext ==
  ASSUME Calls', NEW p \in Enqueuers
  PROVE  Bound(p)' \in Nat /\ Granted(p)' \in Nat /\ counter' \in Nat
<1>1. counter' \in Nat /\ accepted'[p] \in Nat /\ call'[p] \in Locals
  BY Constants DEF Calls, TypeInv, Callers, Locals, Nodes, RanksOrDummy, Timestamps, MAX, DUMMY, Pcs
<1>2. call'[p].n \in Nat /\ call'[p].ts \in Nat
  BY <1>1, LocalsIs
<1> QED BY <1>1, <1>2 DEF Bound, Granted

LEMMA EntryIs ==
  ASSUME Calls, NEW p \in Enqueuers, NEW i \in 1..Len(spsc[p])
  PROVE  /\ spsc[p][i] \in Elements /\ spsc[p][i].ts \in Nat /\ spsc[p][i].ts < MAX
         /\ spsc[p][i].item[2] \in Nat
         /\ spsc[p][i].item \in Enqueuers \X Nat /\ spsc[p][i].ts \in Timestamps
<1>1. spsc[p][i] \in Elements
  BY FrontType DEF Calls
<1> QED BY <1>1, Constants DEF Elements, Timestamps

LEMMA BatchIs ==
  ASSUME TypeInv, NEW p \in Enqueuers, NEW n \in Nat, NEW x \in Enqueuers \X Nat
  PROVE  x \in Batch(p, n) <=> x[1] = p /\ x[2] > accepted[p] /\ x[2] <= accepted[p] + n
<1>1. accepted[p] \in Nat /\ x = <<x[1], x[2]>> /\ x[2] \in Nat
  BY DEF TypeInv
<1>2. ASSUME x[1] = p, x[2] > accepted[p], x[2] <= accepted[p] + n PROVE x \in Batch(p, n)
  <2>1. x[2] - accepted[p] \in 1..n /\ x[2] = accepted[p] + (x[2] - accepted[p])
    BY <1>1, <1>2
  <2> QED BY <1>1, <1>2, <2>1 DEF Batch
<1>3. ASSUME x \in Batch(p, n) PROVE x[1] = p /\ x[2] > accepted[p] /\ x[2] <= accepted[p] + n
  <2>1. PICK i \in 1..n : x = <<p, accepted[p] + i>>
    BY <1>3 DEF Batch
  <2> QED BY <1>1, <2>1
<1> QED BY <1>2, <1>3

(* Steps that leave the SPSC of p alone. *)
LEMMA SpscKept ==
  ASSUME Calls, Calls', NEW p \in Enqueuers, SpscInv(p), spsc'[p] = spsc[p],
         Bound(p) <= Bound(p)', Granted(p) <= Granted(p)',
         \A x \in inQueue : x[1] = p /\ x[2] <= Granted(p) => x \in inQueue',
         call'[p].pc = "check" =>
           call[p].pc = "check" /\ call'[p].ts = call[p].ts /\ accepted'[p] = accepted[p],
         Putting(p)' => Batch(p, call[p].n)' \subseteq inQueue'
  PROVE  SpscInv(p)'
<1>1. /\ Bound(p) \in Nat /\ Bound(p)' \in Nat /\ Granted(p) \in Nat /\ Granted(p)' \in Nat
  BY BoundIs, BoundNext
<1>2. ASSUME NEW i \in 1..Len(spsc[p])
      PROVE  /\ spsc[p][i].item[1] = p /\ spsc[p][i].item \in inQueue'
             /\ spsc[p][i].ts < Bound(p)' /\ spsc[p][i].item[2] <= Granted(p)'
             /\ call'[p].pc = "check" =>
                  (spsc[p][i].ts = call'[p].ts <=> spsc[p][i].item[2] > accepted'[p])
  <2>1. /\ spsc[p][i].item[1] = p /\ spsc[p][i].item \in inQueue
        /\ spsc[p][i].ts < Bound(p) /\ spsc[p][i].item[2] <= Granted(p)
        /\ call[p].pc = "check" => (spsc[p][i].ts = call[p].ts <=> spsc[p][i].item[2] > accepted[p])
    BY DEF SpscInv
  <2>2. spsc[p][i].ts \in Nat /\ spsc[p][i].item[2] \in Nat
    BY EntryIs
  <2> QED BY <1>1, <2>1, <2>2
<1>3. \A i, j \in 1..Len(spsc[p]) :
       i < j => spsc[p][i].ts <= spsc[p][j].ts /\ spsc[p][i].item[2] < spsc[p][j].item[2]
  BY DEF SpscInv
<1> QED BY <1>2, <1>3 DEF SpscInv

LEMMA OthersSpsc ==
  ASSUME Calls, Calls',
           NEW p \in Enqueuers, SpscInv(p), Same(p), spsc'[p] = spsc[p], accepted'[p] = accepted[p],
         counter \in Nat, counter' \in Nat, counter <= counter',
         \A x \in inQueue : x[1] = p => x \in inQueue'
  PROVE  SpscInv(p)'
<1>1. call'[p].pc = call[p].pc /\ call'[p].n = call[p].n /\ call'[p].ts = call[p].ts
        /\ call[p].ts \in Nat
  BY BoundIs DEF Same
<1>2. Bound(p) <= Bound(p)' /\ Granted(p)' = Granted(p) /\ Granted(p) \in Nat
  BY <1>1, BoundIs DEF Bound, Granted, Putting, Working, StampPcs, LeafPcs, NodePcs, Scanning
<1>3. Putting(p)' = Putting(p) /\ Batch(p, call[p].n)' = Batch(p, call[p].n)
  BY <1>1 DEF Putting, Batch
<1>4. \A x \in Batch(p, call[p].n) : x[1] = p
  BY DEF Batch
<1>5. Granted(p) <= Granted(p)'
  BY <1>2
<1>6. Putting(p)' => Batch(p, call[p].n)' \subseteq inQueue'
  BY <1>3, <1>4 DEF SpscInv
<1> QED BY <1>1, <1>2, <1>5, <1>6, SpscKept

LEMMA EnqueueSpsc ==
  ASSUME Calls, Calls', NEW p \in Enqueuers, Enqueueing(p), \A q \in Enqueuers : SpscInv(q)
  PROVE  \A q \in Enqueuers : SpscInv(q)'
<1>1. /\ counter \in Nat /\ counter' \in Nat /\ SpscInv(p) /\ p \in Callers /\ p # Dequeuer /\ TypeInv
      /\ inQueue \subseteq Enqueuers \X Nat /\ accepted[p] \in Nat /\ call[p].n \in Nat
      /\ accepted \in [Enqueuers -> Nat]
  <2>1. counter \in Nat /\ counter' \in Nat /\ p \in Callers /\ p # Dequeuer
          /\ accepted[p] \in Nat /\ call[p].n \in Nat
    BY BoundIs, BoundNext
  <2> QED BY <2>1 DEF Calls, TypeInv
<1>2. before' = before => inQueue' = inQueue
  BY DEF inQueue
<1>3. ASSUME \A b \in Callers : b # p => Same(b), \A q \in Enqueuers : q # p => spsc'[q] = spsc[q],
             \A q \in Enqueuers : q # p => accepted'[q] = accepted[q],
             counter <= counter', \A x \in inQueue : x[1] # p => x \in inQueue'
      PROVE  \A q \in Enqueuers : q # p => SpscInv(q)'
  <2> SUFFICES ASSUME NEW q \in Enqueuers, q # p PROVE SpscInv(q)'
    OBVIOUS
  <2>1. q \in Callers
    BY DEF Callers
  <2> QED BY <1>1, <1>3, <2>1, OthersSpsc
<1>4. ASSUME NEW n \in 1..MaxBatch, EnqueueCall(p, n) \/ Node!EnqueueCounts(p, n)
      PROVE  \A q \in Enqueuers : SpscInv(q)'
  <2>1. /\ Goes(p) /\ call[p].pc = "idle" /\ call'[p].pc \in {"count", "put"} /\ call'[p].n = n
        /\ call'[p].ts = counter
        /\ counter <= counter' /\ RecordCall(Batch(p, n)) /\ spsc' = spsc /\ accepted' = accepted
    BY <1>1, <1>4, CallIs
  <2>2. inQueue' = inQueue \cup Batch(p, n) /\ Batch(p, call[p].n)' = Batch(p, n)
    BY <2>1, RecordCallIs DEF Batch
  <2>3. Bound(p)' = Bound(p) /\ Granted(p)' = Granted(p)
    BY <1>1, <2>1 DEF Bound, Granted, Putting, Working, StampPcs, LeafPcs, NodePcs, Scanning
  <2>4. Bound(p) <= Bound(p)' /\ Granted(p) <= Granted(p)'
    BY <2>3, BoundIs
  <2>5. SpscInv(p)'
    BY <1>1, <2>1, <2>2, <2>4, SpscKept
  <2> QED BY <1>3, <2>1, <2>2, <2>5 DEF Goes
<1>5. CASE Node!TakeTimestamp(p)
  <2>1. /\ Goes(p) /\ call[p].pc = "count" /\ call'[p].pc = "put" /\ call'[p].n = call[p].n
        /\ call[p].ts <= call'[p].ts
        /\ counter <= counter' /\ spsc' = spsc /\ accepted' = accepted /\ inQueue' = inQueue
    BY <1>1, <1>2, <1>5, TimestampTaken
  <2>2. Bound(p) <= Bound(p)' /\ Granted(p)' = Granted(p) /\ Batch(p, call[p].n)' = Batch(p, call[p].n)
    BY <1>1, <2>1 DEF Bound, Granted, Putting, Working, StampPcs, LeafPcs, NodePcs, Scanning, Batch
  <2>3. Granted(p) <= Granted(p)' /\ Putting(p) /\ call'[p].pc # "check"
    BY <2>1, <2>2, BoundIs DEF Putting
  <2>4. Batch(p, call[p].n)' \subseteq inQueue' /\ \A x \in inQueue : x \in inQueue'
    BY <1>1, <2>1, <2>2, <2>3 DEF SpscInv
  <2>5. SpscInv(p)'
    BY <1>1, <2>1, <2>2, <2>3, <2>4, SpscKept
  <2> QED BY <1>3, <2>1, <2>4, <2>5 DEF Goes
<1>6. CASE EnqueueFull(p)
  <2>1. /\ Goes(p) /\ call[p].pc = "put" /\ call'[p] = Idle /\ RecordGone(Batch(p, call[p].n))
        /\ spsc' = spsc /\ accepted' = accepted /\ counter' = counter /\ call'[p].pc = "idle"
    BY <1>6, FullIs, IdleIs
  <2>2. inQueue' = inQueue \ Batch(p, call[p].n)
    BY <2>1, RecordGoneIs
  <2>3. Bound(p) <= Bound(p)' /\ Granted(p) <= Granted(p)' /\ Granted(p) = accepted[p]
    <3>1. Bound(p)' = counter /\ Granted(p)' = accepted[p] /\ Granted(p) = accepted[p]
      BY <1>1, <2>1 DEF Bound, Granted, Putting, Working, StampPcs, LeafPcs, NodePcs, Scanning
    <3> QED BY <1>1, <3>1, BoundIs
  <2>4. \A x \in inQueue : x[2] <= Granted(p) => x \in inQueue'
    BY <1>1, <2>2, <2>3, BatchIs
  <2>5. SpscInv(p)' /\ counter <= counter'
    BY <1>1, <2>1, <2>3, <2>4, SpscKept DEF Putting
  <2>6. \A x \in inQueue : x[1] # p => x \in inQueue'
    BY <1>1, <2>2, BatchIs
  <2> QED BY <1>3, <2>1, <2>5, <2>6 DEF Goes
<1>7. CASE CheckFront(p) \/ Refresh(p)
  <2>1. /\ \A b \in Callers : b # p => Same(b)
        /\ spsc' = spsc /\ counter' = counter /\ inQueue' = inQueue /\ Working(p)
        /\ \/ Refreshes(p)' /\ call'[p].n = call[p].n /\ accepted' = accepted
           \/ call'[p] = Idle /\ Accept(p)
    BY <1>1, <1>2, <1>7, CheckIs, RefreshCalls
       DEF Kept, Goes, Refreshes, Working, StampPcs, LeafPcs, NodePcs, Scanning
  <2>2. /\ accepted' \in [Enqueuers -> Nat] /\ \A q \in Enqueuers : q # p => accepted'[q] = accepted[q]
        /\ Granted(p)' = Granted(p)
    <3>1. CASE call'[p] = Idle /\ Accept(p)
      BY <1>1, <2>1, <3>1, AcceptIs, IdleIs DEF Granted, Working, StampPcs, LeafPcs, NodePcs, Scanning
    <3>2. CASE Refreshes(p)' /\ call'[p].n = call[p].n /\ accepted' = accepted
      BY <1>1, <2>1, <3>2 DEF Granted, Working, Refreshes, StampPcs, LeafPcs, NodePcs, Scanning
    <3> QED BY <2>1, <3>1, <3>2
  <2>3. ~Putting(p) /\ ~Putting(p)' /\ call'[p].pc # "check" /\ Bound(p)' = Bound(p)
    BY <2>1, IdleIs DEF Bound, Putting, Working, Refreshes, StampPcs, LeafPcs, NodePcs, Scanning
  <2>4. Bound(p) <= Bound(p)' /\ Granted(p) <= Granted(p)' /\ counter <= counter'
    BY <1>1, <2>1, <2>2, <2>3, BoundIs
  <2>5. SpscInv(p)'
    BY <1>1, <2>1, <2>3, <2>4, SpscKept
  <2> QED BY <1>3, <2>1, <2>2, <2>4, <2>5
<1>8. ASSUME NEW pc \in {"check", "front"}, Put(p, pc) PROVE \A q \in Enqueuers : SpscInv(q)'
  <2>1. /\ Goes(p) /\ call[p].pc = "put" /\ call'[p].pc = pc /\ call'[p].n = call[p].n
        /\ call'[p].ts = call[p].ts
        /\ \A q \in Enqueuers : q # p => spsc'[q] = spsc[q]
        /\ Len(spsc[p]) \in Nat /\ Len(spsc'[p]) = Len(spsc[p]) + call[p].n
        /\ \A i \in 1..Len(spsc[p]) : spsc'[p][i] = spsc[p][i]
        /\ \A i \in 1..Len(spsc'[p]) : i > Len(spsc[p]) =>
             /\ i - Len(spsc[p]) \in 1..call[p].n
             /\ spsc'[p][i] = [item |-> <<p, accepted[p] + (i - Len(spsc[p]))>>, ts |-> call[p].ts]
        /\ counter' = counter /\ accepted' = accepted /\ inQueue' = inQueue
    <3>1. inQueue' = inQueue
      BY <1>2, <1>8 DEF Put
    <3> QED BY <1>8, <3>1, PutIs
  <2>2. /\ call[p].ts < counter /\ call[p].ts \in Nat /\ CallInv(p)
    BY <1>1, <2>1, BoundIs, CallerIs DEF CallInv
  <2>3. /\ Bound(p) = call[p].ts /\ Bound(p)' = counter /\ Granted(p) = accepted[p]
        /\ Granted(p)' = accepted[p] + call[p].n
        /\ ~Putting(p)' /\ Batch(p, call[p].n) \subseteq inQueue
    BY <1>1, <1>8, <2>1 DEF Bound, Granted, Putting, Working, StampPcs, LeafPcs, NodePcs, Scanning,
         SpscInv
  <2>4. ASSUME NEW i \in 1..Len(spsc'[p]), i > Len(spsc[p])
        PROVE  /\ spsc'[p][i].item = <<p, accepted[p] + (i - Len(spsc[p]))>>
               /\ spsc'[p][i].ts = call[p].ts
               /\ spsc'[p][i].item \in Batch(p, call[p].n) /\ i - Len(spsc[p]) \in 1..call[p].n
    <3>1. i - Len(spsc[p]) \in 1..call[p].n
          /\ spsc'[p][i] = [item |-> <<p, accepted[p] + (i - Len(spsc[p]))>>, ts |-> call[p].ts]
      BY <2>1, <2>4
    <3> QED BY <3>1 DEF Batch
  <2>5. ASSUME NEW i \in 1..Len(spsc'[p]), ~ (i > Len(spsc[p]))
        PROVE  /\ i \in 1..Len(spsc[p]) /\ spsc'[p][i] = spsc[p][i] /\ spsc[p][i].item[1] = p
               /\ spsc[p][i].ts < call[p].ts /\ spsc[p][i].item[2] <= accepted[p]
               /\ spsc[p][i].item \in inQueue
               /\ spsc[p][i].ts \in Nat /\ spsc[p][i].item[2] \in Nat
    <3>1. i \in 1..Len(spsc[p])
      BY <1>1, <2>1, <2>5
    <3> QED BY <1>1, <2>1, <2>3, <3>1, EntryIs DEF SpscInv
  <2>6. ASSUME NEW i \in 1..Len(spsc'[p])
        PROVE  /\ spsc'[p][i].item[1] = p /\ spsc'[p][i].item \in inQueue'
               /\ spsc'[p][i].ts < Bound(p)' /\ spsc'[p][i].item[2] <= Granted(p)'
               /\ spsc'[p][i].ts = call'[p].ts <=> spsc'[p][i].item[2] > accepted'[p]
    <3>1. CASE i > Len(spsc[p])
      <4> DEFINE k == i - Len(spsc[p])
      <4>1. k \in 1..call[p].n /\ spsc'[p][i].item = <<p, accepted[p] + k>>
              /\ spsc'[p][i].ts = call[p].ts
            /\ spsc'[p][i].item \in inQueue
        BY <2>3, <2>4, <3>1
      <4> HIDE DEF k
      <4> QED BY <1>1, <2>1, <2>2, <2>3, <4>1
    <3>2. CASE ~ (i > Len(spsc[p]))
      <4> DEFINE t == spsc'[p][i].ts
                 m == spsc'[p][i].item[2]
      <4>1. /\ spsc'[p][i].item[1] = p /\ spsc'[p][i].item \in inQueue' /\ t \in Nat /\ m \in Nat
            /\ t < call[p].ts /\ m <= accepted[p] /\ accepted'[p] = accepted[p]
            /\ call'[p].ts = call[p].ts
        BY <2>1, <2>5, <3>2
      <4> HIDE DEF t, m
      <4>2. t < counter /\ m <= accepted[p] + call[p].n /\ ~ (t = call[p].ts) /\ ~ (m > accepted[p])
        BY <1>1, <2>2, <4>1
      <4> QED BY <2>3, <4>1, <4>2 DEF t, m
    <3> QED BY <3>1, <3>2
  <2>7. ASSUME NEW i \in 1..Len(spsc'[p]), NEW j \in 1..Len(spsc'[p]), i < j
        PROVE  spsc'[p][i].ts <= spsc'[p][j].ts /\ spsc'[p][i].item[2] < spsc'[p][j].item[2]
    <3>1. CASE i > Len(spsc[p])
      <4>1. j > Len(spsc[p])
        BY <1>1, <2>1, <2>7, <3>1
      <4>2. accepted[p] + (i - Len(spsc[p])) < accepted[p] + (j - Len(spsc[p]))
        BY <1>1, <2>1, <2>7
      <4>3. /\ spsc'[p][i].ts = call[p].ts /\ spsc'[p][i].item[2] = accepted[p] + (i - Len(spsc[p]))
            /\ spsc'[p][j].ts = call[p].ts /\ spsc'[p][j].item[2] = accepted[p] + (j - Len(spsc[p]))
        BY <2>4, <3>1, <4>1
      <4>4. call[p].ts <= call[p].ts
        BY <1>1, <2>2
      <4> QED BY <4>2, <4>3, <4>4
    <3>2. CASE ~ (i > Len(spsc[p])) /\ j > Len(spsc[p])
      <4>1. spsc'[p][j].ts = call[p].ts /\ spsc'[p][j].item[2] = accepted[p] + (j - Len(spsc[p]))
            /\ j - Len(spsc[p]) \in 1..call[p].n
        BY <2>4, <3>2
      <4>2. /\ spsc'[p][i].ts \in Nat /\ spsc'[p][i].item[2] \in Nat
            /\ spsc'[p][i].ts < call[p].ts /\ spsc'[p][i].item[2] <= accepted[p]
        BY <2>5, <3>2
      <4>3. \A k \in 1..call[p].n : accepted[p] + k \in Nat /\ accepted[p] < accepted[p] + k
        BY <1>1
      <4>4. spsc'[p][j].item[2] \in Nat /\ accepted[p] < spsc'[p][j].item[2]
        BY <4>1, <4>3
      <4>5. accepted[p] \in Nat /\ spsc'[p][j].ts = call[p].ts /\ call[p].ts \in Nat
        BY <1>1, <2>2, <4>1
      <4> DEFINE a == spsc'[p][i].item[2]
                 b == spsc'[p][j].item[2]
                 t == spsc'[p][i].ts
      <4>6. a \in Nat /\ b \in Nat /\ t \in Nat /\ a <= accepted[p] /\ accepted[p] < b /\ t < call[p].ts
        BY <4>2, <4>4
      <4> HIDE DEF a, b, t
      <4>7. a < b /\ t <= call[p].ts
        BY <4>5, <4>6
      <4> QED BY <4>5, <4>7 DEF a, b, t
    <3>3. CASE ~ (j > Len(spsc[p]))
      <4>1. ~ (i > Len(spsc[p]))
        BY <1>1, <2>1, <2>7, <3>3
      <4> QED BY <1>1, <2>5, <2>7, <3>3, <4>1 DEF SpscInv
    <3> QED BY <3>1, <3>2, <3>3
  <2>8. SpscInv(p)'
    BY <2>3, <2>6, <2>7 DEF SpscInv
  <2>9. counter <= counter'
    BY <1>1, <2>1
  <2> QED BY <1>3, <2>1, <2>8, <2>9 DEF Goes
<1> QED BY <1>4, <1>5, <1>6, <1>7, <1>8 DEF Enqueueing

LEMMA DequeueSpsc ==
  ASSUME Calls, Calls', Dequeueing, \A q \in Enqueuers : SpscInv(q)
  PROVE  \A q \in Enqueuers : SpscInv(q)'
<1>1. /\ counter \in Nat /\ counter' \in Nat /\ TypeInv
      /\ inQueue \subseteq Enqueuers \X Nat /\ accepted \in [Enqueuers -> Nat]
      /\ \A q \in Enqueuers : q \in Callers /\ q # Dequeuer
  <2>1. TypeInv /\ TypeInv'
    BY DEF Calls
  <2>2. counter \in 0..MaxCalls /\ counter' \in 0..MaxCalls /\ inQueue \subseteq Enqueuers \X Nat
        /\ accepted \in [Enqueuers -> Nat]
    BY <2>1 DEF TypeInv
  <2> QED BY <2>1, <2>2, Constants DEF Callers
<1>2. before' = before => inQueue' = inQueue
  BY DEF inQueue
<1>3. CASE ~Take
  <2>1. /\ \A b \in Callers : b # Dequeuer => Same(b)
        /\ spsc' = spsc /\ counter' = counter /\ inQueue' = inQueue /\ counter <= counter'
        /\ accepted' = accepted \/ Accept(Dequeuer)
    BY <1>1, <1>2, <1>3, DequeueCallIs, ReturnsFalse, ReadRootIs, RefreshCalls DEF Dequeueing, Goes,
         Kept, Callers
  <2>2. \A q \in Enqueuers : accepted'[q] = accepted[q]
    BY <2>1, Constants DEF Accept
  <2> QED BY <1>1, <2>1, <2>2, OthersSpsc
<1>4. CASE Take
  <2>0. PICK r \in Enqueuers : r = call[Dequeuer].rank
    BY <1>4, TakeIs
  <2>1. /\ Goes(Dequeuer) /\ Len(spsc[r]) \in Nat \ {0}
        /\ \A q \in Enqueuers : q # r => spsc'[q] = spsc[q]
        /\ Len(spsc'[r]) = Len(spsc[r]) - 1
        /\ \A i \in 1..Len(spsc'[r]) : i + 1 \in 1..Len(spsc[r]) /\ spsc'[r][i] = spsc[r][i+1]
        /\ RecordGone({spsc[r][1].item}) /\ counter' = counter /\ accepted' = accepted
        /\ counter <= counter'
    <3>1. counter <= counter'
      BY <1>1, <1>4 DEF Take
    <3> QED BY <1>4, <2>0, <3>1, TakeIs
  <2>2. inQueue' = inQueue \ {spsc[r][1].item} /\ SpscInv(r) /\ 1 \in 1..Len(spsc[r]) /\ Same(r)
        /\ r \in Callers
    BY <1>1, <2>1, RecordGoneIs DEF Goes
  <2>3. spsc[r][1].item[1] = r
    BY <2>2 DEF SpscInv
  <2>4. ASSUME NEW q \in Enqueuers, q # r PROVE SpscInv(q)'
    <3>1. Same(q) /\ \A x \in inQueue : x[1] = q => x \in inQueue'
      BY <1>1, <2>1, <2>2, <2>3, <2>4 DEF Goes
    <3> QED BY <1>1, <2>1, <2>4, <3>1, OthersSpsc
  <2>5. /\ Bound(r)' = Bound(r) /\ Granted(r)' = Granted(r) /\ call'[r].pc = call[r].pc
        /\ call'[r].ts = call[r].ts
        /\ call'[r].n = call[r].n /\ Putting(r)' = Putting(r)
    BY <2>1, <2>2 DEF Same, Bound, Granted, Putting, Working, StampPcs, LeafPcs, NodePcs, Scanning
  <2>6. ASSUME NEW i \in 1..Len(spsc'[r])
        PROVE  /\ i + 1 \in 1..Len(spsc[r]) /\ spsc'[r][i] = spsc[r][i+1]
               /\ spsc[r][i+1].item \in inQueue'
    <3>1. i + 1 \in 1..Len(spsc[r]) /\ spsc'[r][i] = spsc[r][i+1] /\ 1 < i + 1
      BY <2>1
    <3>2. spsc[r][1].item[2] < spsc[r][i+1].item[2] /\ spsc[r][i+1].item \in inQueue
      BY <2>2, <3>1 DEF SpscInv
    <3>3. spsc[r][1].item # spsc[r][i+1].item
      <4>1. spsc[r][1].item[2] \in Nat
        BY <2>1, <2>2, EntryIs
      <4> QED BY <3>2, <4>1
    <3> QED BY <2>2, <3>1, <3>2, <3>3
  <2>7. \A i, j \in 1..Len(spsc'[r]) : i < j => i + 1 < j + 1
    OBVIOUS
  <2>8. ASSUME Putting(r) PROVE Batch(r, call[r].n)' \subseteq inQueue'
    <3>1. Batch(r, call[r].n)' = Batch(r, call[r].n) /\ Batch(r, call[r].n) \subseteq inQueue
      BY <2>1, <2>2, <2>5, <2>8 DEF Batch, SpscInv
    <3>0. spsc[r][1].item \in Enqueuers \X Nat /\ spsc[r][1].item[2] \in Nat
            /\ accepted[r] \in Nat /\ call[r].n \in Nat
      BY <2>2, EntryIs, BoundIs
    <3>4. Granted(r) = accepted[r]
      BY <2>8, <3>0 DEF Granted, Putting, Working, StampPcs, LeafPcs, NodePcs, Scanning
    <3>2. spsc[r][1].item[2] <= accepted[r]
      BY <2>2, <3>4 DEF SpscInv
    <3>3. spsc[r][1].item \notin Batch(r, call[r].n)
      BY <1>1, <3>0, <3>2, BatchIs
    <3> QED BY <2>2, <3>1, <3>3
  <2>9. SpscInv(r)'
    <3>1. ASSUME NEW i \in 1..Len(spsc'[r])
          PROVE  /\ spsc'[r][i].item[1] = r /\ spsc'[r][i].item \in inQueue'
                 /\ spsc'[r][i].ts < Bound(r)' /\ spsc'[r][i].item[2] <= Granted(r)'
                 /\ call'[r].pc = "check" =>
                      (spsc'[r][i].ts = call'[r].ts <=> spsc'[r][i].item[2] > accepted'[r])
      <4>1. i + 1 \in 1..Len(spsc[r]) /\ spsc'[r][i] = spsc[r][i+1] /\ spsc[r][i+1].item \in inQueue'
        BY <2>6
      <4>2. /\ spsc[r][i+1].item[1] = r /\ spsc[r][i+1].ts < Bound(r)
            /\ spsc[r][i+1].item[2] <= Granted(r)
            /\ call[r].pc = "check" =>
                 (spsc[r][i+1].ts = call[r].ts <=> spsc[r][i+1].item[2] > accepted[r])
        BY <2>2, <4>1 DEF SpscInv
      <4>3. accepted'[r] = accepted[r]
        BY <2>1
      <4> QED BY <2>5, <4>1, <4>2, <4>3
    <3>2. ASSUME NEW i \in 1..Len(spsc'[r]), NEW j \in 1..Len(spsc'[r]), i < j
          PROVE  spsc'[r][i].ts <= spsc'[r][j].ts /\ spsc'[r][i].item[2] < spsc'[r][j].item[2]
      <4>1. i + 1 \in 1..Len(spsc[r]) /\ j + 1 \in 1..Len(spsc[r]) /\ i + 1 < j + 1
        BY <2>6, <2>7, <3>2
      <4>2. spsc[r][i+1].ts <= spsc[r][j+1].ts /\ spsc[r][i+1].item[2] < spsc[r][j+1].item[2]
        BY <2>2, <4>1 DEF SpscInv
      <4>3. spsc'[r][i] = spsc[r][i+1] /\ spsc'[r][j] = spsc[r][j+1]
        BY <2>6
      <4> QED BY <4>2, <4>3
    <3> QED BY <2>5, <2>8, <3>1, <3>2 DEF SpscInv
  <2> QED BY <2>4, <2>9
<1> QED BY <1>3, <1>4

--------------------------------------------------------------------------------
(* What is in the queue, and what each element must not overtake. *)

(* x is stored in the SPSC of its rank, with timestamp t. *)
Stored(x, t) == \E i \in 1..Len(spsc[x[1]]) : spsc[x[1]][i] = [item |-> x, ts |-> t]

(* x is an element of a call that has not put it yet and has no timestamp below t. *)
Coming(x, t) == Putting(x[1]) /\ x \in Batch(x[1], call[x[1]].n) /\ t = call[x[1]].ts

(* The elements of the queue are those in the SPSCs and those about to be put. *)
ContentInv == \A x \in inQueue : \E t \in Timestamps : Stored(x, t) \/ Coming(x, t)

(* What an element must not overtake was there before it, with a smaller *)
(* timestamp if it is another rank's.                                     *)
BeforeInv ==
  \A x \in inQueue : \A y \in before[x] :
    /\ y \in inQueue
    /\ IF y[1] = x[1] THEN y[2] < x[2]
       ELSE /\ y[2] <= accepted[y[1]]
            /\ \A t, u \in Timestamps : Stored(y, t) /\ (Stored(x, u) \/ Coming(x, u)) => t < u

(* The elements that were there when dequeue was called stay until it takes one. *)
SettledInv == \A x \in settled : x \in inQueue /\ x[2] <= accepted[x[1]]

QueueInv == Calls /\ \A p \in Enqueuers : SpscInv(p)

LEMMA QueueIs ==
  ASSUME QueueInv
  PROVE  /\ Calls /\ TypeInv /\ inQueue \subseteq Enqueuers \X Nat /\ counter \in Nat
         /\ counter \in Timestamps
         /\ accepted \in [Enqueuers -> Nat] /\ call \in [Callers -> Locals]
         /\ stamp \in [Enqueuers -> Timestamps]
         /\ \A p \in Enqueuers : SpscInv(p)
<1>1. Calls /\ TypeInv /\ \A p \in Enqueuers : SpscInv(p)
  BY DEF QueueInv, Calls
<1>2. inQueue \subseteq Enqueuers \X Nat /\ accepted \in [Enqueuers -> Nat]
        /\ call \in [Callers -> Locals]
      /\ stamp \in [Enqueuers -> Timestamps] /\ counter \in 0..MaxCalls
  BY <1>1 DEF TypeInv
<1>3. counter \in Nat /\ counter \in Timestamps
  BY <1>2, LTTreeAssumption DEF LTTreeAssumption, Timestamps, MAX
<1> QED BY <1>1, <1>2, <1>3

LEMMA StoredIs ==
  ASSUME QueueInv, NEW x, x[1] \in Enqueuers, NEW t, Stored(x, t)
  PROVE  /\ x \in inQueue /\ x[2] <= Granted(x[1]) /\ t \in Nat /\ t < Bound(x[1]) /\ t < MAX
         /\ t \in Timestamps /\ FrontTimestamp(x[1]) <= t
         /\ spsc[x[1]] # <<>> /\ Head(spsc[x[1]]) = spsc[x[1]][1] /\ 1 \in 1..Len(spsc[x[1]])
         /\ FrontTimestamp(x[1]) = spsc[x[1]][1].ts
         /\ spsc[x[1]][1].item[2] <= x[2]
<1> DEFINE p == x[1]
<1>1. Calls /\ SpscInv(p) /\ p \in Enqueuers
  BY QueueIs
<1>2. PICK i \in 1..Len(spsc[p]) : spsc[p][i] = [item |-> x, ts |-> t]
  BY DEF Stored
<1>3. spsc[p][i].item = x /\ spsc[p][i].ts = t
  BY <1>2
<1>4. /\ t \in Nat /\ t < MAX /\ t \in Timestamps /\ x[2] \in Nat
  BY <1>1, <1>3, EntryIs
<1>5. spsc[p] # <<>> /\ Head(spsc[p]) = spsc[p][1] /\ 1 \in 1..Len(spsc[p])
        /\ FrontTimestamp(p) = spsc[p][1].ts
      /\ Len(spsc[p]) \in Nat
  <2>1. spsc[p] # <<>>
    BY <1>2
  <2> QED BY <1>1, <2>1, FrontType DEF Calls
<1>6. spsc[p][1].item[2] \in Nat /\ spsc[p][1].ts \in Nat
  BY <1>1, <1>5, EntryIs
<1>7. spsc[p][1].ts <= t /\ spsc[p][1].item[2] <= x[2]
  <2>1. CASE i = 1
    BY <1>3, <1>4, <1>6, <2>1
  <2>2. CASE 1 < i
    BY <1>1, <1>3, <1>4, <1>5, <1>6, <2>2 DEF SpscInv
  <2> QED BY <2>1, <2>2
<1>8. x \in inQueue /\ x[2] <= Granted(p) /\ t < Bound(p)
  BY <1>1, <1>3 DEF SpscInv
<1> HIDE DEF p
<1> QED BY <1>4, <1>5, <1>7, <1>8 DEF p

(* An element that was accepted is stored. *)
LEMMA AcceptedStored ==
  ASSUME QueueInv, ContentInv, NEW x \in inQueue, x[2] <= accepted[x[1]]
  PROVE  x \in Enqueuers \X Nat /\ \E t \in Timestamps : Stored(x, t)
<1>1. TypeInv /\ x \in Enqueuers \X Nat
  BY QueueIs
<1>2. x[1] \in Enqueuers /\ x[2] \in Nat /\ accepted[x[1]] \in Nat /\ call[x[1]].n \in Nat
  BY <1>1, BoundIs, QueueIs
<1>3. \A t : ~Coming(x, t)
  BY <1>1, <1>2, BatchIs DEF Coming
<1> QED BY <1>1, <1>3 DEF ContentInv

(* The elements whose enqueue has returned are the accepted ones. *)
LEMMA ReturnedIs ==
  ASSUME QueueInv, ContentInv, NEW x \in returned
  PROVE  x \in inQueue /\ x \in Enqueuers \X Nat /\ x[2] <= accepted[x[1]]
           /\ \E t \in Timestamps : Stored(x, t)
<1> DEFINE p == x[1]
<1>1. TypeInv /\ x \in inQueue /\ x \in Enqueuers \X Nat
        /\ \A q \in Enqueuers : x \notin Batch(q, call[q].n)
  BY QueueIs DEF returned
<1>2. p \in Enqueuers /\ x[2] \in Nat /\ accepted[p] \in Nat /\ call[p].n \in Nat
        /\ Granted(p) <= accepted[p] + call[p].n
      /\ Granted(p) \in Nat
  BY <1>1, BoundIs, QueueIs
<1>3. PICK t \in Timestamps : Stored(x, t)
  BY <1>1, <1>2 DEF ContentInv, Coming
<1>4. x[2] <= Granted(p)
  BY <1>2, <1>3, StoredIs
<1>5. x[2] <= accepted[p]
  <2>1. x[2] <= accepted[p] + call[p].n /\ (x[2] > accepted[p] \/ x[2] <= accepted[p])
    BY <1>2, <1>4
  <2> QED BY <1>1, <1>2, <2>1, BatchIs
<1> QED BY <1>1, <1>3, <1>5

(* ... and the accepted ones are those whose enqueue has returned. *)
LEMMA AcceptedReturned ==
  ASSUME QueueInv, NEW x \in inQueue, x[2] <= accepted[x[1]]
  PROVE  x \in returned
<1>1. TypeInv /\ x \in Enqueuers \X Nat /\ x[1] \in Enqueuers /\ x[2] \in Nat /\ accepted[x[1]] \in Nat
  BY QueueIs
<1>2. ASSUME NEW q \in Enqueuers PROVE x \notin Batch(q, call[q].n)
  <2>1. call[q].n \in Nat
    BY BoundIs, QueueIs
  <2> QED BY <1>1, <2>1, BatchIs
<1> QED BY <1>2 DEF returned

--------------------------------------------------------------------------------
(* Steps that add nothing to the queue. *)
LEMMA ContentFrame ==
  ASSUME ContentInv, inQueue' \subseteq inQueue,
         \A x \in inQueue', t \in Timestamps :
           Stored(x, t) \/ Coming(x, t) => \E u \in Timestamps : Stored(x, u)' \/ Coming(x, u)'
  PROVE  ContentInv'
BY DEF ContentInv, Timestamps, MAX

LEMMA BeforeFrame ==
  ASSUME BeforeInv, inQueue' \subseteq inQueue, inQueue \subseteq Enqueuers \X Nat,
         \A x \in inQueue' : before'[x] \subseteq before[x] \cap inQueue',
         \A p \in Enqueuers : accepted[p] \in Nat /\ accepted'[p] \in Nat
           /\ accepted[p] <= accepted'[p],
         \A x \in inQueue', u \in Timestamps :
           Stored(x, u)' \/ Coming(x, u)' =>
             \E v \in Timestamps : v <= u /\ (Stored(x, v) \/ Coming(x, v)),
         \A y \in inQueue', t \in Timestamps :
           Stored(y, t)' /\ y[2] <= accepted[y[1]] => Stored(y, t)
  PROVE  BeforeInv'
<1> SUFFICES ASSUME NEW x \in inQueue', NEW y \in before'[x]
             PROVE  /\ y \in inQueue'
                    /\ IF y[1] = x[1] THEN y[2] < x[2]
                       ELSE /\ y[2] <= accepted'[y[1]]
                            /\ \A t, u \in Timestamps :
                                 Stored(y, t)' /\ (Stored(x, u)' \/ Coming(x, u)') => t < u
  BY DEF BeforeInv, Timestamps, MAX
<1>1. x \in inQueue /\ y \in before[x] /\ y \in inQueue' /\ y \in Enqueuers \X Nat
  OBVIOUS
<1>2. y[1] = x[1] => y[2] < x[2]
  BY <1>1 DEF BeforeInv
<1>3. ASSUME y[1] # x[1]
      PROVE  /\ y[2] <= accepted'[y[1]]
             /\ \A t, u \in Timestamps :
                  Stored(y, t)' /\ (Stored(x, u)' \/ Coming(x, u)') => t < u
  <2>1. /\ y[2] <= accepted[y[1]]
        /\ \A t, u \in Timestamps : Stored(y, t) /\ (Stored(x, u) \/ Coming(x, u)) => t < u
    BY <1>1, <1>3 DEF BeforeInv
  <2>2. y[1] \in Enqueuers /\ y[2] \in Nat
    BY <1>1
  <2>3. y[2] <= accepted'[y[1]]
    BY <2>1, <2>2
  <2>4. ASSUME NEW t \in Timestamps, NEW u \in Timestamps, Stored(y, t)', Stored(x, u)' \/ Coming(x, u)'
        PROVE  t < u
    <3>1. PICK v \in Timestamps : v <= u /\ (Stored(x, v) \/ Coming(x, v))
      BY <2>4
    <3>2. Stored(y, t)
      BY <1>1, <2>1, <2>4
    <3>3. t < v
      BY <2>1, <3>1, <3>2
    <3>4. t \in Nat /\ v \in Nat /\ u \in Nat
      BY Constants
    <3> QED BY <3>1, <3>3, <3>4
  <2> QED BY <2>3, <2>4
<1> QED BY <1>1, <1>2, <1>3

--------------------------------------------------------------------------------
(* A call puts its elements behind all that have returned. *)
LEMMA CallHistory ==
  ASSUME QueueInv, ContentInv, BeforeInv, NEW p \in Enqueuers, NEW n \in 1..MaxBatch,
         EnqueueCall(p, n) \/ Node!EnqueueCounts(p, n)
  PROVE  ContentInv' /\ BeforeInv'
<1>1. /\ Calls /\ TypeInv /\ inQueue \subseteq Enqueuers \X Nat /\ counter \in Nat
      /\ counter \in Timestamps
      /\ accepted \in [Enqueuers -> Nat] /\ call \in [Callers -> Locals] /\ n \in Nat
      /\ \A q \in Enqueuers : q \in Callers
  BY QueueIs, Constants DEF Callers
<1>2. /\ call[p].pc = "idle" /\ Putting(p)' /\ call'[p].n = n /\ call'[p].ts = counter
      /\ spsc' = spsc /\ accepted' = accepted /\ \A q \in Enqueuers : q # p => call'[q] = call[q]
      /\ inQueue' = inQueue \cup Batch(p, n)
      /\ \A x \in inQueue' :
           before'[x] = IF x \in Batch(p,
             n) THEN returned \cup {y \in Batch(p, n) : y[2] < x[2]} ELSE before[x]
  <2>1. /\ Goes(p) /\ call[p].pc = "idle" /\ call'[p].pc \in {"count", "put"} /\ call'[p].n = n
        /\ call'[p].ts = counter
        /\ spsc' = spsc /\ accepted' = accepted /\ RecordCall(Batch(p, n))
    BY <1>1, CallIs
  <2> QED BY <1>1, <2>1, RecordCallIs DEF Putting, Goes
<1>3. \A q, k : Batch(q, k)' = Batch(q, k)
  BY <1>2 DEF Batch
<1>4. \A x, t : Stored(x, t)' <=> Stored(x, t)
  BY <1>2 DEF Stored
<1>5. ASSUME NEW x \in inQueue' PROVE x \in Enqueuers \X Nat
  BY <1>1, <1>2, <1>5 DEF Batch
<1>6. ASSUME NEW x \in Enqueuers \X Nat, NEW t
      PROVE  Coming(x, t)' <=> IF x[1] = p THEN x \in Batch(p, n) /\ t = counter ELSE Coming(x, t)
  <2>1. CASE x[1] = p
    BY <1>2, <1>3, <2>1 DEF Coming
  <2>2. CASE x[1] # p
    <3>1. x[1] \in Enqueuers /\ call'[x[1]] = call[x[1]]
      BY <1>2, <1>6, <2>2
    <3> QED BY <1>3, <2>2, <3>1 DEF Coming, Putting
  <2> QED BY <2>1, <2>2
<1>7. ASSUME NEW x \in inQueue, x[1] = p PROVE x[2] <= accepted[p] /\ x \notin Batch(p, n)
  <2>1. ~Putting(p) /\ Granted(p) = accepted[p]
    BY <1>1, <1>2 DEF Putting, Granted, Working, StampPcs, LeafPcs, NodePcs, Scanning
  <2>2. x \in Enqueuers \X Nat /\ \A t : ~Coming(x, t)
    BY <1>1, <1>7, <2>1 DEF Coming
  <2>3. PICK t \in Timestamps : Stored(x, t)
    BY <2>2 DEF ContentInv
  <2>4. x[2] <= accepted[p]
    BY <1>7, <2>1, <2>3, StoredIs
  <2>5. x[2] \in Nat /\ accepted[p] \in Nat
    BY <1>1, <2>2
  <2> QED BY <1>1, <2>2, <2>4, <2>5, BatchIs
<1>8. ContentInv'
  <2> SUFFICES ASSUME NEW x \in inQueue' PROVE \E t \in Timestamps : Stored(x, t)' \/ Coming(x, t)'
    BY DEF ContentInv, Timestamps, MAX
  <2>1. x \in Enqueuers \X Nat
    BY <1>5
  <2>2. CASE x \in Batch(p, n)
    <3>1. x[1] = p
      BY <2>2 DEF Batch
    <3> QED BY <1>1, <1>6, <2>1, <2>2, <3>1
  <2>3. CASE x \notin Batch(p, n)
    <3>1. PICK t \in Timestamps : Stored(x, t) \/ Coming(x, t)
      BY <1>2, <2>3 DEF ContentInv
    <3>2. Coming(x, t) => x[1] # p
      BY <1>2 DEF Coming, Putting
    <3> QED BY <1>4, <1>6, <2>1, <3>1, <3>2
  <2> QED BY <2>2, <2>3
<1>9. BeforeInv'
  <2> SUFFICES ASSUME NEW x \in inQueue', NEW y \in before'[x]
               PROVE  /\ y \in inQueue'
                      /\ IF y[1] = x[1] THEN y[2] < x[2]
                         ELSE /\ y[2] <= accepted[y[1]]
                              /\ \A t, u \in Timestamps :
                                   Stored(y, t) /\ (Stored(x, u) \/ Coming(x, u)') => t < u
    BY <1>2, <1>4 DEF BeforeInv, Timestamps, MAX
  <2>1. x \in Enqueuers \X Nat
    BY <1>5
  <2>2. CASE x \notin Batch(p, n)
    <3>1. x \in inQueue /\ y \in before[x]
      BY <1>2, <2>2
    <3>2. \A u : Coming(x, u)' => Coming(x, u)
      BY <1>6, <2>1, <2>2
    <3> QED BY <1>2, <3>1, <3>2 DEF BeforeInv
  <2>3. CASE x \in Batch(p, n) /\ y \in Batch(p, n)
    <3>1. x[1] = p /\ y[1] = p /\ \A z \in inQueue : z[1] = p => z \notin Batch(p, n)
      BY <1>7, <2>3 DEF Batch
    <3>2. y \notin returned
      BY <2>3, <3>1 DEF returned
    <3> QED BY <1>2, <2>3, <3>1, <3>2
  <2>4. CASE x \in Batch(p, n) /\ y \notin Batch(p, n)
    <3>0. y \in returned
      BY <1>2, <2>4
    <3>1. y \in returned /\ x[1] = p /\ x[2] > accepted[p] /\ x[2] \in Nat
      BY <1>1, <2>1, <2>4, <3>0, BatchIs
    <3>2. y \in inQueue /\ y \in Enqueuers \X Nat /\ y[2] <= accepted[y[1]]
      BY <3>1, ReturnedIs
    <3>3. y[1] = p => y[2] < x[2]
      BY <1>1, <3>1, <3>2
    <3>4. ASSUME NEW t \in Timestamps, NEW u \in Timestamps, Stored(y, t), Stored(x, u) \/ Coming(x, u)'
          PROVE  t < u
      <4>1. ~Stored(x, u)
        BY <1>7, <2>4, <3>1, StoredIs
      <4>2. u = counter
        BY <1>6, <2>1, <3>1, <3>4, <4>1
      <4>3. t \in Nat /\ t < Bound(y[1]) /\ y[1] \in Enqueuers
        BY <3>2, <3>4, StoredIs
      <4>4. Bound(y[1]) \in Nat /\ Bound(y[1]) <= counter
        BY <1>1, <4>3, BoundIs
      <4> QED BY <1>1, <4>2, <4>3, <4>4
    <3> QED BY <1>2, <3>1, <3>2, <3>3, <3>4
  <2> QED BY <2>2, <2>3, <2>4
<1> QED BY <1>8, <1>9

(* The other steps of an enqueue. *)
LEMMA TimestampHistory ==
  ASSUME QueueInv, ContentInv, BeforeInv, NEW p \in Enqueuers, Node!TakeTimestamp(p)
  PROVE  ContentInv' /\ BeforeInv'
<1>1. Calls /\ TypeInv /\ inQueue \subseteq Enqueuers \X Nat /\ accepted \in [Enqueuers -> Nat]
        /\ counter \in Nat
      /\ \A q \in Enqueuers : q \in Callers
  BY QueueIs DEF Callers
<1> DEFINE u == call'[p].ts
<1>2. /\ call[p].pc = "count" /\ call'[p].pc = "put" /\ call'[p].n = call[p].n /\ call[p].ts <= u
      /\ \A q \in Enqueuers : q # p => call'[q] = call[q]
      /\ spsc' = spsc /\ accepted' = accepted /\ before' = before /\ inQueue' = inQueue
      /\ u \in Timestamps
  <2>1. /\ Goes(p) /\ call[p].pc = "count" /\ call'[p].pc = "put" /\ call'[p].n = call[p].n
        /\ call[p].ts <= u
        /\ spsc' = spsc /\ accepted' = accepted /\ before' = before
    BY <1>1, TimestampTaken
  <2>2. call'[p] \in Locals
    BY <1>1, <2>1 DEF Goes
  <2> QED BY <1>1, <2>1, <2>2, LocalsIs DEF Goes, inQueue
<1> HIDE DEF u
<1>3. call[p].ts \in Timestamps /\ \A x, t : Stored(x, t)' <=> Stored(x, t)
  <2>1. call[p] \in Locals
    BY <1>1, BoundIs
  <2> QED BY <1>2, <2>1, LocalsIs DEF Stored
<1>4. ASSUME NEW x \in inQueue, NEW t
      PROVE  Coming(x, t)' <=> IF x[1] = p THEN Coming(x, call[p].ts) /\ t = u ELSE Coming(x, t)
  <2>1. x[1] \in Enqueuers /\ Batch(x[1], call[x[1]].n)' = Batch(x[1], call[x[1]].n)
    BY <1>1, <1>2 DEF Batch
  <2>2. Putting(x[1])' <=> Putting(x[1])
    BY <1>2, <2>1 DEF Putting
  <2> QED BY <1>2, <2>1, <2>2 DEF Coming, u
<1>5. ContentInv'
  <2>1. ASSUME NEW x \in inQueue', NEW t \in Timestamps, Stored(x, t) \/ Coming(x, t)
        PROVE  \E v \in Timestamps : Stored(x, v)' \/ Coming(x, v)'
    <3>1. Coming(x, t) /\ x[1] = p => t = call[p].ts
      BY DEF Coming
    <3> QED BY <1>2, <1>3, <1>4, <2>1, <3>1
  <2> QED BY <1>2, <2>1, ContentFrame
<1>6. BeforeInv'
  <2>1. ASSUME NEW x \in inQueue', NEW v \in Timestamps, Stored(x, v)' \/ Coming(x, v)'
        PROVE  \E t \in Timestamps : t <= v /\ (Stored(x, t) \/ Coming(x, t))
    <3>1. v \in Nat /\ v <= v
      BY Constants
    <3> QED BY <1>2, <1>3, <1>4, <2>1, <3>1
  <2>2. \A x \in inQueue' : before'[x] \subseteq before[x] \cap inQueue'
    BY <1>2 DEF BeforeInv
  <2>3. \A q \in Enqueuers : accepted[q] \in Nat /\ accepted'[q] \in Nat /\ accepted[q] <= accepted'[q]
    BY <1>1, <1>2
  <2> QED BY <1>1, <1>2, <1>3, <2>1, <2>2, <2>3, BeforeFrame
<1> QED BY <1>5, <1>6

LEMMA PutHistory ==
  ASSUME QueueInv, ContentInv, BeforeInv, NEW p \in Enqueuers, NEW pc \in {"check", "front"}, Put(p, pc)
  PROVE  ContentInv' /\ BeforeInv'
<1>1. /\ Calls /\ TypeInv /\ inQueue \subseteq Enqueuers \X Nat /\ accepted \in [Enqueuers -> Nat]
      /\ call[p].n \in Nat /\ call[p].ts \in Timestamps /\ \A q \in Enqueuers : q \in Callers
  <2>1. call[p] \in Locals
    BY QueueIs, BoundIs
  <2> QED BY <2>1, QueueIs, LocalsIs DEF Callers
<1>2. /\ call[p].pc = "put" /\ call'[p].pc = pc /\ \A q \in Enqueuers : q # p => call'[q] = call[q]
      /\ accepted' = accepted /\ before' = before /\ inQueue' = inQueue
      /\ \A q \in Enqueuers : q # p => spsc'[q] = spsc[q]
      /\ Len(spsc[p]) \in Nat /\ Len(spsc'[p]) = Len(spsc[p]) + call[p].n
      /\ \A i \in 1..Len(spsc[p]) : spsc'[p][i] = spsc[p][i]
      /\ \A i \in 1..Len(spsc'[p]) : i > Len(spsc[p]) =>
           /\ i - Len(spsc[p]) \in 1..call[p].n
           /\ spsc'[p][i] = [item |-> <<p, accepted[p] + (i - Len(spsc[p]))>>, ts |-> call[p].ts]
  <2>1. /\ call[p].pc = "put" /\ call'[p].pc = pc /\ \A q \in Enqueuers : q # p => call'[q] = call[q]
        /\ accepted' = accepted /\ before' = before /\ \A q \in Enqueuers : q # p => spsc'[q] = spsc[q]
    BY <1>1, PutIs DEF Goes
  <2>2. /\ Len(spsc[p]) \in Nat /\ Len(spsc'[p]) = Len(spsc[p]) + call[p].n
        /\ \A i \in 1..Len(spsc[p]) : spsc'[p][i] = spsc[p][i]
    BY <1>1, PutIs
  <2>3. \A i \in 1..Len(spsc'[p]) : i > Len(spsc[p]) =>
          /\ i - Len(spsc[p]) \in 1..call[p].n
          /\ spsc'[p][i] = [item |-> <<p, accepted[p] + (i - Len(spsc[p]))>>, ts |-> call[p].ts]
    BY <1>1, PutIs
  <2>4. inQueue' = inQueue
    BY <2>1 DEF inQueue
  <2> QED BY <2>1, <2>2, <2>3, <2>4
<1>4. ASSUME NEW x \in inQueue, NEW t, Stored(x, t) PROVE Stored(x, t)'
  <2>1. PICK i \in 1..Len(spsc[x[1]]) : spsc[x[1]][i] = [item |-> x, ts |-> t]
    BY <1>4 DEF Stored
  <2>2. CASE x[1] = p
    <3>1. i \in 1..Len(spsc[p]) /\ spsc[p][i] = [item |-> x, ts |-> t]
      BY <2>1, <2>2
    <3>2. spsc'[p][i] = spsc[p][i]
      BY <1>2, <3>1
    <3>3. i \in 1..Len(spsc'[p])
      <4>1. Len(spsc[p]) \in Nat /\ Len(spsc'[p]) = Len(spsc[p]) + call[p].n /\ call[p].n \in Nat
        BY <1>1, <1>2
      <4> QED BY <3>1, <4>1
    <3> QED BY <2>2, <3>1, <3>2, <3>3 DEF Stored
  <2>3. CASE x[1] # p
    BY <1>1, <1>2, <2>1, <2>3 DEF Stored
  <2> QED BY <2>2, <2>3
<1>5. ASSUME NEW x \in inQueue, NEW t, x[1] = p, Coming(x, t) PROVE Stored(x, t)'
  <2>1. PICK k \in 1..call[p].n : x = <<p, accepted[p] + k>>
    BY <1>5 DEF Coming, Batch
  <2>2. Len(spsc[p]) + k \in 1..Len(spsc'[p]) /\ Len(spsc[p]) + k > Len(spsc[p])
          /\ (Len(spsc[p]) + k) - Len(spsc[p]) = k
    BY <1>1, <1>2
  <2>3. spsc'[p][Len(spsc[p]) + k] = [item |-> x, ts |-> call[p].ts]
    BY <1>2, <2>1, <2>2
  <2>4. \E i \in 1..Len(spsc'[p]) : spsc'[p][i] = [item |-> x, ts |-> call[p].ts]
    BY <2>2, <2>3
  <2>5. t = call[p].ts
    BY <1>5 DEF Coming
  <2> QED BY <1>5, <2>4, <2>5 DEF Stored
<1>6. ASSUME NEW x \in inQueue, NEW t, Stored(x, t)'
      PROVE  Stored(x, t) \/ (x[1] = p /\ t = call[p].ts /\ Coming(x, t) /\ x[2] > accepted[p])
  <2>1. PICK i \in 1..Len(spsc'[x[1]]) : spsc'[x[1]][i] = [item |-> x, ts |-> t]
    BY <1>6 DEF Stored
  <2>2. CASE x[1] = p /\ i > Len(spsc[p])
    <3> DEFINE k == i - Len(spsc[p])
    <3>1. k \in 1..call[p].n
            /\ [item |-> x, ts |-> t] = [item |-> <<p, accepted[p] + k>>, ts |-> call[p].ts]
      BY <1>2, <2>1, <2>2
    <3> HIDE DEF k
    <3>2. x = <<p, accepted[p] + k>> /\ t = call[p].ts
      BY <3>1
    <3>3. x[2] > accepted[p]
      <4>1. accepted[p] \in Nat /\ k \in Nat /\ k > 0
        BY <1>1, <3>1
      <4>2. accepted[p] + k > accepted[p]
        BY <4>1
      <4> QED BY <3>2, <4>2
    <3>4. x \in Batch(p, call[p].n)
      BY <3>1, <3>2 DEF Batch
    <3> QED BY <1>2, <2>2, <3>2, <3>3, <3>4 DEF Coming, Putting
  <2>3. CASE x[1] = p /\ i <= Len(spsc[p])
    <3>1. i \in 1..Len(spsc[p])
      BY <1>2, <2>1, <2>3
    <3> QED BY <1>2, <2>1, <2>3, <3>1 DEF Stored
  <2>4. CASE x[1] # p
    BY <1>1, <1>2, <2>1, <2>4 DEF Stored
  <2>5. x[1] = p => i > Len(spsc[p]) \/ i <= Len(spsc[p])
    BY <1>2, <2>1
  <2> QED BY <2>2, <2>3, <2>4, <2>5
<1>7. ASSUME NEW x \in inQueue, NEW t PROVE Coming(x, t)' <=> x[1] # p /\ Coming(x, t)
  <2>1. x[1] \in Enqueuers /\ ~Putting(p)'
    BY <1>1, <1>2 DEF Putting
  <2>2. x[1] # p =>
          Putting(x[1])' = Putting(x[1]) /\ Batch(x[1], call[x[1]].n)' = Batch(x[1], call[x[1]].n)
    BY <1>2, <2>1 DEF Batch, Putting
  <2> QED BY <1>2, <2>1, <2>2 DEF Coming
<1>8. ContentInv'
  <2>1. ASSUME NEW x \in inQueue', NEW t \in Timestamps, Stored(x, t) \/ Coming(x, t)
        PROVE  \E v \in Timestamps : Stored(x, v)' \/ Coming(x, v)'
    <3>1. Stored(x, t)' \/ Coming(x, t)'
      BY <1>2, <1>4, <1>5, <1>7, <2>1
    <3> QED BY <3>1
  <2> QED BY <1>2, <2>1, ContentFrame
<1>9. BeforeInv'
  <2>1. ASSUME NEW x \in inQueue', NEW v \in Timestamps, Stored(x, v)' \/ Coming(x, v)'
        PROVE  \E t \in Timestamps : t <= v /\ (Stored(x, t) \/ Coming(x, t))
    <3>1. v \in Nat /\ v <= v
      BY Constants
    <3> QED BY <1>2, <1>6, <1>7, <2>1, <3>1
  <2>2. \A x \in inQueue' : before'[x] \subseteq before[x] \cap inQueue'
    BY <1>2 DEF BeforeInv
  <2>3. \A q \in Enqueuers : accepted[q] \in Nat /\ accepted'[q] \in Nat /\ accepted[q] <= accepted'[q]
    BY <1>1, <1>2
  <2>4. ASSUME NEW y \in inQueue', NEW t \in Timestamps, Stored(y, t)', y[2] <= accepted[y[1]]
        PROVE  Stored(y, t)
    <3>1. y \in inQueue /\ y[2] \in Nat /\ accepted[y[1]] \in Nat
      BY <1>1, <1>2
    <3>2. Stored(y, t) \/ (y[1] = p /\ y[2] > accepted[p])
      BY <1>6, <2>4, <3>1
    <3> QED BY <2>4, <3>1, <3>2
  <2> QED BY <1>1, <1>2, <2>1, <2>2, <2>3, <2>4, BeforeFrame
<1> QED BY <1>8, <1>9

LEMMA LeavingHistory ==
  ASSUME QueueInv, ContentInv, BeforeInv,
           NEW p \in Enqueuers, EnqueueFull(p) \/ CheckFront(p) \/ Refresh(p)
  PROVE  ContentInv' /\ BeforeInv'
<1>1. /\ Calls /\ TypeInv /\ inQueue \subseteq Enqueuers \X Nat /\ accepted \in [Enqueuers -> Nat]
      /\ \A q \in Enqueuers : q \in Callers /\ accepted[q] \in Nat /\ call[q].n \in Nat
  <2>1. Calls /\ \A q \in Enqueuers : q \in Callers /\ accepted[q] \in Nat /\ call[q].n \in Nat
    BY QueueIs, BoundIs
  <2> QED BY <2>1, QueueIs
<1>2. /\ ~Putting(p)' /\ spsc' = spsc /\ (Accept(p) \/ accepted' = accepted)
      /\ \A q \in Enqueuers : q # p => Same(q)
      /\ \/ before' = before /\ ~Putting(p)
         \/ RecordGone(Batch(p, call[p].n))
  <2>1. CASE EnqueueFull(p)
    BY <1>1, <2>1, FullIs, IdleIs DEF Goes, Putting
  <2>2. CASE CheckFront(p)
    BY <1>1, <2>2, CheckIs, IdleIs DEF Goes, Putting
  <2>3. CASE Refresh(p)
    BY <1>1, <2>3, RefreshCalls, IdleIs DEF Kept, Refreshes, Putting, StampPcs, LeafPcs, NodePcs,
         Scanning
  <2> QED BY <2>1, <2>2, <2>3
<1>3. \A q \in Enqueuers : /\ accepted'[q] \in Nat /\ accepted[q] <= accepted'[q]
                           /\ q # p => accepted'[q] = accepted[q]
  <2>1. CASE Accept(p)
    BY <1>1, <2>1, AcceptIs
  <2>2. CASE accepted' = accepted
    BY <1>1, <2>2
  <2> QED BY <1>2, <2>1, <2>2
<1>4. /\ inQueue' \subseteq inQueue /\ \A x \in inQueue' : before'[x] \subseteq before[x] \cap inQueue'
      /\ \A x \in inQueue' : \A t : ~(x[1] = p /\ Coming(x, t))
  <2>1. CASE RecordGone(Batch(p, call[p].n))
    <3>1. /\ inQueue' = inQueue \ Batch(p, call[p].n)
          /\ \A x \in inQueue' : before'[x] = before[x] \ Batch(p, call[p].n)
      BY <2>1, RecordGoneIs
    <3> QED BY <3>1 DEF BeforeInv, Coming
  <2>2. CASE before' = before /\ ~Putting(p)
    <3>1. inQueue' = inQueue
      BY <2>2 DEF inQueue
    <3> QED BY <2>2, <3>1 DEF BeforeInv, Coming
  <2> QED BY <1>2, <2>1, <2>2
<1>5. \A x, t : Stored(x, t)' <=> Stored(x, t)
  BY <1>2 DEF Stored
<1>6. ASSUME NEW x \in inQueue', NEW t PROVE Coming(x, t)' <=> Coming(x, t)
  <2>1. x[1] \in Enqueuers
    BY <1>1, <1>4
  <2>2. x[1] # p =>
          Putting(x[1])' = Putting(x[1]) /\ Batch(x[1], call[x[1]].n)' = Batch(x[1], call[x[1]].n)
                    /\ call'[x[1]].ts = call[x[1]].ts
    BY <1>2, <1>3, <2>1 DEF Batch, Putting, Same
  <2> QED BY <1>2, <1>4, <2>1, <2>2 DEF Coming
<1>7. ContentInv'
  BY <1>4, <1>5, <1>6, ContentFrame
<1>8. BeforeInv'
  <2>1. \A x \in inQueue', v \in Timestamps : Stored(x, v)' \/ Coming(x, v)' =>
          \E t \in Timestamps : t <= v /\ (Stored(x, t) \/ Coming(x, t))
    <3>1. \A v \in Timestamps : v <= v
      BY Constants
    <3> QED BY <1>5, <1>6, <3>1
  <2> QED BY <1>1, <1>3, <1>4, <1>5, <2>1, BeforeFrame
<1> QED BY <1>7, <1>8

(* The steps of dequeue: only Take changes the queue. *)
LEMMA DequeueHistory ==
  ASSUME QueueInv, ContentInv, BeforeInv, Dequeueing
  PROVE  ContentInv' /\ BeforeInv'
<1>1. Calls /\ TypeInv /\ inQueue \subseteq Enqueuers \X Nat /\ accepted \in [Enqueuers -> Nat]
      /\ \A q \in Enqueuers : q \in Callers /\ q # Dequeuer /\ accepted[q] \in Nat
  BY QueueIs, Constants DEF Callers
<1>2. /\ \A q \in Enqueuers : Same(q)
      /\ Take \/ (before' = before /\ spsc' = spsc)
      /\ accepted' = accepted \/ Accept(Dequeuer)
  BY <1>1, DequeueCallIs, ReturnsFalse, ReadRootIs, TakeIs, RefreshCalls DEF Dequeueing, Goes, Kept,
       Callers
<1>3. accepted' = accepted
  BY <1>2, Constants DEF Accept
<1>4. ASSUME NEW x \in Enqueuers \X Nat, NEW t PROVE Coming(x, t)' <=> Coming(x, t)
  <2>1. x[1] \in Enqueuers /\ Same(x[1])
    BY <1>2
  <2> QED BY <1>3, <2>1 DEF Coming, Putting, Batch, Same
<1>5. ASSUME inQueue' \subseteq inQueue,
               \A x \in inQueue' : before'[x] \subseteq before[x] \cap inQueue',
             \A x \in inQueue' : \A t : Stored(x, t)' <=> Stored(x, t)
      PROVE  ContentInv' /\ BeforeInv'
  <2>0. \A x \in inQueue' : \A t : Coming(x, t)' <=> Coming(x, t)
    BY <1>1, <1>4, <1>5
  <2>1. ContentInv'
    BY <1>5, <2>0, ContentFrame
  <2>2. \A x \in inQueue', v \in Timestamps : Stored(x, v)' \/ Coming(x, v)' =>
          \E t \in Timestamps : t <= v /\ (Stored(x, t) \/ Coming(x, t))
    <3>1. \A v \in Timestamps : v <= v
      BY Constants
    <3> QED BY <1>5, <2>0, <3>1
  <2>3. \A q \in Enqueuers : accepted[q] \in Nat /\ accepted'[q] \in Nat /\ accepted[q] <= accepted'[q]
    BY <1>1, <1>3
  <2>4. BeforeInv'
    BY <1>1, <1>5, <2>2, <2>3, BeforeFrame
  <2> QED BY <2>1, <2>4
<1>6. CASE Take
  <2>1. PICK r \in Enqueuers : r = call[Dequeuer].rank
    BY <1>1, <1>6, TakeIs
  <2> DEFINE h == spsc[r][1].item
  <2>2. /\ \A p \in Enqueuers : p # r => spsc'[p] = spsc[p]
        /\ Len(spsc[r]) \in Nat \ {0} /\ Len(spsc'[r]) = Len(spsc[r]) - 1
        /\ \A i \in 1..Len(spsc'[r]) : i + 1 \in 1..Len(spsc[r]) /\ spsc'[r][i] = spsc[r][i+1]
        /\ RecordGone({h})
    BY <1>1, <1>6, <2>1, TakeIs
  <2>3. inQueue' = inQueue \ {h} /\ \A x \in inQueue' : before'[x] = before[x] \ {h}
    BY <2>2, RecordGoneIs
  <2>4. ASSUME NEW x \in inQueue', NEW t PROVE Stored(x, t)' <=> Stored(x, t)
    <3>1. x[1] \in Enqueuers
      BY <1>1, <2>3
    <3>2. CASE x[1] # r
      BY <2>2, <3>1, <3>2 DEF Stored
    <3>3. CASE x[1] = r
      <4>1. Stored(x, t)' => Stored(x, t)
        BY <2>2, <3>3 DEF Stored
      <4>2. ASSUME NEW i \in 1..Len(spsc[r]), spsc[r][i] = [item |-> x, ts |-> t]
            PROVE  i - 1 \in 1..Len(spsc'[r]) /\ spsc'[r][i-1] = spsc[r][i]
        <5>1. i # 1
          BY <2>3, <4>2
        <5>2. i - 1 \in 1..Len(spsc'[r]) /\ (i - 1) + 1 = i
          BY <2>2, <5>1
        <5> QED BY <2>2, <5>2
      <4> QED BY <3>3, <4>1, <4>2 DEF Stored
    <3> QED BY <3>2, <3>3
  <2> HIDE DEF h
  <2>5. \A x \in inQueue' : before'[x] \subseteq before[x] \cap inQueue'
    BY <2>3 DEF BeforeInv
  <2> QED BY <1>5, <2>3, <2>4, <2>5
<1>7. CASE before' = before /\ spsc' = spsc
  <2>1. inQueue' = inQueue /\ \A x, t : Stored(x, t)' <=> Stored(x, t)
    BY <1>7 DEF inQueue, Stored
  <2>2. \A x \in inQueue' : before'[x] \subseteq before[x] \cap inQueue'
    BY <1>7, <2>1 DEF BeforeInv
  <2> QED BY <1>5, <2>1, <2>2
<1> QED BY <1>2, <1>6, <1>7

--------------------------------------------------------------------------------
LEMMA EnqueueHistory ==
  ASSUME QueueInv, ContentInv, BeforeInv, NEW p \in Enqueuers, Enqueueing(p)
  PROVE  ContentInv' /\ BeforeInv'
<1>1. ASSUME NEW n \in 1..MaxBatch, EnqueueCall(p, n) \/ Node!EnqueueCounts(p, n)
               PROVE ContentInv' /\ BeforeInv'
  BY <1>1, CallHistory
<1>2. CASE Node!TakeTimestamp(p)
  BY <1>2, TimestampHistory
<1>3. CASE Put(p, "check") \/ Put(p, "front")
  BY <1>3, PutHistory
<1>4. CASE EnqueueFull(p) \/ CheckFront(p) \/ Refresh(p)
  BY <1>4, LeavingHistory
<1> QED BY <1>1, <1>2, <1>3, <1>4 DEF Enqueueing

(* What had returned when dequeue was called stays in the queue until it takes one. *)
LEMMA EnqueueSettled ==
  ASSUME QueueInv, SettledInv, NEW p \in Enqueuers, Enqueueing(p)
  PROVE  SettledInv'
<1>1. /\ Calls /\ TypeInv /\ inQueue \subseteq Enqueuers \X Nat /\ accepted \in [Enqueuers -> Nat]
      /\ p \in Callers /\ call[p].n \in Nat /\ p # Dequeuer
  BY QueueIs, BoundIs
<1>2. before' = before => inQueue' = inQueue
  BY DEF inQueue
<1>3. /\ settled' = settled /\ (Accept(p) \/ accepted' = accepted)
      /\ \/ inQueue' = inQueue
         \/ \E n \in 1..MaxBatch : RecordCall(Batch(p, n))
         \/ RecordGone(Batch(p, call[p].n))
  BY <1>1, <1>2, CallIs, TimestampTaken, PutIs, FullIs, CheckIs, RefreshCalls DEF Enqueueing, Kept
<1>4. \A q \in Enqueuers : accepted'[q] \in Nat /\ accepted[q] <= accepted'[q]
  <2>1. CASE Accept(p)
    BY <1>1, <2>1, AcceptIs
  <2>2. CASE accepted' = accepted
    BY <1>1, <2>2
  <2> QED BY <1>3, <2>1, <2>2
<1>5. ASSUME NEW x \in settled PROVE x \in inQueue' /\ x[2] <= accepted'[x[1]]
  <2>1. x \in inQueue /\ x \in Enqueuers \X Nat /\ x[1] \in Enqueuers /\ x[2] \in Nat
          /\ x[2] <= accepted[x[1]]
    BY <1>1 DEF SettledInv
  <2>2. x \notin Batch(p, call[p].n)
    BY <1>1, <2>1, BatchIs
  <2>3. x \in inQueue'
    BY <1>3, <2>1, <2>2, RecordGoneIs, RecordCallIs
  <2> QED BY <1>1, <1>4, <2>1, <2>3
<1> QED BY <1>3, <1>5 DEF SettledInv

LEMMA DequeueSettled ==
  ASSUME QueueInv, ContentInv, SettledInv, Dequeueing
  PROVE  SettledInv'
<1>1. Calls
  BY QueueIs
<1>2. before' = before => inQueue' = inQueue
  BY DEF inQueue
<1>3. \/ settled' = {}
      \/ settled' \in {settled, returned} /\ inQueue' = inQueue
           /\ (accepted' = accepted \/ Accept(Dequeuer))
  BY <1>1, <1>2, DequeueCallIs, ReturnsFalse, ReadRootIs, TakeIs, RefreshCalls DEF Dequeueing, Kept,
       Callers
<1>4. Accept(Dequeuer) => accepted' = accepted
  BY Constants DEF Accept
<1> QED BY <1>3, <1>4, ReturnedIs DEF SettledInv

HistoryInv == QueueInv /\ ContentInv /\ BeforeInv /\ SettledInv

LEMMA HistoryStep ==
  ASSUME HistoryInv, (\E p \in Enqueuers : Enqueueing(p)) \/ Dequeueing
  PROVE  HistoryInv'
<1>1. QueueInv /\ Calls /\ ContentInv /\ BeforeInv /\ SettledInv /\ \A q \in Enqueuers : SpscInv(q)
  BY QueueIs DEF HistoryInv
<1>2. Calls'
  BY <1>1, CallsStep
<1>3. ASSUME NEW p \in Enqueuers, Enqueueing(p) PROVE HistoryInv'
  <2>1. QueueInv'
    BY <1>1, <1>2, <1>3, EnqueueSpsc DEF QueueInv
  <2> QED BY <1>1, <1>3, <2>1, EnqueueHistory, EnqueueSettled DEF HistoryInv
<1>4. CASE Dequeueing
  <2>1. QueueInv'
    BY <1>1, <1>2, <1>4, DequeueSpsc DEF QueueInv
  <2> QED BY <1>1, <1>4, <2>1, DequeueHistory, DequeueSettled DEF HistoryInv
<1> QED BY <1>3, <1>4

LEMMA HistoryInitially == Init => HistoryInv
<1> SUFFICES ASSUME Init PROVE HistoryInv
  OBVIOUS
<1>1. NoCalls /\ Calls
  BY InitIs, Initially
<1>2. inQueue = {} /\ settled = {}
  BY <1>1 DEF NoCalls, inQueue
<1>3. \A p \in Enqueuers : SpscInv(p)
  <2> SUFFICES ASSUME NEW p \in Enqueuers PROVE SpscInv(p)
    OBVIOUS
  <2>1. spsc[p] = <<>> /\ ~Putting(p)
    BY <1>1, IdleIs DEF NoCalls, Putting, Callers
  <2> QED BY <2>1 DEF SpscInv
<1> QED BY <1>1, <1>2, <1>3 DEF HistoryInv, QueueInv, ContentInv, BeforeInv, SettledInv

LEMMA HistoryStutters ==
  ASSUME UNCHANGED <<vars, class>>, HistoryInv
  PROVE  HistoryInv'
<1> USE DEF vars
<1>0. Calls' /\ inQueue' = inQueue
  BY CallsStutter DEF HistoryInv, QueueInv, inQueue
<1>1. QueueInv'
  BY <1>0 DEF HistoryInv, QueueInv, SpscInv, Bound, Granted, Putting, Working, StampPcs, LeafPcs,
                NodePcs, Scanning, Batch
<1>2. \A x, t : (Stored(x, t)' <=> Stored(x, t)) /\ (Coming(x, t)' <=> Coming(x, t))
  BY DEF Stored, Coming, Putting, Batch
<1>3. ContentInv' /\ BeforeInv' /\ SettledInv'
  BY <1>0, <1>2 DEF HistoryInv, ContentInv, BeforeInv, SettledInv, Timestamps, MAX
<1> QED BY <1>1, <1>3 DEF HistoryInv

(* The SPSCs hold the queue: nothing that an element must not overtake has a later timestamp. *)
THEOREM HistoryInductive == Spec => []HistoryInv
<1>1. HistoryInv /\ [Next]_<<vars, class>> => HistoryInv'
  BY HistoryStutters, StepIs, HistoryStep
<1> QED BY <1>1, HistoryInitially, PTL DEF Spec

--------------------------------------------------------------------------------
(* Timestamps that no call has written. *)

(* A call puts at least one element. *)
BegunInv == \A p \in Enqueuers : call[p].pc # "idle" => call[p].n > 0

(* Caller c has not come across rank p. *)
Blind(c, p) ==
  /\ call[c].pc \in NodePcs => call[c].value # p
  /\ call[c].pc = "childStamp" => call[c].seen # p
  /\ c = Dequeuer => (Working(c) \/ call[c].pc = "take" => call[c].rank # p)

(* Before its first refresh a rank is not to be found, and nobody takes its elements. *)
Unseen(p) ==
  /\ \A i \in Nodes : tree[i] # p
  /\ \A c \in Callers : Blind(c, p)
  /\ IF call[p].pc \in StampPcs THEN spsc[p] # <<>> /\ spsc[p][1].item[2] > 0 ELSE spsc[p] = <<>>
  /\ call[p].pc = "swapStamp" => call[p].fresh

WrittenInv == BegunInv /\ \A p \in Enqueuers : Unwritten(p) => Unseen(p)

LEMMA BegunGoes ==
  ASSUME Calls, BegunInv, NEW p \in Enqueuers, \A b \in Callers : b # p => Same(b),
         call'[p].pc = "idle" \/ call'[p].n > 0
  PROVE  BegunInv'
BY DEF BegunInv, Same, Callers

LEMMA BegunStep ==
  ASSUME Calls, BegunInv, (\E p \in Enqueuers : Enqueueing(p)) \/ Dequeueing
  PROVE  BegunInv'
<1>1. ASSUME NEW c \in Callers, Refresh(c) PROVE BegunInv'
  <2>1. /\ \A b \in Callers : b # c => Same(b)
        /\ Refreshes(c) /\ (call'[c].n = call[c].n \/ call'[c] = Idle)
    BY <1>1, RefreshCalls DEF Kept
  <2>2. call[c].pc # "idle"
    BY <2>1 DEF Refreshes, StampPcs, LeafPcs, NodePcs, Scanning
  <2>3. CASE c \in Enqueuers
    BY <2>1, <2>2, <2>3, BegunGoes, IdleIs DEF BegunInv
  <2>4. CASE c \notin Enqueuers
    BY <2>1, <2>4 DEF BegunInv, Same, Callers
  <2> QED BY <2>3, <2>4
<1>2. ASSUME NEW p \in Enqueuers, Enqueueing(p), ~Refresh(p) PROVE BegunInv'
  <2>1. CASE \E n \in 1..MaxBatch : EnqueueCall(p, n) \/ Node!EnqueueCounts(p, n)
    <3>1. PICK n \in 1..MaxBatch : EnqueueCall(p, n) \/ Node!EnqueueCounts(p, n)
      BY <2>1
    <3>2. Goes(p) /\ call'[p].n = n /\ n > 0
      BY <3>1, CallIs
    <3> QED BY <3>2, BegunGoes DEF Goes
  <2>2. CASE Node!TakeTimestamp(p)
    <3>1. Goes(p) /\ call'[p].n = call[p].n /\ call[p].pc = "count"
      BY <2>2, TimestampTaken
    <3> QED BY <3>1, BegunGoes DEF Goes, BegunInv
  <2>3. ASSUME NEW pc \in {"check", "front"}, Put(p, pc) PROVE BegunInv'
    <3>1. Goes(p) /\ call'[p].n = call[p].n /\ call[p].pc = "put"
      BY <2>3, PutIs
    <3> QED BY <3>1, BegunGoes DEF Goes, BegunInv
  <2>4. CASE EnqueueFull(p)
    <3>1. Goes(p) /\ call'[p] = Idle
      BY <2>4, FullIs
    <3> QED BY <3>1, IdleIs, BegunGoes DEF Goes
  <2>5. CASE CheckFront(p)
    <3>1. Goes(p) /\ (call'[p] = Idle \/ call'[p].n = call[p].n) /\ call[p].pc = "check"
      BY <2>5, CheckIs
    <3> QED BY <3>1, IdleIs, BegunGoes DEF Goes, BegunInv
  <2> QED BY <1>2, <2>1, <2>2, <2>3, <2>4, <2>5 DEF Enqueueing
<1>3. CASE Dequeueing /\ ~Refresh(Dequeuer)
  <2>1. Goes(Dequeuer)
    BY <1>3, DequeueCallIs, ReturnsFalse, ReadRootIs, TakeIs DEF Dequeueing
  <2> QED BY <2>1, Constants DEF BegunInv, Goes, Callers, Same
<1> QED BY <1>1, <1>2, <1>3 DEF Callers

(* What a refresh does to a rank whose timestamp nobody has written. *)
LEMMA UnwrittenRefresh ==
  ASSUME QueueInv, WrittenInv, NEW c \in Callers, Refresh(c), NEW p \in Enqueuers, Unwritten(p)'
  PROVE  /\ Unwritten(p) /\ accepted[p] = 0 /\ accepted'[p] = 0 /\ spsc' = spsc
         /\ call'[p].pc \in StampPcs <=> call[p].pc \in StampPcs
         /\ p = c => ReadFront(c) \/ ReadStamp(c)
<1>1. /\ Calls /\ TypeInv /\ CallInv(c) /\ spsc' = spsc /\ Refreshes(c) /\ call[c] \in Locals
      /\ \A b \in Callers : b # c => Same(b)
      /\ \/ Refreshes(c)' /\ accepted' = accepted
         \/ call'[c] = Idle /\ Accept(c)
  BY QueueIs, RefreshCalls, CallerIs DEF Kept
<1>2. accepted[p] \in Nat /\ call[c].n \in Nat /\ accepted'[p] = 0 /\ p \in Callers
  BY <1>1, LocalsIs DEF TypeInv, Unwritten, Callers
<1>3. accepted[p] = 0 /\ (p = c => accepted' = accepted /\ Refreshes(c)')
  <2>1. CASE accepted' = accepted /\ Refreshes(c)'
    BY <1>2, <2>1
  <2>2. CASE call'[c] = Idle /\ Accept(c)
    <3>1. accepted'[p] = accepted[p] + (IF p = c THEN call[c].n ELSE 0)
      BY <1>1, <2>2, AcceptIs
    <3>2. p = c => call[c].n > 0
      BY <1>1 DEF WrittenInv, BegunInv, Refreshes, StampPcs, LeafPcs, NodePcs, Scanning
    <3> QED BY <1>2, <3>1, <3>2
  <2> QED BY <1>1, <2>1, <2>2
<1>4. CASE p # c
  <2>1. call'[p].pc = call[p].pc
    BY <1>1, <1>2, <1>4 DEF Same
  <2> QED BY <1>1, <1>2, <1>3, <1>4, <2>1 DEF Unwritten
<1>5. CASE p = c
  <2>1. call'[c].pc \in {"front", "stamp", "swapStamp"}
    BY <1>3, <1>5 DEF Unwritten, Refreshes, StampPcs, LeafPcs, NodePcs, Scanning
  <2>2. ReadFront(c) \/ ReadStamp(c) \/ SwapStamp(c)
    <3>1. ReadLeafStamp(c) => call'[c].pc = "leaf"
      BY <1>1, ReadLeafStampIs DEF Advances
    <3>2. ReadLeaf(c) => call'[c].pc = "swapLeaf"
      BY <1>1, ReadLeafIs DEF Advances
    <3>3. SwapLeaf(c) => call'[c].pc \in {"node", "leafStamp"}
      BY <1>1, SwapLeafIs DEF Started
    <3>4. ReadNode(c) => call'[c].pc = "child"
      BY <1>1, ReadNodeIs DEF Advances
    <3>5. ReadChild(c) => call'[c].pc \in {"childStamp", "child", "swapNode"}
      BY <1>1, ReadChildIs DEF Advances, Continues
    <3>6. ReadChildStamp(c) => call'[c].pc \in {"child", "swapNode"}
      BY <1>1, ReadChildStampIs DEF Advances, Continues
    <3>7. SwapNode(c) => call'[c].pc \in {"idle", "node"}
      BY <1>1, SwapNodeIs, IdleIs DEF Started
    <3> QED BY <2>1, <3>1, <3>2, <3>3, <3>4, <3>5, <3>6, <3>7
         DEF Refresh, RefreshTimestamp, RefreshSelfNode, RefreshNode
  <2>3. Unwritten(p)
    BY <1>3, <1>5, <2>2 DEF Unwritten, ReadFront, ReadStamp, SwapStamp
  <2>4. ~SwapStamp(c)
    <3> SUFFICES ASSUME SwapStamp(c) PROVE FALSE
      OBVIOUS
    <3>1. call[p].pc = "swapStamp" /\ call[p].fresh
      BY <1>5, <2>3 DEF WrittenInv, Unseen, SwapStamp
    <3>2. call'[c].pc = "leafStamp"
      BY <1>1, <1>5, <3>1, SwapStampIs DEF Succeeds, Started
    <3> QED BY <2>1, <3>2
  <2> QED BY <1>1, <1>2, <1>3, <1>5, <2>1, <2>2, <2>3, <2>4 DEF StampPcs, ReadFront, ReadStamp
<1> QED BY <1>4, <1>5

LEMMA SeenRefresh ==
  ASSUME QueueInv, WrittenInv, NEW c \in Callers, Refresh(c), NEW p \in Enqueuers, Unwritten(p)'
  PROVE  Unseen(p)'
<1>1. /\ Unwritten(p) /\ spsc' = spsc /\ (call'[p].pc \in StampPcs <=> call[p].pc \in StampPcs)
      /\ p = c => ReadFront(c) \/ ReadStamp(c)
  BY UnwrittenRefresh
<1>2. /\ Unseen(p) /\ Calls /\ TypeInv /\ CallInv(c) /\ p \in Callers /\ p # Dequeuer /\ p # DUMMY
      /\ call[c].rank # p \/ c = p
  <2>1. Unseen(p) /\ Calls /\ TypeInv /\ CallInv(c) /\ p \in Callers /\ p # Dequeuer /\ p # DUMMY
    BY <1>1, QueueIs, CallerIs, Constants DEF WrittenInv, Callers
  <2>2. Refreshes(c)
    BY <2>1, RefreshCalls DEF Kept
  <2>3. Working(c) /\ call[c].pc # "idle"
    BY <2>2 DEF Working, Refreshes, StampPcs, LeafPcs, NodePcs, Scanning
  <2> QED BY <2>1, <2>3 DEF Unseen, Blind, CallInv
<1>3. /\ \A b \in Callers : b # c => Same(b)
      /\ \/ Refreshes(c)' /\ call'[c].rank = call[c].rank
         \/ call'[c] = Idle
  BY <1>2, RefreshCalls DEF Kept
<1>4. \A b \in Callers : b # c => Blind(b, p)'
  BY <1>2, <1>3 DEF Unseen, Blind, Same, Working, StampPcs, LeafPcs, NodePcs, Scanning
<1>5. c = Dequeuer => (Working(c)' \/ call'[c].pc = "take" => call'[c].rank # p)
  BY <1>2, <1>3, IdleIs DEF Working, StampPcs, LeafPcs, NodePcs, Scanning
<1>6. /\ call'[c].pc \in NodePcs => call'[c].value # p
      /\ call'[c].pc = "childStamp" => call'[c].seen # p
  <2>1. call[c].pc \in NodePcs => call[c].value # p
    BY <1>2 DEF Unseen, Blind
  <2>2. call[c].pc = "childStamp" => call[c].seen # p
    BY <1>2 DEF Unseen, Blind
  <2>3. CASE call'[c].pc \notin NodePcs
    BY <2>3 DEF NodePcs, Scanning
  <2>4. CASE SwapLeaf(c) \/ SwapNode(c)
    <3>1. call'[c].pc \in {"node", "leafStamp", "idle"} /\ (call'[c].pc = "node" => call'[c].value = DUMMY)
      BY <1>2, <2>4, SwapLeafIs, SwapNodeIs, IdleIs DEF Started
    <3> QED BY <1>2, <3>1 DEF NodePcs, Scanning
  <2>5. CASE ReadNode(c)
    BY <1>2, <2>1, <2>5, ReadNodeIs DEF Advances, ReadNode, NodePcs
  <2>6. CASE ReadChild(c)
    <3>1. /\ call[c].pc = "child" /\ call'[c].value = call[c].value /\ call[c].child \in Nodes
          /\ call'[c].pc = "childStamp" => call'[c].seen = tree[call[c].child]
      BY <1>2, <2>6, ReadChildIs DEF Advances, Continues, ReadChild
    <3> QED BY <1>2, <2>1, <3>1 DEF Unseen, NodePcs, Scanning
  <2>7. CASE ReadChildStamp(c)
    <3>1. /\ call[c].pc = "childStamp" /\ call'[c].pc # "childStamp"
          /\ call'[c].value \in {call[c].value, call[c].seen}
      BY <1>2, <2>7, ReadChildStampIs DEF Advances, Continues, ReadChildStamp
    <3> QED BY <2>1, <2>2, <3>1 DEF NodePcs, Scanning
  <2>8. ReadFront(c) \/ ReadStamp(c) \/ SwapStamp(c) \/ ReadLeafStamp(c) \/ ReadLeaf(c) =>
          call'[c].pc \notin NodePcs
    BY <1>2, ReadFrontIs, ReadStampIs, SwapStampIs, ReadLeafStampIs, ReadLeafIs
       DEF Advances, Started, NodePcs, Scanning
  <2> QED BY <2>3, <2>4, <2>5, <2>6, <2>7, <2>8
       DEF Refresh, RefreshTimestamp, RefreshSelfNode, RefreshNode
<1>7. \A i \in Nodes : tree'[i] # p
  <2>1. CASE tree' = tree
    BY <1>2, <2>1 DEF Unseen
  <2>2. CASE tree' = Written(c) /\ (SwapLeaf(c) \/ SwapNode(c))
    <3>1. call[c].value # p
      BY <1>1, <1>2, <2>2 DEF SwapLeaf, SwapNode, Unseen, Blind, CallInv, NodePcs, Scanning, Unwritten
    <3> QED BY <1>2, <2>2, <3>1 DEF Written, Unseen, TypeInv
  <2> QED BY <2>1, <2>2 DEF Refresh, RefreshTimestamp, RefreshSelfNode, RefreshNode, ReadFront,
            ReadStamp, SwapStamp, ReadLeafStamp, ReadLeaf, SwapLeaf, ReadNode, ReadChild,
            ReadChildStamp, SwapNode
<1>8. call'[p].pc = "swapStamp" => call'[p].fresh
  <2>1. CASE p = c
    BY <1>1, <1>2, <2>1, ReadFrontIs, ReadStampIs DEF Advances
  <2>2. CASE p # c
    <3>1. call'[p] = call[p] \/ (Ends(c) /\ (SwapStamp(c) \/ SwapLeaf(c) \/ SwapNode(c)))
      BY <1>2, <2>2, ReadFrontIs, ReadStampIs, ReadLeafStampIs, ReadLeafIs, ReadNodeIs, ReadChildIs,
         ReadChildStampIs, SwapStampIs, SwapLeafIs, SwapNodeIs
         DEF Refresh, RefreshTimestamp, RefreshSelfNode, RefreshNode, Advances, Continues
    <3>2. CASE Ends(c) /\ (SwapStamp(c) \/ SwapLeaf(c) \/ SwapNode(c)) /\ call'[p].pc = "swapStamp"
      <4>1. /\ call[p].pc = "swapStamp" /\ call[p].fresh
            /\ call'[p].fresh = (call[p].fresh /\ ~Clashes(p, c))
        BY <1>2, <1>3, <2>2, <3>2 DEF Ends, Unseen, Same
      <4>2. call[p].rank = p
        BY <1>2, <4>1, CallerIs DEF CallInv
      <4>3. Cell(call[p]) = <<"stamp", p>>
        BY <4>1, <4>2 DEF Cell
      <4>4. Cell(call[c]) = <<"stamp", call[c].rank>> \/ Cell(call[c]) = <<"tree", call[c].index>>
        BY <3>2 DEF Cell, SwapStamp, SwapLeaf, SwapNode
      <4>5. ~Clashes(p, c)
        BY <1>2, <2>2, <4>3, <4>4 DEF Clashes
      <4> QED BY <4>1, <4>5
    <3> QED BY <1>2, <3>1, <3>2 DEF Unseen
  <2> QED BY <2>1, <2>2
<1>9. IF call'[p].pc \in StampPcs THEN spsc'[p] # <<>> /\ spsc'[p][1].item[2] > 0 ELSE spsc'[p] = <<>>
  BY <1>1, <1>2 DEF Unseen
<1>10. Blind(c, p)'
  BY <1>5, <1>6 DEF Blind
<1>11. StampPcs' = StampPcs /\ Nodes' = Nodes /\ Callers' = Callers
  BY DEF StampPcs, Nodes, Callers
<1> QED BY <1>4, <1>7, <1>8, <1>9, <1>10, <1>11 DEF Unseen

(* The other steps of an enqueue ... *)
LEMMA SeenEnqueue ==
  ASSUME QueueInv, WrittenInv, NEW q \in Enqueuers, Enqueueing(q), ~Refresh(q), NEW p \in Enqueuers
  PROVE  /\ Unwritten(p)' => Unwritten(p) /\ Unseen(p)'
         /\ Unwritten(p) => Unwritten(p)'
         /\ stamp' = stamp
<1>1. /\ Calls /\ TypeInv /\ CallInv(q) /\ p \in Callers /\ q \in Callers /\ p # Dequeuer /\ q # Dequeuer
      /\ accepted \in [Enqueuers -> Nat] /\ call[q].n \in Nat /\ (call[q].pc # "idle" => call[q].n > 0)
  BY QueueIs, CallerIs, BoundIs, Constants DEF WrittenInv, BegunInv, Callers
<1>2. /\ Goes(q) /\ UNCHANGED <<stamp, tree>>
      /\ call'[q].pc \in {"idle", "count", "put", "check", "front"}
      /\ call[q].pc \in {"idle", "count", "put", "check"}
      /\ ~CheckFront(q) => accepted' = accepted
  <2>1. CASE \E n \in 1..MaxBatch : EnqueueCall(q, n) \/ Node!EnqueueCounts(q, n)
    BY <1>1, <2>1, CallIs
  <2>2. CASE Node!TakeTimestamp(q)
    BY <1>1, <2>2, TimestampTaken
  <2>3. ASSUME NEW pc \in {"check", "front"}, Put(q, pc)
        PROVE  /\ Goes(q) /\ UNCHANGED <<stamp, tree, accepted>> /\ call'[q].pc \in {"check", "front"}
               /\ call[q].pc = "put"
    BY <1>1, <2>3, PutIs
  <2>4. CASE EnqueueFull(q)
    BY <1>1, <2>4, FullIs, IdleIs
  <2>5. CASE CheckFront(q)
    BY <1>1, <2>5, CheckIs, IdleIs
  <2> QED BY <2>1, <2>2, <2>3, <2>4, <2>5 DEF Enqueueing
<1>3. p # q => call'[p] = call[p] /\ accepted'[p] = accepted[p] /\ spsc'[p] = spsc[p]
  <2>1. CASE \E n \in 1..MaxBatch : EnqueueCall(q, n) \/ Node!EnqueueCounts(q, n)
    BY <1>1, <2>1, CallIs DEF Goes
  <2>2. CASE Node!TakeTimestamp(q)
    BY <1>1, <2>2, TimestampTaken DEF Goes
  <2>3. ASSUME NEW pc \in {"check", "front"}, Put(q, pc), p # q
        PROVE  call'[p] = call[p] /\ accepted'[p] = accepted[p] /\ spsc'[p] = spsc[p]
    BY <1>1, <2>3, PutIs DEF Goes
  <2>4. CASE EnqueueFull(q)
    BY <1>1, <2>4, FullIs DEF Goes
  <2>5. CASE CheckFront(q)
    BY <1>1, <2>5, CheckIs DEF Goes, Accept
  <2> QED BY <2>1, <2>2, <2>3, <2>4, <2>5 DEF Enqueueing
<1>4. ASSUME p = q, CheckFront(q) PROVE (Unwritten(p) \/ Unwritten(p)') => call'[p].pc = "front"
  <2>1. \/ call'[q].pc = "front"
        \/ FrontTimestamp(q) # call[q].ts /\ call'[q] = Idle /\ Accept(q)
    BY <1>1, <1>4, CheckIs
  <2>2. ASSUME FrontTimestamp(q) # call[q].ts, call'[q] = Idle, Accept(q) PROVE ~Unwritten(p)'
    <3>1. accepted'[p] = accepted[p] + call[q].n /\ call[q].pc = "check"
      BY <1>1, <1>4, <2>2, AcceptIs DEF CheckFront
    <3> QED BY <1>1, <3>1 DEF Unwritten
  <2>3. Unwritten(p) => FrontTimestamp(q) = call[q].ts
    <3> SUFFICES ASSUME Unwritten(p) PROVE FrontTimestamp(q) = call[q].ts
      OBVIOUS
    <3>1. /\ call[q].pc = "check" /\ accepted[q] = 0 /\ spsc[q] # <<>> /\ spsc[q][1].item[2] > 0
      BY <1>4 DEF CheckFront, Unwritten, WrittenInv, Unseen, StampPcs
    <3>2. 1 \in 1..Len(spsc[q]) /\ FrontTimestamp(q) = spsc[q][1].ts /\ SpscInv(q)
      BY <1>1, <3>1, FrontType, QueueIs
    <3>3. spsc[q][1].ts = call[q].ts <=> spsc[q][1].item[2] > accepted[q]
      BY <3>1, <3>2 DEF SpscInv
    <3>4. spsc[q][1].item[2] > accepted[q]
      BY <3>1
    <3> QED BY <3>2, <3>3, <3>4
  <2> QED BY <1>4, <2>1, <2>2, <2>3
<1>5. p = q /\ (accepted'[p] = 0 \/ accepted[p] = 0) => (Unwritten(p) <=> Unwritten(p)')
  <2>1. CASE ~CheckFront(q)
    BY <1>2, <2>1 DEF Unwritten
  <2>2. CASE CheckFront(q) /\ p = q
    <3>1. call[q].pc = "check" /\ (call'[p].pc = "front" => accepted' = accepted)
      BY <1>1, <2>2, CheckIs, IdleIs
    <3> QED BY <1>2, <1>4, <2>2, <3>1 DEF Unwritten
  <2> QED BY <2>1, <2>2
<1>6. Unwritten(p) <=> Unwritten(p)'
  BY <1>3, <1>5 DEF Unwritten
<1>7. ASSUME Unwritten(p)' PROVE Unseen(p)'
  <2>1. Unwritten(p) /\ Unseen(p) /\ accepted[p] = 0 /\ accepted'[p] = 0
    BY <1>6, <1>7 DEF WrittenInv, Unwritten
  <2>2. \A c \in Callers : Blind(c, p)'
    <3>1. \A c \in Callers : c # q => call'[c] = call[c]
      BY <1>2 DEF Goes
    <3> QED BY <1>1, <1>2, <2>1, <3>1 DEF Unseen, Blind, NodePcs, Scanning, Working, StampPcs, LeafPcs
  <2>3. /\ IF call'[p].pc \in StampPcs THEN spsc'[p] # <<>> /\ spsc'[p][1].item[2] > 0
                                       ELSE spsc'[p] = <<>>
    <3>1. CASE p # q
      BY <1>3, <2>1, <3>1 DEF Unseen
    <3>2. CASE p = q /\ \E n \in 1..MaxBatch : EnqueueCall(q, n) \/ Node!EnqueueCounts(q, n)
      BY <1>1, <2>1, <3>2, CallIs DEF Unseen, StampPcs
    <3>3. CASE p = q /\ Node!TakeTimestamp(q)
      BY <1>1, <2>1, <3>3, TimestampTaken DEF Unseen, StampPcs
    <3>4. ASSUME p = q, NEW pc \in {"check", "front"}, Put(q, pc)
          PROVE  spsc'[p] # <<>> /\ spsc'[p][1].item[2] > 0 /\ call'[p].pc \in StampPcs
      <4>1. /\ call[q].pc = "put" /\ call'[q].pc = pc /\ spsc' \in [Enqueuers -> Seq(Elements)]
            /\ Len(spsc'[q]) = Len(spsc[q]) + call[q].n
            /\ \A i \in 1..Len(spsc'[q]) : i > Len(spsc[q]) =>
                 spsc'[q][i] = [item |-> <<q, accepted[q] + (i - Len(spsc[q]))>>, ts |-> call[q].ts]
        <5>1. Calls /\ Put(q, pc) /\ q \in Enqueuers /\ pc \in {"check", "front"}
          BY <1>1, <3>4
        <5>2. /\ call[q].pc = "put" /\ call'[q].pc = pc /\ spsc' \in [Enqueuers -> Seq(Elements)]
              /\ Len(spsc'[q]) = Len(spsc[q]) + call[q].n
          BY ONLY <5>1, PutIs
        <5>3. ASSUME NEW i \in 1..Len(spsc'[q]), i > Len(spsc[q])
              PROVE  spsc'[q][i] = [item |-> <<q, accepted[q] + (i - Len(spsc[q]))>>, ts |-> call[q].ts]
          BY ONLY <5>1, <5>3, PutIs, ZenonT(60)
        <5> QED BY ONLY <5>2, <5>3, Zenon
      <4>2. spsc[q] = <<>> /\ Len(spsc[q]) = 0 /\ call[q].n > 0
        BY <1>1, <2>1, <3>4, <4>1 DEF Unseen, StampPcs
      <4>3. Len(spsc'[q]) > 0 /\ 1 \in 1..Len(spsc'[q])
        BY <1>1, <4>1, <4>2
      <4>4. spsc'[q][1].item = <<q, 1>>
        <5>1. 1 > Len(spsc[q]) /\ accepted[q] + (1 - Len(spsc[q])) = 1
          BY <2>1, <3>4, <4>2
        <5>2. spsc'[q][1] = [item |-> <<q, accepted[q] + (1 - Len(spsc[q]))>>, ts |-> call[q].ts]
          BY <4>1, <4>3, <5>1
        <5> QED BY <5>1, <5>2
      <4> QED BY <3>4, <4>1, <4>3, <4>4 DEF StampPcs
    <3>5. CASE p = q /\ EnqueueFull(q)
      BY <1>1, <2>1, <3>5, FullIs, IdleIs DEF Unseen, StampPcs
    <3>6. CASE p = q /\ CheckFront(q)
      BY <1>1, <1>4, <2>1, <3>6, CheckIs DEF Unseen, StampPcs
    <3> QED BY <3>1, <3>2, <3>3, <3>4, <3>5, <3>6 DEF Enqueueing
  <2>4. call'[p].pc = "swapStamp" => call'[p].fresh
    BY <1>2, <1>3, <2>1 DEF Unseen
  <2> QED BY <1>2, <2>1, <2>2, <2>3, <2>4 DEF Unseen, StampPcs, Nodes, Callers
<1> QED BY <1>2, <1>6, <1>7

(* ... and of a dequeue. *)
LEMMA SeenDequeue ==
  ASSUME QueueInv, WrittenInv, Dequeueing, ~Refresh(Dequeuer), NEW p \in Enqueuers
  PROVE  /\ Unwritten(p)' <=> Unwritten(p)
         /\ Unwritten(p)' => Unseen(p)'
         /\ stamp' = stamp
<1>1. Calls /\ TypeInv /\ CallInv(Dequeuer) /\ p \in Callers /\ p # Dequeuer /\ Dequeuer \in Callers
  BY QueueIs, CallerIs, Constants DEF Callers
<1>2. /\ Goes(Dequeuer) /\ UNCHANGED <<stamp, tree, accepted>>
      /\ call'[Dequeuer].pc \in {"idle", "root", "take", "front"}
      /\ call'[Dequeuer].pc = "take" => call'[Dequeuer].rank = tree[0]
      /\ call'[Dequeuer].pc = "front" => call'[Dequeuer].rank = call[Dequeuer].rank
      /\ spsc' = spsc \/ (call[Dequeuer].pc = "take" /\ \A q \in Enqueuers :
                            q # call[Dequeuer].rank => spsc'[q] = spsc[q])
      /\ call'[Dequeuer].pc = "front" => call[Dequeuer].pc = "take"
  <2>1. CASE DequeueCall
    BY <1>1, <2>1, DequeueCallIs
  <2>2. CASE ReadRootDummy \/ TakeNothing
    BY <1>1, <2>2, ReturnsFalse, IdleIs
  <2>3. CASE ReadRoot
    BY <1>1, <2>3, ReadRootIs
  <2>4. CASE Take
    BY <1>1, <2>4, TakeIs DEF Started
  <2> QED BY <2>1, <2>2, <2>3, <2>4 DEF Dequeueing
<1>3. call'[p] = call[p]
  BY <1>1, <1>2 DEF Goes
<1>4. Unwritten(p)' <=> Unwritten(p)
  BY <1>2, <1>3 DEF Unwritten
<1>5. ASSUME Unwritten(p)' PROVE Unseen(p)'
  <2>1. Unseen(p)
    BY <1>4, <1>5 DEF WrittenInv
  <2>2. call[Dequeuer].pc = "take" => call[Dequeuer].rank # p
    BY <1>1, <2>1 DEF Unseen, Blind
  <2>3. tree[0] # p
    BY <2>1, Constants DEF Unseen
  <2>4. spsc'[p] = spsc[p]
    BY <1>2, <2>2
  <2>5. Blind(Dequeuer, p)'
    BY <1>2, <2>2, <2>3 DEF Blind, NodePcs, Scanning, Working, StampPcs, LeafPcs
  <2>6. \A c \in Callers : c # Dequeuer => Blind(c, p)'
    BY <1>2, <2>1 DEF Unseen, Blind, Goes, NodePcs, Scanning, Working, StampPcs, LeafPcs
  <2> QED BY <1>2, <1>3, <2>1, <2>4, <2>5, <2>6 DEF Unseen, StampPcs, Nodes, Callers
<1> QED BY <1>2, <1>4, <1>5

LEMMA WrittenStep ==
  ASSUME QueueInv, WrittenInv, (\E p \in Enqueuers : Enqueueing(p)) \/ Dequeueing
  PROVE  WrittenInv'
<1>1. BegunInv'
  BY BegunStep, QueueIs DEF WrittenInv
<1>2. ASSUME NEW c \in Callers, Refresh(c), NEW p \in Enqueuers, Unwritten(p)' PROVE Unseen(p)'
  BY <1>2, SeenRefresh
<1>3. ASSUME NEW p \in Enqueuers, Unwritten(p)' PROVE Unseen(p)'
  <2>1. CASE \E q \in Enqueuers : Enqueueing(q)
    BY <1>2, <1>3, <2>1, SeenEnqueue DEF Callers
  <2>2. CASE Dequeueing
    BY <1>2, <1>3, <2>2, SeenDequeue DEF Callers
  <2> QED BY <2>1, <2>2
<1> QED BY <1>1, <1>3 DEF WrittenInv

LEMMA WrittenInitially == Init => WrittenInv
<1> SUFFICES ASSUME Init PROVE WrittenInv
  OBVIOUS
<1>1. tree = [i \in Nodes |-> DUMMY] /\ NoCalls
  BY InitIs
<1>2. (\A c \in Callers : call[c] = Idle) /\ \A p \in Enqueuers : spsc[p] = <<>> /\ p \in Callers
  BY <1>1 DEF NoCalls, Callers
<1> QED BY <1>1, <1>2, IdleIs, Constants
        DEF WrittenInv, BegunInv, Unseen, Blind, NodePcs, Scanning, Working, StampPcs, LeafPcs

LEMMA WrittenStutters ==
  ASSUME UNCHANGED <<vars, class>>, WrittenInv
  PROVE  WrittenInv'
BY DEF vars, WrittenInv, BegunInv, Unwritten, Unseen, Blind, NodePcs, Scanning, Working, StampPcs,
       LeafPcs, Nodes, Callers

(* A timestamp is written before anyone can come across its rank, whatever it is at first. *)
THEOREM WrittenInductive == Spec => []WrittenInv
<1>1. HistoryInv /\ WrittenInv /\ [Next]_<<vars, class>> => WrittenInv'
  BY WrittenStutters, StepIs, WrittenStep DEF HistoryInv
<1> QED BY <1>1, WrittenInitially, HistoryInductive, PTL DEF Spec

(* NamedRanks: a node names only ranks below it, and whoever reads a rank's timestamp for its  *)
(* leaf or for a node comes after the rank's own first compare-and-swap, which does not fail.  *)
THEOREM NamesWritten == Spec => []NamedRanks
<1>1. Calls /\ PathInv /\ WrittenInv => NamedRanks
  <2> SUFFICES ASSUME Calls, PathInv, WrittenInv PROVE NamedRanks
    OBVIOUS
  <2>1. RankBeneath
    <3> SUFFICES ASSUME NEW i \in Nodes, tree[i] # DUMMY PROVE tree[i] \in RanksBelow[i]
      BY DEF RankBeneath
    <3>1. tree[i] \in Enqueuers /\ OnPath(tree[i], i)
      BY DEF Calls, TypeInv, RanksOrDummy, PathInv
    <3> QED BY <3>1, Constants, PathBelow
  <2>2. ASSUME NEW i \in Nodes, tree[i] # DUMMY PROVE ~Unwritten(tree[i])
    BY <2>2 DEF Calls, TypeInv, RanksOrDummy, WrittenInv, Unseen
  <2>3. ASSUME NEW c \in Callers, call[c].pc = "leafStamp" PROVE ~Unwritten(call[c].rank)
    <3>1. CallInv(c) /\ Working(c) /\ call[c].rank \in Enqueuers
      BY <2>3, CallerIs DEF CallInv, Working, LeafPcs
    <3>2. CASE c = Dequeuer
      BY <3>1, <3>2 DEF WrittenInv, Unseen, Blind, Callers
    <3>3. CASE c # Dequeuer
      BY <2>3, <3>1, <3>3 DEF CallInv, Unwritten
    <3> QED BY <3>2, <3>3
  <2>4. ASSUME NEW c \in Callers, call[c].pc = "childStamp" PROVE ~Unwritten(call[c].seen)
    BY <2>4, CallerIs DEF CallInv, WrittenInv, Unseen, Blind
  <2>5. ASSUME NEW p \in Enqueuers, Unwritten(p), call[p].pc = "swapStamp" PROVE call[p].fresh
    BY <2>5 DEF WrittenInv, Unseen
  <2> QED BY <2>1, <2>2, <2>3, <2>4, <2>5 DEF NamedRanks
<1> QED BY <1>1, TypesInductive, WrittenInductive, PTL

--------------------------------------------------------------------------------
(* While no enqueue and dequeue refresh one rank at once: the timestamps and the tree. *)

(* The timestamps that count: those nobody has written yet stand for none. *)
Stamps == [p \in Enqueuers |-> IF Unwritten(p) THEN MAX ELSE stamp[p]]

LEMMA StampsIs ==
  ASSUME Calls
  PROVE  /\ Stamps \in [Enqueuers -> Timestamps]
         /\ \A p \in Enqueuers : Stamps[p] = IF Unwritten(p) THEN MAX ELSE stamp[p]
BY Constants DEF Stamps, Calls, TypeInv

(* A timestamp that is read counts. *)
LEMMA StampsRead ==
  ASSUME Calls, WrittenInv
  PROVE  /\ \A i \in Nodes : tree[i] # DUMMY => Stamps[tree[i]] = stamp[tree[i]]
         /\ \A c \in Callers : call[c].pc = "leafStamp" => Stamps[call[c].rank] = stamp[call[c].rank]
<1>1. ASSUME NEW i \in Nodes, tree[i] # DUMMY PROVE tree[i] \in Enqueuers /\ ~Unwritten(tree[i])
  BY <1>1 DEF Calls, TypeInv, RanksOrDummy, WrittenInv, Unseen
<1>2. ASSUME NEW c \in Callers, call[c].pc = "leafStamp"
      PROVE  call[c].rank \in Enqueuers /\ ~Unwritten(call[c].rank)
  <2>1. CallInv(c) /\ Working(c) /\ call[c].rank \in Enqueuers
    BY <1>2, CallerIs DEF CallInv, Working, LeafPcs
  <2>2. CASE c = Dequeuer
    BY <2>1, <2>2 DEF WrittenInv, Unseen, Blind, Callers
  <2>3. CASE c # Dequeuer
    BY <1>2, <2>1, <2>3 DEF CallInv, Unwritten
  <2> QED BY <2>1, <2>2, <2>3
<1> QED BY <1>1, <1>2, StampsIs

LEMMA StampsSame ==
  ASSUME stamp' = stamp, \A p \in Enqueuers : Unwritten(p)' <=> Unwritten(p)
  PROVE  Stamps' = Stamps
<1>1. \A p \in Enqueuers : (IF Unwritten(p) THEN MAX ELSE stamp[p])' = IF Unwritten(p) THEN MAX ELSE stamp[p]
  BY DEF MAX
<1> QED BY <1>1 DEF Stamps

LEMMA EnqueueStamps ==
  ASSUME QueueInv, WrittenInv, NEW q \in Enqueuers, Enqueueing(q), ~Refresh(q)
  PROVE  Stamps' = Stamps
<1>1. stamp' = stamp /\ \A p \in Enqueuers : Unwritten(p)' <=> Unwritten(p)
  BY SeenEnqueue
<1> QED BY <1>1, StampsSame

LEMMA DequeueStamps ==
  ASSUME QueueInv, WrittenInv, Dequeueing, ~Refresh(Dequeuer)
  PROVE  Stamps' = Stamps
<1>1. stamp' = stamp
  BY DEF Dequeueing, DequeueCall, ReadRootDummy, ReadRoot, TakeNothing, Take
<1>2. \A p \in Enqueuers : Unwritten(p)' <=> Unwritten(p)
  BY SeenDequeue
<1> QED BY <1>1, <1>2, StampsSame

LEMMA UnwrittenKept ==
  ASSUME QueueInv, WrittenInv, NEW c \in Callers, Refresh(c), NEW p \in Enqueuers,
         p # c \/ ~SwapStamp(c)
  PROVE  Unwritten(p)' <=> Unwritten(p)
<1>1. /\ Calls /\ TypeInv /\ Refreshes(c) /\ \A b \in Callers : b # c => Same(b)
      /\ \/ Refreshes(c)' /\ accepted' = accepted
         \/ call'[c] = Idle /\ Accept(c)
  BY QueueIs, RefreshCalls DEF Kept
<1>2. ASSUME Unwritten(p) PROVE Unwritten(p)'
  <2>1. CASE p # c
    <3>1. accepted'[p] = accepted[p] /\ p \in Callers
      BY <1>1, <2>1 DEF Accept, TypeInv, Callers
    <3> QED BY <1>1, <1>2, <2>1, <3>1 DEF Unwritten, Same
  <2>2. CASE p = c
    <3>1. ReadFront(c) \/ ReadStamp(c)
      BY <1>2, <2>2 DEF Unwritten, Refresh, RefreshTimestamp, RefreshSelfNode, RefreshNode,
         ReadLeafStamp, ReadLeaf, SwapLeaf, ReadNode, ReadChild, ReadChildStamp, SwapNode
    <3>2. call'[c].pc \in {"stamp", "swapStamp"} /\ accepted' = accepted
      BY <1>1, <3>1, ReadFrontIs, ReadStampIs DEF Advances, ReadFront, ReadStamp
    <3> QED BY <1>2, <2>2, <3>2 DEF Unwritten
  <2> QED BY <2>1, <2>2
<1> QED BY <1>2, UnwrittenRefresh

LEMMA RefreshStamps ==
  ASSUME QueueInv, WrittenInv, NEW c \in Callers, Refresh(c), ~SwapStamp(c)
  PROVE  Stamps' = Stamps
<1>1. stamp' = stamp
  BY DEF Refresh, RefreshTimestamp, RefreshSelfNode, RefreshNode, ReadFront, ReadStamp, ReadLeafStamp,
         ReadLeaf, SwapLeaf, ReadNode, ReadChild, ReadChildStamp, SwapNode
<1> QED BY <1>1, UnwrittenKept, StampsSame

LEMMA SwapStamps ==
  ASSUME QueueInv, WrittenInv, NEW c \in Callers, SwapStamp(c)
  PROVE  Stamps' = IF call[c].fresh THEN [Stamps EXCEPT ![call[c].rank] = call[c].value] ELSE Stamps
<1>0. PICK r \in Enqueuers : r = call[c].rank
  BY QueueIs, SwapStampIs
<1>1. /\ Calls /\ stamp \in [Enqueuers -> Timestamps] /\ Refresh(c)
      /\ stamp' = IF call[c].fresh THEN [stamp EXCEPT ![r] = call[c].value] ELSE stamp
      /\ c # Dequeuer => r = c
  BY <1>0, QueueIs, CallerIs DEF SwapStamp, CallInv, Refresh, RefreshTimestamp
<1>2. ~Unwritten(r)' /\ (Unwritten(r) => call[c].fresh)
  <2>0. r \in Enqueuers /\ Refresh(c) /\ ~(ReadFront(c) \/ ReadStamp(c))
    BY <1>1 DEF SwapStamp, ReadFront, ReadStamp
  <2>1. CASE c = Dequeuer
    <3>1. ~Unwritten(r)
      BY <1>0, <1>1, <2>1 DEF WrittenInv, Unseen, Blind, Working, StampPcs, SwapStamp
    <3> QED BY <2>0, <3>1, UnwrittenRefresh
  <2>2. CASE c # Dequeuer
    <3>1. Unwritten(r) => call[c].fresh
      BY <1>1, <2>2 DEF WrittenInv, Unseen, SwapStamp
    <3>2. ~Unwritten(r)'
      BY <1>1, <2>0, <2>2, UnwrittenRefresh
    <3> QED BY <3>1, <3>2
  <2> QED BY <2>1, <2>2
<1>3. \A p \in Enqueuers : p # r => (Unwritten(p)' <=> Unwritten(p))
  <2> SUFFICES ASSUME NEW p \in Enqueuers, p # r PROVE Unwritten(p)' <=> Unwritten(p)
    OBVIOUS
  <2>1. p # c
    BY <1>1, Constants
  <2> QED BY <1>1, <2>1, UnwrittenKept
<1> DEFINE Shows(p) == IF Unwritten(p) THEN MAX ELSE stamp[p]
<1>4. \A p \in Enqueuers : p # r => Shows(p)' = Shows(p)
  BY <1>1, <1>3 DEF MAX
<1>5. Shows(r)' = IF call[c].fresh THEN call[c].value ELSE Shows(r)
  <2>1. Shows(r)' = stamp'[r]
    BY <1>2
  <2>2. stamp'[r] = IF call[c].fresh THEN call[c].value ELSE stamp[r]
    BY <1>1
  <2>3. ~call[c].fresh => Shows(r) = stamp[r]
    BY <1>2
  <2> QED BY <2>1, <2>2, <2>3
<1>6. Stamps = [p \in Enqueuers |-> Shows(p)] /\ Stamps' = [p \in Enqueuers |-> Shows(p)']
  BY DEF Stamps
<1> HIDE DEF Shows
<1>7. \A p \in Enqueuers : Shows(p)' = IF p = r /\ call[c].fresh THEN call[c].value ELSE Shows(p)
  BY <1>4, <1>5
<1>8. CASE call[c].fresh
  BY <1>0, <1>6, <1>7, <1>8
<1>9. CASE ~call[c].fresh
  BY <1>6, <1>7, <1>9
<1> QED BY <1>8, <1>9

(* The oldest element of p belongs to the call in progress. *)
New(p) == spsc[p] # <<>> /\ Head(spsc[p]).item[2] > accepted[p]

(* Caller c is at node i; it will get there; it will get there or has not yet read *)
(* it to no avail; it will write to it or find that another caller has.            *)
At(c, i) == call[c].pc \in NodePcs /\ call[c].index = i

Ahead(c, i) ==
  /\ Working(c) /\ OnPath(call[c].rank, i)
  /\ call[c].pc \in NodePcs => i < call[c].index

Unread(c, i) == Ahead(c, i) \/ (At(c, i) /\ call[c].try = 1 /\ (call[c].pc = "node" \/ call[c].fresh))

NotFull(c, i) == Ahead(c, i) \/ (At(c, i) /\ (call[c].try = 1 \/ call[c].pc = "node" \/ call[c].fresh))

(* No two callers refresh the same rank. *)
Alone(p) == Serves(p) => ~Refreshes(p)

(* Since the dequeuer found rank p empty, an element was put that is not checked yet. *)
Unchecked(p) == call[p].pc = "check" /\ New(p)

(* What a caller carries along was read and is still true. *)
AgentInv(c) ==
  /\ call[c].pc \in {"swapStamp", "swapLeaf"} => call[c].fresh
  /\ call[c].pc \in {"stamp", "swapStamp"} =>
       \/ call[c].value = FrontTimestamp(call[c].rank)
       \/ c = Dequeuer /\ call[c].value = MAX /\ Unchecked(call[c].rank)
  /\ call[c].pc \in {"leaf", "swapLeaf"} =>
       call[c].value = IF Stamps[call[c].rank] = MAX THEN DUMMY ELSE call[c].rank
  /\ call[c].pc = "node" => call[c].value = DUMMY
  /\ call[c].pc \in NodePcs => (call[c].value = DUMMY <=> call[c].least = MAX)

(* The timestamp of a rank is its front's, or it is being refreshed. *)
StampInv(p) ==
  \/ Stamps[p] = FrontTimestamp(p)
  \/ call[p].pc \in StampPcs /\ New(p) /\ Stamps[p] = MAX
  \/ Serves(p) /\ call[Dequeuer].pc \in StampPcs

RankInv == \A p \in Enqueuers : Alone(p) /\ StampInv(p)

(* A node names a rank as old as those below it, unless a refresh of it is under way ... *)
Exempt(p, i) == (New(p) /\ NotFull(p, i)) \/ NotFull(Dequeuer, i)

Shown(i) ==
  \A p \in Enqueuers :
    OnPath(p, i) /\ Stamps[p] # MAX => Exempt(p, i) \/ (tree[i] # DUMMY /\ Stamps[tree[i]] <= Stamps[p])

(* ... and a rank that has elements. *)
Named(i) == tree[i] # DUMMY =>
  Stamps[tree[i]] # MAX \/ (call[Dequeuer].rank = tree[i] /\ NotFull(Dequeuer, i))

(* The children a caller has read while it is at node i. *)
Scanned(b, i) ==
  IF call[b].pc = "swapNode" THEN {Left(i), Right(i)} \cap Nodes ELSE {Left(i)} \ {call[b].child}

(* Another caller will refresh node i for rank p. *)
Excused(b, p, i) == (New(p) /\ p # b /\ Unread(p, i)) \/ (b # Dequeuer /\ Unread(Dequeuer, i))

LeastInv(b, i) ==
  call[b].value # DUMMY =>
    \/ Stamps[call[b].value] <= call[b].least
    \/ b # Dequeuer /\ call[Dequeuer].rank = call[b].value /\ Unread(Dequeuer, i)

SeenInv(b, i) ==
  /\ \A j \in Scanned(b, i), p \in Enqueuers : OnPath(p, j) =>
       call[b].least <= Stamps[p] \/ Excused(b, p, i)
  /\ call[b].pc = "childStamp" =>
       \A p \in Enqueuers : OnPath(p, call[b].child) =>
         Stamps[call[b].seen] <= Stamps[p] \/ Excused(b, p, i)

(* A caller whose compare-and-swap of node i will succeed has found the least timestamp so far. *)
ScanInv(b) ==
  \A i \in Nodes : call[b].pc \in Scanning /\ call[b].fresh /\ call[b].index = i =>
    LeastInv(b, i) /\ SeenInv(b, i)

(* The dequeuer takes the oldest element. *)
TakeInv ==
  call[Dequeuer].pc = "take" =>
    /\ spsc[call[Dequeuer].rank] # <<>>
    /\ before[Head(spsc[call[Dequeuer].rank]).item] = {}

TreeInv == (\A i \in Nodes : Shown(i) /\ Named(i)) /\ \A b \in Callers : ScanInv(b)

ApartInv == (\A c \in Callers : AgentInv(c)) /\ RankInv /\ TreeInv /\ TakeInv

(* What holds in all states. *)
BaseInv == HistoryInv /\ PathInv /\ WrittenInv

--------------------------------------------------------------------------------
(* The locals of b that matter are the same, and all that c will refresh stays so. *)
Still(b) == Same(b) /\ call'[b].fresh = call[b].fresh

Persists(c, i) ==
  /\ NotFull(c, i) => NotFull(c, i)' /\ call'[c].rank = call[c].rank
  /\ Unread(c, i) => Unread(c, i)'

(* What is to be refreshed at node i stays so. *)
Lasts(i) ==
  /\ \A p \in Enqueuers : New(p) => Persists(p, i) /\ (NotFull(p, i) => New(p)')
  /\ Persists(Dequeuer, i)

LEMMA WorkingIs ==
  ASSUME Calls, NEW c \in Callers
  PROVE  /\ Working(c) <=> Refreshes(c) \/ call[c].pc = "check"
         /\ Refreshing(c) <=> Refreshes(c)
         /\ c = Dequeuer => (Working(c) <=> Refreshes(c))
<1>1. call[c].pc \in Pcs /\ CallInv(c)
  BY CallerIs DEF Locals
<1> QED BY <1>1 DEF Working, Refreshes, Refreshing, Pcs, StampPcs, LeafPcs, NodePcs, Scanning, CallInv

LEMMA StillPersists ==
  ASSUME NEW b \in Callers, Still(b)
  PROVE  (\A i \in Nodes : Persists(b, i)) /\ (Working(b) <=> Working(b)')
<1>1. /\ call'[b].pc = call[b].pc /\ call'[b].rank = call[b].rank /\ call'[b].index = call[b].index
      /\ call'[b].try = call[b].try /\ call'[b].fresh = call[b].fresh
  BY DEF Still, Same
<1>2. Working(b) <=> Working(b)'
  BY <1>1 DEF Working, StampPcs, LeafPcs, NodePcs, Scanning
<1>3. \A i \in Nodes : (Ahead(b, i) <=> Ahead(b, i)') /\ (At(b, i) <=> At(b, i)')
  BY <1>1, <1>2 DEF Ahead, At, NodePcs, Scanning
<1> QED BY <1>1, <1>2, <1>3 DEF Persists, NotFull, Unread

LEMMA NotFullWorks ==
  ASSUME NEW c \in Callers, NEW i, NotFull(c, i) \/ Unread(c, i)
  PROVE  Working(c) /\ NotFull(c, i)
BY DEF NotFull, Unread, Ahead, At, Working

(* Whoever will refresh a node will then refresh its parent. *)
LEMMA Rises ==
  ASSUME Calls, PathInv, NEW c \in Callers, NEW i \in Nodes,
           NEW j \in {Left(i), Right(i)} \cap Nodes, NotFull(c, j)
  PROVE  Ahead(c, i)
<1>1. j # 0 /\ Parent(j) = i /\ i < j
  BY ChildParent, ParentIs
<1>2. Working(c) /\ call[c].rank \in Enqueuers /\ call[c].index \in Nodes
  BY NotFullWorks, CallerIs DEF CallInv, Locals
<1>3. OnPath(call[c].rank, j) /\ (call[c].pc \in NodePcs => j <= call[c].index)
  <2>1. PathCall(c)
    BY DEF PathInv
  <2>2. j \in Nat /\ call[c].index \in Nat
    BY <1>2, Constants
  <2>3. CASE Ahead(c, j)
    BY <2>2, <2>3 DEF Ahead
  <2>4. CASE At(c, j)
    BY <2>1, <2>2, <2>4 DEF At, PathCall
  <2> QED BY <2>3, <2>4 DEF NotFull
<1>4. OnPath(call[c].rank, i)
  BY <1>1, <1>2, <1>3, Constants, PathUp
<1>5. call[c].pc \in NodePcs => i < call[c].index
  <2>1. i \in Nat /\ j \in Nat /\ call[c].index \in Nat
    BY <1>2, Constants
  <2> QED BY <1>1, <1>3, <2>1
<1> QED BY <1>2, <1>4, <1>5 DEF Ahead

(* A caller at a node does not refresh the nodes below any more. *)
LEMMA Passed ==
  ASSUME Calls, NEW c \in Callers, NEW i \in Nodes, At(c, i), NEW j \in {Left(i), Right(i)} \cap Nodes
  PROVE  ~NotFull(c, j)
<1>1. i < j /\ i \in Nat /\ j \in Nat
  BY ChildParent, ParentIs, Constants
<1> QED BY <1>1 DEF NotFull, Ahead, At

(* Nodes that a step leaves alone. *)
LEMMA NodeFrame ==
  ASSUME NEW i \in Nodes, Shown(i), Named(i), Lasts(i), Stamps' = Stamps, tree'[i] = tree[i]
  PROVE  Shown(i)' /\ Named(i)'
<1>1. \A p \in Enqueuers : Exempt(p, i) => Exempt(p, i)'
  BY DEF Exempt, Lasts, Persists
<1>2. Shown(i)'
  BY <1>1 DEF Shown, DUMMY, MAX
<1>3. Named(i)'
  BY DEF Named, Lasts, Persists, DUMMY, MAX
<1> QED BY <1>2, <1>3

LEMMA ExcusedLasts ==
  ASSUME Calls, NEW b \in Callers, NEW i \in Nodes, Lasts(i), NEW p \in Enqueuers, Excused(b, p, i)
  PROVE  Excused(b, p, i)'
BY Constants, NotFullWorks DEF Excused, Lasts, Persists, Callers

LEMMA ScanFrame ==
  ASSUME Calls, NEW b \in Callers, Same(b), ScanInv(b), call'[b].fresh =>
           call[b].fresh /\ Lasts(call[b].index),
         Stamps' = Stamps
  PROVE  ScanInv(b)'
<1> SUFFICES ASSUME NEW i \in Nodes, call'[b].pc \in Scanning, call'[b].fresh, call'[b].index = i
             PROVE  LeastInv(b, i)' /\ SeenInv(b, i)'
  BY DEF ScanInv, Nodes, Scanning
<1>1. /\ call'[b].pc = call[b].pc /\ call'[b].index = call[b].index /\ call[b].fresh
      /\ call'[b].value = call[b].value /\ call'[b].least = call[b].least
      /\ call'[b].seen = call[b].seen
      /\ call'[b].child = call[b].child
  BY DEF Same
<1>2. LeastInv(b, i) /\ SeenInv(b, i) /\ Lasts(i)
  BY <1>1 DEF ScanInv
<1>3. \A p \in Enqueuers : Excused(b, p, i) => Excused(b, p, i)'
  BY <1>2, ExcusedLasts
<1>4. LeastInv(b, i)'
  BY <1>1, <1>2, NotFullWorks DEF LeastInv, Lasts, Persists, DUMMY, Callers
<1>5. Scanned(b, i)' = Scanned(b, i)
  BY <1>1 DEF Scanned, Nodes, Left, Right
<1>6. SeenInv(b, i)'
  BY <1>1, <1>2, <1>3, <1>5 DEF SeenInv
<1> QED BY <1>4, <1>6

(* Steps that leave the timestamps and the tree alone. *)
LEMMA TreeFrame ==
  ASSUME Calls, TreeInv, NEW c \in Callers, \A b \in Callers : b # c =>
           Still(b), \A i \in Nodes : Lasts(i),
         Stamps' = Stamps, tree' = tree, ScanInv(c)'
  PROVE  TreeInv'
<1>1. \A i \in Nodes : Shown(i)' /\ Named(i)'
  BY NodeFrame DEF TreeInv
<1>2. ASSUME NEW b \in Callers, b # c PROVE ScanInv(b)'
  <2>1. Same(b) /\ call'[b].fresh = call[b].fresh /\ call[b].index \in Nodes /\ ScanInv(b)
    BY <1>2, CallerIs DEF Still, Locals, TreeInv
  <2> QED BY <2>1, ScanFrame
<1> QED BY <1>1, <1>2 DEF TreeInv, Callers, Nodes

LEMMA ScansNot ==
  ASSUME NEW c \in Callers, call'[c].pc \notin Scanning
  PROVE  ScanInv(c)'
BY DEF ScanInv, Scanning

(* Only c moves. *)
LEMMA LastsIf ==
  ASSUME NEW i \in Nodes, NEW c \in Callers, \A b \in Callers : b # c => Persists(b, i),
         \A q \in Enqueuers : q # c /\ New(q) => New(q)',
         c = Dequeuer => Persists(c, i), New(c) => Persists(c, i) /\ (NotFull(c, i) => New(c)')
  PROVE  Lasts(i)
BY Constants DEF Lasts, Callers

(* The refresh of a rank makes no element new or old before it ends. *)
LEMMA RefreshNew ==
  ASSUME Calls, NEW c \in Callers, Refresh(c), NEW p \in Enqueuers
  PROVE  (p # c \/ accepted' = accepted => (New(p) <=> New(p)')) /\ (New(p)' => New(p))
<1>1. spsc' = spsc /\ (accepted' = accepted \/ Accept(c)) /\ TypeInv
  BY RefreshCalls, CallerIs DEF Kept
<1>2. accepted'[p] \in Nat /\ accepted[p] \in Nat /\ accepted'[p] >= accepted[p]
      /\ (p # c => accepted'[p] = accepted[p])
  <2>1. accepted[p] \in Nat /\ call[c].n \in Nat
    BY <1>1, CallerIs, LocalsIs DEF TypeInv
  <2> QED BY <1>1, <2>1, AcceptIs
<1>3. p # c \/ accepted' = accepted => (New(p) <=> New(p)')
  BY <1>1, <1>2 DEF New
<1>4. New(p)' => New(p)
  <2>1. spsc[p] # <<>> => Head(spsc[p]).item[2] \in Nat
    BY <1>1, FrontType, EntryIs
  <2> QED BY <1>1, <1>2, <2>1 DEF New
<1> QED BY <1>3, <1>4

--------------------------------------------------------------------------------
(* A refresh that only reads. *)

LEMMA RanksDiffer ==
  ASSUME Calls, RankInv, NEW b \in Callers, NEW c \in Callers, b # c, Refreshes(b), Refreshes(c)
  PROVE  call[b].rank # call[c].rank
<1>1. ASSUME NEW p \in Enqueuers, Refreshes(p) PROVE call[p].rank = p /\ ~Serves(p)
  <2>1. p \in Callers /\ p # Dequeuer /\ CallInv(p) /\ Working(p) /\ Alone(p)
    BY <1>1, Constants, WorkingIs, CallerIs DEF Callers, RankInv
  <2> QED BY <1>1, <2>1 DEF CallInv, Alone, Working, StampPcs, LeafPcs, NodePcs, Scanning
<1>2. Refreshes(Dequeuer) => Refreshing(Dequeuer)
  BY WorkingIs DEF Callers
<1>3. \A p \in Enqueuers : Refreshes(p) /\ Refreshes(Dequeuer) => call[Dequeuer].rank # p
  BY <1>1, <1>2 DEF Serves
<1> QED BY <1>1, <1>3 DEF Callers

(* Only at the inner nodes do callers get in each other's way. *)
LEMMA Rivals ==
  ASSUME Calls, RankInv, NEW b \in Callers, NEW c \in Callers, b # c, Clashes(b, c),
         call[c].pc \in {"swapStamp", "swapLeaf", "swapNode"}
  PROVE  call[c].pc = "swapNode" /\ call[b].pc \in Scanning /\ call[b].index = call[c].index
<1>1. CallInv(b) /\ CallInv(c) /\ call[b].index \in Nat /\ call[c].index \in Nat
  BY CallerIs, LocalsIs
<1>2. Cell(call[b]) = Cell(call[c]) /\ Refreshes(c)
  BY DEF Clashes, Refreshes, StampPcs, LeafPcs, NodePcs, Scanning
<1>3. CASE call[c].pc = "swapStamp"
  <2>1. call[b].pc = "swapStamp" /\ call[b].rank = call[c].rank
    BY <1>2, <1>3 DEF Cell
  <2> QED BY <1>2, <2>1, RanksDiffer DEF Refreshes, StampPcs
<1>4. CASE call[c].pc \in {"swapLeaf", "swapNode"}
  <2>1. call[b].pc \in {"swapLeaf"} \cup Scanning /\ call[b].index = call[c].index
    BY <1>2, <1>4 DEF Cell, Scanning
  <2>2. Refreshes(b)
    BY <2>1 DEF Refreshes, LeafPcs, NodePcs
  <2>3. call[b].rank \in Enqueuers /\ call[c].rank \in Enqueuers /\ call[b].rank # call[c].rank
    BY <1>1, <1>2, <2>2, RanksDiffer, WorkingIs DEF CallInv
  <2>4. \A p, q \in Enqueuers : Leaf(p) = Leaf(q) => p = q
    BY LTTreeAssumption DEF Leaf, LTTreeAssumption
  <2>5. \A p \in Enqueuers : ~(Leaf(p) < Processes)
    BY LTTreeAssumption DEF Leaf, LTTreeAssumption
  <2>6. /\ call[b].pc = "swapLeaf" => call[b].index = Leaf(call[b].rank)
        /\ call[c].pc = "swapLeaf" => call[c].index = Leaf(call[c].rank)
        /\ call[b].pc \in Scanning => call[b].index < Processes
        /\ call[c].pc = "swapNode" => call[c].index < Processes
    BY <1>1 DEF CallInv, LeafPcs, NodePcs, Scanning
  <2> QED BY <1>4, <2>1, <2>3, <2>4, <2>5, <2>6
<1> QED BY <1>3, <1>4

LEMMA RefreshLasts ==
  ASSUME Calls, NEW c \in Callers, Refresh(c), accepted' = accepted, NEW i \in Nodes, Persists(c, i),
         \A b \in Callers : b # c => Persists(b, i)
  PROVE  Lasts(i)
<1>1. \A q \in Enqueuers : New(q) => New(q)'
  BY RefreshNew
<1>2. c \in Enqueuers \/ c = Dequeuer
  BY DEF Callers
<1>3. CASE c \in Enqueuers
  <2>1. New(c) => New(c)'
    BY <1>1, <1>3
  <2> QED BY <1>1, <1>3, <2>1, LastsIf
<1>4. CASE c = Dequeuer
  BY <1>1, <1>4, Constants DEF Lasts, Callers
<1> QED BY <1>2, <1>3, <1>4

(* Steps of a refresh at the timestamp or the leaf that write nothing. *)
LEMMA ReadingTree ==
  ASSUME Calls, PathInv, TreeInv, NEW c \in Callers, Refresh(c),
           NEW pc \in StampPcs \cup LeafPcs, Advances(c, pc),
         call[c].pc \in StampPcs \cup LeafPcs, Stamps' = Stamps, tree' = tree, accepted' = accepted
  PROVE  TreeInv'
<1>1. \A b \in Callers : b # c => Still(b)
  BY DEF Advances, Still
<1>2. ASSUME NEW i \in Nodes PROVE Persists(c, i)
  BY DEF Persists, NotFull, Unread, Ahead, At, Advances, Working, StampPcs, LeafPcs, NodePcs, Scanning
<1>3. \A i \in Nodes : Lasts(i)
  BY <1>1, <1>2, StillPersists, RefreshLasts
<1>4. ScanInv(c)'
  BY ScansNot DEF Advances, StampPcs, LeafPcs, Scanning
<1> QED BY <1>1, <1>3, <1>4, TreeFrame

(* A node shows a caller that comes to its parent the ranks below it, *)
(* unless somebody who is still to refresh the parent excuses it.      *)
LEMMA ChildShown ==
  ASSUME Calls, PathInv, TreeInv, NEW c \in Callers, NEW i \in Nodes, At(c, i),
         NEW j \in {Left(i), Right(i)} \cap Nodes, NEW p \in Enqueuers, OnPath(p, j)
  PROVE  Excused(c, p, i) \/ Stamps[p] = MAX \/ (tree[j] # DUMMY /\ Stamps[tree[j]] <= Stamps[p])
<1> SUFFICES ASSUME Stamps[p] # MAX, Exempt(p, j) PROVE Excused(c, p, i)
  BY DEF TreeInv, Shown
<1>1. p \in Callers /\ Dequeuer \in Callers
  BY DEF Callers
<1>2. CASE New(p) /\ NotFull(p, j)
  <2>1. Ahead(p, i)
    BY <1>1, <1>2, Rises
  <2>2. p # c
    BY <1>2, Passed
  <2> QED BY <1>2, <2>1, <2>2 DEF Excused, Unread
<1>3. CASE NotFull(Dequeuer, j)
  <2>1. Ahead(Dequeuer, i)
    BY <1>1, <1>3, Rises
  <2>2. Dequeuer # c
    BY <1>3, Passed
  <2> QED BY <2>1, <2>2 DEF Excused, Unread
<1> QED BY <1>2, <1>3 DEF Exempt

LEMMA ScannedNext ==
  ASSUME Calls, NEW c \in Callers, Continues(c), call[c].pc \in {"child", "childStamp"},
           NEW i \in Nodes, call[c].index = i
  PROVE  /\ call'[c].pc \in {"child", "swapNode"} /\ call[c].child \in {Left(i), Right(i)} \cap Nodes
         /\ Scanned(c, i)' \subseteq Scanned(c, i) \cup {call[c].child}
<1>1. call[c].child \in {Left(i), Right(i)} \cap Nodes
  BY CallerIs DEF CallInv
<1>2. call'[c].pc = IF More(call[c]) THEN "child" ELSE "swapNode"
  BY DEF Continues, Advances
<1>3. Left(i)' = Left(i) /\ Right(i)' = Right(i) /\ Nodes' = Nodes
        /\ (More(call[c]) => call'[c].child = Right(i))
  BY DEF Left, Right, Nodes, Continues
<1>4. CASE call[c].child = Left(i)
  <2>1. CASE Right(i) \in Nodes
    <3>1. More(call[c])
      BY <1>4, <2>1 DEF More
    <3> QED BY <1>1, <1>2, <1>3, <1>4, <3>1 DEF Scanned
  <2>2. CASE Right(i) \notin Nodes
    <3>1. ~More(call[c])
      BY <1>4, <2>2 DEF More
    <3> QED BY <1>1, <1>2, <1>3, <1>4, <2>2, <3>1 DEF Scanned
  <2> QED BY <2>1, <2>2
<1>5. CASE call[c].child = Right(i) /\ call[c].child # Left(i)
  <2>1. ~More(call[c])
    BY <1>5 DEF More
  <2> QED BY <1>1, <1>2, <1>3, <1>5, <2>1 DEF Scanned
<1> QED BY <1>1, <1>4, <1>5

LEMMA ReadNodeScan ==
  ASSUME Calls, NEW c \in Callers, AgentInv(c), ReadNode(c)
  PROVE  ScanInv(c)'
<1>1. call'[c].pc = "child" /\ call'[c].value = DUMMY /\ call'[c].child = Left(call[c].index)
      /\ call'[c].index = call[c].index
  BY ReadNodeIs DEF ReadNode, AgentInv, Advances
<1> SUFFICES ASSUME NEW i \in Nodes, call'[c].index = i
             PROVE  LeastInv(c, i)' /\ SeenInv(c, i)'
  BY DEF ScanInv, Nodes, Scanning
<1>2. LeastInv(c, i)'
  BY <1>1 DEF LeastInv, DUMMY
<1>3. Scanned(c, i)' = {}
  BY <1>1 DEF Scanned, Left
<1> QED BY <1>1, <1>2, <1>3 DEF SeenInv

(* The bounds that a caller has found hold after it has read another child. *)
LEMMA ScanNext ==
  ASSUME Calls, NEW c \in Callers, Continues(c), call[c].pc \in {"child", "childStamp"},
         Stamps' = Stamps, \A i \in Nodes : Lasts(i), ScanInv(c),
         call'[c].least \in Nat, call[c].least \in Nat, \A p \in Enqueuers : Stamps[p] \in Nat,
         call'[c].least <= call[c].least,
         \/ call'[c].value = call[c].value /\ call'[c].least = call[c].least
         \/ call'[c].value \in Enqueuers /\ call'[c].least = Stamps[call'[c].value],
         call[c].fresh => \A p \in Enqueuers : OnPath(p, call[c].child) =>
           call'[c].least <= Stamps[p] \/ Excused(c, p, call[c].index)
  PROVE  ScanInv(c)'
<1> SUFFICES ASSUME NEW i \in Nodes, call'[c].fresh, call'[c].index = i
             PROVE  LeastInv(c, i)' /\ SeenInv(c, i)'
  BY DEF ScanInv, Nodes, Scanning
<1>1. call[c].fresh /\ call[c].index = i
  BY DEF Continues, Advances
<1>2. LeastInv(c, i) /\ SeenInv(c, i)
  BY <1>1 DEF ScanInv, Scanning
<1>3. LeastInv(c, i)'
  <2>1. CASE call'[c].value \in Enqueuers /\ call'[c].least = Stamps[call'[c].value]
    BY <2>1 DEF LeastInv
  <2>2. CASE call'[c].value = call[c].value /\ call'[c].least = call[c].least
    BY <1>2, <2>2, NotFullWorks DEF LeastInv, Lasts, Persists, DUMMY, Callers
  <2> QED BY <2>1, <2>2
<1>4. \A p \in Enqueuers : Excused(c, p, i) => Excused(c, p, i)'
  BY ExcusedLasts
<1>5. ASSUME NEW j \in Scanned(c, i)', NEW p \in Enqueuers, OnPath(p, j)
      PROVE  call'[c].least <= Stamps[p] \/ Excused(c, p, i)'
  <2>1. j \in Scanned(c, i) \cup {call[c].child}
    BY <1>1, <1>5, ScannedNext
  <2>2. CASE j \in Scanned(c, i)
    <3>1. call[c].least <= Stamps[p] \/ Excused(c, p, i)
      BY <1>2, <1>5, <2>2 DEF SeenInv
    <3> QED BY <1>4, <3>1
  <2>3. CASE j = call[c].child
    BY <1>1, <1>4, <1>5, <2>3
  <2> QED BY <2>1, <2>2, <2>3
<1>6. call'[c].pc # "childStamp"
  BY <1>1, ScannedNext
<1>7. SeenInv(c, i)'
  BY <1>5, <1>6 DEF SeenInv
<1> QED BY <1>3, <1>7

LEMMA ReadChildScan ==
  ASSUME Calls, PathInv, TreeInv, NEW c \in Callers, ReadChild(c), \A i \in Nodes : Lasts(i),
         Stamps' = Stamps
  PROVE  ScanInv(c)'
<1> DEFINE i == call[c].index
           j == call[c].child
<1>1. /\ call[c] \in Locals /\ CallInv(c) /\ Stamps \in [Enqueuers -> Timestamps] /\ Stamps' = Stamps
      /\ call[c].pc = "child" /\ tree \in [Nodes -> RanksOrDummy] /\ ScanInv(c)
  BY CallerIs, StampsIs DEF ReadChild, TypeInv, TreeInv
<1>2. i \in Nodes /\ call[c].least \in Nat /\ call[c].least <= MAX
        /\ j \in {Left(i), Right(i)} \cap Nodes
  BY <1>1, Constants DEF CallInv, Locals
<1>3. \A p \in Enqueuers : Stamps[p] \in Nat /\ Stamps[p] <= MAX
  BY <1>1, Constants
<1>4. At(c, i)
  BY <1>1 DEF At, NodePcs, Scanning
<1>5. \A p \in Enqueuers : OnPath(p, j) =>
        Excused(c, p, i) \/ Stamps[p] = MAX \/ (tree[j] # DUMMY /\ Stamps[tree[j]] <= Stamps[p])
  BY <1>2, <1>4, ChildShown
<1>6. CASE tree[j] = DUMMY
  <2>1. Continues(c) /\ call'[c].value = call[c].value /\ call'[c].least = call[c].least
    BY <1>6, ReadChildIs
  <2>2. \A p \in Enqueuers : OnPath(p, j) => call'[c].least <= Stamps[p] \/ Excused(c, p, i)
    BY <1>2, <1>3, <1>5, <1>6, <2>1
  <2>3. call'[c].least <= call[c].least /\ call'[c].least \in Nat
    BY <1>2, <2>1
  <2> QED BY <1>1, <1>2, <1>3, <2>1, <2>2, <2>3, ScanNext
<1>7. CASE tree[j] # DUMMY
  <2>1. /\ Advances(c, "childStamp") /\ call'[c].seen = tree[j] /\ call'[c].child = j
        /\ call'[c].fresh = call[c].fresh
        /\ call'[c].value = call[c].value /\ call'[c].least = call[c].least
    BY <1>7, ReadChildIs
  <2>2. tree[j] \in Enqueuers /\ Stamps[tree[j]] \in Nat /\ Stamps[tree[j]] <= MAX
    BY <1>1, <1>2, <1>3, <1>7 DEF RanksOrDummy
  <2> SUFFICES ASSUME NEW k \in Nodes, call'[c].fresh, call'[c].index = k
                        PROVE LeastInv(c, k)' /\ SeenInv(c, k)'
    BY DEF ScanInv, Nodes, Scanning
  <2>3. i = k /\ LeastInv(c, k) /\ SeenInv(c, k) /\ Lasts(k)
    BY <1>1, <1>2, <2>1 DEF ScanInv, Scanning, Advances
  <2>4. \A p \in Enqueuers : Excused(c, p, k) => Excused(c, p, k)'
    BY <2>3, ExcusedLasts
  <2>5. LeastInv(c, k)'
    BY <1>1, <2>1, <2>3, NotFullWorks DEF LeastInv, Lasts, Persists, DUMMY, Callers
  <2>6. Scanned(c, k)' = Scanned(c, k)
    BY <1>1, <2>1 DEF Scanned, Advances, Left
  <2>7. \A p \in Enqueuers : OnPath(p, j) => Stamps[tree[j]] <= Stamps[p] \/ Excused(c, p, k)
    BY <1>3, <1>5, <2>2, <2>3
  <2>8. \A l \in Scanned(c, k)', p \in Enqueuers : OnPath(p, l) =>
          call[c].least <= Stamps[p] \/ Excused(c, p, k)'
    BY <2>3, <2>4, <2>6 DEF SeenInv
  <2>9. \A p \in Enqueuers : OnPath(p, j) => Stamps[tree[j]] <= Stamps[p] \/ Excused(c, p, k)'
    BY <2>4, <2>7
  <2>10. SeenInv(c, k)'
    BY <1>1, <2>1, <2>8, <2>9 DEF SeenInv
  <2> QED BY <2>5, <2>10
<1> QED BY <1>6, <1>7

LEMMA ReadChildStampScan ==
  ASSUME Calls, WrittenInv, NEW c \in Callers, ScanInv(c), ReadChildStamp(c),
         \A i \in Nodes : Lasts(i), Stamps' = Stamps
  PROVE  ScanInv(c)'
<1> DEFINE i == call[c].index
           s == call[c].seen
<1>1. /\ call[c] \in Locals /\ CallInv(c) /\ Stamps \in [Enqueuers -> Timestamps] /\ Stamps' = Stamps
      /\ call[c].pc = "childStamp"
  BY CallerIs, StampsIs DEF ReadChildStamp
<1>2. i \in Nodes /\ call[c].least \in Nat /\ s \in Enqueuers /\ \A p \in Enqueuers : Stamps[p] \in Nat
  BY <1>1, Constants DEF CallInv, Locals
<1>3. /\ Continues(c)
      /\ IF Stamps[s] < call[c].least
         THEN call'[c].value = s /\ call'[c].least = Stamps[s]
         ELSE call'[c].value = call[c].value /\ call'[c].least = call[c].least
  <2>1. Stamps[s] = stamp[s]
    BY <1>1, <1>2, StampsIs DEF WrittenInv, Unseen, Blind
  <2> QED BY <2>1, ReadChildStampIs
<1>4. call'[c].least <= Stamps[s] /\ call'[c].least <= call[c].least /\ call'[c].least \in Nat
  BY <1>2, <1>3
<1>5. call[c].fresh => \A p \in Enqueuers : OnPath(p, call[c].child) =>
        Stamps[s] <= Stamps[p] \/ Excused(c, p, i)
  BY <1>1, <1>2 DEF ScanInv, SeenInv, Scanning
<1>6. call[c].fresh => \A p \in Enqueuers : OnPath(p, call[c].child) =>
        call'[c].least <= Stamps[p] \/ Excused(c, p, i)
  BY <1>2, <1>4, <1>5
<1>7. \/ call'[c].value = call[c].value /\ call'[c].least = call[c].least
      \/ call'[c].value \in Enqueuers /\ call'[c].least = Stamps[call'[c].value]
  BY <1>2, <1>3
<1> HIDE DEF s
<1> QED BY <1>1, <1>2, <1>3, <1>4, <1>6, <1>7, ScanNext

(* Reading at the nodes leaves the tree as it should be. *)
LEMMA ReadTree ==
  ASSUME QueueInv, WrittenInv, Calls, PathInv, TreeInv, NEW c \in Callers, AgentInv(c),
         ReadNode(c) \/ ReadChild(c) \/ ReadChildStamp(c)
  PROVE  TreeInv'
<1>1. Refresh(c) /\ Stamps' = Stamps /\ tree' = tree /\ accepted' = accepted /\ call[c].pc \in NodePcs
  <2>1. Refresh(c) /\ ~SwapStamp(c)
    BY DEF Refresh, RefreshNode, ReadNode, ReadChild, ReadChildStamp, SwapStamp
  <2> QED BY <2>1, RefreshStamps DEF ReadNode, ReadChild, ReadChildStamp, NodePcs, Scanning
<1>2. PICK pc \in Scanning : Advances(c, pc) /\ (call[c].pc # "node" => call'[c].fresh = call[c].fresh)
        /\ (call[c].pc = "node" => call'[c].fresh)
  BY ReadNodeIs, ReadChildIs, ReadChildStampIs DEF Continues, ReadNode, ReadChild, ReadChildStamp,
       Scanning
<1>3. ASSUME NEW i \in Nodes PROVE Persists(c, i)
  <2>1. /\ call'[c].pc \in NodePcs /\ call'[c].index = call[c].index /\ call'[c].try = call[c].try
        /\ call'[c].rank = call[c].rank
    BY <1>2 DEF Advances, NodePcs
  <2>2. (Ahead(c, i) <=> Ahead(c, i)') /\ (At(c, i) <=> At(c, i)')
    BY <1>1, <2>1 DEF Ahead, At, Working, NodePcs, Scanning
  <2> QED BY <1>2, <2>1, <2>2 DEF Persists, NotFull, Unread
<1>4. \A b \in Callers : b # c => Still(b)
  BY <1>2 DEF Advances, Still
<1>5. \A i \in Nodes : Lasts(i)
  BY <1>1, <1>3, <1>4, StillPersists, RefreshLasts
<1>6. ScanInv(c)'
  BY <1>1, <1>5, ReadNodeScan, ReadChildScan, ReadChildStampScan DEF TreeInv
<1> QED BY <1>1, <1>4, <1>5, <1>6, TreeFrame

--------------------------------------------------------------------------------
(* A refresh that writes a timestamp or a leaf. *)

LEMMA ScannedBelow ==
  ASSUME Calls, NEW b \in Callers, NEW i \in Nodes, call[b].pc \in Scanning, call[b].index = i,
         NEW j \in Scanned(b, i) \cup (IF call[b].pc = "childStamp" THEN {call[b].child} ELSE {}),
         NEW p \in Enqueuers, OnPath(p, j)
  PROVE  j \in {Left(i), Right(i)} \cap Nodes /\ OnPath(p, i)
<1>1. CallInv(b) /\ i < Processes
  BY CallerIs DEF CallInv, NodePcs
<1>2. j \in {Left(i), Right(i)} \cap Nodes
  BY <1>1, ChildIs DEF Scanned, CallInv
<1>3. j # 0 /\ Parent(j) = i
  BY <1>2, ChildParent
<1> QED BY <1>2, <1>3, Constants, PathUp

(* An enqueuer gives its rank, which had no timestamp, that of its new front. *)
LEMMA StampFalls ==
  ASSUME Calls, PathInv, TreeInv, NEW r \in Enqueuers, \A b \in Callers : b # r =>
           Still(b), \A i \in Nodes : Lasts(i),
         New(r)', \A i \in Nodes : OnPath(r, i) =>
           Ahead(r, i)', call'[r].pc \notin Scanning, tree' = tree,
         NEW t \in Timestamps, Stamps' = [Stamps EXCEPT ![r] = t], t <= Stamps[r]
  PROVE  TreeInv'
<1>1. /\ Stamps \in [Enqueuers -> Timestamps] /\ tree \in [Nodes -> RanksOrDummy] /\ r \in Callers
      /\ r # Dequeuer
      /\ \A q \in Enqueuers : Stamps[q] \in Nat /\ Stamps[q] <= MAX
  BY Constants, StampsIs DEF Calls, TypeInv, Callers
<1>2. \A q \in Enqueuers : Stamps'[q] \in Nat /\ Stamps'[q] <= Stamps[q] /\ (q # r => Stamps'[q] = Stamps[q])
  BY <1>1, Constants
<1>3. MAX' = MAX /\ DUMMY' = DUMMY
  BY DEF MAX, DUMMY
<1>4. ASSUME NEW i \in Nodes PROVE Shown(i)' /\ Named(i)'
  <2>1. Shown(i) /\ Named(i) /\ Lasts(i) /\ (tree[i] # DUMMY => tree[i] \in Enqueuers)
    BY <1>1 DEF TreeInv, RanksOrDummy
  <2>2. \A p \in Enqueuers : Exempt(p, i) => Exempt(p, i)'
    BY <2>1 DEF Exempt, Lasts, Persists
  <2>3. ASSUME NEW p \in Enqueuers, OnPath(p, i), Stamps'[p] # MAX
        PROVE  Exempt(p, i)' \/ (tree[i] # DUMMY /\ Stamps'[tree[i]] <= Stamps'[p])
    <3>1. CASE p = r
      BY <2>3, <3>1 DEF Exempt, NotFull
    <3>2. CASE p # r
      <4>1. Stamps'[p] = Stamps[p]
        BY <1>2, <3>2
      <4>2. CASE Exempt(p, i)
        BY <2>2, <4>2
      <4>3. CASE ~Exempt(p, i)
        <5>1. tree[i] \in Enqueuers /\ tree[i] # DUMMY /\ Stamps[tree[i]] <= Stamps[p]
          BY <2>1, <2>3, <4>1, <4>3 DEF Shown
        <5>2. Stamps'[tree[i]] \in Nat /\ Stamps'[tree[i]] <= Stamps[tree[i]]
                /\ Stamps[tree[i]] \in Nat /\ Stamps[p] \in Nat
          BY <1>1, <1>2, <5>1
        <5> QED BY <4>1, <5>1, <5>2
      <4> QED BY <4>2, <4>3
    <3> QED BY <3>1, <3>2
  <2>4. Shown(i)'
    BY <1>3, <2>3 DEF Shown
  <2>5. ASSUME tree[i] # DUMMY
        PROVE  Stamps'[tree[i]] # MAX \/ (call'[Dequeuer].rank = tree[i] /\ NotFull(Dequeuer, i)')
    <3>1. CASE Stamps[tree[i]] # MAX
      <4>1. Stamps'[tree[i]] \in Nat /\ Stamps'[tree[i]] <= Stamps[tree[i]] /\ Stamps[tree[i]] \in Nat
              /\ Stamps[tree[i]] <= MAX
        BY <1>1, <1>2, <2>1, <2>5
      <4> QED BY <3>1, <4>1, Constants
    <3>2. CASE Stamps[tree[i]] = MAX
      BY <2>1, <2>5, <3>2 DEF Named, Lasts, Persists
    <3> QED BY <3>1, <3>2
  <2>6. Named(i)'
    BY <1>3, <2>5 DEF Named
  <2> QED BY <2>4, <2>6
<1>5. ASSUME NEW b \in Callers, b # r PROVE ScanInv(b)'
  <2> SUFFICES ASSUME NEW i \in Nodes, call'[b].pc \in Scanning, call'[b].fresh, call'[b].index = i
               PROVE  LeastInv(b, i)' /\ SeenInv(b, i)'
    BY DEF ScanInv, Nodes, Scanning
  <2>1. /\ call'[b].pc = call[b].pc /\ call'[b].index = call[b].index /\ call'[b].fresh = call[b].fresh
        /\ call'[b].value = call[b].value /\ call'[b].least = call[b].least
        /\ call'[b].seen = call[b].seen
        /\ call'[b].child = call[b].child
    BY <1>5 DEF Still, Same
  <2>2. LeastInv(b, i) /\ SeenInv(b, i) /\ Lasts(i) /\ call[b].pc \in Scanning
          /\ call[b].index = i /\ call[b] \in Locals
        /\ CallInv(b)
    BY <2>1, CallerIs DEF TreeInv, ScanInv
  <2>3. call[b].least \in Nat
    BY <2>2, Constants DEF Locals
  <2>4. call[b].value # DUMMY => call[b].value \in Enqueuers
    BY <2>2 DEF CallInv, RanksOrDummy, NodePcs
  <2>5. LeastInv(b, i)'
    <3> SUFFICES ASSUME call[b].value # DUMMY
                 PROVE  \/ Stamps'[call[b].value] <= call[b].least
                        \/ b # Dequeuer /\ call'[Dequeuer].rank = call[b].value /\ Unread(Dequeuer, i)'
      BY <1>3, <2>1 DEF LeastInv
    <3>1. CASE Stamps[call[b].value] <= call[b].least
      <4>1. Stamps'[call[b].value] \in Nat /\ Stamps'[call[b].value] <= Stamps[call[b].value]
              /\ Stamps[call[b].value] \in Nat
        BY <1>1, <1>2, <2>4
      <4> QED BY <2>3, <3>1, <4>1
    <3>2. CASE ~(Stamps[call[b].value] <= call[b].least)
      BY <2>2, <3>2, NotFullWorks DEF LeastInv, Lasts, Persists, Callers
    <3> QED BY <3>1, <3>2
  <2>6. \A p \in Enqueuers : Excused(b, p, i) => Excused(b, p, i)'
    BY <2>2, ExcusedLasts
  <2>7. \A p \in Enqueuers : OnPath(p, i) /\ p = r => Excused(b, p, i)'
    BY <1>5 DEF Excused, Unread
  <2>8. Scanned(b, i)' = Scanned(b, i)
    BY <2>1 DEF Scanned, Nodes, Left, Right
  <2>9. ASSUME NEW j \in Scanned(b, i), NEW p \in Enqueuers, OnPath(p, j)
        PROVE  call[b].least <= Stamps'[p] \/ Excused(b, p, i)'
    <3>1. OnPath(p, i)
      BY <2>2, <2>9, ScannedBelow
    <3>2. p # r => call[b].least <= Stamps'[p] \/ Excused(b, p, i)'
      BY <1>2, <2>2, <2>6, <2>9 DEF SeenInv
    <3> QED BY <2>7, <3>1, <3>2
  <2>10. ASSUME call[b].pc = "childStamp", NEW p \in Enqueuers, OnPath(p, call[b].child)
         PROVE  Stamps'[call[b].seen] <= Stamps'[p] \/ Excused(b, p, i)'
    <3>1. OnPath(p, i)
      BY <2>2, <2>10, ScannedBelow
    <3>2. CASE p # r
      <4>1. Stamps[call[b].seen] <= Stamps[p] \/ Excused(b, p, i)
        BY <2>2, <2>10 DEF SeenInv
      <4>2. Stamps'[p] = Stamps[p] /\ Stamps[p] \in Nat /\ call[b].seen \in Enqueuers
        BY <1>1, <1>2, <2>2, <2>10, <3>2 DEF CallInv
      <4>3. /\ Stamps'[call[b].seen] \in Nat /\ Stamps[call[b].seen] \in Nat
            /\ Stamps'[call[b].seen] <= Stamps[call[b].seen]
        BY <1>1, <1>2, <4>2
      <4> QED BY <2>6, <4>1, <4>2, <4>3
    <3> QED BY <2>7, <3>1, <3>2
  <2>11. SeenInv(b, i)'
    BY <2>1, <2>8, <2>9, <2>10 DEF SeenInv
  <2> QED BY <2>5, <2>11
<1>6. ScanInv(r)'
  BY <1>1, ScansNot
<1> QED BY <1>4, <1>5, <1>6 DEF TreeInv, Callers, Nodes

(* The dequeuer gives a rank the timestamp of its next element. *)
LEMMA StampRises ==
  ASSUME Calls, PathInv, TreeInv, \A b \in Callers : b # Dequeuer =>
           Still(b), \A i \in Nodes : Persists(Dequeuer, i),
         NEW r \in Enqueuers, call'[Dequeuer].rank = r, \A i \in Nodes : OnPath(r, i) =>
           Ahead(Dequeuer, i)', \A i \in Nodes : ~OnPath(r, i) => Lasts(i),
         call'[Dequeuer].pc \notin Scanning, tree' = tree, NEW t, Stamps' = [Stamps EXCEPT ![r] = t]
  PROVE  TreeInv'
<1>1. /\ Stamps \in [Enqueuers -> Timestamps] /\ tree \in [Nodes -> RanksOrDummy]
      /\ \A i \in Nodes : tree[i] # DUMMY => tree[i] \in Enqueuers /\ OnPath(tree[i], i)
  BY StampsIs DEF Calls, TypeInv, RanksOrDummy, PathInv
<1>2. \A q \in Enqueuers : q # r => Stamps'[q] = Stamps[q]
  BY <1>1
<1>3. MAX' = MAX /\ DUMMY' = DUMMY
  BY DEF MAX, DUMMY
<1>4. ASSUME NEW i \in Nodes PROVE Shown(i)' /\ Named(i)'
  <2>1. Shown(i) /\ Named(i) /\ Persists(Dequeuer, i)
    BY DEF TreeInv
  <2>3. CASE OnPath(r, i)
    <3>1. NotFull(Dequeuer, i)'
      BY <2>3 DEF NotFull
    <3>2. tree[i] # r /\ tree[i] # DUMMY => Stamps'[tree[i]] = Stamps[tree[i]]
      BY <1>1, <1>2
    <3>3. Shown(i)'
      BY <3>1 DEF Shown, Exempt
    <3>4. tree[i] # DUMMY => Stamps'[tree[i]] # MAX \/ call'[Dequeuer].rank = tree[i]
      BY <2>1, <3>2 DEF Named, Persists
    <3>5. Named(i)'
      BY <1>3, <3>1, <3>4 DEF Named
    <3> QED BY <3>3, <3>5
  <2>4. CASE ~OnPath(r, i)
    <3>1. tree[i] # DUMMY => tree[i] # r /\ Stamps'[tree[i]] = Stamps[tree[i]]
      BY <1>1, <1>2, <2>4
    <3>2. \A p \in Enqueuers : OnPath(p, i) => Stamps'[p] = Stamps[p]
      BY <1>2, <2>4
    <3>3. \A p \in Enqueuers : Exempt(p, i) => Exempt(p, i)'
      BY <2>4 DEF Exempt, Lasts, Persists
    <3>4. Shown(i)'
      BY <1>3, <2>1, <3>1, <3>2, <3>3 DEF Shown
    <3>5. Named(i)'
      BY <1>3, <2>1, <3>1 DEF Named, Persists
    <3> QED BY <3>4, <3>5
  <2> QED BY <2>3, <2>4
<1>5. ASSUME NEW b \in Callers, b # Dequeuer PROVE ScanInv(b)'
  <2> SUFFICES ASSUME NEW i \in Nodes, call'[b].pc \in Scanning, call'[b].fresh, call'[b].index = i
               PROVE  LeastInv(b, i)' /\ SeenInv(b, i)'
    BY DEF ScanInv, Nodes, Scanning
  <2>1. /\ call'[b].pc = call[b].pc /\ call'[b].index = call[b].index /\ call'[b].fresh = call[b].fresh
        /\ call'[b].value = call[b].value /\ call'[b].least = call[b].least
        /\ call'[b].seen = call[b].seen
        /\ call'[b].child = call[b].child
    BY <1>5 DEF Still, Same
  <2>2. LeastInv(b, i) /\ SeenInv(b, i) /\ Persists(Dequeuer, i) /\ call[b].pc \in Scanning
        /\ call[b].index = i /\ CallInv(b) /\ PathCall(b)
    BY <2>1, CallerIs DEF TreeInv, ScanInv, PathInv
  <2>3. Scanned(b, i)' = Scanned(b, i)
    BY <2>1 DEF Scanned, Nodes, Left, Right
  <2>4. ~OnPath(r, i) => \A p \in Enqueuers : Excused(b, p, i) => Excused(b, p, i)'
    BY <2>2, ExcusedLasts
  <2>5. call[b].value # DUMMY => call[b].value \in Enqueuers /\ OnPath(call[b].value, i)
    BY <2>2 DEF CallInv, PathCall, RanksOrDummy, NodePcs
  <2>6. call[b].pc = "childStamp" => call[b].seen \in Enqueuers /\ OnPath(call[b].seen, call[b].child)
    BY <2>2 DEF CallInv, PathCall
  <2>7. CASE OnPath(r, i)
    <3>1. Unread(Dequeuer, i)'
      BY <2>7 DEF Unread
    <3>2. \A p \in Enqueuers : Excused(b, p, i)'
      BY <1>5, <3>1 DEF Excused
    <3>3. SeenInv(b, i)'
      BY <3>2 DEF SeenInv
    <3>4. call[b].value # DUMMY =>
            Stamps'[call[b].value] <= call[b].least \/ call'[Dequeuer].rank = call[b].value
      BY <1>2, <2>2, <2>5, NotFullWorks DEF LeastInv, Persists, Callers
    <3>5. LeastInv(b, i)'
      BY <1>3, <1>5, <2>1, <3>1, <3>4 DEF LeastInv
    <3> QED BY <3>3, <3>5
  <2>8. CASE ~OnPath(r, i)
    <3>1. call[b].value # DUMMY => Stamps'[call[b].value] = Stamps[call[b].value]
      BY <1>2, <2>5, <2>8
    <3>2. LeastInv(b, i)'
      BY <1>3, <2>1, <2>2, <3>1, NotFullWorks DEF LeastInv, Persists, Callers
    <3>3. ASSUME NEW j \in Scanned(b, i), NEW p \in Enqueuers, OnPath(p, j) PROVE Stamps'[p] = Stamps[p]
      BY <1>2, <2>2, <2>8, <3>3, ScannedBelow
    <3>4. ASSUME call[b].pc = "childStamp", NEW p \in Enqueuers, OnPath(p, call[b].child)
                   PROVE Stamps'[p] = Stamps[p]
      BY <1>2, <2>2, <2>8, <3>4, ScannedBelow
    <3>5. SeenInv(b, i)'
      BY <2>1, <2>2, <2>3, <2>4, <2>6, <2>8, <3>3, <3>4 DEF SeenInv
    <3> QED BY <3>2, <3>5
  <2> QED BY <2>7, <2>8
<1>6. ScanInv(Dequeuer)'
  BY ScansNot DEF Callers
<1> QED BY <1>4, <1>5, <1>6 DEF TreeInv, Callers, Nodes

(* A timestamp is written in the first attempt, and then the leaf comes next. *)
LEMMA SwapStampEffect ==
  ASSUME QueueInv, WrittenInv, Calls, PathInv, RankInv, NEW c \in Callers, AgentInv(c), SwapStamp(c),
           NEW r \in Enqueuers, r = call[c].rank
  PROVE  /\ \A b \in Callers : b # c => Still(b)
         /\ call'[c].pc = "leafStamp" /\ call'[c].rank = r
         /\ \A i \in Nodes : OnPath(r, i) => Ahead(c, i)'
         /\ \A i \in Nodes : Lasts(i)
         /\ Stamps' = [Stamps EXCEPT ![r] = call[c].value]
         /\ UNCHANGED <<counter, spsc, tree, accepted, dOut, before, settled, raced>>
<1>1. /\ call[c].pc = "swapStamp" /\ call[c].fresh
      /\ UNCHANGED <<counter, spsc, tree, accepted, dOut, before, settled, raced>>
      /\ Stamps' = [Stamps EXCEPT ![r] = call[c].value]
  BY SwapStamps DEF SwapStamp, AgentInv
<1>2. Ends(c) /\ Started(call'[c], c, "leafStamp", Leaf(r), 1)
  BY <1>1, SwapStampIs DEF Succeeds
<1>3. ASSUME NEW b \in Callers, b # c PROVE Still(b)
  <2>1. ~Clashes(b, c)
    BY <1>1, <1>3, Rivals
  <2>2. call[b].fresh \in BOOLEAN
    BY CallerIs DEF Locals
  <2> QED BY <1>2, <1>3, <2>1, <2>2 DEF Ends, Still
<1>4. call'[c].pc = "leafStamp" /\ call'[c].rank = r
  BY <1>2 DEF Started
<1>5. \A i \in Nodes : OnPath(r, i) => Ahead(c, i)'
  BY <1>4 DEF Ahead, Working, LeafPcs, NodePcs, Scanning
<1>6. ASSUME NEW i \in Nodes PROVE Persists(c, i)
  BY <1>1, <1>4, <1>5 DEF Persists, NotFull, Unread, Ahead, At, NodePcs, Scanning
<1>7. Refresh(c)
  BY DEF Refresh, RefreshTimestamp
<1>8. \A i \in Nodes : Lasts(i)
  BY <1>1, <1>3, <1>6, <1>7, StillPersists, RefreshLasts
<1> QED BY <1>1, <1>3, <1>4, <1>5, <1>8

LEMMA SwapStampTree ==
  ASSUME QueueInv, WrittenInv, Calls, PathInv, RankInv, TreeInv, NEW c \in Callers, AgentInv(c), SwapStamp(c)
  PROVE  TreeInv'
<1>1. PICK r \in Enqueuers : r = call[c].rank
  BY SwapStampIs
<1>2. /\ \A b \in Callers : b # c => Still(b)
      /\ call'[c].pc = "leafStamp" /\ call'[c].rank = r
      /\ \A i \in Nodes : OnPath(r, i) => Ahead(c, i)'
      /\ \A i \in Nodes : Lasts(i)
      /\ Stamps' = [Stamps EXCEPT ![r] = call[c].value]
      /\ tree' = tree /\ spsc' = spsc /\ accepted' = accepted
  BY <1>1, SwapStampEffect
<1>3. /\ Alone(r) /\ StampInv(r) /\ FrontTimestamp(r) \in Timestamps /\ Stamps[r] \in Timestamps
      /\ FrontTimestamp(r) <= MAX /\ Stamps \in [Enqueuers -> Timestamps] /\ call[c].pc = "swapStamp"
      /\ c # Dequeuer => call[c].value = FrontTimestamp(r)
  BY <1>1, FrontType, StampsIs, Constants DEF Calls, TypeInv, RankInv, SwapStamp, AgentInv
<1>4. call'[c].pc \notin Scanning
  BY <1>2 DEF Scanning
<1>5. CASE Stamps[r] = FrontTimestamp(r) /\ c # Dequeuer
  <2>1. Stamps' = Stamps
    BY <1>2, <1>3, <1>5
  <2> QED BY <1>2, <1>4, <2>1, ScansNot, TreeFrame
<1>6. CASE Stamps[r] # FrontTimestamp(r) /\ c # Dequeuer
  <2>1. c = r /\ Refreshes(r)
    BY <1>1, <1>3, <1>6, CallerIs DEF Callers, CallInv, Working, Refreshes, StampPcs
  <2>2. New(r) /\ Stamps[r] = MAX
    BY <1>3, <1>6, <2>1 DEF Alone, StampInv
  <2>3. New(r)'
    BY <1>2, <2>2 DEF New
  <2>4. FrontTimestamp(r) <= Stamps[r]
    BY <1>3, <2>2
  <2>5. Stamps' = [Stamps EXCEPT ![r] = FrontTimestamp(r)]
    BY <1>2, <1>3, <1>6
  <2> QED BY <1>2, <1>3, <1>4, <2>1, <2>3, <2>4, <2>5, StampFalls
<1>7. CASE c = Dequeuer
  <2>1. \A i \in Nodes : Persists(Dequeuer, i)
    BY <1>2 DEF Lasts
  <2> QED BY <1>2, <1>4, <1>7, <2>1, StampRises
<1> QED BY <1>5, <1>6, <1>7

--------------------------------------------------------------------------------
(* Where a caller goes on after an inner node or a leaf. *)
LEMMA RisesPersist ==
  ASSUME Calls, PathInv, NEW c \in Callers, NEW l \in Nodes, l # 0,
           NEW r \in Enqueuers, call[c].rank = r, call'[c].rank = r,
         OnPath(r, l), call[c].pc \in LeafPcs => l = Leaf(r), call[c].pc \in NodePcs =>
           l = call[c].index,
         call[c].pc \in LeafPcs \cup NodePcs,
         call'[c].pc = "node", call'[c].index = Parent(l), call'[c].try = 1, NEW i \in Nodes, i # l
  PROVE  Persists(c, i)
<1>1. Parent(l) \in Nodes /\ i \in Nat /\ l \in Nat /\ Parent(l) \in Nat /\ r \in Ranks
  BY ParentIs, Constants
<1>2. ASSUME Ahead(c, i) PROVE i <= Parent(l) /\ OnPath(r, i)
  <2>1. OnPath(r, i)
    BY <1>2 DEF Ahead
  <2>2. i < l
    <3>1. CASE call[c].pc \in NodePcs
      BY <1>2, <3>1 DEF Ahead
    <3>2. CASE call[c].pc \in LeafPcs
      <4>1. i <= Leaf(r)
        BY <1>1, <2>1, LeafIs
      <4> QED BY <1>1, <3>2, <4>1
    <3> QED BY <3>1, <3>2
  <2> QED BY <1>1, <2>1, <2>2, PathOrder
<1>3. ~At(c, i)
  BY DEF At
<1>4. ASSUME Ahead(c, i) PROVE Unread(c, i)' /\ NotFull(c, i)'
  <2>1. CASE i = Parent(l)
    BY <2>1 DEF Unread, NotFull, At, NodePcs
  <2>2. CASE i # Parent(l)
    <3>1. i < Parent(l) /\ OnPath(r, i)
      BY <1>1, <1>2, <1>4, <2>2
    <3>2. Ahead(c, i)'
      BY <3>1 DEF Ahead, Working, NodePcs
    <3> QED BY <3>2 DEF Unread, NotFull
  <2> QED BY <2>1, <2>2
<1> QED BY <1>3, <1>4 DEF Persists, NotFull, Unread

LEMMA SwapLeafTree ==
  ASSUME QueueInv, WrittenInv, Calls, PathInv, RankInv, TreeInv, NEW c \in Callers, AgentInv(c), SwapLeaf(c)
  PROVE  TreeInv'
<1>1. PICK r \in Enqueuers : r = call[c].rank
  BY SwapLeafIs
<1> DEFINE l == Leaf(r)
           v == IF Stamps[r] = MAX THEN DUMMY ELSE r
<1>2. /\ call[c].pc = "swapLeaf" /\ call[c].fresh /\ call[c].value = v /\ call[c].index = l
      /\ Stamps' = Stamps /\ accepted' = accepted /\ tree' = [tree EXCEPT ![l] = v]
  <2>1. Refresh(c) /\ ~SwapStamp(c)
    BY DEF Refresh, RefreshSelfNode, SwapLeaf, SwapStamp
  <2> QED BY <1>1, <2>1, SwapLeafIs, RefreshStamps DEF SwapLeaf, AgentInv, Written
<1>3. Ends(c) /\ call'[c].pc = "node" /\ call'[c].index = Parent(l) /\ call'[c].try = 1
        /\ call'[c].rank = r
  BY <1>1, <1>2, SwapLeafIs DEF Succeeds, Started
<1>4. l \in Nodes /\ l # 0 /\ OnPath(r, l) /\ r \in Ranks /\ ~(l < Processes)
  <2>1. l >= Processes /\ l \in Nodes
    BY Constants, LeafIs
  <2>2. ~(l < Processes)
    BY <2>1, Constants
  <2> QED BY <2>2, Constants, LeafIs
<1>5. tree \in [Nodes -> RanksOrDummy] /\ tree'[l] = v /\ \A i \in Nodes : i # l => tree'[i] = tree[i]
  BY <1>2, <1>4 DEF Calls, TypeInv
<1> HIDE DEF l
<1>6. ASSUME NEW b \in Callers, b # c PROVE Still(b)
  <2>1. ~Clashes(b, c)
    BY <1>2, <1>6, Rivals
  <2>2. call[b].fresh \in BOOLEAN
    BY CallerIs DEF Locals
  <2> QED BY <1>3, <1>6, <2>1, <2>2 DEF Ends, Still
<1>7. ASSUME NEW i \in Nodes, i # l PROVE Lasts(i)
  <2>1. Persists(c, i)
    <3>1. call[c].pc \in LeafPcs /\ call[c].pc \notin NodePcs
      BY <1>2 DEF LeafPcs, NodePcs, Scanning
    <3> QED BY <1>1, <1>3, <1>4, <1>7, <3>1, RisesPersist DEF l
  <2>2. Refresh(c)
    BY DEF Refresh, RefreshSelfNode
  <2> QED BY <1>2, <1>6, <2>1, <2>2, StillPersists, RefreshLasts
<1>8. ASSUME NEW i \in Nodes, i # l PROVE Shown(i)' /\ Named(i)'
  BY <1>2, <1>5, <1>7, <1>8, NodeFrame DEF TreeInv
<1>9. Shown(l)' /\ Named(l)'
  <2>1. \A p \in Enqueuers : OnPath(p, l) => p = r
    <3>1. \A p \in Enqueuers : OnPath(p, l) => l = Leaf(p)
      BY <1>4, Constants, PathChild
    <3>2. \A p \in Enqueuers : Leaf(p) = Leaf(r) => p = r
      BY LTTreeAssumption DEF Leaf, LTTreeAssumption
    <3> QED BY <3>1, <3>2 DEF l
  <2>2. MAX' = MAX /\ DUMMY' = DUMMY /\ r # DUMMY /\ Stamps[r] \in Nat
    BY Constants, StampsIs DEF MAX, DUMMY
  <2>3. Shown(l)'
    BY <1>2, <1>5, <2>1, <2>2 DEF Shown
  <2>4. Named(l)'
    BY <1>2, <1>5, <2>2 DEF Named
  <2> QED BY <2>3, <2>4
<1>10. ASSUME NEW b \in Callers, b # c PROVE ScanInv(b)'
  <2> SUFFICES ASSUME NEW i \in Nodes, call'[b].pc \in Scanning, call'[b].fresh, call'[b].index = i
               PROVE  ScanInv(b)'
    BY DEF ScanInv, Nodes, Scanning
  <2>1. Same(b) /\ call'[b].fresh = call[b].fresh /\ call[b].pc \in Scanning /\ call[b].index = i
          /\ ScanInv(b) /\ CallInv(b)
    BY <1>6, <1>10, CallerIs DEF Still, Same, TreeInv
  <2>2. i # l
    BY <1>4, <2>1 DEF CallInv, NodePcs
  <2> QED BY <1>2, <1>7, <2>1, <2>2, ScanFrame
<1>11. ScanInv(c)'
  BY <1>3, ScansNot DEF Scanning
<1> QED BY <1>8, <1>9, <1>10, <1>11 DEF TreeInv, Callers, Nodes

--------------------------------------------------------------------------------
(* A refresh that writes an inner node. *)

(* What other callers are to refresh stays so but for those that lose their node. *)
LEMMA RivalsPersist ==
  ASSUME Calls, RankInv, NEW c \in Callers, call[c].pc = "swapNode", Ends(c),
           NEW b \in Callers, b # c, NEW i \in Nodes
  PROVE  /\ Same(b) /\ (call'[b].fresh =>
              call[b].fresh
              /\ ~(call[c].fresh /\ call[b].pc \in Scanning /\ call[b].index = call[c].index))
         /\ i # call[c].index \/ ~call[c].fresh => Persists(b, i)
         /\ Unread(b, i) => NotFull(b, i)'
         /\ Refreshes(b) => call'[b].rank = call[b].rank
<1>1. /\ call'[b].pc = call[b].pc /\ call'[b].rank = call[b].rank /\ call'[b].index = call[b].index
      /\ call'[b].try = call[b].try /\ Same(b) /\ call'[b].fresh = (call[b].fresh /\ ~Clashes(b, c))
      /\ call[b].fresh \in BOOLEAN
  BY CallerIs DEF Ends, Same, Locals
<1>2. (Ahead(b, i) <=> Ahead(b, i)') /\ (At(b, i) <=> At(b, i)')
  BY <1>1 DEF Ahead, At, Working, StampPcs, LeafPcs, NodePcs, Scanning
<1>3. Clashes(b, c) => call[c].fresh /\ call[b].pc \in Scanning /\ call[b].index = call[c].index
  BY Rivals DEF Clashes
<1>4. call[c].fresh /\ call[b].pc \in Scanning /\ call[b].index = call[c].index => Clashes(b, c)
  BY DEF Clashes, Cell, Scanning
<1>5. ASSUME i # call[c].index \/ ~call[c].fresh PROVE Persists(b, i)
  <2>1. At(b, i) => call'[b].fresh = call[b].fresh
    BY <1>1, <1>3, <1>5 DEF At
  <2> QED BY <1>1, <1>2, <2>1 DEF Persists, NotFull, Unread
<1>6. Unread(b, i) => NotFull(b, i)'
  BY <1>1, <1>2 DEF NotFull, Unread
<1> QED BY <1>1, <1>4, <1>5, <1>6

(* A caller that has done with a node goes on with its parent. *)
LEMMA LeavesNode ==
  ASSUME Calls, PathInv, RankInv, NEW c \in Callers, SwapNode(c), Succeeds(c), NEW i \in Nodes,
         i # call[c].index \/ ~call[c].fresh
  PROVE  Lasts(i)
<1>1. PICK l \in Nodes : l = call[c].index
  BY SwapNodeIs
<1>2. PICK r \in Enqueuers : r = call[c].rank
  BY SwapNodeIs
<1>3. /\ call[c].pc = "swapNode" /\ PathCall(c) /\ call[c].pc \in NodePcs /\ call[c].pc \notin LeafPcs
      /\ l \in Nat /\ i \in Nat
  BY Constants DEF SwapNode, PathInv, NodePcs, LeafPcs, Scanning
<1>4. OnPath(r, l)
  BY <1>1, <1>2, <1>3 DEF PathCall
<1>5. Ends(c) /\ IF l = 0 THEN call'[c] = Idle ELSE Started(call'[c], c, "node", Parent(l), 1)
  BY <1>1, SwapNodeIs
<1>6. i = l => ~NotFull(c, i) /\ ~Unread(c, i)
  BY <1>1, <1>3 DEF NotFull, Unread, Ahead, At, Succeeds
<1>7. l = 0 => ~NotFull(c, i) /\ ~Unread(c, i)
  <2>1. ASSUME l = 0, i # l PROVE ~Ahead(c, i) /\ ~At(c, i)
    BY <1>1, <1>3, <2>1 DEF Ahead, At
  <2> QED BY <1>6, <2>1 DEF NotFull, Unread
<1>8. Persists(c, i)
  <2>1. CASE l # 0 /\ i # l
    <3>1. call'[c].pc = "node" /\ call'[c].index = Parent(l) /\ call'[c].try = 1 /\ call'[c].rank = r
      BY <1>2, <1>5, <2>1 DEF Started
    <3> QED BY <1>1, <1>2, <1>3, <1>4, <2>1, <3>1, RisesPersist
  <2>2. CASE ~(l # 0 /\ i # l)
    BY <1>6, <1>7, <2>2 DEF Persists
  <2> QED BY <2>1, <2>2
<1>9. \A b \in Callers : b # c => Persists(b, i)
  BY <1>3, <1>5, RivalsPersist
<1>10. Refresh(c)
  BY DEF Refresh, RefreshNode
<1>11. CASE l # 0
  <2>1. accepted' = accepted
    BY <1>1, <1>11, SwapNodeIs
  <2> QED BY <1>8, <1>9, <1>10, <2>1, RefreshLasts
<1>12. CASE l = 0
  <2>1. \A q \in Enqueuers : q # c /\ New(q) => New(q)'
    BY <1>10, RefreshNew
  <2> QED BY <1>7, <1>8, <1>9, <1>12, <2>1, LastsIf
<1> QED BY <1>11, <1>12

(* A compare-and-swap of a node that succeeds writes the least of what the node must show. *)
LEMMA SwapNodeFresh ==
  ASSUME QueueInv, WrittenInv, Calls, PathInv, RankInv, TreeInv, NEW c \in Callers, AgentInv(c),
         SwapNode(c), call[c].fresh, NEW l \in Nodes, l = call[c].index
  PROVE  Shown(l)' /\ Named(l)'
<1> DEFINE v == call[c].value
           least == call[c].least
<1>1. /\ call[c].pc = "swapNode" /\ Stamps' = Stamps /\ tree' = [tree EXCEPT ![l] = v] /\ CallInv(c)
      /\ call[c] \in Locals
      /\ tree \in [Nodes -> RanksOrDummy] /\ Stamps \in [Enqueuers -> Timestamps] /\ ScanInv(c)
      /\ Ends(c)
  <2>1. Refresh(c) /\ ~SwapStamp(c)
    BY DEF Refresh, RefreshNode, SwapNode, SwapStamp
  <2> QED BY <2>1, CallerIs, SwapNodeIs, StampsIs, RefreshStamps DEF SwapNode, Written, TypeInv, TreeInv
<1>2. tree'[l] = v /\ MAX' = MAX /\ DUMMY' = DUMMY
  BY <1>1 DEF MAX, DUMMY
<1>3. least \in Nat /\ least <= MAX /\ (v # DUMMY => v \in Enqueuers)
        /\ (v = DUMMY <=> least = MAX) /\ l < Processes
      /\ \A p \in Enqueuers : Stamps[p] \in Nat /\ Stamps[p] <= MAX
  BY <1>1, Constants DEF CallInv, AgentInv, NodePcs, Scanning, Locals, RanksOrDummy
<1>4. LeastInv(c, l) /\ SeenInv(c, l)
  BY <1>1 DEF ScanInv, Scanning
<1>5. \A b \in Callers : b # c /\ Unread(b, l) => NotFull(b, l)' /\ call'[b].rank = call[b].rank
  <2>1. \A b \in Callers : b # c => (Unread(b, l) => NotFull(b, l)') /\ call'[b].rank = call[b].rank
    BY <1>1, RivalsPersist DEF Same
  <2> QED BY <2>1
<1>6. ASSUME NEW p \in Enqueuers, Excused(c, p, l) PROVE Exempt(p, l)'
  <2>1. p \in Callers /\ Dequeuer \in Callers /\ Refresh(c)
    BY DEF Callers, Refresh, RefreshNode
  <2>2. p # c => (New(p) <=> New(p)')
    BY <2>1, RefreshNew
  <2> QED BY <1>5, <1>6, <2>1, <2>2 DEF Excused, Exempt
<1>7. c # Dequeuer /\ call[Dequeuer].rank = v /\ Unread(Dequeuer, l) =>
        NotFull(Dequeuer, l)' /\ call'[Dequeuer].rank = v
  BY <1>5 DEF Callers
<1>8. v # DUMMY => \/ Stamps[v] <= least
                   \/ NotFull(Dequeuer, l)' /\ call'[Dequeuer].rank = v
  BY <1>4, <1>7 DEF LeastInv
<1> HIDE DEF v, least
<1>9. ASSUME NEW p \in Enqueuers, OnPath(p, l), Stamps[p] # MAX
      PROVE  Exempt(p, l)' \/ (v # DUMMY /\ Stamps[v] <= Stamps[p])
  <2>1. PICK j \in {Left(l), Right(l)} \cap Nodes : OnPath(p, j)
    BY <1>3, <1>9, Constants, PathChild
  <2>2. least <= Stamps[p] \/ Excused(c, p, l)
    <3>1. j \in Scanned(c, l)
      BY <1>1, <2>1 DEF Scanned
    <3> QED BY <1>4, <2>1, <3>1 DEF SeenInv, least
  <2>3. CASE Excused(c, p, l)
    BY <1>6, <2>3
  <2>4. CASE least <= Stamps[p]
    <3>1. least # MAX
      BY <1>3, <1>9, <2>4, Constants
    <3>2. v # DUMMY /\ v \in Enqueuers
      BY <1>3, <3>1
    <3>3. CASE Stamps[v] <= least
      <4>1. Stamps[v] \in Nat /\ least \in Nat /\ Stamps[p] \in Nat
        BY <1>3, <3>2
      <4> QED BY <2>4, <3>2, <3>3, <4>1
    <3>4. CASE NotFull(Dequeuer, l)'
      BY <3>4 DEF Exempt
    <3> QED BY <1>8, <3>2, <3>3, <3>4
  <2> QED BY <2>2, <2>3, <2>4
<1>10. Shown(l)'
  BY <1>1, <1>2, <1>9 DEF Shown
<1>11. v # DUMMY => Stamps[v] # MAX \/ (NotFull(Dequeuer, l)' /\ call'[Dequeuer].rank = v)
  <2> SUFFICES ASSUME v # DUMMY, Stamps[v] <= least PROVE Stamps[v] # MAX
    BY <1>8
  <2>1. Stamps[v] \in Nat /\ least # MAX
    BY <1>3
  <2> QED BY <1>3, <2>1, Constants
<1>12. Named(l)'
  BY <1>1, <1>2, <1>11 DEF Named
<1> QED BY <1>10, <1>12

LEMMA SwapNodeTree ==
  ASSUME QueueInv, WrittenInv, Calls, PathInv, RankInv, TreeInv, NEW c \in Callers, AgentInv(c), SwapNode(c)
  PROVE  TreeInv'
<1>1. PICK l \in Nodes : l = call[c].index
  BY SwapNodeIs
<1>2. /\ call[c].pc = "swapNode" /\ Stamps' = Stamps /\ tree' = Written(c) /\ call[c] \in Locals
      /\ Ends(c)
      /\ tree \in [Nodes -> RanksOrDummy] /\ call[c].try \in 1..2 /\ call[c].fresh \in BOOLEAN
  <2>1. Refresh(c) /\ ~SwapStamp(c)
    BY DEF Refresh, RefreshNode, SwapNode, SwapStamp
  <2> QED BY <2>1, CallerIs, SwapNodeIs, RefreshStamps DEF SwapNode, TypeInv, Locals
<1>3. call'[c].pc \notin Scanning
  BY SwapNodeIs, IdleIs DEF Started, Scanning
<1>4. Refresh(c)
  BY DEF Refresh, RefreshNode
<1>5. ScanInv(c)'
  BY <1>3, ScansNot
<1>6. CASE ~Succeeds(c)
  <2>1. ~call[c].fresh /\ call[c].try = 1 /\ tree' = tree
    BY <1>2, <1>6 DEF Succeeds, Written
  <2>2. Started(call'[c], c, "node", l, 2) /\ accepted' = accepted
    BY <1>1, <1>6, SwapNodeIs
  <2>3. \A b \in Callers : b # c => Still(b)
    <3>1. \A b \in Callers : ~Clashes(b, c) /\ call[b].fresh \in BOOLEAN
      BY <2>1, CallerIs DEF Clashes, Locals
    <3> QED BY <1>2, <3>1 DEF Ends, Still
  <2>4. ASSUME NEW i \in Nodes PROVE Persists(c, i)
    BY <1>1, <1>2, <2>1, <2>2 DEF Started, Persists, NotFull, Unread, Ahead, At, Working, NodePcs,
         Scanning
  <2>5. \A i \in Nodes : Lasts(i)
    BY <1>4, <2>2, <2>3, <2>4, StillPersists, RefreshLasts
  <2> QED BY <1>2, <1>5, <2>1, <2>3, <2>5, TreeFrame
<1>7. CASE Succeeds(c)
  <2>1. \A i \in Nodes : i # l \/ ~call[c].fresh => Lasts(i)
    BY <1>1, <1>7, LeavesNode
  <2>2. \A i \in Nodes : i # l \/ ~call[c].fresh => tree'[i] = tree[i]
    BY <1>1, <1>2 DEF Written
  <2>3. ASSUME NEW i \in Nodes PROVE Shown(i)' /\ Named(i)'
    <3>1. CASE i # l \/ ~call[c].fresh
      BY <1>2, <2>1, <2>2, <3>1, NodeFrame DEF TreeInv
    <3>2. CASE i = l /\ call[c].fresh
      BY <1>1, <3>2, SwapNodeFresh
    <3> QED BY <3>1, <3>2
  <2>4. ASSUME NEW b \in Callers, b # c PROVE ScanInv(b)'
    <3>1. Same(b) /\ (call'[b].fresh =>
            call[b].fresh /\ ~(call[c].fresh /\ call[b].pc \in Scanning /\ call[b].index = l))
      BY <1>1, <1>2, <2>4, RivalsPersist
    <3> SUFFICES ASSUME NEW i \in Nodes, call'[b].pc \in Scanning, call'[b].fresh, call'[b].index = i
                 PROVE  ScanInv(b)'
      BY DEF ScanInv, Nodes, Scanning
    <3>2. call[b].pc \in Scanning /\ call[b].index = i /\ ScanInv(b) /\ (i # l \/ ~call[c].fresh)
      BY <1>2, <3>1 DEF Same, TreeInv
    <3> QED BY <1>2, <2>1, <3>1, <3>2, ScanFrame
  <2> QED BY <1>5, <2>3, <2>4 DEF TreeInv, Callers, Nodes
<1> QED BY <1>6, <1>7

--------------------------------------------------------------------------------
LEMMA RefreshTree ==
  ASSUME QueueInv, WrittenInv, Calls, PathInv, RankInv, TreeInv, NEW c \in Callers, AgentInv(c), Refresh(c)
  PROVE  TreeInv'
<1>1. CASE ReadFront(c) \/ ReadStamp(c) \/ ReadLeafStamp(c) \/ ReadLeaf(c)
  <2>1. /\ Stamps' = Stamps /\ tree' = tree /\ accepted' = accepted
        /\ call[c].pc \in StampPcs \cup LeafPcs
        /\ \E pc \in StampPcs \cup LeafPcs : Advances(c, pc)
    <3>1. ~SwapStamp(c)
      BY <1>1 DEF ReadFront, ReadStamp, ReadLeafStamp, ReadLeaf, SwapStamp
    <3>2. Stamps' = Stamps
      BY <3>1, RefreshStamps
    <3> QED BY <1>1, <3>2, ReadFrontIs, ReadStampIs, ReadLeafStampIs, ReadLeafIs
         DEF ReadFront, ReadStamp, ReadLeafStamp, ReadLeaf, StampPcs, LeafPcs
  <2> QED BY <2>1, ReadingTree
<1>2. CASE ReadNode(c) \/ ReadChild(c) \/ ReadChildStamp(c)
  BY <1>2, ReadTree
<1>3. CASE SwapStamp(c)
  BY <1>3, SwapStampTree
<1>4. CASE SwapLeaf(c)
  BY <1>4, SwapLeafTree
<1>5. CASE SwapNode(c)
  BY <1>5, SwapNodeTree
<1> QED BY <1>1, <1>2, <1>3, <1>4, <1>5 DEF Refresh, RefreshTimestamp, RefreshSelfNode, RefreshNode

--------------------------------------------------------------------------------
(* The tree and the other steps. *)

(* An element that is not accepted yet belongs to a call in progress. *)
LEMMA NewWorks ==
  ASSUME QueueInv, NEW p \in Enqueuers, New(p)
  PROVE  Working(p)
<1>1. Calls /\ SpscInv(p)
  BY QueueIs
<1>2. 1 \in 1..Len(spsc[p]) /\ Head(spsc[p]) = spsc[p][1]
  BY <1>1, FrontType DEF New, Calls
<1>3. /\ spsc[p][1].item[2] > accepted[p] /\ spsc[p][1].item[2] <= Granted(p) /\ accepted[p] \in Nat
      /\ spsc[p][1].item[2] \in Nat
  BY <1>1, <1>2, EntryIs, BoundIs DEF New, SpscInv
<1> QED BY <1>3 DEF Granted

(* A caller finds its own timestamp in the front just when the front is new. *)
LEMMA CheckNew ==
  ASSUME QueueInv, NEW p \in Enqueuers, call[p].pc = "check"
  PROVE  New(p) <=> FrontTimestamp(p) = call[p].ts
<1>1. Calls /\ SpscInv(p) /\ CallInv(p) /\ counter \in 0..MaxCalls /\ call[p].ts \in Nat /\ TypeInv
  BY QueueIs, BoundIs, CallerIs DEF Calls, TypeInv
<1>2. CASE spsc[p] = <<>>
  <2>1. FrontTimestamp(p) = MAX /\ call[p].ts < counter
    BY <1>1, <1>2 DEF FrontTimestamp, CallInv
  <2>2. call[p].ts # MAX
    BY <1>1, <2>1, Constants DEF MAX
  <2> QED BY <1>2, <2>1, <2>2 DEF New
<1>3. CASE spsc[p] # <<>>
  <2>1. 1 \in 1..Len(spsc[p]) /\ Head(spsc[p]) = spsc[p][1] /\ FrontTimestamp(p) = spsc[p][1].ts
    BY <1>1, <1>3, FrontType
  <2>2. spsc[p][1].ts = call[p].ts <=> spsc[p][1].item[2] > accepted[p]
    BY <1>1, <2>1 DEF SpscInv
  <2> QED BY <1>3, <2>1, <2>2 DEF New
<1> QED BY <1>2, <1>3

LEMMA EnqueueTree ==
  ASSUME QueueInv, WrittenInv, PathInv, RankInv, TreeInv, NEW p \in Enqueuers, Enqueueing(p), AgentInv(p)
  PROVE  TreeInv'
<1>1. Calls /\ p \in Callers /\ p # Dequeuer /\ CallInv(p)
  BY QueueIs, Constants, CallerIs DEF Callers
<1>2. CASE Refresh(p)
  BY <1>1, <1>2, RefreshTree
<1>3. CASE ~Refresh(p)
  <2>0. Stamps' = Stamps
    BY <1>3, EnqueueStamps
  <2>1. /\ Goes(p) /\ tree' = tree /\ call'[p].pc \notin Scanning
        /\ \A q \in Enqueuers : q # p => spsc'[q] = spsc[q] /\ accepted'[q] = accepted[q]
        /\ \/ call[p].pc \in {"idle", "count", "put"}
           \/ CheckFront(p)
    <3>1. CASE \E n \in 1..MaxBatch : EnqueueCall(p, n) \/ Node!EnqueueCounts(p, n)
      BY <1>1, <3>1, CallIs DEF Scanning
    <3>2. CASE Node!TakeTimestamp(p)
      BY <1>1, <3>2, TimestampTaken DEF Scanning
    <3>3. CASE Put(p, "check") \/ Put(p, "front")
      BY <1>1, <3>3, PutIs DEF Scanning
    <3>4. CASE EnqueueFull(p)
      BY <1>1, <3>4, FullIs, IdleIs DEF Scanning
    <3>5. CASE CheckFront(p)
      <4>1. accepted' = accepted \/ Accept(p)
        BY <1>1, <3>5, CheckIs
      <4>2. \A q \in Enqueuers : q # p => accepted'[q] = accepted[q]
        <5>1. TypeInv /\ \A q \in Enqueuers : accepted[q] \in Nat
          BY <1>1 DEF Calls, TypeInv
        <5> QED BY <1>1, <4>1, <5>1, AcceptIs DEF Callers
      <4> QED BY <1>1, <3>5, <4>2, CheckIs, IdleIs DEF Scanning
    <3> QED BY <1>3, <3>1, <3>2, <3>3, <3>4, <3>5 DEF Enqueueing
  <2>2. \A b \in Callers : b # p => Still(b)
    BY <2>1 DEF Goes, Still
  <2>3. \A q \in Enqueuers : q # p /\ New(q) => New(q)'
    BY <2>1 DEF New
  <2>4. ASSUME NEW i \in Nodes, New(p) PROVE Persists(p, i) /\ (NotFull(p, i) => New(p)')
    <3>1. CheckFront(p)
      BY <2>1, <2>4, NewWorks DEF Working, StampPcs, LeafPcs, NodePcs, Scanning
    <3>2. /\ call[p].pc = "check" /\ call[p].rank = p /\ call'[p].pc = "front" /\ call'[p].rank = p
          /\ spsc' = spsc /\ accepted' = accepted
      BY <1>1, <2>4, <3>1, CheckIs, CheckNew
    <3>3. New(p)'
      BY <2>4, <3>2 DEF New
    <3>4. Persists(p, i)
      BY <3>2 DEF Persists, NotFull, Unread, Ahead, At, Working, StampPcs, LeafPcs, NodePcs, Scanning
    <3> QED BY <3>3, <3>4
  <2>5. \A i \in Nodes : Lasts(i)
    BY <1>1, <2>2, <2>3, <2>4, StillPersists, LastsIf
  <2> QED BY <1>1, <2>0, <2>1, <2>2, <2>5, ScansNot, TreeFrame
<1> QED BY <1>2, <1>3

(* An enqueuer refreshes only the nodes above its own leaf. *)
LEMMA PathFull ==
  ASSUME Calls, PathInv, NEW p \in Enqueuers, NEW i \in Nodes, NotFull(p, i)
  PROVE  OnPath(p, i)
<1>1. p \in Callers /\ p # Dequeuer /\ Working(p) /\ CallInv(p) /\ PathCall(p)
  BY Constants, NotFullWorks, CallerIs DEF Callers, PathInv
<1>2. call[p].rank = p
  BY <1>1 DEF CallInv, Working, StampPcs, LeafPcs, NodePcs, Scanning
<1> QED BY <1>1, <1>2 DEF NotFull, Ahead, At, PathCall

LEMMA DequeueTree ==
  ASSUME QueueInv, WrittenInv, PathInv, RankInv, TreeInv, Dequeueing, AgentInv(Dequeuer), ~raced'
  PROVE  TreeInv'
<1>1. Calls /\ Dequeuer \in Callers
  BY QueueIs DEF Callers
<1>2. CASE Refresh(Dequeuer)
  BY <1>1, <1>2, RefreshTree
<1>3. CASE ~Refresh(Dequeuer)
  <2>0. Stamps' = Stamps
    BY <1>3, DequeueStamps
  <2>1. /\ Goes(Dequeuer) /\ UNCHANGED <<tree, accepted>> /\ call'[Dequeuer].pc \notin Scanning
        /\ call[Dequeuer].pc \in {"idle", "root", "take"}
        /\ spsc' = spsc \/ Take
    BY <1>1, <1>3, DequeueCallIs, ReturnsFalse, ReadRootIs, TakeIs, IdleIs DEF Dequeueing, Scanning,
         Started
  <2>2. \A b \in Callers : b # Dequeuer => Still(b)
    BY <2>1 DEF Goes, Still
  <2>3. ~Working(Dequeuer)
    BY <2>1 DEF Working, StampPcs, LeafPcs, NodePcs, Scanning
  <2>4. \A i \in Nodes : Persists(Dequeuer, i)
    BY <1>1, <2>3, NotFullWorks DEF Persists
  <2>5. CASE spsc' = spsc
    <3>1. \A q \in Enqueuers : New(q) => New(q)'
      BY <2>1, <2>5 DEF New
    <3>2. \A i \in Nodes : Lasts(i)
      BY <1>1, <2>2, <2>4, <3>1, StillPersists DEF Lasts, Callers
    <3> QED BY <1>1, <2>0, <2>1, <2>2, <3>2, ScansNot, TreeFrame
  <2>6. CASE Take
    <3>1. PICK r \in Enqueuers : r = call[Dequeuer].rank
      BY <1>1, <2>6, TakeIs
    <3>2. /\ call'[Dequeuer].pc = "front" /\ call'[Dequeuer].rank = r
          /\ \A q \in Enqueuers : q # r => spsc'[q] = spsc[q]
      BY <1>1, <2>6, <3>1, TakeIs DEF Started
    <3>3. \A i \in Nodes : OnPath(r, i) => Ahead(Dequeuer, i)'
      BY <3>2 DEF Ahead, Working, StampPcs, NodePcs, Scanning
    <3>4. ASSUME NEW i \in Nodes, ~OnPath(r, i) PROVE Lasts(i)
      <4>1. ~NotFull(r, i)
        BY <1>1, <3>4, PathFull
      <4>2. \A q \in Enqueuers : q # r /\ New(q) => New(q)'
        BY <2>1, <3>2 DEF New
      <4> QED BY <1>1, <2>2, <2>4, <4>1, <4>2, StillPersists DEF Lasts, Callers
    <3>5. Stamps' = [Stamps EXCEPT ![r] = Stamps[r]]
      BY <1>1, <2>0, StampsIs
    <3> QED BY <1>1, <2>1, <2>2, <2>4, <3>2, <3>3, <3>4, <3>5, StampRises
  <2> QED BY <2>1, <2>5, <2>6
<1> QED BY <1>2, <1>3

--------------------------------------------------------------------------------
(* What the callers carry along. *)

(* The front of rank p that caller b may have read stays, but for a put not checked yet. *)
Agrees(b, p) ==
  /\ \/ FrontTimestamp(p)' = FrontTimestamp(p)
     \/ b = Dequeuer /\ FrontTimestamp(p) = MAX /\ Unchecked(p)'
  /\ b = Dequeuer /\ Unchecked(p) => Unchecked(p)'

LEMMA OthersAgent ==
  ASSUME NEW b \in Callers, Same(b), AgentInv(b), Refreshes(b) => call[b].rank \in Enqueuers,
         call[b].pc \in {"swapStamp", "swapLeaf"} => call'[b].fresh = call[b].fresh,
         Refreshes(b) => \A p \in Enqueuers : p = call[b].rank => Stamps'[p] = Stamps[p] /\ Agrees(b, p)
  PROVE  AgentInv(b)'
<1>1. /\ call'[b].pc = call[b].pc /\ call'[b].rank = call[b].rank /\ call'[b].value = call[b].value
      /\ call'[b].least = call[b].least /\ MAX' = MAX /\ DUMMY' = DUMMY
  BY DEF Same, MAX, DUMMY
<1>2. CASE Refreshes(b)
  <2>1. PICK p \in Enqueuers : p = call[b].rank
    BY <1>2
  <2>2. Stamps'[p] = Stamps[p] /\ Agrees(b, p)
    BY <1>2, <2>1
  <2>3. ASSUME call[b].pc \in {"stamp", "swapStamp"}
        PROVE  call[b].value = FrontTimestamp(p)' \/ (b = Dequeuer /\ call[b].value = MAX /\ Unchecked(p)')
    BY <2>1, <2>2, <2>3 DEF AgentInv, Agrees
  <2> QED BY <1>1, <2>1, <2>2, <2>3 DEF AgentInv, NodePcs, Scanning
<1>3. CASE ~Refreshes(b)
  BY <1>1, <1>3 DEF AgentInv, Refreshes, StampPcs, LeafPcs, NodePcs, Scanning
<1> QED BY <1>2, <1>3

(* A refresh of others does not touch what a call is yet to check. *)
LEMMA RefreshUnchecked ==
  ASSUME Calls, NEW c \in Callers, Refresh(c), NEW p \in Enqueuers, Unchecked(p)
  PROVE  Unchecked(p)'
<1>1. /\ p \in Callers /\ Refreshes(c) /\ call[p].pc = "check"
      /\ \A b \in Callers : b # c => Same(b)
  BY RefreshCalls DEF Callers, Kept, Unchecked
<1>2. p # c
  BY <1>1 DEF Refreshes, StampPcs, LeafPcs, NodePcs, Scanning
<1>3. New(p)'
  BY <1>2, RefreshNew DEF Unchecked
<1> QED BY <1>1, <1>2, <1>3 DEF Unchecked, Same

LEMMA RefreshAgent ==
  ASSUME QueueInv, WrittenInv, Calls, NEW c \in Callers, AgentInv(c), Refresh(c)
  PROVE  AgentInv(c)'
<1>1. /\ call[c] \in Locals /\ CallInv(c) /\ MAX' = MAX /\ DUMMY' = DUMMY
      /\ Stamps \in [Enqueuers -> Timestamps] /\ spsc' = spsc /\ Refreshes(c)
      /\ ~SwapStamp(c) => Stamps' = Stamps
  BY CallerIs, StampsIs, RefreshCalls, RefreshStamps DEF MAX, DUMMY, Kept
<1>2. PICK r \in Enqueuers : r = call[c].rank
  BY <1>1, RefreshCalls, WorkingIs DEF Kept, CallInv
<1>3. FrontTimestamp(r)' = FrontTimestamp(r) /\ (c = Dequeuer /\ Unchecked(r) => Unchecked(r)')
  <2>1. FrontTimestamp(r)' = FrontTimestamp(r)
    BY <1>1 DEF FrontTimestamp, MAX
  <2> QED BY <2>1, RefreshUnchecked
<1>4. CASE ReadFront(c)
  <2>1. call'[c].pc = "stamp" /\ call'[c].rank = r /\ call'[c].value = FrontTimestamp(r)
    BY <1>2, <1>4, ReadFrontIs DEF Advances
  <2> QED BY <1>3, <2>1 DEF AgentInv, NodePcs, Scanning
<1>5. CASE ReadStamp(c)
  <2>1. /\ call[c].pc = "stamp" /\ call'[c].pc = "swapStamp" /\ call'[c].rank = r
        /\ call'[c].value = call[c].value
        /\ call'[c].fresh = TRUE
    BY <1>2, <1>5, ReadStampIs DEF Advances, ReadStamp
  <2> QED BY <1>2, <1>3, <2>1 DEF AgentInv, NodePcs, Scanning
<1>6. CASE ReadLeafStamp(c)
  <2>1. call'[c].pc = "leaf" /\ call'[c].rank = r
          /\ call'[c].value = (IF stamp[r] = MAX THEN DUMMY ELSE r) /\ Stamps[r] = stamp[r]
    BY <1>2, <1>6, ReadLeafStampIs, StampsRead DEF Advances, ReadLeafStamp
  <2>2. Stamps' = Stamps
    BY <1>1, <1>6 DEF ReadLeafStamp, SwapStamp
  <2> QED BY <1>1, <2>1, <2>2 DEF AgentInv, NodePcs, Scanning
<1>7. CASE ReadLeaf(c)
  <2>1. /\ call[c].pc = "leaf" /\ call'[c].pc = "swapLeaf" /\ call'[c].rank = r
        /\ call'[c].value = call[c].value
        /\ call'[c].fresh = TRUE
    BY <1>2, <1>7, ReadLeafIs DEF Advances, ReadLeaf
  <2>2. Stamps' = Stamps
    BY <1>1, <1>7 DEF ReadLeaf, SwapStamp
  <2> QED BY <1>1, <1>2, <2>1, <2>2 DEF AgentInv, NodePcs, Scanning
<1>8. CASE ReadNode(c) \/ ReadChild(c) \/ ReadChildStamp(c)
  <2>1. call[c].pc \in NodePcs /\ call'[c].pc \in Scanning
    BY <1>8, ReadNodeIs, ReadChildIs, ReadChildStampIs
       DEF Advances, Continues, ReadNode, ReadChild, ReadChildStamp, NodePcs, Scanning
  <2>2. \/ call'[c].value = call[c].value /\ call'[c].least = call[c].least
        \/ /\ ReadChildStamp(c) /\ call[c].seen \in Enqueuers /\ Stamps[call[c].seen] < call[c].least
           /\ call'[c].value = call[c].seen /\ call'[c].least = Stamps[call[c].seen]
    <3>1. ReadChildStamp(c) => Stamps[call[c].seen] = stamp[call[c].seen] /\ call[c].seen \in Enqueuers
      BY <1>1, StampsIs DEF ReadChildStamp, CallInv, WrittenInv, Unseen, Blind
    <3> QED BY <1>8, <3>1, ReadNodeIs, ReadChildIs, ReadChildStampIs
  <2>3. CASE call'[c].value = call[c].value /\ call'[c].least = call[c].least
    BY <1>1, <2>1, <2>3 DEF AgentInv, NodePcs, Scanning
  <2>4. CASE /\ call[c].seen \in Enqueuers /\ Stamps[call[c].seen] < call[c].least
             /\ call'[c].value = call[c].seen /\ call'[c].least = Stamps[call[c].seen]
    <3>1. Stamps[call[c].seen] \in Nat /\ call[c].least \in Nat /\ call[c].least <= MAX
      BY <1>1, <2>4, Constants DEF Locals
    <3>2. call'[c].least # MAX /\ call'[c].value # DUMMY
      BY <2>4, <3>1, Constants
    <3> QED BY <1>1, <2>1, <3>2 DEF AgentInv, NodePcs, Scanning
  <2> QED BY <2>2, <2>3, <2>4
<1>9. CASE SwapStamp(c) \/ SwapLeaf(c) \/ SwapNode(c)
  <2>1. call'[c].pc \in {"front", "leafStamp", "idle", "node"} /\ call'[c].value = DUMMY
          /\ call'[c].least = MAX
    BY <1>9, SwapStampIs, SwapLeafIs, SwapNodeIs, IdleIs DEF Started
  <2> QED BY <1>1, <2>1 DEF AgentInv, NodePcs, Scanning
<1> QED BY <1>4, <1>5, <1>6, <1>7, <1>8, <1>9 DEF Refresh, RefreshTimestamp, RefreshSelfNode,
      RefreshNode

(* Which timestamps a refresh writes and which locals of others it changes. *)
LEMMA RefreshOthers ==
  ASSUME QueueInv, WrittenInv, Calls, RankInv, NEW c \in Callers, Refresh(c), NEW b \in Callers, b # c
  PROVE  /\ Same(b) /\ (call[b].pc \in {"swapStamp", "swapLeaf"} => call'[b].fresh = call[b].fresh)
         /\ \A p \in Enqueuers : p # call[c].rank \/ call[c].pc # "swapStamp" => Stamps'[p] = Stamps[p]
<1>1. Same(b) /\ call[b].fresh \in BOOLEAN /\ Stamps \in [Enqueuers -> Timestamps]
  BY RefreshCalls, CallerIs, StampsIs DEF Kept, Locals
<1>2. \/ call'[b] = call[b]
      \/ Ends(c) /\ call[c].pc \in {"swapStamp", "swapLeaf", "swapNode"}
  BY ReadFrontIs, ReadStampIs, ReadLeafStampIs, ReadLeafIs, ReadNodeIs, ReadChildIs, ReadChildStampIs,
     SwapStampIs, SwapLeafIs, SwapNodeIs
     DEF Refresh, RefreshTimestamp, RefreshSelfNode, RefreshNode, Advances, Continues, SwapStamp,
           SwapLeaf, SwapNode
<1>3. call[b].pc \in {"swapStamp", "swapLeaf"} => call'[b].fresh = call[b].fresh
  <2>1. CASE call'[b] = call[b]
    BY <2>1
  <2>2. CASE Ends(c) /\ call[c].pc \in {"swapStamp", "swapLeaf", "swapNode"}
    <3>1. call[b].pc \in {"swapStamp", "swapLeaf"} => ~Clashes(b, c)
      BY <2>2, Rivals DEF Scanning
    <3> QED BY <1>1, <2>2, <3>1 DEF Ends
  <2> QED BY <1>2, <2>1, <2>2
<1>4. Stamps' = Stamps \/ SwapStamp(c)
  BY RefreshStamps
<1>5. \A p \in Enqueuers : p # call[c].rank \/ call[c].pc # "swapStamp" => Stamps'[p] = Stamps[p]
  <2>1. SwapStamp(c) => call[c].pc = "swapStamp"
    BY DEF SwapStamp
  <2> QED BY <1>1, <1>4, <2>1, SwapStamps
<1> QED BY <1>1, <1>3, <1>5

LEMMA RefreshAgents ==
  ASSUME QueueInv, WrittenInv, Calls, RankInv, \A b \in Callers : AgentInv(b), NEW c \in Callers, Refresh(c)
  PROVE  \A b \in Callers : AgentInv(b)'
<1>1. Refreshes(c) /\ spsc' = spsc
  BY RefreshCalls DEF Kept
<1>2. ASSUME NEW b \in Callers, b # c PROVE AgentInv(b)'
  <2>1. Refreshes(b) => call[b].rank \in Enqueuers /\ call[b].rank # call[c].rank
    BY <1>1, <1>2, RanksDiffer, CallerIs, WorkingIs DEF CallInv
  <2>2. \A p \in Enqueuers : Agrees(b, p)
    BY <1>1, RefreshUnchecked DEF Agrees, FrontTimestamp, MAX
  <2> QED BY <1>2, <2>1, <2>2, RefreshOthers, OthersAgent
<1> QED BY <1>2, RefreshAgent

(* What callers have read of a front stays as long as a step agrees with it. *)
LEMMA GoesAgents ==
  ASSUME Calls, \A b \in Callers : AgentInv(b),
           NEW c \in Callers, Goes(c), ~Refreshes(c)' \/ call'[c].pc = "front", Stamps' = Stamps,
         \A b \in Callers, p \in Enqueuers : b # c /\ Refreshes(b) /\ p = call[b].rank => Agrees(b, p)
  PROVE  \A b \in Callers : AgentInv(b)'
<1>1. AgentInv(c)'
  BY DEF AgentInv, Refreshes, StampPcs, LeafPcs, NodePcs, Scanning
<1>2. ASSUME NEW b \in Callers, b # c PROVE AgentInv(b)'
  <2>1. Refreshes(b) => call[b].rank \in Enqueuers
    BY CallerIs, WorkingIs DEF CallInv
  <2> QED BY <1>2, <2>1, OthersAgent DEF Goes
<1> QED BY <1>1, <1>2

--------------------------------------------------------------------------------
(* The timestamps. *)

LEMMA RefreshStamp ==
  ASSUME QueueInv, WrittenInv, Calls, NEW c \in Callers, Refresh(c),
           NEW p \in Enqueuers, p # call[c].rank \/ call[c].pc # "swapStamp"
  PROVE  /\ Stamps'[p] = Stamps[p]
         /\ call[c].pc \in StampPcs /\ call[c].pc # "swapStamp" =>
              call'[c].pc \in StampPcs /\ accepted' = accepted
<1>1. Stamps \in [Enqueuers -> Timestamps]
  BY StampsIs
<1>2. (Stamps' = Stamps \/ SwapStamp(c)) /\ (SwapStamp(c) => call[c].pc = "swapStamp")
  BY RefreshStamps DEF SwapStamp
<1>3. Stamps'[p] = Stamps[p]
  BY <1>1, <1>2, SwapStamps
<1>4. ASSUME call[c].pc \in StampPcs, call[c].pc # "swapStamp"
               PROVE call'[c].pc \in StampPcs /\ accepted' = accepted
  <2>1. ReadFront(c) \/ ReadStamp(c)
    BY <1>4 DEF Refresh, RefreshTimestamp, RefreshSelfNode, RefreshNode, ReadLeafStamp, ReadLeaf,
         SwapStamp, SwapLeaf, ReadNode, ReadChild, ReadChildStamp, SwapNode, StampPcs
  <2> QED BY <2>1, ReadFrontIs, ReadStampIs DEF Advances, ReadFront, ReadStamp, StampPcs
<1> QED BY <1>3, <1>4

(* A refresh brings the timestamp of its rank up to date. *)
LEMMA RefreshRanks ==
  ASSUME QueueInv, WrittenInv, Calls, PathInv, RankInv, NEW c \in Callers, AgentInv(c), Refresh(c)
  PROVE  RankInv'
<1> SUFFICES ASSUME NEW p \in Enqueuers PROVE Alone(p)' /\ StampInv(p)'
  BY DEF RankInv
<1>1. /\ p \in Callers /\ p # Dequeuer /\ Dequeuer \in Callers /\ Alone(p) /\ StampInv(p)
      /\ spsc' = spsc
      /\ Refreshes(c) /\ \A b \in Callers : b # c => Same(b)
      /\ \/ Refreshes(c)' /\ call'[c].rank = call[c].rank
         \/ call'[c] = Idle
  BY RefreshCalls, Constants DEF RankInv, Callers, Kept
<1>2. /\ Refreshes(p)' => Refreshes(p)
      /\ Serves(p)' => Serves(p)
  <2>1. c = p => Refreshes(p)
    BY <1>1
  <2>2. c # p => (Refreshes(p)' <=> Refreshes(p))
    BY <1>1 DEF Same, Refreshes, StampPcs, LeafPcs, NodePcs, Scanning
  <2>3. c = Dequeuer => Refreshing(Dequeuer)
    BY <1>1, WorkingIs
  <2>4. c # Dequeuer => (Serves(p)' <=> Serves(p))
    BY <1>1 DEF Same, Serves, Refreshing
  <2>5. c = Dequeuer => (Serves(p)' => Serves(p))
    BY <1>1, <2>3, IdleIs DEF Serves, Refreshing
  <2> QED BY <2>1, <2>2, <2>4, <2>5
<1>3. FrontTimestamp(p)' = FrontTimestamp(p) /\ MAX' = MAX
  BY <1>1 DEF FrontTimestamp, MAX
<1>4. CASE p = call[c].rank /\ call[c].pc = "swapStamp"
  <2>1. SwapStamp(c)
    BY <1>4 DEF Refresh, RefreshTimestamp, RefreshSelfNode, RefreshNode, ReadFront, ReadStamp,
                  ReadLeafStamp, ReadLeaf,
         SwapLeaf, ReadNode, ReadChild, ReadChildStamp, SwapNode
  <2>2. Stamps' = [Stamps EXCEPT ![p] = call[c].value] /\ Stamps \in [Enqueuers -> Timestamps]
    BY <1>4, <2>1, SwapStampEffect, StampsIs
  <2>3. Stamps'[p] = FrontTimestamp(p) \/ (Stamps'[p] = MAX /\ Unchecked(p)')
    BY <1>4, <2>2, RefreshUnchecked DEF AgentInv
  <2>4. StampInv(p)'
    BY <1>3, <2>3 DEF StampInv, Unchecked, StampPcs
  <2> QED BY <1>1, <1>2, <2>4 DEF Alone
<1>5. CASE ~(p = call[c].rank /\ call[c].pc = "swapStamp")
  <2>1. /\ Stamps'[p] = Stamps[p]
        /\ call[c].pc \in StampPcs /\ call[c].pc # "swapStamp" =>
             call'[c].pc \in StampPcs /\ accepted' = accepted
    BY <1>5, RefreshStamp
  <2>2. ASSUME call[p].pc \in StampPcs, New(p) PROVE call'[p].pc \in StampPcs /\ New(p)'
    <3>1. CASE c = p
      <4>1. call[p].rank = p
        BY <1>1, <2>2, CallerIs DEF CallInv, StampPcs
      <4>2. accepted' = accepted /\ call'[p].pc \in StampPcs
        BY <1>5, <2>1, <2>2, <3>1, <4>1
      <4> QED BY <1>1, <2>2, <4>2 DEF New
    <3>2. CASE c # p
      BY <1>1, <2>2, <3>2, RefreshNew DEF Same, StampPcs
    <3> QED BY <3>1, <3>2
  <2>3. ASSUME Serves(p), call[Dequeuer].pc \in StampPcs
                 PROVE Serves(p)' /\ call'[Dequeuer].pc \in StampPcs
    <3>1. call[Dequeuer].rank = p
      BY <2>3 DEF Serves
    <3>2. CASE c = Dequeuer
      <4>1. call'[Dequeuer].pc \in StampPcs
        BY <1>5, <2>1, <2>3, <3>1, <3>2
      <4>2. call'[Dequeuer].rank = p /\ call'[Dequeuer].pc # "check"
        BY <1>1, <3>1, <3>2, <4>1, IdleIs DEF Refreshes, StampPcs, LeafPcs, NodePcs, Scanning
      <4> QED BY <4>1, <4>2 DEF Serves, Refreshing, StampPcs
    <3>3. CASE c # Dequeuer
      BY <1>1, <2>3, <3>3 DEF Same, Serves, Refreshing, StampPcs
    <3> QED BY <3>2, <3>3
  <2>4. StampInv(p)'
    BY <1>1, <1>3, <2>1, <2>2, <2>3 DEF StampInv, StampPcs
  <2> QED BY <1>1, <1>2, <2>4 DEF Alone
<1> QED BY <1>4, <1>5

(* Ranks that a step of another one leaves alone. *)
LEMMA RankFrame ==
  ASSUME RankInv, NEW p \in Enqueuers, call'[p] = call[p], spsc'[p] = spsc[p],
           accepted'[p] = accepted[p], Stamps'[p] = Stamps[p],
         \/ call'[Dequeuer] = call[Dequeuer]
         \/ ~Serves(p) /\ ~Serves(p)'
  PROVE  Alone(p)' /\ StampInv(p)'
<1>1. Alone(p) /\ StampInv(p)
  BY DEF RankInv
<1>2. (Refreshes(p)' <=> Refreshes(p)) /\ (New(p)' <=> New(p))
        /\ FrontTimestamp(p)' = FrontTimestamp(p) /\ MAX' = MAX
  BY DEF Refreshes, New, FrontTimestamp, MAX, StampPcs, LeafPcs, NodePcs, Scanning
<1>3. Serves(p)' <=> Serves(p)
  BY DEF Serves, Refreshing
<1>4. Serves(p) => call'[Dequeuer] = call[Dequeuer]
  OBVIOUS
<1> QED BY <1>1, <1>2, <1>3, <1>4 DEF Alone, StampInv, StampPcs

(* Elements are put behind the front, or the first of them is the new one. *)
LEMMA PutFront ==
  ASSUME QueueInv, WrittenInv, NEW p \in Enqueuers, NEW pc \in {"check", "front"}, Put(p, pc)
  PROVE  FrontTimestamp(p)' = FrontTimestamp(p) \/ (FrontTimestamp(p) = MAX /\ New(p)')
<1>1. /\ Calls /\ accepted[p] \in Nat /\ call[p].n \in Nat /\ call[p].n > 0
  <2>1. call[p].pc # "idle"
    BY DEF Put
  <2> QED BY <2>1, QueueIs, BoundIs DEF WrittenInv, BegunInv
<1>2. /\ spsc' \in [Enqueuers -> Seq(Elements)] /\ Len(spsc[p]) \in Nat /\ accepted' = accepted
      /\ Len(spsc'[p]) = Len(spsc[p]) + call[p].n
      /\ \A i \in 1..Len(spsc[p]) : spsc'[p][i] = spsc[p][i]
      /\ \A i \in 1..Len(spsc'[p]) : i > Len(spsc[p]) =>
           spsc'[p][i] = [item |-> <<p, accepted[p] + (i - Len(spsc[p]))>>, ts |-> call[p].ts]
  BY <1>1, PutIs
<1>3. spsc'[p] # <<>> /\ Head(spsc'[p]) = spsc'[p][1] /\ 1 \in 1..Len(spsc'[p])
  <2>1. Len(spsc'[p]) > 0 /\ Len(spsc'[p]) \in Nat /\ spsc'[p] \in Seq(Elements)
    BY <1>1, <1>2
  <2> QED BY <2>1
<1>4. CASE spsc[p] # <<>>
  <2>1. 1 \in 1..Len(spsc[p]) /\ Head(spsc[p]) = spsc[p][1]
    BY <1>1, <1>4, FrontType
  <2> QED BY <1>2, <1>3, <1>4, <2>1 DEF FrontTimestamp
<1>5. CASE spsc[p] = <<>>
  <2>1. Len(spsc[p]) = 0
    BY <1>5
  <2>2. spsc'[p][1] = [item |-> <<p, accepted[p] + (1 - Len(spsc[p]))>>, ts |-> call[p].ts]
    BY <1>2, <1>3, <2>1
  <2>3. spsc'[p][1].item[2] = accepted[p] + 1
    BY <1>1, <2>1, <2>2
  <2>4. New(p)'
    BY <1>1, <1>2, <1>3, <2>3 DEF New
  <2> QED BY <1>5, <2>4 DEF FrontTimestamp
<1> QED BY <1>4, <1>5

LEMMA PutStamps ==
  ASSUME QueueInv, WrittenInv, NEW p \in Enqueuers, NEW pc \in {"check", "front"}, Put(p, pc)
  PROVE  Stamps' = Stamps
<1>1. ~Refresh(p)
  BY DEF Put, Refresh, RefreshTimestamp, RefreshSelfNode, RefreshNode, ReadFront, ReadStamp, SwapStamp,
         ReadLeafStamp, ReadLeaf, SwapLeaf, ReadNode, ReadChild, ReadChildStamp, SwapNode
<1> QED BY <1>1, EnqueueStamps DEF Enqueueing

LEMMA PutRank ==
  ASSUME QueueInv, WrittenInv, RankInv, NEW p \in Enqueuers, NEW pc \in {"check", "front"}, Put(p, pc),
         ~raced'
  PROVE  Alone(p)' /\ StampInv(p)'
<1>1. /\ Calls /\ p \in Callers /\ p # Dequeuer /\ Alone(p) /\ StampInv(p) /\ TypeInv
      /\ accepted[p] \in Nat /\ call[p].n \in Nat /\ call[p] \in Locals
  BY QueueIs, BoundIs, Constants DEF Callers, RankInv
<1>2. /\ Goes(p) /\ call[p].pc = "put" /\ call'[p].pc = pc
      /\ Stamps' = Stamps /\ (pc = "front" => ~Serves(p))
  <2>1. /\ Goes(p) /\ call[p].pc = "put" /\ call'[p].pc = pc
        /\ raced' = (raced \/ (pc = "front" /\ Serves(p)))
    BY <1>1, PutIs
  <2> QED BY <2>1, PutStamps
<1>3. call'[Dequeuer] = call[Dequeuer] /\ (Serves(p)' <=> Serves(p)) /\ MAX' = MAX
  BY <1>1, <1>2 DEF Goes, Callers, Serves, Refreshing, MAX
<1>4. Alone(p)'
  BY <1>2, <1>3 DEF Alone, Refreshes, StampPcs, LeafPcs, NodePcs, Scanning
<1>5. CASE Stamps[p] = FrontTimestamp(p)
  <2>1. FrontTimestamp(p)' = FrontTimestamp(p) \/ (FrontTimestamp(p) = MAX /\ New(p)')
    BY PutFront
  <2>2. call'[p].pc \in StampPcs /\ Stamps'[p] = Stamps[p]
    BY <1>2 DEF StampPcs
  <2>3. StampInv(p)'
    BY <1>3, <1>5, <2>1, <2>2 DEF StampInv
  <2> QED BY <1>4, <2>3
<1>6. CASE Stamps[p] # FrontTimestamp(p)
  <2>1. Serves(p) /\ call[Dequeuer].pc \in StampPcs
    BY <1>1, <1>2, <1>6 DEF StampInv, StampPcs
  <2> QED BY <1>3, <1>4, <2>1 DEF StampInv, StampPcs
<1> QED BY <1>4, <1>5, <1>6

LEMMA EnqueueRanks ==
  ASSUME QueueInv, WrittenInv, PathInv, RankInv, NEW p \in Enqueuers, Enqueueing(p), AgentInv(p), ~raced'
  PROVE  RankInv'
<1>1. Calls /\ p \in Callers /\ p # Dequeuer /\ CallInv(p) /\ Alone(p) /\ StampInv(p)
  BY QueueIs, Constants, CallerIs DEF Callers, RankInv
<1>2. CASE Refresh(p)
  BY <1>1, <1>2, RefreshRanks
<1>3. CASE ~Refresh(p)
  <2>0. Stamps' = Stamps
    BY <1>3, EnqueueStamps
  <2>1. Goes(p) /\ \A q \in Enqueuers : q # p =>
          spsc'[q] = spsc[q] /\ accepted'[q] = accepted[q]
    <3>1. CASE \E n \in 1..MaxBatch : EnqueueCall(p, n) \/ Node!EnqueueCounts(p, n)
      BY <1>1, <3>1, CallIs
    <3>2. CASE Node!TakeTimestamp(p)
      BY <1>1, <3>2, TimestampTaken
    <3>3. CASE Put(p, "check") \/ Put(p, "front")
      BY <1>1, <3>3, PutIs
    <3>4. CASE EnqueueFull(p)
      BY <1>1, <3>4, FullIs
    <3>5. CASE CheckFront(p)
      <4>1. accepted' = accepted \/ Accept(p)
        BY <1>1, <3>5, CheckIs
      <4>2. \A q \in Enqueuers : q # p => accepted'[q] = accepted[q]
        <5>1. TypeInv /\ \A q \in Enqueuers : accepted[q] \in Nat
          BY <1>1 DEF Calls, TypeInv
        <5> QED BY <1>1, <4>1, <5>1, AcceptIs DEF Callers
      <4> QED BY <1>1, <3>5, <4>2, CheckIs
    <3> QED BY <1>3, <3>1, <3>2, <3>3, <3>4, <3>5 DEF Enqueueing
  <2>2. call'[Dequeuer] = call[Dequeuer]
    BY <1>1, <2>1 DEF Goes, Callers
  <2>3. \A q \in Enqueuers : q # p => Alone(q)' /\ StampInv(q)'
    BY <2>0, <2>1, <2>2, RankFrame DEF Goes, Callers
  <2>4. (Serves(p)' <=> Serves(p)) /\ MAX' = MAX
          /\ (spsc' = spsc => FrontTimestamp(p)' = FrontTimestamp(p))
    BY <2>2 DEF Serves, Refreshing, MAX, FrontTimestamp
  <2>5. Alone(p)' /\ StampInv(p)'
    <3>1. CASE (\E n \in 1..MaxBatch : EnqueueCall(p, n) \/ Node!EnqueueCounts(p, n))
            \/ Node!TakeTimestamp(p) \/ EnqueueFull(p)
      <4>1. call[p].pc \in {"idle", "count", "put"} /\ call'[p].pc \in {"idle", "count", "put"}
              /\ spsc' = spsc
        BY <1>1, <3>1, CallIs, TimestampTaken, FullIs, IdleIs
      <4>2. ~Refreshes(p)' /\ call[p].pc \notin StampPcs
        BY <4>1 DEF Refreshes, StampPcs, LeafPcs, NodePcs, Scanning
      <4> QED BY <1>1, <2>0, <2>2, <2>4, <4>1, <4>2 DEF Alone, StampInv, StampPcs
    <3>2. CASE Put(p, "check") \/ Put(p, "front")
      BY <3>2, PutRank
    <3>3. CASE CheckFront(p)
      <4>1. /\ call[p].pc = "check" /\ spsc' = spsc
            /\ \/ FrontTimestamp(p) = call[p].ts /\ call'[p].pc = "front" /\ accepted' = accepted
                    /\ ~Serves(p)
               \/ FrontTimestamp(p) # call[p].ts /\ call'[p].pc = "idle"
        BY <1>1, <3>3, CheckIs, IdleIs
      <4>3. Alone(p)'
        BY <1>1, <2>4, <4>1 DEF Alone, Refreshes, StampPcs, LeafPcs, NodePcs, Scanning
      <4>4. New(p) => New(p)' /\ call'[p].pc = "front"
        BY <4>1, CheckNew DEF New
      <4>5. StampInv(p)'
        BY <1>1, <2>0, <2>2, <2>4, <4>1, <4>4 DEF StampInv, StampPcs
      <4> QED BY <4>3, <4>5
    <3> QED BY <1>3, <3>1, <3>2, <3>3 DEF Enqueueing
  <2> QED BY <2>3, <2>5 DEF RankInv
<1> QED BY <1>2, <1>3

LEMMA TakeRank ==
  ASSUME QueueInv, WrittenInv, RankInv, Take, ~raced'
  PROVE  RankInv'
<1>1. PICK r \in Enqueuers : r = call[Dequeuer].rank
  BY QueueIs, TakeIs
<1>2. /\ Goes(Dequeuer) /\ call[Dequeuer].pc = "take" /\ call'[Dequeuer].pc = "front"
      /\ call'[Dequeuer].rank = r
      /\ \A q \in Enqueuers : q # r => spsc'[q] = spsc[q]
      /\ ~Refreshing(r) /\ accepted' = accepted
  BY <1>1, QueueIs, TakeIs DEF Started
<1>3. Calls /\ r \in Callers /\ r # Dequeuer
  BY QueueIs, Constants DEF Callers
<1>0. Stamps' = Stamps
  <2>1. ~Refresh(Dequeuer)
    BY DEF Take, Refresh, RefreshTimestamp, RefreshSelfNode, RefreshNode, ReadFront, ReadStamp, SwapStamp,
           ReadLeafStamp, ReadLeaf, SwapLeaf, ReadNode, ReadChild, ReadChildStamp, SwapNode
  <2> QED BY <2>1, DequeueStamps DEF Dequeueing
<1>4. ASSUME NEW q \in Enqueuers, q # r PROVE Alone(q)' /\ StampInv(q)'
  <2>1. ~Serves(q) /\ ~Serves(q)' /\ call'[q] = call[q]
    BY <1>1, <1>2, <1>4, Constants DEF Serves, Goes, Callers
  <2> QED BY <1>0, <1>2, <1>4, <2>1, RankFrame
<1>5. ~Refreshes(r)'
  <2>1. ~Refreshes(r)
    BY <1>2, <1>3, WorkingIs
  <2> QED BY <1>2, <1>3, <2>1 DEF Goes, Refreshes, StampPcs, LeafPcs, NodePcs, Scanning
<1>6. Alone(r)' /\ StampInv(r)'
  BY <1>2, <1>5 DEF Alone, StampInv, Serves, Refreshing, StampPcs
<1> QED BY <1>4, <1>6 DEF RankInv

LEMMA DequeueRanks ==
  ASSUME QueueInv, WrittenInv, PathInv, RankInv, Dequeueing, AgentInv(Dequeuer), ~raced'
  PROVE  RankInv'
<1>1. Calls /\ Dequeuer \in Callers
  BY QueueIs DEF Callers
<1>2. CASE Refresh(Dequeuer)
  BY <1>1, <1>2, RefreshRanks
<1>3. CASE Take
  BY <1>3, TakeRank
<1>4. CASE ~Refresh(Dequeuer) /\ ~Take
  <2>0. Stamps' = Stamps
    BY <1>4, DequeueStamps
  <2>1. /\ Goes(Dequeuer) /\ UNCHANGED <<spsc, accepted>>
        /\ call[Dequeuer].pc \in {"idle", "root", "take"}
        /\ call'[Dequeuer].pc \in {"idle", "root", "take"}
    BY <1>1, <1>4, DequeueCallIs, ReturnsFalse, ReadRootIs, IdleIs DEF Dequeueing
  <2> SUFFICES ASSUME NEW p \in Enqueuers PROVE Alone(p)' /\ StampInv(p)'
    BY DEF RankInv
  <2>2. call'[p] = call[p] /\ ~Serves(p) /\ ~Serves(p)'
    BY <2>1, Constants DEF Goes, Callers, Serves, Refreshing
  <2> QED BY <2>0, <2>1, <2>2, RankFrame
<1> QED BY <1>2, <1>3, <1>4

--------------------------------------------------------------------------------
(* What the callers carry along, and the other steps. *)

LEMMA EnqueueAgents ==
  ASSUME QueueInv, WrittenInv, RankInv, \A b \in Callers : AgentInv(b), NEW p \in Enqueuers, Enqueueing(p),
         ~raced'
  PROVE  \A b \in Callers : AgentInv(b)'
<1>1. Calls /\ p \in Callers /\ p # Dequeuer /\ TypeInv
  BY QueueIs, Constants DEF Callers
<1>2. CASE Refresh(p)
  BY <1>1, <1>2, RefreshAgents
<1>0. ASSUME ~Refresh(p) PROVE Stamps' = Stamps
  BY <1>0, EnqueueStamps
<1>3. CASE ~Refresh(p) /\ ((\E n \in 1..MaxBatch : EnqueueCall(p, n) \/ Node!EnqueueCounts(p, n))
        \/ Node!TakeTimestamp(p)
           \/ EnqueueFull(p) \/ CheckFront(p))
  <2>1. Goes(p) /\ spsc' = spsc /\ call'[p].pc \in {"count", "put", "idle", "front"}
    BY <1>1, <1>3, CallIs, TimestampTaken, FullIs, CheckIs, IdleIs
  <2>2. ~Refreshes(p)' \/ call'[p].pc = "front"
    BY <2>1 DEF Refreshes, StampPcs, LeafPcs, NodePcs, Scanning
  <2>3. \A q \in Enqueuers : q # p => accepted'[q] = accepted[q]
    <3>1. accepted' = accepted \/ Accept(p)
      BY <1>1, <1>3, CallIs, TimestampTaken, FullIs, CheckIs
    <3>2. \A q \in Enqueuers : accepted[q] \in Nat
      BY <1>1 DEF TypeInv
    <3> QED BY <1>1, <3>1, <3>2, AcceptIs DEF Callers
  <2>4. ASSUME Unchecked(p) PROVE ~Serves(p)
    <3>1. CheckFront(p)
      <4>1. ~(call[p].pc \in {"idle", "count", "put"})
        BY <2>4 DEF Unchecked
      <4> QED BY <1>1, <1>3, <4>1, CallIs, TimestampTaken, FullIs
    <3>2. FrontTimestamp(p) = call[p].ts
      BY <2>4, CheckNew DEF Unchecked
    <3> QED BY <1>1, <3>1, <3>2, CheckIs
  <2>5. ASSUME NEW b \in Callers, b # p, Refreshes(b), NEW q \in Enqueuers, q = call[b].rank
        PROVE  Agrees(b, q)
    <3>1. FrontTimestamp(q)' = FrontTimestamp(q)
      BY <2>1 DEF FrontTimestamp, MAX
    <3>2. q # p /\ Unchecked(q) => Unchecked(q)'
      BY <2>1, <2>3 DEF Unchecked, New, Goes, Callers
    <3>3. b = Dequeuer => Serves(q)
      BY <1>1, <2>5, WorkingIs DEF Serves
    <3> QED BY <2>4, <3>1, <3>2, <3>3 DEF Agrees
  <2> QED BY <1>0, <1>1, <1>3, <2>1, <2>2, <2>5, GoesAgents
<1>4. CASE ~Refresh(p) /\ (Put(p, "check") \/ Put(p, "front"))
  <2>1. /\ Goes(p) /\ call[p].pc = "put" /\ call'[p].pc \in {"check", "front"} /\ accepted' = accepted
        /\ \A q \in Enqueuers : q # p => spsc'[q] = spsc[q]
        /\ raced' = (raced \/ (call'[p].pc = "front" /\ Serves(p)))
    BY <1>1, <1>4, PutIs
  <2>2. FrontTimestamp(p)' = FrontTimestamp(p) \/ (FrontTimestamp(p) = MAX /\ New(p)')
    BY <1>4, PutFront
  <2>3. ASSUME NEW b \in Callers, b # p, Refreshes(b), NEW q \in Enqueuers, q = call[b].rank
        PROVE  Agrees(b, q)
    <3>1. CallInv(b) /\ Refreshing(b) /\ call[b].pc # "idle"
      BY <1>1, <2>3, CallerIs, WorkingIs DEF Refreshing
    <3>2. CASE q = p
      <4>1. b = Dequeuer /\ Serves(p)
        BY <2>3, <3>1, <3>2 DEF CallInv, Serves
      <4>2. call'[p].pc = "check" /\ ~Unchecked(p)
        BY <2>1, <4>1 DEF Unchecked
      <4> QED BY <2>2, <3>2, <4>1, <4>2 DEF Agrees, Unchecked
    <3>3. CASE q # p
      <4>1. FrontTimestamp(q)' = FrontTimestamp(q)
        BY <2>1, <3>3 DEF FrontTimestamp, MAX
      <4>2. Unchecked(q) => Unchecked(q)'
        BY <2>1, <3>3 DEF Unchecked, New, Goes, Callers
      <4> QED BY <4>1, <4>2 DEF Agrees
    <3> QED BY <3>2, <3>3
  <2>4. ~Refreshes(p)' \/ call'[p].pc = "front"
    BY <2>1 DEF Refreshes, StampPcs, LeafPcs, NodePcs, Scanning
  <2> QED BY <1>0, <1>1, <1>4, <2>1, <2>3, <2>4, GoesAgents
<1> QED BY <1>2, <1>3, <1>4 DEF Enqueueing

LEMMA DequeueAgents ==
  ASSUME QueueInv, WrittenInv, RankInv, \A b \in Callers : AgentInv(b), Dequeueing, ~raced'
  PROVE  \A b \in Callers : AgentInv(b)'
<1>1. Calls /\ Dequeuer \in Callers
  BY QueueIs DEF Callers
<1>2. CASE Refresh(Dequeuer)
  BY <1>1, <1>2, RefreshAgents
<1>0. ~Refresh(Dequeuer) => Stamps' = Stamps
  BY DequeueStamps
<1>3. CASE ~Refresh(Dequeuer) /\ (DequeueCall \/ ReadRootDummy \/ ReadRoot \/ TakeNothing)
  <2>1. Goes(Dequeuer) /\ spsc' = spsc
          /\ call'[Dequeuer].pc \in {"root", "take", "idle"}
    BY <1>1, <1>3, DequeueCallIs, ReturnsFalse, ReadRootIs, IdleIs
  <2>2. ~Refreshes(Dequeuer)' \/ call'[Dequeuer].pc = "front"
    BY <2>1 DEF Refreshes, StampPcs, LeafPcs, NodePcs, Scanning
  <2>3. \A b \in Callers, q \in Enqueuers : b # Dequeuer => Agrees(b, q)
    BY <2>1 DEF Agrees, FrontTimestamp, MAX
  <2> QED BY <1>0, <1>1, <1>3, <2>1, <2>2, <2>3, GoesAgents
<1>4. CASE ~Refresh(Dequeuer) /\ Take
  <2>1. PICK r \in Enqueuers : r = call[Dequeuer].rank
    BY <1>1, <1>4, TakeIs
  <2>2. /\ Goes(Dequeuer) /\ call'[Dequeuer].pc = "front"
        /\ \A q \in Enqueuers : q # r => spsc'[q] = spsc[q]
    BY <1>1, <1>4, <2>1, TakeIs DEF Started
  <2>3. ~Refreshing(r)
    <3>1. raced' = (raced \/ Refreshing(r))
      BY <1>1, <1>4, <2>1, TakeIs
    <3> QED BY <3>1
  <2>4. ASSUME NEW b \in Callers, b # Dequeuer, Refreshes(b) PROVE call[b].rank # r
    <3>1. CallInv(b) /\ Refreshing(b) /\ call[b].pc # "idle"
      BY <1>1, <2>4, CallerIs, WorkingIs DEF Refreshing
    <3> QED BY <2>3, <2>4, <3>1 DEF CallInv
  <2>5. \A b \in Callers, q \in Enqueuers : b # Dequeuer /\ Refreshes(b) /\ q = call[b].rank =>
          Agrees(b, q)
    BY <2>2, <2>4 DEF Agrees, FrontTimestamp, MAX
  <2> QED BY <1>0, <1>1, <1>4, <2>2, <2>5, GoesAgents
<1> QED BY <1>2, <1>3, <1>4 DEF Dequeueing

--------------------------------------------------------------------------------
(* The dequeuer takes the oldest element. *)

(* A node that names a rank leads to an element. *)
LEMMA NamesFront ==
  ASSUME QueueInv, RankInv, TreeInv, NEW i \in Nodes, NEW q \in Enqueuers, tree[i] = q, ~Serves(q)
  PROVE  Stamps[q] = FrontTimestamp(q) /\ Stamps[q] # MAX /\ spsc[q] # <<>>
<1>1. Calls /\ TypeInv /\ q # DUMMY /\ Dequeuer \in Callers
  BY QueueIs, Constants DEF Callers
<1>2. ~(call[Dequeuer].rank = q /\ NotFull(Dequeuer, i))
  BY <1>1, NotFullWorks, WorkingIs DEF Serves
<1>3. Stamps[q] # MAX
  BY <1>1, <1>2 DEF TreeInv, Named
<1>4. Stamps[q] = FrontTimestamp(q)
  BY <1>3 DEF RankInv, StampInv
<1> QED BY <1>1, <1>3, <1>4, FrontType

(* The root leads to a timestamp at least as old as that of every accepted element. *)
LEMMA OldestShown ==
  ASSUME QueueInv, RankInv, TreeInv, ~Refreshing(Dequeuer), NEW y, NEW p \in Enqueuers, y[1] = p,
         NEW t, Stored(y, t), y[2] <= accepted[p]
  PROVE  tree[0] # DUMMY /\ tree[0] \in Enqueuers /\ Stamps[tree[0]] <= t
<1>1. Calls /\ TypeInv /\ Dequeuer \in Callers /\ p \in Ranks /\ 0 \in Nodes
  BY QueueIs, Constants DEF Callers
<1>2. /\ spsc[p] # <<>> /\ Head(spsc[p]) = spsc[p][1] /\ 1 \in 1..Len(spsc[p])
      /\ FrontTimestamp(p) <= t /\ t < MAX /\ t \in Nat /\ spsc[p][1].item[2] <= y[2]
  BY StoredIs
<1>3. ~New(p)
  <2>1. spsc[p][1].item[2] \in Nat /\ accepted[p] \in Nat
    BY <1>1, <1>2, EntryIs, BoundIs
  <2>2. y[2] \in Nat
    <3>1. y \in inQueue
      BY StoredIs
    <3> QED BY <3>1, QueueIs
  <2> QED BY <1>2, <2>1, <2>2 DEF New
<1>4. Stamps[p] = FrontTimestamp(p)
  BY <1>3 DEF RankInv, StampInv, Serves
<1>5. Stamps[p] # MAX /\ Stamps[p] <= t
  BY <1>2, <1>4, Constants
<1>6. ~Exempt(p, 0)
  BY <1>1, <1>3, NotFullWorks, WorkingIs DEF Exempt
<1>7. tree[0] # DUMMY /\ Stamps[tree[0]] <= Stamps[p]
  BY <1>1, <1>5, <1>6, PathRoot DEF TreeInv, Shown
<1>8. tree[0] \in Enqueuers
  BY <1>1, <1>7 DEF TypeInv, RanksOrDummy
<1>9. Stamps[tree[0]] \in Nat /\ Stamps[p] \in Nat
  <2>1. Stamps[tree[0]] \in Timestamps /\ Stamps[p] \in Timestamps
    BY <1>1, <1>8, StampsIs
  <2> QED BY <2>1, Constants
<1> QED BY <1>2, <1>5, <1>7, <1>8, <1>9

(* The first element of an SPSC is one of the elements of its rank. *)
LEMMA FirstIs ==
  ASSUME QueueInv, NEW q \in Enqueuers, spsc[q] # <<>>, NEW x, x = Head(spsc[q]).item
  PROVE  /\ x \in inQueue /\ x[1] = q /\ x[2] <= Granted(q) /\ x[2] \in Nat /\ x \in Enqueuers \X Nat
         /\ Stored(x, FrontTimestamp(q)) /\ FrontTimestamp(q) \in Timestamps
         /\ 1 \in 1..Len(spsc[q]) /\ Head(spsc[q]) = spsc[q][1]
<1>1. Calls /\ TypeInv /\ SpscInv(q)
  BY QueueIs
<1>2. 1 \in 1..Len(spsc[q]) /\ Head(spsc[q]) = spsc[q][1] /\ FrontTimestamp(q) = spsc[q][1].ts
      /\ FrontTimestamp(q) \in Timestamps
  BY <1>1, FrontType
<1>3. x \in inQueue /\ x[1] = q /\ x[2] <= Granted(q)
  BY <1>1, <1>2 DEF SpscInv
<1>4. spsc[q][1] \in Elements
  BY <1>1, <1>2, EntryIs
<1>5. spsc[q][1] = [item |-> x, ts |-> FrontTimestamp(q)] /\ x \in Enqueuers \X Nat
  BY <1>2, <1>4 DEF Elements
<1>6. x[2] \in Nat
  BY <1>5
<1> QED BY <1>2, <1>3, <1>5, <1>6 DEF Stored

LEMMA RootOldest ==
  ASSUME HistoryInv, RankInv, TreeInv, ~Refreshing(Dequeuer), NEW q \in Enqueuers, tree[0] = q
  PROVE  spsc[q] # <<>> /\ before[Head(spsc[q]).item] = {}
<1>1. QueueInv /\ ContentInv /\ BeforeInv /\ Calls /\ 0 \in Nodes
  BY QueueIs, Constants DEF HistoryInv
<1>2. spsc[q] # <<>> /\ Stamps[q] = FrontTimestamp(q)
  BY <1>1, NamesFront DEF Serves
<1>3. PICK x : x = Head(spsc[q]).item
  OBVIOUS
<1>4. x \in inQueue /\ x[1] = q /\ x[2] <= Granted(q) /\ x[2] \in Nat /\ Stored(x, FrontTimestamp(q))
      /\ FrontTimestamp(q) \in Timestamps /\ Head(spsc[q]) = spsc[q][1]
  BY <1>1, <1>2, <1>3, FirstIs
<1>5. ASSUME NEW y \in before[x] PROVE FALSE
  <2>1. y \in inQueue /\ y \in Enqueuers \X Nat
    BY <1>1, <1>4, QueueIs DEF BeforeInv
  <2>2. CASE y[1] = q
    <3>1. y[2] < x[2] /\ y[2] \in Nat
      BY <1>1, <1>4, <1>5, <2>1, <2>2 DEF BeforeInv
    <3>2. PICK t \in Timestamps : Stored(y, t) \/ Coming(y, t)
      BY <1>1, <2>1 DEF ContentInv
    <3>3. CASE Stored(y, t)
      <4>1. x[2] <= y[2]
        BY <1>1, <1>3, <1>4, <2>2, <3>3, StoredIs
      <4> QED BY <1>4, <3>1, <4>1
    <3>4. CASE Coming(y, t)
      <4>1. Putting(q) /\ y \in Batch(q, call[q].n)
        BY <2>2, <3>4 DEF Coming
      <4>2. Granted(q) = accepted[q] /\ accepted[q] \in Nat /\ call[q].n \in Nat
        BY <1>1, <4>1, BoundIs DEF Granted, Putting, Working, StampPcs, LeafPcs, NodePcs, Scanning
      <4>3. y[2] > accepted[q]
        BY <1>1, <2>1, <4>1, <4>2, BatchIs, QueueIs
      <4> QED BY <1>4, <3>1, <4>2, <4>3
    <3> QED BY <3>2, <3>3, <3>4
  <2>3. CASE y[1] # q
    <3>1. y[2] <= accepted[y[1]] /\ y[1] \in Enqueuers
      BY <1>1, <1>4, <1>5, <2>1, <2>3 DEF BeforeInv
    <3>2. PICK t \in Timestamps : Stored(y, t)
      BY <1>1, <2>1, <3>1, AcceptedStored
    <3>3. t < FrontTimestamp(q)
      BY <1>1, <1>4, <1>5, <2>3, <3>2 DEF BeforeInv
    <3>4. Stamps[q] <= t
      BY <1>1, <3>1, <3>2, OldestShown
    <3>5. t \in Nat /\ FrontTimestamp(q) \in Nat
      BY <1>4, <3>2, Constants
    <3> QED BY <1>2, <3>3, <3>4, <3>5
  <2> QED BY <2>2, <2>3
<1>6. before[x] = {}
  BY <1>5
<1> QED BY <1>2, <1>3, <1>6

(* The first element of an SPSC and what it must not overtake, while enqueuers go on. *)
LEMMA HeadStays ==
  ASSUME QueueInv, NEW p \in Enqueuers, Enqueueing(p), NEW r \in Enqueuers, spsc[r] # <<>>,
         before[Head(spsc[r]).item] = {}
  PROVE  spsc'[r] # <<>> /\ before'[Head(spsc'[r]).item] = {}
<1>1. Calls /\ TypeInv /\ p \in Callers /\ p # Dequeuer
  BY QueueIs, Constants DEF Callers
<1>2. PICK x : x = Head(spsc[r]).item
  OBVIOUS
<1>3. x \in inQueue /\ x[1] = r /\ x[2] <= Granted(r) /\ x[2] \in Nat /\ x \in Enqueuers \X Nat
      /\ 1 \in 1..Len(spsc[r]) /\ Head(spsc[r]) = spsc[r][1]
  BY <1>2, FirstIs
<1>4. ASSUME NEW n \in Nat, ~Working(p) PROVE x \notin Batch(p, n)
  <2>1. Granted(p) = accepted[p] /\ accepted[p] \in Nat
    BY <1>1, <1>4, BoundIs DEF Granted
  <2> QED BY <1>1, <1>3, <2>1, BatchIs
<1>5. CASE \E n \in 1..MaxBatch : EnqueueCall(p, n) \/ Node!EnqueueCounts(p, n)
  <2>1. PICK n \in 1..MaxBatch : EnqueueCall(p, n) \/ Node!EnqueueCounts(p, n)
    BY <1>5
  <2>2. spsc' = spsc /\ call[p].pc = "idle" /\ RecordCall(Batch(p, n)) /\ n \in Nat
    BY <1>1, <2>1, CallIs, Constants
  <2>3. x \notin Batch(p, n)
    BY <1>4, <2>2 DEF Working, StampPcs, LeafPcs, NodePcs, Scanning
  <2>4. x \in inQueue' /\ before'[x] = before[x]
    BY <1>3, <2>2, <2>3, RecordCallIs
  <2> QED BY <1>2, <2>2, <2>4
<1>6. CASE EnqueueFull(p)
  <2>1. spsc' = spsc /\ call[p].pc = "put" /\ RecordGone(Batch(p, call[p].n)) /\ call[p].n \in Nat
    BY <1>1, <1>6, FullIs, BoundIs
  <2>2. x \notin Batch(p, call[p].n)
    BY <1>4, <2>1 DEF Working, StampPcs, LeafPcs, NodePcs, Scanning
  <2>3. before'[x] = before[x] \ Batch(p, call[p].n)
    BY <1>3, <2>1, <2>2, RecordGoneIs
  <2> QED BY <1>2, <2>1, <2>3
<1>7. CASE Put(p, "check") \/ Put(p, "front")
  <2>1. before' = before /\ spsc' \in [Enqueuers -> Seq(Elements)]
        /\ \A q \in Enqueuers : q # p => spsc'[q] = spsc[q]
    BY <1>1, <1>7, PutIs
  <2>2. CASE r = p
    <3>1. Len(spsc'[r]) = Len(spsc[r]) + call[p].n /\ spsc'[r][1] = spsc[r][1] /\ Len(spsc[r]) \in Nat
      BY <1>1, <1>3, <1>7, <2>2, PutIs
    <3>2. Len(spsc'[r]) > 0 /\ spsc'[r] \in Seq(Elements)
      BY <1>1, <1>3, <2>1, <3>1, BoundIs
    <3>3. spsc'[r] # <<>> /\ Head(spsc'[r]) = spsc'[r][1]
      BY <3>2
    <3> QED BY <1>2, <1>3, <2>1, <3>1, <3>3
  <2>3. CASE r # p
    BY <2>1, <2>3
  <2> QED BY <2>2, <2>3
<1>8. CASE Node!TakeTimestamp(p) \/ CheckFront(p) \/ Refresh(p)
  <2>1. spsc' = spsc /\ before' = before
    BY <1>1, <1>8, TimestampTaken, CheckIs, RefreshCalls DEF Kept
  <2> QED BY <2>1
<1> QED BY <1>5, <1>6, <1>7, <1>8 DEF Enqueueing

LEMMA OthersStay ==
  ASSUME Calls, NEW p \in Enqueuers, Enqueueing(p)
  PROVE  Same(Dequeuer)
<1>1. p \in Callers /\ p # Dequeuer /\ Dequeuer \in Callers
  BY Constants DEF Callers
<1>2. CASE Refresh(p)
  BY <1>1, <1>2, RefreshCalls DEF Kept
<1>3. CASE ~Refresh(p)
  BY <1>1, <1>3, CallIs, TimestampTaken, PutIs, FullIs, CheckIs DEF Enqueueing, Goes
<1> QED BY <1>2, <1>3

LEMMA EnqueueTake ==
  ASSUME QueueInv, TakeInv, NEW p \in Enqueuers, Enqueueing(p)
  PROVE  TakeInv'
<1> SUFFICES ASSUME call'[Dequeuer].pc = "take"
             PROVE  spsc'[call'[Dequeuer].rank] # <<>>
                    /\ before'[Head(spsc'[call'[Dequeuer].rank]).item] = {}
  BY DEF TakeInv
<1>1. call[Dequeuer].pc = "take" /\ call'[Dequeuer].rank = call[Dequeuer].rank
  BY QueueIs, OthersStay DEF Same
<1>2. PICK r \in Enqueuers : r = call[Dequeuer].rank
  <2>1. CallInv(Dequeuer)
    BY QueueIs, CallerIs DEF Callers
  <2> QED BY <1>1, <2>1 DEF CallInv
<1>3. spsc[r] # <<>> /\ before[Head(spsc[r]).item] = {}
  BY <1>1, <1>2 DEF TakeInv
<1>4. spsc'[r] # <<>> /\ before'[Head(spsc'[r]).item] = {}
  BY <1>3, HeadStays
<1> QED BY <1>1, <1>2, <1>4

LEMMA DequeueTake ==
  ASSUME HistoryInv, RankInv, TreeInv, Dequeueing
  PROVE  TakeInv'
<1>1. Calls /\ Dequeuer \in Callers /\ QueueInv
  BY QueueIs DEF Callers, HistoryInv
<1>2. CASE ReadRoot
  <2>1. PICK q \in Enqueuers : q = tree[0]
    BY <1>1, <1>2, ReadRootIs
  <2>2. /\ call[Dequeuer].pc = "root" /\ call'[Dequeuer].rank = q
        /\ spsc' = spsc /\ before' = before
    BY <1>1, <1>2, <2>1, ReadRootIs
  <2>3. spsc[q] # <<>> /\ before[Head(spsc[q]).item] = {}
    BY <2>1, <2>2, RootOldest DEF Refreshing
  <2> QED BY <2>2, <2>3 DEF TakeInv
<1>3. CASE DequeueCall \/ ReadRootDummy \/ TakeNothing \/ Take
  <2>1. call'[Dequeuer].pc # "take"
    BY <1>1, <1>3, DequeueCallIs, ReturnsFalse, TakeIs, IdleIs DEF Started
  <2> QED BY <2>1 DEF TakeInv
<1>4. CASE Refresh(Dequeuer)
  <2>1. call'[Dequeuer].pc # "take"
    BY <1>1, <1>4, RefreshCalls, IdleIs DEF Kept, Refreshes, StampPcs, LeafPcs, NodePcs, Scanning
  <2> QED BY <2>1 DEF TakeInv
<1> QED BY <1>2, <1>3, <1>4 DEF Dequeueing

--------------------------------------------------------------------------------
(* The theorems. *)

(* Two callers that have refreshed one rank at once have done so for ever. *)
LEMMA RacedStays ==
  ASSUME Calls, (\E p \in Enqueuers : Enqueueing(p)) \/ Dequeueing, ~raced'
  PROVE  ~raced
<1>1. ASSUME NEW p \in Enqueuers, Enqueueing(p) PROVE ~raced
  <2>1. p \in Callers
    BY DEF Callers
  <2>2. CASE Put(p, "check") \/ Put(p, "front")
    BY <2>2 DEF Put
  <2>3. CASE CheckFront(p)
    BY <2>3 DEF CheckFront
  <2>4. CASE ~(Put(p, "check") \/ Put(p, "front") \/ CheckFront(p))
    <3>1. raced' = raced
      BY <1>1, <2>1, <2>4, CallIs, TimestampTaken, FullIs, RefreshCalls DEF Enqueueing, Kept
    <3> QED BY <3>1
  <2> QED BY <2>2, <2>3, <2>4
<1>2. CASE Dequeueing
  <2>1. CASE Take
    <3>1. PICK r \in Enqueuers : r = call[Dequeuer].rank
      BY <2>1, TakeIs
    <3>2. raced' = (raced \/ Refreshing(r))
      BY <2>1, <3>1, TakeIs
    <3> QED BY <3>2
  <2>2. CASE ~Take
    <3>1. raced' = raced
      BY <1>2, <2>2, DequeueCallIs, ReturnsFalse, ReadRootIs, RefreshCalls DEF Dequeueing, Kept, Callers
    <3> QED BY <3>1
  <2> QED BY <2>1, <2>2
<1> QED BY <1>1, <1>2

LEMMA ApartStep ==
  ASSUME BaseInv, ~raced => ApartInv, (\E p \in Enqueuers : Enqueueing(p)) \/ Dequeueing, ~raced'
  PROVE  ApartInv'
<1>1. /\ HistoryInv /\ WrittenInv /\ QueueInv /\ PathInv /\ Calls /\ Dequeuer \in Callers
      /\ \A p \in Enqueuers : p \in Callers
  BY QueueIs DEF BaseInv, HistoryInv, Callers
<1>2. (\A c \in Callers : AgentInv(c)) /\ RankInv /\ TreeInv /\ TakeInv
  BY <1>1, RacedStays DEF ApartInv
<1>3. ASSUME NEW p \in Enqueuers, Enqueueing(p) PROVE ApartInv'
  <2>1. AgentInv(p)
    BY <1>1, <1>2
  <2>2. (\A c \in Callers : AgentInv(c)') /\ RankInv' /\ TreeInv' /\ TakeInv'
    BY <1>1, <1>2, <1>3, <2>1, EnqueueAgents, EnqueueRanks, EnqueueTree, EnqueueTake
  <2> QED BY <2>2 DEF ApartInv, Callers
<1>4. CASE Dequeueing
  <2>1. AgentInv(Dequeuer)
    BY <1>1, <1>2
  <2>2. (\A c \in Callers : AgentInv(c)') /\ RankInv' /\ TreeInv' /\ TakeInv'
    BY <1>1, <1>2, <1>4, <2>1, DequeueAgents, DequeueRanks, DequeueTree, DequeueTake
  <2> QED BY <2>2 DEF ApartInv, Callers
<1> QED BY <1>3, <1>4

LEMMA ApartInitially == Init => ApartInv
<1> SUFFICES ASSUME Init PROVE ApartInv
  OBVIOUS
<1>1. tree = [i \in Nodes |-> DUMMY] /\ NoCalls
  BY InitIs
<1>2. (\A c \in Callers : call[c].pc = "idle") /\ \A p \in Enqueuers : spsc[p] = <<>> /\ accepted[p] = 0
  BY <1>1, IdleIs DEF NoCalls
<1>0. \A p \in Enqueuers : Stamps[p] = MAX
  BY <1>2 DEF Stamps, Unwritten, Callers
<1>3. Dequeuer \in Callers /\ \A p \in Enqueuers : p \in Callers
  BY DEF Callers
<1>4. \A c \in Callers : AgentInv(c) /\ ScanInv(c) /\ ~Working(c) /\ ~Refreshing(c)
  BY <1>2 DEF AgentInv, ScanInv, Working, Refreshing, StampPcs, LeafPcs, NodePcs, Scanning
<1>5. RankInv
  BY <1>0, <1>2, <1>3, <1>4 DEF RankInv, Serves, Alone, StampInv, FrontTimestamp
<1>6. \A i \in Nodes : Shown(i) /\ Named(i)
  BY <1>0, <1>1 DEF Shown, Named
<1>7. TakeInv
  BY <1>2, <1>3 DEF TakeInv
<1> QED BY <1>4, <1>5, <1>6, <1>7 DEF ApartInv, TreeInv

LEMMA ApartStutters ==
  ASSUME UNCHANGED <<vars, class>>, ApartInv
  PROVE  ApartInv'
<1> USE DEF vars
<1>0. Stamps' = Stamps
  BY StampsSame DEF Unwritten
<1>1. \A c \in Callers : AgentInv(c)'
  BY <1>0 DEF ApartInv, AgentInv, FrontTimestamp, Unchecked, New, DUMMY, MAX, NodePcs, Scanning
<1>2. /\ \A p \in Enqueuers : (New(p)' <=> New(p)) /\ Stamps'[p] = Stamps[p]
      /\ \A p : (Serves(p)' <=> Serves(p)) /\ FrontTimestamp(p)' = FrontTimestamp(p)
      /\ MAX' = MAX /\ DUMMY' = DUMMY
  BY <1>0 DEF New, Serves, Refreshing, FrontTimestamp, MAX, DUMMY
<1>3. \A c : Working(c)' <=> Working(c)
  BY DEF Working, StampPcs, LeafPcs, NodePcs, Scanning
<1>4. RankInv'
  BY <1>2, <1>3 DEF ApartInv, RankInv, Alone, StampInv, Refreshes, StampPcs, LeafPcs, NodePcs, Scanning
<1>5. \A c, i : (NotFull(c, i)' <=> NotFull(c, i)) /\ (Unread(c, i)' <=> Unread(c, i))
  BY <1>3 DEF NotFull, Unread, Ahead, At, NodePcs, Scanning
<1>6. \A i \in Nodes : Shown(i)' /\ Named(i)'
  BY <1>0, <1>2, <1>5 DEF ApartInv, TreeInv, Shown, Named, Exempt
<1>7. ASSUME NEW b \in Callers PROVE ScanInv(b)'
  <2>1. ScanInv(b)
    BY DEF ApartInv, TreeInv
  <2>2. \A p \in Enqueuers, i \in Nodes : Excused(b, p, i)' <=> Excused(b, p, i)
    BY <1>2, <1>5 DEF Excused
  <2>3. \A i \in Nodes : Scanned(b, i)' = Scanned(b, i)
    BY DEF Scanned, Nodes, Left, Right
  <2>4. \A i \in Nodes : (LeastInv(b, i)' <=> LeastInv(b, i)) /\ (SeenInv(b, i)' <=> SeenInv(b, i))
    BY <1>0, <1>2, <1>5, <2>2, <2>3 DEF LeastInv, SeenInv
  <2> QED BY <2>1, <2>4 DEF ScanInv, Nodes, Scanning
<1>8. TakeInv'
  BY DEF ApartInv, TakeInv
<1> QED BY <1>1, <1>4, <1>6, <1>7, <1>8 DEF ApartInv, TreeInv, Callers, Nodes

(* All that the refreshes keep: unless an enqueue and a dequeue refreshed one rank at once,  *)
(* a rank's timestamp, once its first refresh has written it, is its front's, and a node     *)
(* names the oldest rank below it, or a caller is on its way to make it so; and what a       *)
(* caller carries along to write is still true.  Before the first refresh of a rank nothing  *)
(* is claimed of its timestamp but that nobody reads it (WrittenInv).                        *)
THEOREM ApartInductive == Spec => [](BaseInv /\ (~raced => ApartInv))
<1> DEFINE Inv == BaseInv /\ (~raced => ApartInv)
<1>1. Init => Inv
  BY HistoryInitially, Initially, WrittenInitially, ApartInitially DEF BaseInv
<1>2. Inv /\ [Next]_<<vars, class>> => Inv'
  <2> SUFFICES ASSUME Inv, [Next]_<<vars, class>> PROVE Inv'
    OBVIOUS
  <2>1. HistoryInv /\ PathInv /\ WrittenInv /\ QueueInv /\ Calls
    BY QueueIs DEF BaseInv, HistoryInv
  <2>2. CASE UNCHANGED <<vars, class>>
    <3>1. BaseInv'
      BY <2>1, <2>2, HistoryStutters, CallsStutter, WrittenStutters DEF BaseInv
    <3>2. ~raced' => ~raced
      BY <2>2 DEF vars
    <3> QED BY <2>2, <3>1, <3>2, ApartStutters
  <2>3. CASE Next
    <3>1. (\E p \in Enqueuers : Enqueueing(p)) \/ Dequeueing
      BY <2>3, StepIs
    <3>2. BaseInv'
      BY <2>1, <3>1, HistoryStep, PathStep, WrittenStep DEF BaseInv
    <3> QED BY <3>1, <3>2, ApartStep
  <2> QED BY <2>2, <2>3
<1> QED BY <1>1, <1>2, PTL DEF Spec

(* TypeOK: the timestamps are below the counter, and the SPSCs hold elements of the queue. *)
THEOREM TypesCorrect == Spec => []TypeOK
<1>1. BaseInv => TypeOK
  <2> SUFFICES ASSUME BaseInv PROVE TypeOK
    OBVIOUS
  <2>1. QueueInv /\ Calls /\ TypeInv /\ SettledInv
    BY QueueIs DEF BaseInv, HistoryInv
  <2>2. ASSUME NEW p \in Enqueuers, NEW i \in 1..Len(spsc[p])
        PROVE  spsc[p][i].ts \in 0..counter-1 /\ spsc[p][i].item \in inQueue
    <3>1. SpscInv(p) /\ Bound(p) \in Nat /\ Bound(p) <= counter /\ counter \in Nat
      BY <2>1, QueueIs, BoundIs
    <3>2. spsc[p][i].ts \in Nat
      BY <2>1, <2>2, EntryIs
    <3>3. spsc[p][i].ts < Bound(p) /\ spsc[p][i].item \in inQueue
      BY <2>2, <3>1 DEF SpscInv
    <3> QED BY <3>1, <3>2, <3>3
  <2>3. call \in [Callers -> Locals] /\ settled \subseteq inQueue
    BY <2>1 DEF TypeInv, SettledInv
  <2>4. dOut = Nothing \/ (dOut[1] \in Enqueuers /\ dOut[2] \in Nat)
    BY <2>1 DEF TypeInv
  <2> QED BY <2>1, <2>2, <2>3, <2>4 DEF TypeOK, TypeInv, Locals, Pcs
<1> QED BY <1>1, ApartInductive, PTL

(* RankForgottenApart: once the last element of a rank is gone and the refresh for it  *)
(* ended, no node leads dequeue to the rank, unless two callers refreshed it at once.   *)
THEOREM ForgetsRank == Spec => []RankForgottenApart
<1>1. BaseInv /\ (~raced => ApartInv) => RankForgottenApart
  BY NamesFront DEF BaseInv, HistoryInv, ApartInv, RankForgottenApart, RankForgotten
<1> QED BY <1>1, ApartInductive, PTL

LEMMA TimestampIs ==
  ASSUME QueueInv, NEW x, x[1] \in Enqueuers, NEW t, Stored(x, t)
  PROVE  TimestampOf(x) = t
<1> DEFINE q == spsc[x[1]]
<1>1. PICK i \in 1..Len(q) : q[i] = [item |-> x, ts |-> t]
  BY DEF Stored
<1>2. SpscInv(x[1]) /\ Len(q) \in Nat
  BY QueueIs, FrontType
<1>3. ASSUME NEW j \in 1..Len(q), q[j].item = x PROVE j = i
  <2>1. i \in Int /\ j \in Int /\ q[i].item[2] \in Nat
    BY <1>2, QueueIs, EntryIs
  <2>2. i < j => q[i].item[2] < q[j].item[2]
    BY <1>2 DEF SpscInv
  <2>3. j < i => q[j].item[2] < q[i].item[2]
    BY <1>2 DEF SpscInv
  <2>4. q[i].item = x
    BY <1>1
  <2> QED BY <1>3, <2>1, <2>2, <2>3, <2>4
<1>4. (CHOOSE j \in 1..Len(q) : q[j].item = x) = i
  BY <1>1, <1>3
<1>5. TimestampOf(x) = q[i].ts
  BY <1>4, Zenon DEF TimestampOf
<1>6. [item |-> x, ts |-> t].ts = t
  OBVIOUS
<1> QED BY <1>1, <1>5, <1>6

(* RootShowsOldestApart: while dequeue does not refresh, the root leads to a timestamp *)
(* as old as that of every element whose enqueue returned.                             *)
THEOREM RootLeadsToOldest == Spec => []RootShowsOldestApart
<1>1. BaseInv /\ (~raced => ApartInv) => RootShowsOldestApart
  <2> SUFFICES ASSUME BaseInv, ApartInv, ~Refreshing(Dequeuer), NEW x \in returned
               PROVE  tree[0] # DUMMY /\ stamp[tree[0]] <= TimestampOf(x)
    BY DEF RootShowsOldestApart, RootShowsOldest
  <2>1. QueueInv /\ Calls /\ ContentInv /\ RankInv /\ TreeInv /\ WrittenInv
    BY QueueIs DEF BaseInv, HistoryInv, ApartInv
  <2>2. x \in Enqueuers \X Nat /\ x[1] \in Enqueuers /\ x[2] <= accepted[x[1]]
          /\ \E t \in Timestamps : Stored(x, t)
    BY <2>1, ReturnedIs
  <2>3. PICK t \in Timestamps : Stored(x, t)
    BY <2>2
  <2>4. tree[0] # DUMMY /\ Stamps[tree[0]] <= TimestampOf(x)
    BY <2>1, <2>2, <2>3, OldestShown, TimestampIs
  <2>5. 0 \in Nodes
    BY Constants
  <2> QED BY <2>1, <2>4, <2>5, StampsRead
<1> QED BY <1>1, ApartInductive, PTL

(* NoOvertakingApart: what dequeue takes from the rank in the root overtakes nothing. *)
THEOREM TakesOldest == Spec => NoOvertakingApart
<1>1. BaseInv /\ (~raced => ApartInv) /\ [Next]_<<vars, class>>
        => [Take /\ ~raced => \A x \in took : before[x] = {}]_vars
  <2> SUFFICES ASSUME BaseInv, ApartInv, Take, NEW x \in took PROVE before[x] = {}
    OBVIOUS
  <2>1. Calls /\ TakeInv
    BY QueueIs DEF BaseInv, HistoryInv, ApartInv
  <2>2. PICK r \in Enqueuers : r = call[Dequeuer].rank
    BY <2>1, TakeIs
  <2>3. call[Dequeuer].pc = "take" /\ RecordGone({spsc[r][1].item}) /\ Head(spsc[r]) = spsc[r][1]
    BY <2>1, <2>2, TakeIs
  <2>4. x = spsc[r][1].item
    <3>1. inQueue' = inQueue \ {spsc[r][1].item}
      BY <2>3, RecordGoneIs
    <3>2. x \in inQueue /\ x \notin inQueue'
      BY DEF took, inQueue
    <3> QED BY <3>1, <3>2
  <2> QED BY <2>1, <2>2, <2>3, <2>4 DEF TakeInv
<1> QED BY <1>1, ApartInductive, PTL DEF Spec, NoOvertakingApart

LEMMA ReturnsFalseIs ==
  ASSUME Calls, (\E p \in Enqueuers : Enqueueing(p)) \/ Dequeueing, returnsFalse
  PROVE  \/ call[Dequeuer].pc = "root" /\ tree[0] = DUMMY
         \/ call[Dequeuer].pc = "take" /\ spsc[call[Dequeuer].rank] = <<>>
<1>1. call[Dequeuer].pc \in {"root", "take"} /\ call'[Dequeuer].pc = "idle"
  BY DEF returnsFalse
<1>2. ~\E p \in Enqueuers : Enqueueing(p)
  BY <1>1, OthersStay DEF Same
<1>3. ~Refresh(Dequeuer)
  BY <1>1, RefreshCalls DEF Kept, Refreshes, StampPcs, LeafPcs, NodePcs, Scanning, Callers
<1>4. ReadRootDummy \/ TakeNothing
  BY <1>1, <1>2, <1>3, DequeueCallIs, ReadRootIs, TakeIs DEF Dequeueing, Started
<1> QED BY <1>4, ReturnsFalse

(* Nothing that was there when dequeue was called is left when it returns false. *)
LEMMA NothingSettled ==
  ASSUME QueueInv, ContentInv, SettledInv, RankInv, TreeInv, TakeInv,
         \/ call[Dequeuer].pc = "root" /\ tree[0] = DUMMY
         \/ call[Dequeuer].pc = "take" /\ spsc[call[Dequeuer].rank] = <<>>
  PROVE  settled = {}
<1> SUFFICES ASSUME NEW x \in settled PROVE FALSE
  OBVIOUS
<1>1. call[Dequeuer].pc = "root" /\ tree[0] = DUMMY
  BY DEF TakeInv
<1>2. x \in inQueue /\ x[1] \in Enqueuers /\ x[2] <= accepted[x[1]]
  BY QueueIs DEF SettledInv
<1>3. PICK t \in Timestamps : Stored(x, t)
  BY <1>2, AcceptedStored
<1> QED BY <1>1, <1>2, <1>3, OldestShown DEF Refreshing

(* NoFalseEmptyApart: dequeue returns false, at the root or at an empty SPSC, only if *)
(* everything that was there when it was called is gone.                              *)
THEOREM FalseMeansEmpty == Spec => NoFalseEmptyApart
<1>1. BaseInv /\ (~raced => ApartInv) /\ [Next]_<<vars, class>> =>
        [returnsFalse /\ ~raced => settled = {}]_vars
  <2> SUFFICES ASSUME BaseInv, ApartInv, [Next]_<<vars, class>>, vars' # vars, returnsFalse
               PROVE  settled = {}
    OBVIOUS
  <2>1. QueueInv /\ WrittenInv /\ ContentInv /\ SettledInv /\ Calls /\ RankInv /\ TreeInv /\ TakeInv
    BY QueueIs DEF BaseInv, HistoryInv, ApartInv
  <2> QED BY <2>1, StepIs, ReturnsFalseIs, NothingSettled
<1> QED BY <1>1, ApartInductive, PTL DEF Spec, NoFalseEmptyApart

--------------------------------------------------------------------------------
(* Linearizability: the steps are those of MpscQueue. *)

(* The elements of rank p in the queue: those in its SPSC and those it is about to put. *)
LEMMA HowMany ==
  ASSUME QueueInv, ContentInv, NEW p \in Enqueuers, Putting(p)
  PROVE  Cardinality({x \in inQueue : x[1] = p}) = Len(spsc[p]) + call[p].n
<1> DEFINE L == Len(spsc[p])
           n == call[p].n
           T == {x \in inQueue : x[1] = p}
           f == [i \in 1..(L + n) |-> IF i <= L THEN spsc[p][i].item ELSE <<p, accepted[p] + (i - L)>>]
<1>1. /\ Calls /\ SpscInv(p) /\ L \in Nat /\ n \in Nat /\ accepted[p] \in Nat
      /\ inQueue \subseteq Enqueuers \X Nat /\ Granted(p) = accepted[p]
  <2>1. Calls /\ TypeInv /\ SpscInv(p) /\ inQueue \subseteq Enqueuers \X Nat
    BY QueueIs
  <2>2. n \in Nat /\ accepted[p] \in Nat /\ L \in Nat
    BY <2>1, BoundIs, FrontType
  <2>3. Granted(p) = accepted[p]
    BY <2>2 DEF Granted, Putting, Working, StampPcs, LeafPcs, NodePcs, Scanning
  <2> QED BY <2>1, <2>2, <2>3
<1>2. ASSUME NEW i \in 1..L
      PROVE  spsc[p][i].item \in T /\ spsc[p][i].item[2] \in Nat /\ spsc[p][i].item[2] <= accepted[p]
  BY <1>1, EntryIs DEF SpscInv
<1>3. ASSUME NEW i \in 1..(L + n), i > L
      PROVE  <<p, accepted[p] + (i - L)>> \in T /\ accepted[p] + (i - L) \in Nat /\ accepted[p] + (i - L) > accepted[p]
  <2>1. i - L \in 1..n
    BY <1>1, <1>3
  <2>2. <<p, accepted[p] + (i - L)>> \in inQueue
    BY <1>1, <2>1 DEF SpscInv, Batch
  <2> QED BY <1>1, <2>1, <2>2
<1>4. \A i \in 1..(L + n) : i > L \/ i \in 1..L
  BY <1>1
<1>5. f \in [1..(L + n) -> T]
  <2>1. ASSUME NEW i \in 1..(L + n)
        PROVE  (IF i <= L THEN spsc[p][i].item ELSE <<p, accepted[p] + (i - L)>>) \in T
    <3>1. CASE i <= L
      <4>1. i \in 1..L
        BY <1>1, <3>1
      <4> QED BY <1>2, <3>1, <4>1
    <3>2. CASE ~(i <= L)
      <4>1. i > L
        BY <1>1, <3>2
      <4> QED BY <1>3, <3>2, <4>1
    <3> QED BY <3>1, <3>2
  <2> QED BY <2>1
<1>6. ASSUME NEW i \in 1..(L + n), NEW j \in 1..(L + n), i < j PROVE f[i] # f[j]
  <2> SUFFICES f[i][2] < f[j][2] /\ f[i][2] \in Nat /\ f[j][2] \in Nat
    OBVIOUS
  <2>1. CASE j <= L
    <3>1. i \in 1..L /\ j \in 1..L /\ f[i] = spsc[p][i].item /\ f[j] = spsc[p][j].item
      BY <1>1, <1>6, <2>1
    <3> HIDE DEF f, L
    <3> QED BY <1>1, <1>2, <1>6, <3>1 DEF SpscInv, L
  <2>2. CASE j > L /\ i <= L
    <3>1. i \in 1..L /\ f[i] = spsc[p][i].item /\ f[j][2] = accepted[p] + (j - L)
      BY <1>1, <2>2
    <3> HIDE DEF f
    <3>2. spsc[p][i].item[2] <= accepted[p] /\ spsc[p][i].item[2] \in Nat
      BY <1>2, <3>1
    <3>3. accepted[p] \in Nat /\ j \in Nat /\ L \in Nat
      BY <1>1, <1>2, <1>3
    <3> HIDE DEF L
    <3> QED BY <2>2, <3>1, <3>2, <3>3
  <2>3. CASE i > L
    <3>1. f[i][2] = accepted[p] + (i - L) /\ f[j][2] = accepted[p] + (j - L)
      BY <1>1, <1>6, <2>3
    <3> HIDE DEF f
    <3> QED BY <1>1, <1>3, <1>6, <2>3, <3>1
  <2> QED BY <1>1, <2>1, <2>2, <2>3
<1>7. \A i, j \in 1..(L + n) : f[i] = f[j] => i = j
  <2>1. \A i, j \in 1..(L + n) : i = j \/ i < j \/ j < i
    BY <1>1
  <2> QED BY <1>6, <2>1
<1>8. ASSUME NEW x \in T PROVE \E i \in 1..(L + n) : f[i] = x
  <2>1. PICK t \in Timestamps : Stored(x, t) \/ Coming(x, t)
    BY DEF ContentInv
  <2>2. CASE Stored(x, t)
    <3>1. PICK i \in 1..L : spsc[p][i] = [item |-> x, ts |-> t]
      BY <2>2 DEF Stored
    <3>2. i \in 1..(L + n) /\ i <= L /\ spsc[p][i].item = x
      BY <1>1, <3>1
    <3> QED BY <3>2
  <2>3. CASE Coming(x, t)
    <3>1. PICK k \in 1..n : x = <<p, accepted[p] + k>>
      BY <2>3 DEF Coming, Batch
    <3>2. L + k \in 1..(L + n) /\ ~(L + k <= L) /\ (L + k) - L = k
      BY <1>1
    <3>3. f[L + k] = x
      BY <3>1, <3>2
    <3> QED BY <3>2, <3>3
  <2> QED BY <2>1, <2>2, <2>3
<1> HIDE DEF f, T
<1>9. f \in Bijection(1..(L + n), T)
  BY <1>5, <1>7, <1>8 DEF Bijection, Injection, Surjection, IsInjective
<1>10. ExistsBijection(1..(L + n), T) /\ L + n \in Nat
  BY <1>1, <1>9 DEF ExistsBijection
<1>11. Cardinality(T) = L + n
  BY <1>10, FS_CountingElements
<1> QED BY <1>11 DEF T

(* The refinement mapping of Abstract (see LTTree). *)
Calling == [p \in Enqueuers |-> call[p].n]
DState ==
  IF call[Dequeuer].pc = "idle" THEN "idle"
  ELSE IF call[Dequeuer].pc \in {"root", "take"} THEN "called" ELSE "done"

LEMMA CardinalityIs == \A S : Abstract!Cardinality(S) = Cardinality(S)
BY Zenon DEF Cardinality, Abstract!Cardinality

(* The steps of the abstract queue in terms of the variables here. *)
LEMMA AbstractSteps ==
  /\ \A p \in Enqueuers, n \in 1..MaxBatch :
       /\ Calling[p] = 0 /\ Calling' = [Calling EXCEPT ![p] = n] /\ RecordCall(Batch(p, n))
       /\ UNCHANGED <<accepted, DState, settled, dOut>>
       => Abstract!Next
  /\ \A p \in Enqueuers :
       /\ Calling[p] > 0
       /\ accepted' = [accepted EXCEPT ![p] = @ + Calling[p]]
       /\ Calling' = [Calling EXCEPT ![p] = 0]
       /\ UNCHANGED <<before, DState, settled, dOut>>
       => Abstract!Next
  /\ \A p \in Enqueuers :
       /\ Calling[p] > 0
       /\ Batch(p, Calling[p]) \subseteq inQueue
       /\ Cardinality({x \in inQueue : x[1] = p}) > Capacity
       /\ RecordGone(Batch(p, Calling[p]))
       /\ Calling' = [Calling EXCEPT ![p] = 0]
       /\ UNCHANGED <<accepted, DState, settled, dOut>>
       => Abstract!Next
  /\ /\ DState = "idle" /\ DState' = "called" /\ settled' = returned
     /\ UNCHANGED <<before, accepted, Calling, dOut>>
     => Abstract!Next
  /\ \A x \in inQueue :
       /\ DState = "called" /\ before[x] = {} /\ RecordGone({x})
       /\ DState' = "done" /\ settled' = {} /\ dOut' = x
       /\ UNCHANGED <<accepted, Calling>>
       => Abstract!Next
  /\ /\ DState = "done" /\ DState' = "idle" /\ UNCHANGED <<before, accepted, Calling, settled, dOut>>
     => Abstract!Next
  /\ /\ DState = "called" /\ settled = {} /\ DState' = "idle" /\ dOut' = Nothing
     /\ UNCHANGED <<before, accepted, Calling, settled>>
     => Abstract!Next
  /\ UNCHANGED <<before, accepted, Calling, DState, settled, dOut>> => UNCHANGED Abstract!vars
<1>1. ASSUME NEW p \in Enqueuers, NEW n \in 1..MaxBatch,
             Calling[p] = 0, Calling' = [Calling EXCEPT ![p] = n], RecordCall(Batch(p, n)),
             UNCHANGED <<accepted, DState, settled, dOut>>
      PROVE  Abstract!Next
  <2>1. returned = Abstract!returned
    BY DEF returned, inQueue, Batch, Abstract!returned, Abstract!inQueue, Abstract!Batch
  <2>2. Abstract!EnqueueCall(p, n)
    BY <1>1, <2>1 DEF Calling, DState, RecordCall, inQueue, Batch, Abstract!EnqueueCall, Abstract!inQueue, Abstract!Batch
  <2> QED BY <2>2 DEF Abstract!Next
<1>2. ASSUME NEW p \in Enqueuers, Calling[p] > 0,
             accepted' = [accepted EXCEPT ![p] = @ + Calling[p]],
             Calling' = [Calling EXCEPT ![p] = 0],
             UNCHANGED <<before, DState, settled, dOut>>
      PROVE  Abstract!Next
  <2>1. Abstract!EnqueueReturn(p)
    BY <1>2 DEF Calling, DState, Abstract!EnqueueReturn
  <2> QED BY <2>1 DEF Abstract!Next
<1>3. ASSUME NEW p \in Enqueuers, Calling[p] > 0, Batch(p, Calling[p]) \subseteq inQueue,
             Cardinality({x \in inQueue : x[1] = p}) > Capacity,
             RecordGone(Batch(p, Calling[p])),
             Calling' = [Calling EXCEPT ![p] = 0],
             UNCHANGED <<accepted, DState, settled, dOut>>
      PROVE  Abstract!Next
  <2>1. Abstract!EnqueueReject(p)
    BY <1>3, CardinalityIs DEF Calling, DState, RecordGone, inQueue, Batch, Abstract!EnqueueReject, Abstract!Without,
                Abstract!inQueue, Abstract!Batch
  <2> QED BY <2>1 DEF Abstract!Next
<1>4. ASSUME DState = "idle", DState' = "called", settled' = returned,
             UNCHANGED <<before, accepted, Calling, dOut>>
      PROVE  Abstract!Next
  <2>1. returned = Abstract!returned
    BY DEF returned, inQueue, Batch, Abstract!returned, Abstract!inQueue, Abstract!Batch
  <2>2. Abstract!DequeueCall
    BY <1>4, <2>1 DEF Calling, DState, Abstract!DequeueCall
  <2> QED BY <2>2 DEF Abstract!Next
<1>5. ASSUME NEW x \in inQueue, DState = "called", before[x] = {}, RecordGone({x}),
             DState' = "done", settled' = {}, dOut' = x,
             UNCHANGED <<accepted, Calling>>
      PROVE  Abstract!Next
  <2>1. Abstract!DequeueItem(x) /\ x \in Abstract!inQueue
    BY <1>5 DEF Calling, DState, RecordGone, inQueue, Abstract!DequeueItem, Abstract!Without, Abstract!inQueue
  <2> QED BY <2>1 DEF Abstract!Next
<1>6. ASSUME DState = "done", DState' = "idle", UNCHANGED <<before, accepted, Calling, settled, dOut>>
      PROVE  Abstract!Next
  BY <1>6 DEF Calling, DState, Abstract!DequeueReturn, Abstract!Next
<1>7. ASSUME DState = "called", settled = {}, DState' = "idle", dOut' = Nothing,
             UNCHANGED <<before, accepted, Calling, settled>>
      PROVE  Abstract!Next
  BY <1>7 DEF Calling, DState, Nothing, Abstract!Nothing, Abstract!DequeueEmpty, Abstract!Next
<1>8. UNCHANGED <<before, accepted, Calling, DState, settled, dOut>> => UNCHANGED Abstract!vars
  BY DEF Calling, DState, Abstract!vars
<1> QED BY <1>1, <1>2, <1>3, <1>4, <1>5, <1>6, <1>7, <1>8

(* What a step of rank p makes of calls. *)
LEMMA CallingIs ==
  ASSUME Calls, NEW p \in Enqueuers, \A q \in Callers : q # p => Same(q)
  PROVE  /\ Calling' = [Calling EXCEPT ![p] = call'[p].n]
         /\ Calling[p] = call[p].n /\ Calling[p] \in Nat
         /\ call'[p].n = call[p].n => Calling' = Calling
         /\ DState' = DState
<1>1. /\ call[p].n \in Nat /\ Dequeuer # p /\ Dequeuer \in Callers /\ \A q \in Enqueuers : q \in Callers
  BY BoundIs, Constants DEF Callers
<1>2. \A q \in Enqueuers : q # p => call'[q].n = call[q].n /\ call'[q].pc = call[q].pc
  BY <1>1 DEF Same
<1>3. Calling = [q \in Enqueuers |-> call[q].n] /\ Calling' = [q \in Enqueuers |-> call'[q].n]
  BY DEF Calling
<1>4. call'[Dequeuer].pc = call[Dequeuer].pc
  BY <1>1 DEF Same
<1> QED BY <1>1, <1>2, <1>3, <1>4 DEF DState

LEMMA EnqueueRefines ==
  ASSUME QueueInv, ContentInv, BegunInv, NEW p \in Enqueuers, Enqueueing(p)
  PROVE  Abstract!Next \/ UNCHANGED Abstract!vars
<1>1. /\ Calls /\ TypeInv /\ CallInv(p) /\ SpscInv(p) /\ accepted \in [Enqueuers -> Nat]
      /\ call[p].n \in Nat /\ p \in Callers /\ Capacity \in Nat
  BY QueueIs, BoundIs, CallerIs, Constants
<1>2. (\A q \in Callers : q # p => Same(q)) /\ settled' = settled /\ dOut' = dOut
  BY <1>1, CallIs, TimestampTaken, PutIs, FullIs, CheckIs, RefreshCalls DEF Enqueueing, Goes, Kept
<1>3. /\ Calling' = [Calling EXCEPT ![p] = call'[p].n] /\ Calling[p] = call[p].n
      /\ call'[p].n = call[p].n => Calling' = Calling
      /\ DState' = DState
  BY <1>1, <1>2, CallingIs
<1>4. CASE \E n \in 1..MaxBatch : EnqueueCall(p, n) \/ Node!EnqueueCounts(p, n)
  <2>1. PICK n \in 1..MaxBatch : EnqueueCall(p, n) \/ Node!EnqueueCounts(p, n)
    BY <1>4
  <2>2. /\ call[p].n = 0 /\ call'[p].n = n /\ RecordCall(Batch(p, n)) /\ accepted' = accepted /\ n > 0
    BY <1>1, <2>1, CallIs DEF CallInv
  <2> QED BY <1>2, <1>3, <2>2, AbstractSteps
<1>5. ASSUME call[p].pc # "idle", call'[p].n = call[p].n, accepted' = accepted, before' = before
      PROVE  UNCHANGED Abstract!vars
  BY <1>2, <1>3, <1>5, AbstractSteps
<1>6. ASSUME call[p].pc # "idle", call'[p] = Idle, Accept(p), before' = before
      PROVE  Abstract!Next
  <2>1. call'[p].n = 0 /\ call'[p].pc = "idle" /\ Calling[p] > 0
    BY <1>3, <1>6, IdleIs DEF BegunInv
  <2>2. accepted' = [accepted EXCEPT ![p] = @ + Calling[p]]
    BY <1>3, <1>6 DEF Accept
  <2> QED BY <1>2, <1>3, <1>6, <2>1, <2>2, AbstractSteps
<1>7. CASE EnqueueFull(p)
  <2>1. call[p].pc = "put" /\ call'[p] = Idle /\ RecordGone(Batch(p, Calling[p])) /\ accepted' = accepted
    BY <1>1, <1>3, <1>7, FullIs
  <2>2. call'[p].n = 0 /\ call'[p].pc = "idle" /\ Calling[p] > 0 /\ Putting(p)
    BY <1>3, <2>1, IdleIs DEF BegunInv, Putting
  <2>3. Batch(p, Calling[p]) \subseteq inQueue
    BY <1>1, <1>3, <2>2 DEF SpscInv
  <2>4. Cardinality({x \in inQueue : x[1] = p}) > Capacity
    <3>1. ~ (Len(spsc[p]) + call[p].n <= Capacity) /\ Len(spsc[p]) \in Nat
      BY <1>1, <1>7, FrontType DEF EnqueueFull, Fits
    <3>2. Cardinality({x \in inQueue : x[1] = p}) = Len(spsc[p]) + call[p].n
      BY <2>2, HowMany
    <3> QED BY <1>1, <3>1, <3>2
  <2> QED BY <1>2, <1>3, <2>1, <2>2, <2>3, <2>4, AbstractSteps
<1>8. CASE Node!TakeTimestamp(p) \/ Put(p, "check") \/ Put(p, "front")
  BY <1>1, <1>5, <1>8, TimestampTaken, PutIs
<1>9. CASE CheckFront(p)
  <2>1. call[p].pc = "check" /\ before' = before
    BY <1>1, <1>9, CheckIs
  <2>2. (call'[p].n = call[p].n /\ accepted' = accepted) \/ (call'[p] = Idle /\ Accept(p))
    BY <1>1, <1>9, CheckIs
  <2> QED BY <1>5, <1>6, <2>1, <2>2
<1>10. CASE Refresh(p)
  <2>1. Kept(p)
    BY <1>1, <1>10, RefreshCalls
  <2>2. call[p].pc # "idle" /\ before' = before
    BY <2>1 DEF Kept, Refreshes, StampPcs, LeafPcs, NodePcs, Scanning
  <2>3. (call'[p].n = call[p].n /\ accepted' = accepted) \/ (call'[p] = Idle /\ Accept(p))
    BY <2>1 DEF Kept
  <2> QED BY <1>5, <1>6, <2>2, <2>3
<1> QED BY <1>4, <1>7, <1>8, <1>9, <1>10 DEF Enqueueing

LEMMA DequeueRefines ==
  ASSUME HistoryInv, ApartInv, Dequeueing
  PROVE  Abstract!Next \/ UNCHANGED Abstract!vars
<1>1. Calls /\ QueueInv /\ ContentInv /\ SettledInv /\ Dequeuer \in Callers /\ Dequeuer \notin Enqueuers
  BY QueueIs, Constants DEF HistoryInv, Callers
<1>2. \A p \in Callers : p # Dequeuer => Same(p)
  BY <1>1, DequeueCallIs, ReturnsFalse, ReadRootIs, TakeIs, RefreshCalls DEF Dequeueing, Goes, Kept
<1>3. Calling' = Calling
  <2>1. \A p \in Enqueuers : call'[p].n = call[p].n
    BY <1>1, <1>2 DEF Same, Callers
  <2> QED BY <2>1 DEF Calling
<1>4. CASE DequeueCall
  <2>1. DState = "idle" /\ DState' = "called" /\ settled' = returned /\ UNCHANGED <<before, accepted, dOut>>
    BY <1>1, <1>4, DequeueCallIs DEF DState
  <2> QED BY <1>3, <2>1, AbstractSteps
<1>5. CASE ReadRootDummy \/ TakeNothing
  <2>1. /\ call[Dequeuer].pc \in {"root", "take"} /\ call'[Dequeuer].pc = "idle"
        /\ dOut' = Nothing /\ settled' = {} /\ UNCHANGED <<before, accepted>>
    BY <1>1, <1>5, ReturnsFalse, IdleIs
  <2>2. DState = "called" /\ DState' = "idle"
    BY <2>1 DEF DState
  <2>3. settled = {}
    <3>1. RankInv /\ TreeInv /\ TakeInv
      BY DEF ApartInv
    <3> QED BY <1>1, <1>5, <3>1, NothingSettled, ReturnsFalse
  <2> QED BY <1>3, <2>1, <2>2, <2>3, AbstractSteps
<1>6. CASE ReadRoot
  <2>1. DState = "called" /\ DState' = "called" /\ UNCHANGED <<before, accepted, settled, dOut>>
    BY <1>1, <1>6, ReadRootIs DEF DState
  <2> QED BY <1>3, <2>1, AbstractSteps
<1>7. CASE Take
  <2>1. PICK r \in Enqueuers : r = call[Dequeuer].rank
    BY <1>1, <1>7, TakeIs
  <2> DEFINE h == spsc[r][1].item
  <2>2. /\ call[Dequeuer].pc = "take" /\ call'[Dequeuer].pc = "front" /\ dOut' = h /\ RecordGone({h})
        /\ settled' = {} /\ accepted' = accepted /\ spsc[r] # <<>> /\ Head(spsc[r]) = spsc[r][1]
    BY <1>1, <1>7, <2>1, TakeIs DEF Started
  <2>3. h \in inQueue
    BY <1>1, <2>2, FirstIs
  <2>4. before[h] = {}
    BY <2>1, <2>2 DEF ApartInv, TakeInv
  <2>5. DState = "called" /\ DState' = "done"
    BY <2>2 DEF DState
  <2> HIDE DEF h
  <2> QED BY <1>3, <2>2, <2>3, <2>4, <2>5, AbstractSteps
<1>8. CASE Refresh(Dequeuer)
  <2>1. Kept(Dequeuer)
    BY <1>1, <1>8, RefreshCalls
  <2>2. accepted' = accepted
    BY <1>1, <2>1 DEF Kept, Accept
  <2>3. UNCHANGED <<before, settled, dOut>> /\ Refreshes(Dequeuer)
        /\ (Refreshes(Dequeuer)' \/ call'[Dequeuer].pc = "idle")
    BY <2>1, IdleIs DEF Kept
  <2>4. DState = "done" /\ DState' \in {"idle", "done"}
    BY <2>3 DEF DState, Refreshes, StampPcs, LeafPcs, NodePcs, Scanning
  <2> QED BY <1>3, <2>2, <2>3, <2>4, AbstractSteps
<1> QED BY <1>4, <1>5, <1>6, <1>7, <1>8 DEF Dequeueing

LEMMA AbstractInitially == Init => Abstract!Init
<1> SUFFICES ASSUME Init PROVE Abstract!Init
  OBVIOUS
<1>1. NoCalls
  BY InitIs
<1>2. \A c \in Callers : call[c].pc = "idle" /\ call[c].n = 0
  BY <1>1, IdleIs DEF NoCalls
<1>3. call[Dequeuer].pc = "idle" /\ \A p \in Enqueuers : call[p].n = 0
  BY <1>2 DEF Callers
<1> QED BY <1>1, <1>3 DEF NoCalls, Abstract!Init, Nothing, Abstract!Nothing

LEMMA AbstractStutters ==
  ASSUME UNCHANGED <<vars, class>>
  PROVE  UNCHANGED Abstract!vars
<1>1. call' = call /\ UNCHANGED <<before, accepted, settled, dOut>>
  BY DEF vars
<1>2. Calling' = Calling /\ DState' = DState
  BY <1>1 DEF Calling, DState
<1> QED BY <1>1, <1>2, AbstractSteps

(* ImplementsApart: until an enqueue and a dequeue refresh one rank at once, the six classes  *)
(* are linearizable: each step of theirs is a step of MpscQueue or changes nothing there.     *)
THEOREM LinearizableApart == Spec => ImplementsApart
<1> DEFINE Inv == BaseInv /\ (~raced => ApartInv)
<1>1. Inv /\ [Next]_<<vars, class>> /\ ~raced => Abstract!Next \/ UNCHANGED Abstract!vars
  <2> SUFFICES ASSUME Inv, [Next]_<<vars, class>>, ~raced
               PROVE  Abstract!Next \/ UNCHANGED Abstract!vars
    OBVIOUS
  <2>1. HistoryInv /\ QueueInv /\ ContentInv /\ BegunInv /\ ApartInv
    BY DEF BaseInv, HistoryInv, WrittenInv
  <2>2. CASE UNCHANGED <<vars, class>>
    BY <2>2, AbstractStutters
  <2>3. CASE Next
    BY <2>1, <2>3, StepIs, EnqueueRefines, DequeueRefines
  <2> QED BY <2>2, <2>3
<1>2. Inv /\ [Next]_<<vars, class>> => [~raced => [Abstract!Next]_(Abstract!vars)]_vars
  BY <1>1
<1> HIDE DEF Inv
<1>3. Spec => []Inv
  BY ApartInductive DEF Inv
<1> QED BY <1>2, <1>3, AbstractInitially, PTL DEF Spec, ImplementsApart

--------------------------------------------------------------------------------
(* Wait-freedom: how many steps of its own a call can still take. *)

(* The nodes from a node up to the root are the node and those from its parent up. *)
LEMMA UpParent ==
  ASSUME NEW i \in Nodes, i # 0
  PROVE  Up(i) = Up(Parent(i)) \cup {i} /\ i \notin Up(Parent(i))
<1>1. Parent(i) \in Nodes /\ Parent(i) < i /\ i \in Nat /\ Parent(i) \in Nat
  BY ParentIs, Constants
<1>2. Rising(Up(i)) /\ i \in Up(i) /\ Up(i) \in SUBSET Nodes
  BY UpIs
<1>3. Up(Parent(i)) \subseteq Up(i)
  <2>1. Parent(i) \in Up(i)
    BY <1>2 DEF Rising
  <2> QED BY <1>1, <1>2, <2>1 DEF Up
<1>4. \A j \in Up(Parent(i)) : j <= Parent(i) /\ j \in Nodes
  BY <1>1, UpIs
<1>5. i \notin Up(Parent(i))
  BY <1>1, <1>4
<1> QED BY <1>2, <1>3, <1>5, UpStep

LEMMA UpCounts ==
  ASSUME NEW i \in Nodes
  PROVE  IsFiniteSet(Up(i)) /\ Cardinality(Up(i)) \in Nat
<1>1. IsFiniteSet(Nodes)
  BY FS_Interval, LTTreeAssumption DEF Nodes, LTTreeAssumption
<1>2. IsFiniteSet(Up(i))
  BY <1>1, UpIs, FS_Subset
<1> QED BY <1>2, FS_CardinalityType

(* The recursive definition of PathLength has a solution: it counts these nodes. *)
LEMMA PathLengthIs ==
  ASSUME NEW i \in Nodes
  PROVE  PathLength[i] = IF i = 0 THEN 1 ELSE 1 + PathLength[Parent(i)]
<1> DEFINE Is(f) == f = [k \in Nodes |-> IF k = 0 THEN 1 ELSE 1 + f[Parent(k)]]
           g == [k \in Nodes |-> Cardinality(Up(k))]
<1>1. ASSUME NEW k \in Nodes PROVE g[k] = IF k = 0 THEN 1 ELSE 1 + g[Parent(k)]
  <2>1. CASE k = 0
    <3>1. Up(k) = {k}
      <4>1. \A j \in Up(k) : j \in Nat /\ j <= 0
        BY <2>1, UpIs, Constants
      <4> QED BY <2>1, <4>1, UpIs
    <3>2. Cardinality(Up(k)) = 1
      BY <3>1, FS_Singleton
    <3> QED BY <2>1, <3>2
  <2>2. CASE k # 0
    <3>1. Parent(k) \in Nodes
      BY <2>2, ParentIs
    <3>2. IsFiniteSet(Up(Parent(k))) /\ Cardinality(Up(Parent(k))) \in Nat
      BY <3>1, UpCounts
    <3>3. Cardinality(Up(Parent(k)) \cup {k}) = Cardinality(Up(Parent(k))) + 1
      BY <2>2, <3>2, UpParent, FS_AddElement
    <3>4. Up(k) = Up(Parent(k)) \cup {k}
      BY <2>2, UpParent
    <3>5. Cardinality(Up(k)) = 1 + Cardinality(Up(Parent(k)))
      BY <3>2, <3>3, <3>4
    <3> QED BY <2>2, <3>1, <3>5
  <2> QED BY <2>1, <2>2
<1>2. Is(g)
  BY <1>1
<1>3. Is(CHOOSE f : Is(f))
  <2> HIDE DEF Is
  <2> QED BY <1>2
<1>4. PathLength = CHOOSE f : Is(f)
  BY DEF PathLength
<1> HIDE DEF g
<1>5. Is(PathLength)
  BY <1>3, <1>4
<1> QED BY <1>5

LEMMA PathLengths == \A i \in Nodes : PathLength[i] \in Nat \ {0}
<1> DEFINE S == {i \in Nodes : PathLength[i] \notin Nat \ {0}}
<1> SUFFICES ASSUME S # {} PROVE FALSE
  OBVIOUS
<1>1. S \subseteq Nat
  BY Constants
<1>2. PICK m \in S : \A k \in S : <<k, m>> \notin OpToRel(<, Nat)
  BY <1>1, NatLessThanWellFounded, WFMin
<1>3. m \in Nodes /\ m \in Nat /\ PathLength[m] = IF m = 0 THEN 1 ELSE 1 + PathLength[Parent(m)]
  BY <1>1, PathLengthIs
<1>4. m # 0
  BY <1>3
<1>5. Parent(m) \in Nodes /\ Parent(m) < m /\ Parent(m) \in Nat
  BY <1>3, <1>4, ParentIs, Constants
<1>6. Parent(m) \notin S
  BY <1>2, <1>3, <1>5 DEF OpToRel
<1> QED BY <1>3, <1>4, <1>5, <1>6

(* The deeper a node, the larger its index. *)
LEMMA PathGrows ==
  ASSUME NEW i \in Nodes, NEW j \in Nodes, i <= j
  PROVE  PathLength[i] <= PathLength[j]
<1> DEFINE S == {k \in Nodes : \E l \in Nodes : l <= k /\ ~ (PathLength[l] <= PathLength[k])}
<1> SUFFICES ASSUME S # {} PROVE FALSE
  OBVIOUS
<1>1. S \subseteq Nat
  BY Constants
<1>2. PICK m \in S : \A k \in S : <<k, m>> \notin OpToRel(<, Nat)
  BY <1>1, NatLessThanWellFounded, WFMin
<1>3. PICK l \in Nodes : l <= m /\ ~ (PathLength[l] <= PathLength[m])
  OBVIOUS
<1>4. /\ m \in Nodes /\ m \in Nat /\ l \in Nat /\ PathLength[m] \in Nat \ {0} /\ PathLength[l] \in Nat \ {0}
      /\ PathLength[l] = IF l = 0 THEN 1 ELSE 1 + PathLength[Parent(l)]
      /\ PathLength[m] = IF m = 0 THEN 1 ELSE 1 + PathLength[Parent(m)]
  BY <1>1, PathLengthIs, PathLengths, Constants
<1>5. l # 0 /\ m # 0
  BY <1>3, <1>4
<1>6. /\ Parent(l) \in Nodes /\ Parent(m) \in Nodes /\ Parent(m) < m /\ Parent(m) \in Nat
      /\ PathLength[Parent(l)] \in Nat /\ PathLength[Parent(m)] \in Nat
  BY <1>4, <1>5, ParentIs, PathLengths, Constants
<1>7. Parent(l) <= Parent(m)
  BY <1>3, <1>4 DEF Parent
<1>8. ~ (PathLength[Parent(l)] <= PathLength[Parent(m)])
  BY <1>3, <1>4, <1>5, <1>6
<1>9. Parent(m) \in S
  BY <1>6, <1>7, <1>8
<1> QED BY <1>2, <1>4, <1>6, <1>9 DEF OpToRel

LEMMA ClimbIs ==
  ASSUME NEW p \in Ranks
  PROVE  /\ Climb(p) \in Nat /\ Climb(p) + 12 <= 12 * Deepest /\ Deepest \in Nat
         /\ Parent(Leaf(p)) \in Nodes /\ Climb(p) = 12 * PathLength[Parent(Leaf(p))]
<1>1. Leaf(p) \in Nodes /\ Leaf(p) # 0 /\ 2 * Processes - 1 \in Nodes /\ Leaf(p) <= 2 * Processes - 1
  BY LTTreeAssumption DEF LTTreeAssumption, Nodes, Leaf, Ranks
<1>2. Parent(Leaf(p)) \in Nodes /\ PathLength[Leaf(p)] = 1 + PathLength[Parent(Leaf(p))]
  BY <1>1, ParentIs, PathLengthIs
<1>3. PathLength[Leaf(p)] <= Deepest
  BY <1>1, PathGrows DEF Deepest
<1>4. PathLength[Leaf(p)] \in Nat \ {0} /\ PathLength[Parent(Leaf(p))] \in Nat /\ Deepest \in Nat
  BY <1>1, <1>2, PathLengths DEF Deepest
<1> QED BY <1>2, <1>3, <1>4 DEF Climb

LEMMA StepsAre ==
  ASSUME NEW l, l.pc \in Pcs, l.pc \notin {"idle", "root"} => l.rank \in Ranks, l.index \in Nodes, l.try \in 1..2
  PROVE  StepsOf(l) \in Nat /\ (StepsOf(l) = 0 <=> l.pc = "idle")
<1>1. PathLength[l.index] \in Nat \ {0}
  BY PathLengths
<1>2. 12 * (PathLength[l.index] - 1) \in Nat /\ Deepest \in Nat
  <2>1. 2 * Processes - 1 \in Nodes
    BY LTTreeAssumption DEF LTTreeAssumption, Nodes
  <2> QED BY <1>1, <2>1, PathLengths DEF Deepest
<1>3. l.pc \notin {"idle", "root"} => Climb(l.rank) \in Nat
  BY ClimbIs
<1> HIDE DEF Climb
<1> QED BY <1>2, <1>3 DEF StepsOf, Pcs

(* A caller that another one's step moves along at most in fresh has the same steps left. *)
LEMMA SameSteps ==
  ASSUME NEW b \in Callers, Same(b)
  PROVE  StepsLeft(b)' = StepsLeft(b)
BY DEF Same, StepsLeft, StepsOf, Climb, Leaf, Left

LEMMA NextChild ==
  ASSUME NEW l, More(l), l.index \in Nodes
  PROVE  Right(l.index) # Left(l.index)
BY Constants DEF Left, Right

(* Each step of a refresh leaves fewer. *)
LEMMA RefreshSteps ==
  ASSUME Calls, NEW c \in Callers, Refresh(c)
  PROVE  StepsLeft(c)' < StepsLeft(c)
<1> DEFINE l == call[c]
           m == call'[c]
<1>1. /\ CallInv(c) /\ l \in Locals /\ l.rank \in Enqueuers /\ l.rank \in Ranks /\ l.index \in Nodes
      /\ l.try \in 1..2
  <2>1. CallInv(c) /\ l \in Locals /\ Working(c)
    BY CallerIs, RefreshCalls DEF Kept, Refreshes, Working, StampPcs, LeafPcs, NodePcs, Scanning
  <2> QED BY <2>1, Constants DEF CallInv, Locals
<1>2. /\ PathLength[l.index] \in Nat \ {0}
      /\ l.index # 0 => /\ PathLength[Parent(l.index)] = PathLength[l.index] - 1
                        /\ PathLength[Parent(l.index)] \in Nat
  <2>1. PathLength[l.index] \in Nat \ {0} /\ PathLength[l.index] = IF l.index = 0 THEN 1 ELSE 1 + PathLength[Parent(l.index)]
    BY <1>1, PathLengths, PathLengthIs
  <2>2. l.index # 0 => PathLength[Parent(l.index)] \in Nat
    BY <1>1, ParentIs, PathLengths
  <2> QED BY <2>1, <2>2
<1>3. /\ Climb(l.rank) \in Nat /\ Climb(l.rank) = 12 * PathLength[Parent(Leaf(l.rank))]
      /\ PathLength[Parent(Leaf(l.rank))] \in Nat
  BY <1>1, ClimbIs, PathLengths
<1>4. Succeeds(c) \/ l.try = 1
  BY <1>1 DEF Succeeds
<1>5. StepsLeft(c) = StepsOf(l) /\ StepsLeft(c)' = StepsOf(m)
  BY DEF StepsLeft, StepsOf, Climb, Leaf, Left
<1>6. CASE ReadFront(c) \/ ReadStamp(c) \/ ReadLeafStamp(c) \/ ReadLeaf(c)
  <2>1. \/ l.pc = "front" /\ m.pc = "stamp"
        \/ l.pc = "stamp" /\ m.pc = "swapStamp"
        \/ l.pc = "leafStamp" /\ m.pc = "leaf"
        \/ l.pc = "leaf" /\ m.pc = "swapLeaf"
    BY <1>6, ReadFrontIs, ReadStampIs, ReadLeafStampIs, ReadLeafIs
       DEF ReadFront, ReadStamp, ReadLeafStamp, ReadLeaf, Advances
  <2>2. m.rank = l.rank /\ m.try = l.try
    BY <1>6, ReadFrontIs, ReadStampIs, ReadLeafStampIs, ReadLeafIs DEF Advances
  <2> HIDE DEF l, m
  <2> QED BY <1>1, <1>3, <1>5, <2>1, <2>2 DEF StepsOf
<1>7. CASE SwapStamp(c)
  <2>1. l.pc = "swapStamp"
    BY <1>7 DEF SwapStamp
  <2>2. /\ Succeeds(c) => m.pc = "leafStamp" /\ m.try = 1
        /\ ~Succeeds(c) => m.pc = "front" /\ m.try = 2
        /\ m.rank = l.rank
    BY <1>7, SwapStampIs DEF Started
  <2> HIDE DEF l, m
  <2> QED BY <1>1, <1>3, <1>4, <1>5, <2>1, <2>2 DEF StepsOf
<1>8. CASE SwapLeaf(c)
  <2>1. l.pc = "swapLeaf" /\ l.index = Leaf(l.rank)
    BY <1>8, SwapLeafIs DEF SwapLeaf
  <2>2. /\ Succeeds(c) => m.pc = "node" /\ m.try = 1 /\ m.index = Parent(Leaf(l.rank))
        /\ ~Succeeds(c) => m.pc = "leafStamp" /\ m.try = 2
        /\ m.rank = l.rank
    BY <1>8, SwapLeafIs DEF Started
  <2> HIDE DEF l, m
  <2> QED BY <1>1, <1>3, <1>4, <1>5, <2>1, <2>2 DEF StepsOf
<1>9. CASE ReadNode(c)
  <2>1. l.pc = "node" /\ m.pc = "child" /\ m.try = l.try /\ m.index = l.index
    BY <1>9, ReadNodeIs DEF ReadNode, Advances
  <2> HIDE DEF l, m
  <2> QED BY <1>1, <1>2, <1>5, <2>1 DEF StepsOf
<1>10. CASE ReadChild(c)
  <2>1. l.pc = "child" /\ m.try = l.try /\ m.index = l.index
    BY <1>10, ReadChildIs DEF ReadChild, Advances, Continues
  <2>2. \/ m.pc = "childStamp" /\ m.child = l.child
        \/ m.pc = "child" /\ m.child = Right(l.index) /\ l.child = Left(l.index) /\ Right(l.index) # Left(l.index)
        \/ m.pc = "swapNode"
    BY <1>1, <1>10, ReadChildIs, NextChild DEF Advances, Continues, More
  <2> HIDE DEF l, m
  <2> QED BY <1>1, <1>2, <1>5, <2>1, <2>2 DEF StepsOf
<1>11. CASE ReadChildStamp(c)
  <2>1. l.pc = "childStamp" /\ m.try = l.try /\ m.index = l.index
    BY <1>11, ReadChildStampIs DEF ReadChildStamp, Advances, Continues
  <2>2. \/ m.pc = "child" /\ m.child = Right(l.index) /\ l.child = Left(l.index) /\ Right(l.index) # Left(l.index)
        \/ m.pc = "swapNode"
    BY <1>1, <1>11, ReadChildStampIs, NextChild DEF Advances, Continues, More
  <2> HIDE DEF l, m
  <2> QED BY <1>1, <1>2, <1>5, <2>1, <2>2 DEF StepsOf
<1>12. CASE SwapNode(c)
  <2>1. l.pc = "swapNode"
    BY <1>12 DEF SwapNode
  <2>2. \/ ~Succeeds(c) /\ m.pc = "node" /\ m.try = 2 /\ m.index = l.index
        \/ m.pc = "idle"
        \/ m.pc = "node" /\ m.try = 1 /\ m.index = Parent(l.index) /\ l.index # 0
    BY <1>12, SwapNodeIs, IdleIs DEF Started
  <2> HIDE DEF l, m
  <2> QED BY <1>1, <1>2, <1>4, <1>5, <2>1, <2>2 DEF StepsOf
<1> QED BY <1>6, <1>7, <1>8, <1>9, <1>10, <1>11, <1>12
       DEF Refresh, RefreshTimestamp, RefreshSelfNode, RefreshNode

LEMMA EnqueueSteps ==
  ASSUME Calls, NEW p \in Enqueuers, Enqueueing(p)
  PROVE  /\ call[p].pc = "idle" => StepsLeft(p)' <= MostSteps(p)
         /\ call[p].pc # "idle" => StepsLeft(p)' < StepsLeft(p)
         /\ \A c \in Callers : c # p => StepsLeft(c)' = StepsLeft(c)
<1> DEFINE l == call[p]
           m == call'[p]
<1>2. p \in Callers /\ p # Dequeuer /\ p \in Ranks /\ (l.pc # "idle" => l.rank = p)
  BY CallerIs, Constants DEF CallInv, Callers
<1>3. Climb(p) \in Nat
  BY <1>2, ClimbIs
<1>4. StepsLeft(p) = StepsOf(l) /\ StepsLeft(p)' = StepsOf(m)
  BY DEF StepsLeft, StepsOf, Climb, Leaf, Left
<1>5. \A c \in Callers : c # p => Same(c)
  BY <1>2, CallIs, TimestampTaken, PutIs, FullIs, CheckIs, RefreshCalls DEF Enqueueing, Goes, Kept
<1>6. CASE Refresh(p)
  <2>1. l.pc # "idle"
    BY <1>2, <1>6, RefreshCalls DEF Kept, Refreshes, StampPcs, LeafPcs, NodePcs, Scanning
  <2> QED BY <1>2, <1>5, <1>6, <2>1, RefreshSteps, SameSteps
<1>7. CASE \E n \in 1..MaxBatch : EnqueueCall(p, n) \/ Node!EnqueueCounts(p, n)
  <2>1. l.pc = "idle" /\ m.pc \in {"count", "put"} /\ m.rank = p
    BY <1>7, CallIs
  <2> HIDE DEF l, m
  <2>2. StepsOf(m) <= 15 + Climb(p)
    BY <1>3, <2>1 DEF StepsOf
  <2> QED BY <1>2, <1>4, <1>5, <2>1, <2>2, SameSteps DEF MostSteps, l
<1>8. CASE Node!TakeTimestamp(p) \/ Put(p, "check") \/ Put(p, "front") \/ EnqueueFull(p) \/ CheckFront(p)
  <2>1. \/ l.pc = "count" /\ m.pc = "put" /\ m.rank = p
        \/ l.pc = "put" /\ m.pc = "check" /\ m.rank = p
        \/ l.pc = "put" /\ m.pc = "front" /\ m.rank = p /\ m.try = l.try
        \/ l.pc = "put" /\ m.pc = "idle"
        \/ l.pc = "check" /\ m.pc = "front" /\ m.rank = p /\ m.try = l.try
        \/ l.pc = "check" /\ m.pc = "idle"
    BY <1>2, <1>8, TimestampTaken, PutIs, FullIs, CheckIs, IdleIs
  <2>2. l.pc # "idle" /\ l.rank = p
    BY <1>2, <2>1
  <2>3. l.try \in 1..2
    BY <1>2, CallerIs DEF Locals
  <2> HIDE DEF l, m
  <2>4. StepsOf(m) < StepsOf(l)
    BY <1>3, <2>1, <2>2, <2>3 DEF StepsOf
  <2> QED BY <1>4, <1>5, <2>2, <2>4, SameSteps DEF l
<1> QED BY <1>6, <1>7, <1>8 DEF Enqueueing

LEMMA DequeueSteps ==
  ASSUME Calls, Dequeueing
  PROVE  /\ call[Dequeuer].pc = "idle" => StepsLeft(Dequeuer)' <= MostSteps(Dequeuer)
         /\ call[Dequeuer].pc # "idle" => StepsLeft(Dequeuer)' < StepsLeft(Dequeuer)
         /\ \A c \in Callers : c # Dequeuer => StepsLeft(c)' = StepsLeft(c)
<1> DEFINE l == call[Dequeuer]
           m == call'[Dequeuer]
<1>1. Dequeuer \in Callers /\ Dequeuer \in Ranks /\ CallInv(Dequeuer) /\ Deepest \in Nat
  <2>1. Dequeuer \in Callers /\ Dequeuer \in Ranks
    BY Constants DEF Callers
  <2> QED BY <2>1, CallerIs, ClimbIs
<1>2. StepsLeft(Dequeuer) = StepsOf(l) /\ StepsLeft(Dequeuer)' = StepsOf(m)
  BY DEF StepsLeft, StepsOf, Climb, Leaf, Left
<1>3. \A c \in Callers : c # Dequeuer => Same(c)
  BY <1>1, DequeueCallIs, ReturnsFalse, ReadRootIs, TakeIs, RefreshCalls DEF Dequeueing, Goes, Kept
<1>4. \A c \in Callers : c # Dequeuer => StepsLeft(c)' = StepsLeft(c)
  BY <1>3, SameSteps
<1>5. CASE Refresh(Dequeuer)
  <2>1. l.pc # "idle"
    BY <1>1, <1>5, RefreshCalls DEF Kept, Refreshes, StampPcs, LeafPcs, NodePcs, Scanning
  <2> QED BY <1>1, <1>4, <1>5, <2>1, RefreshSteps
<1>6. CASE DequeueCall
  <2>1. l.pc = "idle" /\ m.pc = "root"
    BY <1>6, DequeueCallIs
  <2> HIDE DEF l, m
  <2>2. StepsOf(m) <= 2 + 12 * Deepest
    BY <1>1, <2>1 DEF StepsOf
  <2> QED BY <1>2, <1>4, <2>1, <2>2 DEF MostSteps, l
<1>7. CASE ReadRootDummy \/ TakeNothing
  <2>1. l.pc \in {"root", "take"} /\ m.pc = "idle"
    BY <1>7, ReturnsFalse, IdleIs
  <2>2. l.pc = "take" => l.rank \in Ranks
    BY <1>1, <2>1, Constants DEF CallInv
  <2>3. l.pc = "take" => Climb(l.rank) \in Nat
    BY <2>2, ClimbIs
  <2> HIDE DEF l, m
  <2>4. StepsOf(m) < StepsOf(l)
    BY <1>1, <2>1, <2>3 DEF StepsOf
  <2> QED BY <1>2, <1>4, <2>1, <2>4 DEF l
<1>8. CASE ReadRoot
  <2>1. l.pc = "root" /\ m.pc = "take" /\ m.rank \in Ranks
    BY <1>8, ReadRootIs, Constants
  <2>2. Climb(m.rank) \in Nat /\ Climb(m.rank) + 12 <= 12 * Deepest
    BY <2>1, ClimbIs
  <2> HIDE DEF l, m
  <2>3. StepsOf(m) < StepsOf(l)
    BY <1>1, <2>1, <2>2 DEF StepsOf
  <2> QED BY <1>2, <1>4, <2>1, <2>3 DEF l
<1>9. CASE Take
  <2>1. l.pc = "take" /\ m.pc = "front" /\ m.rank = l.rank /\ l.rank \in Ranks /\ m.try = 1
    BY <1>1, <1>9, TakeIs, Constants DEF Started
  <2>2. Climb(l.rank) \in Nat
    BY <2>1, ClimbIs
  <2> HIDE DEF l, m
  <2>3. StepsOf(m) < StepsOf(l)
    BY <2>1, <2>2 DEF StepsOf
  <2> QED BY <1>2, <1>4, <2>1, <2>3 DEF l
<1> QED BY <1>5, <1>6, <1>7, <1>8, <1>9 DEF Dequeueing

LEMMA StepsLeftAre ==
  ASSUME Calls, NEW c \in Callers
  PROVE  /\ StepsLeft(c) \in Nat /\ (StepsLeft(c) = 0 <=> call[c].pc = "idle")
         /\ MostSteps(c) \in Nat
<1>1. /\ CallInv(c) /\ call[c] \in Locals /\ c \in Ranks /\ call[c].pc \in Pcs
      /\ call[c].index \in Nodes /\ call[c].try \in 1..2
  BY CallerIs, Constants DEF Callers, Locals
<1>2. call[c].pc \notin {"idle", "root"} => call[c].rank \in Ranks
  BY <1>1, Constants DEF CallInv, Working, Pcs, StampPcs, LeafPcs, NodePcs, Scanning
<1>3. StepsOf(call[c]) \in Nat /\ (StepsOf(call[c]) = 0 <=> call[c].pc = "idle")
  BY <1>1, <1>2, StepsAre
<1>4. MostSteps(c) \in Nat
  BY <1>1, ClimbIs DEF MostSteps
<1> QED BY <1>3, <1>4 DEF StepsLeft

(* A step of one caller leaves fewer to it, and as many to the others. *)
LEMMA StepsStep ==
  ASSUME Calls, Next, NEW c \in Callers
  PROVE  /\ StepsLeft(c)' <= IF call[c].pc = "idle" THEN MostSteps(c) ELSE StepsLeft(c)
         /\ (IF c = Dequeuer THEN DequeuerStep ELSE EnqueuerStep(c)) => StepsLeft(c)' < StepsLeft(c)
<1>1. /\ StepsLeft(c) \in Nat /\ MostSteps(c) \in Nat
      /\ call[c].pc = "idle" => StepsLeft(c) <= MostSteps(c)
  BY StepsLeftAre
<1>2. StepsLeft(c)' \in Nat
  <2>1. Calls'
    BY StepIs, CallsStep
  <2>2. /\ CallInv(c)' /\ call'[c] \in Locals /\ call'[c].pc \in Pcs /\ call'[c].index \in Nodes
        /\ call'[c].try \in 1..2
    <3>1. CallInv(c)' /\ call' \in [Callers -> Locals]
      BY <2>1 DEF Calls, TypeInv, Callers, Locals, Pcs, RanksOrDummy, Timestamps, Nodes, MAX, DUMMY
    <3> QED BY <3>1 DEF Locals
  <2>3. call'[c].pc \notin {"idle", "root"} => call'[c].rank \in Ranks
    BY <2>2, Constants DEF CallInv, Working, Pcs, StampPcs, LeafPcs, NodePcs, Scanning, Callers
  <2>4. StepsOf(call'[c]) \in Nat
    BY <2>2, <2>3, StepsAre
  <2> QED BY <2>4 DEF StepsLeft, StepsOf, Climb, Leaf, Left
<1>3. /\ call[c].pc = "idle" => StepsLeft(c)' <= MostSteps(c)
      /\ call[c].pc # "idle" => StepsLeft(c)' <= StepsLeft(c)
  <2>1. CASE Dequeueing
    BY <1>1, <1>2, <2>1, DequeueSteps
  <2>2. ASSUME NEW p \in Enqueuers, Enqueueing(p)
        PROVE  /\ call[c].pc = "idle" => StepsLeft(c)' <= MostSteps(c)
               /\ call[c].pc # "idle" => StepsLeft(c)' <= StepsLeft(c)
    BY <1>1, <1>2, <2>2, EnqueueSteps
  <2> QED BY <2>1, <2>2, StepIs
<1>4. ASSUME c = Dequeuer, DequeuerStep PROVE StepsLeft(c)' < StepsLeft(c)
  BY <1>4, DequeuerStepIs, DequeueSteps
<1>5. ASSUME c # Dequeuer, EnqueuerStep(c) PROVE StepsLeft(c)' < StepsLeft(c)
  <2>1. c \in Enqueuers
    BY <1>5 DEF Callers
  <2>2. Enqueueing(c) /\ Proceeding(c)
    BY <1>5, <2>1, EnqueuerStepIs
  <2> QED BY <2>1, <2>2, ProceedingIs, EnqueueSteps
<1> QED BY <1>3, <1>4, <1>5

(***************************************************************************)
(* Wait-freedom: from its call on, an enqueue has at most 15 + Climb(p)    *)
(* steps of its own to take and a dequeue at most 2 + 12 * Deepest,        *)
(* whatever the other ranks do, and every step it takes is one of them.    *)
(***************************************************************************)
THEOREM WaitFree == Spec => StepsBounded
<1> DEFINE Counted == \A c \in Callers :
                        StepsLeft(c) \in Nat /\ (StepsLeft(c) = 0 <=> call[c].pc = "idle")
           Fewer == \A c \in Callers :
                      /\ StepsLeft(c)' <= IF call[c].pc = "idle" THEN MostSteps(c) ELSE StepsLeft(c)
                      /\ (IF c = Dequeuer THEN DequeuerStep ELSE EnqueuerStep(c)) =>
                           StepsLeft(c)' < StepsLeft(c)
<1>1. Calls => Counted
  BY StepsLeftAre
<1>2. Calls /\ [Next]_<<vars, class>> => [Fewer]_vars
  BY StepsStep DEF vars
<1> HIDE DEF Counted, Fewer
<1>3. BaseInv => Calls
  BY QueueIs DEF BaseInv, HistoryInv
<1>4. Spec => []Calls
  BY <1>3, ApartInductive, PTL
<1>5. Spec => []Counted /\ [][Fewer]_vars
  BY <1>1, <1>2, <1>4, PTL DEF Spec
<1> QED BY <1>5 DEF Counted, Fewer, StepsBounded

--------------------------------------------------------------------------------
(* What the races leave true. *)

LEMMA TakesFirst ==
  ASSUME HistoryInv, Take
  PROVE  took = {dOut'} /\ \A x \in inQueue : x[1] = dOut'[1] => dOut'[2] <= x[2]
<1>1. QueueInv /\ ContentInv /\ Calls
  BY QueueIs DEF HistoryInv
<1>2. PICK r \in Enqueuers : r = call[Dequeuer].rank
  BY <1>1, TakeIs
<1> DEFINE h == spsc[r][1].item
<1>3. spsc[r] # <<>> /\ Head(spsc[r]) = spsc[r][1] /\ dOut' = h /\ RecordGone({h})
  BY <1>1, <1>2, TakeIs
<1>4. /\ h \in inQueue /\ h[1] = r /\ h[2] \in Nat /\ h[2] <= Granted(r) /\ 1 \in 1..Len(spsc[r])
      /\ SpscInv(r) /\ accepted[r] \in Nat
  BY <1>1, <1>3, FirstIs, QueueIs
<1>5. took = {h}
  <2> HIDE DEF h
  <2> QED BY <1>3, <1>4, RecordGoneIs DEF took, inQueue
<1>6. ASSUME NEW x \in inQueue, x[1] = r PROVE h[2] <= x[2]
  <2>1. PICK t \in Timestamps : Stored(x, t) \/ Coming(x, t)
    BY <1>1, <1>6 DEF ContentInv
  <2>2. CASE Stored(x, t)
    <3>1. PICK i \in 1..Len(spsc[r]) : spsc[r][i].item = x
      BY <1>6, <2>2 DEF Stored
    <3>2. i = 1 \/ (1 < i /\ spsc[r][i].item[2] \in Nat)
      BY <1>1, <3>1, EntryIs
    <3>3. 1 < i => h[2] < spsc[r][i].item[2]
      BY <1>4, <3>1 DEF SpscInv
    <3> HIDE DEF h
    <3> QED BY <1>4, <3>1, <3>2, <3>3 DEF h
  <2>3. CASE Coming(x, t)
    <3>1. Putting(r) /\ x \in Batch(r, call[r].n)
      BY <1>6, <2>3 DEF Coming
    <3>2. Granted(r) = accepted[r]
      BY <1>4, <3>1 DEF Granted, Putting, Working, StampPcs, LeafPcs, NodePcs, Scanning
    <3>3. PICK i \in 1..call[r].n : x = <<r, accepted[r] + i>>
      BY <3>1 DEF Batch
    <3>4. call[r].n \in Nat
      BY <1>1, CallerIs DEF Callers, Locals
    <3>5. x[2] = accepted[r] + i /\ i \in Nat
      BY <3>3, <3>4
    <3> HIDE DEF h
    <3> QED BY <1>4, <3>2, <3>5
  <2> QED BY <2>1, <2>2, <2>3
<1> QED BY <1>3, <1>4, <1>5, <1>6

(* Dequeue and a refused enqueue are the only ones that remove elements. *)
LEMMA GoneBy ==
  ASSUME Calls, (\E p \in Enqueuers : Enqueueing(p)) \/ Dequeueing, ~Take, NEW x \in took
  PROVE  EnqueueFull(x[1])
<1>1. x \in inQueue /\ x \notin inQueue'
  BY DEF took, inQueue
<1>2. ~Dequeueing
  <2>1. Dequeueing => before' = before
    BY DequeueCallIs, ReturnsFalse, ReadRootIs, RefreshCalls DEF Dequeueing, Kept, Callers
  <2> QED BY <1>1, <2>1 DEF inQueue
<1>3. PICK p \in Enqueuers : Enqueueing(p)
  BY <1>2
<1>4. EnqueueFull(p)
  <2>1. ASSUME NEW n \in 1..MaxBatch, EnqueueCall(p, n) \/ Node!EnqueueCounts(p, n)
        PROVE  FALSE
    <3>1. RecordCall(Batch(p, n))
      BY <2>1, CallIs
    <3>2. inQueue' = inQueue \cup Batch(p, n)
      BY <3>1 DEF RecordCall, inQueue
    <3> QED BY <1>1, <3>2
  <2>2. Node!TakeTimestamp(p) \/ Put(p, "check") \/ Put(p, "front") \/ CheckFront(p) \/ Refresh(p)
          => before' = before
    BY TimestampTaken, PutIs, CheckIs, RefreshCalls DEF Kept, Callers
  <2> QED BY <1>1, <1>3, <2>1, <2>2 DEF Enqueueing, inQueue
<1>5. x \in Batch(p, call[p].n)
  BY <1>1, <1>4, FullIs, RecordGoneIs
<1>6. x[1] = p
  BY <1>5 DEF Batch
<1> QED BY <1>4, <1>6

(***************************************************************************)
(* Also after a race elements leave the queue only through dequeue, one at *)
(* a time and those of a rank in their order, or with a refused enqueue.   *)
(***************************************************************************)
THEOREM OnceInOrder == Spec => OncePerRankInOrder
<1>1. BaseInv /\ [Next]_<<vars, class>> =>
        [/\ Take => took = {dOut'} /\ \A x \in inQueue : x[1] = dOut'[1] => dOut'[2] <= x[2]
         /\ \A x \in took : Take \/ EnqueueFull(x[1])]_vars
  <2> SUFFICES ASSUME BaseInv, Next
               PROVE  /\ Take => took = {dOut'} /\ \A x \in inQueue : x[1] = dOut'[1] => dOut'[2] <= x[2]
                      /\ \A x \in took : Take \/ EnqueueFull(x[1])
    BY DEF vars
  <2>1. HistoryInv /\ Calls
    BY QueueIs DEF BaseInv, HistoryInv
  <2> QED BY <2>1, StepIs, TakesFirst, GoneBy
<1> QED BY <1>1, ApartInductive, PTL DEF Spec, OncePerRankInOrder

================================================================================
