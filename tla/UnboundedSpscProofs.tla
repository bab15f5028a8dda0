-------------------------- MODULE UnboundedSpscProofs --------------------------
(***************************************************************************)
(* Proofs about class UnboundedSpsc, for every number of elements: nodes   *)
(* are filled before they are reached, none is retired that is still read, *)
(* a front read finds a front, and the class implements SpscQueue.         *)
(***************************************************************************)
EXTENDS UnboundedSpsc, SequenceTheorems, TLAPS

(* The enqueuer is about to append node `last', or to look for the front. *)
Appending == ePc \in {"last", "fill", "link", "publish"}
Looking == ePc \in {"front", "frontLast", "announce", "recheck", "help", "value"}

(* A dequeue has moved `first' past dTmp, and has not disposed of dTmp yet. *)
Disposing == dPc \in {"announced", "keep"}

(* The dequeuer knows an element at the front, which it is about to take. *)
Taking == dPc \in {"read", "help", "next", "advance"}

(* Each copy of a cursor is between the cursors, and one node is behind them. *)
CursorInv ==
  /\ last = added
  /\ first <= lastCached /\ lastCached <= last
  /\ Appending => added < MaxItems

(* Every node in front of `last' is filled and linked to the next one. *)
FilledInv ==
  /\ \A n \in Nodes : n < last => value[n] = n /\ next[n] = n + 1
  /\ ePc \in {"link", "publish"} => value[last] = last
  /\ ePc = "publish" => next[last] = last + 1

(* The locals of the enqueuer. *)
EnqueuerInv ==
  /\ Appending => eOp = "enqueue"
  /\ Looking => eOp = "front"
  /\ ePc \in {"fill", "link", "publish"} => eTmp = last

(* The locals of the dequeuer; `help' has the element taken last, or being taken. *)
DequeuerInv ==
  /\ Taking \/ dPc = "last" => dTmp = first
  /\ Taking => first < lastCached
  /\ dPc \in {"help", "next", "advance"} => dOp = "dequeue" /\ dOut = first
  /\ dPc = "advance" => dNext = first + 1
  /\ Disposing => dOp = "dequeue" /\ dOut = dTmp /\ first = dTmp + 1
  /\ help = IF dPc \in {"next", "advance"} THEN first ELSE first - 1
  /\ dPc \in {"first", "last"} /\ first = last => wasEmpty

(* Nodes that are retired, or kept from it, have been taken. *)
RetiredInv ==
  /\ \A n \in retired \cup {freeLater} : n = Spare \/ n < first
  /\ Disposing => \A n \in retired \cup {freeLater} : n = Spare \/ n < dTmp
  /\ freeLater \notin retired

(* The node that e_read_front looks into is the one it announced, and a dequeue *)
(* that is keeping one keeps that one or an earlier one.                         *)
AnnouncedInv ==
  /\ ePc \in {"recheck", "value"} => announce = eTmp
  /\ ePc = "value" => eTmp \notin retired /\ (dPc = "keep" => eTmp >= dTmp)

(* Node n was at the front, or the queue was empty, since e_read_front was called. *)
Seen(n) == (IF n = last THEN Null ELSE n) \in fronts

(* All fronts from the one that e_read_front found to the present one. *)
FrontInv ==
  /\ Looking => Seen(first)
  /\ Looking /\ ePc # "front" => eTmp <= first /\ \A n \in eTmp..first : Seen(n)
  /\ ePc \in {"announce", "recheck", "help", "value"} => eOk /\ eTmp < last
  /\ ePc = "help" => eTmp < first

IInv ==
  /\ TypeOK
  /\ CursorInv /\ FilledInv
  /\ EnqueuerInv /\ DequeuerInv
  /\ RetiredInv /\ AnnouncedInv
  /\ FrontInv /\ FrontWasFront

--------------------------------------------------------------------------------
(* Nodes are numbers, and no node is the spare one. *)
LEMMA NodesAre ==
  ASSUME TypeOK
  PROVE  /\ MaxItems \in Nat /\ first \in Nat /\ last \in Nat /\ added \in Nat /\ lastCached \in Nat
         /\ eTmp \in Nat /\ dTmp \in Nat /\ Null = -1 /\ Spare = MaxItems + 1
         /\ first <= MaxItems /\ last <= MaxItems /\ eTmp <= MaxItems /\ dTmp <= MaxItems
              /\ added <= MaxItems
BY UnboundedSpscAssumption DEF TypeOK, Nodes, Null, Spare

(* The element in a node in front of `last' is the number of the node. *)
LEMMA ElementIs ==
  ASSUME TypeOK, FilledInv, NEW n \in Nodes, n <= last
  PROVE  (IF n \in Nodes \ {last} THEN value[n] ELSE Null) = IF n = last THEN Null ELSE n
<1>1. n \in Nat /\ last \in Nat
  BY NodesAre DEF Nodes
<1> QED BY <1>1 DEF FilledInv

LEMMA InitInv == Init => IInv
<1> SUFFICES ASSUME Init PROVE IInv
  OBVIOUS
<1>1. 0 \in Nodes /\ MaxItems \in Nat /\ 0 \in Nat /\ Null \notin Nodes
  BY UnboundedSpscAssumption DEF Nodes, Null
<1>2. TypeOK
  <2>1. 0 \in 0..MaxItems
    BY <1>1
  <2> QED BY <1>1, <2>1 DEF Init, TypeOK
<1>3. CursorInv /\ EnqueuerInv
  BY <1>1 DEF Init, CursorInv, EnqueuerInv, Appending, Looking
<1>4. FilledInv
  BY <1>1 DEF Init, FilledInv, Nodes
<1>5. DequeuerInv /\ RetiredInv
  BY <1>1 DEF Init, DequeuerInv, RetiredInv, Taking, Disposing, Null
<1>6. AnnouncedInv /\ FrontInv /\ FrontWasFront
  BY DEF Init, AnnouncedInv, FrontInv, FrontWasFront, Looking
<1> QED BY <1>2, <1>3, <1>4, <1>5, <1>6 DEF IInv

(* The steps of enqueue and of e_read_front. *)
LEMMA EnqueueCallKeeps == ASSUME IInv, EnqueueCall PROVE IInv'
<1> USE DEF EnqueueCall, nodes, cells, enqVars, deqVars
<1>1. /\ TypeOK /\ CursorInv /\ FilledInv /\ EnqueuerInv /\ DequeuerInv
      /\ RetiredInv /\ AnnouncedInv /\ FrontInv /\ FrontWasFront
  BY DEF IInv
<1>2. /\ CursorInv' /\ FilledInv' /\ EnqueuerInv' /\ DequeuerInv' /\ RetiredInv' /\ AnnouncedInv'
      /\ FrontInv' /\ FrontWasFront'
  BY <1>1
     DEF CursorInv, Appending, FilledInv, EnqueuerInv, Looking, DequeuerInv, Taking, Disposing,
         RetiredInv, AnnouncedInv, FrontInv, Seen, FrontWasFront
<1>3. TypeOK'
  BY <1>1 DEF TypeOK
<1> QED BY <1>2, <1>3 DEF IInv

LEMMA EReadFrontCallKeeps == ASSUME IInv, EReadFrontCall PROVE IInv'
<1> USE DEF EReadFrontCall, nodes, cells, enqVars, deqVars
<1>1. /\ TypeOK /\ CursorInv /\ FilledInv /\ EnqueuerInv /\ DequeuerInv
      /\ RetiredInv /\ AnnouncedInv /\ FrontInv /\ FrontWasFront
  BY DEF IInv
<1>2. /\ CursorInv' /\ FilledInv' /\ EnqueuerInv' /\ DequeuerInv' /\ RetiredInv' /\ AnnouncedInv'
      /\ FrontWasFront'
  BY <1>1
     DEF CursorInv, Appending, FilledInv, EnqueuerInv, Looking, DequeuerInv, Taking, Disposing,
         RetiredInv, AnnouncedInv, FrontWasFront
<1>3. TypeOK'
  <2>1. Front = IF first = last THEN Null ELSE first
    BY <1>1, ElementIs, NodesAre DEF Front, CursorInv, TypeOK
  <2> QED BY <1>1, <2>1, NodesAre DEF TypeOK
<1>4. FrontInv'
  <2>1. Front = IF first = last THEN Null ELSE first
    BY <1>1, ElementIs, NodesAre DEF Front, CursorInv, TypeOK
  <2> QED BY <2>1 DEF FrontInv, Looking, Seen
<1> QED BY <1>2, <1>3, <1>4 DEF IInv

LEMMA EnqueueLastKeeps == ASSUME IInv, EnqueueLast PROVE IInv'
<1> USE DEF EnqueueLast, nodes, cells, enqVars, deqVars
<1>1. /\ TypeOK /\ CursorInv /\ FilledInv /\ EnqueuerInv /\ DequeuerInv
      /\ RetiredInv /\ AnnouncedInv /\ FrontInv /\ FrontWasFront
  BY DEF IInv
<1>2. /\ CursorInv' /\ FilledInv' /\ EnqueuerInv' /\ DequeuerInv' /\ RetiredInv' /\ AnnouncedInv'
      /\ FrontInv' /\ FrontWasFront'
  BY <1>1
     DEF CursorInv, Appending, FilledInv, EnqueuerInv, Looking, DequeuerInv, Taking, Disposing,
         RetiredInv, AnnouncedInv, FrontInv, Seen, FrontWasFront
<1>3. TypeOK'
  BY <1>1 DEF TypeOK
<1> QED BY <1>2, <1>3 DEF IInv

LEMMA EnqueueFillKeeps == ASSUME IInv, EnqueueFill PROVE IInv'
<1> USE DEF EnqueueFill, nodes, cells, enqVars, deqVars
<1>1. /\ TypeOK /\ CursorInv /\ FilledInv /\ EnqueuerInv /\ DequeuerInv
      /\ RetiredInv /\ AnnouncedInv /\ FrontInv /\ FrontWasFront
  BY DEF IInv
<1>2. /\ CursorInv' /\ EnqueuerInv' /\ DequeuerInv' /\ RetiredInv' /\ AnnouncedInv' /\ FrontInv'
      /\ FrontWasFront'
  BY <1>1
     DEF CursorInv, Appending, EnqueuerInv, Looking, DequeuerInv, Taking, Disposing, RetiredInv,
         AnnouncedInv, FrontInv, Seen, FrontWasFront
<1>3. TypeOK'
  BY <1>1 DEF TypeOK
<1>4. FilledInv'
  <2>1. eTmp = last /\ last = added /\ last \in Nodes
    BY <1>1 DEF EnqueuerInv, CursorInv, TypeOK
  <2> QED BY <1>1, <2>1 DEF FilledInv, TypeOK
<1> QED BY <1>2, <1>3, <1>4 DEF IInv

LEMMA EnqueueLinkKeeps == ASSUME IInv, EnqueueLink PROVE IInv'
<1> USE DEF EnqueueLink, nodes, cells, enqVars, deqVars
<1>1. /\ TypeOK /\ CursorInv /\ FilledInv /\ EnqueuerInv /\ DequeuerInv
      /\ RetiredInv /\ AnnouncedInv /\ FrontInv /\ FrontWasFront
  BY DEF IInv
<1>2. /\ CursorInv' /\ EnqueuerInv' /\ DequeuerInv' /\ RetiredInv' /\ AnnouncedInv' /\ FrontInv'
      /\ FrontWasFront'
  BY <1>1
     DEF CursorInv, Appending, EnqueuerInv, Looking, DequeuerInv, Taking, Disposing, RetiredInv,
         AnnouncedInv, FrontInv, Seen, FrontWasFront
<1>3. TypeOK'
  <2>1. added + 1 \in Nodes
    BY <1>1, NodesAre DEF CursorInv, Appending, Nodes
  <2> QED BY <1>1, <2>1 DEF TypeOK
<1>4. FilledInv'
  <2>1. eTmp = last /\ last = added /\ last \in Nodes
    BY <1>1 DEF EnqueuerInv, CursorInv, TypeOK
  <2> QED BY <1>1, <2>1 DEF FilledInv, TypeOK
<1> QED BY <1>2, <1>3, <1>4 DEF IInv

LEMMA EnqueuePublishKeeps == ASSUME IInv, EnqueuePublish PROVE IInv'
<1> USE DEF EnqueuePublish, nodes, cells, enqVars, deqVars
<1>1. /\ TypeOK /\ CursorInv /\ FilledInv /\ EnqueuerInv /\ DequeuerInv
      /\ RetiredInv /\ AnnouncedInv /\ FrontInv /\ FrontWasFront
  BY DEF IInv
<1>2. EnqueuerInv' /\ RetiredInv' /\ AnnouncedInv' /\ FrontInv'
  BY <1>1
     DEF EnqueuerInv, Appending, Looking, RetiredInv, Disposing, AnnouncedInv, FrontInv, Seen
<1>3. TypeOK'
  <2>1. added + 1 \in Nodes /\ added + 1 \in 0..MaxItems
    BY <1>1, NodesAre DEF CursorInv, Appending, Nodes
  <2> QED BY <1>1, <2>1 DEF TypeOK
<1>4. CursorInv'
  BY <1>1, NodesAre DEF CursorInv, Appending
<1>5. FilledInv'
  <2>1. last = added /\ last \in Nat /\ \A n \in Nodes : n < last + 1 => n < last \/ n = last
    BY <1>1, NodesAre DEF CursorInv, Nodes
  <2> QED BY <1>1, <2>1 DEF FilledInv
<1>6. DequeuerInv'
  BY <1>1, NodesAre DEF DequeuerInv, CursorInv, Taking, Disposing
<1>7. FrontWasFront'
  BY <1>1 DEF EnqueuerInv, Appending, FrontWasFront
<1> QED BY <1>2, <1>3, <1>4, <1>5, <1>6, <1>7 DEF IInv

LEMMA EReadFrontFirstKeeps == ASSUME IInv, EReadFrontFirst PROVE IInv'
<1> USE DEF EReadFrontFirst, nodes, cells, enqVars, deqVars
<1>1. /\ TypeOK /\ CursorInv /\ FilledInv /\ EnqueuerInv /\ DequeuerInv
      /\ RetiredInv /\ AnnouncedInv /\ FrontInv /\ FrontWasFront
  BY DEF IInv
<1>2. /\ CursorInv' /\ FilledInv' /\ EnqueuerInv' /\ DequeuerInv' /\ RetiredInv' /\ AnnouncedInv'
      /\ FrontWasFront'
  BY <1>1
     DEF CursorInv, Appending, FilledInv, EnqueuerInv, Looking, DequeuerInv, Taking, Disposing,
         RetiredInv, AnnouncedInv, FrontWasFront
<1>3. TypeOK'
  BY <1>1 DEF TypeOK
<1>4. FrontInv'
  <2>1. Seen(first) /\ \A n \in first..first : n = first
    BY <1>1, NodesAre DEF FrontInv, Looking
  <2> QED BY <1>1, <2>1, NodesAre DEF FrontInv, Looking, Seen
<1> QED BY <1>2, <1>3, <1>4 DEF IInv

LEMMA EReadFrontLastKeeps == ASSUME IInv, EReadFrontLast PROVE IInv'
<1> USE DEF EReadFrontLast, nodes, cells, enqVars, deqVars
<1>1. /\ TypeOK /\ CursorInv /\ FilledInv /\ EnqueuerInv /\ DequeuerInv
      /\ RetiredInv /\ AnnouncedInv /\ FrontInv /\ FrontWasFront
  BY DEF IInv
<1>2. CursorInv' /\ FilledInv' /\ EnqueuerInv' /\ DequeuerInv' /\ RetiredInv' /\ AnnouncedInv'
  BY <1>1
     DEF CursorInv, Appending, FilledInv, EnqueuerInv, Looking, DequeuerInv, Taking, Disposing,
         RetiredInv, AnnouncedInv
<1>3. TypeOK'
  BY <1>1 DEF TypeOK
<1>4. FrontInv'
  <2>1. eTmp # last => eTmp < last
    BY <1>1, NodesAre DEF FrontInv, Looking, CursorInv
  <2> QED BY <1>1, <2>1 DEF FrontInv, Looking, Seen
<1>5. FrontWasFront'
  <2>1. eTmp = last => first = last
    BY <1>1, NodesAre DEF FrontInv, Looking, CursorInv
  <2>2. Seen(first)
    BY <1>1 DEF FrontInv, Looking
  <2> QED BY <1>1, <2>1, <2>2 DEF FrontWasFront, Seen
<1> QED BY <1>2, <1>3, <1>4, <1>5 DEF IInv

LEMMA EReadFrontAnnounceKeeps == ASSUME IInv, EReadFrontAnnounce PROVE IInv'
<1> USE DEF EReadFrontAnnounce, nodes, cells, enqVars, deqVars
<1>1. /\ TypeOK /\ CursorInv /\ FilledInv /\ EnqueuerInv /\ DequeuerInv
      /\ RetiredInv /\ AnnouncedInv /\ FrontInv /\ FrontWasFront
  BY DEF IInv
<1>2. /\ CursorInv' /\ FilledInv' /\ EnqueuerInv' /\ DequeuerInv' /\ RetiredInv' /\ AnnouncedInv'
      /\ FrontInv' /\ FrontWasFront'
  BY <1>1
     DEF CursorInv, Appending, FilledInv, EnqueuerInv, Looking, DequeuerInv, Taking, Disposing,
         RetiredInv, AnnouncedInv, FrontInv, Seen, FrontWasFront
<1>3. TypeOK'
  BY <1>1 DEF TypeOK
<1> QED BY <1>2, <1>3 DEF IInv

LEMMA EReadFrontRecheckKeeps == ASSUME IInv, EReadFrontRecheck PROVE IInv'
<1> USE DEF EReadFrontRecheck, nodes, cells, enqVars, deqVars
<1>1. /\ TypeOK /\ CursorInv /\ FilledInv /\ EnqueuerInv /\ DequeuerInv
      /\ RetiredInv /\ AnnouncedInv /\ FrontInv /\ FrontWasFront
  BY DEF IInv
<1>2. CursorInv' /\ FilledInv' /\ EnqueuerInv' /\ DequeuerInv' /\ RetiredInv' /\ FrontWasFront'
  BY <1>1
     DEF CursorInv, Appending, FilledInv, EnqueuerInv, Looking, DequeuerInv, Taking, Disposing,
         RetiredInv, FrontWasFront
<1>3. TypeOK'
  BY <1>1 DEF TypeOK
<1>4. AnnouncedInv'
  <2> SUFFICES ASSUME eTmp = first PROVE eTmp \notin retired /\ (dPc = "keep" => eTmp >= dTmp)
    BY <1>1 DEF AnnouncedInv
  <2>1. eTmp \notin retired
    BY <1>1, NodesAre DEF RetiredInv
  <2>2. dPc = "keep" => eTmp >= dTmp
    BY <1>1, NodesAre DEF DequeuerInv, Disposing
  <2> QED BY <2>1, <2>2
<1>5. FrontInv'
  BY <1>1, NodesAre DEF FrontInv, Looking, Seen
<1> QED BY <1>2, <1>3, <1>4, <1>5 DEF IInv

LEMMA EReadFrontHelpKeeps == ASSUME IInv, EReadFrontHelp PROVE IInv'
<1> USE DEF EReadFrontHelp, nodes, cells, enqVars, deqVars
<1>1. /\ TypeOK /\ CursorInv /\ FilledInv /\ EnqueuerInv /\ DequeuerInv
      /\ RetiredInv /\ AnnouncedInv /\ FrontInv /\ FrontWasFront
  BY DEF IInv
<1>2. /\ CursorInv' /\ FilledInv' /\ EnqueuerInv' /\ DequeuerInv' /\ RetiredInv' /\ AnnouncedInv'
      /\ FrontInv'
  BY <1>1
     DEF CursorInv, Appending, FilledInv, EnqueuerInv, Looking, DequeuerInv, Taking, Disposing,
         RetiredInv, AnnouncedInv, FrontInv, Seen
<1>3. TypeOK'
  BY <1>1 DEF TypeOK
<1>4. FrontWasFront'
  <2>1. help \in {first - 1, first} /\ (help = first => first < last)
    BY <1>1, NodesAre DEF DequeuerInv, CursorInv, Taking
  <2>2. eTmp < first /\ eTmp < last /\ eOk /\ \A n \in eTmp..first : Seen(n)
    BY <1>1 DEF FrontInv, Looking
  <2>3. help \in eTmp..first /\ help < last /\ help \in Nat
    BY <1>1, <2>1, <2>2, NodesAre DEF CursorInv
  <2>4. help # Null /\ help \in fronts
    BY <1>1, <2>2, <2>3, NodesAre DEF Seen
  <2> QED BY <2>2, <2>4 DEF FrontWasFront
<1> QED BY <1>2, <1>3, <1>4 DEF IInv

LEMMA EReadFrontValueKeeps == ASSUME IInv, EReadFrontValue PROVE IInv'
<1> USE DEF EReadFrontValue, nodes, cells, enqVars, deqVars
<1>1. /\ TypeOK /\ CursorInv /\ FilledInv /\ EnqueuerInv /\ DequeuerInv
      /\ RetiredInv /\ AnnouncedInv /\ FrontInv /\ FrontWasFront
  BY DEF IInv
<1>2. /\ CursorInv' /\ FilledInv' /\ EnqueuerInv' /\ DequeuerInv' /\ RetiredInv' /\ AnnouncedInv'
      /\ FrontInv'
  BY <1>1
     DEF CursorInv, Appending, FilledInv, EnqueuerInv, Looking, DequeuerInv, Taking, Disposing,
         RetiredInv, AnnouncedInv, FrontInv, Seen
<1>3. TypeOK'
  BY <1>1 DEF TypeOK
<1>4. FrontWasFront'
  <2>1. eTmp <= first /\ eTmp < last /\ eOk /\ \A n \in eTmp..first : Seen(n)
    BY <1>1 DEF FrontInv, Looking
  <2>2. value[eTmp] = eTmp
    BY <1>1, <2>1 DEF FilledInv, TypeOK
  <2>3. eTmp # Null /\ eTmp \in fronts
    BY <1>1, <2>1, NodesAre DEF Seen
  <2> QED BY <2>1, <2>2, <2>3 DEF FrontWasFront
<1> QED BY <1>2, <1>3, <1>4 DEF IInv

LEMMA EReturnKeeps == ASSUME IInv, EReturn PROVE IInv'
<1> USE DEF EReturn, nodes, cells, enqVars, deqVars
<1>1. /\ TypeOK /\ CursorInv /\ FilledInv /\ EnqueuerInv /\ DequeuerInv
      /\ RetiredInv /\ AnnouncedInv /\ FrontInv /\ FrontWasFront
  BY DEF IInv
<1>2. /\ CursorInv' /\ FilledInv' /\ EnqueuerInv' /\ DequeuerInv' /\ RetiredInv' /\ AnnouncedInv'
      /\ FrontInv' /\ FrontWasFront'
  BY <1>1
     DEF CursorInv, Appending, FilledInv, EnqueuerInv, Looking, DequeuerInv, Taking, Disposing,
         RetiredInv, AnnouncedInv, FrontInv, Seen, FrontWasFront
<1>3. TypeOK'
  BY <1>1 DEF TypeOK
<1> QED BY <1>2, <1>3 DEF IInv

(* The steps of dequeue and of d_read_front. *)
LEMMA DCallKeeps == ASSUME IInv, NEW op \in {"dequeue", "front"}, DCall(op) PROVE IInv'
<1> USE DEF DCall, nodes, cells, enqVars, deqVars
<1>1. /\ TypeOK /\ CursorInv /\ FilledInv /\ EnqueuerInv /\ DequeuerInv
      /\ RetiredInv /\ AnnouncedInv /\ FrontInv /\ FrontWasFront
  BY DEF IInv
<1>2. /\ CursorInv' /\ FilledInv' /\ EnqueuerInv' /\ DequeuerInv' /\ RetiredInv' /\ AnnouncedInv'
      /\ FrontInv' /\ FrontWasFront'
  BY <1>1
     DEF CursorInv, Appending, FilledInv, EnqueuerInv, Looking, DequeuerInv, Taking, Disposing,
         RetiredInv, AnnouncedInv, FrontInv, Seen, FrontWasFront
<1>3. TypeOK'
  BY <1>1 DEF TypeOK
<1> QED BY <1>2, <1>3 DEF IInv

LEMMA DFirstKeeps == ASSUME IInv, DFirst PROVE IInv'
<1> USE DEF DFirst, nodes, cells, enqVars, deqVars
<1>1. /\ TypeOK /\ CursorInv /\ FilledInv /\ EnqueuerInv /\ DequeuerInv
      /\ RetiredInv /\ AnnouncedInv /\ FrontInv /\ FrontWasFront
  BY DEF IInv
<1>2. /\ CursorInv' /\ FilledInv' /\ EnqueuerInv' /\ RetiredInv' /\ AnnouncedInv' /\ FrontInv'
      /\ FrontWasFront'
  BY <1>1
     DEF CursorInv, Appending, FilledInv, EnqueuerInv, Looking, RetiredInv, Disposing, AnnouncedInv,
         FrontInv, Seen, FrontWasFront
<1>3. TypeOK'
  BY <1>1 DEF TypeOK
<1>4. DequeuerInv'
  BY <1>1, NodesAre DEF DequeuerInv, CursorInv, Taking, Disposing
<1> QED BY <1>2, <1>3, <1>4 DEF IInv

LEMMA DLastKeeps == ASSUME IInv, DLast PROVE IInv'
<1> USE DEF DLast, nodes, cells, enqVars, deqVars
<1>1. /\ TypeOK /\ CursorInv /\ FilledInv /\ EnqueuerInv /\ DequeuerInv
      /\ RetiredInv /\ AnnouncedInv /\ FrontInv /\ FrontWasFront
  BY DEF IInv
<1>2. FilledInv' /\ EnqueuerInv' /\ RetiredInv' /\ AnnouncedInv' /\ FrontInv' /\ FrontWasFront'
  BY <1>1
     DEF FilledInv, EnqueuerInv, Appending, Looking, RetiredInv, Disposing, AnnouncedInv, FrontInv,
         Seen, FrontWasFront
<1>3. TypeOK'
  <2>1. dOk' \in BOOLEAN /\ dPc' \in {"return", "read"} /\ lastCached' \in Nodes
    BY <1>1 DEF TypeOK
  <2> QED BY <1>1, <2>1 DEF TypeOK
<1>4. CursorInv'
  BY <1>1, NodesAre DEF CursorInv, Appending
<1>5. DequeuerInv'
  BY <1>1, NodesAre DEF DequeuerInv, CursorInv, Taking, Disposing
<1> QED BY <1>2, <1>3, <1>4, <1>5 DEF IInv

LEMMA DReadKeeps == ASSUME IInv, DRead PROVE IInv'
<1> USE DEF DRead, nodes, cells, enqVars, deqVars
<1>1. /\ TypeOK /\ CursorInv /\ FilledInv /\ EnqueuerInv /\ DequeuerInv
      /\ RetiredInv /\ AnnouncedInv /\ FrontInv /\ FrontWasFront
  BY DEF IInv
<1>2. /\ CursorInv' /\ FilledInv' /\ EnqueuerInv' /\ RetiredInv' /\ AnnouncedInv' /\ FrontInv'
      /\ FrontWasFront'
  BY <1>1
     DEF CursorInv, Appending, FilledInv, EnqueuerInv, Looking, RetiredInv, Disposing, AnnouncedInv,
         FrontInv, Seen, FrontWasFront
<1>3. TypeOK'
  <2>1. value[dTmp] \in Nat \cup {Null} /\ dOk' \in BOOLEAN /\ dPc' \in {"help", "return"}
    BY <1>1 DEF TypeOK
  <2> QED BY <1>1, <2>1 DEF TypeOK
<1>4. DequeuerInv'
  <2>1. dTmp = first /\ first \in Nodes /\ first < last
    BY <1>1, NodesAre DEF DequeuerInv, Taking, CursorInv, TypeOK
  <2>2. value[dTmp] = first
    BY <1>1, <2>1 DEF FilledInv
  <2> QED BY <1>1, <2>2 DEF DequeuerInv, Taking, Disposing
<1> QED BY <1>2, <1>3, <1>4 DEF IInv

LEMMA DHelpKeeps == ASSUME IInv, DHelp PROVE IInv'
<1> USE DEF DHelp, nodes, cells, enqVars, deqVars
<1>1. /\ TypeOK /\ CursorInv /\ FilledInv /\ EnqueuerInv /\ DequeuerInv
      /\ RetiredInv /\ AnnouncedInv /\ FrontInv /\ FrontWasFront
  BY DEF IInv
<1>2. /\ CursorInv' /\ FilledInv' /\ EnqueuerInv' /\ DequeuerInv' /\ RetiredInv' /\ AnnouncedInv'
      /\ FrontInv' /\ FrontWasFront'
  BY <1>1
     DEF CursorInv, Appending, FilledInv, EnqueuerInv, Looking, DequeuerInv, Taking, Disposing,
         RetiredInv, AnnouncedInv, FrontInv, Seen, FrontWasFront
<1>3. TypeOK'
  BY <1>1 DEF TypeOK
<1> QED BY <1>2, <1>3 DEF IInv

LEMMA DNextKeeps == ASSUME IInv, DNext PROVE IInv'
<1> USE DEF DNext, nodes, cells, enqVars, deqVars
<1>1. /\ TypeOK /\ CursorInv /\ FilledInv /\ EnqueuerInv /\ DequeuerInv
      /\ RetiredInv /\ AnnouncedInv /\ FrontInv /\ FrontWasFront
  BY DEF IInv
<1>2. /\ CursorInv' /\ FilledInv' /\ EnqueuerInv' /\ RetiredInv' /\ AnnouncedInv' /\ FrontInv'
      /\ FrontWasFront'
  BY <1>1
     DEF CursorInv, Appending, FilledInv, EnqueuerInv, Looking, RetiredInv, Disposing, AnnouncedInv,
         FrontInv, Seen, FrontWasFront
<1>3. TypeOK'
  BY <1>1 DEF TypeOK
<1>4. DequeuerInv'
  <2>1. dTmp = first /\ first \in Nodes /\ first < last
    BY <1>1, NodesAre DEF DequeuerInv, Taking, CursorInv, TypeOK
  <2>2. next[dTmp] = first + 1
    BY <1>1, <2>1 DEF FilledInv
  <2> QED BY <1>1, <2>2 DEF DequeuerInv, Taking, Disposing
<1> QED BY <1>2, <1>3, <1>4 DEF IInv

LEMMA DAdvanceKeeps == ASSUME IInv, DAdvance PROVE IInv'
<1> USE DEF DAdvance, nodes, cells, enqVars, deqVars
<1>1. /\ TypeOK /\ CursorInv /\ FilledInv /\ EnqueuerInv /\ DequeuerInv
      /\ RetiredInv /\ AnnouncedInv /\ FrontInv /\ FrontWasFront
  BY DEF IInv
<1>2. first' = first + 1 /\ dNext = first + 1 /\ first < lastCached /\ lastCached <= last
        /\ dTmp = first
  BY <1>1 DEF DequeuerInv, CursorInv, Taking
<1>3. Front' = IF first' = last THEN Null ELSE first'
  <2>1. first' \in Nodes /\ first' <= last
    BY <1>1, <1>2, NodesAre DEF Nodes
  <2> QED BY <1>1, <2>1, ElementIs DEF Front
<1>4. FilledInv' /\ EnqueuerInv' /\ AnnouncedInv'
  BY <1>1
     DEF FilledInv, EnqueuerInv, Appending, Looking, AnnouncedInv
<1>5. TypeOK'
  <2>1. first' \in Nodes /\ Front' \in Nat \cup {Null}
    BY <1>1, <1>2, <1>3, NodesAre DEF Nodes
  <2> QED BY <1>1, <2>1 DEF TypeOK
<1>6. CursorInv'
  BY <1>1, <1>2, NodesAre DEF CursorInv, Appending
<1>7. DequeuerInv'
  BY <1>1, <1>2, NodesAre DEF DequeuerInv, Taking, Disposing
<1>8. RetiredInv'
  <2>1. \A n \in retired \cup {freeLater} : n \in Nat \/ n = Spare
    BY <1>1 DEF TypeOK, Nodes
  <2>2. dTmp = first /\ first \in Nat
    BY <1>1, <1>2, NodesAre
  <2> QED BY <1>1, <1>2, <2>1, <2>2 DEF RetiredInv, Disposing
<1>9. FrontInv'
  <2>1. (IF first' = last THEN Null ELSE first') \in fronts'
    BY <1>1, <1>3
  <2>2. \A n : Seen(n) => Seen(n)'
    BY <1>1 DEF Seen
  <2>3. eTmp <= first => \A n \in eTmp..first' : n \in eTmp..first \/ n = first'
    BY <1>1, <1>2, NodesAre
  <2> QED BY <1>1, <1>2, <2>1, <2>2, <2>3, NodesAre DEF FrontInv, Looking, Seen
<1>10. FrontWasFront'
  BY <1>1 DEF FrontWasFront
<1> QED BY <1>4, <1>5, <1>6, <1>7, <1>8, <1>9, <1>10 DEF IInv

LEMMA DAnnouncedKeeps == ASSUME IInv, DAnnounced PROVE IInv'
<1> USE DEF DAnnounced, nodes, cells, enqVars, deqVars
<1>1. /\ TypeOK /\ CursorInv /\ FilledInv /\ EnqueuerInv /\ DequeuerInv
      /\ RetiredInv /\ AnnouncedInv /\ FrontInv /\ FrontWasFront
  BY DEF IInv
<1>2. CursorInv' /\ FilledInv' /\ EnqueuerInv' /\ DequeuerInv' /\ FrontInv' /\ FrontWasFront'
  BY <1>1
     DEF CursorInv, Appending, FilledInv, EnqueuerInv, Looking, DequeuerInv, Taking, Disposing,
         FrontInv, Seen, FrontWasFront
<1>3. TypeOK'
  <2>1. retired' \subseteq Nodes \cup {Spare} /\ dOk' \in BOOLEAN /\ dPc' \in {"keep", "return"}
    BY <1>1 DEF TypeOK
  <2> QED BY <1>1, <2>1 DEF TypeOK
<1>4. RetiredInv'
  <2>1. first = dTmp + 1 /\ \A n \in retired \cup {freeLater} : n = Spare \/ n < dTmp
    BY <1>1 DEF DequeuerInv, RetiredInv, Disposing
  <2>2. freeLater # dTmp
    BY <1>1, <2>1, NodesAre DEF TypeOK
  <2> QED BY <1>1, <2>1, <2>2, NodesAre DEF RetiredInv, Disposing
<1>5. AnnouncedInv'
  BY <1>1, NodesAre DEF AnnouncedInv
<1> QED BY <1>2, <1>3, <1>4, <1>5 DEF IInv

LEMMA DKeepKeeps == ASSUME IInv, DKeep PROVE IInv'
<1> USE DEF DKeep, nodes, cells, enqVars, deqVars
<1>1. /\ TypeOK /\ CursorInv /\ FilledInv /\ EnqueuerInv /\ DequeuerInv
      /\ RetiredInv /\ AnnouncedInv /\ FrontInv /\ FrontWasFront
  BY DEF IInv
<1>2. CursorInv' /\ FilledInv' /\ EnqueuerInv' /\ DequeuerInv' /\ FrontInv' /\ FrontWasFront'
  BY <1>1
     DEF CursorInv, Appending, FilledInv, EnqueuerInv, Looking, DequeuerInv, Taking, Disposing,
         FrontInv, Seen, FrontWasFront
<1>3. TypeOK'
  BY <1>1 DEF TypeOK
<1>4. RetiredInv'
  <2>1. first = dTmp + 1 /\ (\A n \in retired \cup {freeLater} : n = Spare \/ n < dTmp)
    BY <1>1 DEF DequeuerInv, RetiredInv, Disposing
  <2> QED BY <1>1, <2>1, NodesAre DEF RetiredInv, Disposing
<1>5. AnnouncedInv'
  <2>1. freeLater = Spare \/ freeLater < dTmp
    BY <1>1 DEF RetiredInv, Disposing
  <2>2. ePc = "value" => eTmp # freeLater
    BY <1>1, <2>1, NodesAre DEF AnnouncedInv
  <2> QED BY <1>1, <2>2 DEF AnnouncedInv
<1> QED BY <1>2, <1>3, <1>4, <1>5 DEF IInv

LEMMA DReturnKeeps == ASSUME IInv, DReturn PROVE IInv'
<1> USE DEF DReturn, nodes, cells, enqVars, deqVars
<1>1. /\ TypeOK /\ CursorInv /\ FilledInv /\ EnqueuerInv /\ DequeuerInv
      /\ RetiredInv /\ AnnouncedInv /\ FrontInv /\ FrontWasFront
  BY DEF IInv
<1>2. /\ CursorInv' /\ FilledInv' /\ EnqueuerInv' /\ DequeuerInv' /\ RetiredInv' /\ AnnouncedInv'
      /\ FrontInv' /\ FrontWasFront'
  BY <1>1
     DEF CursorInv, Appending, FilledInv, EnqueuerInv, Looking, DequeuerInv, Taking, Disposing,
         RetiredInv, AnnouncedInv, FrontInv, Seen, FrontWasFront
<1>3. TypeOK'
  BY <1>1 DEF TypeOK
<1> QED BY <1>2, <1>3 DEF IInv

LEMMA StepInv == IInv /\ [Next]_vars => IInv'
<1> SUFFICES ASSUME IInv, [Next]_vars PROVE IInv'
  OBVIOUS
<1>1. CASE UNCHANGED vars
  <2> USE <1>1 DEF vars, nodes, cells, enqVars, deqVars
  <2>1. /\ TypeOK /\ CursorInv /\ FilledInv /\ EnqueuerInv /\ DequeuerInv
        /\ RetiredInv /\ AnnouncedInv /\ FrontInv /\ FrontWasFront
    BY DEF IInv
  <2>2. TypeOK'
    BY <2>1 DEF TypeOK
  <2>3. CursorInv' /\ FilledInv' /\ EnqueuerInv' /\ DequeuerInv'
    BY <2>1 DEF CursorInv, Appending, FilledInv, EnqueuerInv, Looking, DequeuerInv, Taking, Disposing
  <2>4. RetiredInv' /\ AnnouncedInv' /\ FrontInv' /\ FrontWasFront'
    BY <2>1 DEF RetiredInv, Disposing, AnnouncedInv, FrontInv, Looking, Seen, FrontWasFront
  <2> QED BY <2>2, <2>3, <2>4 DEF IInv
<1>2. CASE EnqueueCall \/ EReadFrontCall \/ EnqueuerStep
  BY <1>2, EnqueueCallKeeps, EReadFrontCallKeeps, EnqueueLastKeeps, EnqueueFillKeeps, EnqueueLinkKeeps,
     EnqueuePublishKeeps, EReadFrontFirstKeeps, EReadFrontLastKeeps, EReadFrontAnnounceKeeps,
     EReadFrontRecheckKeeps, EReadFrontHelpKeeps, EReadFrontValueKeeps, EReturnKeeps
  DEF EnqueuerStep
<1>3. CASE (\E op \in {"dequeue", "front"} : DCall(op)) \/ DequeuerStep
  BY <1>3, DCallKeeps, DFirstKeeps, DLastKeeps, DReadKeeps, DHelpKeeps, DNextKeeps, DAdvanceKeeps,
     DAnnouncedKeeps, DKeepKeeps, DReturnKeeps
  DEF DequeuerStep
<1> QED BY <1>1, <1>2, <1>3 DEF Next

--------------------------------------------------------------------------------
(* The strengthened invariant holds for every number of elements. *)
THEOREM Inductive == Spec => []IInv
BY InitInv, StepInv, PTL DEF Spec

(* NoReadAfterFree: if the dequeuer freed what it has done with, no node *)
(* would be freed that is looked into, filled, or still reachable.       *)
THEOREM NoneFreedInUse == Spec => []NoReadAfterFree
<1>1. IInv => NoReadAfterFree
  <2> SUFFICES ASSUME IInv PROVE NoReadAfterFree
    OBVIOUS
  <2>1. TypeOK /\ CursorInv /\ EnqueuerInv /\ RetiredInv /\ AnnouncedInv
    BY DEF IInv
  <2>2. first \notin retired /\ last \notin retired
    BY <2>1, NodesAre DEF RetiredInv, CursorInv
  <2> QED BY <2>1, <2>2 DEF NoReadAfterFree, EnqueuerInv, RetiredInv, AnnouncedInv
<1> QED BY <1>1, Inductive, PTL

(* DequeuerReadsFilled: the dequeuer looks only into nodes that are filled *)
(* and linked, and no enqueue is writing to.                               *)
THEOREM OnlyFilledRead == Spec => []DequeuerReadsFilled
<1>1. IInv => DequeuerReadsFilled
  <2> SUFFICES ASSUME IInv, dPc \in {"read", "help", "next"}
               PROVE  /\ value[dTmp] # Null /\ next[dTmp] # Null
                      /\ ePc \in {"fill", "link"} => eTmp # dTmp
    BY DEF DequeuerReadsFilled
  <2>1. TypeOK /\ CursorInv /\ FilledInv /\ EnqueuerInv /\ DequeuerInv
    BY DEF IInv
  <2>2. dTmp \in Nodes /\ dTmp < last /\ dTmp \in Nat
    BY <2>1, NodesAre DEF DequeuerInv, Taking, CursorInv, TypeOK
  <2>3. value[dTmp] = dTmp /\ next[dTmp] = dTmp + 1
    BY <2>1, <2>2 DEF FilledInv
  <2> QED BY <2>1, <2>2, <2>3, NodesAre DEF EnqueuerInv
<1> QED BY <1>1, Inductive, PTL

(* FrontWasFront: what e_read_front finds, in the node or in `help', was at *)
(* the front at some moment of the call.                                    *)
THEOREM FrontReadTrue == Spec => []FrontWasFront
BY Inductive, PTL DEF IInv

--------------------------------------------------------------------------------
(* The elements from node a up to node b. *)
Elements(a, b) == [i \in 1..(b - a) |-> a + i - 1]

LEMMA ElementsAre ==
  ASSUME NEW a \in Nat, NEW b \in Nat, a <= b
  PROVE  /\ Elements(a, b) \in Seq(Nat) /\ Len(Elements(a, b)) = b - a
         /\ Elements(a, b + 1) = Elements(a, b) \o [i \in 1..1 |-> b + i - 1]
         /\ a < b => Head(Elements(a, b)) = a /\ Tail(Elements(a, b)) = Elements(a + 1, b)
<1>1. b - a \in Nat /\ \A i \in 1..(b - a) : a + i - 1 \in Nat
  OBVIOUS
<1>2. Elements(a, b) \in Seq(Nat) /\ Len(Elements(a, b)) = b - a
  BY <1>1 DEF Elements
<1>3. Elements(a, b + 1) = Elements(a, b) \o [i \in 1..1 |-> b + i - 1]
  <2> DEFINE e == Elements(a, b) l == [i \in 1..1 |-> b + i - 1] f == Elements(a, b + 1)
  <2>1. l \in Seq(Nat) /\ Len(l) = 1 /\ l[1] = b
    OBVIOUS
  <2>2. f \in Seq(Nat) /\ Len(f) = b - a + 1 /\ \A i \in 1..(b - a + 1) : f[i] = a + i - 1
    BY <1>1 DEF Elements
  <2>3. \A i \in 1..(b - a) : e[i] = a + i - 1
    BY DEF Elements
  <2>4. e \in Seq(Nat) /\ Len(e) = b - a
    BY <1>2
  <2> HIDE DEF e, l, f
  <2>5. e \o l \in Seq(Nat) /\ Len(e \o l) = b - a + 1
    <3>1. e \o l \in Seq(Nat) /\ Len(e \o l) = Len(e) + Len(l)
      BY <2>1, <2>4, ConcatProperties
    <3> QED BY <2>1, <2>4, <3>1
  <2>6. ASSUME NEW i \in 1..(b - a + 1) PROVE (e \o l)[i] = a + i - 1
    <3>1. (e \o l)[i] = IF i <= b - a THEN e[i] ELSE l[i - (b - a)]
      BY <2>1, <2>4, ConcatProperties
    <3> QED BY <2>1, <2>3, <3>1
  <2>7. f = e \o l
    BY <2>2, <2>5, <2>6, SeqEqual
  <2> QED BY <2>7 DEF e, l, f
<1>4. ASSUME a < b PROVE Head(Elements(a, b)) = a /\ Tail(Elements(a, b)) = Elements(a + 1, b)
  <2> DEFINE e == Elements(a, b) f == Elements(a + 1, b)
  <2>1. \A i \in 1..(b - a) : e[i] = a + i - 1
    BY DEF Elements
  <2>2. f \in Seq(Nat) /\ Len(f) = b - a - 1 /\ \A i \in 1..(b - a - 1) : f[i] = a + i
    <3>1. b - (a + 1) = b - a - 1 /\ b - a - 1 \in Nat
            /\ \A i \in 1..(b - a - 1) : a + 1 + i - 1 = a + i
      BY <1>4
    <3> QED BY <3>1 DEF Elements
  <2>3. e \in Seq(Nat) /\ Len(e) = b - a /\ b - a \in Nat /\ b - a > 0
    BY <1>1, <1>2, <1>4
  <2> HIDE DEF e, f
  <2>4. e # <<>> /\ Head(e) = e[1] /\ 1 \in 1..(b - a)
    BY <2>3
  <2>5. Tail(e) \in Seq(Nat) /\ Len(Tail(e)) = b - a - 1 /\ \A i \in 1..(b - a - 1) : Tail(e)[i] = a + i
    <3>1. Tail(e) \in Seq(Nat) /\ Len(Tail(e)) = b - a - 1
            /\ \A i \in 1..(b - a - 1) : Tail(e)[i] = e[i + 1]
      BY <2>3, <2>4, HeadTailProperties
    <3> QED BY <2>1, <2>3, <3>1
  <2>6. Tail(e) = f
    BY <2>2, <2>5, SeqEqual
  <2>7. Head(e) = a
    BY <2>1, <2>4
  <2> QED BY <2>6, <2>7 DEF e, f
<1> QED BY <1>2, <1>3, <1>4


(* What SpscQueue sees of the two sides' calls. *)
EState == IF ~Enqueuing THEN "idle" ELSE IF ePc = "return" THEN "done" ELSE "called"
DState == IF dPc = "idle" THEN "idle"
          ELSE IF dPc \in {"announced", "keep", "return"} THEN "done" ELSE "called"
DOk == IF dPc \in {"announced", "keep"} THEN TRUE ELSE dOk
DOut == IF dPc \in {"announced", "keep"} \/ (dPc = "return" /\ dOk) THEN dOut ELSE Null

(* The state of SpscQueue, with the names the proofs use. *)
LEMMA AbstractVars ==
  UNCHANGED <<first, last, EState, DState, dOp, DOk, DOut, wasEmpty>> => UNCHANGED Abstract!vars
BY DEF EState, DState, DOk, DOut, Abstract!vars, Abstract!enqVars, Abstract!deqVars

(* The steps of enqueue and of e_read_front. *)
LEMMA EnqueuerRefines ==
  ASSUME IInv, EnqueueCall \/ EReadFrontCall \/ EnqueuerStep
  PROVE  Abstract!Next \/ UNCHANGED Abstract!vars
<1>1. TypeOK /\ CursorInv /\ EnqueuerInv
  BY DEF IInv
<1>2. UNCHANGED <<first, deqVars>>
  BY DEF EnqueuerStep, EnqueueCall, EReadFrontCall, EnqueueLast, EnqueueFill, EnqueueLink,
           EnqueuePublish,
         EReadFrontFirst, EReadFrontLast, EReadFrontAnnounce, EReadFrontRecheck, EReadFrontHelp,
         EReadFrontValue, EReturn, cells
<1>3. UNCHANGED <<DState, dOp, DOk, DOut, wasEmpty>>
  BY <1>2 DEF deqVars, DState, DOk, DOut
<1>4. CASE EnqueueCall
  <2>1. EState = "idle" /\ EState' = "called" /\ added + 1 <= MaxItems /\ added = last /\ last' = last
    BY <1>1, <1>4, NodesAre DEF EnqueueCall, EState, Enqueuing, CursorInv, cells
  <2>2. Abstract!EnqueueCall(1)
    BY <1>2, <1>3, <2>1 DEF EState, DState, DOk, DOut, Abstract!EnqueueCall, Abstract!deqVars
  <2> QED BY <2>2 DEF Abstract!Next
<1>5. CASE EnqueuePublish
  <2>1. EState = "called" /\ EState' = "done" /\ last < MaxItems /\ last' = last + 1
    BY <1>1, <1>5, NodesAre DEF EnqueuePublish, EState, Enqueuing, CursorInv, EnqueuerInv, Appending
  <2>2. /\ Elements(first, last)' = Elements(first, last) \o [i \in 1..1 |-> last + i - 1]
        /\ Len(Elements(first, last)) + 1 <= MaxItems
    <3>1. Elements(first, last)' = Elements(first, last + 1)
      BY <1>2, <2>1 DEF Elements
    <3>2. first \in Nat /\ last \in Nat /\ first <= last /\ MaxItems \in Nat
      BY <1>1, NodesAre DEF CursorInv
    <3>3. Len(Elements(first, last)) = last - first
      BY <3>2, ElementsAre
    <3>4. Elements(first, last + 1) = Elements(first, last) \o [i \in 1..1 |-> last + i - 1]
      BY <3>2, ElementsAre
    <3>5. last - first + 1 <= MaxItems
      BY <2>1, <3>2
    <3> QED BY <3>1, <3>3, <3>4, <3>5
  <2>3. last' > 0
    BY <1>1, <2>1, NodesAre
  <2>4. Abstract!Enqueue
    BY <1>2, <1>3, <2>1, <2>2, <2>3
       DEF EState, DState, DOk, DOut, Elements, Abstract!Enqueue, Abstract!Following, Abstract!deqVars
  <2> QED BY <2>4 DEF Abstract!Next
<1>6. CASE EReturn
  <2>1. last' = last /\ EState' = "idle"
    BY <1>6 DEF EReturn, EState, Enqueuing, cells
  <2>2. CASE EState = "done"
    <3>1. Abstract!EReturn
      BY <1>2, <1>3, <2>1, <2>2 DEF EState, DState, DOk, DOut, Abstract!EReturn, Abstract!deqVars,
           Null, Abstract!Nothing
    <3> QED BY <3>1 DEF Abstract!Next
  <2>3. CASE EState # "done"
    <3>1. EState = "idle"
      BY <1>6, <2>3 DEF EReturn, EState, Enqueuing
    <3> QED BY <1>2, <1>3, <2>1, <3>1, AbstractVars
  <2> QED BY <2>2, <2>3
<1>7. CASE EnqueueLast \/ EnqueueFill \/ EnqueueLink
  <2>1. last' = last /\ EState' = EState
    BY <1>1, <1>7 DEF EnqueueLast, EnqueueFill, EnqueueLink, EState, Enqueuing, EnqueuerInv,
         Appending, cells
  <2> QED BY <1>2, <1>3, <2>1, AbstractVars
<1>8. CASE \/ EReadFrontCall \/ EReadFrontFirst \/ EReadFrontLast \/ EReadFrontAnnounce
        \/ EReadFrontRecheck
           \/ EReadFrontHelp \/ EReadFrontValue
  <2>1. last' = last /\ EState' = EState
    BY <1>1, <1>8
       DEF EReadFrontCall, EReadFrontFirst, EReadFrontLast, EReadFrontAnnounce, EReadFrontRecheck,
           EReadFrontHelp, EReadFrontValue, EState, Enqueuing, EnqueuerInv, Looking, cells
  <2> QED BY <1>2, <1>3, <2>1, AbstractVars
<1> QED BY <1>4, <1>5, <1>6, <1>7, <1>8 DEF EnqueuerStep

(* The steps of dequeue and of d_read_front. *)
LEMMA DequeuerRefines ==
  ASSUME IInv, (\E op \in {"dequeue", "front"} : DCall(op)) \/ DequeuerStep
  PROVE  Abstract!Next \/ UNCHANGED Abstract!vars
<1>1. TypeOK /\ CursorInv /\ FilledInv /\ DequeuerInv
  BY DEF IInv
<1>2. UNCHANGED <<last, enqVars>>
  BY DEF DequeuerStep, DCall, DFirst, DLast, DRead, DHelp, DNext, DAdvance, DAnnounced, DKeep,
           DReturn, cells
<1>3. UNCHANGED EState
  BY <1>2 DEF enqVars, EState, Enqueuing
<1>4. first \in Nat /\ last \in Nat /\ first <= last
  BY <1>1, NodesAre DEF CursorInv
<1>5. Len(Elements(first, last)) = last - first
  BY <1>4, ElementsAre
<1>6. ASSUME NEW op \in {"dequeue", "front"}, DCall(op)
      PROVE  Abstract!Next
  <2>1. /\ DState = "idle" /\ DState' = "called" /\ dOp' = op /\ wasEmpty' = (first = last)
        /\ first' = first /\ DOk' = DOk /\ DOut' = DOut
    BY <1>6 DEF DCall, DState, DOk, DOut, cells
  <2>2. wasEmpty' = (Len(Elements(first, last)) = 0)
    BY <1>4, <1>5, <2>1
  <2>3. Abstract!DCall(op)
    BY <1>2, <1>3, <2>1, <2>2 DEF EState, DState, DOk, DOut, Elements, Abstract!DCall, Abstract!enqVars
  <2> QED BY <2>3 DEF Abstract!Next
<1>7. CASE DLast /\ dPc' = "return"
  <2>1. DState = "called" /\ DState' = "done" /\ dTmp = last /\ DOk' = FALSE /\ DOut' = DOut
        /\ UNCHANGED <<first, dOp, wasEmpty>>
    BY <1>7 DEF DLast, DState, DOk, DOut, cells
  <2>2. wasEmpty
    BY <1>1, <1>7, <2>1 DEF DLast, DequeuerInv
  <2>3. Abstract!DEmpty
    BY <1>2, <1>3, <2>1, <2>2 DEF EState, DState, DOk, DOut, Abstract!DEmpty, Abstract!enqVars
  <2> QED BY <2>3 DEF Abstract!Next
<1>8. CASE DRead /\ dOp = "front"
  <2>1. DState = "called" /\ DState' = "done" /\ DOk' = TRUE /\ DOut' = value[dTmp]
        /\ UNCHANGED <<first, dOp, wasEmpty>>
    BY <1>8 DEF DRead, DState, DOk, DOut, cells
  <2>2. dTmp = first /\ first < last
    BY <1>1, <1>8, NodesAre DEF DRead, DequeuerInv, Taking, CursorInv
  <2>3. value[dTmp] = Head(Elements(first, last)) /\ Len(Elements(first, last)) > 0
    <3>1. value[dTmp] = first
      BY <1>1, <2>2 DEF FilledInv, TypeOK
    <3>2. Head(Elements(first, last)) = first
      BY <1>4, <2>2, ElementsAre
    <3> QED BY <1>4, <1>5, <2>2, <3>1, <3>2
  <2>4. Abstract!DReadFront
    BY <1>2, <1>3, <1>8, <2>1, <2>3 DEF EState, DState, DOk, DOut, Elements, Abstract!DReadFront,
         Abstract!enqVars
  <2> QED BY <2>4 DEF Abstract!Next
<1>9. CASE DAdvance
  <2>1. DState = "called" /\ DState' = "done" /\ DOk' = TRUE /\ DOut' = dOut /\ UNCHANGED <<dOp,
          wasEmpty>>
    BY <1>9 DEF DAdvance, DState, DOk, DOut
  <2>2. dOp = "dequeue" /\ dOut = first /\ first' = first + 1 /\ first < last
    BY <1>1, <1>9, NodesAre DEF DAdvance, DequeuerInv, Taking, CursorInv
  <2>3. /\ Elements(first, last)' = Tail(Elements(first, last)) /\ DOut' = Head(Elements(first, last))
        /\ Len(Elements(first, last)) > 0
    <3>1. Elements(first, last)' = Elements(first + 1, last)
      BY <1>2, <2>2 DEF Elements
    <3>2. Head(Elements(first, last)) = first /\ Tail(Elements(first, last)) = Elements(first + 1, last)
      BY <1>4, <2>2, ElementsAre
    <3> QED BY <1>4, <1>5, <2>1, <2>2, <3>1, <3>2
  <2>4. Abstract!Dequeue
    BY <1>2, <1>3, <2>1, <2>2, <2>3 DEF EState, DState, DOk, DOut, Elements, Abstract!Dequeue,
         Abstract!enqVars
  <2> QED BY <2>4 DEF Abstract!Next
<1>10. CASE DReturn
  <2>1. DState = "done" /\ DState' = "idle" /\ DOk' = DOk /\ DOut' = Null /\ UNCHANGED <<first, dOp,
          wasEmpty>>
    BY <1>10 DEF DReturn, DState, DOk, DOut, cells
  <2>2. Abstract!DReturn
    BY <1>2, <1>3, <2>1 DEF EState, DState, DOk, DOut, Abstract!DReturn, Abstract!enqVars, Null,
         Abstract!Nothing
  <2> QED BY <2>2 DEF Abstract!Next
<1>11. CASE DFirst \/ (DLast /\ dPc' = "read") \/ (DRead
         /\ dOp = "dequeue") \/ DHelp \/ DNext \/ DAnnounced \/ DKeep
  <2>1. UNCHANGED <<first, dOp, wasEmpty>>
    BY <1>11 DEF DFirst, DLast, DRead, DHelp, DNext, DAnnounced, DKeep, cells
  <2>2. DState' = DState /\ DOk' = DOk /\ DOut' = DOut
    BY <1>11 DEF DFirst, DLast, DRead, DHelp, DNext, DAnnounced, DKeep, DState, DOk, DOut
  <2> QED BY <1>2, <1>3, <2>1, <2>2, AbstractVars
<1> QED BY <1>1, <1>6, <1>7, <1>8, <1>9, <1>10, <1>11 DEF DequeuerStep, DLast, TypeOK

(* Implements: enqueue, dequeue and d_read_front are linearizable, for any *)
(* number of elements.                                                     *)
THEOREM Linearizable == Spec => Implements
<1>1. Init => Abstract!Init
  <2> SUFFICES ASSUME Init PROVE Abstract!Init
    OBVIOUS
  <2>1. Elements(0, 0) = <<>>
    BY DEF Elements
  <2> QED BY <2>1 DEF Init, Abstract!Init, Enqueuing, Elements, Null, Abstract!Nothing
<1>2. IInv /\ [Next]_vars => Abstract!Next \/ UNCHANGED Abstract!vars
  <2> SUFFICES ASSUME IInv, [Next]_vars PROVE Abstract!Next \/ UNCHANGED Abstract!vars
    OBVIOUS
  <2>1. CASE UNCHANGED vars
    <3>1. UNCHANGED <<first, last, EState, DState, dOp, DOk, DOut, wasEmpty>>
      BY <2>1 DEF vars, cells, enqVars, deqVars, EState, Enqueuing, DState, DOk, DOut
    <3> QED BY <3>1, AbstractVars
  <2>2. CASE Next
    BY <2>2, EnqueuerRefines, DequeuerRefines DEF Next
  <2> QED BY <2>1, <2>2
<1> QED BY <1>1, <1>2, Inductive, PTL DEF Spec, Implements, Abstract!Spec

================================================================================
