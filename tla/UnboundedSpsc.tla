----------------------------- MODULE UnboundedSpsc -----------------------------
(***************************************************************************)
(* lib/spsc/unbounded_spsc.hpp: class UnboundedSpsc, as one enqueuer rank  *)
(* and the dequeuer rank run it over BCL global pointers.                  *)
(*                                                                         *)
(* The queue is a linked list whose last node is empty: an enqueue fills   *)
(* that node, links a new one behind it and moves `last'.  Nodes live at   *)
(* the enqueuer; `first', `announce', `free_later' and `help' at the       *)
(* dequeuer.  e_read_front announces the node it is about to look into, so *)
(* that a dequeuer that takes it meanwhile does not give it back, and if   *)
(* it was taken already it uses the element the dequeuer left in `help'.   *)
(* One action is one remote access, or one local write to a node, with the *)
(* local statements around it.                                             *)
(*                                                                         *)
(* The k-th element accepted is the number k-1 (see SpscQueue); the k-th   *)
(* node allocated by the enqueuer is the number k-1 too.  The calls of     *)
(* BCL::dealloc are commented out in the code: `retired' collects the      *)
(* nodes they name.                                                        *)
(***************************************************************************)
EXTENDS Integers, Sequences

CONSTANT MaxItems   \* bound: elements ever accepted

ASSUME UnboundedSpscAssumption == MaxItems \in Nat

VARIABLES
  value, next,        \* node_t: the element in a node, the node linked behind it
  first,              \* *_d_first[e] (memory of the dequeuer)
  last,               \* *_e_last (memory of the enqueuer)
  announce, freeLater, help,   \* *_d_announce[e], *_d_free_later[e], *_d_help[e]
  ePc, eOp, eTmp,     \* enqueuer: control point, current call, tmp
  added,              \* enqueuer: elements accepted so far
  eOk, eOut,          \* enqueuer: the bool and the *output of its last call
  lastCached,         \* dequeuer: _d_last_cached[e]
  dPc, dOp, dTmp, dNext,  \* dequeuer: control point, current call, tmp, the node after it
  dOk, dOut,          \* dequeuer: what its last call returned
  retired,            \* history: nodes the dequeuer has done with
  wasEmpty,           \* history: the queue was empty when the dequeuer's call began
  fronts              \* history: the fronts there were since e_read_front was called

nodes == <<value, next>>
cells == <<first, last, announce, freeLater, help>>
enqVars == <<ePc, eOp, eTmp, added, eOk, eOut>>
deqVars == <<lastCached, dPc, dOp, dTmp, dNext, dOk, dOut, wasEmpty>>
vars == <<nodes, cells, enqVars, deqVars, retired, fronts>>

Nodes == 0..MaxItems         \* the dummy node and one per enqueue
Spare == MaxItems + 1        \* the node free_later starts with
Null == -1                   \* nullptr, and what memory holds before it is written

(* The element at the front, Null when the queue is empty. *)
Front == IF first \in Nodes \ {last} THEN value[first] ELSE Null

Init ==
  /\ value = [n \in Nodes |-> Null] /\ next = [n \in Nodes |-> Null]
  /\ first = 0 /\ last = 0
  /\ announce = Null /\ freeLater = Spare /\ help = Null
  /\ ePc = "idle" /\ eOp = "enqueue" /\ eTmp = 0 /\ added = 0
  /\ eOk = FALSE /\ eOut = Null
  /\ lastCached = 0
  /\ dPc = "idle" /\ dOp = "dequeue" /\ dTmp = 0 /\ dNext = Null
  /\ dOk = FALSE /\ dOut = Null
  /\ retired = {} /\ wasEmpty = TRUE /\ fronts = {}

--------------------------------------------------------------------------------
(* enqueue.  The call allocates node added + 1, whose next is null. *)

EnqueueCall ==
  /\ ePc = "idle" /\ added < MaxItems
  /\ ePc' = "last" /\ eOp' = "enqueue"
  /\ UNCHANGED <<nodes, cells, eTmp, added, eOk, eOut, deqVars, retired, fronts>>

EnqueueLast ==
  /\ ePc = "last"
  /\ eTmp' = last
  /\ ePc' = "fill"
  /\ UNCHANGED <<nodes, cells, eOp, added, eOk, eOut, deqVars, retired, fronts>>

EnqueueFill ==
  /\ ePc = "fill"
  /\ value' = [value EXCEPT ![eTmp] = added]
  /\ ePc' = "link"
  /\ UNCHANGED <<next, cells, eOp, eTmp, added, eOk, eOut, deqVars, retired, fronts>>

(* Mutant of EnqueueLink: moves `last' before the node is linked. *)
EnqueueLinkLast ==
  /\ ePc = "link"
  /\ \/ last = added /\ last' = added + 1 /\ UNCHANGED <<next, ePc>>
     \/ /\ last = added + 1 /\ next' = [next EXCEPT ![eTmp] = added + 1]
        /\ ePc' = "publish" /\ UNCHANGED last
  /\ UNCHANGED <<value, first, announce, freeLater, help, eOp, eTmp, added, eOk, eOut,
                 deqVars, retired, fronts>>

EnqueueLink ==
  /\ ePc = "link"
  /\ next' = [next EXCEPT ![eTmp] = added + 1]
  /\ ePc' = "publish"
  /\ UNCHANGED <<value, cells, eOp, eTmp, added, eOk, eOut, deqVars, retired, fronts>>

EnqueuePublish ==
  /\ ePc = "publish"
  /\ last' = added + 1
  /\ added' = added + 1
  /\ ePc' = "return" /\ eOk' = TRUE
  /\ UNCHANGED <<nodes, first, announce, freeLater, help, eOp, eTmp, eOut, deqVars, retired, fronts>>

EReturn ==
  /\ ePc = "return"
  /\ ePc' = "idle"
  /\ UNCHANGED <<nodes, cells, eOp, eTmp, added, eOk, eOut, deqVars, retired, fronts>>

--------------------------------------------------------------------------------
(* e_read_front. *)

EReadFrontCall ==
  /\ ePc = "idle"
  /\ ePc' = "front" /\ eOp' = "front" /\ eOut' = Null
  /\ fronts' = {Front}
  /\ UNCHANGED <<nodes, cells, eTmp, added, eOk, deqVars, retired>>

EReadFrontFirst ==
  /\ ePc = "front"
  /\ eTmp' = first
  /\ ePc' = "frontLast"
  /\ UNCHANGED <<nodes, cells, eOp, added, eOk, eOut, deqVars, retired, fronts>>

EReadFrontLast ==
  /\ ePc = "frontLast"
  /\ eOk' = (eTmp # last)
  /\ ePc' = IF eTmp # last THEN "announce" ELSE "return"
  /\ UNCHANGED <<nodes, cells, eOp, eTmp, added, eOut, deqVars, retired, fronts>>

EReadFrontAnnounce ==
  /\ ePc = "announce"
  /\ announce' = eTmp
  /\ ePc' = "recheck"
  /\ UNCHANGED <<nodes, first, last, freeLater, help, eOp, eTmp, added, eOk, eOut, deqVars,
                 retired, fronts>>

(* Mutant of EReadFrontRecheck: trusts the announcement alone. *)
EReadFrontUnchecked ==
  /\ ePc = "recheck"
  /\ ePc' = "value"
  /\ UNCHANGED <<nodes, cells, eOp, eTmp, added, eOk, eOut, deqVars, retired, fronts>>

(* Was the node taken before the dequeuer could see the announcement? *)
EReadFrontRecheck ==
  /\ ePc = "recheck"
  /\ ePc' = IF eTmp # first THEN "help" ELSE "value"
  /\ UNCHANGED <<nodes, cells, eOp, eTmp, added, eOk, eOut, deqVars, retired, fronts>>

EReadFrontHelp ==
  /\ ePc = "help"
  /\ eOut' = help
  /\ ePc' = "return"
  /\ UNCHANGED <<nodes, cells, eOp, eTmp, added, eOk, deqVars, retired, fronts>>

EReadFrontValue ==
  /\ ePc = "value"
  /\ eOut' = value[eTmp]
  /\ ePc' = "return"
  /\ UNCHANGED <<nodes, cells, eOp, eTmp, added, eOk, deqVars, retired, fronts>>

--------------------------------------------------------------------------------
(* dequeue and d_read_front. *)

DCall(op) ==
  /\ dPc = "idle"
  /\ dPc' = "first" /\ dOp' = op
  /\ wasEmpty' = (first = last)
  /\ UNCHANGED <<nodes, cells, enqVars, lastCached, dTmp, dNext, dOk, dOut, retired, fronts>>

DFirst ==
  /\ dPc = "first"
  /\ dTmp' = first
  /\ dPc' = IF first = lastCached THEN "last" ELSE "read"
  /\ UNCHANGED <<nodes, cells, enqVars, lastCached, dOp, dNext, dOk, dOut, wasEmpty, retired, fronts>>

(* Mutants of DLast: never refreshes the copy, and polls until there is an  *)
(* element.                                                                 *)
DLastSkipped ==
  /\ dPc = "last"
  /\ dPc' = "return" /\ dOk' = FALSE
  /\ UNCHANGED <<nodes, cells, enqVars, lastCached, dOp, dTmp, dNext, dOut, wasEmpty, retired, fronts>>

DLastPolls ==
  /\ dPc = "last"
  /\ lastCached' = last
  /\ dPc' = IF dTmp = last THEN "first" ELSE "read"
  /\ UNCHANGED <<nodes, cells, enqVars, dOp, dTmp, dNext, dOk, dOut, wasEmpty, retired, fronts>>

(* The copy of `last' shows no element: refresh it, give up if it is true. *)
DLast ==
  /\ dPc = "last"
  /\ lastCached' = last
  /\ \/ dTmp = last /\ dPc' = "return" /\ dOk' = FALSE
     \/ dTmp # last /\ dPc' = "read" /\ UNCHANGED dOk
  /\ UNCHANGED <<nodes, cells, enqVars, dOp, dTmp, dNext, dOut, wasEmpty, retired, fronts>>

DRead ==
  /\ dPc = "read"
  /\ dOut' = value[dTmp]
  /\ \/ dOp = "dequeue" /\ dPc' = "help" /\ UNCHANGED dOk
     \/ dOp = "front" /\ dPc' = "return" /\ dOk' = TRUE
  /\ UNCHANGED <<nodes, cells, enqVars, lastCached, dOp, dTmp, dNext, wasEmpty, retired, fronts>>

(* Mutant of DHelp: leaves the element to the enqueuer only when the enqueuer *)
(* has announced the node already.                                            *)
DHelpAnnounced ==
  /\ dPc = "help"
  /\ help' = IF announce = dTmp THEN dOut ELSE help
  /\ dPc' = "next"
  /\ UNCHANGED <<nodes, first, last, announce, freeLater, enqVars, lastCached, dOp, dTmp, dNext,
                 dOk, dOut, wasEmpty, retired, fronts>>

DHelp ==
  /\ dPc = "help"
  /\ help' = dOut
  /\ dPc' = "next"
  /\ UNCHANGED <<nodes, first, last, announce, freeLater, enqVars, lastCached, dOp, dTmp, dNext,
                 dOk, dOut, wasEmpty, retired, fronts>>

DNext ==
  /\ dPc = "next"
  /\ dNext' = next[dTmp]
  /\ dPc' = "advance"
  /\ UNCHANGED <<nodes, cells, enqVars, lastCached, dOp, dTmp, dOk, dOut, wasEmpty, retired, fronts>>

DAdvance ==
  /\ dPc = "advance"
  /\ first' = dNext
  /\ dPc' = "announced"
  /\ UNCHANGED <<nodes, last, announce, freeLater, help, enqVars, lastCached, dOp, dTmp, dNext,
                 dOk, dOut, wasEmpty, retired>>
  /\ fronts' = fronts \cup {Front'}

(* The enqueuer may be looking into the node it announced: keep it until    *)
(* another one takes its place.                                             *)
DAnnounced ==
  /\ dPc = "announced"
  /\ \/ announce = dTmp /\ dPc' = "keep" /\ UNCHANGED <<retired, dOk>>
     \/ announce # dTmp /\ retired' = retired \cup {dTmp} /\ dPc' = "return" /\ dOk' = TRUE
  /\ UNCHANGED <<nodes, cells, enqVars, lastCached, dOp, dTmp, dNext, dOut, wasEmpty, fronts>>

DKeep ==
  /\ dPc = "keep"
  /\ retired' = retired \cup {freeLater}
  /\ freeLater' = dTmp
  /\ dPc' = "return" /\ dOk' = TRUE
  /\ UNCHANGED <<nodes, first, last, announce, help, enqVars, lastCached, dOp, dTmp, dNext, dOut,
                 wasEmpty, fronts>>

DReturn ==
  /\ dPc = "return"
  /\ dPc' = "idle"
  /\ UNCHANGED <<nodes, cells, enqVars, lastCached, dOp, dTmp, dNext, dOk, dOut, wasEmpty,
                 retired, fronts>>

--------------------------------------------------------------------------------
EnqueuerStep ==
  \/ EnqueueLast \/ EnqueueFill \/ EnqueueLink \/ EnqueuePublish
  \/ EReadFrontFirst \/ EReadFrontLast \/ EReadFrontAnnounce \/ EReadFrontRecheck
  \/ EReadFrontHelp \/ EReadFrontValue
  \/ EReturn

DequeuerStep ==
  \/ DFirst \/ DLast \/ DRead \/ DHelp \/ DNext \/ DAdvance \/ DAnnounced \/ DKeep
  \/ DReturn

Next ==
  \/ EnqueueCall \/ EReadFrontCall \/ EnqueuerStep
  \/ (\E op \in {"dequeue", "front"} : DCall(op)) \/ DequeuerStep

Spec == Init /\ [][Next]_vars

(* A rank that has called an operation keeps executing it. *)
ScheduledSpec == Spec /\ WF_vars(EnqueuerStep) /\ WF_vars(DequeuerStep)

--------------------------------------------------------------------------------
(* Type correctness; in particular `first' is never a null pointer. *)
TypeOK ==
  /\ value \in [Nodes -> Nat \cup {Null}] /\ next \in [Nodes -> Nodes \cup {Null}]
  /\ first \in Nodes /\ last \in Nodes
  /\ announce \in Nodes \cup {Null} /\ freeLater \in Nodes \cup {Spare}
  /\ help \in Nat \cup {Null}
  /\ ePc \in {"idle", "last", "fill", "link", "publish", "front", "frontLast", "announce",
              "recheck", "help", "value", "return"}
  /\ eOp \in {"enqueue", "front"} /\ eTmp \in Nodes /\ added \in 0..MaxItems
  /\ eOk \in BOOLEAN /\ eOut \in Nat \cup {Null}
  /\ lastCached \in Nodes
  /\ dPc \in {"idle", "first", "last", "read", "help", "next", "advance", "announced", "keep",
              "return"}
  /\ dOp \in {"dequeue", "front"} /\ dTmp \in Nodes /\ dNext \in Nodes \cup {Null}
  /\ dOk \in BOOLEAN /\ dOut \in Nat \cup {Null}
  /\ retired \subseteq Nodes \cup {Spare}
  /\ wasEmpty \in BOOLEAN /\ fronts \subseteq Nat \cup {Null}

(***************************************************************************)
(* The announcement protects the reader: were the commented-out calls of   *)
(* BCL::dealloc made, no node would be freed that e_read_front is about to *)
(* look into, that an enqueue fills, or that a later call can reach.       *)
(***************************************************************************)
NoReadAfterFree ==
  /\ ePc \in {"value", "fill", "link"} => eTmp \notin retired
  /\ {first, last, freeLater} \cap retired = {}

(***************************************************************************)
(* The dequeuer only looks into nodes that are filled and linked, and that *)
(* no enqueue is writing to meanwhile.                                     *)
(***************************************************************************)
DequeuerReadsFilled ==
  dPc \in {"read", "help", "next"} =>
    /\ value[dTmp] # Null /\ next[dTmp] # Null
    /\ ePc \in {"fill", "link"} => eTmp # dTmp

(***************************************************************************)
(* e_read_front answers with an element that was at the front at some      *)
(* moment of the call, though it may find it in `help', left there by a    *)
(* dequeue of that element or of a later one; and it reports an empty      *)
(* queue only if it was empty at some moment of the call.                  *)
(***************************************************************************)
FrontWasFront ==
  ePc = "return" /\ eOp = "front" =>
    IF eOk THEN eOut # Null /\ eOut \in fronts ELSE Null \in fronts

(* Wait-freedom: every operation returns, whatever the other side does. *)
EnqueuerReturns == (ePc # "idle") ~> (ePc = "idle")
DequeuerReturns == (dPc # "idle") ~> (dPc = "idle")
CallsReturn == EnqueuerReturns /\ DequeuerReturns

(***************************************************************************)
(* The class implements the abstract queue, without a limit to its size:   *)
(* an enqueue takes effect when it writes `last', a dequeue when it writes *)
(* `first'.  e_read_front takes effect at a moment only its end reveals    *)
(* (see FrontWasFront); the refinement leaves it out.                      *)
(***************************************************************************)
Enqueuing == eOp = "enqueue" /\ ePc # "idle"

Abstract == INSTANCE SpscQueue WITH
  Capacity <- MaxItems, MaxBatch <- 1,
  q <- [i \in 1..(last - first) |-> first + i - 1],
  added <- last,
  eState <- IF ~Enqueuing THEN "idle" ELSE IF ePc = "return" THEN "done" ELSE "called",
  eOp <- "enqueue", eN <- 1,
  eOk <- last > 0, eOut <- Null,
  dState <- IF dPc = "idle" THEN "idle"
            ELSE IF dPc \in {"announced", "keep", "return"} THEN "done" ELSE "called",
  dOk <- IF dPc \in {"announced", "keep"} THEN TRUE ELSE dOk,
  dOut <- IF dPc \in {"announced", "keep"} \/ (dPc = "return" /\ dOk) THEN dOut ELSE Null

(* Linearizability of enqueue, dequeue and d_read_front. *)
Implements == Abstract!Spec

================================================================================
