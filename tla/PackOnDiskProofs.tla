--------------------------- MODULE PackOnDiskProofs ---------------------------
(***************************************************************************)
(* Proofs about PackOnDisk, for every number of layers, every list of      *)
(* stored levels, every set of entries the fingerprint is blind to, and    *)
(* every number of stops: the types, that the ternary index is never ahead *)
(* of its bytes, and that a layer of a served pack is whole unless it was  *)
(* struck.                                                                 *)
(*                                                                         *)
(* The last one needs, for a layer that is not struck, what its entries    *)
(* look like at every point of the work on it.  Two facts carry it.  The   *)
(* level the fingerprint is taken of is written last, so an entry whose    *)
(* fingerprint is the old one can be written again whatever its other      *)
(* levels are, and an entry whose fingerprint is not is moved throughout.  *)
(* And a rewrite always puts down what was read before its first write.    *)
(***************************************************************************)
EXTENDS PackOnDisk, TLAPS

-----------------------------------------------------------------------------
(* The invariant.                                                          *)

\* partition_pack is running.
Partitioning == {"layer", "journal", "entry", "rewrite", "done"}

Unmoved(l, e) == \A p \in Level : order[l][e][p] = 0
Moved(l, e)   == \A p \in Level : order[l][e][p] = 1
Fresh(l)      == \A e \in Entry : order[l][e][Best] = 0

\* A repair will find the entry as it is: not reordered at its best level, or
\* reordered at every level and seen to be.
Pending(l, e) == order[l][e][Best] = 0 \/ (e \notin Blind /\ Moved(l, e))

\* The same entry, when the work on its layer began on fresh values.
Ahead(l, e) == Pending(l, e) /\ (at.repairing \/ order[l][e][Best] = 0)

Struck(l) == \E e \in Entry : <<l, e>> \in struck

\* The layer that is being rewritten, or was until its journal says so.
Working(l) == packPc \in {"entry", "rewrite", "done"} /\ at.layer = l

\* Where the load is, against the journals it has left behind.
PhaseInv ==
    /\ packPc \in Partitioning =>
          /\ ~folded /\ ~partitioned
          /\ \A k \in Layer : k < at.layer => journal[k] = "done"
    /\ packPc \in Partitioning \ {"layer"} => at.layer \in Layer
    /\ packPc = "sweep" => partitioned
    /\ packPc = "served" => folded \/ partitioned
    /\ folded => ~partitioned /\ \A l \in Layer : journal[l] = "none"

\* The journal of the layer the load is at, and the place it starts from.
PlaceInv ==
    /\ packPc \in {"entry", "rewrite"} => journal[at.layer] = "open"
    /\ packPc = "done" => journal[at.layer] \in {"open", "torn"}
    /\ packPc \in {"layer", "journal"} => at.entry = 1
    /\ packPc \in {"layer", "journal", "entry"} => at.level = 1 /\ ~at.half

\* The entry that is being rewritten: the levels behind are moved, the best
\* one is as it was until it is torn, and what is written is what was read.
UnderWay(l) ==
    LET e == FfnNames[at.entry] IN
      /\ value = 0
      /\ \A j \in 1..Len(Levels) : j < at.level => order[l][e][Levels[j]] = 1
      /\ at.half => order[l][e][Levels[at.level]] = Torn
      /\ (at.level = Len(Levels) /\ at.half) \/ order[l][e][Best] = 0

\* What a layer's entries look like, by its journal and the work on it.
Settled(l) ==
    /\ (partitioned \/ journal[l] = "done") => \A e \in Entry : Moved(l, e)
    /\ ~partitioned /\ journal[l] = "none" => \A e \in Entry : Unmoved(l, e)
    /\ journal[l] = "open" => \A e \in Entry : before[l][e] = 0
    /\ journal[l] = "open" /\ ~Working(l) => \A e \in Entry : Pending(l, e)

AtWork(l) ==
    /\ packPc = "journal" /\ at.layer = l => Fresh(l)
    /\ packPc = "done" /\ at.layer = l => \A e \in Entry : Moved(l, e)
    /\ packPc \in {"entry", "rewrite"} /\ at.layer = l =>
          \A i \in 1..3 : i < at.entry => Moved(l, FfnNames[i])
    /\ packPc \in {"entry", "rewrite"} /\ at.layer = l =>
          \A i \in 1..3 :
              (i > at.entry \/ (i = at.entry /\ packPc = "entry")) =>
                  Ahead(l, FfnNames[i])
    /\ packPc = "rewrite" /\ at.layer = l => UnderWay(l)

LayerInv == \A l \in Layer : Struck(l) \/ (Settled(l) /\ AtWork(l))

TernaryInv ==
    /\ q2index => q2bin = "whole"
    /\ packPc = "index" => q2bin = "whole"
    /\ packPc = "ternary" => ~q2index

PackInv == PackTypeOK /\ PhaseInv /\ PlaceInv /\ LayerInv

-----------------------------------------------------------------------------
(* The entries and the levels.                                             *)

\* Three entries, each with one place in the layer's work.
LEMMA EntryFacts ==
  /\ \A i \in 1..3 : FfnNames[i] \in Entry
  /\ \A e \in Entry : \E i \in 1..3 : e = FfnNames[i]
  /\ \A i, j \in 1..3 : FfnNames[i] = FfnNames[j] => i = j
<1>1. FfnNames[1] = "gate" /\ FfnNames[2] = "up" /\ FfnNames[3] = "down"
  BY DEF FfnNames
<1>2. QED  BY <1>1 DEF Entry

LEMMA GateIsAnEntry == "gate" \in Entry
<1>1. FfnNames[1] = "gate"
  BY DEF FfnNames
<1>2. QED  BY <1>1, EntryFacts

\* At least one level, each once, the best one last.
LEMMA LevelFacts ==
  /\ Len(Levels) \in Nat /\ Len(Levels) >= 1
  /\ \A i \in 1..Len(Levels) : Levels[i] \in Level
  /\ \A p \in Level : \E i \in 1..Len(Levels) : p = Levels[i]
  /\ \A i, j \in 1..Len(Levels) : Levels[i] = Levels[j] => i = j
  /\ Best = Levels[Len(Levels)] /\ Best \in Level
<1>1. Len(Levels) \in Nat /\ Len(Levels) >= 1 /\ DOMAIN Levels = 1..Len(Levels)
  BY PackAssumption
<1>2. \A i, j \in 1..Len(Levels) : Levels[i] = Levels[j] => i = j
  BY <1>1, PackAssumption
<1>3. \A i \in 1..Len(Levels) : Levels[i] \in Level
  BY DEF Level
<1>4. Len(Levels) \in 1..Len(Levels)
  BY <1>1
<1>5. QED  BY <1>1, <1>2, <1>3, <1>4 DEF Level, Best

LEMMA LayersNat == Layers \in Nat /\ MaxStops \in Nat
BY PackAssumption

\* A level's values are a number of reorderings, or torn.
LEMMA OrderType ==
  ASSUME PackTypeOK, NEW l \in Layer, NEW e \in Entry, NEW p \in Level
  PROVE  order[l][e][p] \in {Torn} \union Nat
BY DEF PackTypeOK

\* Where in a layer the work can be.
Place == [layer : 1..Layers + 1, entry : 1..3, level : 1..Len(Levels),
          half : BOOLEAN, repairing : BOOLEAN]

\* Reordering makes a new number, and never 0.
LEMMA ReorderedType ==
  ASSUME NEW v \in {Torn} \union Nat
  PROVE  Reordered(v) \in {Torn} \union Nat
BY DEF Reordered, Torn

-----------------------------------------------------------------------------
(* The types.                                                              *)

\* The place the work on a layer starts from.
LEMMA FirstOfType ==
  ASSUME NEW l \in 1..Layers + 1, NEW b \in BOOLEAN
  PROVE  FirstOf(l, b) \in Place
BY LevelFacts, LayersNat DEF FirstOf, Place

LEMMA FirstPlace == FirstOf(1, FALSE) \in Place
<1>1. 1 \in 1..Layers + 1 /\ FALSE \in BOOLEAN
  BY LayersNat
<1>2. QED  BY <1>1, FirstOfType

\* Where the work is has a place, and so has what it moves to.
LEMMA PlaceFacts ==
  ASSUME PackTypeOK
  PROVE  /\ at \in Place
         /\ at.layer \in 1..Layers + 1 /\ at.entry \in 1..3
         /\ at.level \in 1..Len(Levels) /\ at.half \in BOOLEAN
         /\ at.repairing \in BOOLEAN
BY DEF PackTypeOK, Place

LEMMA HalfPlace ==
  ASSUME PackTypeOK
  PROVE  /\ [at EXCEPT !.half = TRUE] \in Place
         /\ [at EXCEPT !.half = TRUE].layer = at.layer
         /\ [at EXCEPT !.half = TRUE].entry = at.entry
         /\ [at EXCEPT !.half = TRUE].level = at.level
         /\ [at EXCEPT !.half = TRUE].half
         /\ [at EXCEPT !.half = TRUE].repairing = at.repairing
BY PlaceFacts DEF Place

LEMMA NextLevelPlace ==
  ASSUME PackTypeOK, at.level < Len(Levels)
  PROVE  LET a == [at EXCEPT !.level = @ + 1, !.half = FALSE] IN
           /\ a \in Place
           /\ a.layer = at.layer /\ a.entry = at.entry
           /\ a.level = at.level + 1 /\ ~a.half /\ a.repairing = at.repairing
<1>1. at.level + 1 \in 1..Len(Levels)
  BY PlaceFacts, LevelFacts
<1>2. QED  BY <1>1, PlaceFacts DEF Place

LEMMA NextEntryPlace ==
  ASSUME PackTypeOK, at.entry < 3
  PROVE  LET a == [at EXCEPT !.entry = @ + 1, !.level = 1, !.half = FALSE] IN
           /\ a \in Place
           /\ a.layer = at.layer /\ a.entry = at.entry + 1
           /\ a.level = 1 /\ ~a.half /\ a.repairing = at.repairing
<1>1. at.entry + 1 \in 1..3 /\ 1 \in 1..Len(Levels)
  BY PlaceFacts, LevelFacts
<1>2. QED  BY <1>1, PlaceFacts DEF Place

\* The next entry's place.
LEMMA EntryDoneType ==
  ASSUME PackTypeOK, EntryDone
  PROVE  at' \in Place /\ packPc' \in {"entry", "done"}
BY NextEntryPlace, PlaceFacts DEF EntryDone

\* The work on a layer is on one of the layers.
LEMMA AtLayerType ==
  ASSUME PackTypeOK, PhaseInv, packPc \in Partitioning \ {"layer"}
  PROVE  at.layer \in Layer
BY DEF PhaseInv

\* It holds at the start: no work has begun.
LEMMA InitPackType == PackInit => PackTypeOK
<1> SUFFICES ASSUME PackInit PROVE PackTypeOK  OBVIOUS
<1>1. at \in Place
  BY FirstPlace DEF PackInit
<1>2. order \in [Layer -> [Entry -> [Level -> {Torn} \union Nat]]]
  BY DEF PackInit
<1>3. stops \in 0..MaxStops /\ struck \in SUBSET (Layer \X Entry)
  BY LayersNat DEF PackInit
<1>4. packPc \in PackStages /\ value \in {Torn} \union Nat
  BY DEF PackInit, PackStages
<1>5. journal \in [Layer -> {"none", "torn", "open", "done"}]
  BY DEF PackInit
<1>6. before \in [Layer -> [Entry -> {Torn} \union Nat]]
  BY DEF PackInit
<1>7. QED  BY <1>1, <1>2, <1>3, <1>4, <1>5, <1>6 DEF PackInit, PackTypeOK, Place

\* Every step keeps the types.
LEMMA PackTypeStep ==
  ASSUME PackTypeOK, PhaseInv, PackNext
  PROVE  PackTypeOK'
<1>1. CASE Ask
  BY <1>1 DEF Ask, PackTypeOK, PackStages, onDisk, journals, work
<1>2. CASE Clear \/ Import
  BY <1>2 DEF Clear, Import, PackTypeOK, PackStages, onDisk, journals, work
<1>3. CASE RenameImport
  BY <1>3 DEF RenameImport, PackTypeOK, PackStages, journals, work
<1>4. CASE CreateTernary \/ AppendTernary \/ IndexTernary
  BY <1>4 DEF CreateTernary, AppendTernary, IndexTernary, PackTypeOK, PackStages, journals, work
<1>5. CASE OpenPack
  BY <1>5, FirstPlace DEF OpenPack, PackTypeOK, PackStages, onDisk, journals, Place
<1>6. CASE NextLayer
  <2>1. at.layer \in Layer /\ at.layer \in 1..Layers + 1 /\ at.layer + 1 \in 1..Layers + 1
    BY <1>6, LayersNat DEF NextLayer, Layer
  <2>2. at' \in Place
    <3>1. at' \in {at, FirstOf(at.layer + 1, FALSE), FirstOf(at.layer, TRUE)}
      BY <1>6 DEF NextLayer
    <3>2. QED  BY <2>1, <3>1, FirstOfType, PlaceFacts
  <2>3. packPc' \in PackStages
    BY <1>6 DEF NextLayer, PackTypeOK, PackStages
  <2>4. QED  BY <1>6, <2>2, <2>3 DEF NextLayer, PackTypeOK, onDisk, journals, Place
<1>7. CASE RefuseJournal
  BY <1>7 DEF RefuseJournal, PackTypeOK, PackStages, onDisk, journals, work
<1>8. CASE EmptyJournal
  BY <1>8 DEF EmptyJournal, PackTypeOK, onDisk, work
<1>9. CASE FillJournal
  <2>1. at.layer \in Layer
    BY <1>9, AtLayerType DEF FillJournal, Partitioning
  <2>2. at.layer + 1 \in 1..Layers + 1
    BY <2>1, LayersNat DEF Layer
  <2>3. at' \in Place
    BY <1>9, <2>2, FirstOfType DEF FillJournal, PackTypeOK, Place
  <2>4. packPc' \in PackStages
    BY <1>9 DEF FillJournal, PackStages
  <2>5. journal' \in [Layer -> {"none", "torn", "open", "done"}]
    BY <1>9 DEF FillJournal, PackTypeOK
  <2>6. before' \in [Layer -> [Entry -> {Torn} \union Nat]]
    <3>1. [e \in Entry |-> order[at.layer][e][Best]] \in [Entry -> {Torn} \union Nat]
      BY <2>1, OrderType, LevelFacts
    <3>2. QED  BY <1>9, <3>1 DEF FillJournal, PackTypeOK
  <2>7. QED  BY <1>9, <2>3, <2>4, <2>5, <2>6 DEF FillJournal, PackTypeOK, onDisk, Place
<1>10. CASE TakeEntry
  <2>1. at.layer \in Layer /\ FfnNames[at.entry] \in Entry
    BY <1>10, AtLayerType, EntryFacts DEF TakeEntry, Partitioning, PackTypeOK
  <2>2. order[at.layer][FfnNames[at.entry]][Best] \in {Torn} \union Nat
    BY <2>1, OrderType, LevelFacts
  <2>3. value' \in {Torn} \union Nat
    BY <1>10, <2>2 DEF TakeEntry, PackTypeOK
  <2>4. /\ at' \in Place
        /\ packPc' \in PackStages
    BY <1>10, EntryDoneType, PlaceFacts DEF TakeEntry, PackStages
  <2>5. QED  BY <1>10, <2>3, <2>4 DEF TakeEntry, PackTypeOK, onDisk, journals, Place
<1>11. CASE WriteLevel
  <2>1. at.layer \in Layer /\ FfnNames[at.entry] \in Entry
    BY <1>11, AtLayerType, EntryFacts DEF WriteLevel, Partitioning, PackTypeOK
  <2>2. Levels[at.level] \in Level
    BY LevelFacts DEF PackTypeOK
  <2>3. order' \in [Layer -> [Entry -> [Level -> {Torn} \union Nat]]]
    <3>1. Reordered(value) \in {Torn} \union Nat
      BY ReorderedType DEF PackTypeOK
    <3>2. PICK v \in {Torn} \union Nat :
            order' = [order EXCEPT
                        ![at.layer][FfnNames[at.entry]][Levels[at.level]] = v]
      BY <1>11, <3>1 DEF WriteLevel, LevelAt
    <3>3. QED  BY <2>1, <2>2, <3>2 DEF PackTypeOK
  <2>4. /\ at' \in Place
        /\ packPc' \in PackStages
    <3>1. CASE ~at.half
      BY <1>11, <3>1, HalfPlace DEF WriteLevel, PackTypeOK
    <3>2. CASE at.half /\ at.level < Len(Levels)
      BY <1>11, <3>2, NextLevelPlace DEF WriteLevel, PackTypeOK
    <3>3. CASE at.half /\ ~(at.level < Len(Levels))
      BY <1>11, <3>3, EntryDoneType DEF WriteLevel, PackStages
    <3>4. QED  BY <3>1, <3>2, <3>3
  <2>5. QED  BY <1>11, <2>3, <2>4 DEF WriteLevel, PackTypeOK, onDisk, journals, Place
<1>12. CASE SaveManifest
  BY <1>12 DEF SaveManifest, PackTypeOK, PackStages, journals, work
<1>13. CASE SweepJournal
  BY <1>13 DEF SweepJournal, PackTypeOK, PackStages, onDisk, work
<1>14. CASE Unload
  BY <1>14 DEF Unload, PackTypeOK, PackStages, onDisk, journals, work
<1>15. CASE Stop
  <2>1. struck' \in SUBSET (Layer \X Entry)
    BY <1>15 DEF Stop, PackTypeOK
  <2>2. stops' \in 0..MaxStops
    BY <1>15, LayersNat DEF Stop, PackTypeOK
  <2>3. QED  BY <1>15, <2>1, <2>2 DEF Stop, PackTypeOK, PackStages, onDisk, journals
<1>16. CASE MissJournal
  <2>1. struck' \in SUBSET (Layer \X Entry)
    BY <1>16 DEF MissJournal, PackTypeOK
  <2>2. stops' \in 0..MaxStops
    BY <1>16, LayersNat DEF MissJournal, PackTypeOK
  <2>3. QED  BY <1>16, <2>1, <2>2 DEF MissJournal, PackTypeOK, PackStages, onDisk, journals
<1>17. QED
  BY <1>1, <1>2, <1>3, <1>4, <1>5, <1>6, <1>7, <1>8, <1>9, <1>10, <1>11, <1>12,
     <1>13, <1>14, <1>15, <1>16
  DEF PackNext, PackStep

-----------------------------------------------------------------------------
(* What a step may do.                                                     *)

\* Outside the partition no journal and no level is written.
Aside ==
    /\ packPc \notin Partitioning /\ packPc' \notin Partitioning
    /\ UNCHANGED <<journals, order, struck>>

LEMMA AsideSteps ==
  ASSUME \/ Ask \/ Clear \/ Import \/ RenameImport \/ CreateTernary
         \/ AppendTernary \/ IndexTernary \/ Unload
  PROVE  /\ Aside /\ UNCHANGED <<partitioned, folded>>
         /\ packPc' \notin {"sweep", "served"}
<1>1. CASE Ask
  BY <1>1 DEF Ask, Aside, Partitioning, onDisk, work
<1>2. CASE Clear \/ Import
  BY <1>2 DEF Clear, Import, Aside, Partitioning, onDisk, work
<1>3. CASE RenameImport
  BY <1>3 DEF RenameImport, Aside, Partitioning, work
<1>4. CASE CreateTernary
  BY <1>4 DEF CreateTernary, Aside, Partitioning, work
<1>5. CASE AppendTernary \/ IndexTernary
  BY <1>5 DEF AppendTernary, IndexTernary, Aside, Partitioning, work
<1>6. CASE Unload
  BY <1>6 DEF Unload, Aside, Partitioning, onDisk, work
<1>7. QED  BY <1>1, <1>2, <1>3, <1>4, <1>5, <1>6

-----------------------------------------------------------------------------
(* The phases and the place.                                               *)

LEMMA InitPhase == PackInit => PhaseInv /\ PlaceInv
BY DEF PackInit, PhaseInv, PlaceInv, Partitioning

\* Every step keeps what the load's phase says of the journals behind it.
LEMMA PhaseStep ==
  ASSUME PackTypeOK, PhaseInv, PlaceInv, PackNext
  PROVE  PhaseInv'
<1>1. CASE \/ Ask \/ Clear \/ Import \/ RenameImport \/ CreateTernary
           \/ AppendTernary \/ IndexTernary \/ Unload
  BY <1>1, AsideSteps DEF Aside, PhaseInv, journals
<1>2. CASE OpenPack
  <2>1. at'.layer = 1
    BY <1>2 DEF OpenPack, FirstOf
  <2>2. \A k \in Layer : ~(k < 1)
    BY LayersNat DEF Layer
  <2>3. QED  BY <1>2, <2>1, <2>2 DEF OpenPack, PhaseInv, Partitioning, onDisk, journals
<1>3. CASE NextLayer
  <2> USE <1>3 DEF NextLayer, onDisk, journals
  <2>1. UNCHANGED <<folded, partitioned, journal>> /\ packPc = "layer" /\ at.layer \in Layer
    OBVIOUS
  <2>2. packPc' \in Partitioning
    BY DEF Partitioning
  <2>3. \A k \in Layer : k < at'.layer => journal[k] = "done"
    <3>1. \A k \in Layer : k < at.layer => journal[k] = "done"
      BY DEF PhaseInv, Partitioning
    <3>2. CASE at'.layer = at.layer
      BY <3>1, <3>2
    <3>3. CASE at'.layer = at.layer + 1 /\ journal[at.layer] = "done"
      BY <3>1, <3>3, LayersNat DEF Layer
    <3>4. QED  BY <3>2, <3>3 DEF FirstOf
  <2>4. packPc' # "layer" => at'.layer \in Layer
    BY DEF FirstOf
  <2>5. QED  BY <2>1, <2>2, <2>3, <2>4 DEF PhaseInv, Partitioning
<1>4. CASE RefuseJournal
  BY <1>4 DEF RefuseJournal, PhaseInv, Partitioning, onDisk, journals
<1>5. CASE EmptyJournal
  <2>1. at.layer \in Layer /\ packPc \in Partitioning
    BY <1>5 DEF EmptyJournal, PhaseInv, Partitioning
  <2>2. \A k \in Layer : k < at.layer => journal'[k] = "done"
    BY <1>5, <2>1, LayersNat DEF EmptyJournal, PhaseInv, PackTypeOK, Layer
  <2>3. QED  BY <1>5, <2>1, <2>2 DEF EmptyJournal, PhaseInv, onDisk, work
<1>6. CASE FillJournal
  <2>1. at.layer \in Layer /\ packPc \in Partitioning
    BY <1>6 DEF FillJournal, PhaseInv, Partitioning
  <2>2. \A k \in Layer : k < at.layer => journal[k] = "done"
    BY <2>1 DEF PhaseInv
  <2>3. packPc' \in Partitioning /\ UNCHANGED <<folded, partitioned>>
    BY <1>6 DEF FillJournal, Partitioning, onDisk
  <2>4. \A k \in Layer : k < at'.layer => journal'[k] = "done"
    <3>1. CASE packPc = "journal"
      BY <1>6, <2>1, <2>2, <3>1, LayersNat DEF FillJournal, PackTypeOK, Layer
    <3>2. CASE packPc = "done"
      <4>1. at'.layer = at.layer + 1
        BY <1>6, <3>2 DEF FillJournal, FirstOf
      <4>2. journal'[at.layer] = "done" /\ \A k \in Layer : k # at.layer => journal'[k] = journal[k]
        BY <1>6, <2>1, <3>2 DEF FillJournal, PackTypeOK
      <4>3. QED  BY <2>1, <2>2, <4>1, <4>2, LayersNat DEF Layer
    <3>3. QED  BY <1>6, <3>1, <3>2 DEF FillJournal
  <2>5. packPc' # "layer" => at'.layer \in Layer
    BY <1>6, <2>1 DEF FillJournal
  <2>6. QED  BY <2>1, <2>3, <2>4, <2>5 DEF PhaseInv, Partitioning
<1>7. CASE TakeEntry \/ WriteLevel
  <2>1. packPc \in Partitioning \ {"layer"} /\ UNCHANGED <<folded, partitioned, journal>>
    BY <1>7 DEF TakeEntry, WriteLevel, Partitioning, onDisk, journals
  <2>2. at'.layer = at.layer /\ packPc' \in Partitioning
    <3>1. EntryDone => at'.layer = at.layer /\ packPc' \in Partitioning
      BY NextEntryPlace DEF EntryDone, Partitioning
    <3>2. CASE TakeEntry
      BY <3>1, <3>2 DEF TakeEntry, Partitioning
    <3>3. CASE WriteLevel
      BY <2>1, <3>1, <3>3, HalfPlace, NextLevelPlace DEF WriteLevel
    <3>4. QED  BY <1>7, <3>2, <3>3
  <2>3. QED  BY <2>1, <2>2 DEF PhaseInv, Partitioning
<1>8. CASE SaveManifest
  BY <1>8 DEF SaveManifest, PhaseInv, Partitioning, journals
<1>9. CASE SweepJournal
  BY <1>9 DEF SweepJournal, PhaseInv, Partitioning, onDisk, journals
<1>10. CASE Stop
  BY <1>10 DEF Stop, PhaseInv, Partitioning, onDisk, journals
<1>11. CASE MissJournal
  BY <1>11 DEF MissJournal, PhaseInv, Partitioning, onDisk, journals
<1>12. QED
  BY <1>1, <1>2, <1>3, <1>4, <1>5, <1>6, <1>7, <1>8, <1>9, <1>10, <1>11
  DEF PackNext, PackStep

\* Every step keeps what it says of the journal of the layer it is at.
LEMMA PlaceStep ==
  ASSUME PackTypeOK, PhaseInv, PlaceInv, PackNext
  PROVE  PlaceInv'
<1>0. packPc' \notin Partitioning => PlaceInv'
  BY DEF PlaceInv, Partitioning
<1>1. CASE \/ Ask \/ Clear \/ Import \/ RenameImport \/ CreateTernary
           \/ AppendTernary \/ IndexTernary \/ Unload
  BY <1>0, <1>1, AsideSteps DEF Aside
<1>2. CASE OpenPack
  BY <1>2 DEF OpenPack, PlaceInv, FirstOf
<1>3. CASE NextLayer
  BY <1>3 DEF NextLayer, PlaceInv, FirstOf, onDisk, journals
<1>4. CASE RefuseJournal \/ SaveManifest \/ SweepJournal \/ Stop
  BY <1>0, <1>4 DEF RefuseJournal, SaveManifest, SweepJournal, Stop, Partitioning
<1>5. CASE EmptyJournal
  <2>1. at.layer \in Layer
    BY <1>5 DEF EmptyJournal, PhaseInv, Partitioning
  <2>2. journal'[at.layer] = "torn" /\ UNCHANGED <<packPc, at>>
    BY <1>5, <2>1 DEF EmptyJournal, PackTypeOK, work
  <2>3. QED  BY <1>5, <2>2 DEF EmptyJournal, PlaceInv
<1>6. CASE FillJournal
  <2>1. at.layer \in Layer
    BY <1>6 DEF FillJournal, PhaseInv, Partitioning
  <2>2. CASE packPc = "journal"
    BY <1>6, <2>1, <2>2 DEF FillJournal, PlaceInv, PackTypeOK
  <2>3. CASE packPc = "done"
    BY <1>6, <2>3 DEF FillJournal, PlaceInv, FirstOf
  <2>4. QED  BY <1>6, <2>2, <2>3 DEF FillJournal
<1>7. CASE TakeEntry \/ WriteLevel
  <2>1. journal[at.layer] = "open" /\ UNCHANGED journal
    BY <1>7 DEF TakeEntry, WriteLevel, PlaceInv, journals
  <2>2. at'.layer = at.layer
    BY <1>7, NextEntryPlace, NextLevelPlace, HalfPlace DEF TakeEntry, WriteLevel, EntryDone
  <2>3. packPc' \in {"entry", "rewrite", "done"} /\ (packPc' = "entry" => at'.level = 1 /\ ~at'.half)
    BY <1>7, NextEntryPlace DEF TakeEntry, WriteLevel, EntryDone
  <2>4. QED  BY <2>1, <2>2, <2>3 DEF PlaceInv
<1>8. CASE MissJournal
  BY <1>8 DEF MissJournal, PlaceInv
<1>9. QED
  BY <1>1, <1>2, <1>3, <1>4, <1>5, <1>6, <1>7, <1>8 DEF PackNext, PackStep

-----------------------------------------------------------------------------
(* The layers.                                                             *)

\* It holds at the start: nothing is reordered.
LEMMA InitLayer == PackInit => LayerInv
<1> SUFFICES ASSUME PackInit, NEW l \in Layer
             PROVE  Settled(l) /\ AtWork(l)
  BY DEF LayerInv
<1>1. \A e \in Entry : Unmoved(l, e)
  BY DEF PackInit, Unmoved
<1>2. Settled(l)
  BY <1>1 DEF PackInit, Settled
<1>3. AtWork(l)
  BY DEF PackInit, AtWork
<1>4. QED  BY <1>2, <1>3

\* The load has this layer in hand.
InHand(l) == packPc \in {"journal", "entry", "rewrite", "done"} /\ at.layer = l

\* A layer that is not touched stays as it was.
LEMMA LeftAlone ==
  ASSUME NEW l \in Layer, Settled(l),
         UNCHANGED <<partitioned, journal[l], before[l], order[l]>>,
         ~InHand(l), ~InHand(l)'
  PROVE  Settled(l)' /\ AtWork(l)'
<1>1. \A e \in Entry :
        /\ Moved(l, e) = Moved(l, e)' /\ Unmoved(l, e) = Unmoved(l, e)'
        /\ Pending(l, e) = Pending(l, e)'
  BY DEF Moved, Unmoved, Pending
<1>2. ~Working(l) /\ ~Working(l)'
  BY DEF InHand, Working
<1>3. Settled(l)'
  BY <1>1, <1>2 DEF Settled
<1>4. AtWork(l)'
  BY DEF InHand, AtWork
<1>5. QED  BY <1>3, <1>4

\* When no layer is in hand, before or after, every layer stays.
LEMMA QuietLayers ==
  ASSUME LayerInv, UNCHANGED <<partitioned, journals, order, struck>>,
         packPc \notin Partitioning \ {"layer"},
         packPc' \notin Partitioning \ {"layer"}
  PROVE  LayerInv'
<1> SUFFICES ASSUME NEW l \in Layer, ~Struck(l)'
             PROVE  Settled(l)' /\ AtWork(l)'
  BY DEF LayerInv
<1>1. Settled(l)
  BY DEF LayerInv, Struck
<1>2. ~InHand(l) /\ ~InHand(l)'
  BY DEF InHand, Partitioning
<1>3. QED  BY <1>1, <1>2, LeftAlone DEF journals

\* The loop's head: a layer is taken as its journal left it.
LEMMA NextLayerKeeps ==
  ASSUME PackTypeOK, PhaseInv, PlaceInv, LayerInv, NextLayer
  PROVE  LayerInv'
<1> SUFFICES ASSUME NEW l \in Layer, ~Struck(l)'
             PROVE  Settled(l)' /\ AtWork(l)'
  BY DEF LayerInv
<1>1. UNCHANGED <<partitioned, journal, before, order, value, struck>> /\ packPc = "layer"
  BY DEF NextLayer, onDisk, journals
<1>2. Settled(l)
  BY <1>1 DEF LayerInv, Struck
<1>3. ~partitioned
  BY <1>1 DEF PhaseInv, Partitioning
<1>4. ~InHand(l) /\ ~Working(l)
  BY <1>1 DEF InHand, Working
<1>5. CASE l # at.layer \/ journal[at.layer] = "done"
  <2>1. ~InHand(l)'
    BY <1>5 DEF NextLayer, InHand, FirstOf
  <2>2. QED  BY <1>1, <1>2, <1>4, <2>1, LeftAlone
<1>6. CASE l = at.layer /\ journal[at.layer] = "open"
  <2>1. /\ packPc' = "entry" /\ at'.layer = l
        /\ at'.entry = 1 /\ at'.repairing
    BY <1>6 DEF NextLayer, FirstOf
  <2>2. \A e \in Entry : Pending(l, e)
    BY <1>2, <1>4, <1>6 DEF Settled
  <2>3. \A e \in Entry : Ahead(l, e)'
    BY <1>1, <2>1, <2>2 DEF Ahead, Pending, Moved
  <2>4. Settled(l)'
    BY <1>1, <1>2, <1>3, <1>6, <2>1 DEF Settled, Working
  <2>5. AtWork(l)'
    BY <2>1, <2>3, EntryFacts DEF AtWork
  <2>6. QED  BY <2>4, <2>5
<1>7. CASE l = at.layer /\ journal[at.layer] = "none"
  <2>1. packPc' = "journal" /\ UNCHANGED at
    BY <1>7 DEF NextLayer
  <2>2. \A e \in Entry : Unmoved(l, e) /\ Unmoved(l, e)'
    BY <1>1, <1>2, <1>3, <1>7 DEF Settled, Unmoved
  <2>3. Settled(l)'
    BY <1>1, <1>3, <1>7, <2>2 DEF Settled
  <2>4. Fresh(l)'
    BY <2>2, LevelFacts DEF Fresh, Unmoved
  <2>5. AtWork(l)'
    BY <2>1, <2>4 DEF AtWork
  <2>6. QED  BY <2>3, <2>5
<1>8. QED  BY <1>5, <1>6, <1>7 DEF NextLayer

\* A layer whose journal is taken for none is clustered from fresh values,
\* unless one of its entries is struck.
LEMMA MissKeeps ==
  ASSUME PackTypeOK, PhaseInv, LayerInv, MissJournal
  PROVE  LayerInv'
<1> SUFFICES ASSUME NEW l \in Layer, ~Struck(l)'
             PROVE  Settled(l)' /\ AtWork(l)'
  BY DEF LayerInv
<1>1. /\ UNCHANGED <<partitioned, journal, before, order, at>>
      /\ packPc = "layer" /\ packPc' = "journal" /\ struck \subseteq struck'
  BY DEF MissJournal, onDisk, journals
<1>2. Settled(l)
  BY <1>1 DEF LayerInv, Struck
<1>3. \A e \in Entry :
        /\ Moved(l, e) = Moved(l, e)' /\ Unmoved(l, e) = Unmoved(l, e)'
        /\ Pending(l, e) = Pending(l, e)'
  BY <1>1 DEF Moved, Unmoved, Pending
<1>4. Settled(l)'
  BY <1>1, <1>2, <1>3 DEF Settled, Working
<1>5. at.layer = l => Fresh(l)
  <2> SUFFICES ASSUME at.layer = l, NEW e \in Entry, order[l][e][Best] # 0
               PROVE  FALSE
    BY DEF Fresh
  <2>1. <<l, e>> \in struck'
    BY DEF MissJournal
  <2>2. QED  BY <2>1 DEF Struck
<1>6. AtWork(l)'
  BY <1>1, <1>5 DEF AtWork, Fresh
<1>7. QED  BY <1>4, <1>6

\* Before its journal is whole a layer is not reordered, and when it is
\* marked done every entry is.
LEMMA JournalKeeps ==
  ASSUME PackTypeOK, PhaseInv, PlaceInv, LayerInv, EmptyJournal \/ FillJournal
  PROVE  LayerInv'
<1> SUFFICES ASSUME NEW l \in Layer, ~Struck(l)'
             PROVE  Settled(l)' /\ AtWork(l)'
  BY DEF LayerInv
<1>1. UNCHANGED <<partitioned, order, struck>> /\ packPc \in {"journal", "done"}
  BY DEF EmptyJournal, FillJournal, onDisk, work
<1>2. Settled(l) /\ AtWork(l)
  BY <1>1 DEF LayerInv, Struck
<1>3. ~partitioned /\ at.layer \in Layer
  BY <1>1 DEF PhaseInv, Partitioning
<1>4. \A e \in Entry :
        Moved(l, e) = Moved(l, e)' /\ Unmoved(l, e) = Unmoved(l, e)'
  BY <1>1 DEF Moved, Unmoved
<1>5. CASE l # at.layer
  <2>1. journal'[l] = journal[l] /\ before'[l] = before[l] /\ order'[l] = order[l]
    BY <1>1, <1>3, <1>5 DEF EmptyJournal, FillJournal, PackTypeOK
  <2>2. ~InHand(l) /\ ~InHand(l)'
    BY <1>5 DEF EmptyJournal, FillJournal, InHand, work
  <2>3. QED  BY <1>1, <1>2, <2>1, <2>2, LeftAlone
<1>6. CASE l = at.layer /\ EmptyJournal
  <2>1. journal'[l] = "torn" /\ UNCHANGED <<packPc, at>>
    BY <1>3, <1>6 DEF EmptyJournal, PackTypeOK, work
  <2>2. Settled(l)'
    BY <1>1, <1>3, <2>1 DEF Settled
  <2>3. AtWork(l)'
    BY <1>1, <1>2, <1>4, <2>1 DEF AtWork, Fresh
  <2>4. QED  BY <2>2, <2>3
<1>7. CASE l = at.layer /\ FillJournal /\ packPc = "journal"
  <2>1. journal'[l] = "open" /\ packPc' = "entry" /\ UNCHANGED at
    BY <1>3, <1>7 DEF FillJournal, PackTypeOK
  <2>2. at.entry = 1
    BY <1>7 DEF PlaceInv
  <2>3. \A e \in Entry : order[l][e][Best] = 0
    BY <1>2, <1>7 DEF AtWork, Fresh
  <2>4. \A e \in Entry : Ahead(l, e)'
    BY <1>1, <2>3 DEF Ahead, Pending
  <2>5. \A e \in Entry : before'[l][e] = 0
    BY <1>3, <1>7, <2>3 DEF FillJournal, PackTypeOK
  <2>6. Settled(l)'
    BY <1>1, <1>3, <1>7, <2>1, <2>5 DEF Settled, Working
  <2>7. AtWork(l)'
    BY <2>1, <2>2, <2>4, EntryFacts DEF AtWork
  <2>8. QED  BY <2>6, <2>7
<1>8. CASE l = at.layer /\ FillJournal /\ packPc = "done"
  <2>1. journal'[l] = "done" /\ packPc' = "layer"
    BY <1>3, <1>8 DEF FillJournal, PackTypeOK
  <2>2. \A e \in Entry : Moved(l, e)'
    BY <1>2, <1>4, <1>8 DEF AtWork
  <2>3. Settled(l)' /\ AtWork(l)'
    BY <1>1, <1>3, <2>1, <2>2 DEF Settled, AtWork
  <2>4. QED  BY <2>3
<1>9. QED  BY <1>1, <1>5, <1>6, <1>7, <1>8

\* The manifest takes the partition with every layer done, and then the
\* journals go.
LEMMA SaveKeeps ==
  ASSUME PackTypeOK, PhaseInv, LayerInv, SaveManifest \/ SweepJournal
  PROVE  LayerInv'
<1> SUFFICES ASSUME NEW l \in Layer, ~Struck(l)'
             PROVE  Settled(l)' /\ AtWork(l)'
  BY DEF LayerInv
<1>1. /\ UNCHANGED <<order, struck>> /\ partitioned'
      /\ packPc' \in {"sweep", "served"}
  BY DEF SaveManifest, SweepJournal, PhaseInv, onDisk, work
<1>2. Settled(l)
  BY <1>1 DEF LayerInv, Struck
<1>3. partitioned \/ journal[l] = "done"
  <2>1. CASE SaveManifest
    <3>1. l < at.layer
      BY <2>1, PlaceFacts, LayersNat DEF SaveManifest, Layer
    <3>2. QED  BY <2>1, <3>1 DEF SaveManifest, PhaseInv, Partitioning
  <2>2. CASE SweepJournal
    BY <2>2 DEF SweepJournal, PhaseInv
  <2>3. QED  BY <2>1, <2>2
<1>4. \A e \in Entry : Moved(l, e)'
  BY <1>1, <1>2, <1>3 DEF Settled, Moved
<1>5. journal'[l] # "open"
  BY <1>1, <1>3 DEF SaveManifest, SweepJournal, PhaseInv, Partitioning, journals
<1>6. Settled(l)' /\ AtWork(l)'
  BY <1>1, <1>4, <1>5 DEF Settled, AtWork
<1>7. QED  BY <1>6

\* What is known of an entry when its turn comes.
LEMMA TurnOf ==
  ASSUME PackTypeOK, NEW l \in Layer, AtWork(l),
         packPc \in {"entry", "rewrite"}, at.layer = l,
         NEW i \in 1..3
  PROVE  /\ i < at.entry => Moved(l, FfnNames[i])
         /\ i > at.entry => Ahead(l, FfnNames[i])
         /\ i = at.entry /\ packPc = "entry" => Ahead(l, FfnNames[i])
BY DEF AtWork

\* An entry that a repair passes over is reordered throughout; one that is
\* rewritten has its old values.
LEMMA TakeKeeps ==
  ASSUME PackTypeOK, PhaseInv, PlaceInv, LayerInv, TakeEntry
  PROVE  LayerInv'
<1> SUFFICES ASSUME NEW l \in Layer, ~Struck(l)'
             PROVE  Settled(l)' /\ AtWork(l)'
  BY DEF LayerInv
<1> DEFINE e == FfnNames[at.entry]
<1>1. UNCHANGED <<partitioned, journal, before, order, struck>> /\ packPc = "entry"
  BY DEF TakeEntry, onDisk, journals
<1>2. Settled(l) /\ AtWork(l)
  BY <1>1 DEF LayerInv, Struck
<1>3. ~partitioned /\ at.layer \in Layer /\ journal[at.layer] = "open"
  BY <1>1 DEF PhaseInv, PlaceInv, Partitioning
<1>4. at.entry \in 1..3 /\ e \in Entry /\ at.level = 1 /\ ~at.half
  BY <1>1, PlaceFacts, EntryFacts DEF PlaceInv
<1>5. at'.layer = at.layer /\ packPc' \in {"entry", "rewrite", "done"}
  BY NextEntryPlace DEF TakeEntry, EntryDone
<1>6. CASE l # at.layer
  <2>1. ~InHand(l) /\ ~InHand(l)'
    BY <1>5, <1>6 DEF InHand
  <2>2. QED  BY <1>1, <1>2, <2>1, LeftAlone
<1>7. CASE l = at.layer
  <2>1. Settled(l)'
    BY <1>1, <1>2, <1>3, <1>5, <1>7 DEF Settled, Working
  <2>2. Ahead(l, e) /\ before[l][e] = 0
    BY <1>1, <1>2, <1>3, <1>4, <1>7, TurnOf DEF Settled
  <2>3. \A f \in Entry : Moved(l, f) = Moved(l, f)'
    BY <1>1 DEF Moved
  <2>4. CASE at.repairing /\ ~LooksUntouched(l, e)
    <3>1. Moved(l, e)
      BY <2>2, <2>4 DEF LooksUntouched, Ahead, Pending
    <3>2. \A i \in 1..3 : i <= at.entry => Moved(l, FfnNames[i])'
      BY <1>1, <1>2, <1>4, <1>7, <2>3, <3>1, TurnOf, EntryFacts
    <3>3. CASE at.entry < 3
      <4>1. packPc' = "entry" /\ at'.entry = at.entry + 1 /\ at'.repairing = at.repairing
        BY <1>7, <2>4, <3>3, NextEntryPlace DEF TakeEntry, EntryDone
      <4>2. \A i \in 1..3 : i > at.entry => Ahead(l, FfnNames[i])'
        <5>1. \A i \in 1..3 : i > at.entry => Ahead(l, FfnNames[i])
          BY <1>1, <1>2, <1>7, TurnOf
        <5>2. QED  BY <1>1, <2>3, <4>1, <5>1, EntryFacts DEF Ahead, Pending
      <4>3. \A i \in 1..3 : i < at'.entry => Moved(l, FfnNames[i])'
        BY <1>4, <3>2, <4>1
      <4>4. \A i \in 1..3 : (i > at'.entry \/ i = at'.entry) => Ahead(l, FfnNames[i])'
        BY <1>4, <4>1, <4>2
      <4>5. AtWork(l)'
        BY <4>1, <4>3, <4>4 DEF AtWork
      <4>6. QED  BY <2>1, <4>5
    <3>4. CASE ~(at.entry < 3)
      <4>1. packPc' = "done"
        BY <1>7, <2>4, <3>4 DEF TakeEntry, EntryDone
      <4>2. \A f \in Entry : Moved(l, f)'
        BY <1>4, <3>2, <3>4, EntryFacts
      <4>3. AtWork(l)'
        BY <4>1, <4>2 DEF AtWork
      <4>4. QED  BY <2>1, <4>3
    <3>5. QED  BY <3>3, <3>4
  <2>5. CASE ~(at.repairing /\ ~LooksUntouched(l, e))
    <3>1. /\ packPc' = "rewrite" /\ UNCHANGED at
          /\ value' = order[l][e][Best]
      BY <1>7, <2>5 DEF TakeEntry
    <3>2. order[l][e][Best] = 0
      BY <2>2, <2>5 DEF LooksUntouched, Ahead, Pending
    <3>3. UnderWay(l)'
      BY <1>1, <1>4, <3>1, <3>2, LevelFacts DEF UnderWay
    <3>4. \A i \in 1..3 : i < at'.entry => Moved(l, FfnNames[i])'
      BY <1>1, <1>2, <1>7, <2>3, <3>1, TurnOf, EntryFacts
    <3>5. \A i \in 1..3 : i > at'.entry => Ahead(l, FfnNames[i])'
      <4>1. \A i \in 1..3 : i > at.entry => Ahead(l, FfnNames[i])
        BY <1>1, <1>2, <1>7, TurnOf
      <4>2. QED  BY <1>1, <2>3, <3>1, <4>1, EntryFacts DEF Ahead, Pending
    <3>6. AtWork(l)'
      BY <3>1, <3>3, <3>4, <3>5 DEF AtWork
    <3>7. QED  BY <2>1, <3>6
  <2>6. QED  BY <2>4, <2>5
<1>8. QED  BY <1>6, <1>7

\* A level is torn, then written: no other level changes.
LEMMA WriteFacts ==
  ASSUME PackTypeOK, PhaseInv, WriteLevel
  PROVE  LET e == FfnNames[at.entry]
             p == Levels[at.level]
             v == IF at.half THEN Reordered(value) ELSE Torn IN
           /\ at.layer \in Layer /\ e \in Entry /\ p \in Level
           /\ order'[at.layer][e][p] = v
           /\ \A l \in Layer : l # at.layer => order'[l] = order[l]
           /\ \A f \in Entry : f # e => order'[at.layer][f] = order[at.layer][f]
           /\ \A q \in Level : q # p => order'[at.layer][e][q] = order[at.layer][e][q]
<1> DEFINE e == FfnNames[at.entry]
           p == Levels[at.level]
           v == IF at.half THEN Reordered(value) ELSE Torn
<1>1. at.layer \in Layer
  BY DEF WriteLevel, PhaseInv, Partitioning
<1>2. e \in Entry /\ p \in Level
  BY PlaceFacts, EntryFacts, LevelFacts
<1>3. order' = [order EXCEPT ![at.layer][e][p] = v]
  BY DEF WriteLevel, LevelAt
<1>4. QED  BY <1>1, <1>2, <1>3 DEF PackTypeOK

\* A write tears a level or puts down the reordering of what was read; when
\* the last level is down, the entry is reordered throughout.
LEMMA WriteKeeps ==
  ASSUME PackTypeOK, PhaseInv, PlaceInv, LayerInv, WriteLevel
  PROVE  LayerInv'
<1> SUFFICES ASSUME NEW l \in Layer, ~Struck(l)'
             PROVE  Settled(l)' /\ AtWork(l)'
  BY DEF LayerInv
<1> DEFINE e == FfnNames[at.entry]
           p == Levels[at.level]
<1>1. UNCHANGED <<partitioned, journal, before, value, struck>> /\ packPc = "rewrite"
  BY DEF WriteLevel, onDisk, journals
<1>2. Settled(l) /\ AtWork(l)
  BY <1>1 DEF LayerInv, Struck
<1>3. ~partitioned /\ at.layer \in Layer /\ journal[at.layer] = "open"
  BY <1>1 DEF PhaseInv, PlaceInv, Partitioning
<1>4. /\ at.entry \in 1..3 /\ e \in Entry
      /\ at.level \in 1..Len(Levels) /\ at.half \in BOOLEAN
  BY PlaceFacts, EntryFacts
<1>5. at'.layer = at.layer /\ packPc' \in {"entry", "rewrite", "done"}
  BY NextEntryPlace, NextLevelPlace, HalfPlace DEF WriteLevel, EntryDone
<1>6. CASE l # at.layer
  <2>1. ~InHand(l) /\ ~InHand(l)'
    BY <1>5, <1>6 DEF InHand
  <2>2. order'[l] = order[l]
    BY <1>6, WriteFacts
  <2>3. QED  BY <1>1, <1>2, <2>1, <2>2, LeftAlone
<1>7. CASE l = at.layer
  <2>1. Settled(l)'
    BY <1>1, <1>2, <1>3, <1>5, <1>7 DEF Settled, Working
  <2>2. UnderWay(l)
    BY <1>1, <1>2, <1>7 DEF AtWork
  <2>3. \A f \in Entry : f # e => order'[l][f] = order[l][f]
    BY <1>7, WriteFacts
  <2>4. \A q \in Level : q # p => order'[l][e][q] = order[l][e][q]
    BY <1>7, WriteFacts
  <2>5. \A i \in 1..3 : i # at.entry => FfnNames[i] \in Entry /\ FfnNames[i] # e
    BY <1>4, EntryFacts
  <2>6. \A i \in 1..3 : i < at.entry => Moved(l, FfnNames[i])'
    <3>1. \A i \in 1..3 : i < at.entry => Moved(l, FfnNames[i])
      BY <1>1, <1>2, <1>7, TurnOf
    <3>2. QED  BY <1>4, <2>3, <2>5, <3>1 DEF Moved
  <2>7. at'.repairing = at.repairing =>
          \A i \in 1..3 : i > at.entry => Ahead(l, FfnNames[i])'
    <3>1. \A i \in 1..3 : i > at.entry => Ahead(l, FfnNames[i])
      BY <1>1, <1>2, <1>7, TurnOf
    <3>2. QED  BY <1>4, <2>3, <2>5, <3>1 DEF Ahead, Pending, Moved
  <2>8. CASE ~at.half
    <3>1. /\ at'.layer = at.layer /\ at'.entry = at.entry
          /\ at'.level = at.level /\ at'.half
          /\ at'.repairing = at.repairing /\ packPc' = "rewrite"
      BY <1>1, <2>8, HalfPlace DEF WriteLevel
    <3>2. order'[l][e][p] = Torn
      BY <1>7, <2>8, WriteFacts
    <3>3. \A j \in 1..Len(Levels) : j < at.level => order'[l][e][Levels[j]] = 1
      BY <1>4, <2>2, <2>4, LevelFacts DEF UnderWay
    <3>4. at.level = Len(Levels) \/ order'[l][e][Best] = 0
      BY <1>4, <2>2, <2>4, <2>8, LevelFacts DEF UnderWay
    <3>5. UnderWay(l)'
      BY <1>1, <2>2, <3>1, <3>2, <3>3, <3>4 DEF UnderWay
    <3>6. AtWork(l)'
      BY <2>6, <2>7, <3>1, <3>5 DEF AtWork
    <3>7. QED  BY <2>1, <3>6
  <2>9. CASE at.half
    <3>1. order'[l][e][p] = 1
      BY <1>7, <2>2, <2>9, WriteFacts DEF UnderWay, Reordered, Torn
    <3>2. \A j \in 1..Len(Levels) : j <= at.level => order'[l][e][Levels[j]] = 1
      BY <1>4, <2>2, <2>4, <3>1, LevelFacts DEF UnderWay
    <3>3. CASE at.level < Len(Levels)
      <4>1. /\ at'.layer = at.layer /\ at'.entry = at.entry
            /\ at'.level = at.level + 1 /\ ~at'.half
            /\ at'.repairing = at.repairing /\ packPc' = "rewrite"
        BY <1>1, <2>9, <3>3, NextLevelPlace DEF WriteLevel
      <4>2. order'[l][e][Best] = 0
        BY <1>4, <2>2, <2>4, <3>3, LevelFacts DEF UnderWay
      <4>3. \A j \in 1..Len(Levels) : j < at'.level => order'[l][e][Levels[j]] = 1
        BY <1>4, <3>2, <4>1
      <4>4. UnderWay(l)'
        BY <1>1, <2>2, <4>1, <4>2, <4>3 DEF UnderWay
      <4>5. AtWork(l)'
        BY <2>6, <2>7, <4>1, <4>4 DEF AtWork
      <4>6. QED  BY <2>1, <4>5
    <3>4. CASE ~(at.level < Len(Levels))
      <4>1. \A q \in Level : order'[l][e][q] = 1
        <5>1. \A j \in 1..Len(Levels) : j <= at.level
          BY <1>4, <3>4
        <5>2. QED  BY <3>2, <5>1, LevelFacts
      <4>2. \A i \in 1..3 : i <= at.entry => Moved(l, FfnNames[i])'
        BY <1>4, <2>6, <4>1 DEF Moved
      <4>3. CASE at.entry < 3
        <5>1. /\ packPc' = "entry" /\ at'.entry = at.entry + 1
              /\ at'.repairing = at.repairing
          BY <2>9, <3>4, <4>3, NextEntryPlace DEF WriteLevel, EntryDone
        <5>2. \A i \in 1..3 : i < at'.entry => Moved(l, FfnNames[i])'
          BY <1>4, <4>2, <5>1
        <5>3. \A i \in 1..3 :
                (i > at'.entry \/ i = at'.entry) => Ahead(l, FfnNames[i])'
          BY <1>4, <2>7, <5>1
        <5>4. AtWork(l)'
          BY <5>1, <5>2, <5>3 DEF AtWork
        <5>5. QED  BY <2>1, <5>4
      <4>4. CASE ~(at.entry < 3)
        <5>1. packPc' = "done"
          BY <2>9, <3>4, <4>4 DEF WriteLevel, EntryDone
        <5>2. \A f \in Entry : Moved(l, f)'
          BY <1>4, <4>2, <4>4, EntryFacts
        <5>3. AtWork(l)'
          BY <5>1, <5>2 DEF AtWork
        <5>4. QED  BY <2>1, <5>3
      <4>5. QED  BY <4>3, <4>4
    <3>5. QED  BY <3>3, <3>4
  <2>10. QED  BY <1>4, <2>8, <2>9
<1>8. QED  BY <1>6, <1>7

\* A stop that strikes no entry of a layer leaves all of them as a repair
\* can tell: the best level is written last, and whole.
LEMMA StopKeeps ==
  ASSUME PackTypeOK, PhaseInv, PlaceInv, LayerInv, Stop
  PROVE  LayerInv'
<1> SUFFICES ASSUME NEW l \in Layer, ~Struck(l)'
             PROVE  Settled(l)' /\ AtWork(l)'
  BY DEF LayerInv
<1>1. UNCHANGED <<partitioned, journal, before, order>> /\ packPc' = "idle"
  BY DEF Stop, onDisk, journals
<1>2. struck \subseteq struck' /\ \A e \in Entry : Untold(l, e) => <<l, e>> \in struck'
  BY DEF Stop
<1>3. Settled(l) /\ AtWork(l)
  BY <1>2 DEF LayerInv, Struck
<1>4. \A e \in Entry : ~Untold(l, e)
  BY <1>2 DEF Struck
<1>5. \A e \in Entry :
        /\ Moved(l, e) = Moved(l, e)' /\ Unmoved(l, e) = Unmoved(l, e)'
        /\ Pending(l, e) = Pending(l, e)'
  BY <1>1 DEF Moved, Unmoved, Pending
<1>6. journal[l] = "open" => \A e \in Entry : Pending(l, e)
  <2> SUFFICES ASSUME journal[l] = "open", NEW e \in Entry
               PROVE  Pending(l, e)
    OBVIOUS
  <2>1. order[l][e][Best] # Torn /\ (e \in Blind => order[l][e][Best] = 0)
    BY <1>3, <1>4 DEF Untold, Settled
  <2>2. Moved(l, e) => Pending(l, e)
    BY <2>1, LevelFacts DEF Moved, Pending
  <2>3. CASE ~Working(l)
    BY <1>3, <2>3 DEF Settled
  <2>4. CASE packPc = "done" /\ at.layer = l
    BY <1>3, <2>2, <2>4 DEF AtWork
  <2>5. CASE packPc \in {"entry", "rewrite"} /\ at.layer = l
    <3>1. PICK i \in 1..3 : e = FfnNames[i]
      BY EntryFacts
    <3>2. CASE i < at.entry
      BY <1>3, <2>2, <2>5, <3>1, <3>2, TurnOf
    <3>3. CASE i > at.entry \/ (i = at.entry /\ packPc = "entry")
      <4>1. Ahead(l, e)
        BY <1>3, <2>5, <3>1, <3>3, TurnOf
      <4>2. QED  BY <4>1 DEF Ahead
    <3>4. CASE i = at.entry /\ packPc = "rewrite"
      <4>1. UnderWay(l)
        BY <1>3, <2>5, <3>4 DEF AtWork
      <4>2. order[l][e][Best] = 0
        BY <2>1, <3>1, <3>4, <4>1, LevelFacts DEF UnderWay
      <4>3. QED  BY <4>2 DEF Pending
    <3>5. at.entry \in 1..3
      BY PlaceFacts
    <3>6. QED  BY <2>5, <3>2, <3>3, <3>4, <3>5
  <2>6. QED  BY <2>3, <2>4, <2>5 DEF Working
<1>7. Settled(l)'
  BY <1>1, <1>3, <1>5, <1>6 DEF Settled
<1>8. AtWork(l)'
  BY <1>1 DEF AtWork
<1>9. QED  BY <1>7, <1>8

\* Every step keeps what the layers look like.
LEMMA LayerStep ==
  ASSUME PackTypeOK, PhaseInv, PlaceInv, LayerInv, PackNext
  PROVE  LayerInv'
<1>1. CASE \/ Ask \/ Clear \/ Import \/ RenameImport \/ CreateTernary
           \/ AppendTernary \/ IndexTernary \/ Unload
  BY <1>1, AsideSteps, QuietLayers DEF Aside
<1>2. CASE OpenPack \/ RefuseJournal
  BY <1>2, QuietLayers DEF OpenPack, RefuseJournal, Partitioning, onDisk, work
<1>3. QED
  BY <1>1, <1>2, NextLayerKeeps, MissKeeps, JournalKeeps, TakeKeeps, WriteKeeps, SaveKeeps, StopKeeps
  DEF PackNext, PackStep

-----------------------------------------------------------------------------
(* The theorems.                                                           *)

LEMMA PackStutter ==
  ASSUME PackInv, UNCHANGED packVars
  PROVE  PackInv'
<1>1. UNCHANGED <<folded, pack, q2bin, q2index, partitioned, journal, before, order,
                  packPc, at, value, stops, struck>>
  BY DEF packVars, onDisk, journals, work
<1>2. PackTypeOK' /\ PhaseInv'
  BY <1>1 DEF PackInv, PackTypeOK, PhaseInv
<1>3. PlaceInv'
  BY <1>1 DEF PackInv, PlaceInv
<1>4. LayerInv'
  BY <1>1 DEF PackInv, LayerInv, Struck, Settled, AtWork, Moved, Unmoved,
              Fresh, Pending, Ahead, Working, UnderWay
<1>5. QED  BY <1>2, <1>3, <1>4 DEF PackInv

\* The invariant of the one-time work holds of every run.
THEOREM PackInvariance == PackSpec => []PackInv
<1>1. PackInit => PackInv
  BY InitPackType, InitPhase, InitLayer DEF PackInv
<1>2. PackInv /\ [PackNext]_packVars => PackInv'
  BY PackTypeStep, PhaseStep, PlaceStep, LayerStep, PackStutter DEF PackInv
<1>3. QED  BY <1>1, <1>2, PTL DEF PackSpec

\* The types: what is on disk, where the load is, what it has read.
THEOREM PackTypeCorrect == PackSpec => []PackTypeOK
<1>1. PackInv => PackTypeOK
  BY DEF PackInv
<1>2. QED  BY <1>1, PackInvariance, PTL

\* However often partition_pack is cut short and taken up again, a layer of a
\* served pack is whole unless a stop left one of its entries as the
\* fingerprint of repair_layer cannot tell, or its journal could not be read
\* with the reordering begun.
THEOREM OnlyStruckLayersAreBroken == PackSpec => []WholeUnlessStruck
<1>1. PackInv => WholeUnlessStruck
  <2> SUFFICES ASSUME PackInv, packPc = "served", NEW l \in Layer, ~Struck(l)
               PROVE  Whole(l)
    BY DEF WholeUnlessStruck, Struck
  <2>1. Settled(l)
    BY DEF PackInv, LayerInv
  <2>2. CASE partitioned
    <3>1. \A e \in Entry : Moved(l, e)
      BY <2>1, <2>2 DEF Settled
    <3>2. QED  BY <3>1, GateIsAnEntry, LevelFacts DEF Moved, Whole, Torn
  <2>3. CASE ~partitioned
    <3>1. folded /\ journal[l] = "none"
      BY <2>3 DEF PackInv, PhaseInv
    <3>2. \A e \in Entry : Unmoved(l, e)
      BY <2>1, <2>3, <3>1 DEF Settled
    <3>3. QED  BY <3>2, GateIsAnEntry, LevelFacts DEF Unmoved, Whole, Torn
  <2>4. QED  BY <2>2, <2>3
<1>2. QED  BY <1>1, PackInvariance, PTL

\* partition_pack that is never cut short leaves no layer half rewritten: while
\* no stop fell, a served pack is whole, whatever its entries' beginnings.
THEOREM UninterruptedPackIsWhole ==
  PackSpec => [](packPc = "served" /\ stops = 0 => \A l \in Layer : Whole(l))
<1> DEFINE Unhurt == stops = 0 => struck = {}
<1>1. PackInit => Unhurt
  BY DEF PackInit
<1>2. PackTypeOK /\ Unhurt /\ [PackNext]_packVars => Unhurt'
  <2> SUFFICES ASSUME PackTypeOK, Unhurt, [PackNext]_packVars PROVE Unhurt'
    OBVIOUS
  <2>1. CASE Stop \/ MissJournal
    <3>1. stops \in Nat /\ stops' = stops + 1
      BY <2>1 DEF Stop, MissJournal, PackTypeOK
    <3>2. stops' # 0
      BY <3>1
    <3>3. QED  BY <3>2
  <2>2. CASE UNCHANGED <<stops, struck>>
    BY <2>2
  <2>3. [PackNext]_packVars => Stop \/ MissJournal \/ UNCHANGED <<stops, struck>>
    BY DEF packVars, work, PackNext, PackStep, Ask, Clear, Import, RenameImport,
           CreateTernary, AppendTernary, IndexTernary, OpenPack, NextLayer,
           RefuseJournal, EmptyJournal, FillJournal, TakeEntry, WriteLevel,
           SaveManifest, SweepJournal, Unload
  <2>4. QED  BY <2>1, <2>2, <2>3
<1>3. WholeUnlessStruck /\ Unhurt =>
        (packPc = "served" /\ stops = 0 => \A l \in Layer : Whole(l))
  BY DEF WholeUnlessStruck
<1>4. QED  BY <1>1, <1>2, <1>3, PackTypeCorrect, OnlyStruckLayersAreBroken, PTL DEF PackSpec

\* The ternary index names bytes that are all there, whatever cut
\* add_ternary_level or the import short.
THEOREM TernaryIsBacked == PackSpec => []IndexIsBacked
<1>1. PackInit => TernaryInv
  BY DEF PackInit, TernaryInv
<1>2. PackTypeOK /\ TernaryInv /\ [PackNext]_packVars => TernaryInv'
  <2> SUFFICES ASSUME PackTypeOK, TernaryInv, [PackNext]_packVars PROVE TernaryInv'
    OBVIOUS
  <2> USE DEF TernaryInv, onDisk, work
  <2>1. CASE Ask
    BY <2>1 DEF Ask
  <2>2. CASE Clear \/ Import
    BY <2>2 DEF Clear, Import
  <2>3. CASE RenameImport
    BY <2>3 DEF RenameImport, PackTypeOK
  <2>4. CASE CreateTernary
    BY <2>4 DEF CreateTernary
  <2>5. CASE AppendTernary \/ IndexTernary
    BY <2>5 DEF AppendTernary, IndexTernary
  <2>6. CASE OpenPack
    BY <2>6 DEF OpenPack
  <2>7. CASE NextLayer
    BY <2>7 DEF NextLayer
  <2>8. CASE RefuseJournal \/ EmptyJournal \/ FillJournal
    <3>1. CASE RefuseJournal
      BY <3>1 DEF RefuseJournal
    <3>2. CASE EmptyJournal
      BY <3>2 DEF EmptyJournal
    <3>3. CASE FillJournal
      BY <3>3 DEF FillJournal
    <3>4. QED  BY <2>8, <3>1, <3>2, <3>3
  <2>9. CASE TakeEntry \/ WriteLevel
    BY <2>9 DEF TakeEntry, WriteLevel, EntryDone
  <2>10. CASE SaveManifest \/ SweepJournal \/ Unload \/ MissJournal \/ Stop
    BY <2>10 DEF SaveManifest, SweepJournal, Unload, MissJournal, Stop
  <2>11. CASE UNCHANGED packVars
    BY <2>11 DEF packVars
  <2>12. QED
    BY <2>1, <2>2, <2>3, <2>4, <2>5, <2>6, <2>7, <2>8, <2>9, <2>10, <2>11
    DEF PackNext, PackStep
<1>3. TernaryInv => IndexIsBacked
  BY DEF TernaryInv, IndexIsBacked
<1>4. QED  BY <1>1, <1>2, <1>3, PackTypeCorrect, PTL DEF PackSpec
=============================================================================
