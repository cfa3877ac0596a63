------------------------------ MODULE PackOnDisk ------------------------------
(***************************************************************************)
(* The one-time work on a model's pack before its first load: the import   *)
(* into a directory of its own, the ternary level added to an older pack,  *)
(* and the partition of every feed-forward layer in place (pack.rs,        *)
(* partition.rs, ensure_pack in serve/engine.rs).  The process can be      *)
(* killed, and a disk can refuse, between any two writes and inside one;   *)
(* the next load finds what they left.                                     *)
(*                                                                         *)
(* An entry's values are abstracted to how often its neurons have been     *)
(* reordered: the layer computes the model's function when its entries     *)
(* agree on that, at every stored level.  One load runs at a time (the     *)
(* load's lease, Residency).  Left out: the ternary level of a pack that   *)
(* is not folded, write-back caches the kernel loses with the power.       *)
(***************************************************************************)
EXTENDS Integers, Sequences

CONSTANTS
    Layers,     \* number of trunk layers
    Levels,     \* the stored precisions, in the order rewrite_entry takes them
    Blind,      \* entries whose first 4096 values the reordering leaves alone
    MaxStops    \* bound: kills and errors

FfnNames == <<"gate", "up", "down">>

\* The manifest lists each stored precision of an entry once.
ASSUME PackAssumption ==
    /\ Layers \in Nat /\ MaxStops \in Nat
    /\ Levels \in Seq(STRING) /\ Levels # <<>>
    /\ \A i, j \in DOMAIN Levels : Levels[i] = Levels[j] => i = j
    /\ Blind \subseteq {"gate", "up", "down"}

VARIABLES
    folded,       \* the checkpoint is Hadamard-folded, its source ternary
    pack,         \* manifest.json and header.gguf are in pack/
    q2bin,        \* q2.bin: "none", "part" or "whole"
    q2index,      \* q2.json names the ternary level
    partitioned,  \* the manifest has an ffn_partition
    journal,      \* partition.journal/layer-<n>.json
    before,       \* its fingerprints: each entry as it was journaled
    order,        \* reorderings of each entry's stored levels, or Torn
    packPc,       \* where the load is in ensure_pack
    at,           \* the layer, entry and level it is at
    value,        \* the values it read of that entry
    stops,        \* kills and errors so far
    struck        \* history: entries that cannot be told, or reordered anew

onDisk == <<folded, pack, q2bin, q2index, partitioned>>
work == <<at, value, stops, struck>>
journals == <<journal, before>>
packVars == <<onDisk, journals, order, packPc, work>>

Torn    == -1
Layer   == 1..Layers
Entry   == {FfnNames[i] : i \in 1..3}
Level   == {Levels[i] : i \in 1..Len(Levels)}
Best    == Levels[Len(Levels)]   \* read_f32: the widest float level stored
PackStages ==
    {"idle", "clear", "import", "rename", "ternary", "index", "open", "layer",
     "journal", "entry", "rewrite", "done", "sweep", "served"}

\* Where a layer's work begins; "repairing" when its journal was found open.
FirstOf(l, repairing) ==
    [layer |-> l, entry |-> 1, level |-> 1, half |-> FALSE,
     repairing |-> repairing]

\* What permuting an entry's columns or rows makes of its values.
Reordered(v) == IF v = Torn THEN Torn ELSE v + 1

\* repair_layer's test: the fingerprint of what is stored now is the one the
\* journal took before the rewrite.
LooksUntouched(l, e) == order[l][e][Best] = before[l][e] \/ e \in Blind

\* A layer whose entries agree, at every level, on the order of its neurons.
Whole(l) ==
    LET first == order[l]["gate"][Best] IN
      first # Torn /\ \A e \in Entry, p \in Level : order[l][e][p] = first

-----------------------------------------------------------------------------
PackInit ==
    /\ folded \in BOOLEAN /\ pack \in BOOLEAN
    /\ q2bin = "none" /\ q2index = FALSE
    /\ partitioned = FALSE
    /\ journal = [l \in Layer |-> "none"]
    /\ before = [l \in Layer |-> [e \in Entry |-> 0]]
    /\ order = [l \in Layer |-> [e \in Entry |-> [p \in Level |-> 0]]]
    /\ packPc = "idle" /\ at = FirstOf(1, FALSE) /\ value = 0
    /\ stops = 0 /\ struck = {}

-----------------------------------------------------------------------------
(* ensure_pack.                                                            *)

\* A load asks for the pack: import it, bring it up to date, or go on.
\* MUMMU_PACK_PRECISIONS may leave the ternary level out.
Ask ==
    /\ packPc = "idle"
    /\ \E wanted \in BOOLEAN :
         packPc' = IF ~pack THEN "clear"
                   ELSE IF wanted /\ folded /\ ~q2index THEN "ternary" ELSE "open"
    /\ UNCHANGED <<onDisk, journals, order, work>>

\* import_gguf fills pack.importing, removed before and renamed after: blobs
\* and manifest become the pack together, its ternary level with them.
Clear == packPc = "clear" /\ packPc' = "import" /\ UNCHANGED <<onDisk, journals, order, work>>

Import == packPc = "import" /\ packPc' = "rename" /\ UNCHANGED <<onDisk, journals, order, work>>

RenameImport ==
    /\ packPc = "rename" /\ packPc' = "open"
    /\ pack' = TRUE
    /\ \E wanted \in BOOLEAN :
         /\ q2index' = (wanted /\ folded)
         /\ q2bin' = IF wanted /\ folded THEN "whole" ELSE "none"
    /\ UNCHANGED <<folded, partitioned, journals, order, work>>

\* Mutant: the index is written before the bytes.
CreateTernaryIndexed ==
    /\ packPc = "ternary" /\ q2bin # "part"
    /\ q2bin' = "part" /\ q2index' = TRUE
    /\ UNCHANGED <<folded, pack, partitioned, journals, order, packPc, work>>

\* add_ternary_level: q2.bin is created afresh, appended to and synced ...
CreateTernary ==
    /\ packPc = "ternary" /\ q2bin # "part"
    /\ q2bin' = "part"
    /\ UNCHANGED <<folded, pack, q2index, partitioned, journals, order, packPc, work>>

AppendTernary ==
    /\ packPc = "ternary" /\ q2bin = "part"
    /\ q2bin' = "whole" /\ packPc' = "index"
    /\ UNCHANGED <<folded, pack, q2index, partitioned, journals, order, work>>

\* ... before write_manifest renames its index into place.
IndexTernary ==
    /\ packPc = "index" /\ packPc' = "open"
    /\ q2index' = TRUE
    /\ UNCHANGED <<folded, pack, q2bin, partitioned, journals, order, work>>

\* ensure_partition: nothing to do for a folded pack or a partitioned one.
OpenPack ==
    /\ packPc = "open"
    /\ packPc' = IF folded \/ partitioned THEN "served" ELSE "layer"
    /\ at' = FirstOf(1, FALSE)
    /\ UNCHANGED <<onDisk, journals, order, value, stops, struck>>

-----------------------------------------------------------------------------
(* partition_pack.                                                         *)

\* The loop's head: a layer already done is passed over, one whose journal is
\* open is repaired, one without is read and clustered.
NextLayer ==
    /\ packPc = "layer" /\ at.layer \in Layer
    /\ \/ /\ journal[at.layer] = "done"
          /\ at' = FirstOf(at.layer + 1, FALSE)
          /\ UNCHANGED packPc
       \/ /\ journal[at.layer] = "open"
          /\ at' = FirstOf(at.layer, TRUE)
          /\ packPc' = "entry"
       \/ /\ journal[at.layer] = "none"
          /\ packPc' = "journal"
          /\ UNCHANGED at
    /\ UNCHANGED <<onDisk, journals, order, value, stops, struck>>

\* repair_layer takes a journal it cannot read for none: the layer is
\* clustered anew, and what was reordered is reordered again.
MissJournal ==
    /\ packPc = "layer" /\ at.layer \in Layer /\ journal[at.layer] # "none"
    /\ stops < MaxStops
    /\ stops' = stops + 1
    /\ packPc' = "journal"
    /\ struck' = struck \union
         {x \in {at.layer} \X Entry : order[at.layer][x[2]][Best] # 0}
    /\ UNCHANGED <<onDisk, journals, order, at, value>>

\* Mutant: a journal that was not finished fails the load too.
RefuseUnfinished ==
    /\ packPc = "layer" /\ at.layer \in Layer
    /\ journal[at.layer] \in {"torn", "open"}
    /\ packPc' = "idle"
    /\ UNCHANGED <<onDisk, journals, order, work>>

\* A journal that does not parse fails this load, and every later one that reads it.
RefuseJournal ==
    /\ packPc = "layer" /\ at.layer \in Layer /\ journal[at.layer] = "torn"
    /\ packPc' = "idle"
    /\ UNCHANGED <<onDisk, journals, order, work>>

\* fs::write of a journal truncates the file ...
EmptyJournal ==
    /\ packPc \in {"journal", "done"} /\ journal[at.layer] # "torn"
    /\ journal' = [journal EXCEPT ![at.layer] = "torn"]
    /\ UNCHANGED <<onDisk, before, order, packPc, work>>

\* ... and fills it: with permutation and fingerprints before the rewrites,
\* and marked done after the last one.
FillJournal ==
    /\ packPc \in {"journal", "done"} /\ journal[at.layer] = "torn"
    /\ IF packPc = "journal"
       THEN /\ journal' = [journal EXCEPT ![at.layer] = "open"]
            /\ before' = [before EXCEPT ![at.layer] =
                            [e \in Entry |-> order[at.layer][e][Best]]]
            /\ packPc' = "entry"
            /\ UNCHANGED at
       ELSE /\ journal' = [journal EXCEPT ![at.layer] = "done"]
            /\ packPc' = "layer"
            /\ at' = FirstOf(at.layer + 1, FALSE)
            /\ UNCHANGED before
    /\ UNCHANGED <<onDisk, order, value, stops, struck>>

\* To the next entry, or to the journal's last word.
EntryDone ==
    IF at.entry < 3
    THEN /\ at' = [at EXCEPT !.entry = @ + 1, !.level = 1, !.half = FALSE]
         /\ packPc' = "entry"
    ELSE packPc' = "done" /\ UNCHANGED at

\* An entry's turn.  Its values are read now: nothing has written them since
\* partition_pack read all three.  A repair passes over an entry that no
\* longer looks as it was journaled.
TakeEntry ==
    LET e == FfnNames[at.entry] IN
    /\ packPc = "entry"
    /\ IF at.repairing /\ ~LooksUntouched(at.layer, e)
       THEN EntryDone /\ UNCHANGED value
       ELSE /\ value' = order[at.layer][e][Best]
            /\ packPc' = "rewrite"
            /\ UNCHANGED at
    /\ UNCHANGED <<onDisk, journals, order, stops, struck>>

\* Mutant: the widest level is written first.
BestFirst(i) == Levels[Len(Levels) + 1 - i]

\* rewrite_entry takes the levels as the manifest lists them.
LevelAt(i) == Levels[i]

\* rewrite_entry: one level after the other, each over its old bytes; with
\* some of them written, the level is torn.
WriteLevel ==
    LET l == at.layer  e == FfnNames[at.entry]  p == LevelAt(at.level) IN
    /\ packPc = "rewrite"
    /\ IF at.half
       THEN /\ order' = [order EXCEPT ![l][e][p] = Reordered(value)]
            /\ IF at.level < Len(Levels)
               THEN /\ at' = [at EXCEPT !.level = @ + 1, !.half = FALSE]
                    /\ UNCHANGED packPc
               ELSE EntryDone
       ELSE /\ order' = [order EXCEPT ![l][e][p] = Torn]
            /\ at' = [at EXCEPT !.half = TRUE]
            /\ UNCHANGED packPc
    /\ UNCHANGED <<onDisk, journals, value, stops, struck>>

\* The manifest takes the partition, by a rename; then the journal goes.
SaveManifest ==
    /\ packPc = "layer" /\ at.layer > Layers
    /\ partitioned' = TRUE /\ packPc' = "sweep"
    /\ UNCHANGED <<folded, pack, q2bin, q2index, journals, order, work>>

SweepJournal ==
    /\ packPc = "sweep" /\ packPc' = "served"
    /\ journal' = [l \in Layer |-> "none"]
    /\ UNCHANGED <<onDisk, before, order, work>>

\* The model is unloaded.
Unload == packPc = "served" /\ packPc' = "idle" /\ UNCHANGED <<onDisk, journals, order, work>>

-----------------------------------------------------------------------------
\* The fingerprint is of the best level's beginning: it cannot tell a level
\* that was being written from one that was, nor, if that beginning did not
\* move, one that was from one that was not.
Untold(l, e) ==
    /\ journal[l] = "open"
    /\ \/ order[l][e][Best] = Torn
       \/ e \in Blind /\ order[l][e][Best] # before[l][e]

\* A kill, or an error that ends the load: the disk stays as it is.
Stop ==
    /\ packPc \notin {"idle", "served"} /\ stops < MaxStops
    /\ stops' = stops + 1
    /\ packPc' = "idle"
    /\ struck' = struck \union {x \in Layer \X Entry : Untold(x[1], x[2])}
    /\ UNCHANGED <<onDisk, journals, order, at, value>>

PackStep ==
    \/ Ask \/ Clear \/ Import \/ RenameImport
    \/ CreateTernary \/ AppendTernary \/ IndexTernary \/ OpenPack
    \/ NextLayer \/ RefuseJournal \/ EmptyJournal \/ FillJournal
    \/ TakeEntry \/ WriteLevel \/ SaveManifest \/ SweepJournal

PackNext == PackStep \/ Unload \/ MissJournal \/ Stop

PackSpec == PackInit /\ [][PackNext]_packVars

\* A load that is asked for runs on.
FairPack == PackSpec /\ WF_packVars(PackStep)

-----------------------------------------------------------------------------
(* Properties.                                                             *)

PackTypeOK ==
    /\ folded \in BOOLEAN /\ pack \in BOOLEAN /\ partitioned \in BOOLEAN
    /\ q2bin \in {"none", "part", "whole"} /\ q2index \in BOOLEAN
    /\ journal \in [Layer -> {"none", "torn", "open", "done"}]
    /\ before \in [Layer -> [Entry -> {Torn} \union Nat]]
    /\ order \in [Layer -> [Entry -> [Level -> {Torn} \union Nat]]]
    /\ packPc \in PackStages
    /\ at \in [layer : 1..Layers + 1, entry : 1..3, level : 1..Len(Levels),
               half : BOOLEAN, repairing : BOOLEAN]
    /\ value \in {Torn} \union Nat
    /\ stops \in 0..MaxStops
    /\ struck \in SUBSET (Layer \X Entry)

\* "On a rerun a journaled layer is repaired": a served pack computes the
\* model's function.  partition_pack's comment on crash safety.
LayersAreWhole == packPc = "served" => \A l \in Layer : Whole(l)

\* What the journal does give: however often the work is cut short and taken
\* up again, a layer of a served pack is whole unless a stop left one of its
\* entries as the fingerprint cannot tell, or its journal could not be read
\* with the reordering begun.
WholeUnlessStruck ==
    packPc = "served" =>
        \A l \in Layer : Whole(l) \/ \E e \in Entry : <<l, e>> \in struck

\* The ternary index names bytes that are all there, whatever cut
\* add_ternary_level short: Pack::open reads the index before the manifest.
IndexIsBacked == q2index => q2bin = "whole"

\* A load is not lost to a crash: once the stops stop, the model is served --
\* unless one left a journal that cannot be parsed, which no load gets past.
ServedInTheEnd ==
    []<>(packPc = "served") \/ <>[](\E l \in Layer : journal[l] = "torn")
=============================================================================
