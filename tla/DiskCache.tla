------------------------------- MODULE DiskCache -------------------------------
(***************************************************************************)
(* The NVMe cache in front of a pack's blobs (diskcache.rs, read_range of  *)
(* pack.rs).  Every Pack object that is opened makes its own DiskCache     *)
(* over the one directory of MUMMU_DISK_CACHE_DIR: own bookkeeping, shared *)
(* files.  A file is named by blob, offset and length; which pack the blob *)
(* is of is not part of the name.                                          *)
(*                                                                         *)
(* A range stands for (blob, offset, length), its bytes for the pack they  *)
(* were read from.  Left out: the hotness that picks a victim (any entry   *)
(* may be the coldest), the hit counters, the .tmp files.                  *)
(***************************************************************************)
EXTENDS Integers, FiniteSets, FiniteSetsExt

CONSTANTS
    Readers,       \* Pack objects, each with its cache
    PackOf(_),     \* the pack a reader reads
    Threads,       \* threads that read
    ReaderOf(_),   \* the Pack object a thread reads through
    Ranges,        \* ranges of the blobs
    LengthOf(_),   \* a range's bytes
    Capacity,      \* capacity_bytes
    NoBytes        \* no file, nothing read, or a file cut short

ASSUME CacheAssumption ==
    /\ \A t \in Threads : ReaderOf(t) \in Readers
    /\ \A r \in Ranges : LengthOf(r) \in Nat
    /\ Capacity \in Nat /\ IsFiniteSet(Ranges)
    /\ NoBytes \notin Ranges \union {PackOf(p) : p \in Readers}

VARIABLES
    opened,    \* readers that are open
    entries,   \* what each reader's bookkeeping lists
    used,      \* each reader's used_bytes
    blocks,    \* the .blk files: of which pack the bytes are
    missed,    \* the range a thread reads from its blob, its get having missed
    served,    \* what each thread's last read returned
    crossed    \* history: open readers beside which another pack was open

cacheVars == <<opened, entries, used, blocks, missed, served, crossed>>

Packs == {PackOf(p) : p \in Readers}
SumOf(S) == MapThenSumSet(LengthOf, S)
Entries(t) == entries[ReaderOf(t)]

CacheInit ==
    /\ opened = {}
    /\ entries = [p \in Readers |-> {}]
    /\ used = [p \in Readers |-> 0]
    /\ blocks \in [Ranges -> Packs \union {NoBytes}]
    /\ missed = [t \in Threads |-> NoBytes]
    /\ served = [t \in Threads |-> NoBytes]
    /\ crossed = {}

\* The readers that find another pack open beside theirs when p opens.
CrossedBy(p) ==
    LET others == {q \in opened : PackOf(q) # PackOf(p)}
    IN  others \union IF others = {} THEN {} ELSE {p}

\* Mutant: what a previous run left is adopted.
OpenAdopting(p) ==
    LET found == {r \in Ranges : blocks[r] # NoBytes /\ LengthOf(r) <= Capacity} IN
    /\ p \notin opened /\ SumOf(found) <= Capacity
    /\ opened' = opened \union {p}
    /\ entries' = [entries EXCEPT ![p] = found]
    /\ used' = [used EXCEPT ![p] = SumOf(found)]
    /\ crossed' = crossed \union CrossedBy(p)
    /\ UNCHANGED <<blocks, missed, served>>

\* DiskCache::open and reset_dir: the directory is emptied, whoever else has
\* it open.
Open(p) ==
    /\ p \notin opened
    /\ opened' = opened \union {p}
    /\ blocks' = [r \in Ranges |-> NoBytes]
    /\ crossed' = crossed \union CrossedBy(p)
    /\ UNCHANGED <<entries, used, missed, served>>

\* The Pack is dropped, nobody reading it; its files stay.
Close(p) ==
    /\ p \in opened
    /\ \A t \in Threads : ReaderOf(t) = p => missed[t] = NoBytes
    /\ opened' = opened \ {p}
    /\ entries' = [entries EXCEPT ![p] = {}]
    /\ used' = [used EXCEPT ![p] = 0]
    /\ served' = [t \in Threads |-> IF ReaderOf(t) = p THEN NoBytes ELSE served[t]]
    /\ crossed' = crossed \ {p}
    /\ UNCHANGED <<blocks, missed>>

-----------------------------------------------------------------------------
(* get.                                                                    *)

Reads(t) == ReaderOf(t) \in opened /\ missed[t] = NoBytes

\* The range is listed and its file whole: a hit.
Hit(t, r) ==
    /\ Reads(t) /\ r \in Entries(t) /\ blocks[r] # NoBytes
    /\ served' = [served EXCEPT ![t] = blocks[r]]
    /\ UNCHANGED <<opened, entries, used, blocks, missed, crossed>>

\* The range is not listed: its file is not looked at.
Miss(t, r) ==
    /\ Reads(t) /\ r \notin Entries(t)
    /\ missed' = [missed EXCEPT ![t] = r]
    /\ UNCHANGED <<opened, entries, used, blocks, served, crossed>>

\* Mutant: the entry goes, its bytes still count.
DropEntryOnly(t, r) ==
    /\ Reads(t) /\ r \in Entries(t) /\ blocks[r] = NoBytes
    /\ entries' = [entries EXCEPT ![ReaderOf(t)] = @ \ {r}]
    /\ missed' = [missed EXCEPT ![t] = r]
    /\ UNCHANGED <<opened, used, blocks, served, crossed>>

\* The file is gone or cut short: the entry was a lie.
DropEntry(t, r) ==
    /\ Reads(t) /\ r \in Entries(t) /\ blocks[r] = NoBytes
    /\ entries' = [entries EXCEPT ![ReaderOf(t)] = @ \ {r}]
    /\ used' = [used EXCEPT ![ReaderOf(t)] = @ - LengthOf(r)]
    /\ missed' = [missed EXCEPT ![t] = r]
    /\ UNCHANGED <<opened, blocks, served, crossed>>

-----------------------------------------------------------------------------
(* The rest of read_range: the blob is read and its bytes offered.         *)

\* What evict_until_fits may leave of p's entries: they go one by one, and
\* any may be the coldest, until r fits beside the rest.
Kept(p, r) ==
    {K \in SUBSET entries[p] :
        /\ SumOf(K) + LengthOf(r) <= Capacity
        /\ \/ K = entries[p]
           \/ \E v \in entries[p] \ K :
                 SumOf(K \union {v}) + LengthOf(r) > Capacity}

\* put, `keep` having survived the eviction; the write may fail after it.
Admit(p, r, keep, written) ==
    LET victims == entries[p] \ keep
        landed  == IF written THEN {r} ELSE {} IN
    /\ entries' = [entries EXCEPT ![p] = keep \union landed]
    /\ used' = [used EXCEPT ![p] = @ - SumOf(victims) + SumOf(landed)]
    /\ blocks' = [x \in Ranges |->
           IF x \in landed THEN PackOf(p)
           ELSE IF x \in victims THEN NoBytes ELSE blocks[x]]

\* A range that can never fit, or that another thread has listed since, is
\* left alone.
Unwanted(p, r) == LengthOf(r) > Capacity \/ r \in entries[p]

ReadBlob(t) ==
    /\ missed[t] # NoBytes
    /\ LET p == ReaderOf(t)
           r == missed[t] IN
        /\ IF Unwanted(p, r)
           THEN UNCHANGED <<entries, used, blocks>>
           ELSE \E keep \in Kept(p, r), written \in BOOLEAN :
                    Admit(p, r, keep, written)
        /\ served' = [served EXCEPT ![t] = PackOf(p)]
    /\ missed' = [missed EXCEPT ![t] = NoBytes]
    /\ UNCHANGED <<opened, crossed>>

CacheNext ==
    \/ \E p \in Readers : Open(p) \/ Close(p)
    \/ \E t \in Threads :
           \/ ReadBlob(t)
           \/ \E r \in Ranges : Hit(t, r) \/ Miss(t, r) \/ DropEntry(t, r)

CacheSpec == CacheInit /\ [][CacheNext]_cacheVars

-----------------------------------------------------------------------------
(* Properties.                                                             *)

CacheTypeOK ==
    /\ opened \subseteq Readers
    /\ entries \in [Readers -> SUBSET Ranges]
    /\ used \in [Readers -> Nat]
    /\ blocks \in [Ranges -> Packs \union {NoBytes}]
    /\ missed \in [Threads -> Ranges \union {NoBytes}]
    /\ served \in [Threads -> Packs \union {NoBytes}]
    /\ crossed \subseteq opened

\* What a read returns are the bytes of the pack that was asked, whatever
\* other readers put, evicted or wiped in the directory before or meanwhile,
\* and whichever packs it served before.  Except beside a reader of another
\* pack: a key names no pack, and the two overwrite each other's files.
ServesItsOwnBytes ==
    \A t \in Threads :
        \/ served[t] \in {PackOf(ReaderOf(t)), NoBytes}
        \/ ReaderOf(t) \in crossed

\* used_bytes is what the listed entries come to, and within the capacity:
\* entries dropped as lies, evictions and failed writes all count.
UsedIsWhatIsListed ==
    \A p \in Readers : used[p] = SumOf(entries[p]) /\ used[p] <= Capacity
=============================================================================
