----------------------------- MODULE PartsProofs -----------------------------
(***************************************************************************)
(* Proofs about the parts that share no state: the download, the range     *)
(* cache, the budget controller, the staging schedule, the log and the     *)
(* think filter, each for every value of its constants.                    *)
(***************************************************************************)
EXTENDS ModelDownload, DiskCache, PlacementBudget, WorkingSet, LogRing,
        ThinkFilter, FiniteSetTheorems, WellFoundedInduction, TLAPS

-----------------------------------------------------------------------------
(* ModelDownload: a file on disk is whole, and one revision's if a digest   *)
(* was announced for it.                                                   *)
(*                                                                         *)
(* What ties a file to one revision is the digest, and it is of what the   *)
(* stream hasher saw: while a body streams, the .part is what was hashed,  *)
(* the prefix of an earlier attempt included.                              *)

Fetching == {"stream", "verify", "rename"}

\* A file is in place with the length, and if need be the digest, it was
\* renamed with.
FetchInv ==
    /\ FetchTypeOK
    /\ fetchPc \in Fetching => part[fetching] = hashed
    /\ fetchPc \in {"verify", "rename"} => Len(hashed) = Size[body]
    /\ fetchPc = "rename" /\ announced # Absent => hashed = Chunks(announced)
    /\ FilesAreWhole

\* The empty sequence is one over any set.
LEMMA NoElements ==
  ASSUME NEW S
  PROVE  <<>> \in Seq(S) /\ Len(<<>>) = 0
OBVIOUS

\* A .part is a sequence of chunks, no longer than a body.
LEMMA PartFacts ==
  /\ <<>> \in Parts /\ Absent \notin Parts
  /\ \A q \in Parts : Len(q) \in Nat
  /\ \A q \in Parts, r \in 1..MaxRevision : Len(q) < Size[r] => Append(q, r) \in Parts
<1>1. 1 \in 1..MaxRevision /\ \A r \in 1..MaxRevision : Size[r] \in Nat \ {0}
  BY DownloadAssumption
<1>2. <<>> \in Seq(1..MaxRevision) /\ Len(<<>>) = 0
  OBVIOUS
<1>3. \A q \in Parts : q \in Seq(1..MaxRevision) /\ Len(q) \in Nat
  BY DEF Parts
<1>4. \A q \in Seq(1..MaxRevision), r \in 1..MaxRevision :
         Append(q, r) \in Seq(1..MaxRevision) /\ Len(Append(q, r)) = Len(q) + 1
  OBVIOUS
<1>5. ASSUME NEW q \in Parts, NEW r \in 1..MaxRevision, Len(q) < Size[r]
      PROVE  Append(q, r) \in Parts
  <2>1. Len(q) + 1 <= Size[r]
    BY <1>1, <1>3, <1>5
  <2>2. QED  BY <1>3, <1>4, <2>1 DEF Parts
<1>6. <<>> \in Parts
  <2>1. 0 <= Size[1]
    BY <1>1
  <2>2. QED  BY <1>1, <1>2, <2>1 DEF Parts
<1>7. Absent \notin Parts
  BY DownloadAssumption DEF Parts
<1>8. QED  BY <1>3, <1>5, <1>6, <1>7

\* It holds at the start: no file is there.
LEMMA InitFetch == FetchInit => FetchInv
<1> SUFFICES ASSUME FetchInit PROVE FetchInv  OBVIOUS
<1>1. FetchTypeOK
  BY PartFacts, DownloadAssumption DEF FetchInit, FetchTypeOK, FetchStages
<1>2. FilesAreWhole
  BY DEF FetchInit, FilesAreWhole
<1>3. fetchPc = "idle"
  BY DEF FetchInit
<1>4. QED  BY <1>1, <1>2, <1>3 DEF FetchInv, Fetching

\* Every step keeps the types.
LEMMA FetchTypeStep ==
  ASSUME FetchInv, FetchNext
  PROVE  FetchTypeOK'
<1> USE DEF FetchInv, FetchTypeOK, FetchStages, Goto
<1>1. CASE Upstream
  BY <1>1, DownloadAssumption DEF Upstream, stored, request
<1>2. CASE CutShort
  BY <1>2, DownloadAssumption DEF CutShort, stored, request
<1>3. CASE VerifyCached
  <2>1. dest' \in [Files -> Parts \union {Absent}]
    BY <1>3 DEF VerifyCached, stored
  <2>2. part' \in [Files -> Parts \union {Absent}]
    BY <1>3 DEF VerifyCached, stored
  <2>3. vouched' \subseteq Files
    BY <1>3 DEF VerifyCached, stored
  <2>4. QED  BY <1>3, <2>1, <2>2, <2>3 DEF VerifyCached, request
<1>4. CASE AnnounceSha
  BY <1>4 DEF AnnounceSha, stored
<1>5. CASE GetRest
  <2>1. part[fetching] \in Parts
    BY <1>5 DEF GetRest, PartLength
  <2>2. QED  BY <1>5, <2>1 DEF GetRest, stored
<1>6. CASE GetAll
  BY <1>6, PartFacts DEF GetAll
<1>7. CASE GetNothing \/ StreamEnds
  BY <1>7 DEF GetNothing, StreamEnds, stored, request
<1>8. CASE Stream
  <2>1. part[fetching] = hashed /\ hashed # Absent
    BY <1>8, PartFacts DEF Stream, Fetching
  <2>2. Len(hashed) < Size[body]
    BY <1>8, <2>1 DEF Stream, PartLength
  <2>3. Append(hashed, body) \in Parts
    BY <2>2, PartFacts
  <2>4. QED  BY <1>8, <2>1, <2>3 DEF Stream
<1>9. CASE Verify
  BY <1>9 DEF Verify, request
<1>10. CASE RenamePart
  BY <1>10 DEF RenamePart, request
<1>11. CASE \E f \in Files : Begin(f) \/ BeginVerify(f)
  BY <1>11 DEF Begin, BeginVerify, stored, request
<1>12. QED
  BY <1>1, <1>2, <1>3, <1>4, <1>5, <1>6, <1>7, <1>8, <1>9, <1>10, <1>11
  DEF FetchNext, FetchStep

\* Every step keeps what the stages say of the .part and of its digest.
LEMMA FetchStageStep ==
  ASSUME FetchInv, FetchNext
  PROVE  /\ (fetchPc \in Fetching => part[fetching] = hashed)'
         /\ (fetchPc \in {"verify", "rename"} => Len(hashed) = Size[body])'
         /\ (fetchPc = "rename" /\ announced # Absent => hashed = Chunks(announced))'
<1> USE DEF FetchInv, Fetching, Goto
<1>1. CASE Upstream
  BY <1>1 DEF Upstream, stored, request, Chunks
<1>2. CASE \/ CutShort \/ VerifyCached \/ AnnounceSha \/ GetNothing \/ RenamePart
           \/ \E f \in Files : Begin(f) \/ BeginVerify(f)
  <2>1. fetchPc' \notin Fetching
    BY <1>2
    DEF CutShort, VerifyCached, AnnounceSha, GetNothing, RenamePart, Begin, BeginVerify
  <2>2. QED  BY <2>1
<1>3. CASE GetRest
  BY <1>3 DEF GetRest, stored
<1>4. CASE GetAll
  BY <1>4 DEF GetAll, FetchTypeOK
<1>5. CASE Stream
  BY <1>5 DEF Stream, FetchTypeOK
<1>6. CASE StreamEnds
  <2>1. part[fetching] = hashed /\ hashed # Absent
    BY <1>6, PartFacts DEF StreamEnds, FetchTypeOK
  <2>2. Len(hashed) = Size[body]
    BY <1>6, <2>1 DEF StreamEnds, PartLength
  <2>3. QED  BY <1>6, <2>1, <2>2 DEF StreamEnds, stored, request
<1>7. CASE Verify
  <2>1. CASE announced = Absent \/ hashed = Chunks(announced)
    BY <1>7, <2>1 DEF Verify, request, Chunks
  <2>2. CASE ~(announced = Absent \/ hashed = Chunks(announced))
    BY <1>7, <2>2 DEF Verify
  <2>3. QED  BY <2>1, <2>2
<1>8. QED
  BY <1>1, <1>2, <1>3, <1>4, <1>5, <1>6, <1>7 DEF FetchNext, FetchStep

\* A file is renamed into place with the length of its body, and with the
\* digest if one was announced for it.
LEMMA WholeStep ==
  ASSUME FetchInv, FetchNext
  PROVE  FilesAreWhole'
<1> USE DEF FetchInv, Goto
<1> DEFINE Whole(f, d, v) == d # Absent =>
             /\ \E r \in 1..MaxRevision : Len(d) = Size[r]
             /\ f \in v => \E r \in 1..MaxRevision : d = Chunks(r)
<1>1. (\A f \in Files : Whole(f, dest'[f], vouched')) => FilesAreWhole'
  BY DEF FilesAreWhole, Chunks
<1>2. \A f \in Files : Whole(f, dest[f], vouched)
  BY DEF FilesAreWhole
<1>3. CASE RenamePart
  <2>1. /\ part[fetching] = hashed /\ Len(hashed) = Size[body] /\ body \in 1..MaxRevision
        /\ announced \in 1..MaxRevision \union {Absent} /\ fetching \in Files
        /\ announced # Absent => hashed = Chunks(announced)
    BY <1>3 DEF RenamePart, Fetching, FetchTypeOK
  <2>2. /\ dest'[fetching] = hashed
        /\ \A f \in Files \ {fetching} : dest'[f] = dest[f]
        /\ fetching \in vouched' => announced # Absent
        /\ vouched' \subseteq vouched \union {fetching}
    BY <1>3, <2>1 DEF RenamePart, FetchTypeOK
  <2>3. ASSUME NEW f \in Files, dest'[f] # Absent
        PROVE  /\ \E r \in 1..MaxRevision : Len(dest'[f]) = Size[r]
               /\ f \in vouched' => \E r \in 1..MaxRevision : dest'[f] = Chunks(r)
    <3>1. CASE f = fetching
      BY <2>1, <2>2, <3>1
    <3>2. CASE f # fetching
      BY <1>2, <2>2, <2>3, <3>2
    <3>3. QED  BY <3>1, <3>2
  <2>4. QED  BY <1>1, <2>3
<1>4. CASE VerifyCached
  <2>1. revision \in 1..MaxRevision /\ fetching \in Files
    BY DEF FetchTypeOK
  <2>2. \A f \in Files : dest'[f] \in {dest[f], Absent}
    BY <1>4 DEF VerifyCached, FetchTypeOK, stored
  <2>3. \A f \in vouched' : f \in vouched \/ (f = fetching /\ dest[f] = Chunks(revision))
    BY <1>4 DEF VerifyCached, stored
  <2>4. QED  BY <1>1, <1>2, <2>1, <2>2, <2>3
<1>5. CASE UNCHANGED <<dest, vouched>>
  BY <1>1, <1>2, <1>5
<1>6. RenamePart \/ VerifyCached \/ UNCHANGED <<dest, vouched>>
  BY DEF FetchNext, FetchStep, Upstream, CutShort, AnnounceSha, GetRest, GetAll,
         GetNothing, Stream, StreamEnds, Verify, Begin, BeginVerify, stored
<1>7. QED  BY <1>3, <1>4, <1>5, <1>6

\* The download's invariant holds of every run.
THEOREM FetchInvariance == FetchSpec => []FetchInv
<1>1. FetchInv /\ [FetchNext]_fetchVars => FetchInv'
  <2>1. ASSUME FetchInv, FetchNext PROVE FetchInv'
    BY <2>1, FetchTypeStep, FetchStageStep, WholeStep DEF FetchInv
  <2>2. ASSUME FetchInv, UNCHANGED fetchVars PROVE FetchInv'
    BY <2>2 DEF FetchInv, fetchVars, stored, request, FetchTypeOK, Chunks, FilesAreWhole
  <2>3. QED  BY <2>1, <2>2
<1>2. QED  BY <1>1, InitFetch, PTL DEF FetchSpec

\* The types: a .part is never longer than a body of the file.
THEOREM FetchTypeCorrect == FetchSpec => []FetchTypeOK
BY FetchInvariance, PTL DEF FetchInv

\* A file on disk has a body's length, and is one revision's if a digest was
\* announced for its download, for any number of kills, resumes and moves of
\* the branch between HEAD, GET and resume (hub.rs).
THEOREM DownloadsAreWhole == FetchSpec => []FilesAreWhole
BY FetchInvariance, PTL DEF FetchInv

-----------------------------------------------------------------------------
(* DiskCache: a read returns the bytes of the pack it is of.               *)
(*                                                                         *)
(* A key names no pack, so what a listed file holds is known only while no *)
(* other pack is open.  Whoever opens wipes the directory, and from then   *)
(* on a file's bytes are of a pack that is open beside, or gone.           *)

\* The types, but for the byte counts.
CacheShape ==
    /\ opened \subseteq Readers
    /\ entries \in [Readers -> SUBSET Ranges]
    /\ blocks \in [Ranges -> Packs \union {NoBytes}]
    /\ missed \in [Threads -> Ranges \union {NoBytes}]
    /\ served \in [Threads -> Packs \union {NoBytes}]
    /\ crossed \subseteq opened

\* Only an open reader lists entries, and only through one is a read on its way.
OpenInv ==
    /\ \A p \in Readers \ opened : entries[p] = {}
    /\ \A t \in Threads : missed[t] # NoBytes => ReaderOf(t) \in opened

\* Two open readers of two packs have found each other.
CrossInv ==
    \A p, q \in opened : PackOf(p) # PackOf(q) => p \in crossed

\* A reader beside which no other pack was open lists files of its own pack.
ListedInv ==
    \A p \in opened \ crossed : \A r \in entries[p] :
        blocks[r] \in {PackOf(p), NoBytes}

CacheInv ==
    CacheShape /\ OpenInv /\ CrossInv /\ ListedInv /\ ServesItsOwnBytes

LEMMA PackOfReaders ==
  /\ \A p \in Readers : PackOf(p) \in Packs
  /\ \A t \in Threads : ReaderOf(t) \in Readers
BY CacheAssumption DEF Packs

\* It holds at the start: nobody has the directory open.
LEMMA InitCache == CacheInit => CacheInv
BY DEF CacheInit, CacheInv, CacheShape, OpenInv, CrossInv, ListedInv, ServesItsOwnBytes

LEMMA OpenKeeps ==
  ASSUME CacheInv, NEW p \in Readers, Open(p)
  PROVE  CacheInv'
<1> USE DEF CacheInv, Open
<1>1. CacheShape'
  BY DEF CacheShape, CrossedBy
<1>2. OpenInv'
  BY DEF OpenInv
<1>3. CrossInv'
  <2> SUFFICES ASSUME NEW a \in opened', NEW b \in opened', PackOf(a) # PackOf(b)
               PROVE  a \in crossed'
    BY DEF CrossInv
  <2>1. CASE a \in opened /\ b \in opened
    BY <2>1 DEF CrossInv
  <2>2. CASE a = p /\ b \in opened
    BY <2>2 DEF CrossedBy
  <2>3. CASE b = p /\ a \in opened
    BY <2>3 DEF CrossedBy
  <2>4. QED  BY <2>1, <2>2, <2>3
<1>4. ListedInv'
  <2> SUFFICES ASSUME NEW q \in opened' \ crossed', NEW r \in entries'[q]
               PROVE  blocks'[r] = NoBytes
    BY DEF ListedInv
  <2>1. q \in Readers /\ entries[q] \subseteq Ranges
    BY DEF CacheShape
  <2>2. QED  BY <2>1
<1>5. ServesItsOwnBytes'
  BY DEF ServesItsOwnBytes
<1>6. QED  BY <1>1, <1>2, <1>3, <1>4, <1>5

LEMMA CloseKeeps ==
  ASSUME CacheInv, NEW p \in Readers, Close(p)
  PROVE  CacheInv'
<1> USE DEF CacheInv, Close
<1>1. CacheShape'
  BY DEF CacheShape
<1>2. OpenInv'
  BY DEF OpenInv, CacheShape
<1>3. CrossInv'
  BY DEF CrossInv
<1>4. ListedInv'
  BY DEF ListedInv, CacheShape
<1>5. ServesItsOwnBytes'
  BY DEF ServesItsOwnBytes, CacheShape
<1>6. QED  BY <1>1, <1>2, <1>3, <1>4, <1>5

\* get: a hit returns what a listed file holds, a miss lists nothing more.
LEMMA GetKeeps ==
  ASSUME CacheInv, NEW t \in Threads, NEW r \in Ranges,
         Hit(t, r) \/ Miss(t, r) \/ DropEntry(t, r)
  PROVE  CacheInv'
<1>1. CASE Hit(t, r)
  <2>1. ReaderOf(t) \in crossed \/ blocks[r] \in {PackOf(ReaderOf(t)), NoBytes}
    BY <1>1 DEF Hit, Reads, Entries, CacheInv, ListedInv
  <2>2. CacheShape' /\ OpenInv' /\ CrossInv' /\ ListedInv'
    BY <1>1 DEF Hit, CacheInv, CacheShape, OpenInv, CrossInv, ListedInv
  <2>3. ServesItsOwnBytes'
    BY <1>1, <2>1 DEF Hit, CacheInv, CacheShape, ServesItsOwnBytes
  <2>4. QED  BY <2>2, <2>3 DEF CacheInv
<1>2. CASE Miss(t, r) \/ DropEntry(t, r)
  <2>1. /\ UNCHANGED <<opened, blocks, served, crossed>>
        /\ ReaderOf(t) \in opened /\ missed' = [missed EXCEPT ![t] = r]
        /\ \/ UNCHANGED entries
           \/ entries' = [entries EXCEPT ![ReaderOf(t)] = @ \ {r}]
    BY <1>2 DEF Miss, DropEntry, Reads
  <2>2. CacheShape'
    BY <2>1 DEF CacheInv, CacheShape
  <2>3. \A p \in Readers : entries'[p] \subseteq entries[p]
    BY <2>1 DEF CacheInv, CacheShape
  <2>4. OpenInv'
    <3>1. \A p \in Readers \ opened' : entries'[p] = {}
      BY <2>1, <2>3 DEF CacheInv, OpenInv
    <3>2. \A x \in Threads : missed'[x] # NoBytes => ReaderOf(x) \in opened'
      BY <2>1 DEF CacheInv, CacheShape, OpenInv
    <3>3. QED  BY <3>1, <3>2 DEF OpenInv
  <2>5. ListedInv'
    BY <2>1, <2>3 DEF CacheInv, CacheShape, ListedInv
  <2>6. CrossInv' /\ ServesItsOwnBytes'
    BY <2>1 DEF CacheInv, CrossInv, ServesItsOwnBytes
  <2>7. QED  BY <2>2, <2>4, <2>5, <2>6 DEF CacheInv
<1>3. QED  BY <1>1, <1>2

\* read_range reads its own blob, and what it puts into the directory are its
\* own pack's bytes.
LEMMA ReadBlobKeeps ==
  ASSUME CacheInv, NEW t \in Threads, ReadBlob(t)
  PROVE  CacheInv'
<1> DEFINE p == ReaderOf(t)
           r == missed[t]
<1>1. /\ p \in opened /\ p \in Readers /\ r \in Ranges
      /\ PackOf(p) \in Packs
  BY PackOfReaders DEF ReadBlob, CacheInv, CacheShape, OpenInv
<1>2. /\ UNCHANGED <<opened, crossed>>
      /\ served' = [served EXCEPT ![t] = PackOf(p)]
      /\ missed' = [missed EXCEPT ![t] = NoBytes]
  BY DEF ReadBlob
<1>3. ServesItsOwnBytes' /\ CrossInv'
  BY <1>2 DEF CacheInv, CacheShape, CrossInv, ServesItsOwnBytes
<1>4. /\ served' \in [Threads -> Packs \union {NoBytes}]
      /\ missed' \in [Threads -> Ranges \union {NoBytes}]
      /\ \A x \in Threads : missed'[x] # NoBytes => ReaderOf(x) \in opened'
  BY <1>1, <1>2 DEF CacheInv, CacheShape, OpenInv
<1>5. CASE Unwanted(p, r)
  <2>1. UNCHANGED <<entries, blocks>>
    BY <1>5 DEF ReadBlob
  <2>2. CacheShape' /\ OpenInv' /\ ListedInv'
    BY <1>2, <1>4, <2>1 DEF CacheInv, CacheShape, OpenInv, ListedInv
  <2>3. QED  BY <1>3, <2>2 DEF CacheInv
<1>6. CASE ~Unwanted(p, r)
  <2>1. PICK keep \in Kept(p, r), written \in BOOLEAN : Admit(p, r, keep, written)
    BY <1>6 DEF ReadBlob
  <2> DEFINE victims == entries[p] \ keep
             landed  == IF written THEN {r} ELSE {}
  <2>2. /\ entries' = [entries EXCEPT ![p] = keep \union landed]
        /\ blocks' = [x \in Ranges |->
               IF x \in landed THEN PackOf(p)
               ELSE IF x \in victims THEN NoBytes ELSE blocks[x]]
    BY <2>1 DEF Admit
  <2>3. keep \subseteq entries[p] /\ landed \subseteq {r}
    BY DEF Kept
  <2>4. CacheShape'
    BY <1>1, <1>2, <1>4, <2>2, <2>3 DEF CacheInv, CacheShape
  <2>5. OpenInv'
    BY <1>1, <1>2, <1>4, <2>2 DEF CacheInv, CacheShape, OpenInv
  <2>6. ListedInv'
    <3> SUFFICES ASSUME NEW q \in opened \ crossed, NEW x \in entries'[q]
                 PROVE  blocks'[x] \in {PackOf(q), NoBytes}
      BY <1>2 DEF ListedInv
    <3>1. q \in Readers
      BY DEF CacheInv, CacheShape
    <3>2. PackOf(q) = PackOf(p)
      BY <1>1 DEF CacheInv, CrossInv
    <3>3. x \in entries[q] \/ x \in landed
      BY <1>1, <2>2, <2>3, <3>1 DEF CacheInv, CacheShape
    <3>4. x \in Ranges
      BY <1>1, <2>3, <3>1, <3>3 DEF CacheInv, CacheShape
    <3>5. x \notin landed => blocks[x] \in {PackOf(q), NoBytes}
      BY <3>3 DEF CacheInv, ListedInv
    <3>6. QED  BY <2>2, <3>2, <3>4, <3>5
  <2>7. QED  BY <1>3, <2>4, <2>5, <2>6 DEF CacheInv
<1>7. QED  BY <1>5, <1>6

\* The invariant of the cache holds of every run.
THEOREM CacheInvariance == CacheSpec => []CacheInv
<1>1. CacheInv /\ [CacheNext]_cacheVars => CacheInv'
  <2>1. ASSUME CacheInv, CacheNext PROVE CacheInv'
    BY <2>1, OpenKeeps, CloseKeeps, GetKeeps, ReadBlobKeeps DEF CacheNext
  <2>2. ASSUME CacheInv, UNCHANGED cacheVars PROVE CacheInv'
    BY <2>2 DEF CacheInv, cacheVars, CacheShape, OpenInv, CrossInv, ListedInv,
                ServesItsOwnBytes
  <2>3. QED  BY <2>1, <2>2
<1>2. QED  BY <1>1, InitCache, PTL DEF CacheSpec

\* What a read returns are the bytes of the pack that was asked, for any
\* number of readers, threads, ranges and bytes -- except beside a reader of
\* another pack (diskcache.rs, read_range of pack.rs).
THEOREM ReadsItsOwnPack == CacheSpec => []ServesItsOwnBytes
BY CacheInvariance, PTL DEF CacheInv

(* The byte counts.  What a set of ranges comes to is a fold; that it does *)
(* not depend on the order is shown on functions that count one range      *)
(* after another, by a smallest counterexample instead of an induction.    *)

\* f gives every set of ranges within S its bytes, whichever is counted first.
Adds(f, S) ==
    /\ f \in [SUBSET S -> Nat]
    /\ f[{}] = 0
    /\ \A s \in SUBSET S : \A x \in s : f[s] = LengthOf(x) + f[s \ {x}]

\* Among sets of ranges one has no other below it.
LEMMA SmallestOf ==
  ASSUME NEW T \in SUBSET SUBSET Ranges, T # {}
  PROVE  \E s \in T : \A w \in T : w \subseteq s => w = s
<1> DEFINE R == StrictSubsetOrdering(Ranges)
<1>1. FiniteSubsetsOf(Ranges) = SUBSET Ranges
  BY CacheAssumption, FS_FiniteSubsetsOfFinite
<1>2. IsWellFoundedOn(R, SUBSET Ranges)
  BY <1>1, FS_StrictSubsetOrderingWellFounded
<1> HIDE DEF R
<1>3. PICK s \in T : \A w \in T : ~(<<w, s>> \in R)
  BY <1>2, WFMin
<1>4. ASSUME NEW w \in T, w \subseteq s PROVE w = s
  <2>1. <<w, s>> \in (SUBSET Ranges) \X (SUBSET Ranges)
    OBVIOUS
  <2>2. w # s => <<w, s>> \in R
    BY <1>4, <2>1 DEF R, StrictSubsetOrdering
  <2>3. QED  BY <1>3, <2>2
<1>5. QED  BY <1>4

\* Every set of ranges has its bytes: were there one that has none, take a
\* smallest, and count one range of it after the others.
LEMMA BytesExist ==
  ASSUME NEW S \in SUBSET Ranges
  PROVE  \E f : Adds(f, S)
<1> DEFINE T == {s \in SUBSET Ranges : ~\E f : Adds(f, s)}
<1> SUFFICES ASSUME T # {} PROVE FALSE
  OBVIOUS
<1>0. T \in SUBSET SUBSET Ranges
  OBVIOUS
<1>1. PICK s \in T : \A w \in T : w \subseteq s => w = s
  <2> HIDE DEF T
  <2>1. QED  BY <1>0, SmallestOf
<1>2. CASE s = {}
  <2>1. Adds([w \in SUBSET {} |-> 0], {})
    BY DEF Adds
  <2>2. QED  BY <1>1, <1>2, <2>1
<1>3. CASE s # {}
  <2>1. PICK x \in s : TRUE
    BY <1>3
  <2>2. s \in SUBSET Ranges /\ x \in Ranges /\ LengthOf(x) \in Nat
    BY CacheAssumption
  <2>3. s \ {x} \notin T
    BY <1>1
  <2>4. PICK f : Adds(f, s \ {x})
    BY <2>2, <2>3
  <2> DEFINE g == [w \in SUBSET s |-> IF x \in w THEN LengthOf(x) + f[w \ {x}] ELSE f[w]]
  <2>5. \A w \in SUBSET s : w \ {x} \in SUBSET (s \ {x}) /\ (x \notin w => w \in SUBSET (s \ {x}))
    OBVIOUS
  <2>6. \A w \in SUBSET (s \ {x}) : f[w] \in Nat
    BY <2>4 DEF Adds
  <2>7. g \in [SUBSET s -> Nat]
    BY <2>2, <2>5, <2>6
  <2>8. g[{}] = 0
    BY <2>4 DEF Adds
  <2>9. ASSUME NEW w \in SUBSET s, NEW y \in w
        PROVE  g[w] = LengthOf(y) + g[w \ {y}]
    <3>0. LengthOf(y) \in Nat /\ LengthOf(x) \in Nat
      BY <2>2, CacheAssumption
    <3>1. CASE y = x
      BY <2>5, <3>1
    <3>2. CASE y # x /\ x \notin w
      BY <2>4, <2>5, <3>2 DEF Adds
    <3>3. CASE y # x /\ x \in w
      <4>1. g[w] = LengthOf(x) + f[w \ {x}]
        BY <3>3
      <4>2. g[w \ {y}] = LengthOf(x) + f[(w \ {y}) \ {x}]
        BY <3>3
      <4>3. f[w \ {x}] = LengthOf(y) + f[(w \ {x}) \ {y}]
        BY <2>4, <2>5, <3>3 DEF Adds
      <4>4. (w \ {x}) \ {y} = (w \ {y}) \ {x}
        OBVIOUS
      <4>5. f[(w \ {x}) \ {y}] \in Nat
        BY <2>5, <2>6
      <4> DEFINE rest == f[(w \ {x}) \ {y}]
      <4>6. g[w] = LengthOf(x) + (LengthOf(y) + rest) /\ g[w \ {y}] = LengthOf(x) + rest
        BY <4>1, <4>2, <4>3, <4>4
      <4> HIDE DEF g, rest
      <4>7. rest \in Nat
        BY <4>5 DEF rest
      <4>8. QED  BY <3>0, <4>6, <4>7
    <3>4. QED  BY <3>1, <3>2, <3>3
  <2>10. Adds(g, s)
    BY <2>7, <2>8, <2>9 DEF Adds
  <2>11. QED  BY <1>1, <2>10
<1>4. QED  BY <1>2, <1>3

\* The fold that counts the bytes takes one range after another, as chosen.
LEMMA SumIsFold ==
  ASSUME NEW S \in SUBSET Ranges, NEW f, Adds(f, S)
  PROVE  SumOf(S) = f[S]
<1> DEFINE Least(s) == CHOOSE x \in s : TRUE
           Counts(h) == h = [s \in SUBSET S |-> IF s = {} THEN 0
                                ELSE LengthOf(Least(s)) + h[s \ {Least(s)}]]
           iter == CHOOSE h : Counts(h)
<1>1. SumOf(S) = iter[S]
  BY DEF SumOf, MapThenSumSet, MapThenFoldSet
<1>2. \A s \in SUBSET S : s # {} => Least(s) \in s
  OBVIOUS
<1>3. Counts(f)
  BY <1>2 DEF Adds
<1>4. Counts(iter)
  BY <1>3
<1> HIDE DEF iter
<1>5. \A s \in SUBSET S : iter[s] = IF s = {} THEN 0
                                ELSE LengthOf(Least(s)) + iter[s \ {Least(s)}]
  BY <1>4
<1>6. \A s \in SUBSET S : f[s] = IF s = {} THEN 0
                                ELSE LengthOf(Least(s)) + f[s \ {Least(s)}]
  BY <1>2 DEF Adds
<1> DEFINE T == {s \in SUBSET S : iter[s] # f[s]}
<1>7. ASSUME T # {} PROVE FALSE
  <2>0. T \in SUBSET SUBSET Ranges
    OBVIOUS
  <2>1. PICK s \in T : \A w \in T : w \subseteq s => w = s
    <3> HIDE DEF T
    <3>1. QED  BY <1>7, <2>0, SmallestOf
  <2>2. s # {}
    BY <1>5, <1>6
  <2>3. Least(s) \in s /\ s \ {Least(s)} \in SUBSET S
    BY <1>2, <2>2
  <2> HIDE DEF Least
  <2>4. s \ {Least(s)} \notin T
    BY <2>1, <2>3
  <2>5. iter[s \ {Least(s)}] = f[s \ {Least(s)}]
    BY <2>3, <2>4
  <2>6. QED  BY <1>5, <1>6, <2>2, <2>5
<1>8. iter[S] = f[S]
  BY <1>7
<1>9. QED  BY <1>1, <1>8

\* What the ranges of a set come to: nothing for none, a range more for one
\* more, in parts what the whole.
LEMMA SumFacts ==
  /\ SumOf({}) = 0
  /\ \A S \in SUBSET Ranges : SumOf(S) \in Nat
  /\ \A S \in SUBSET Ranges : \A x \in S :
        SumOf(S) = LengthOf(x) + SumOf(S \ {x})
<1>1. PICK f : Adds(f, Ranges)
  BY BytesExist
<1>2. ASSUME NEW S \in SUBSET Ranges
      PROVE  SumOf(S) = f[S]
  <2> DEFINE h == [s \in SUBSET S |-> f[s]]
  <2>1. Adds(h, S)
    BY <1>1 DEF Adds
  <2>2. SumOf(S) = h[S]
    BY <2>1, SumIsFold
  <2>3. QED  BY <2>2
<1>3. QED  BY <1>1, <1>2 DEF Adds

\* Two sets that share nothing come to what they come to together.
LEMMA SumOfParts ==
  ASSUME NEW S \in SUBSET Ranges, NEW K \in SUBSET S
  PROVE  SumOf(S) = SumOf(K) + SumOf(S \ K)
<1> DEFINE T == {w \in SUBSET (S \ K) : SumOf(K \union w) # SumOf(K) + SumOf(w)}
<1>1. ASSUME T # {} PROVE FALSE
  <2>0. T \in SUBSET SUBSET Ranges
    OBVIOUS
  <2>1. PICK w \in T : \A v \in T : v \subseteq w => v = w
    <3> HIDE DEF T
    <3>1. QED  BY <1>1, <2>0, SmallestOf
  <2>2. w # {}
    <3>1. K \in SUBSET Ranges /\ K \union {} = K
      OBVIOUS
    <3>2. SumOf(K \union {}) = SumOf(K) + SumOf({})
      BY <3>1, SumFacts
    <3>3. QED  BY <3>2
  <2>3. PICK x \in w : TRUE
    BY <2>2
  <2>4. w \ {x} \notin T /\ w \ {x} \in SUBSET (S \ K)
    BY <2>1, <2>3
  <2>5. SumOf(K \union (w \ {x})) = SumOf(K) + SumOf(w \ {x})
    BY <2>4
  <2>6. SumOf(w) = LengthOf(x) + SumOf(w \ {x})
    BY SumFacts
  <2>7. (K \union w) \ {x} = K \union (w \ {x})
    OBVIOUS
  <2>8. SumOf(K \union w) = LengthOf(x) + SumOf(K \union (w \ {x}))
    BY SumFacts, <2>7
  <2>9. LengthOf(x) \in Nat /\ SumOf(K) \in Nat /\ SumOf(w \ {x}) \in Nat
    BY SumFacts, CacheAssumption
  <2>10. SumOf(K \union w) # SumOf(K) + SumOf(w)
    OBVIOUS
  <2> HIDE DEF T
  <2>11. QED  BY <2>5, <2>6, <2>8, <2>9, <2>10
<1>2. S \ K \notin T
  BY <1>1
<1>3. K \union (S \ K) = S
  OBVIOUS
<1>4. QED  BY <1>2, <1>3

\* The books of every cache: used_bytes is a number, what the listed ranges
\* come to, and within the capacity.
BooksInv == used \in [Readers -> Nat] /\ UsedIsWhatIsListed

LEMMA InitBooks == CacheInit => BooksInv
BY SumFacts, CacheAssumption DEF CacheInit, BooksInv, UsedIsWhatIsListed

\* A cache's books change together; what its entries come to decides.
LEMMA BooksChange ==
  ASSUME CacheInv, BooksInv, NEW p \in Readers, NEW E \in SUBSET Ranges, NEW n,
         entries' = [entries EXCEPT ![p] = E], used' = [used EXCEPT ![p] = n],
         n = SumOf(E), n <= Capacity
  PROVE  BooksInv'
<1>1. entries \in [Readers -> SUBSET Ranges] /\ used \in [Readers -> Nat]
  BY DEF CacheInv, CacheShape, BooksInv
<1>2. n \in Nat
  BY SumFacts
<1>3. used' \in [Readers -> Nat]
  BY <1>1, <1>2
<1>4. ASSUME NEW q \in Readers
      PROVE  used'[q] = SumOf(entries'[q]) /\ used'[q] <= Capacity
  <2>1. CASE q = p
    BY <1>1, <2>1
  <2>2. CASE q # p
    <3>1. used'[q] = used[q] /\ entries'[q] = entries[q]
      BY <1>1, <2>2
    <3>2. QED  BY <3>1 DEF BooksInv, UsedIsWhatIsListed
  <2>3. QED  BY <2>1, <2>2
<1>5. QED  BY <1>3, <1>4 DEF BooksInv, UsedIsWhatIsListed

\* An entry that was a lie goes with its bytes; a closed cache lists nothing.
LEMMA DropBooks ==
  ASSUME CacheInv, BooksInv, NEW t \in Threads, NEW r \in Ranges, DropEntry(t, r)
  PROVE  BooksInv'
<1> DEFINE p == ReaderOf(t)
           E == entries[p] \ {r}
<1>1. p \in Readers /\ entries[p] \in SUBSET Ranges /\ r \in entries[p]
  BY PackOfReaders DEF DropEntry, Entries, CacheInv, CacheShape
<1>2. entries' = [entries EXCEPT ![p] = E] /\ used' = [used EXCEPT ![p] = used[p] - LengthOf(r)]
  BY DEF DropEntry
<1>3. used[p] = SumOf(entries[p]) /\ used[p] <= Capacity /\ used[p] \in Nat
  BY <1>1 DEF BooksInv, UsedIsWhatIsListed
<1>4. SumOf(entries[p]) = LengthOf(r) + SumOf(E)
  BY <1>1, SumFacts
<1>5. E \in SUBSET Ranges /\ LengthOf(r) \in Nat /\ SumOf(E) \in Nat /\ Capacity \in Nat
  BY <1>1, SumFacts, CacheAssumption
<1> HIDE DEF p, E
<1>6. used[p] - LengthOf(r) = SumOf(E) /\ used[p] - LengthOf(r) <= Capacity
  BY <1>3, <1>4, <1>5
<1>7. QED  BY <1>1, <1>2, <1>5, <1>6, BooksChange

\* put: what is evicted is taken off before what landed is added, and room
\* was made for it.
LEMMA ReadBooks ==
  ASSUME CacheInv, BooksInv, NEW t \in Threads, ReadBlob(t)
  PROVE  BooksInv'
<1> DEFINE p == ReaderOf(t)
           r == missed[t]
<1>1. p \in Readers /\ entries[p] \in SUBSET Ranges /\ r \in Ranges
  BY PackOfReaders DEF ReadBlob, CacheInv, CacheShape
<1>2. CASE Unwanted(p, r)
  <2>1. UNCHANGED <<entries, used>>
    BY <1>2 DEF ReadBlob
  <2>2. QED  BY <2>1 DEF BooksInv, UsedIsWhatIsListed
<1>3. CASE ~Unwanted(p, r)
  <2>1. PICK keep \in Kept(p, r), written \in BOOLEAN : Admit(p, r, keep, written)
    BY <1>3 DEF ReadBlob
  <2> DEFINE victims == entries[p] \ keep
             landed  == IF written THEN {r} ELSE {}
             E == keep \union landed
             n == used[p] - SumOf(victims) + SumOf(landed)
  <2>2. entries' = [entries EXCEPT ![p] = E] /\ used' = [used EXCEPT ![p] = n]
    BY <2>1 DEF Admit
  <2>3. keep \in SUBSET entries[p] /\ SumOf(keep) + LengthOf(r) <= Capacity
    BY DEF Kept
  <2>4. r \notin entries[p]
    BY <1>3 DEF Unwanted
  <2>5. used[p] = SumOf(keep) + SumOf(victims)
    <3>1. SumOf(entries[p]) = SumOf(keep) + SumOf(victims)
      BY <1>1, <2>3, SumOfParts
    <3>2. QED  BY <1>1, <3>1 DEF BooksInv, UsedIsWhatIsListed
  <2>6. E \in SUBSET Ranges /\ landed \in SUBSET Ranges /\ keep \in SUBSET E
    BY <1>1, <2>3
  <2>7. SumOf(E) = SumOf(keep) + SumOf(landed)
    <3>1. E \ keep = landed
      BY <2>3, <2>4
    <3>2. QED  BY <2>6, <3>1, SumOfParts
  <2>8. SumOf(landed) <= LengthOf(r)
    <3>1. {r} \ {r} = {} /\ {r} \in SUBSET Ranges /\ LengthOf(r) \in Nat
      BY <1>1, CacheAssumption
    <3>2. SumOf({r}) = LengthOf(r) + 0
      BY <3>1, SumFacts
    <3>3. SumOf({}) <= LengthOf(r)
      BY <3>1, SumFacts
    <3>4. CASE written
      BY <3>1, <3>2, <3>4
    <3>5. CASE ~written
      BY <3>3, <3>5
    <3>6. QED  BY <3>4, <3>5
  <2>9. /\ SumOf(keep) \in Nat /\ SumOf(landed) \in Nat /\ SumOf(victims) \in Nat
        /\ LengthOf(r) \in Nat /\ Capacity \in Nat
    BY <1>1, <2>3, <2>6, SumFacts, CacheAssumption
  <2>10. n = SumOf(E) /\ n <= Capacity
    <3> HIDE DEF p, r, victims, landed, E
    <3>1. QED  BY <2>3, <2>5, <2>7, <2>8, <2>9
  <2> HIDE DEF p, r, E, n
  <2>11. QED  BY <1>1, <2>2, <2>6, <2>10, BooksChange
<1>4. QED  BY <1>2, <1>3

LEMMA BooksStep ==
  ASSUME CacheInv, BooksInv, CacheNext
  PROVE  BooksInv'
<1>1. ASSUME NEW p \in Readers, Open(p) \/ Close(p) PROVE BooksInv'
  <2>1. CASE Open(p)
    BY <2>1 DEF Open, BooksInv, UsedIsWhatIsListed
  <2>2. CASE Close(p)
    <3>1. /\ entries' = [entries EXCEPT ![p] = {}] /\ used' = [used EXCEPT ![p] = 0]
          /\ 0 = SumOf({}) /\ 0 <= Capacity
      BY <2>2, SumFacts, CacheAssumption DEF Close
    <3>2. QED  BY <3>1, BooksChange
  <2>3. QED  BY <1>1, <2>1, <2>2
<1>2. ASSUME NEW t \in Threads, NEW r \in Ranges, Hit(t, r) \/ Miss(t, r) PROVE BooksInv'
  BY <1>2 DEF Hit, Miss, BooksInv, UsedIsWhatIsListed
<1>3. QED  BY <1>1, <1>2, DropBooks, ReadBooks DEF CacheNext

\* The books of every cache are right in every run.
LEMMA BooksInvariance == CacheSpec => []BooksInv
<1>1. CacheInv /\ BooksInv /\ [CacheNext]_cacheVars => BooksInv'
  <2>1. ASSUME BooksInv, UNCHANGED cacheVars PROVE BooksInv'
    BY <2>1 DEF BooksInv, UsedIsWhatIsListed, cacheVars
  <2>2. QED  BY <2>1, BooksStep
<1>2. QED  BY <1>1, InitBooks, CacheInvariance, PTL DEF CacheSpec

\* Every variable of the cache keeps its type; in particular the byte counts
\* never go below nothing (diskcache.rs).
THEOREM CacheTypeCorrect == CacheSpec => []CacheTypeOK
<1>1. CacheInv /\ BooksInv => CacheTypeOK
  BY DEF CacheInv, CacheShape, BooksInv, CacheTypeOK
<1>2. QED  BY <1>1, CacheInvariance, BooksInvariance, PTL

\* For any ranges and capacity, used_bytes is what the listed entries come to
\* and never above the capacity, however entries come and go: dropped as lies,
\* evicted, refused, or lost to a failed write (DiskCache of diskcache.rs).
THEOREM BooksAreRight == CacheSpec => []UsedIsWhatIsListed
BY BooksInvariance, PTL DEF BooksInv

-----------------------------------------------------------------------------
(* PlacementBudget: no growth back into a budget that was refused.         *)
(*                                                                         *)
(* Once it has learned of a failure the controller is below the ceiling    *)
(* that follows from it, and so is what it measured best since.  Until it  *)
(* has, the flag stands and the budget does not move -- as long as nobody  *)
(* else takes the flag, which is why this is of the controller by itself.  *)

\* What failed bounds the budget, and the best one to go back to.
CeilingInv ==
    failedAt # None =>
        /\ budget <= Shrunk(failedAt)
        /\ best # None => best.budget <= Shrunk(failedAt)

\* A plain caller's controller has learned of every failure, or is about to.
LearnedInv ==
    ~Served =>
        /\ loaded
        /\ refused # None =>
              \/ failedAt # None /\ failedAt <= refused
              \/ allocFailed /\ budget <= refused

BudgetInv == BudgetTypeOK /\ CeilingInv /\ LearnedInv

\* A cut is between the floor and the budget; below what failed, but for the
\* floor.
LEMMA ShrunkFacts ==
  ASSUME NEW b \in 0..Ceiling
  PROVE  /\ Shrunk(b) \in Floor..Ceiling
         /\ Shrunk(b) = Floor \/ Shrunk(b) < b
BY BudgetAssumption DEF Shrunk, AtLeast

\* None stands for no record and for no number.
LEMMA NoneFacts ==
  /\ None \notin 0..Ceiling
  /\ None \notin [speed : Speeds, budget : Floor..Ceiling]
BY BudgetAssumption

LEMMA InitBudget == BudgetInit => BudgetInv
<1>1. ASSUME BudgetInit PROVE BudgetTypeOK
  <2>1. failures \in 0..MaxFailures /\ budget \in Floor..Ceiling
    BY <1>1, BudgetAssumption DEF BudgetInit
  <2>2. QED  BY <1>1, <2>1 DEF BudgetInit, BudgetTypeOK
<1>2. BudgetInit => CeilingInv /\ LearnedInv
  BY DEF BudgetInit, CeilingInv, LearnedInv
<1>3. QED  BY <1>1, <1>2 DEF BudgetInv

\* Where the budget goes, and what it leaves behind.
LEMMA BudgetStep ==
  ASSUME BudgetInv, BudgetNext
  PROVE  BudgetInv' /\ (~Served /\ budget' > budget => ~Refused(budget'))
<1> USE DEF BudgetInv, BudgetTypeOK
<1>0. Floor \in Nat /\ Ceiling \in Nat /\ Floor <= Ceiling
  BY BudgetAssumption
<1>1. CASE AllocFails
  <2>1. BudgetTypeOK'
    BY <1>0, <1>1, BudgetAssumption DEF AllocFails, AtMost
  <2>2. CeilingInv'
    BY <1>1 DEF AllocFails, CeilingInv
  <2>3. LearnedInv'
    <3>1. /\ allocFailed' /\ loaded' = ~Served
          /\ UNCHANGED <<driver, budget, failedAt>>
          /\ refused' = IF refused = None THEN budget ELSE AtMost(refused, budget)
      BY <1>1 DEF AllocFails
    <3> SUFFICES ASSUME ~Served
                 PROVE  \/ failedAt # None /\ failedAt <= refused'
                        \/ budget <= refused'
      BY <3>1 DEF LearnedInv, Served
    <3>2. CASE refused = None
      BY <1>0, <3>1, <3>2
    <3>3. CASE refused # None /\ refused' = budget
      BY <1>0, <3>3
    <3>4. CASE refused # None /\ refused' = refused
      BY <3>4 DEF LearnedInv
    <3>5. QED  BY <3>1, <3>2, <3>3, <3>4 DEF AtMost
  <2>4. ~(budget' > budget)
    BY <1>0, <1>1 DEF AllocFails
  <2>5. QED  BY <2>1, <2>2, <2>3, <2>4
<1>2. CASE GuardTakes
  BY <1>0, <1>2 DEF GuardTakes, CeilingInv, LearnedInv, Served
<1>3. CASE Dwell
  BY <1>0, <1>3 DEF Dwell, CeilingInv, LearnedInv, Served
<1>4. CASE \E planned \in Floor..Ceiling : Reload(planned)
  BY <1>0, <1>4 DEF Reload, CeilingInv, LearnedInv, Served
<1>5. ASSUME NEW inUse \in 0..Ceiling, Cut(inUse)
      PROVE  BudgetInv' /\ ~(budget' > budget)
  <2> DEFINE level == AtMost(inUse, budget)
  <2>1. level \in 0..Ceiling /\ level <= budget
    BY <1>0 DEF AtMost
  <2>2. Shrunk(level) \in Floor..Ceiling
    BY <2>1, ShrunkFacts
  <2>3. /\ failedAt' = IF failedAt = None THEN level ELSE AtMost(failedAt, level)
        /\ budget' = AtMost(Shrunk(level), budget)
        /\ best' = None /\ ~dwelled' /\ ~allocFailed'
        /\ UNCHANGED <<driver, loaded, refused, failures>>
    BY <1>5 DEF Cut
  <2> HIDE DEF level
  <2>4. /\ budget' \in Floor..Ceiling /\ budget' <= budget
        /\ budget' <= Shrunk(level)
    BY <1>0, <2>2, <2>3 DEF AtMost
  <2>5. failedAt' \in 0..Ceiling /\ failedAt' <= level
    BY <1>0, <2>1, <2>3 DEF AtMost
  <2>6. BudgetTypeOK'
    BY <1>5, <2>3, <2>4, <2>5 DEF Cut
  <2>7. CeilingInv'
    <3>1. CASE failedAt' = level
      BY <2>3, <2>4, <3>1 DEF CeilingInv
    <3>2. CASE failedAt' = failedAt /\ failedAt # None
      <4>1. Shrunk(failedAt) \in Floor..Ceiling
        BY <2>5, <3>2, ShrunkFacts
      <4>2. budget' <= Shrunk(failedAt)
        BY <1>0, <2>4, <3>2, <4>1 DEF CeilingInv
      <4>3. QED  BY <2>3, <3>2, <4>2 DEF CeilingInv
    <3>3. QED  BY <2>3, <3>1, <3>2 DEF AtMost
  <2>8. LearnedInv'
    <3>1. failedAt' # None
      BY <2>5, NoneFacts
    <3>2. ASSUME ~Served, refused # None
          PROVE  failedAt' <= refused
      <4>1. CASE failedAt # None /\ failedAt <= refused
        BY <1>0, <2>1, <2>3, <3>2, <4>1 DEF AtMost
      <4>2. CASE allocFailed /\ budget <= refused
        BY <1>0, <2>1, <2>5, <3>2, <4>2
      <4>3. QED  BY <3>2, <4>1, <4>2 DEF LearnedInv
    <3>3. QED  BY <2>3, <3>1, <3>2 DEF LearnedInv, Served
  <2>9. ~(budget' > budget)
    BY <1>0, <2>4
  <2>10. QED  BY <2>6, <2>7, <2>8, <2>9
<1>6. ASSUME ~Served, ~allocFailed, budget' \in Floor..Ceiling, budget' > budget,
             failedAt # None => budget' <= Shrunk(failedAt)
      PROVE  ~Refused(budget')
  <2> SUFFICES ASSUME refused # None, budget' >= refused PROVE FALSE
    BY DEF Refused
  <2>1. failedAt # None /\ failedAt <= refused /\ failedAt \in 0..Ceiling
    BY <1>6 DEF LearnedInv
  <2>2. Shrunk(failedAt) \in Floor..Ceiling /\ (Shrunk(failedAt) = Floor \/ Shrunk(failedAt) < failedAt)
    BY <2>1, ShrunkFacts
  <2>3. budget' > Floor
    BY <1>0, <1>6
  <2>4. QED  BY <1>0, <1>6, <2>1, <2>2, <2>3
<1>7. ASSUME NEW speed \in Speeds, GoBack(speed)
      PROVE  BudgetInv' /\ (~Served /\ budget' > budget => ~Refused(budget'))
  <2>1. best # None /\ best.budget \in Floor..Ceiling
    BY <1>7 DEF GoBack, Regressed
  <2>2. /\ budget' = best.budget /\ ~dwelled' /\ ~allocFailed
        /\ UNCHANGED <<driver, best, failedAt, allocFailed, loaded, refused, failures>>
    BY <1>7 DEF GoBack
  <2>3. BudgetTypeOK'
    BY <1>7, <2>1, <2>2 DEF GoBack
  <2>4. CeilingInv'
    BY <2>1, <2>2 DEF CeilingInv, Shrunk
  <2>5. LearnedInv'
    BY <2>2 DEF LearnedInv, Served
  <2>6. failedAt # None => budget' <= Shrunk(failedAt)
    BY <2>1, <2>2 DEF CeilingInv
  <2>7. QED  BY <1>6, <2>1, <2>2, <2>3, <2>4, <2>5, <2>6
<1>8. ASSUME NEW speed \in Speeds, NEW pressure \in BOOLEAN, Judge(speed, pressure)
      PROVE  BudgetInv' /\ (~Served /\ budget' > budget => ~Refused(budget'))
  <2>1. /\ ~allocFailed
        /\ UNCHANGED <<driver, failedAt, allocFailed, loaded, refused, failures>>
    BY <1>8 DEF Judge
  <2>2. best' = [speed |-> speed, budget |-> budget] \/ best' = best
    BY <1>8 DEF Judge
  <2>3. \/ budget' = budget
        \/ budget' = budget + 1 /\ budget + 1 <= HardCeiling
    BY <1>8 DEF Judge, MayGrow
  <2>4. failedAt # None => failedAt \in 0..Ceiling /\ Shrunk(failedAt) \in Floor..Ceiling
    BY ShrunkFacts
  <2>5. budget' \in Floor..Ceiling /\ (failedAt # None => budget' <= Shrunk(failedAt))
    <3>1. HardCeiling <= Ceiling /\ (failedAt # None => HardCeiling <= Shrunk(failedAt))
      BY <1>0, <2>4 DEF HardCeiling, AtMost
    <3>2. HardCeiling \in Int
      BY <1>0, <2>4 DEF HardCeiling, AtMost
    <3>3. QED  BY <1>0, <2>3, <2>4, <3>1, <3>2 DEF CeilingInv
  <2>6. dwelled' \in BOOLEAN
    BY <1>8 DEF Judge
  <2>7. BudgetTypeOK'
    BY <2>1, <2>2, <2>5, <2>6
  <2>8. CeilingInv'
    BY <2>1, <2>2, <2>5 DEF CeilingInv, Shrunk
  <2>9. LearnedInv'
    BY <2>1 DEF LearnedInv, Served
  <2>10. QED  BY <1>6, <2>1, <2>5, <2>7, <2>8, <2>9
<1>9. QED
  BY <1>1, <1>2, <1>3, <1>4, <1>5, <1>7, <1>8 DEF BudgetNext

LEMMA BudgetStutter ==
  ASSUME BudgetInv, UNCHANGED budgetVars
  PROVE  BudgetInv'
BY DEF BudgetInv, budgetVars, BudgetTypeOK, CeilingInv, LearnedInv, Shrunk, Served

\* The controller's invariant holds of every run.
THEOREM ControllerInvariance == BudgetSpec => []BudgetInv
<1>1. BudgetInv /\ [BudgetNext]_budgetVars => BudgetInv'
  BY BudgetStep, BudgetStutter
<1>2. QED  BY <1>1, InitBudget, PTL DEF BudgetSpec

\* A controller by itself never grows back into a budget the machine refused,
\* for any floor, ceiling, speeds and failures: not by the creep upward, not on
\* the way back to the best, not under the host's pressure (adapt.rs, failed_at).
THEOREM NeverGrowsBack == BudgetSpec => AloneItNeverDoes
<1>1. BudgetInv /\ [BudgetNext]_budgetVars =>
        [~Served /\ budget' > budget => ~Refused(budget')]_budgetVars
  BY BudgetStep
<1>2. QED
  BY <1>1, ControllerInvariance, PTL DEF BudgetSpec, AloneItNeverDoes

-----------------------------------------------------------------------------
(* WorkingSet: only the first layer overflows.                             *)
(*                                                                         *)
(* The pinned units leave a window's room, so when room must be made for a *)
(* unit of the next layer, something that the next layer does not need is  *)
(* on the device; and what is needed furthest off is never of that layer   *)
(* while anything else is there.                                           *)

\* A layer's units: finitely many, no more than are listed.
LEMMA ListedUnits ==
  ASSUME NEW s \in Seq(Int)
  PROVE  /\ IsFiniteSet(ToSet(s)) /\ Cardinality(ToSet(s)) <= Len(s)
         /\ ToSet(s) \subseteq Int
         /\ s # <<>> =>
              /\ Head(s) \in ToSet(s) /\ Tail(s) \in Seq(Int)
              /\ ToSet(s) = {Head(s)} \union ToSet(Tail(s))
<1> DEFINE n == Len(s)
<1>1. n \in Nat /\ DOMAIN s = 1..n /\ \A i \in 1..n : s[i] \in Int
  OBVIOUS
<1>2. ToSet(s) = {s[i] : i \in 1..n}
  BY <1>1 DEF ToSet
<1>3. [i \in 1..n |-> s[i]] \in Surjection(1..n, ToSet(s))
  BY <1>2 DEF Surjection
<1>4. IsFiniteSet(1..n) /\ Cardinality(1..n) = n
  <2>1. n \in Nat
    BY <1>1
  <2> HIDE DEF n
  <2>2. IsFiniteSet(1..n) /\ Cardinality(1..n) = IF 1 > n THEN 0 ELSE n - 1 + 1
    BY <2>1, FS_Interval
  <2>3. QED  BY <2>1, <2>2
<1>5. IsFiniteSet(ToSet(s)) /\ Cardinality(ToSet(s)) <= n
  BY <1>3, <1>4, FS_Surjection
<1>6. ToSet(s) \subseteq Int
  BY <1>1, <1>2
<1>7. ASSUME s # <<>>
      PROVE  /\ Head(s) \in ToSet(s) /\ Tail(s) \in Seq(Int)
             /\ ToSet(s) = {Head(s)} \union ToSet(Tail(s))
  <2>1. n >= 1 /\ Head(s) = s[1] /\ Tail(s) \in Seq(Int)
    BY <1>7
  <2>2. Len(Tail(s)) = n - 1 /\ \A i \in 1..n - 1 : Tail(s)[i] = s[i + 1]
    BY <1>7
  <2>3. ToSet(Tail(s)) = {s[i + 1] : i \in 1..n - 1}
    <3>1. DOMAIN Tail(s) = 1..n - 1
      BY <2>1, <2>2
    <3>2. QED  BY <2>2, <3>1 DEF ToSet
  <2>4. \A i \in 1..n : i = 1 \/ (i - 1 \in 1..n - 1 /\ (i - 1) + 1 = i)
    BY <1>1
  <2>5. \A i \in 1..n - 1 : i + 1 \in 1..n
    BY <1>1
  <2>6. ToSet(s) \subseteq {s[1]} \union {s[i + 1] : i \in 1..n - 1}
    BY <1>2, <2>4
  <2>7. {s[1]} \union {s[i + 1] : i \in 1..n - 1} \subseteq ToSet(s)
    BY <1>1, <1>2, <2>1, <2>5
  <2>8. QED  BY <2>1, <2>3, <2>6, <2>7
<1>8. QED  BY <1>5, <1>6, <1>7

\* A pass needs finitely many units.
LEMMA UnitsFinite ==
  ASSUME NEW d \in Seq(Seq(Int))
  PROVE  /\ IsFiniteSet(UnitsOf(d)) /\ UnitsOf(d) \subseteq Int
         /\ \A l \in DOMAIN d : d[l] \in Seq(Int) /\ ToSet(d[l]) \subseteq UnitsOf(d)
<1> DEFINE T == {ToSet(d[l]) : l \in DOMAIN d}
<1>1. DOMAIN d = 1..Len(d) /\ Len(d) \in Nat /\ \A l \in DOMAIN d : d[l] \in Seq(Int)
  OBVIOUS
<1>2. [l \in DOMAIN d |-> ToSet(d[l])] \in Surjection(DOMAIN d, T)
  BY DEF Surjection
<1>3. IsFiniteSet(DOMAIN d)
  BY <1>1, FS_Interval
<1>4. IsFiniteSet(T)
  BY <1>2, <1>3, FS_Surjection
<1>5. \A S \in T : IsFiniteSet(S) /\ S \subseteq Int
  BY <1>1, ListedUnits
<1>6. IsFiniteSet(UNION T)
  BY <1>4, <1>5, FS_UNION
<1>7. QED  BY <1>1, <1>5, <1>6 DEF UnitsOf

\* A set of numbers has a least one, and one that is bounded a greatest.
LEMMA LeastOf ==
  ASSUME NEW T \in SUBSET Nat, T # {}
  PROVE  \E x \in T : \A y \in T : x <= y
<1> DEFINE R == OpToRel(<, Nat)
<1>1. IsWellFoundedOn(R, Nat)
  BY NatLessThanWellFounded
<1>2. \A x, y \in Nat : <<y, x>> \in R <=> y < x
  BY DEF OpToRel
<1> HIDE DEF R
<1>3. PICK x \in T : \A y \in T : ~(<<y, x>> \in R)
  BY <1>1, WFMin
<1>4. ASSUME NEW y \in T PROVE x <= y
  <2>1. x \in Nat /\ y \in Nat
    OBVIOUS
  <2>2. ~(y < x)
    BY <1>2, <1>3, <2>1
  <2>3. QED  BY <2>1, <2>2
<1>5. QED  BY <1>4

LEMMA GreatestOf ==
  ASSUME NEW T \in SUBSET Nat, T # {}, NEW n \in Nat, \A x \in T : x <= n
  PROVE  \E x \in T : \A y \in T : y <= x
<1> DEFINE Below == {n - x : x \in T}
<1>1. Below \in SUBSET Nat /\ Below # {}
  <2>1. \A x \in T : x \in Nat /\ n - x \in Nat
    OBVIOUS
  <2>2. QED  BY <2>1
<1>2. PICK b \in Below : \A c \in Below : b <= c
  BY <1>1, LeastOf
<1>3. PICK x \in T : b = n - x
  OBVIOUS
<1>4. \A y \in T : n - x <= n - y
  BY <1>2, <1>3
<1>5. QED  BY <1>4

\* How many units are hotter than this one.
Rank(d, u) == Cardinality({v \in UnitsOf(d) : Hotter(d, v, u)})

LEMMA RankFacts ==
  ASSUME NEW d \in Seq(Seq(Int)), NEW u \in UnitsOf(d)
  PROVE  /\ Uses(d, u) \in Nat
         /\ IsFiniteSet({v \in UnitsOf(d) : Hotter(d, v, u)})
         /\ Rank(d, u) \in Nat /\ Rank(d, u) <= Cardinality(UnitsOf(d))
<1>1. {l \in DOMAIN d : u \in ToSet(d[l])} \in SUBSET (1..Len(d))
  OBVIOUS
<1>2. IsFiniteSet(1..Len(d))
  BY FS_Interval
<1>3. Uses(d, u) \in Nat
  BY <1>1, <1>2, FS_Subset, FS_CardinalityType DEF Uses
<1>4. {v \in UnitsOf(d) : Hotter(d, v, u)} \in SUBSET UnitsOf(d)
  OBVIOUS
<1>5. QED  BY <1>3, <1>4, UnitsFinite, FS_Subset, FS_CardinalityType DEF Rank

\* No more are pinned than leave a window's room: the coldest that is pinned
\* has fewer than that hotter than itself, and they are all the others.
LEMMA PinnedFit ==
  ASSUME NEW d \in Seq(Seq(Int)), NEW c \in Nat, NEW w \in Nat
  PROVE  /\ Pinned(d, c, w) \subseteq UnitsOf(d)
         /\ IsFiniteSet(Pinned(d, c, w))
         /\ Cardinality(Pinned(d, c, w)) <= PinRoom(c, w)
<1> DEFINE P == Pinned(d, c, w)
<1>1. P \in SUBSET UnitsOf(d) /\ IsFiniteSet(P)
  BY UnitsFinite, FS_Subset DEF Pinned
<1>2. PinRoom(c, w) \in Nat
  BY DEF PinRoom
<1>3. CASE P = {}
  BY <1>2, <1>3, FS_EmptySet
<1>4. CASE P # {}
  <2> DEFINE T == {Rank(d, u) : u \in P}
  <2>1. Cardinality(UnitsOf(d)) \in Nat
    BY UnitsFinite, FS_CardinalityType
  <2>2. T \in SUBSET Nat /\ T # {} /\ \A x \in T : x <= Cardinality(UnitsOf(d))
    BY <1>1, <1>4, RankFacts
  <2>3. PICK x \in T : \A y \in T : y <= x
    BY <2>1, <2>2, GreatestOf
  <2>4. PICK u \in P : x = Rank(d, u)
    OBVIOUS
  <2>5. u \in UnitsOf(d) /\ \A v \in P : Rank(d, v) <= Rank(d, u)
    BY <1>1, <2>3, <2>4
  <2> DEFINE H == {v \in UnitsOf(d) : Hotter(d, v, u)}
  <2>6. IsFiniteSet(H) /\ Cardinality(H) \in Nat
    BY <2>5, RankFacts, FS_CardinalityType
  <2>7. ASSUME NEW v \in P, v # u
        PROVE  v \in H
    <3>1. v \in UnitsOf(d) /\ v \in Int /\ u \in Int
      BY <1>1, <2>5, UnitsFinite
    <3>2. Uses(d, u) \in Nat /\ Uses(d, v) \in Nat
      BY <2>5, <3>1, RankFacts
    <3>3. Hotter(d, v, u) \/ Hotter(d, u, v)
      BY <2>7, <3>1, <3>2 DEF Hotter
    <3>4. CASE Hotter(d, u, v)
      <4> DEFINE G == {y \in UnitsOf(d) : Hotter(d, y, v)}
      <4>1. IsFiniteSet(G) /\ Cardinality(G) \in Nat
        BY <3>1, RankFacts, FS_CardinalityType
      <4>2. \A y \in H : Hotter(d, y, v)
        <5> TAKE y \in H
        <5>1. y \in UnitsOf(d) /\ y \in Int /\ Uses(d, y) \in Nat /\ Hotter(d, y, u)
          BY UnitsFinite, RankFacts
        <5>2. QED  BY <3>1, <3>2, <3>4, <5>1 DEF Hotter
      <4>3. H \union {u} \in SUBSET G
        BY <2>5, <3>4, <4>2
      <4>4. u \notin H
        BY <2>5, <3>1, <3>2 DEF Hotter
      <4>5. Cardinality(H \union {u}) = Cardinality(H) + 1
        BY <2>6, <4>4, FS_AddElement
      <4>6. Cardinality(H) + 1 <= Cardinality(G)
        BY <4>1, <4>3, <4>5, FS_Subset
      <4>7. Cardinality(G) <= Cardinality(H)
        BY <2>5 DEF Rank
      <4>8. QED  BY <2>6, <4>1, <4>6, <4>7
    <3>5. QED  BY <3>1, <3>3, <3>4
  <2>8. P \in SUBSET (H \union {u})
    BY <2>7
  <2>9. Cardinality(H) < PinRoom(c, w)
    BY <2>4 DEF Pinned
  <2>10. IsFiniteSet(H \union {u}) /\ Cardinality(H \union {u}) <= Cardinality(H) + 1
    <3>1. IsFiniteSet(H \union {u})
      BY <2>6, FS_AddElement
    <3>2. \/ Cardinality(H \union {u}) = Cardinality(H)
          \/ Cardinality(H \union {u}) = Cardinality(H) + 1
      BY <2>6, FS_AddElement
    <3>3. QED  BY <2>6, <3>1, <3>2
  <2>11. Cardinality(P) <= Cardinality(H \union {u}) /\ Cardinality(P) \in Nat
         /\ Cardinality(H \union {u}) \in Nat
    BY <1>1, <2>8, <2>10, FS_Subset, FS_CardinalityType
  <2>12. Cardinality(P) <= PinRoom(c, w)
    BY <1>2, <2>6, <2>9, <2>10, <2>11
  <2>13. QED  BY <1>1, <2>12
<1>5. QED  BY <1>1, <1>3, <1>4

\* Every layer's units can be staged while the one before computes.
Fitting ==
    window <= capacity /\ \A m \in PassLayers : Len(demands[m]) <= window

\* The units of the layer after this one.
Coming == ToSet(demands[layer + 1])

\* What a round stages and has yet to look at is the next layer's.
PassShape ==
    /\ PassTypeOK
    /\ pinned = Pinned(demands, capacity, window)
    /\ wanted \in Seq(Int)
    /\ wanted # <<>> => layer + 1 \in PassLayers /\ ToSet(wanted) \subseteq Coming
    /\ staged # {} => layer + 1 \in PassLayers /\ staged \subseteq Coming

\* What the round has looked at is on the device, and stays.
RoundInv ==
    Fitting /\ layer >= 1 /\ layer + 1 \in PassLayers =>
        Coming \subseteq resident \union ToSet(wanted)

PassInv == PassShape /\ RoundInv /\ StagedInTime

\* The arguments' types.
LEMMA ArgFacts ==
  ASSUME PassTypeOK
  PROVE  /\ demands \in Seq(Seq(Int)) /\ capacity \in Nat /\ window \in Nat
         /\ PassLayers = 1..Len(demands) /\ Len(demands) \in Nat
         /\ layer \in Nat /\ layer <= Len(demands)
         /\ \A l \in PassLayers : demands[l] \in Seq(Int)
         /\ IsFiniteSet(resident) /\ Cardinality(resident) \in Nat
<1>1. demands \in Seq(Seq(Int)) /\ capacity \in Nat /\ window \in Nat
  BY PassAssumption DEF PassTypeOK
<1>2. PassLayers = 1..Len(demands) /\ Len(demands) \in Nat
  BY <1>1 DEF PassLayers
<1>3. \A l \in PassLayers : demands[l] \in Seq(Int)
  BY <1>1 DEF PassLayers
<1>4. resident \in SUBSET UnitsOf(demands)
  BY DEF PassTypeOK
<1>5. IsFiniteSet(resident) /\ Cardinality(resident) \in Nat
  BY <1>1, <1>4, UnitsFinite, FS_Subset, FS_CardinalityType
<1>6. layer \in Nat /\ layer <= Len(demands)
  BY <1>2 DEF PassTypeOK
<1>7. QED  BY <1>1, <1>2, <1>3, <1>5, <1>6

\* The next use of a unit is a layer and a place in it, or after the end; it
\* is the next layer exactly for that layer's units.
LEMMA NextUseFacts ==
  ASSUME PassTypeOK, layer + 1 \in PassLayers, NEW u
  PROVE  /\ NextUse(u)[1] \in Nat /\ NextUse(u)[2] \in Nat
         /\ NextUse(u)[1] >= layer + 1 /\ NextUse(u)[1] <= Len(demands) + 1
         /\ NextUse(u)[1] = layer + 1 <=> u \in Coming
         /\ NextUse(u)[1] \in PassLayers => NextUse(u)[2] <= Len(demands[NextUse(u)[1]])
         /\ NextUse(u)[1] \notin PassLayers => NextUse(u)[2] = 0
<1> DEFINE after == {l \in PassLayers : l > layer /\ u \in ToSet(demands[l])}
<1>1. /\ PassLayers = 1..Len(demands) /\ Len(demands) \in Nat /\ layer \in Nat
      /\ \A l \in PassLayers : demands[l] \in Seq(Int)
  BY ArgFacts
<1>2. u \in Coming <=> layer + 1 \in after
  BY <1>1 DEF Coming
<1>3. CASE after = {}
  <2>1. NextUse(u) = <<Len(demands) + 1, 0>>
    BY <1>3 DEF NextUse
  <2>2. NextUse(u)[1] = Len(demands) + 1 /\ NextUse(u)[2] = 0
    BY <2>1
  <2>3. layer + 1 <= Len(demands)
    BY <1>1
  <2>4. QED  BY <1>1, <1>2, <1>3, <2>2, <2>3
<1>4. CASE after # {}
  <2>1. after \in SUBSET Nat
    BY <1>1
  <2>2. \E x \in after : \A y \in after : x <= y
    BY <1>4, <2>1, LeastOf
  <2> DEFINE l == CHOOSE x \in after : \A y \in after : x <= y
             i == CHOOSE i \in DOMAIN demands[l] : demands[l][i] = u
  <2>3. l \in after /\ \A y \in after : l <= y
    BY <2>2
  <2>4. NextUse(u) = <<l, i>>
    BY <1>4 DEF NextUse
  <2> HIDE DEF l
  <2>5. l \in PassLayers /\ l > layer /\ u \in ToSet(demands[l])
    BY <2>3
  <2>6. \E j \in DOMAIN demands[l] : demands[l][j] = u
    BY <2>5 DEF ToSet
  <2>7. i \in DOMAIN demands[l]
    BY <2>6
  <2>8. NextUse(u)[1] = l /\ NextUse(u)[2] = i
    BY <2>4
  <2> HIDE DEF i
  <2>9. i \in Nat /\ i <= Len(demands[l])
    BY <1>1, <2>5, <2>7
  <2>10. l = layer + 1 <=> u \in Coming
    <3>1. u \in Coming => l <= layer + 1
      BY <1>2, <2>3
    <3>2. l = layer + 1 => u \in Coming
      BY <1>2, <2>3
    <3>3. QED  BY <1>1, <2>5, <3>1, <3>2
  <2>11. l \in Nat /\ l >= layer + 1 /\ l <= Len(demands) + 1
    BY <1>1, <2>5
  <2>12. QED  BY <2>5, <2>8, <2>9, <2>10, <2>11
<1>5. QED  BY <1>3, <1>4

\* If anything may be evicted there is a victim: the furthest of finitely many.
LEMMA VictimExists ==
  ASSUME PassTypeOK, layer + 1 \in PassLayers, Evictable # {}
  PROVE  Victims # {}
<1> DEFINE T == {NextUse(u)[1] : u \in Evictable}
<1>1. Len(demands) \in Nat /\ \A l \in PassLayers : demands[l] \in Seq(Int)
  BY ArgFacts
<1>2. T \in SUBSET Nat /\ T # {} /\ \A x \in T : x <= Len(demands) + 1
  BY NextUseFacts
<1>3. Len(demands) + 1 \in Nat
  BY <1>1
<1>4. PICK m \in T : \A y \in T : y <= m
  BY <1>2, <1>3, GreatestOf
<1> DEFINE Furthest == {u \in Evictable : NextUse(u)[1] = m}
           U == {NextUse(u)[2] : u \in Furthest}
           n == IF m \in PassLayers THEN Len(demands[m]) ELSE 0
<1>5. n \in Nat
  BY <1>1
<1>6. U \in SUBSET Nat /\ U # {} /\ \A x \in U : x <= n
  <2>1. \A u \in Furthest : NextUse(u)[2] \in Nat /\ NextUse(u)[2] <= n
    BY NextUseFacts
  <2>2. Furthest # {}
    BY <1>4
  <2>3. QED  BY <2>1, <2>2
<1> HIDE DEF n
<1>7. PICK k \in U : \A y \in U : y <= k
  BY <1>5, <1>6, GreatestOf
<1>8. PICK v \in Furthest : NextUse(v)[2] = k
  BY <1>7
<1>9. ASSUME NEW u \in Evictable PROVE ~Sooner(v, u)
  <2>1. /\ NextUse(u)[1] \in Nat /\ NextUse(u)[2] \in Nat
        /\ NextUse(v)[1] = m /\ NextUse(v)[2] = k /\ m \in Nat /\ k \in Nat
    BY <1>2, <1>6, <1>8, NextUseFacts
  <2>2. NextUse(u)[1] <= m
    BY <1>4
  <2>3. NextUse(u)[1] = m => NextUse(u)[2] <= k
    BY <1>7
  <2>4. QED  BY <2>1, <2>2, <2>3 DEF Sooner
<1>10. QED  BY <1>8, <1>9 DEF Victims

\* With the device full and a unit of the next layer not on it, something may
\* be evicted that the next layer does not need.
LEMMA SomethingElseIsThere ==
  ASSUME PassShape, Fitting, layer + 1 \in PassLayers,
         NEW h \in Coming, h \notin resident,
         ~(Cardinality(resident) < capacity)
  PROVE  \E u \in Evictable : u \notin Coming
<1> SUFFICES ASSUME Evictable \subseteq Coming PROVE FALSE
  OBVIOUS
<1>1. /\ demands \in Seq(Seq(Int)) /\ capacity \in Nat /\ window \in Nat
      /\ demands[layer + 1] \in Seq(Int) /\ IsFiniteSet(resident)
      /\ Cardinality(resident) \in Nat
  BY ArgFacts DEF PassShape
<1>2. /\ IsFiniteSet(Coming) /\ Cardinality(Coming) \in Nat
      /\ Cardinality(Coming) <= window
  <2>1. IsFiniteSet(Coming) /\ Cardinality(Coming) <= Len(demands[layer + 1])
    BY <1>1, ListedUnits DEF Coming
  <2>2. Len(demands[layer + 1]) <= window /\ Len(demands[layer + 1]) \in Nat
    BY <1>1 DEF Fitting
  <2>3. Cardinality(Coming) \in Nat
    BY <2>1, FS_CardinalityType
  <2>4. QED  BY <1>1, <2>1, <2>2, <2>3
<1>3. /\ IsFiniteSet(pinned) /\ Cardinality(pinned) \in Nat
      /\ Cardinality(pinned) <= PinRoom(capacity, window)
  BY <1>1, PinnedFit, FS_CardinalityType DEF PassShape
<1> DEFINE Rest == Coming \ {h}
<1>4. /\ IsFiniteSet(Rest) /\ Cardinality(Rest) \in Nat
      /\ Cardinality(Rest) = Cardinality(Coming) - 1
  BY <1>2, FS_RemoveElement, FS_CardinalityType
<1>5. resident \in SUBSET (pinned \union Rest)
  BY DEF Evictable, PassShape
<1>6. /\ IsFiniteSet(pinned \union Rest) /\ Cardinality(pinned \union Rest) \in Nat
      /\ Cardinality(pinned \union Rest) <= Cardinality(pinned) + Cardinality(Rest)
  <2>1. /\ IsFiniteSet(pinned \union Rest)
        /\ Cardinality(pinned \union Rest) =
              Cardinality(pinned) + Cardinality(Rest) - Cardinality(pinned \intersect Rest)
    BY <1>3, <1>4, FS_Union
  <2>2. Cardinality(pinned \intersect Rest) \in Nat
    BY <1>3, FS_Intersection, FS_CardinalityType
  <2>3. Cardinality(pinned \union Rest) \in Nat
    BY <2>1, FS_CardinalityType
  <2>4. QED  BY <1>3, <1>4, <2>1, <2>2, <2>3
<1>7. Cardinality(resident) <= Cardinality(pinned \union Rest)
  BY <1>5, <1>6, FS_Subset
<1>8. window >= 1
  <2>1. Cardinality(Coming) # 0
    BY <1>2, FS_EmptySet
  <2>2. QED  BY <1>1, <1>2, <2>1
<1>9. PinRoom(capacity, window) = capacity - window
  BY <1>1, <1>8 DEF PinRoom, Fitting
<1>10. QED  BY <1>1, <1>2, <1>3, <1>4, <1>6, <1>7, <1>9

\* So the victim is of no use to the next layer.
LEMMA VictimsNotComing ==
  ASSUME PassShape, Fitting, layer + 1 \in PassLayers,
         NEW h \in Coming, h \notin resident,
         ~(Cardinality(resident) < capacity),
         NEW v \in Victims
  PROVE  v \notin Coming
<1>1. PICK u \in Evictable : u \notin Coming
  BY SomethingElseIsThere
<1>2. v \in Evictable /\ ~Sooner(v, u)
  BY DEF Victims
<1>3. PassTypeOK
  BY DEF PassShape
<1>4. layer + 1 \in Nat
  BY <1>3, ArgFacts
<1>5. NextUse(u)[1] \in Nat /\ NextUse(u)[1] >= layer + 1 /\ NextUse(u)[1] # layer + 1
  BY <1>1, <1>3, NextUseFacts
<1>6. v \in Coming => NextUse(v)[1] = layer + 1
  BY <1>3, NextUseFacts
<1>7. v \in Coming => NextUse(v)[1] < NextUse(u)[1]
  BY <1>4, <1>5, <1>6
<1>8. QED  BY <1>2, <1>7 DEF Sooner

LEMMA InitPass == PassInit => PassInv
<1> SUFFICES ASSUME PassInit PROVE PassInv
  OBVIOUS
<1>1. demands \in Seq(Seq(Int)) /\ capacity \in Nat /\ window \in Nat
  BY PassAssumption DEF PassInit
<1>2. /\ pinned = Pinned(demands, capacity, window) /\ resident = pinned
      /\ layer = 0 /\ staged = {} /\ wanted = <<>>
      /\ overflow = [l \in PassLayers |-> {}]
  BY DEF PassInit, PassLayers
<1>3. PinRoom(capacity, window) \in Nat /\ PinRoom(capacity, window) <= capacity
  BY <1>1 DEF PinRoom
<1>4. /\ pinned \subseteq UnitsOf(demands) /\ IsFiniteSet(pinned)
      /\ Cardinality(pinned) <= PinRoom(capacity, window)
  BY <1>1, <1>2, PinnedFit
<1>5. Cardinality(resident) <= capacity
  BY <1>1, <1>2, <1>3, <1>4, FS_CardinalityType
<1>6. layer \in 0..Len(demands)
  BY <1>1, <1>2
<1>7. PassTypeOK
  <2>1. demands \in Demands /\ capacity \in Capacities /\ window \in Windows
    BY DEF PassInit
  <2>2. overflow \in [PassLayers -> SUBSET UnitsOf(demands)]
    BY <1>2
  <2>3. QED  BY <1>2, <1>4, <1>5, <1>6, <2>1, <2>2 DEF PassTypeOK
<1>8. PassShape
  BY <1>2, <1>7 DEF PassShape
<1>9. RoundInv
  BY <1>2 DEF RoundInv
<1>10. StagedInTime
  BY <1>2 DEF StagedInTime
<1>11. QED  BY <1>8, <1>9, <1>10 DEF PassInv

\* What the arguments alone decide is the same after every step.
LEMMA ArgsStay ==
  ASSUME UNCHANGED args
  PROVE  /\ demands' = demands /\ capacity' = capacity /\ window' = window
         /\ PassLayers' = PassLayers /\ Fitting' = Fitting
         /\ Pinned(demands, capacity, window)' = Pinned(demands, capacity, window)
         /\ UnitsOf(demands)' = UnitsOf(demands)
<1>1. demands' = demands /\ capacity' = capacity /\ window' = window
  BY DEF args
<1>2. QED  BY <1>1 DEF PassLayers, Fitting

\* A step that leaves the layer and what overflowed alone leaves the property.
LEMMA OverflowStays ==
  ASSUME StagedInTime, UNCHANGED args, UNCHANGED overflow
  PROVE  StagedInTime'
<1>1. demands' = demands /\ capacity' = capacity /\ window' = window /\ PassLayers' = PassLayers
  BY ArgsStay
<1>2. QED  BY <1>1 DEF StagedInTime

LEMMA BeginKeeps ==
  ASSUME PassInv, BeginLayer
  PROVE  PassInv'
<1>1. PassShape /\ RoundInv /\ StagedInTime /\ PassTypeOK
  BY DEF PassInv, PassShape
<1>2. /\ wanted = <<>> /\ layer < Len(demands) /\ layer' = layer + 1 /\ staged' = {}
      /\ pinned' = pinned /\ resident' = resident /\ UNCHANGED args
      /\ overflow' = [overflow EXCEPT ![layer + 1] = Coming \ resident]
      /\ wanted' = IF layer + 2 \in PassLayers THEN demands[layer + 2] ELSE <<>>
  BY DEF BeginLayer, Coming
<1>3. /\ demands' = demands /\ capacity' = capacity /\ window' = window
      /\ PassLayers' = PassLayers /\ Fitting' = Fitting
      /\ Pinned(demands, capacity, window)' = Pinned(demands, capacity, window)
      /\ UnitsOf(demands)' = UnitsOf(demands)
  BY <1>2, ArgsStay
<1>4. /\ demands \in Seq(Seq(Int)) /\ PassLayers = 1..Len(demands) /\ Len(demands) \in Nat
      /\ layer \in Nat /\ \A l \in PassLayers : demands[l] \in Seq(Int)
  BY <1>1, ArgFacts
<1>5. layer + 1 \in PassLayers /\ layer' + 1 = layer + 2
  BY <1>2, <1>4
<1>6. Coming' = ToSet(demands[layer + 2])
  BY <1>2, <1>3, <1>5 DEF Coming
<1>7. Coming \subseteq UnitsOf(demands)
  BY <1>4, <1>5, UnitsFinite DEF PassLayers, Coming
<1>8. PassTypeOK'
  <2>1. overflow' \in [PassLayers -> SUBSET UnitsOf(demands)]
    <3>1. overflow \in [PassLayers -> SUBSET UnitsOf(demands)]
      BY <1>1 DEF PassTypeOK
    <3>2. Coming \ resident \in SUBSET UnitsOf(demands)
      BY <1>7
    <3>3. QED  BY <1>2, <1>5, <3>1, <3>2
  <2>2. layer' \in 0..Len(demands)
    BY <1>2, <1>4
  <2>3. staged' \subseteq resident'
    BY <1>2
  <2>4. QED  BY <1>1, <1>2, <1>3, <2>1, <2>2, <2>3 DEF PassTypeOK
<1>9. ToSet(<<>>) = {}
  BY DEF ToSet
<1>10. PassShape'
  <2>1. wanted' \in Seq(Int)
    BY <1>2, <1>4
  <2>2. wanted' # <<>> => layer + 2 \in PassLayers /\ wanted' = demands[layer + 2]
    BY <1>2
  <2>3. wanted' # <<>> => layer' + 1 \in PassLayers' /\ ToSet(wanted') \subseteq Coming'
    BY <1>3, <1>5, <1>6, <2>2
  <2>4. pinned' = Pinned(demands, capacity, window)'
    BY <1>1, <1>2, <1>3 DEF PassShape
  <2>5. QED  BY <1>2, <1>8, <2>1, <2>3, <2>4 DEF PassShape
<1>11. RoundInv'
  <2>1. ASSUME layer' + 1 \in PassLayers'
        PROVE  Coming' \subseteq resident' \union ToSet(wanted')
    <3>1. wanted' = demands[layer + 2]
      BY <1>2, <1>3, <1>5, <2>1
    <3>2. QED  BY <1>6, <3>1
  <2>2. QED  BY <2>1 DEF RoundInv
<1>12. StagedInTime'
  <2>1. SUFFICES ASSUME NEW l \in PassLayers \ {1}, Fitting PROVE overflow'[l] = {}
    BY <1>3 DEF StagedInTime, Fitting
  <2>2. overflow \in [PassLayers -> SUBSET UnitsOf(demands)]
    BY <1>1 DEF PassTypeOK
  <2>3. CASE l = layer + 1
    <3>1. layer >= 1
      BY <1>4, <2>1, <2>3
    <3>2. Coming \subseteq resident
      BY <1>1, <1>2, <1>5, <1>9, <2>1, <3>1 DEF RoundInv
    <3>3. QED  BY <1>2, <1>5, <2>2, <2>3, <3>2
  <2>4. CASE l # layer + 1
    <3>1. overflow'[l] = overflow[l]
      BY <1>2, <2>2, <2>4
    <3>2. overflow[l] = {}
      BY <1>1, <2>1 DEF StagedInTime, Fitting
    <3>3. QED  BY <3>1, <3>2
  <2>5. QED  BY <2>3, <2>4
<1>13. QED  BY <1>10, <1>11, <1>12 DEF PassInv

LEMMA SkipKeeps ==
  ASSUME PassInv, SkipUnit
  PROVE  PassInv'
<1>1. PassShape /\ RoundInv /\ StagedInTime /\ PassTypeOK
  BY DEF PassInv, PassShape
<1>2. /\ wanted # <<>> /\ Head(wanted) \in resident /\ wanted' = Tail(wanted)
      /\ layer' = layer /\ staged' = staged /\ UNCHANGED overflow /\ overflow' = overflow
      /\ pinned' = pinned /\ resident' = resident /\ UNCHANGED args
  BY DEF SkipUnit
<1>3. /\ demands' = demands /\ capacity' = capacity /\ window' = window
      /\ PassLayers' = PassLayers /\ Fitting' = Fitting
      /\ Pinned(demands, capacity, window)' = Pinned(demands, capacity, window)
      /\ UnitsOf(demands)' = UnitsOf(demands)
  BY <1>2, ArgsStay
<1>4. Coming' = Coming
  BY <1>2, <1>3 DEF Coming
<1>5. wanted \in Seq(Int)
  BY <1>1 DEF PassShape
<1>6. Tail(wanted) \in Seq(Int) /\ ToSet(wanted) = {Head(wanted)} \union ToSet(Tail(wanted))
  BY <1>2, <1>5, ListedUnits
<1>7. PassTypeOK'
  BY <1>1, <1>2, <1>3 DEF PassTypeOK
<1>8. layer + 1 \in PassLayers /\ ToSet(wanted) \subseteq Coming
  BY <1>1, <1>2 DEF PassShape
<1>9. ToSet(wanted') \subseteq Coming'
  BY <1>2, <1>4, <1>6, <1>8
<1>10. PassShape'
  BY <1>1, <1>2, <1>3, <1>4, <1>6, <1>7, <1>8, <1>9 DEF PassShape
<1>11. RoundInv'
  BY <1>1, <1>2, <1>3, <1>4, <1>6 DEF RoundInv
<1>12. StagedInTime'
  BY <1>1, <1>2, OverflowStays
<1>13. QED  BY <1>10, <1>11, <1>12 DEF PassInv

LEMMA StageKeeps ==
  ASSUME PassInv, StageUnit
  PROVE  PassInv'
<1> DEFINE h == Head(wanted)
<1>1. PassShape /\ RoundInv /\ StagedInTime /\ PassTypeOK
  BY DEF PassInv, PassShape
<1>2. /\ wanted # <<>> /\ h \notin resident /\ wanted' = Tail(wanted)
      /\ layer' = layer /\ staged' = staged \union {h}
      /\ UNCHANGED overflow /\ overflow' = overflow
      /\ pinned' = pinned /\ UNCHANGED args
  BY DEF StageUnit
<1>3. /\ demands' = demands /\ capacity' = capacity /\ window' = window
      /\ PassLayers' = PassLayers /\ Fitting' = Fitting
      /\ Pinned(demands, capacity, window)' = Pinned(demands, capacity, window)
      /\ UnitsOf(demands)' = UnitsOf(demands)
  BY <1>2, ArgsStay
<1>4. Coming' = Coming
  BY <1>2, <1>3 DEF Coming
<1>5. wanted \in Seq(Int)
  BY <1>1 DEF PassShape
<1>6. /\ Tail(wanted) \in Seq(Int) /\ h \in ToSet(wanted)
      /\ ToSet(wanted) = {h} \union ToSet(Tail(wanted))
  BY <1>2, <1>5, ListedUnits
<1>7. layer + 1 \in PassLayers /\ ToSet(wanted) \subseteq Coming
  BY <1>1, <1>2 DEF PassShape
<1>8. /\ demands \in Seq(Seq(Int)) /\ capacity \in Nat
      /\ IsFiniteSet(resident) /\ Cardinality(resident) \in Nat
  BY <1>1, ArgFacts
<1>9. h \in Coming /\ h \in UnitsOf(demands)
  <2>1. h \in Coming
    BY <1>6, <1>7
  <2>2. Coming \subseteq UnitsOf(demands)
    BY <1>7, <1>8, UnitsFinite DEF PassLayers, Coming
  <2>3. QED  BY <2>1, <2>2
<1> HIDE DEF h
<1>10. /\ resident \subseteq UnitsOf(demands) /\ pinned \subseteq resident
       /\ staged \subseteq resident /\ Cardinality(resident) <= capacity
  BY <1>1 DEF PassTypeOK
<1>11. /\ resident' \subseteq UnitsOf(demands) /\ pinned \subseteq resident'
       /\ staged \union {h} \subseteq resident' /\ Cardinality(resident') <= capacity
       /\ Fitting => resident \intersect Coming \subseteq resident' \intersect Coming
  <2>1. CASE Cardinality(resident) < capacity /\ resident' = resident \union {h}
    <3>1. Cardinality(resident') = Cardinality(resident) + 1
      BY <1>2, <1>8, <2>1, FS_AddElement
    <3>2. QED  BY <1>8, <1>9, <1>10, <2>1, <3>1
  <2>2. ASSUME ~(Cardinality(resident) < capacity),
               NEW v \in Victims, resident' = (resident \ {v}) \union {h}
        PROVE  /\ resident' \subseteq UnitsOf(demands) /\ pinned \subseteq resident'
               /\ staged \union {h} \subseteq resident' /\ Cardinality(resident') <= capacity
               /\ Fitting => resident \intersect Coming \subseteq resident' \intersect Coming
    <3>1. v \in resident /\ v \notin pinned /\ v \notin staged
      BY DEF Victims, Evictable
    <3>2. /\ IsFiniteSet(resident \ {v}) /\ h \notin resident \ {v}
          /\ Cardinality(resident \ {v}) = Cardinality(resident) - 1
      BY <1>2, <1>8, <3>1, FS_RemoveElement
    <3>3. Cardinality(resident \ {v}) \in Nat
      BY <3>2, FS_CardinalityType
    <3>4. Cardinality(resident') = Cardinality(resident \ {v}) + 1
      BY <2>2, <3>2, FS_AddElement
    <3>5. Cardinality(resident') <= capacity
      BY <1>8, <1>10, <3>2, <3>3, <3>4
    <3>6. Fitting => v \notin Coming
      BY <1>1, <1>2, <1>7, <1>9, <2>2, VictimsNotComing
    <3>7. QED  BY <1>9, <1>10, <2>2, <3>1, <3>5, <3>6
  <2>3. \/ Cardinality(resident) < capacity /\ resident' = resident \union {h}
        \/ /\ ~(Cardinality(resident) < capacity)
           /\ \E v \in Victims : resident' = (resident \ {v}) \union {h}
    BY <1>8 DEF StageUnit, h
  <2>4. QED  BY <2>1, <2>2, <2>3
<1>12. PassTypeOK'
  BY <1>1, <1>2, <1>3, <1>11 DEF PassTypeOK
<1>13. PassShape'
  <2>1. staged' \subseteq Coming'
    <3>1. staged \subseteq Coming
      BY <1>1 DEF PassShape
    <3>2. QED  BY <1>2, <1>4, <1>9, <3>1
  <2>2. ToSet(wanted') \subseteq Coming'
    BY <1>2, <1>4, <1>6, <1>7
  <2>3. wanted' \in Seq(Int) /\ layer' + 1 \in PassLayers'
    BY <1>2, <1>3, <1>6, <1>7
  <2>4. pinned' = Pinned(demands, capacity, window)'
    BY <1>1, <1>2, <1>3 DEF PassShape
  <2>5. QED  BY <1>12, <2>1, <2>2, <2>3, <2>4 DEF PassShape
<1>14. RoundInv'
  <2>1. ASSUME Fitting, layer >= 1
        PROVE  Coming \subseteq resident' \union ToSet(Tail(wanted))
    <3>1. Coming \subseteq resident \union ToSet(wanted)
      BY <1>1, <1>7, <2>1 DEF RoundInv
    <3>2. QED  BY <1>6, <1>11, <2>1, <3>1
  <2>2. QED  BY <1>2, <1>3, <1>4, <2>1 DEF RoundInv
<1>15. StagedInTime'
  BY <1>1, <1>2, OverflowStays
<1>16. QED  BY <1>13, <1>14, <1>15 DEF PassInv

LEMMA EndKeeps ==
  ASSUME PassInv, EndRound
  PROVE  PassInv'
<1> DEFINE h == Head(wanted)
<1>1. PassShape /\ RoundInv /\ StagedInTime /\ PassTypeOK
  BY DEF PassInv, PassShape
<1>2. /\ wanted # <<>> /\ wanted' = <<>>
      /\ layer' = layer /\ staged' = staged /\ UNCHANGED overflow /\ overflow' = overflow
      /\ pinned' = pinned /\ resident' = resident /\ UNCHANGED args
      /\ \/ ~(Cardinality(staged) < window)
         \/ h \notin resident /\ Cardinality(resident) >= capacity /\ Victims = {}
  BY DEF EndRound, Room
<1>3. /\ demands' = demands /\ capacity' = capacity /\ window' = window
      /\ PassLayers' = PassLayers /\ Fitting' = Fitting
      /\ Pinned(demands, capacity, window)' = Pinned(demands, capacity, window)
      /\ UnitsOf(demands)' = UnitsOf(demands)
  BY <1>2, ArgsStay
<1>4. Coming' = Coming
  BY <1>2, <1>3 DEF Coming
<1>5. layer + 1 \in PassLayers /\ ToSet(wanted) \subseteq Coming /\ wanted \in Seq(Int)
  BY <1>1, <1>2 DEF PassShape
<1>6. h \in Coming
  BY <1>2, <1>5, ListedUnits
<1>7. /\ demands[layer + 1] \in Seq(Int) /\ window \in Nat /\ capacity \in Nat
      /\ Cardinality(resident) \in Nat
  BY <1>1, <1>5, ArgFacts
<1>8. PassTypeOK'
  BY <1>1, <1>2, <1>3 DEF PassTypeOK
<1>9. PassShape'
  BY <1>1, <1>2, <1>3, <1>4, <1>8 DEF PassShape
<1> HIDE DEF h
<1>10. Fitting => Coming \subseteq resident
  <2> SUFFICES ASSUME Fitting PROVE Coming \subseteq resident
    OBVIOUS
  <2>1. CASE ~(Cardinality(staged) < window)
    <3>1. staged \subseteq Coming /\ staged \subseteq resident
      BY <1>1 DEF PassShape, PassTypeOK
    <3>2. IsFiniteSet(Coming) /\ Cardinality(Coming) <= Len(demands[layer + 1])
      BY <1>7, ListedUnits DEF Coming
    <3>3. Len(demands[layer + 1]) <= window /\ Len(demands[layer + 1]) \in Nat
      BY <1>5, <1>7 DEF Fitting
    <3>4. /\ IsFiniteSet(staged) /\ Cardinality(staged) \in Nat /\ Cardinality(Coming) \in Nat
          /\ Cardinality(staged) <= Cardinality(Coming)
          /\ Cardinality(staged) = Cardinality(Coming) => staged = Coming
      BY <3>1, <3>2, FS_Subset, FS_CardinalityType
    <3>5. staged = Coming
      BY <1>7, <2>1, <3>2, <3>3, <3>4
    <3>6. QED  BY <3>1, <3>5
  <2>2. CASE h \notin resident /\ Cardinality(resident) >= capacity /\ Victims = {}
    <3>1. ~(Cardinality(resident) < capacity)
      BY <1>7, <2>2
    <3>2. Evictable # {}
      BY <1>1, <1>5, <1>6, <2>2, <3>1, SomethingElseIsThere
    <3>3. QED  BY <1>1, <1>5, <2>2, <3>2, VictimExists
  <2>3. QED  BY <1>2, <2>1, <2>2
<1>11. RoundInv'
  BY <1>2, <1>3, <1>4, <1>10 DEF RoundInv
<1>12. StagedInTime'
  BY <1>1, <1>2, OverflowStays
<1>13. QED  BY <1>9, <1>11, <1>12 DEF PassInv

LEMMA PassStutter ==
  ASSUME PassInv, UNCHANGED passVars
  PROVE  PassInv'
<1>1. /\ layer' = layer /\ staged' = staged /\ wanted' = wanted /\ overflow' = overflow
      /\ pinned' = pinned /\ resident' = resident /\ UNCHANGED args /\ UNCHANGED overflow
  BY DEF passVars
<1>2. PassTypeOK /\ PassShape /\ RoundInv /\ StagedInTime
  BY DEF PassInv, PassShape
<1>3. /\ demands' = demands /\ capacity' = capacity /\ window' = window
      /\ PassLayers' = PassLayers /\ Fitting' = Fitting
      /\ Pinned(demands, capacity, window)' = Pinned(demands, capacity, window)
      /\ UnitsOf(demands)' = UnitsOf(demands)
  BY <1>1, ArgsStay
<1>4. Coming' = Coming
  BY <1>1, <1>3 DEF Coming
<1>5. PassTypeOK'
  BY <1>1, <1>2, <1>3 DEF PassTypeOK
<1>6. PassShape'
  BY <1>1, <1>2, <1>3, <1>4, <1>5 DEF PassShape
<1>7. RoundInv'
  BY <1>1, <1>2, <1>3, <1>4 DEF RoundInv
<1>8. StagedInTime'
  BY <1>1, <1>2, OverflowStays
<1>9. QED  BY <1>6, <1>7, <1>8 DEF PassInv

\* The invariant of a pass, whatever the layers, the capacity and the window.
THEOREM PassInvariance == PassSpec => []PassInv
<1>1. PassInv /\ [PassNext]_passVars => PassInv'
  BY BeginKeeps, SkipKeeps, StageKeeps, EndKeeps, PassStutter DEF PassNext
<1>2. QED  BY <1>1, InitPass, PTL DEF PassSpec

\* The pass's type invariant: the device is never over its capacity, and the
\* pinned units and what a round staged are on it (workingset.rs, schedule).
THEOREM PassTypeCorrect == PassSpec => []PassTypeOK
<1>1. PassInv => PassTypeOK
  BY DEF PassInv, PassShape
<1>2. QED  BY <1>1, PassInvariance, PTL

\* "Reserve room for streaming": when a window can stage a whole layer and fits
\* the device, only the first layer is computed on the host.
THEOREM OnlyTheFirstOverflows == PassSpec => []StagedInTime
<1>1. PassInv => StagedInTime
  BY DEF PassInv
<1>2. QED  BY <1>1, PassInvariance, PTL

-----------------------------------------------------------------------------
(* LogRing: every line is accounted for.                                   *)
(*                                                                         *)
(* What left the main ring is older than what is in it, so a page that     *)
(* reaches a main line, or the end, reaches past everything that is gone;  *)
(* and a page longer than the quiet ring reaches a main line.  What is     *)
(* gone after a cursor is counted exactly while the memory of evictions    *)
(* reaches back to it.                                                     *)

\* What left the main ring.
Gone == recorded \ ToSet(lines)

Rising(s) == \A i, j \in DOMAIN s : i < j => s[i] < s[j]

RingsInv ==
    /\ LogTypeOK
    /\ lines \in Seq(Nat) /\ quietLines \in Seq(Nat) /\ evicted \in Seq(Nat)
    /\ Rising(lines) /\ Rising(evicted)
    /\ recorded \subseteq 1..nextSeq - 1
    /\ ToSet(lines) \subseteq recorded /\ ToSet(quietLines) \subseteq 1..nextSeq - 1
    /\ \A g \in Gone : \A l \in ToSet(lines) : g < l

\* The memory of evictions holds the last that went.
GoneInv ==
    /\ Cardinality(Gone) = droppedTotal
    /\ ToSet(evicted) \subseteq Gone
    /\ \A g \in Gone \ ToSet(evicted) : \A e \in ToSet(evicted) : g < e
    /\ evicted = <<>> => Gone = {}

ClientInv ==
    /\ astray => cursor > 0
    /\ ~astray => cursor <= NewestSeq

LogInv == RingsInv /\ GoneInv /\ ClientInv /\ EveryLineIsAccountedFor

\* A rising sequence lists nothing twice.
LEMMA RisingCount ==
  ASSUME NEW s \in Seq(Nat), Rising(s), NEW c \in Nat
  PROVE  /\ IsFiniteSet(ToSet(s)) /\ Cardinality(ToSet(s)) = Len(s)
         /\ Cardinality({i \in DOMAIN s : s[i] > c}) = Cardinality({e \in ToSet(s) : e > c})
<1>1. DOMAIN s = 1..Len(s) /\ Len(s) \in Nat /\ \A i \in DOMAIN s : s[i] \in Nat
  OBVIOUS
<1>2. ASSUME NEW D \in SUBSET DOMAIN s
      PROVE  /\ IsFiniteSet(D) /\ IsFiniteSet({s[i] : i \in D})
             /\ Cardinality({s[i] : i \in D}) = Cardinality(D)
  <2> DEFINE f == [i \in D |-> s[i]]
             T == {s[i] : i \in D}
  <2>1. IsFiniteSet(D)
    <3>1. IsFiniteSet(DOMAIN s)
      BY <1>1, FS_Interval
    <3>2. QED  BY <3>1, FS_Subset
  <2>2. f \in Surjection(D, T)
    BY DEF Surjection
  <2>3. \A i, j \in D : f[i] = f[j] => i = j
    <3> SUFFICES ASSUME NEW i \in D, NEW j \in D, s[i] = s[j] PROVE i = j
      OBVIOUS
    <3>1. i \in Int /\ j \in Int /\ s[i] \in Int /\ s[j] \in Int
      BY <1>1
    <3>2. ~(i < j) /\ ~(j < i)
      BY <3>1 DEF Rising
    <3>3. QED  BY <3>1, <3>2
  <2>4. f \in Injection(D, T)
    <3>1. f \in [D -> T] /\ DOMAIN f = D
      OBVIOUS
    <3> HIDE DEF f
    <3>2. QED  BY <2>3, <3>1 DEF Injection, IsInjective
  <2> HIDE DEF f
  <2>5. QED  BY <2>1, <2>2, <2>4, FS_Surjection
<1>3. ToSet(s) = {s[i] : i \in DOMAIN s}
  BY DEF ToSet
<1>4. Cardinality(DOMAIN s) = Len(s)
  <2> DEFINE n == Len(s)
  <2>1. n \in Nat /\ DOMAIN s = 1..n
    BY <1>1
  <2> HIDE DEF n
  <2>2. Cardinality(1..n) = IF 1 > n THEN 0 ELSE n - 1 + 1
    BY <2>1, FS_Interval
  <2>3. Cardinality(1..n) = n
    BY <2>1, <2>2
  <2>4. QED  BY <2>1, <2>3 DEF n
<1> DEFINE Above == {i \in DOMAIN s : s[i] > c}
<1>5. {s[i] : i \in Above} = {e \in ToSet(s) : e > c}
  BY <1>3
<1>6. Cardinality({s[i] : i \in Above}) = Cardinality(Above)
  BY <1>2
<1>7. QED  BY <1>2, <1>3, <1>4, <1>5, <1>6

\* A ring of at most n that takes one more.
LEMMA KeptAfterAppend ==
  ASSUME NEW s \in Seq(Nat), NEW x \in Nat, NEW n \in Nat, Len(s) <= n
  PROVE  /\ LastOf(Append(s, x), n) \in Seq(Nat) /\ Len(LastOf(Append(s, x), n)) <= n
         /\ ToSet(LastOf(Append(s, x), n)) \subseteq ToSet(s) \union {x}
<1> DEFINE a == Append(s, x)
<1>1. /\ a \in Seq(Nat) /\ Len(a) = Len(s) + 1 /\ Len(s) \in Nat
      /\ \A i \in 1..Len(a) : a[i] = IF i = Len(s) + 1 THEN x ELSE s[i]
  OBVIOUS
<1>2. \A i \in 1..Len(a) : a[i] \in ToSet(s) \union {x}
  BY <1>1 DEF ToSet
<1>3. DOMAIN a = 1..Len(a)
  BY <1>1
<1>4. ToSet(a) \subseteq ToSet(s) \union {x}
  BY <1>2, <1>3 DEF ToSet
<1>5. CASE Len(a) > n
  <2>1. a # <<>>
    <3>1. Len(a) # 0
      BY <1>1
    <3>2. QED  BY <3>1, NoElements
  <2>2. /\ Tail(a) \in Seq(Nat) /\ Len(Tail(a)) = Len(a) - 1
        /\ DOMAIN Tail(a) = 1..Len(a) - 1
        /\ \A i \in 1..Len(a) - 1 : Tail(a)[i] = a[i + 1] /\ i + 1 \in 1..Len(a)
    BY <1>1, <2>1
  <2>3. ToSet(Tail(a)) \subseteq ToSet(s) \union {x}
    BY <1>2, <2>2 DEF ToSet
  <2>4. LastOf(a, n) = Tail(a)
    BY <1>5 DEF LastOf
  <2>5. Len(Tail(a)) <= n
    BY <1>1, <2>2
  <2>6. QED  BY <2>2, <2>3, <2>4, <2>5
<1>6. CASE ~(Len(a) > n)
  <2>1. LastOf(a, n) = a
    BY <1>6 DEF LastOf
  <2>2. Len(a) <= n
    BY <1>1, <1>6
  <2>3. QED  BY <1>1, <1>4, <2>1, <2>2
<1>7. QED  BY <1>5, <1>6

\* Of a rising ring it is the first that goes.
LEMMA RisingAppend ==
  ASSUME NEW s \in Seq(Nat), Rising(s), NEW x \in Nat, \A y \in ToSet(s) : y < x,
         NEW n \in Nat \ {0}, Len(s) <= n
  PROVE  /\ Rising(LastOf(Append(s, x), n)) /\ LastOf(Append(s, x), n) # <<>>
         /\ Len(s) # n => ToSet(LastOf(Append(s, x), n)) = ToSet(s) \union {x}
         /\ Len(s) = n =>
              /\ Head(s) \in ToSet(s)
              /\ \A y \in ToSet(s) \ {Head(s)} : Head(s) < y
              /\ ToSet(LastOf(Append(s, x), n)) = (ToSet(s) \ {Head(s)}) \union {x}
<1> DEFINE a == Append(s, x)
<1>1. /\ a \in Seq(Nat) /\ Len(a) = Len(s) + 1 /\ Len(s) \in Nat
      /\ DOMAIN a = 1..Len(s) + 1 /\ DOMAIN s = 1..Len(s)
      /\ \A i \in 1..Len(s) : a[i] = s[i]
      /\ a[Len(s) + 1] = x
  OBVIOUS
<1> HIDE DEF a
<1>2. \A i \in 1..Len(s) : s[i] \in ToSet(s) /\ s[i] \in Nat
  BY <1>1 DEF ToSet
<1>3. \A i, j \in 1..Len(s) + 1 : i < j => a[i] < a[j]
  <2> SUFFICES ASSUME NEW i \in 1..Len(s) + 1, NEW j \in 1..Len(s) + 1, i < j
               PROVE  a[i] < a[j]
    OBVIOUS
  <2>1. i \in 1..Len(s)
    BY <1>1
  <2>2. CASE j \in 1..Len(s)
    BY <1>1, <2>1, <2>2 DEF Rising
  <2>3. CASE j = Len(s) + 1
    BY <1>1, <1>2, <2>1, <2>3
  <2>4. QED  BY <1>1, <2>2, <2>3
<1>4. ToSet(a) = ToSet(s) \union {x}
  <2>1. \A i \in 1..Len(s) + 1 : i \in 1..Len(s) \/ i = Len(s) + 1
    BY <1>1
  <2>2. ToSet(a) \subseteq ToSet(s) \union {x}
    BY <1>1, <1>2, <2>1 DEF ToSet
  <2>3. \A i \in 1..Len(s) : i \in DOMAIN a
    BY <1>1
  <2>4. ToSet(s) \subseteq ToSet(a)
    BY <1>1, <2>3 DEF ToSet
  <2>5. Len(s) + 1 \in DOMAIN a
    BY <1>1
  <2>6. x \in ToSet(a)
    BY <1>1, <2>5 DEF ToSet
  <2>7. QED  BY <2>2, <2>4, <2>6
<1>5. CASE Len(s) # n
  <2>1. LastOf(a, n) = a
    <3>1. n \in Nat /\ Len(s) \in Nat /\ Len(s) <= n
      BY <1>1
    <3>2. Len(s) < n
      BY <1>5, <3>1
    <3>3. Len(s) + 1 <= n
      BY <3>1, <3>2
    <3>4. ~(Len(a) > n)
      BY <1>1, <3>1, <3>3
    <3>5. QED  BY <3>4 DEF LastOf
  <2>2. Rising(a) /\ a # <<>>
    BY <1>1, <1>3 DEF Rising
  <2>3. QED  BY <1>4, <1>5, <2>1, <2>2 DEF a
<1>6. CASE Len(s) = n
  <2>1. LastOf(a, n) = Tail(a) /\ a # <<>> /\ Len(s) >= 1
    BY <1>1, <1>6 DEF LastOf
  <2>2. /\ Tail(a) \in Seq(Nat) /\ Len(Tail(a)) = Len(s) /\ DOMAIN Tail(a) = 1..Len(s)
        /\ \A i \in 1..Len(s) : Tail(a)[i] = a[i + 1]
    BY <1>1, <2>1
  <2>3. \A i \in 1..Len(s) : i \in 1..Len(s) + 1 /\ i + 1 \in 1..Len(s) + 1 /\ i \in Int
    BY <1>1
  <2>4. Rising(Tail(a)) /\ Tail(a) # <<>>
    <3>1. \A i, j \in 1..Len(s) : i < j => a[i + 1] < a[j + 1]
      <4> SUFFICES ASSUME NEW i \in 1..Len(s), NEW j \in 1..Len(s), i < j
                   PROVE  a[i + 1] < a[j + 1]
        OBVIOUS
      <4>1. i + 1 < j + 1
        BY <2>3
      <4>2. i + 1 \in 1..Len(s) + 1 /\ j + 1 \in 1..Len(s) + 1
        BY <2>3
      <4>3. QED  BY <1>3, <4>1, <4>2
    <3>2. Rising(Tail(a))
      BY <2>2, <3>1 DEF Rising
    <3>3. Len(Tail(a)) # 0
      BY <2>1, <2>2
    <3>4. QED  BY <3>2, <3>3, NoElements
  <2>5. Head(s) = s[1] /\ 1 \in 1..Len(s) /\ a[1] = s[1]
    BY <1>1, <2>1
  <2>6. Head(s) \in ToSet(s)
    BY <1>2, <2>5
  <2>7. \A i \in 1..Len(s) : Head(s) < a[i + 1]
    <3> SUFFICES ASSUME NEW i \in 1..Len(s) PROVE a[1] < a[i + 1]
      BY <2>5
    <3>1. 1 \in 1..Len(s) + 1 /\ i + 1 \in 1..Len(s) + 1 /\ 1 < i + 1
      BY <1>1
    <3>2. QED  BY <1>3, <3>1
  <2>8. ToSet(Tail(a)) = {a[i + 1] : i \in 1..Len(s)}
    BY <2>2 DEF ToSet
  <2>9. \A y \in ToSet(a) : y = Head(s) \/ y \in ToSet(Tail(a))
    <3> SUFFICES ASSUME NEW j \in 1..Len(s) + 1, j # 1
                 PROVE  a[j] \in ToSet(Tail(a))
      BY <1>1, <2>5 DEF ToSet
    <3>1. j - 1 \in 1..Len(s) /\ (j - 1) + 1 = j
      BY <1>1
    <3>2. QED  BY <2>8, <3>1
  <2>10. ToSet(Tail(a)) \subseteq ToSet(a)
    <3>1. \A i \in 1..Len(s) : a[i + 1] \in ToSet(a)
      BY <1>1, <2>3 DEF ToSet
    <3>2. QED  BY <2>8, <3>1
  <2>11. Head(s) \in Nat /\ Head(s) \notin ToSet(Tail(a))
    <3>1. Head(s) \in Nat
      BY <1>2, <2>5
    <3>2. ~(Head(s) < Head(s))
      BY <3>1
    <3>3. QED  BY <2>7, <2>8, <3>1, <3>2
  <2>12. x # Head(s)
    <3>1. ~(x < x)
      OBVIOUS
    <3>2. QED  BY <2>6, <3>1
  <2>13. ToSet(Tail(a)) = (ToSet(s) \ {Head(s)}) \union {x}
    BY <1>4, <2>9, <2>10, <2>11, <2>12
  <2>14. \A y \in ToSet(s) \ {Head(s)} : Head(s) < y
    BY <1>4, <2>7, <2>8, <2>9
  <2>15. QED  BY <1>6, <2>1, <2>4, <2>6, <2>13, <2>14 DEF a
<1>7. QED  BY <1>5, <1>6

\* The rings' numbers.
LEMMA RingFacts ==
  ASSUME RingsInv
  PROVE  /\ nextSeq \in Nat /\ NewestSeq \in Nat /\ nextSeq = NewestSeq + 1
         /\ NewestSeq <= MaxSeq /\ limit \in Nat \ {0} /\ cursor \in Nat
         /\ recorded \in SUBSET (1..NewestSeq) /\ Held \in SUBSET (1..NewestSeq)
         /\ ToSet(lines) \subseteq Held
         /\ IsFiniteSet(recorded) /\ IsFiniteSet(Gone) /\ IsFiniteSet(Held)
<1>1. /\ nextSeq \in Nat /\ NewestSeq \in Nat /\ nextSeq = NewestSeq + 1
      /\ NewestSeq <= MaxSeq /\ cursor \in Nat
  BY LogAssumption DEF RingsInv, LogTypeOK, NewestSeq
<1>2. limit \in Nat \ {0}
  BY LogAssumption DEF RingsInv, LogTypeOK
<1>3. recorded \in SUBSET (1..NewestSeq) /\ Held \in SUBSET (1..NewestSeq)
      /\ ToSet(lines) \subseteq Held
  BY DEF RingsInv, Held, NewestSeq
<1>4. IsFiniteSet(1..NewestSeq)
  BY <1>1, FS_Interval
<1>5. IsFiniteSet(recorded) /\ IsFiniteSet(Held)
  BY <1>3, <1>4, FS_Subset
<1>6. IsFiniteSet(Gone)
  <2>1. Gone \in SUBSET recorded
    BY DEF Gone
  <2>2. QED  BY <1>5, <2>1, FS_Subset
<1>7. QED  BY <1>1, <1>2, <1>3, <1>5, <1>6

\* A page is a beginning of what is after its cursor, and all of it or as long
\* as the client asked.
LEMMA PageShape ==
  ASSUME RingsInv, NEW c \in Nat
  PROVE  /\ PageAfter(c) \subseteq After(c) /\ After(c) \subseteq 1..NewestSeq
         /\ \A x \in After(c) : \A y \in PageAfter(c) : x < y => x \in PageAfter(c)
         /\ IsFiniteSet(PageAfter(c))
         /\ PageAfter(c) # After(c) => Cardinality(PageAfter(c)) >= limit
<1> DEFINE H == After(c)
           Before(s) == {x \in H : x < s}
           P == {s \in H : Cardinality(Before(s)) < limit}
<1>1. PageAfter(c) = P
  BY DEF PageAfter
<1>2. H \in SUBSET Held /\ H \in SUBSET (1..NewestSeq) /\ IsFiniteSet(H)
      /\ NewestSeq \in Nat /\ limit \in Nat
  <2>1. H \in SUBSET Held
    BY DEF After
  <2>2. QED  BY <2>1, RingFacts, FS_Subset
<1> HIDE DEF H
<1>3. \A s : IsFiniteSet(Before(s)) /\ Cardinality(Before(s)) \in Nat
  <2>1. \A s : Before(s) \in SUBSET H
    OBVIOUS
  <2>2. QED  BY <1>2, <2>1, FS_Subset, FS_CardinalityType
<1>4. ASSUME NEW x \in H, NEW y \in P, x < y
      PROVE  x \in P
  <2>1. y \in H /\ x \in Nat /\ y \in Nat
    BY <1>2
  <2>2. Before(x) \in SUBSET Before(y)
    <3>1. \A z \in H : z < x => z < y
      BY <1>2, <1>4, <2>1
    <3>2. QED  BY <3>1
  <2>3. Cardinality(Before(x)) <= Cardinality(Before(y))
    BY <1>3, <2>2, FS_Subset
  <2>4. Cardinality(Before(y)) < limit
    OBVIOUS
  <2>5. Cardinality(Before(x)) < limit
    BY <1>2, <1>3, <2>3, <2>4
  <2>6. QED  BY <2>5
<1>5. P \in SUBSET H /\ IsFiniteSet(P) /\ Cardinality(P) \in Nat
  <2>1. P \in SUBSET H
    OBVIOUS
  <2>2. QED  BY <1>2, <2>1, FS_Subset, FS_CardinalityType
<1>6. ASSUME P # H
      PROVE  Cardinality(P) >= limit
  <2>1. H \ P \in SUBSET Nat /\ H \ P # {}
    <3>1. \A x \in H : x \in Nat
      BY <1>2
    <3> HIDE DEF P
    <3>2. QED  BY <1>5, <1>6, <3>1
  <2>2. PICK m \in H \ P : \A y \in H \ P : m <= y
    BY <2>1, LeastOf
  <2>3. Before(m) \in SUBSET P
    <3>1. \A x \in Before(m) : ~(m <= x)
      BY <1>2, <2>2
    <3>2. QED  BY <2>2, <3>1
  <2>4. ~(Cardinality(Before(m)) < limit)
    BY <2>2
  <2>5. Cardinality(Before(m)) <= Cardinality(P)
    BY <1>5, <2>3, FS_Subset
  <2>6. QED  BY <1>2, <1>3, <1>5, <2>4, <2>5
<1>7. QED  BY <1>1, <1>2, <1>4, <1>5, <1>6 DEF H

\* So it is what lies between the old cursor and the new.
LEMMA PageFacts ==
  ASSUME RingsInv, NEW c \in Nat, c <= NewestSeq
  PROVE  /\ CursorAfter(c) \in Nat /\ c <= CursorAfter(c) /\ CursorAfter(c) <= NewestSeq
         /\ PageAfter(c) = {x \in Held : c < x /\ x <= CursorAfter(c)}
<1> DEFINE P == PageAfter(c)
           H == After(c)
<1>1. /\ P \subseteq H /\ H \subseteq 1..NewestSeq /\ IsFiniteSet(P)
      /\ \A x \in H : \A y \in P : x < y => x \in P
      /\ P # H => Cardinality(P) >= limit
  BY PageShape
<1>2. H = {x \in Held : c < x}
  BY RingFacts DEF After
<1>3. NewestSeq \in Nat /\ limit \in Nat \ {0}
  BY RingFacts
<1>4. CASE P = H
  <2>1. CursorAfter(c) = NewestSeq
    BY <1>4 DEF CursorAfter
  <2>2. \A x \in H : x <= NewestSeq
    BY <1>1, <1>3
  <2>3. QED  BY <1>2, <1>3, <1>4, <2>1, <2>2
<1>5. CASE P # H
  <2>1. P # {}
    <3>1. Cardinality(P) # 0
      BY <1>1, <1>3, <1>5
    <3>2. QED  BY <3>1, FS_EmptySet
  <2>2. CursorAfter(c) = Max(P)
    BY <1>5 DEF CursorAfter
  <2>3. P \in SUBSET Nat /\ \A x \in P : x <= NewestSeq
    BY <1>1, <1>3
  <2>4. \E x \in P : \A y \in P : y <= x
    BY <1>3, <2>1, <2>3, GreatestOf
  <2>5. \E x \in P : \A y \in P : x >= y
    BY <2>3, <2>4
  <2>6. Max(P) \in P /\ \A y \in P : Max(P) >= y
    BY <2>5 DEF Max
  <2> DEFINE m == Max(P)
  <2>7. m \in P /\ m \in H /\ m \in Nat /\ m <= NewestSeq /\ c < m
    BY <1>1, <1>2, <2>3, <2>6
  <2>8. \A y \in P : y <= m
    BY <2>3, <2>6
  <2> HIDE DEF m
  <2>9. \A x \in H : x <= m => x \in P
    <3>1. \A x \in H : x \in Nat
      BY <1>1
    <3>2. \A x \in H : x <= m => x = m \/ x < m
      BY <2>7, <3>1
    <3>3. QED  BY <1>1, <2>7, <3>2
  <2>10. P = {x \in Held : c < x /\ x <= m}
    BY <1>1, <1>2, <2>8, <2>9
  <2>11. QED  BY <2>2, <2>7, <2>10 DEF m
<1>6. QED  BY <1>4, <1>5

\* A page longer than the quiet ring reaches past everything that is gone.
LEMMA GoneIsBehind ==
  ASSUME RingsInv, NEW c \in Nat, c <= NewestSeq, limit > QuietLines
  PROVE  \A g \in Gone : g <= CursorAfter(c)
<1> DEFINE P == PageAfter(c)
<1>1. /\ CursorAfter(c) \in Nat /\ NewestSeq \in Nat
      /\ P = {x \in Held : c < x /\ x <= CursorAfter(c)}
      /\ recorded \in SUBSET (1..NewestSeq) /\ Held \in SUBSET (1..NewestSeq)
  BY PageFacts, RingFacts
<1>2. \A g \in Gone : g \in Nat /\ g <= NewestSeq
  BY <1>1 DEF Gone
<1>3. CASE P = After(c)
  <2>1. CursorAfter(c) = NewestSeq
    BY <1>3 DEF CursorAfter
  <2>2. QED  BY <1>2, <2>1
<1>4. CASE P # After(c)
  <2>1. IsFiniteSet(P) /\ Cardinality(P) >= limit
    BY <1>4, PageShape
  <2>2. quietLines \in Seq(Int) /\ Len(quietLines) <= QuietLines
    BY DEF RingsInv, LogTypeOK
  <2>3. IsFiniteSet(ToSet(quietLines)) /\ Cardinality(ToSet(quietLines)) <= Len(quietLines)
    BY <2>2, ListedUnits
  <2>4. ~(P \subseteq ToSet(quietLines))
    <3> SUFFICES ASSUME P \in SUBSET ToSet(quietLines) PROVE FALSE
      OBVIOUS
    <3>1. Cardinality(P) <= Cardinality(ToSet(quietLines)) /\ Cardinality(P) \in Nat
      BY <2>1, <2>3, FS_Subset, FS_CardinalityType
    <3>2. Cardinality(ToSet(quietLines)) \in Nat /\ Len(quietLines) \in Nat
          /\ limit \in Nat /\ QuietLines \in Nat
      BY <2>2, <2>3, FS_CardinalityType, RingFacts, LogAssumption
    <3>3. QED  BY <2>1, <2>2, <2>3, <3>1, <3>2
  <2>5. PICK l \in ToSet(lines) : l \in P
    BY <1>1, <2>4 DEF Held
  <2>6. l \in Nat /\ l <= CursorAfter(c)
    <3>1. l \in Held /\ l <= CursorAfter(c)
      BY <1>1, <2>5
    <3>2. l \in 1..NewestSeq
      BY <1>1, <3>1
    <3>3. QED  BY <1>1, <3>1, <3>2
  <2>7. \A g \in Gone : g < l
    BY <2>5 DEF RingsInv
  <2>8. QED  BY <1>1, <1>2, <2>6, <2>7
<1>5. QED  BY <1>3, <1>4

\* What the client has passed grows by the page's main lines and by what is
\* gone after its old cursor.
LEMMA PastGrows ==
  ASSUME RingsInv, NEW c \in Nat, c <= NewestSeq, \A g \in Gone : g <= CursorAfter(c)
  PROVE  /\ Cardinality({x \in recorded : x <= CursorAfter(c)}) =
                Cardinality({x \in recorded : x <= c})
                + Cardinality({g \in Gone : g > c}) + MainIn(PageAfter(c))
         /\ Cardinality({x \in recorded : x <= c}) \in Nat
         /\ Cardinality({g \in Gone : g > c}) \in Nat /\ MainIn(PageAfter(c)) \in Nat
<1> DEFINE d == CursorAfter(c)
           A == {x \in recorded : x <= c}
           B == {g \in Gone : g > c}
           M == PageAfter(c) \intersect ToSet(lines)
           Z == {x \in recorded : x <= d}
<1>1. /\ d \in Nat /\ c <= d /\ PageAfter(c) = {x \in Held : c < x /\ x <= d}
      /\ recorded \in SUBSET (1..NewestSeq) /\ ToSet(lines) \subseteq Held
      /\ NewestSeq \in Nat /\ IsFiniteSet(recorded) /\ IsFiniteSet(Gone)
  BY PageFacts, RingFacts
<1>2. ToSet(lines) \subseteq recorded
  BY DEF RingsInv
<1>3. A \in SUBSET recorded /\ B \in SUBSET Gone /\ M \in SUBSET recorded
  BY <1>2
<1>4. /\ IsFiniteSet(A) /\ IsFiniteSet(B) /\ IsFiniteSet(M)
      /\ Cardinality(A) \in Nat /\ Cardinality(B) \in Nat /\ Cardinality(M) \in Nat
  BY <1>1, <1>3, FS_Subset, FS_CardinalityType
<1>5. \A x \in recorded : x \in Nat
  BY <1>1
<1>6. Z = (A \union B) \union M
  <2> HIDE DEF d
  <2>1. ASSUME NEW x \in recorded
        PROVE  x <= d <=> x \in A \/ x \in B \/ x \in M
    <3>1. x \in Nat
      BY <1>5
    <3>2. CASE x \in Gone
      BY <1>1, <3>1, <3>2 DEF Gone, d
    <3>3. CASE x \in ToSet(lines)
      BY <1>1, <3>1, <3>3 DEF Gone
    <3>4. QED  BY <3>2, <3>3 DEF Gone
  <2>2. QED  BY <1>3, <2>1 DEF Gone
<1>7. A \intersect B = {} /\ (A \union B) \intersect M = {}
  <2>1. \A x \in B : ~(x <= c)
    BY <1>1, <1>5 DEF Gone
  <2>2. ASSUME NEW x \in M PROVE ~(x <= c) /\ x \notin Gone
    <3>1. c < x /\ x \in ToSet(lines)
      BY <1>1
    <3>2. x \in Nat
      BY <1>2, <1>5, <3>1
    <3>3. QED  BY <3>1, <3>2 DEF Gone
  <2>3. QED  BY <2>1, <2>2
<1> HIDE DEF A, B, M, Z, d
<1>8. IsFiniteSet(A \union B) /\ Cardinality(A \union B) = Cardinality(A) + Cardinality(B)
  <2>1. /\ IsFiniteSet(A \union B)
        /\ Cardinality(A \union B) =
              Cardinality(A) + Cardinality(B) - Cardinality(A \intersect B)
    BY <1>4, FS_Union
  <2>2. QED  BY <1>4, <1>7, <2>1, FS_EmptySet
<1>9. Cardinality(Z) = Cardinality(A) + Cardinality(B) + Cardinality(M)
  <2>1. Cardinality((A \union B) \union M) =
            Cardinality(A \union B) + Cardinality(M) - Cardinality((A \union B) \intersect M)
    BY <1>4, <1>8, FS_Union
  <2>2. QED  BY <1>4, <1>6, <1>7, <1>8, <2>1, FS_EmptySet
<1>10. Cardinality(M) = MainIn(PageAfter(c))
  BY DEF M, MainIn
<1>11. QED  BY <1>4, <1>9, <1>10 DEF A, B, Z, d

\* dropped_after never tells of more than is gone after a cursor, and of no
\* less when it calls its count exact.
LEMMA DroppedFacts ==
  ASSUME RingsInv, GoneInv, NEW c \in Nat
  PROVE  /\ DroppedAfter(c).lost \in Nat /\ DroppedAfter(c).exact \in BOOLEAN
         /\ DroppedAfter(c).lost <= Cardinality({g \in Gone : g > c})
         /\ DroppedAfter(c).exact =>
                DroppedAfter(c).lost = Cardinality({g \in Gone : g > c})
<1> DEFINE E == ToSet(evicted)
           k == Len(evicted)
           B == {g \in Gone : g > c}
           D == {e \in E : e > c}
           F == Gone \ E
           after     == Cardinality({i \in DOMAIN evicted : evicted[i] > c})
           forgotten == droppedTotal - k
           least     == IF forgotten > c THEN forgotten - c ELSE 0
           between   == evicted[1] - 1 - c
           most      == IF forgotten < between THEN forgotten ELSE between
<1>1. /\ evicted \in Seq(Nat) /\ Rising(evicted) /\ k \in Nat /\ DOMAIN evicted = 1..k
      /\ E \in SUBSET Gone /\ Cardinality(Gone) = droppedTotal
  BY DEF RingsInv, GoneInv
<1>2. IsFiniteSet(Gone) /\ \A g \in Gone : g \in Nat /\ g >= 1
  BY RingFacts DEF Gone
<1>3. IsFiniteSet(E) /\ Cardinality(E) = k /\ after = Cardinality(D)
  BY <1>1, RisingCount
<1>4. /\ B \in SUBSET Gone /\ D \in SUBSET B /\ D \in SUBSET E /\ F \in SUBSET Gone
      /\ IsFiniteSet(B) /\ IsFiniteSet(D) /\ IsFiniteSet(F)
      /\ Cardinality(B) \in Nat /\ Cardinality(D) \in Nat /\ Cardinality(F) \in Nat
      /\ Cardinality(Gone) \in Nat
  <2>1. B \in SUBSET Gone /\ D \in SUBSET B /\ F \in SUBSET Gone /\ D \in SUBSET E
    BY <1>1
  <2>2. QED  BY <1>2, <2>1, FS_Subset, FS_CardinalityType
<1>5. Cardinality(F) = forgotten
  <2>1. F \union E = Gone /\ F \intersect E = {}
    BY <1>1
  <2> HIDE DEF F, E
  <2>2. Cardinality(F \union E) =
            Cardinality(F) + Cardinality(E) - Cardinality(F \intersect E)
    BY <1>3, <1>4, FS_Union
  <2>3. Cardinality(F \intersect E) = 0
    BY <2>1, FS_EmptySet
  <2>4. droppedTotal = Cardinality(F) + k
    <3>1. Cardinality(F \union E) = droppedTotal /\ Cardinality(E) = k
      BY <1>1, <1>3, <2>1
    <3>2. Cardinality(F) \in Nat /\ k \in Nat
      BY <1>1, <1>4
    <3> HIDE DEF k
    <3>3. QED  BY <2>2, <2>3, <3>1, <3>2
  <2>5. QED  BY <1>1, <1>4, <2>4
<1>6. \A i \in 1..k : evicted[i] \in E /\ evicted[i] \in Nat
  BY <1>1 DEF ToSet
<1>7. \A e \in E : \E i \in 1..k : e = evicted[i]
  BY <1>1 DEF ToSet
<1>8. CASE evicted = <<>>
  <2>1. DroppedAfter(c) = [lost |-> 0, exact |-> TRUE]
    BY <1>8 DEF DroppedAfter, Count
  <2>2. B = {}
    BY <1>8 DEF GoneInv
  <2>3. QED  BY <2>1, <2>2, FS_EmptySet
<1>9. CASE evicted # <<>> /\ c >= Last(evicted)
  <2>1. DroppedAfter(c) = [lost |-> 0, exact |-> TRUE]
    BY <1>9 DEF DroppedAfter, Count
  <2>2. k \in 1..k /\ Last(evicted) = evicted[k]
    BY <1>1, <1>9 DEF Last
  <2>3. ASSUME NEW e \in E PROVE e <= c
    <3>1. PICK i \in 1..k : e = evicted[i]
      BY <1>7
    <3>2. k \in Nat /\ k \in DOMAIN evicted /\ i \in DOMAIN evicted
      BY <1>1, <2>2
    <3>3. evicted[i] \in Nat /\ evicted[k] \in Nat /\ c >= evicted[k]
      BY <1>6, <1>9, <2>2
    <3> HIDE DEF k
    <3>4. i = k \/ i < k
      BY <3>2
    <3>5. i < k => evicted[i] < evicted[k]
      BY <1>1, <3>2 DEF Rising
    <3>6. QED  BY <3>1, <3>3, <3>4, <3>5
  <2>4. ASSUME NEW g \in F PROVE g <= c
    <3>1. g < evicted[k]
      BY <1>6, <2>2 DEF GoneInv
    <3>2. QED  BY <1>2, <1>6, <1>9, <2>2, <3>1
  <2>5. B = {}
    <3>1. \A g \in Gone : ~(g > c)
      BY <1>2, <2>3, <2>4
    <3>2. QED  BY <3>1
  <2>6. QED  BY <2>1, <2>5, FS_EmptySet
<1>10. CASE evicted # <<>> /\ ~(c >= Last(evicted)) /\ (after < k \/ forgotten = 0)
  <2>1. DroppedAfter(c) = [lost |-> after, exact |-> TRUE]
    BY <1>10 DEF DroppedAfter, Count
  <2>2. \A g \in F : g <= c
    <3>1. CASE forgotten = 0
      BY <1>4, <1>5, <3>1, FS_EmptySet
    <3>2. CASE after < k
      <4>1. D # E
        <5>1. Cardinality(D) < k /\ Cardinality(E) = k
          BY <1>3, <3>2
        <5> HIDE DEF D, E
        <5>2. QED  BY <1>1, <5>1
      <4>2. PICK e \in E : ~(e > c)
        BY <1>4, <4>1
      <4>3. \A g \in F : g < e
        BY <4>2 DEF GoneInv
      <4>4. e \in Nat
        BY <1>1, <1>2
      <4>5. QED  BY <1>2, <4>2, <4>3, <4>4
    <3>3. QED  BY <1>10, <3>1, <3>2
  <2>3. B = D
    <3>1. \A g \in F : ~(g > c)
      BY <1>2, <2>2
    <3>2. \A g \in Gone : g > c => g \in E
      BY <3>1
    <3> HIDE DEF E
    <3>3. QED  BY <1>1, <3>2
  <2>4. DroppedAfter(c).lost = after /\ DroppedAfter(c).exact = TRUE
    BY <2>1
  <2>5. after = Cardinality(B) /\ Cardinality(B) \in Nat
    BY <1>3, <1>4, <2>3
  <2>6. DroppedAfter(c).lost \in Nat /\ DroppedAfter(c).lost <= Cardinality(B)
    <3> HIDE DEF after, B
    <3>1. QED  BY <2>4, <2>5
  <2>7. DroppedAfter(c).lost = Cardinality(B) /\ DroppedAfter(c).exact \in BOOLEAN
    BY <2>4, <2>5, Zenon
  <2> HIDE DEF after
  <2>8. QED  BY <2>6, <2>7, Zenon
<1>11. CASE /\ evicted # <<>> /\ ~(c >= Last(evicted))
            /\ ~(after < k) /\ forgotten # 0
  <2>1. DroppedAfter(c) = [lost |-> k + least, exact |-> least = most]
    BY <1>11 DEF DroppedAfter
  <2>2. D = E
    <3>1. Cardinality(D) = Cardinality(E)
      <4>1. Cardinality(D) <= Cardinality(E)
        BY <1>3, <1>4, FS_Subset
      <4>2. QED  BY <1>1, <1>3, <1>4, <1>11, <4>1
    <3>2. QED  BY <1>3, <1>4, <3>1, FS_Subset
  <2> DEFINE G == {g \in F : g > c}
             S == {g \in F : g <= c}
  <2>3. /\ G \in SUBSET F /\ S \in SUBSET F /\ IsFiniteSet(G) /\ IsFiniteSet(S)
        /\ Cardinality(G) \in Nat /\ Cardinality(S) \in Nat
    <3>1. G \in SUBSET F /\ S \in SUBSET F
      OBVIOUS
    <3>2. QED  BY <1>4, <3>1, FS_Subset, FS_CardinalityType
  <2>4. B = G \union E /\ G \intersect E = {}
    BY <1>1, <2>2
  <2>5. F = G \union S /\ G \intersect S = {}
    BY <1>2
  <2>6. 1 \in 1..k /\ evicted[1] \in E /\ evicted[1] \in Nat /\ evicted[1] > c
    <3>1. 1 \in 1..k
      BY <1>1, <1>11
    <3>2. QED  BY <1>6, <2>2, <3>1
  <2>7. S \in SUBSET (1..c) /\ G \in SUBSET (c + 1..evicted[1] - 1)
    <3>1. \A g \in F : g \in Nat /\ g >= 1 /\ g < evicted[1]
      BY <1>2, <2>6 DEF GoneInv
    <3>2. QED  BY <2>6, <3>1
  <2> HIDE DEF S, G, B, E, F, D
  <2>8. Cardinality(B) = Cardinality(G) + k
    <3>1. Cardinality(G \union E) =
              Cardinality(G) + Cardinality(E) - Cardinality(G \intersect E)
      BY <1>3, <2>3, FS_Union
    <3>2. Cardinality(G \intersect E) = 0
      BY <2>4, FS_EmptySet
    <3>3. QED  BY <1>1, <1>3, <2>3, <2>4, <3>1, <3>2
  <2>9. forgotten = Cardinality(G) + Cardinality(S)
    <3>1. Cardinality(G \union S) =
              Cardinality(G) + Cardinality(S) - Cardinality(G \intersect S)
      BY <2>3, FS_Union
    <3>2. QED  BY <1>5, <2>3, <2>5, <3>1, FS_EmptySet
  <2>10. Cardinality(S) <= c
    <3>1. IsFiniteSet(1..c) /\ Cardinality(1..c) = IF 1 > c THEN 0 ELSE c - 1 + 1
      BY FS_Interval
    <3>2. Cardinality(1..c) = c
      BY <3>1
    <3>3. QED  BY <2>7, <3>1, <3>2, FS_Subset
  <2>11. Cardinality(G) <= between
    <3> DEFINE lo == c + 1
               hi == evicted[1] - 1
    <3>1. lo \in Int /\ hi \in Int /\ hi >= c
      BY <2>6
    <3> HIDE DEF lo, hi
    <3>2. IsFiniteSet(lo..hi) /\ Cardinality(lo..hi) = IF lo > hi THEN 0 ELSE hi - lo + 1
      BY <3>1, FS_Interval
    <3>3. Cardinality(lo..hi) = between
      BY <2>6, <3>1, <3>2 DEF lo, hi
    <3>4. Cardinality(G) <= Cardinality(lo..hi)
      BY <2>7, <3>2, FS_Subset DEF lo, hi
    <3>5. QED  BY <3>3, <3>4
  <2>12. between \in Nat /\ forgotten \in Nat
    BY <2>3, <2>6, <2>9
  <2> HIDE DEF between, forgotten
  <2>13. least \in Nat /\ least <= Cardinality(G)
    BY <2>3, <2>9, <2>10, <2>12
  <2>14. least = most => least = Cardinality(G)
    BY <2>3, <2>9, <2>10, <2>11, <2>12
  <2> HIDE DEF least, most
  <2>15. /\ DroppedAfter(c).lost = k + least
         /\ DroppedAfter(c).exact <=> least = most
         /\ DroppedAfter(c).exact \in BOOLEAN
    <3>1. DroppedAfter(c).exact = (least = most)
      BY <2>1
    <3>2. DroppedAfter(c).lost = k + least
      BY <2>1
    <3>3. QED  BY <3>1, <3>2, Zenon
  <2>16. /\ k + least \in Nat /\ k + least <= Cardinality(B)
         /\ least = most => k + least = Cardinality(B)
    BY <1>1, <2>3, <2>8, <2>13, <2>14
  <2>17. QED  BY <2>15, <2>16 DEF B
<1>12. QED  BY <1>8, <1>9, <1>10, <1>11

\* No more has gone than was printed.
LEMMA GoneCount ==
  ASSUME NEW n \in Nat, NEW R \in SUBSET (1..n), NEW T \in SUBSET R
  PROVE  IsFiniteSet(T) /\ Cardinality(T) \in 0..n
<1>1. IsFiniteSet(1..n) /\ Cardinality(1..n) = IF 1 > n THEN 0 ELSE n - 1 + 1
  BY FS_Interval
<1>2. Cardinality(1..n) = n
  BY <1>1
<1>3. T \in SUBSET (1..n)
  OBVIOUS
<1>4. IsFiniteSet(T) /\ Cardinality(T) <= n /\ Cardinality(T) \in Nat
  BY <1>1, <1>2, <1>3, FS_Subset, FS_CardinalityType
<1>5. QED  BY <1>4

\* At a process's start nothing was printed.
LEMMA FreshRing ==
  ASSUME lines = <<>>, quietLines = <<>>, nextSeq = 1, evicted = <<>>,
         droppedTotal = 0, recorded = {}, LogTypeOK
  PROVE  /\ RingsInv /\ GoneInv
         /\ PastCursor = 0
<1>1. ToSet(<<>>) = {}
  BY DEF ToSet
<1>2. Gone = {} /\ {s \in recorded : s <= cursor} = {}
  BY DEF Gone
<1>3. Rising(<<>>) /\ <<>> \in Seq(Nat)
  BY DEF Rising
<1>4. RingsInv
  BY <1>1, <1>2, <1>3 DEF RingsInv
<1>5. GoneInv
  BY <1>1, <1>2, FS_EmptySet DEF GoneInv
<1>6. QED  BY <1>2, <1>4, <1>5, FS_EmptySet DEF PastCursor

LEMMA InitLog == LogInit => LogInv
<1> SUFFICES ASSUME LogInit PROVE LogInv
  OBVIOUS
<1>1. /\ lines = <<>> /\ quietLines = <<>> /\ nextSeq = 1 /\ evicted = <<>>
      /\ droppedTotal = 0 /\ recorded = {} /\ shown = 0 /\ told = 0
      /\ cursor = 0 /\ limit \in Limits /\ exact = TRUE /\ astray = FALSE /\ reboots = 0
  BY DEF LogInit
<1>2. LogTypeOK
  <2>1. Len(<<>>) = 0
    BY NoElements
  <2>2. Len(lines) <= MaxLines /\ Len(quietLines) <= QuietLines
        /\ Len(evicted) <= EvictionMemory
    BY <1>1, <2>1, LogAssumption
  <2>3. /\ nextSeq \in 1..MaxSeq + 1 /\ droppedTotal \in 0..MaxSeq
        /\ cursor \in 0..MaxSeq /\ reboots \in 0..MaxReboots
    BY <1>1, LogAssumption
  <2>4. QED  BY <1>1, <2>2, <2>3 DEF LogTypeOK
<1>3. RingsInv /\ GoneInv /\ PastCursor = 0
  BY <1>1, <1>2, FreshRing
<1>4. ClientInv
  BY <1>1 DEF ClientInv, NewestSeq
<1>5. QED  BY <1>1, <1>3, <1>4 DEF LogInv, EveryLineIsAccountedFor

\* A line of the main ring: what it pushes out joins what is gone.
LEMMA MainRing ==
  ASSUME RingsInv, GoneInv, RecordMain
  PROVE  RingsInv' /\ GoneInv'
<1> DEFINE n == nextSeq
           L == ToSet(lines)
           E == ToSet(evicted)
           h == Head(lines)
<1>1. /\ n \in Nat /\ n >= 1 /\ n <= MaxSeq /\ MaxSeq \in Nat
      /\ lines \in Seq(Nat) /\ evicted \in Seq(Nat) /\ Rising(lines) /\ Rising(evicted)
      /\ recorded \subseteq 1..n - 1 /\ L \subseteq recorded
      /\ ToSet(quietLines) \subseteq 1..n - 1 /\ quietLines \in Seq(Nat)
      /\ \A g \in Gone : \A l \in L : g < l
  BY LogAssumption DEF RingsInv, LogTypeOK, RecordMain
<1>2. /\ Len(lines) <= MaxLines /\ MaxLines \in Nat \ {0}
      /\ Len(evicted) <= EvictionMemory /\ EvictionMemory \in Nat \ {0}
  BY LogAssumption DEF RingsInv, LogTypeOK
<1>3. /\ nextSeq' = n + 1 /\ recorded' = recorded \union {n}
      /\ lines' = LastOf(Append(lines, n), MaxLines)
      /\ quietLines' = quietLines /\ cursor' = cursor /\ limit' = limit /\ shown' = shown
      /\ told' = told /\ exact' = exact /\ astray' = astray /\ reboots' = reboots
  BY DEF RecordMain, client
<1>4. \A r \in recorded : r \in Nat /\ r < n
  BY <1>1
<1>5. /\ lines' \in Seq(Nat) /\ Len(lines') <= MaxLines /\ Rising(lines') /\ lines' # <<>>
      /\ Len(lines) # MaxLines => ToSet(lines') = L \union {n}
      /\ Len(lines) = MaxLines =>
           /\ h \in L /\ ToSet(lines') = (L \ {h}) \union {n}
           /\ \A y \in L \ {h} : h < y
  <2>1. \A y \in L : y < n
    BY <1>1, <1>4
  <2>2. MaxLines \in Nat
    BY <1>2
  <2>3. lines' \in Seq(Nat) /\ Len(lines') <= MaxLines
    BY <1>1, <1>2, <1>3, <2>2, KeptAfterAppend
  <2>4. QED  BY <1>1, <1>2, <1>3, <2>1, <2>3, RisingAppend
<1>6. /\ recorded' \in SUBSET (1..n) /\ n \notin recorded
      /\ 1..nextSeq' - 1 = 1..n /\ 1..n - 1 \subseteq 1..n
  BY <1>1, <1>3, <1>4
<1>7. Gone' \in SUBSET recorded'
  BY DEF Gone
<1>8. /\ ToSet(lines') \subseteq recorded'
      /\ \A g \in Gone' : \A l \in ToSet(lines') : g < l
      /\ evicted' \in Seq(Nat) /\ Len(evicted') <= EvictionMemory /\ Rising(evicted')
      /\ Cardinality(Gone') = droppedTotal'
      /\ ToSet(evicted') \subseteq Gone'
      /\ \A g \in Gone' \ ToSet(evicted') : \A e \in ToSet(evicted') : g < e
      /\ evicted' = <<>> => Gone' = {}
  <2>1. CASE Len(lines) # MaxLines
    <3>1. evicted' = evicted /\ droppedTotal' = droppedTotal
      BY <2>1 DEF RecordMain
    <3>2. ToSet(lines') = L \union {n}
      BY <1>5, <2>1
    <3>3. Gone' = Gone
      BY <1>3, <1>6, <3>2 DEF Gone
    <3>4. \A g \in Gone : g < n
      BY <1>4 DEF Gone
    <3>5. ToSet(lines') \subseteq recorded'
      BY <1>1, <1>3, <3>2
    <3>6. \A g \in Gone' : \A l \in ToSet(lines') : g < l
      BY <1>1, <3>2, <3>3, <3>4
    <3>7. QED  BY <1>1, <1>2, <3>1, <3>3, <3>5, <3>6 DEF GoneInv
  <2>2. CASE Len(lines) = MaxLines
    <3>1. /\ droppedTotal' = droppedTotal + 1
          /\ evicted' = LastOf(Append(evicted, h), EvictionMemory)
      BY <2>2 DEF RecordMain
    <3>2. h \in L /\ ToSet(lines') = (L \ {h}) \union {n} /\ \A y \in L \ {h} : h < y
      BY <1>5, <2>2
    <3>3. h \in Nat /\ h \in recorded /\ h < n /\ h \notin Gone
      BY <1>1, <1>4, <3>2 DEF Gone
    <3>4. Gone' = Gone \union {h}
      BY <1>1, <1>3, <1>6, <3>2, <3>3 DEF Gone
    <3>5. \A g \in Gone : g < n /\ g < h
      BY <1>1, <1>4, <3>2 DEF Gone
    <3>6. ToSet(lines') \subseteq recorded'
      BY <1>1, <1>3, <3>2
    <3>7. \A g \in Gone' : \A l \in ToSet(lines') : g < l
      BY <1>1, <3>2, <3>3, <3>4, <3>5
    <3>8. E \subseteq Gone /\ \A g \in Gone \ E : \A e \in E : g < e
      BY DEF GoneInv
    <3>9. \A y \in E : y < h
      BY <3>5, <3>8
    <3>10. EvictionMemory \in Nat
      BY <1>2
    <3>11. evicted' \in Seq(Nat) /\ Len(evicted') <= EvictionMemory
      BY <1>1, <1>2, <3>1, <3>3, <3>10, KeptAfterAppend
    <3>12. /\ Rising(evicted') /\ evicted' # <<>>
           /\ Len(evicted) # EvictionMemory => ToSet(evicted') = E \union {h}
           /\ Len(evicted) = EvictionMemory =>
                /\ Head(evicted) \in E
                /\ \A y \in E \ {Head(evicted)} : Head(evicted) < y
                /\ ToSet(evicted') = (E \ {Head(evicted)}) \union {h}
      BY <1>1, <1>2, <3>1, <3>3, <3>9, RisingAppend
    <3>13. ToSet(evicted') \subseteq Gone'
      BY <3>4, <3>8, <3>12
    <3>14. \A g \in Gone' \ ToSet(evicted') : \A e \in ToSet(evicted') : g < e
      <4>1. CASE Len(evicted) # EvictionMemory
        BY <3>4, <3>5, <3>8, <3>12, <4>1
      <4>2. CASE Len(evicted) = EvictionMemory
        <5>1. SUFFICES ASSUME NEW g \in Gone' \ ToSet(evicted'), NEW e \in ToSet(evicted')
                       PROVE  g < e
          OBVIOUS
        <5>2. g \in Gone /\ (g \notin E \/ g = Head(evicted))
          BY <3>4, <3>12, <4>2
        <5>3. e = h \/ e \in E \ {Head(evicted)}
          BY <3>12, <4>2
        <5>4. CASE e = h
          BY <3>5, <5>2, <5>4
        <5>5. CASE e \in E \ {Head(evicted)}
          BY <3>8, <3>12, <4>2, <5>2, <5>5
        <5>6. QED  BY <5>3, <5>4, <5>5
      <4>3. QED  BY <4>1, <4>2
    <3>15. Cardinality(Gone') = droppedTotal'
      <4>1. IsFiniteSet(Gone)
        BY RingFacts
      <4>2. Cardinality(Gone \union {h}) = Cardinality(Gone) + 1
        BY <3>3, <4>1, FS_AddElement
      <4>3. QED  BY <3>1, <3>4, <4>2 DEF GoneInv
    <3>16. QED  BY <3>6, <3>7, <3>11, <3>12, <3>13, <3>14, <3>15
  <2>3. QED  BY <2>1, <2>2
<1>9. droppedTotal' \in 0..MaxSeq
  <2>1. Cardinality(Gone') \in 0..n
    BY <1>1, <1>6, <1>7, GoneCount
  <2>2. QED  BY <1>1, <1>8, <2>1
<1>10. LogTypeOK'
  <2>1. nextSeq' \in 1..MaxSeq + 1
    BY <1>1, <1>3
  <2>2. recorded' \subseteq 1..MaxSeq
    BY <1>1, <1>6
  <2>3. LogTypeOK
    BY DEF RingsInv
  <2>4. QED  BY <1>3, <1>5, <1>8, <1>9, <2>1, <2>2, <2>3 DEF LogTypeOK
<1>11. RingsInv'
  BY <1>1, <1>3, <1>5, <1>6, <1>8, <1>10 DEF RingsInv
<1>12. GoneInv'
  BY <1>8 DEF GoneInv
<1>13. QED  BY <1>11, <1>12

\* A routine poll's line leaves the main ring alone.
LEMMA QuietRing ==
  ASSUME RingsInv, GoneInv, RecordQuiet
  PROVE  RingsInv' /\ GoneInv'
<1> DEFINE n == nextSeq
<1>1. /\ n \in Nat /\ n >= 1 /\ n <= MaxSeq /\ MaxSeq \in Nat /\ QuietLines \in Nat
      /\ quietLines \in Seq(Nat) /\ Len(quietLines) <= QuietLines
      /\ recorded \subseteq 1..n - 1 /\ ToSet(quietLines) \subseteq 1..n - 1
  BY LogAssumption DEF RingsInv, LogTypeOK, RecordQuiet
<1>2. /\ nextSeq' = n + 1 /\ quietLines' = LastOf(Append(quietLines, n), QuietLines)
      /\ lines' = lines /\ evicted' = evicted /\ droppedTotal' = droppedTotal
      /\ recorded' = recorded /\ cursor' = cursor /\ limit' = limit /\ shown' = shown
      /\ told' = told /\ exact' = exact /\ astray' = astray /\ reboots' = reboots
  BY DEF RecordQuiet, client
<1>3. /\ quietLines' \in Seq(Nat) /\ Len(quietLines') <= QuietLines
      /\ ToSet(quietLines') \subseteq ToSet(quietLines) \union {n}
  BY <1>1, <1>2, KeptAfterAppend
<1>4. 1..nextSeq' - 1 = 1..n /\ 1..n - 1 \subseteq 1..n /\ n \in 1..n
  BY <1>1, <1>2
<1>5. ToSet(quietLines') \subseteq 1..nextSeq' - 1 /\ recorded' \subseteq 1..nextSeq' - 1
  BY <1>1, <1>2, <1>3, <1>4
<1>6. Gone' = Gone
  BY <1>2 DEF Gone
<1>7. LogTypeOK'
  <2>1. nextSeq' \in 1..MaxSeq + 1
    BY <1>1, <1>2
  <2>2. QED  BY <1>2, <1>3, <2>1 DEF RingsInv, LogTypeOK
<1>8. RingsInv'
  BY <1>2, <1>3, <1>5, <1>6, <1>7 DEF RingsInv
<1>9. GoneInv'
  BY <1>2, <1>6 DEF GoneInv
<1>10. QED  BY <1>8, <1>9

LEMMA RecordKeeps ==
  ASSUME LogInv, RecordQuiet \/ RecordMain
  PROVE  LogInv'
<1>1. RingsInv /\ GoneInv /\ ClientInv /\ EveryLineIsAccountedFor
  BY DEF LogInv
<1>2. RingsInv' /\ GoneInv'
  BY <1>1, MainRing, QuietRing
<1>3. /\ nextSeq' = nextSeq + 1 /\ recorded' \in {recorded, recorded \union {nextSeq}}
      /\ cursor' = cursor /\ limit' = limit /\ shown' = shown
      /\ told' = told /\ exact' = exact /\ astray' = astray
  BY DEF RecordQuiet, RecordMain, client
<1>4. nextSeq \in Nat /\ cursor \in Nat /\ nextSeq = NewestSeq + 1 /\ NewestSeq \in Nat
  BY <1>1, RingFacts
<1>5. ClientInv'
  BY <1>1, <1>3, <1>4 DEF ClientInv, NewestSeq
<1>6. ~astray => PastCursor' = PastCursor
  <2> SUFFICES ASSUME ~astray PROVE PastCursor' = PastCursor
    OBVIOUS
  <2>1. ~(nextSeq <= cursor)
    BY <1>1, <1>4 DEF ClientInv
  <2>2. {s \in recorded' : s <= cursor} = {s \in recorded : s <= cursor}
    BY <1>3, <2>1
  <2>3. QED  BY <1>3, <2>2 DEF PastCursor
<1>7. EveryLineIsAccountedFor'
  BY <1>1, <1>3, <1>6 DEF EveryLineIsAccountedFor
<1>8. QED  BY <1>2, <1>5, <1>7 DEF LogInv

\* A read leaves the rings alone.
LEMMA RingStays ==
  ASSUME RingsInv, GoneInv, UNCHANGED <<ring, limit, reboots>>,
         cursor' \in 0..MaxSeq, shown' \in Nat, told' \in Nat, exact' \in BOOLEAN,
         astray' \in BOOLEAN
  PROVE  RingsInv' /\ GoneInv'
<1>1. /\ lines' = lines /\ quietLines' = quietLines /\ nextSeq' = nextSeq
      /\ evicted' = evicted /\ droppedTotal' = droppedTotal /\ recorded' = recorded
      /\ limit' = limit /\ reboots' = reboots
  BY DEF ring
<1>2. Gone' = Gone
  BY <1>1 DEF Gone
<1>3. LogTypeOK'
  BY <1>1 DEF RingsInv, LogTypeOK
<1>4. QED  BY <1>1, <1>2, <1>3 DEF RingsInv, GoneInv

LEMMA PollKeeps ==
  ASSUME LogInv, Poll
  PROVE  LogInv'
<1> DEFINE gone == Cardinality({g \in Gone : g > cursor})
           dropped == DroppedAfter(cursor)
<1>1. RingsInv /\ GoneInv /\ ClientInv /\ EveryLineIsAccountedFor
  BY DEF LogInv
<1>2. /\ cursor <= NewestSeq /\ told' = told + dropped.lost
      /\ exact' = (exact /\ dropped.exact)
      /\ shown' = shown + MainIn(PageAfter(cursor)) /\ cursor' = CursorAfter(cursor)
      /\ astray' = astray /\ UNCHANGED <<ring, limit, reboots>>
      /\ limit' = limit /\ recorded' = recorded /\ nextSeq' = nextSeq
  BY DEF Poll, ring
<1>3. cursor \in Nat /\ NewestSeq \in Nat /\ NewestSeq <= MaxSeq /\ MaxSeq \in Nat
  BY <1>1, RingFacts, LogAssumption
<1>4. cursor' \in Nat /\ cursor <= cursor' /\ cursor' <= NewestSeq
  BY <1>1, <1>2, <1>3, PageFacts
<1>5. dropped.lost \in Nat /\ dropped.lost <= gone /\ (dropped.exact => dropped.lost = gone)
  BY <1>1, <1>3, DroppedFacts
<1>6. MainIn(PageAfter(cursor)) \in Nat
  <2>1. PageAfter(cursor) \intersect ToSet(lines) \in SUBSET PageAfter(cursor)
    OBVIOUS
  <2>2. QED  BY <1>1, <1>3, <2>1, PageShape, FS_Subset, FS_CardinalityType DEF MainIn
<1>7. shown \in Nat /\ told \in Nat /\ exact \in BOOLEAN /\ astray \in BOOLEAN
  BY <1>1 DEF RingsInv, LogTypeOK
<1> HIDE DEF dropped
<1>8. RingsInv' /\ GoneInv'
  <2>1. cursor' \in 0..MaxSeq /\ shown' \in Nat /\ told' \in Nat
    BY <1>2, <1>3, <1>4, <1>5, <1>6, <1>7
  <2>2. exact' \in BOOLEAN /\ astray' \in BOOLEAN
    BY <1>2, <1>7
  <2>3. QED  BY <1>1, <1>2, <2>1, <2>2, RingStays
<1>9. ClientInv'
  BY <1>1, <1>2, <1>3, <1>4 DEF ClientInv, NewestSeq
<1>10. EveryLineIsAccountedFor'
  <2>1. SUFFICES ASSUME ~astray, limit > QuietLines
                 PROVE  /\ exact' => shown' + told' = PastCursor'
                        /\ shown' + told' <= PastCursor'
    BY <1>2 DEF EveryLineIsAccountedFor
  <2>2. \A g \in Gone : g <= CursorAfter(cursor)
    BY <1>1, <1>2, <1>3, <2>1, GoneIsBehind
  <2>3. /\ PastCursor' = PastCursor + gone + MainIn(PageAfter(cursor))
        /\ PastCursor \in Nat /\ gone \in Nat
    BY <1>1, <1>2, <1>3, <2>2, PastGrows DEF PastCursor
  <2>4. (exact => shown + told = PastCursor) /\ shown + told <= PastCursor
    BY <1>1, <2>1 DEF EveryLineIsAccountedFor
  <2>5. exact' => shown + told = PastCursor /\ dropped.lost = gone
    BY <1>2, <1>5, <2>4
  <2> DEFINE main == MainIn(PageAfter(cursor))
  <2> HIDE DEF gone, main
  <2>6. shown' = shown + main /\ told' = told + dropped.lost /\ main \in Nat
        /\ PastCursor' = PastCursor + gone + main
    BY <1>2, <1>6, <2>3 DEF main
  <2>7. shown' + told' <= PastCursor'
    BY <1>5, <1>7, <2>3, <2>4, <2>6
  <2>8. exact' => shown' + told' = PastCursor'
    BY <1>5, <1>7, <2>3, <2>5, <2>6
  <2>9. QED  BY <2>7, <2>8
<1>11. QED  BY <1>8, <1>9, <1>10 DEF LogInv

\* A client that starts over starts from before everything that is held.
LEMMA ResyncKeeps ==
  ASSUME LogInv, Resync
  PROVE  LogInv'
<1> DEFINE since == Oldest - 1
<1>1. RingsInv /\ GoneInv
  BY DEF LogInv
<1>2. /\ shown' = MainIn(PageAfter(since)) /\ cursor' = CursorAfter(since)
      /\ told' = droppedTotal /\ exact' = TRUE /\ astray' = FALSE
      /\ UNCHANGED <<ring, limit, reboots>>
      /\ limit' = limit /\ recorded' = recorded /\ nextSeq' = nextSeq
  BY DEF Resync, ring
<1>3. /\ NewestSeq \in Nat /\ NewestSeq <= MaxSeq /\ MaxSeq \in Nat
      /\ nextSeq = NewestSeq + 1 /\ Held \in SUBSET (1..NewestSeq)
      /\ recorded \in SUBSET (1..NewestSeq)
  BY <1>1, RingFacts, LogAssumption
<1>4. After(since) = Held /\ After(0) = Held
  <2>1. \A s \in Held : s \in Nat /\ s > 0
    BY <1>3
  <2>2. After(0) = Held
    BY <2>1 DEF After
  <2>3. CASE Held = {}
    BY <2>3 DEF After
  <2>4. CASE Held # {}
    <3>1. Held \in SUBSET Nat
      BY <2>1
    <3>2. \E x \in Held : \A y \in Held : x <= y
      BY <2>4, <3>1, LeastOf
    <3>3. Min(Held) \in Held /\ \A y \in Held : Min(Held) <= y
      BY <3>2 DEF Min
    <3>4. Oldest = Min(Held)
      BY <2>4 DEF Oldest
    <3>5. Oldest \in Nat /\ \A y \in Held : Oldest <= y
      BY <3>1, <3>3, <3>4
    <3>6. \A y \in Held : y > since
      BY <2>1, <3>5
    <3>7. After(since) = Held
      BY <3>6 DEF After
    <3>8. QED  BY <2>2, <3>7
  <2>5. QED  BY <2>2, <2>3, <2>4
<1> HIDE DEF since
<1>5. PageAfter(since) = PageAfter(0)
  BY <1>4 DEF PageAfter
<1>6. CursorAfter(since) = CursorAfter(0)
  BY <1>4, <1>5 DEF CursorAfter
<1>7. CursorAfter(0) \in Nat /\ CursorAfter(0) <= NewestSeq
  BY <1>1, <1>3, PageFacts
<1>8. MainIn(PageAfter(0)) \in Nat
  <2>1. PageAfter(0) \intersect ToSet(lines) \in SUBSET PageAfter(0)
    OBVIOUS
  <2>2. QED  BY <1>1, <2>1, PageShape, FS_Subset, FS_CardinalityType DEF MainIn
<1>9. droppedTotal \in Nat
  BY <1>3 DEF RingsInv, LogTypeOK, LogInv
<1>10. RingsInv' /\ GoneInv'
  <2>1. cursor' \in 0..MaxSeq
    BY <1>2, <1>3, <1>6, <1>7
  <2>2. shown' \in Nat /\ told' \in Nat /\ exact' \in BOOLEAN /\ astray' \in BOOLEAN
    BY <1>2, <1>5, <1>8, <1>9
  <2>3. QED  BY <1>1, <1>2, <2>1, <2>2, RingStays
<1>11. ClientInv'
  BY <1>2, <1>3, <1>6, <1>7 DEF ClientInv, NewestSeq
<1>12. EveryLineIsAccountedFor'
  <2>1. SUFFICES ASSUME limit > QuietLines
                 PROVE  shown' + told' = PastCursor' /\ PastCursor' \in Nat
    BY <1>2 DEF EveryLineIsAccountedFor
  <2>2. \A g \in Gone : g <= CursorAfter(0)
    BY <1>1, <1>3, <2>1, GoneIsBehind
  <2>3. /\ Cardinality({x \in recorded : x <= CursorAfter(0)}) =
              Cardinality({x \in recorded : x <= 0})
              + Cardinality({g \in Gone : g > 0}) + MainIn(PageAfter(0))
    BY <1>1, <1>3, <2>2, PastGrows
  <2>4. {x \in recorded : x <= 0} = {} /\ {g \in Gone : g > 0} = Gone
    <3>1. \A x \in recorded : ~(x <= 0) /\ x > 0
      BY <1>3
    <3>2. QED  BY <3>1 DEF Gone
  <2>5. Cardinality({}) = 0 /\ Cardinality(Gone) = droppedTotal
    BY <1>1, FS_EmptySet DEF GoneInv
  <2>6. PastCursor' = Cardinality({x \in recorded : x <= CursorAfter(0)})
    BY <1>2, <1>6 DEF PastCursor
  <2>7. PastCursor' = droppedTotal + MainIn(PageAfter(0))
    <3> DEFINE main == MainIn(PageAfter(0))
    <3>1. PastCursor' = Cardinality({}) + Cardinality(Gone) + main
      BY <2>3, <2>4, <2>6
    <3>2. main \in Nat
      BY <1>8
    <3> HIDE DEF main
    <3>3. PastCursor' = droppedTotal + main
      BY <1>9, <2>5, <3>1, <3>2
    <3>4. QED  BY <3>3 DEF main
  <2>8. QED  BY <1>2, <1>5, <1>8, <1>9, <2>7
<1>13. QED  BY <1>10, <1>11, <1>12 DEF LogInv

\* Only a cursor of zero can be taken for one of the next process, and then
\* nothing was shown or told.
LEMMA RestartKeeps ==
  ASSUME LogInv, Restart
  PROVE  LogInv'
<1>1. RingsInv /\ GoneInv /\ ClientInv /\ EveryLineIsAccountedFor /\ LogTypeOK
  BY DEF LogInv, RingsInv
<1>2. /\ lines' = <<>> /\ quietLines' = <<>> /\ nextSeq' = 1 /\ evicted' = <<>>
      /\ droppedTotal' = 0 /\ recorded' = {} /\ astray' = (cursor > 0)
      /\ cursor' = cursor /\ shown' = shown /\ told' = told /\ exact' = exact
      /\ limit' = limit /\ reboots' = reboots + 1 /\ reboots < MaxReboots
  BY DEF Restart
<1>3. cursor \in Nat /\ recorded \in SUBSET (1..NewestSeq)
      /\ NewestSeq \in Nat /\ shown \in Nat /\ told \in Nat
  BY <1>1, RingFacts DEF LogTypeOK
<1>4. LogTypeOK'
  <2>1. Len(<<>>) = 0
    BY NoElements
  <2>2. Len(lines') <= MaxLines /\ Len(quietLines') <= QuietLines
        /\ Len(evicted') <= EvictionMemory
    BY <1>2, <2>1, LogAssumption
  <2>3. nextSeq' \in 1..MaxSeq + 1 /\ droppedTotal' \in 0..MaxSeq
        /\ reboots' \in 0..MaxReboots
    BY <1>1, <1>2, LogAssumption DEF LogTypeOK
  <2>4. astray' \in BOOLEAN
    BY <1>2
  <2>5. QED  BY <1>1, <1>2, <2>2, <2>3, <2>4 DEF LogTypeOK
<1>5. ToSet(<<>>) = {}
  BY DEF ToSet
<1>6. Gone' = {}
  BY <1>2 DEF Gone
<1>7. RingsInv'
  <2>1. Rising(<<>>) /\ <<>> \in Seq(Nat)
    BY DEF Rising
  <2>2. QED  BY <1>2, <1>4, <1>5, <1>6, <2>1 DEF RingsInv
<1>8. GoneInv'
  BY <1>2, <1>5, <1>6, FS_EmptySet DEF GoneInv
<1>9. ClientInv'
  <2>1. astray' <=> cursor' > 0
    BY <1>2, Zenon
  <2>2. NewestSeq' = 0
    BY <1>2 DEF NewestSeq
  <2>3. ~(cursor' > 0) => cursor' <= NewestSeq'
    BY <1>2, <1>3, <2>2
  <2>4. QED  BY <2>1, <2>3 DEF ClientInv
<1>10. EveryLineIsAccountedFor'
  <2> SUFFICES ASSUME ~astray', limit' > QuietLines
               PROVE  /\ exact' => shown' + told' = PastCursor'
                      /\ shown' + told' <= PastCursor'
    BY DEF EveryLineIsAccountedFor
  <2>1. ~(cursor > 0) /\ limit > QuietLines
    BY <1>2, Zenon
  <2>2. cursor = 0 /\ ~astray
    BY <1>1, <1>3, <2>1 DEF ClientInv
  <2>3. {x \in recorded : x <= cursor} = {}
    <3>1. \A x \in recorded : ~(x <= 0)
      BY <1>3
    <3>2. QED  BY <2>2, <3>1
  <2>4. PastCursor = 0
    BY <2>3, FS_EmptySet DEF PastCursor
  <2>5. shown + told <= 0
    BY <1>1, <2>1, <2>2, <2>4 DEF EveryLineIsAccountedFor
  <2>6. shown' + told' = 0
    BY <1>2, <1>3, <2>5
  <2>7. {x \in recorded' : x <= cursor'} = {}
    BY <1>2
  <2>8. PastCursor' = 0
    BY <2>7, FS_EmptySet DEF PastCursor
  <2>9. QED  BY <2>6, <2>8
<1>11. QED  BY <1>7, <1>8, <1>9, <1>10 DEF LogInv

LEMMA LogStutter ==
  ASSUME LogInv, UNCHANGED logVars
  PROVE  LogInv'
<1>1. /\ UNCHANGED <<ring, limit, reboots>> /\ cursor' = cursor /\ shown' = shown
      /\ told' = told /\ exact' = exact /\ astray' = astray
      /\ recorded' = recorded /\ nextSeq' = nextSeq /\ limit' = limit
  BY DEF logVars, client, ring
<1>2. RingsInv' /\ GoneInv'
  <2>1. RingsInv /\ GoneInv
    BY DEF LogInv
  <2>2. /\ cursor' \in 0..MaxSeq /\ shown' \in Nat /\ told' \in Nat
        /\ exact' \in BOOLEAN /\ astray' \in BOOLEAN
    BY <1>1, <2>1 DEF RingsInv, LogTypeOK
  <2>3. QED  BY <1>1, <2>1, <2>2, RingStays
<1>3. ClientInv' /\ EveryLineIsAccountedFor'
  BY <1>1 DEF LogInv, ClientInv, NewestSeq, EveryLineIsAccountedFor, PastCursor
<1>4. QED  BY <1>2, <1>3 DEF LogInv

\* The log's invariant holds of every run.
THEOREM LogInvariance == LogSpec => []LogInv
<1>1. LogInv /\ [LogNext]_logVars => LogInv'
  BY RecordKeeps, PollKeeps, ResyncKeeps, RestartKeeps, LogStutter DEF LogNext
<1>2. QED  BY <1>1, InitLog, PTL DEF LogSpec

\* The types: the rings and the memory of evictions stay within their bounds,
\* and no more is counted dropped than was printed (Ring::record).
THEOREM LogTypeCorrect == LogSpec => []LogTypeOK
<1>1. LogInv => LogTypeOK
  BY DEF LogInv, RingsInv
<1>2. QED  BY <1>1, LogInvariance, PTL

\* A log client whose page reaches past the quiet ring gets or is told of every
\* line the server printed, once, for rings of any size, any memory of
\* evictions and any number of restarts (read, dropped_after).
THEOREM NothingPrintedIsLost == LogSpec => []EveryLineIsAccountedFor
<1>1. LogInv => EveryLineIsAccountedFor
  BY DEF LogInv
<1>2. QED  BY <1>1, LogInvariance, PTL

-----------------------------------------------------------------------------
(* ThinkFilter: however it is cut, a text is shown as if it came whole.    *)
(*                                                                         *)
(* The scan of the whole text is a function of its places; that there is   *)
(* one, and what it is between two places, is shown by a smallest          *)
(* counterexample.                                                         *)

\* The tag the scan looks for ends with the n-th symbol.
Turned(t, last, n) ==
    /\ last.since + Len(TagFrom(last.inside)) <= n
    /\ TagAt(t, TagFrom(last.inside), n - Len(TagFrom(last.inside)))

Scanned(t, last, n) ==
    IF Turned(t, last, n) THEN [inside |-> ~last.inside, since |-> n] ELSE last

Unscanned == [inside |-> FALSE, since |-> 0]

\* The tags are not empty.
LEMMA TagLength ==
  \A in : /\ TagFrom(in) \in Seq(Symbols)
          /\ Len(TagFrom(in)) \in Nat /\ Len(TagFrom(in)) > 0
          /\ DOMAIN TagFrom(in) = 1..Len(TagFrom(in))
BY ThinkAssumption DEF TagFrom

\* There is a scan: were there a length none reaches, take the least.
LEMMA ScanExists ==
  ASSUME NEW t, NEW m \in Nat
  PROVE  \E f : f[0] = Unscanned /\ \A n \in 1..m : f[n] = Scanned(t, f[n - 1], n)
<1> DEFINE Follows(f, l) == f[0] = Unscanned /\ \A n \in 1..l : f[n] = Scanned(t, f[n - 1], n)
           T == {l \in Nat : ~\E f : Follows(f, l)}
<1>1. ASSUME T # {} PROVE FALSE
  <2>1. PICK l \in T : \A k \in T : l <= k
    BY <1>1, LeastOf
  <2>2. l \in Nat /\ ~\E f : Follows(f, l)
    BY <2>1
  <2>3. CASE l = 0
    <3>1. Follows([n \in {0} |-> Unscanned], 0)
      OBVIOUS
    <3>2. QED  BY <2>2, <2>3, <3>1
  <2>4. CASE l # 0
    <3>1. l - 1 \in Nat /\ ~(l <= l - 1)
      BY <2>2, <2>4
    <3>2. l - 1 \notin T
      BY <2>1, <3>1
    <3>3. PICK f : Follows(f, l - 1)
      BY <3>1, <3>2
    <3> DEFINE g == [n \in 0..l |-> IF n = l THEN Scanned(t, f[l - 1], l) ELSE f[n]]
    <3>4. g[0] = Unscanned
      BY <2>2, <2>4, <3>3
    <3>5. ASSUME NEW n \in 1..l PROVE g[n] = Scanned(t, g[n - 1], n)
      <4>1. g[n - 1] = f[n - 1]
        BY <2>2
      <4>2. CASE n = l
        BY <4>1, <4>2, <2>2
      <4>3. CASE n # l
        <5>1. n \in 1..(l - 1) /\ g[n] = f[n]
          BY <4>3, <2>2
        <5>2. QED  BY <5>1, <4>1, <3>3
      <4>4. QED  BY <4>2, <4>3
    <3> HIDE DEF g
    <3>6. Follows(g, l)
      BY <3>4, <3>5
    <3>7. QED  BY <2>2, <3>6
  <2>5. QED  BY <2>3, <2>4
<1>2. QED  BY <1>1

\* ... so ScanOf is it.
LEMMA ScanIs ==
  ASSUME NEW t, Len(t) \in Nat
  PROVE  /\ ScanOf(t)[0] = Unscanned
         /\ \A n \in 1..Len(t) : ScanOf(t)[n] = Scanned(t, ScanOf(t)[n - 1], n)
<1> DEFINE Scans(f) == f = [n \in 0..Len(t) |->
                              IF n = 0 THEN Unscanned ELSE Scanned(t, f[n - 1], n)]
           scan == CHOOSE f : Scans(f)
<1>1. ScanOf(t) = scan
  BY DEF ScanOf, Scanned, Turned, Unscanned
<1>2. PICK f : f[0] = Unscanned /\ \A n \in 1..Len(t) : f[n] = Scanned(t, f[n - 1], n)
  BY ScanExists
<1> DEFINE g == [n \in 0..Len(t) |-> f[n]]
<1>3. \A n \in 0..Len(t) : g[n] = IF n = 0 THEN Unscanned ELSE Scanned(t, g[n - 1], n)
  <2>1. ASSUME NEW n \in 0..Len(t), n # 0
        PROVE  g[n] = Scanned(t, g[n - 1], n)
    <3>1. n \in 1..Len(t) /\ n - 1 \in 0..Len(t)
      BY <2>1
    <3>2. QED  BY <1>2, <3>1
  <2>2. g[0] = Unscanned
    BY <1>2
  <2>3. QED  BY <2>1, <2>2
<1>4. Scans(g)
  <2> DEFINE h == [n \in 0..Len(t) |-> IF n = 0 THEN Unscanned ELSE Scanned(t, g[n - 1], n)]
  <2>1. \A n \in 0..Len(t) : g[n] = h[n]
    BY <1>3
  <2>2. g = h
    BY <2>1
  <2>3. QED  BY <2>2
<1> HIDE DEF g
<1>5. Scans(scan)
  BY <1>4
<1> HIDE DEF scan
<1>6. scan[0] = Unscanned /\ \A n \in 1..Len(t) : scan[n] = Scanned(t, scan[n - 1], n)
  BY <1>5
<1>7. QED  BY <1>1, <1>6

\* A set that has a number, and with each the next, has all up to a bound.
LEMMA Upwards ==
  ASSUME NEW S, NEW a \in Nat, NEW b \in Nat, a \in S,
         \A n \in a..b - 1 : n \in S => n + 1 \in S
  PROVE  a..b \subseteq S
<1> DEFINE T == {n \in a..b : n \notin S}
<1>1. ASSUME T # {} PROVE FALSE
  <2>1. T \in SUBSET Nat
    OBVIOUS
  <2>2. PICK n \in T : \A k \in T : n <= k
    BY <1>1, <2>1, LeastOf
  <2>3. n \in a..b /\ n \notin S /\ n # a
    BY <2>2
  <2>4. n - 1 \in a..b - 1 /\ n - 1 \notin T
    BY <2>2, <2>3
  <2>5. QED  BY <2>3, <2>4
<1>2. QED  BY <1>1

\* A scan says inside or outside, and since a place it has passed.
LEMMA ScanShape ==
  ASSUME NEW t, Len(t) \in Nat
  PROVE  \A n \in 0..Len(t) : ScanOf(t)[n].inside \in BOOLEAN /\ ScanOf(t)[n].since \in 0..n
<1> DEFINE scan == ScanOf(t)
           S == {n \in 0..Len(t) : scan[n].inside \in BOOLEAN /\ scan[n].since \in 0..n}
<1>1. scan[0] = Unscanned /\ \A n \in 1..Len(t) : scan[n] = Scanned(t, scan[n - 1], n)
  BY ScanIs
<1> HIDE DEF scan
<1>2. 0 \in S
  <2>1. Unscanned.inside \in BOOLEAN /\ Unscanned.since = 0
    BY DEF Unscanned
  <2>2. scan[0].inside \in BOOLEAN /\ scan[0].since \in 0..0
    BY <1>1, <2>1
  <2>3. QED  BY <2>2
<1>3. ASSUME NEW n \in 0..Len(t) - 1, n \in S PROVE n + 1 \in S
  <2>1. scan[n + 1] = Scanned(t, scan[n], n + 1)
    BY <1>1
  <2>2. CASE Turned(t, scan[n], n + 1)
    <3>1. scan[n + 1].inside = ~scan[n].inside /\ scan[n + 1].since = n + 1
      BY <2>1, <2>2 DEF Scanned
    <3>2. scan[n + 1].inside \in BOOLEAN
      BY <3>1
    <3>3. scan[n + 1].since \in 0..n + 1 /\ n + 1 \in 0..Len(t)
      BY <3>1
    <3>4. QED  BY <3>2, <3>3, Zenon
  <2>3. CASE ~Turned(t, scan[n], n + 1)
    BY <1>3, <2>1, <2>3 DEF Scanned
  <2>4. QED  BY <2>2, <2>3
<1> HIDE DEF S
<1>4. 0..Len(t) \subseteq S
  BY <1>2, <1>3, Upwards
<1>5. QED  BY <1>4 DEF S, scan

\* Where no tag ends the scan stays as it is.
LEMMA ScanStays ==
  ASSUME NEW t, Len(t) \in Nat, NEW p \in 0..Len(t), NEW m \in p..Len(t),
         NEW tag, tag = TagFrom(ScanOf(t)[p].inside),
         \A i \in ScanOf(t)[p].since..m - Len(tag) : p < i + Len(tag) => ~TagAt(t, tag, i)
  PROVE  \A n \in p..m : ScanOf(t)[n] = ScanOf(t)[p]
<1> DEFINE scan == ScanOf(t)
           S == {n \in p..m : scan[n] = scan[p]}
<1>1. \A n \in 1..Len(t) : scan[n] = Scanned(t, scan[n - 1], n)
  BY ScanIs
<1>2. scan[p].since \in 0..p
  BY ScanShape
<1>3. Len(tag) \in Nat
  BY TagLength
<1>4. \A i \in scan[p].since..m - Len(tag) : p < i + Len(tag) => ~TagAt(t, tag, i)
  OBVIOUS
<1>5. tag = TagFrom(scan[p].inside)
  OBVIOUS
<1> HIDE DEF scan
<1>6. ASSUME NEW n \in p..m - 1, n \in S PROVE n + 1 \in S
  <2>0. n + 1 \in 1..Len(t) /\ (n + 1) - 1 = n
    OBVIOUS
  <2>1. scan[n] = scan[p] /\ scan[n + 1] = Scanned(t, scan[n], n + 1)
    BY <1>1, <1>6, <2>0
  <2>2. ~Turned(t, scan[p], n + 1)
    <3>1. SUFFICES ASSUME Turned(t, scan[p], n + 1) PROVE FALSE
      OBVIOUS
    <3>2. /\ scan[p].since + Len(tag) <= n + 1
          /\ TagAt(t, tag, (n + 1) - Len(tag))
      BY <3>1, <1>5 DEF Turned
    <3>3. (n + 1) - Len(tag) \in scan[p].since..m - Len(tag) /\ p < ((n + 1) - Len(tag)) + Len(tag)
      BY <3>2, <1>2, <1>3
    <3>4. QED  BY <3>2, <3>3, <1>4
  <2>3. QED  BY <2>1, <2>2 DEF Scanned
<1>7. p \in S
  OBVIOUS
<1> HIDE DEF S
<1>8. p \in Nat /\ m \in Nat
  OBVIOUS
<1>9. p..m \subseteq S
  BY <1>6, <1>7, <1>8, Upwards
<1>10. QED  BY <1>9 DEF S, scan

\* The scan remembers its last turn.
LEMMA ScanSince ==
  ASSUME NEW t, Len(t) \in Nat, NEW p \in 0..Len(t)
  PROVE  \A n \in p..Len(t) : ScanOf(t)[n].since <= p => ScanOf(t)[n] = ScanOf(t)[p]
<1> DEFINE scan == ScanOf(t)
           S == {n \in p..Len(t) : scan[n].since <= p => scan[n] = scan[p]}
<1>1. \A n \in 1..Len(t) : scan[n] = Scanned(t, scan[n - 1], n)
  BY ScanIs
<1>2. p \in S
  OBVIOUS
<1> HIDE DEF scan
<1>3. ASSUME NEW n \in p..Len(t) - 1, n \in S PROVE n + 1 \in S
  <2>1. scan[n + 1] = Scanned(t, scan[n], n + 1)
    BY <1>1
  <2>2. CASE Turned(t, scan[n], n + 1)
    BY <2>1, <2>2 DEF Scanned
  <2>3. CASE ~Turned(t, scan[n], n + 1)
    BY <1>3, <2>1, <2>3 DEF Scanned
  <2>4. QED  BY <2>2, <2>3
<1> HIDE DEF S
<1>4. p \in Nat
  OBVIOUS
<1>5. p..Len(t) \subseteq S
  BY <1>2, <1>3, <1>4, Upwards
<1>6. QED  BY <1>5 DEF S, scan

\* A turn of the scan: the tag it looked for ends there.
LEMMA TurnOf ==
  ASSUME NEW t, Len(t) \in Nat, NEW n \in 1..Len(t), ScanOf(t)[n].since = n
  PROVE  /\ ScanOf(t)[n].inside = ~ScanOf(t)[n - 1].inside
         /\ TagFrom(~ScanOf(t)[n].inside) = TagFrom(ScanOf(t)[n - 1].inside)
         /\ Turned(t, ScanOf(t)[n - 1], n)
<1> DEFINE scan == ScanOf(t)
<1>1. scan[n] = Scanned(t, scan[n - 1], n)
  BY ScanIs
<1>2. n - 1 \in 0..Len(t)
  OBVIOUS
<1>3. scan[n - 1].inside \in BOOLEAN /\ scan[n - 1].since \in 0..n - 1
  BY <1>2, ScanShape
<1>4. Turned(t, scan[n - 1], n)
  <2>1. SUFFICES ASSUME ~Turned(t, scan[n - 1], n) PROVE FALSE
    OBVIOUS
  <2>2. scan[n] = scan[n - 1]
    BY <1>1, <2>1 DEF Scanned
  <2>3. QED  BY <1>3, <2>2
<1>5. scan[n].inside = ~scan[n - 1].inside
  BY <1>1, <1>4 DEF Scanned
<1>6. TagFrom(~scan[n].inside) = TagFrom(scan[n - 1].inside)
  BY <1>3, <1>5, Zenon DEF TagFrom
<1>7. QED  BY <1>4, <1>5, <1>6

\* Where no tag begins, what follows is neither a tag nor beyond one.
LEMMA PlainPart ==
  ASSUME NEW t, Len(t) \in Nat, NEW p \in 0..Len(t), NEW m \in p..Len(t),
         NEW tag, tag = TagFrom(ScanOf(t)[p].inside),
         \A i \in ScanOf(t)[p].since..m - 1 : ~TagAt(t, tag, i)
  PROVE  /\ \A n \in p..m : ScanOf(t)[n] = ScanOf(t)[p]
         /\ \A i \in p + 1..m : ~InTag(t, i)
<1> DEFINE scan == ScanOf(t)
<1>1. Len(tag) \in Nat /\ Len(tag) > 0
  BY TagLength
<1>2. scan[p].since \in 0..p
  BY ScanShape
<1>3. \A n \in p..m : scan[n] = scan[p]
  <2>1. \A i \in scan[p].since..m - Len(tag) : p < i + Len(tag) => ~TagAt(t, tag, i)
    BY <1>1, <1>2
  <2>2. QED  BY <2>1, ScanStays
<1>4. ASSUME NEW i \in p + 1..m, InTag(t, i)
      PROVE  FALSE
  <2>1. PICK n \in i..Len(t) : scan[n].since = n /\ n - Len(TagFrom(~scan[n].inside)) < i
    BY <1>4 DEF InTag
  <2>2. n \in 1..Len(t) /\ n - 1 \in 0..Len(t)
    BY <2>1
  <2>3. /\ TagFrom(~scan[n].inside) = TagFrom(scan[n - 1].inside)
        /\ Turned(t, scan[n - 1], n)
    BY <2>1, <2>2, TurnOf
  <2>4. ~(n \in p..m)
    BY <1>2, <1>3, <2>1
  <2>5. n - 1 \in m..Len(t)
    BY <2>1, <2>4
  <2>6. Len(TagFrom(scan[n - 1].inside)) \in Nat
    BY TagLength
  <2>7. scan[n - 1].since \in 0..n - 1
    BY <2>2, ScanShape
  <2>8. scan[n - 1].since <= m
    BY <2>1, <2>3, <2>5, <2>6, <2>7 DEF Turned
  <2>9. scan[n - 1] = scan[p]
    <3>1. m \in 0..Len(t)
      OBVIOUS
    <3>2. scan[n - 1] = scan[m]
      BY <2>5, <2>8, <3>1, ScanSince
    <3>3. QED  BY <1>3, <3>2
  <2>10. TagAt(t, tag, n - Len(tag)) /\ scan[p].since <= n - Len(tag) /\ n - Len(tag) < i
    BY <1>1, <1>2, <2>1, <2>3, <2>9 DEF Turned
  <2>11. QED  BY <1>1, <1>2, <2>10
<1>5. QED  BY <1>3, <1>4

\* The next tag turns the scan, and is itself neither outside nor inside.
LEMMA TagPart ==
  ASSUME NEW t, Len(t) \in Nat, NEW p \in 0..Len(t), NEW at \in p..Len(t),
         NEW tag, tag = TagFrom(ScanOf(t)[p].inside), TagAt(t, tag, at),
         \A i \in ScanOf(t)[p].since..at - 1 : ~TagAt(t, tag, i)
  PROVE  /\ at + Len(tag) \in 0..Len(t)
         /\ ScanOf(t)[at + Len(tag)] = [inside |-> ~ScanOf(t)[p].inside, since |-> at + Len(tag)]
         /\ \A i \in at + 1..at + Len(tag) : InTag(t, i)
<1> DEFINE scan == ScanOf(t)
           m == at + Len(tag)
<1>1. Len(tag) \in Nat /\ Len(tag) > 0
  BY TagLength
<1>2. scan[p].since \in 0..p
  BY ScanShape
<1>3. m \in 1..Len(t) /\ m - 1 \in p..Len(t)
  BY <1>1 DEF TagAt
<1>4. scan[m - 1] = scan[p]
  <2>1. \A i \in scan[p].since..(m - 1) - Len(tag) : p < i + Len(tag) => ~TagAt(t, tag, i)
    BY <1>1, <1>2
  <2>2. \A n \in p..m - 1 : scan[n] = scan[p]
    BY <1>3, <2>1, ScanStays
  <2>3. QED  BY <1>3, <2>2
<1>5. scan[m] = Scanned(t, scan[p], m)
  BY <1>3, <1>4, ScanIs
<1>6. Turned(t, scan[p], m)
  <2>1. m - Len(tag) = at /\ scan[p].since + Len(tag) <= m
    BY <1>1, <1>2
  <2>2. QED  BY <2>1 DEF Turned
<1>7. scan[m] = [inside |-> ~scan[p].inside, since |-> m]
  BY <1>5, <1>6 DEF Scanned
<1>8. ASSUME NEW i \in at + 1..m
      PROVE  InTag(t, i)
  <2>1. m \in i..Len(t) /\ scan[m].since = m
    BY <1>3, <1>7
  <2>2. TagFrom(~scan[m].inside) = tag
    BY <1>3, <1>4, <2>1, TurnOf
  <2>3. m - Len(tag) < i
    BY <1>1
  <2>4. QED  BY <2>1, <2>2, <2>3 DEF InTag
<1>9. QED  BY <1>3, <1>7, <1>8

\* Where the filter is, so is the scan; no tag begins in what is drained, nor,
\* between two pieces, is there one in what is pending.
SteadyInv ==
    /\ ScanOf(text)[drained].inside = inside
    /\ \A i \in ScanOf(text)[drained].since..drained - 1 : ~TagAt(text, Tag, i)
    /\ ~turning => Found = {}

\* What is drained is where it belongs ...
DrainedInv ==
    /\ thought = Within(text) \intersect 1..drained
    /\ withheld = (1..drained) \ Outside(text)
    /\ inside => withheld # {}
    /\ finished => ~turning /\ drained = Len(text)

\* ... the visible part too, but for the white space a block may follow; the end
\* of the text decides that.
VisibleSoFar ==
    /\ ~trim => ~begun /\ gap = {} /\ visible = Outside(text) \intersect 1..drained
    /\ trim /\ begun =>
         /\ gap = {} /\ visible = Answer \intersect 1..drained
         /\ \E j \in Outside(text) \intersect 1..drained : text[j] \notin White
    /\ trim /\ ~begun =>
         /\ \A j \in Outside(text) \intersect 1..drained : text[j] \in White
         /\ visible = {} /\ gap = Outside(text) \intersect 1..drained

VisibleInv == IF finished THEN visible = Answer ELSE VisibleSoFar

FilterInv == ThinkTypeOK /\ SteadyInv /\ DrainedInv /\ VisibleInv

\* The numbers the filter's types give.
LEMMA FilterSizes ==
  ASSUME ThinkTypeOK
  PROVE  /\ Len(text) \in Nat /\ arrived \in 0..Len(text) /\ drained \in 0..arrived
         /\ drained \in 0..Len(text)
         /\ Len(Tag) \in Nat /\ Len(Tag) > 0 /\ DOMAIN Tag = 1..Len(Tag)
<1>1. text \in Seq(Symbols)
  BY ThinkAssumption DEF ThinkTypeOK
<1>2. Len(text) \in Nat
  BY <1>1
<1>3. arrived \in 0..Len(text) /\ drained \in 0..arrived
  BY DEF ThinkTypeOK
<1>4. drained \in 0..Len(text)
  BY <1>2, <1>3
<1>5. Len(Tag) \in Nat /\ Len(Tag) > 0 /\ DOMAIN Tag = 1..Len(Tag)
  BY TagLength DEF Tag
<1>6. QED  BY <1>2, <1>3, <1>4, <1>5

LEMMA FilterFlags ==
  ASSUME ThinkTypeOK
  PROVE  inside \in BOOLEAN /\ trim \in BOOLEAN /\ begun \in BOOLEAN
BY Zenon DEF ThinkTypeOK

LEMMA PartPlaces ==
  Outside(text) \subseteq 1..Len(text) /\ Within(text) \subseteq 1..Len(text)
BY DEF Outside, Within

\* Up to where the next tag may begin the text is all of what the filter is in.
LEMMA Drains ==
  ASSUME ThinkTypeOK, SteadyInv, NEW m \in drained..Len(text),
         \A i \in drained..m - 1 : ~TagAt(text, Tag, i)
  PROVE  /\ ScanOf(text)[m] = ScanOf(text)[drained]
         /\ \A i \in ScanOf(text)[drained].since..m - 1 : ~TagAt(text, Tag, i)
         /\ inside => /\ drained + 1..m \subseteq Within(text)
                      /\ Outside(text) \intersect (drained + 1..m) = {}
         /\ ~inside => /\ drained + 1..m \subseteq Outside(text)
                       /\ Within(text) \intersect (drained + 1..m) = {}
<1> DEFINE scan == ScanOf(text)
<1>1. Len(text) \in Nat /\ drained \in 0..Len(text)
  BY FilterSizes
<1>2. Tag = TagFrom(scan[drained].inside) /\ scan[drained].inside = inside
  BY DEF SteadyInv, Tag
<1>3. scan[drained].since \in 0..drained
  BY <1>1, ScanShape
<1>4. \A i \in scan[drained].since..m - 1 : ~TagAt(text, Tag, i)
  BY <1>1, <1>3 DEF SteadyInv
<1>5. /\ \A n \in drained..m : scan[n] = scan[drained]
      /\ \A i \in drained + 1..m : ~InTag(text, i)
  BY <1>1, <1>2, <1>4, PlainPart
<1>6. ASSUME NEW i \in drained + 1..m
      PROVE  i \in 1..Len(text) /\ scan[i - 1].inside = inside /\ ~InTag(text, i)
  <2>1. i \in 1..Len(text) /\ i - 1 \in drained..m
    BY <1>1
  <2>2. scan[i - 1].inside = inside
    BY <1>2, <1>5, <2>1
  <2>3. QED  BY <1>5, <2>1, <2>2
<1>7. scan[m] = scan[drained]
  BY <1>1, <1>5
<1>8. CASE inside
  <2>1. \A i \in drained + 1..m : i \in Within(text) /\ i \notin Outside(text)
    BY <1>6, <1>8, Zenon DEF Within, Outside
  <2>2. QED  BY <1>4, <1>7, <1>8, <2>1
<1>9. CASE ~inside
  <2>1. \A i \in drained + 1..m : i \in Outside(text) /\ i \notin Within(text)
    BY <1>6, <1>9, Zenon DEF Within, Outside
  <2>2. QED  BY <1>4, <1>7, <1>9, <2>1
<1>10. QED  BY <1>8, <1>9

\* The next tag is of neither part, and turns the scan as it turns the filter.
LEMMA DrainsTag ==
  ASSUME ThinkTypeOK, SteadyInv, NEW at \in drained..Len(text), TagAt(text, Tag, at),
         \A i \in drained..at - 1 : ~TagAt(text, Tag, i)
  PROVE  /\ at + Len(Tag) \in 0..Len(text)
         /\ ScanOf(text)[at + Len(Tag)] = [inside |-> ~inside, since |-> at + Len(Tag)]
         /\ \A i \in at + 1..at + Len(Tag) : i \notin Outside(text) /\ i \notin Within(text)
<1> DEFINE scan == ScanOf(text)
<1>1. Len(text) \in Nat /\ drained \in 0..Len(text)
  BY FilterSizes
<1>2. Tag = TagFrom(scan[drained].inside) /\ scan[drained].inside = inside
  BY DEF SteadyInv, Tag
<1>3. \A i \in scan[drained].since..at - 1 : ~TagAt(text, Tag, i)
  BY Drains
<1>4. /\ at + Len(Tag) \in 0..Len(text)
      /\ scan[at + Len(Tag)] = [inside |-> ~scan[drained].inside, since |-> at + Len(Tag)]
      /\ \A i \in at + 1..at + Len(Tag) : InTag(text, i)
  BY <1>1, <1>2, <1>3, TagPart
<1>5. \A i \in at + 1..at + Len(Tag) : i \notin Outside(text) /\ i \notin Within(text)
  BY <1>4, Zenon DEF Outside, Within
<1>6. QED  BY <1>2, <1>4, <1>5

\* What is kept back is all that can still become a tag.
LEMMA NothingIsCut ==
  ASSUME ThinkTypeOK, Found = {}, NEW keep \in Dangling, \A n \in Dangling : n <= keep
  PROVE  /\ arrived - keep \in drained..arrived
         /\ \A i \in drained..arrived - keep - 1 : ~TagAt(text, Tag, i)
<1>1. /\ Len(text) \in Nat /\ arrived \in 0..Len(text) /\ drained \in 0..arrived
      /\ Len(Tag) \in Nat /\ Len(Tag) > 0 /\ DOMAIN Tag = 1..Len(Tag)
  BY FilterSizes
<1>2. keep \in 0..Len(Tag) - 1 /\ keep <= arrived - drained
  BY DEF Dangling
<1>3. arrived - keep \in drained..arrived
  BY <1>1, <1>2
<1>4. ASSUME NEW i \in drained..arrived - keep - 1, TagAt(text, Tag, i)
      PROVE  FALSE
  <2>1. CASE i + Len(Tag) <= arrived
    <3>1. i \in Found
      BY <1>1, <1>3, <1>4, <2>1 DEF Found
    <3>2. QED  BY <3>1
  <2>2. CASE ~(i + Len(Tag) <= arrived)
    <3> DEFINE n == arrived - i
    <3>1. n \in 0..Len(Tag) - 1 /\ n <= arrived - drained /\ keep < n
      BY <1>1, <1>2, <1>3, <2>2
    <3>2. \A k \in 1..n : text[arrived - n + k] = Tag[k]
      <4>1. arrived - n = i
        BY <1>1, <1>3
      <4>2. \A k \in 1..n : k \in DOMAIN Tag
        BY <1>1, <3>1
      <4> HIDE DEF n
      <4>3. QED  BY <1>4, <4>1, <4>2 DEF TagAt
    <3> HIDE DEF n
    <3>3. n \in Dangling
      BY <3>1, <3>2 DEF Dangling
    <3>4. QED  BY <1>2, <3>1, <3>3
  <2>3. QED  BY <2>1, <2>2
<1>5. QED  BY <1>3, <1>4

\* The places of a part grow by what is drained of it.
LEMMA PartGrows ==
  ASSUME NEW P, NEW d \in Nat, NEW m \in Nat, NEW e \in Nat, d <= m, m <= e,
         d + 1..m \subseteq P, P \intersect (m + 1..e) = {}
  PROVE  P \intersect 1..e = (P \intersect 1..d) \union (d + 1..m)
<1>1. 1..e = (1..d) \union (d + 1..m) \union (m + 1..e)
  OBVIOUS
<1>2. QED  BY <1>1

LEMMA PartStays ==
  ASSUME NEW P, NEW d \in Nat, NEW e \in Nat, d <= e, P \intersect (d + 1..e) = {}
  PROVE  P \intersect 1..e = P \intersect 1..d
<1>1. 1..e = (1..d) \union (d + 1..e)
  OBVIOUS
<1>2. QED  BY <1>1

LEMMA AnswerStays ==
  ASSUME UNCHANGED <<text, trim>>
  PROVE  Answer' = Answer
BY DEF Answer, Body

LEMMA AnswerIsOutside == Answer \subseteq Outside(text)
BY DEF Answer, Body

\* What a span opened by now, or the first text before any, says of the rest.
LEMMA LedBySpan ==
  ASSUME ThinkTypeOK, trim, withheld = (1..drained) \ Outside(text), withheld # {},
         \A j \in Outside(text) \intersect 1..drained : text[j] \in White
  PROVE  Answer = Body(Outside(text))
<1>1. PICK i \in withheld : TRUE
  OBVIOUS
<1>2. i \in (1..Len(text)) \ Outside(text) /\ i <= drained
  BY <1>1, FilterSizes
<1>3. \A j \in Outside(text) : j < i => text[j] \in White
  <2>1. SUFFICES ASSUME NEW j \in Outside(text), j < i PROVE text[j] \in White
    OBVIOUS
  <2>2. j \in 1..drained
    BY <1>2, <2>1, PartPlaces, FilterSizes
  <2>3. QED  BY <2>2
<1>4. QED  BY <1>2, <1>3 DEF Answer, OpensWithSpan

\* A text that starts with something to read is shown from its first symbol.
LEMMA LedByText ==
  ASSUME ThinkTypeOK, NEW m \in drained..Len(text), 1..m \subseteq Outside(text),
         NEW k \in 1..m, text[k] \notin White
  PROVE  Answer = Outside(text)
<1>1. SUFFICES ASSUME OpensWithSpan(text) PROVE FALSE
  BY DEF Answer
<1>2. PICK i \in (1..Len(text)) \ Outside(text) :
        \A j \in Outside(text) : j < i => text[j] \in White
  BY <1>1 DEF OpensWithSpan
<1>3. k < i /\ k \in Outside(text)
  BY <1>2, FilterSizes
<1>4. QED  BY <1>2, <1>3

\* Text outside any span is shown as the whole text would be.
LEMMA ShowsText ==
  ASSUME ThinkTypeOK, DrainedInv, VisibleSoFar,
         NEW m \in drained..Len(text), NEW e \in m..Len(text),
         drained + 1..m \subseteq Outside(text),
         Outside(text) \intersect (m + 1..e) = {},
         Show(drained + 1..m), drained' = e, UNCHANGED <<text, trim>>
  PROVE  VisibleSoFar'
<1> DEFINE P == Outside(text)
           places == drained + 1..m
<1>1. /\ Len(text) \in Nat /\ drained \in Nat /\ m \in Nat /\ e \in Nat
      /\ drained <= m /\ m <= e /\ P \subseteq 1..Len(text)
  <2>1. Len(text) \in Nat /\ drained \in 0..Len(text)
    BY FilterSizes
  <2>2. P \subseteq 1..Len(text)
    BY PartPlaces
  <2> HIDE DEF P
  <2>3. QED  BY <2>1, <2>2
<1>2. P \intersect 1..e = (P \intersect 1..drained) \union places
  <2> HIDE DEF P
  <2>1. drained + 1..m \subseteq P /\ P \intersect (m + 1..e) = {}
    BY DEF P
  <2>2. QED  BY <1>1, <2>1, PartGrows
<1>3. Outside(text)' = P /\ Answer' = Answer /\ Answer \subseteq P
  BY AnswerStays, AnswerIsOutside
<1>4. text' = text /\ trim' = trim /\ drained' = e
  OBVIOUS
<1> HIDE DEF P
<1>5. CASE ~trim \/ begun
  <2>1. visible' = visible \union places /\ gap' = gap /\ begun' = begun
    BY <1>5, Zenon DEF Show
  <2>2. CASE ~trim
    <3>1. ~begun /\ gap = {} /\ visible = P \intersect 1..drained
      BY <2>2, Zenon DEF VisibleSoFar, P
    <3>2. ~begun' /\ gap' = {} /\ ~trim'
      <4>1. begun' = begun /\ gap' = gap /\ trim' = trim
        BY <2>1, <1>4
      <4>2. QED  BY <4>1, <3>1, <2>2
    <3>3. visible' = (Outside(text) \intersect 1..drained)'
      BY <3>1, <2>1, <1>2, <1>3, <1>4
    <3>4. QED  BY <3>2, <3>3, Zenon DEF VisibleSoFar
  <2>3. CASE trim /\ begun
    <3>1. /\ gap = {} /\ visible = Answer \intersect 1..drained
          /\ \E j \in P \intersect 1..drained : text[j] \notin White
      BY <2>3, Zenon DEF VisibleSoFar, P
    <3>2. PICK j \in P \intersect 1..drained : text[j] \notin White
      BY <3>1
    <3>3. places \subseteq Answer
      <4>1. \A i \in places : i \in P /\ j <= i
        BY <1>1, <1>2, <3>2
      <4>2. QED  BY <4>1, <3>2 DEF Answer, Body, P
    <3>4. Answer \intersect 1..e = (Answer \intersect 1..drained) \union places
      <4>1. Answer \intersect (m + 1..e) = {}
        BY <1>3 DEF P
      <4>2. QED  BY <1>1, <3>3, <4>1, PartGrows
    <3>5. j \in (Outside(text) \intersect 1..drained)' /\ text'[j] \notin White
      BY <3>2, <1>2, <1>3, <1>4
    <3>6. gap' = {} /\ visible' = (Answer \intersect 1..drained)'
      BY <3>1, <3>4, <2>1, <1>3, <1>4
    <3>7. begun' /\ trim'
      <4>1. begun' = begun /\ trim' = trim
        BY <2>1, <1>4
      <4>2. QED  BY <4>1, <2>3
    <3>8. QED  BY <3>5, <3>6, <3>7, Zenon DEF VisibleSoFar
  <2>4. QED  BY <1>5, <2>2, <2>3
<1>6. CASE trim /\ ~begun
  <2>1. /\ \A j \in P \intersect 1..drained : text[j] \in White
        /\ visible = {} /\ gap = P \intersect 1..drained
    BY <1>6, Zenon DEF VisibleSoFar, P
  <2>2. CASE Body(places) = {}
    <3>1. gap' = gap \union places /\ begun' = begun /\ visible' = visible
      BY <1>6, <2>2, Zenon DEF Show
    <3>2. \A j \in places : text[j] \in White
      BY <2>2, <1>1 DEF Body
    <3>3. \A j \in (Outside(text) \intersect 1..drained)' : text'[j] \in White
      BY <3>2, <2>1, <1>2, <1>3, <1>4
    <3>4. gap' = (Outside(text) \intersect 1..drained)' /\ visible' = {}
      BY <3>1, <2>1, <1>2, <1>3, <1>4
    <3>5. ~begun' /\ trim'
      <4>1. begun' = begun /\ trim' = trim
        BY <3>1, <1>4
      <4>2. QED  BY <4>1, <1>6
    <3>6. QED  BY <3>3, <3>4, <3>5, Zenon DEF VisibleSoFar
  <2>3. CASE Body(places) # {}
    <3>1. /\ begun' = TRUE /\ gap' = {}
          /\ visible' = visible \union IF withheld # {} THEN Body(places) ELSE gap \union places
      BY <1>6, <2>3, Zenon DEF Show
    <3>2. PICK k \in places : text[k] \notin White
      BY <2>3 DEF Body
    <3>3. k \in P \intersect 1..e
      BY <3>2, <1>2
    <3>4. visible' = Answer \intersect 1..e
      <4>1. CASE withheld # {}
        <5>1. Answer = Body(P)
          <6>1. withheld = (1..drained) \ Outside(text)
            BY DEF DrainedInv
          <6>2. QED  BY <6>1, <4>1, <2>1, <1>6, LedBySpan DEF P
        <5>2. Body(P) \intersect 1..e = Body(places)
          <6>1. ASSUME NEW i \in Body(P), i \in 1..e
                PROVE  i \in Body(places)
            <7>1. PICK j \in P : j <= i /\ text[j] \notin White
              BY <6>1 DEF Body
            <7>2. j \in 1..e /\ i \in P \intersect 1..e
              BY <7>1, <6>1, <1>1 DEF Body
            <7>3. j \in places
              BY <7>1, <7>2, <2>1, <1>2
            <7>4. i \in places
              BY <7>1, <7>2, <7>3, <1>1, <1>2
            <7>5. QED  BY <7>1, <7>3, <7>4 DEF Body
          <6>2. ASSUME NEW i \in Body(places)
                PROVE  i \in Body(P) /\ i \in 1..e
            BY <6>2, <1>2 DEF Body
          <6>3. QED  BY <6>1, <6>2
        <5>3. QED  BY <5>1, <5>2, <4>1, <3>1, <2>1
      <4>2. CASE withheld = {}
        <5>1. 1..drained \subseteq P
          BY <4>2 DEF DrainedInv, P
        <5>2. 1..m \subseteq P /\ k \in 1..m
          BY <5>1, <1>1, <1>2, <3>2
        <5>3. Answer = P
          BY <5>2, <3>2, LedByText DEF P
        <5>4. QED  BY <5>3, <4>2, <3>1, <2>1, <1>2
      <4>3. QED  BY <4>1, <4>2
    <3>5. k \in (Outside(text) \intersect 1..drained)' /\ text'[k] \notin White
      BY <3>2, <3>3, <1>3, <1>4
    <3>6. gap' = {} /\ visible' = (Answer \intersect 1..drained)'
      BY <3>1, <3>4, <1>3, <1>4
    <3>7. begun' /\ trim'
      <4>1. begun' = TRUE /\ trim' = trim
        BY <3>1, <1>4
      <4>2. QED  BY <4>1, <1>6
    <3>8. QED  BY <3>5, <3>6, <3>7, Zenon DEF VisibleSoFar
  <2>4. QED  BY <2>2, <2>3
<1>7. QED  BY <1>5, <1>6, Zenon

\* Nor is anything shown of a span.
LEMMA ShowsNothing ==
  ASSUME ThinkTypeOK, VisibleSoFar, NEW e \in drained..Len(text),
         Outside(text) \intersect (drained + 1..e) = {},
         drained' = e, UNCHANGED <<text, trim, showVars>>
  PROVE  VisibleSoFar'
<1> DEFINE P == Outside(text)
<1>1. Len(text) \in Nat /\ drained \in Nat /\ e \in Nat /\ drained <= e
  BY FilterSizes
<1>2. P \intersect 1..e = P \intersect 1..drained
  <2> HIDE DEF P
  <2>1. P \intersect (drained + 1..e) = {}
    BY DEF P
  <2>2. QED  BY <1>1, <2>1, PartStays
<1>3. Outside(text)' = P /\ Answer' = Answer /\ Answer \subseteq P
  BY AnswerStays, AnswerIsOutside
<1>4. Answer \intersect 1..e = Answer \intersect 1..drained
  <2>1. Answer \intersect (drained + 1..e) = {}
    BY <1>3
  <2>2. QED  BY <1>1, <2>1, PartStays
<1>5. /\ (Outside(text) \intersect 1..drained)' = P \intersect 1..drained
      /\ (Answer \intersect 1..drained)' = Answer \intersect 1..drained
  BY <1>2, <1>3, <1>4
<1>6. text' = text /\ trim' = trim /\ begun' = begun /\ gap' = gap /\ visible' = visible
  BY DEF showVars
<1> HIDE DEF P
<1>7. CASE ~trim
  <2>1. ~begun /\ gap = {} /\ visible = P \intersect 1..drained
    BY <1>7, Zenon DEF VisibleSoFar, P
  <2>2. ~trim' /\ ~begun'
    BY <1>6, <1>7, <2>1
  <2>3. gap' = {} /\ visible' = (Outside(text) \intersect 1..drained)'
    BY <1>5, <1>6, <2>1
  <2>4. QED  BY <2>2, <2>3, Zenon DEF VisibleSoFar
<1>8. CASE trim /\ begun
  <2>1. /\ gap = {} /\ visible = Answer \intersect 1..drained
        /\ \E j \in P \intersect 1..drained : text[j] \notin White
    BY <1>8, Zenon DEF VisibleSoFar, P
  <2>2. trim' /\ begun'
    BY <1>6, <1>8
  <2>3. gap' = {} /\ visible' = (Answer \intersect 1..drained)'
    BY <1>5, <1>6, <2>1
  <2>4. \E j \in (Outside(text) \intersect 1..drained)' : text'[j] \notin White
    BY <1>5, <1>6, <2>1
  <2>5. QED  BY <2>2, <2>3, <2>4, Zenon DEF VisibleSoFar
<1>9. CASE trim /\ ~begun
  <2>1. /\ \A j \in P \intersect 1..drained : text[j] \in White
        /\ visible = {} /\ gap = P \intersect 1..drained
    BY <1>9, Zenon DEF VisibleSoFar, P
  <2>2. trim' /\ ~begun'
    BY <1>6, <1>9
  <2>3. visible' = {} /\ gap' = (Outside(text) \intersect 1..drained)'
    BY <1>5, <1>6, <2>1
  <2>4. \A j \in (Outside(text) \intersect 1..drained)' : text'[j] \in White
    BY <1>5, <1>6, <2>1
  <2>5. QED  BY <2>2, <2>3, <2>4, Zenon DEF VisibleSoFar
<1>10. QED  BY <1>7, <1>8, <1>9, Zenon

\* What is drained joins what of the text the filter is in.
LEMMA DrainsWhole ==
  ASSUME ThinkTypeOK, DrainedInv,
         NEW m \in drained..Len(text), NEW e \in m..Len(text),
         inside => /\ drained + 1..m \subseteq Within(text)
                   /\ Outside(text) \intersect (drained + 1..m) = {}
                   /\ thought' = thought \union (drained + 1..m)
                   /\ withheld' = withheld \union (drained + 1..m) \union (m + 1..e),
         ~inside => /\ drained + 1..m \subseteq Outside(text)
                    /\ Within(text) \intersect (drained + 1..m) = {}
                    /\ thought' = thought
                    /\ withheld' = withheld \union (m + 1..e),
         \A i \in m + 1..e : i \notin Outside(text) /\ i \notin Within(text),
         drained' = e, UNCHANGED text
  PROVE  /\ thought' = (Within(text) \intersect 1..drained)'
         /\ withheld' = ((1..drained) \ Outside(text))'
<1> DEFINE P == Outside(text)
           Q == Within(text)
<1>1. Len(text) \in Nat /\ drained \in Nat /\ m \in Nat /\ e \in Nat /\ drained <= m /\ m <= e
  BY FilterSizes
<1>2. thought = Q \intersect 1..drained /\ withheld = (1..drained) \ P
  BY DEF DrainedInv
<1>3. /\ (Within(text) \intersect 1..drained)' = Q \intersect 1..e
      /\ ((1..drained) \ Outside(text))' = (1..e) \ P
  OBVIOUS
<1>4. P \intersect (m + 1..e) = {} /\ Q \intersect (m + 1..e) = {}
  OBVIOUS
<1>5. inside => /\ drained + 1..m \subseteq Q /\ P \intersect (drained + 1..m) = {}
                /\ thought' = thought \union (drained + 1..m)
                /\ withheld' = withheld \union (drained + 1..m) \union (m + 1..e)
  OBVIOUS
<1>6. ~inside => /\ drained + 1..m \subseteq P /\ Q \intersect (drained + 1..m) = {}
                 /\ thought' = thought
                 /\ withheld' = withheld \union (m + 1..e)
  OBVIOUS
<1> HIDE DEF P, Q
<1>7. 1..e = (1..drained) \union (drained + 1..m) \union (m + 1..e)
  BY <1>1
<1>8. CASE inside
  <2>1. thought' = Q \intersect 1..e
    BY <1>2, <1>4, <1>5, <1>7, <1>8
  <2>2. withheld' = (1..e) \ P
    BY <1>2, <1>4, <1>5, <1>7, <1>8
  <2>3. QED  BY <2>1, <2>2, <1>3
<1>9. CASE ~inside
  <2>1. thought' = Q \intersect 1..e
    BY <1>2, <1>4, <1>6, <1>7, <1>9
  <2>2. withheld' = (1..e) \ P
    <3>1. (1..e) \ P = ((1..drained) \ P) \union ((m + 1..e) \ P)
      BY <1>6, <1>7, <1>9
    <3>2. QED  BY <3>1, <1>2, <1>4, <1>6, <1>9
  <2>3. QED  BY <2>1, <2>2, <1>3
<1>10. QED  BY <1>8, <1>9, Zenon

\* Show moves places between the gap and the visible part, and adds no others.
LEMMA ShowBounds ==
  ASSUME ThinkTypeOK, NEW places, Show(places)
  PROVE  /\ begun' \in BOOLEAN
         /\ gap' \union visible' \subseteq gap \union visible \union places
<1>1. CASE /\ ~trim \/ begun
           /\ visible' = visible \union places
           /\ UNCHANGED <<begun, gap>>
  <2>1. begun' = begun
    BY <1>1
  <2>2. begun' \in BOOLEAN
    BY <2>1, FilterFlags
  <2>3. QED  BY <1>1, <2>2
<1>2. CASE /\ trim /\ ~begun /\ Body(places) = {}
           /\ gap' = gap \union places
           /\ UNCHANGED <<begun, visible>>
  <2>1. begun' = begun
    BY <1>2
  <2>2. begun' \in BOOLEAN
    BY <2>1, FilterFlags
  <2>3. QED  BY <1>2, <2>2
<1>3. CASE /\ trim /\ ~begun /\ Body(places) # {}
           /\ begun' = TRUE /\ gap' = {}
           /\ visible' = visible \union IF withheld # {} THEN Body(places) ELSE gap \union places
  <2>1. Body(places) \subseteq places
    BY DEF Body
  <2>2. QED  BY <1>3, <2>1
<1>4. QED  BY <1>1, <1>2, <1>3, Zenon DEF Show

LEMMA FilterTypeStep ==
  ASSUME ThinkTypeOK, UNCHANGED <<text, trim>>,
         arrived' \in 0..Len(text), drained' \in drained..arrived',
         turning' \in BOOLEAN, inside' \in BOOLEAN, begun' \in BOOLEAN, finished' \in BOOLEAN,
         gap' \union visible' \union thought' \union withheld' \subseteq 1..drained'
  PROVE  ThinkTypeOK'
<1>1. text' = text /\ trim' = trim
  OBVIOUS
<1>2. text' \in Texts /\ arrived' \in 0..Len(text')
  BY <1>1 DEF ThinkTypeOK
<1>3. drained' \in 0..arrived'
  BY FilterSizes
<1>4. trim' \in BOOLEAN
  BY <1>1, FilterFlags
<1>5. {turning', inside', trim', begun', finished'} \subseteq BOOLEAN
  BY <1>4
<1>6. QED  BY <1>2, <1>3, <1>5, Zenon DEF ThinkTypeOK

LEMMA FilterMeansMore ==
  ASSUME FilterInv
  PROVE  /\ ThinkTypeOK /\ SteadyInv /\ DrainedInv /\ VisibleInv
         /\ ~finished => VisibleSoFar
         /\ turning => ~finished
<1>1. ThinkTypeOK /\ SteadyInv /\ DrainedInv /\ VisibleInv
  BY DEF FilterInv
<1>2. ~finished => VisibleSoFar
  BY <1>1, Zenon DEF VisibleInv
<1>3. turning => ~finished
  BY <1>1, Zenon DEF DrainedInv
<1>4. QED  BY <1>1, <1>2, <1>3

\* A delta puts more behind what is pending.
LEMMA PushKeeps ==
  ASSUME FilterInv, NEW n \in 1..Len(text), Push(n)
  PROVE  FilterInv'
<1>1. /\ ThinkTypeOK /\ SteadyInv /\ DrainedInv /\ VisibleInv
      /\ ~finished => VisibleSoFar
  BY FilterMeansMore
<1>2. /\ Len(text) \in Nat /\ arrived \in 0..Len(text) /\ drained \in 0..arrived
  BY <1>1, FilterSizes
<1>3. /\ ~turning /\ ~finished /\ arrived + n <= Len(text)
      /\ arrived' = arrived + n /\ turning' = TRUE
      /\ text' = text /\ drained' = drained /\ trim' = trim /\ finished' = finished
      /\ UNCHANGED spanVars /\ UNCHANGED showVars
  BY DEF Push
<1>4. /\ inside' = inside /\ thought' = thought /\ withheld' = withheld
      /\ begun' = begun /\ gap' = gap /\ visible' = visible
  BY <1>3 DEF spanVars, showVars
<1>5. ThinkTypeOK'
  <2>1. arrived' \in 0..Len(text) /\ drained' \in drained..arrived'
    BY <1>2, <1>3
  <2>2. gap' \union visible' \union thought' \union withheld' \subseteq 1..drained'
    BY <1>1, <1>3, <1>4 DEF ThinkTypeOK
  <2>3. turning' \in BOOLEAN /\ inside' \in BOOLEAN /\ begun' \in BOOLEAN /\ finished' \in BOOLEAN
    <3>1. inside \in BOOLEAN /\ begun \in BOOLEAN
      BY <1>1, FilterFlags
    <3>2. finished' \in BOOLEAN
      BY <1>1, <1>3, Zenon DEF ThinkTypeOK
    <3>3. QED  BY <3>1, <3>2, <1>3, <1>4
  <2>4. QED  BY <2>1, <2>2, <2>3, <1>1, <1>3, FilterTypeStep
<1>6. Tag' = Tag
  BY <1>4 DEF Tag
<1>7. SteadyInv'
  BY <1>1, <1>3, <1>4, <1>6 DEF SteadyInv
<1>8. DrainedInv'
  <2>1. /\ thought' = (Within(text) \intersect 1..drained)'
        /\ withheld' = ((1..drained) \ Outside(text))'
    BY <1>1, <1>3, <1>4 DEF DrainedInv
  <2>2. inside' => withheld' # {}
    BY <1>1, <1>4 DEF DrainedInv
  <2>3. ~finished'
    BY <1>3
  <2>4. QED  BY <2>1, <2>2, <2>3, Zenon DEF DrainedInv
<1>9. VisibleInv'
  <2>1. Outside(text) \intersect (drained + 1..drained) = {} /\ drained \in drained..Len(text)
    BY <1>2
  <2>2. VisibleSoFar'
    BY <2>1, <1>1, <1>3, ShowsNothing
  <2>3. ~finished'
    BY <1>3
  <2>4. QED  BY <2>2, <2>3, Zenon DEF VisibleInv
<1>10. QED  BY <1>5, <1>7, <1>8, <1>9 DEF FilterInv

\* The next tag is where the scan turns.
LEMMA PassTagKeeps ==
  ASSUME FilterInv, PassTag
  PROVE  FilterInv'
<1>1. /\ ThinkTypeOK /\ SteadyInv /\ DrainedInv /\ VisibleInv
      /\ ~finished => VisibleSoFar
      /\ turning => ~finished
  BY FilterMeansMore
<1>2. /\ Len(text) \in Nat /\ arrived \in 0..Len(text) /\ drained \in 0..arrived
      /\ drained \in 0..Len(text) /\ Len(Tag) \in Nat /\ Len(Tag) > 0
  BY <1>1, FilterSizes
<1>3. PICK at \in Found :
        /\ \A i \in Found : at <= i
        /\ drained' = at + Len(Tag)
        /\ IF inside
           THEN Think(drained + 1..at, at + 1..at + Len(Tag)) /\ UNCHANGED showVars
           ELSE /\ Show(drained + 1..at)
                /\ withheld' = withheld \union (at + 1..at + Len(Tag))
                /\ UNCHANGED thought
  BY DEF PassTag
<1>4. /\ turning /\ ~finished /\ inside' = ~inside
      /\ text' = text /\ arrived' = arrived /\ turning' = turning /\ trim' = trim
      /\ finished' = finished
  BY <1>1, Zenon DEF PassTag
<1> DEFINE e == at + Len(Tag)
<1>5. /\ at \in drained..Len(text) /\ e \in at..Len(text) /\ e <= arrived /\ at < e
      /\ TagAt(text, Tag, at)
  BY <1>2, <1>3 DEF Found
<1>6. \A i \in drained..at - 1 : ~TagAt(text, Tag, i)
  <2>1. SUFFICES ASSUME NEW i \in drained..at - 1, TagAt(text, Tag, i) PROVE FALSE
    OBVIOUS
  <2>2. i \in Found /\ ~(at <= i)
    BY <1>2, <1>5, <2>1 DEF Found
  <2>3. QED  BY <2>2, <1>3
<1>7. /\ inside => /\ drained + 1..at \subseteq Within(text)
                   /\ Outside(text) \intersect (drained + 1..at) = {}
      /\ ~inside => /\ drained + 1..at \subseteq Outside(text)
                    /\ Within(text) \intersect (drained + 1..at) = {}
  BY <1>1, <1>5, <1>6, Drains
<1>8. /\ ScanOf(text)[e] = [inside |-> ~inside, since |-> e]
      /\ \A i \in at + 1..e : i \notin Outside(text) /\ i \notin Within(text)
  BY <1>1, <1>5, <1>6, DrainsTag
<1>9. /\ inside => /\ thought' = thought \union (drained + 1..at)
                   /\ withheld' = withheld \union (drained + 1..at) \union (at + 1..e)
                   /\ UNCHANGED showVars
      /\ ~inside => /\ Show(drained + 1..at)
                    /\ thought' = thought
                    /\ withheld' = withheld \union (at + 1..e)
  BY <1>3, Zenon DEF Think
<1>10. drained' = e
  BY <1>3
<1> HIDE DEF e
<1>11. /\ thought' = (Within(text) \intersect 1..drained)'
       /\ withheld' = ((1..drained) \ Outside(text))'
  BY <1>1, <1>4, <1>5, <1>7, <1>8, <1>9, <1>10, DrainsWhole
<1>12. DrainedInv'
  <2>1. withheld' # {}
    <3>1. e \in at + 1..e
      BY <1>2, <1>5
    <3>2. e \in withheld'
      BY <1>9, <3>1
    <3>3. QED  BY <3>2
  <2>2. ~finished'
    BY <1>4
  <2>3. QED  BY <1>11, <2>1, <2>2, Zenon DEF DrainedInv
<1>13. VisibleInv'
  <2>1. CASE inside
    <3>1. Outside(text) \intersect (drained + 1..e) = {} /\ e \in drained..Len(text)
      <4>1. drained + 1..e = (drained + 1..at) \union (at + 1..e)
        BY <1>2, <1>5
      <4>2. Outside(text) \intersect (drained + 1..at) = {}
        BY <1>7, <2>1
      <4>3. Outside(text) \intersect (at + 1..e) = {}
        BY <1>8
      <4>4. QED  BY <4>1, <4>2, <4>3, <1>2, <1>5
    <3>2. QED  BY <3>1, <2>1, <1>1, <1>4, <1>9, <1>10, ShowsNothing DEF VisibleInv
  <2>2. CASE ~inside
    <3>1. Outside(text) \intersect (at + 1..e) = {}
      BY <1>8
    <3>2. VisibleSoFar'
      BY <3>1, <2>2, <1>1, <1>4, <1>5, <1>7, <1>9, <1>10, ShowsText
    <3>3. ~finished'
      BY <1>4
    <3>4. QED  BY <3>2, <3>3, Zenon DEF VisibleInv
  <2>3. QED  BY <2>1, <2>2
<1>14. SteadyInv'
  <2>1. /\ ScanOf(text')[drained'].inside = inside'
        /\ ScanOf(text')[drained'].since = drained'
    BY <1>4, <1>8, <1>10
  <2>2. \A i \in drained'..drained' - 1 : FALSE
    BY <1>2, <1>5, <1>10
  <2>3. turning'
    BY <1>4
  <2>4. QED  BY <2>1, <2>2, <2>3 DEF SteadyInv
<1>15. ThinkTypeOK'
  <2>1. /\ begun' \in BOOLEAN
        /\ gap' \union visible' \subseteq gap \union visible \union (drained + 1..at)
    <3>1. CASE inside
      <4>1. begun' = begun /\ gap' = gap /\ visible' = visible
        BY <1>9, <3>1 DEF showVars
      <4>2. begun' \in BOOLEAN
        BY <4>1, <1>1, FilterFlags
      <4>3. QED  BY <4>1, <4>2
    <3>2. CASE ~inside
      BY <3>2, <1>1, <1>9, ShowBounds
    <3>3. QED  BY <3>1, <3>2
  <2>2. gap' \union visible' \union thought' \union withheld' \subseteq 1..drained'
    <3>1. thought' \subseteq 1..drained' /\ withheld' \subseteq 1..drained'
      BY <1>11
    <3>2. gap \union visible \subseteq 1..drained
      BY <1>1 DEF ThinkTypeOK
    <3>3. 1..drained \subseteq 1..drained' /\ drained + 1..at \subseteq 1..drained'
      BY <1>2, <1>5, <1>10
    <3>4. QED  BY <3>1, <3>2, <3>3, <2>1
  <2>3. arrived' \in 0..Len(text) /\ drained' \in drained..arrived'
    BY <1>2, <1>4, <1>5, <1>10
  <2>4. turning' \in BOOLEAN /\ inside' \in BOOLEAN /\ finished' \in BOOLEAN
    BY <1>1, <1>4, Zenon DEF ThinkTypeOK
  <2>5. QED  BY <2>1, <2>2, <2>3, <2>4, <1>1, <1>4, FilterTypeStep
<1>16. QED  BY <1>12, <1>13, <1>14, <1>15 DEF FilterInv

\* Where no tag begins in what arrived, none does in less of it.
LEMMA NoneFound ==
  ASSUME ThinkTypeOK, SteadyInv, Found = {}, NEW m \in drained..arrived,
         \A i \in drained..m - 1 : ~TagAt(text, Tag, i),
         drained' = m, UNCHANGED <<text, arrived, inside>>
  PROVE  SteadyInv'
<1>1. /\ Len(text) \in Nat /\ arrived \in 0..Len(text) /\ drained \in 0..arrived
      /\ Len(Tag) \in Nat
  BY FilterSizes
<1>2. m \in drained..Len(text)
  BY <1>1
<1>3. /\ ScanOf(text)[m] = ScanOf(text)[drained]
      /\ \A i \in ScanOf(text)[drained].since..m - 1 : ~TagAt(text, Tag, i)
  BY <1>2, Drains
<1>4. Tag' = Tag /\ text' = text /\ inside' = inside /\ arrived' = arrived
  BY DEF Tag
<1>5. Found' = {}
  <2>1. SUFFICES ASSUME NEW i \in Found' PROVE FALSE
    OBVIOUS
  <2>2. i \in m..arrived - Len(Tag) /\ TagAt(text, Tag, i)
    BY <2>1, <1>4 DEF Found
  <2>3. i \in Found
    BY <1>1, <2>2 DEF Found
  <2>4. QED  BY <2>3
<1>6. ScanOf(text)[drained].inside = inside
  BY DEF SteadyInv
<1>7. /\ ScanOf(text')[drained'] = ScanOf(text)[drained]
      /\ \A i \in ScanOf(text')[drained'].since..drained' - 1 : ~TagAt(text', Tag', i)
  BY <1>3, <1>4
<1>8. ScanOf(text')[drained'].inside = inside'
  BY <1>4, <1>6, <1>7
<1>9. QED  BY <1>5, <1>7, <1>8 DEF SteadyInv

\* What goes out is no tag, and what stays may yet become one.
LEMMA PassRestKeeps ==
  ASSUME FilterInv, PassRest
  PROVE  FilterInv'
<1>1. /\ ThinkTypeOK /\ SteadyInv /\ DrainedInv /\ VisibleInv
      /\ ~finished => VisibleSoFar
      /\ turning => ~finished
  BY FilterMeansMore
<1>2. /\ Len(text) \in Nat /\ arrived \in 0..Len(text) /\ drained \in 0..arrived
      /\ drained \in 0..Len(text)
  BY <1>1, FilterSizes
<1>3. PICK keep \in Dangling :
        /\ \A n \in Dangling : n <= keep
        /\ drained' = arrived - keep
        /\ IF inside THEN Think(drained + 1..arrived - keep, {}) /\ UNCHANGED showVars
                     ELSE Show(drained + 1..arrived - keep) /\ UNCHANGED <<thought, withheld>>
  BY DEF PassRest
<1>4. /\ Found = {} /\ ~finished /\ turning' = FALSE
      /\ text' = text /\ arrived' = arrived /\ trim' = trim /\ inside' = inside
      /\ finished' = finished
  BY <1>1, Zenon DEF PassRest
<1> DEFINE m == arrived - keep
<1>5. /\ m \in drained..arrived
      /\ \A i \in drained..m - 1 : ~TagAt(text, Tag, i)
  BY <1>1, <1>3, <1>4, NothingIsCut
<1>6. m \in drained..Len(text)
  <2> HIDE DEF m
  <2>1. QED  BY <1>2, <1>5
<1>7. drained' = m
  BY <1>3
<1>8. /\ inside => /\ thought' = thought \union (drained + 1..m)
                   /\ withheld' = withheld \union (drained + 1..m) \union {}
                   /\ UNCHANGED showVars
      /\ ~inside => /\ Show(drained + 1..m)
                    /\ thought' = thought /\ withheld' = withheld
  BY <1>3, Zenon DEF Think
<1> HIDE DEF m
<1>9. /\ inside => /\ drained + 1..m \subseteq Within(text)
                   /\ Outside(text) \intersect (drained + 1..m) = {}
      /\ ~inside => /\ drained + 1..m \subseteq Outside(text)
                    /\ Within(text) \intersect (drained + 1..m) = {}
  BY <1>1, <1>5, <1>6, Drains
<1>10. m + 1..m = {} /\ m \in m..Len(text)
  BY <1>2, <1>6
<1>11. /\ thought' = (Within(text) \intersect 1..drained)'
       /\ withheld' = ((1..drained) \ Outside(text))'
  BY <1>1, <1>4, <1>6, <1>7, <1>8, <1>9, <1>10, DrainsWhole
<1>12. DrainedInv'
  <2>1. inside' => withheld' # {}
    <3>1. inside => withheld # {}
      BY <1>1 DEF DrainedInv
    <3>2. withheld \subseteq withheld'
      BY <1>8
    <3>3. QED  BY <3>1, <3>2, <1>4
  <2>2. ~finished'
    BY <1>4
  <2>3. QED  BY <1>11, <2>1, <2>2, Zenon DEF DrainedInv
<1>13. VisibleInv'
  <2>1. VisibleSoFar'
    <3>1. CASE inside
      BY <3>1, <1>1, <1>4, <1>6, <1>7, <1>8, <1>9, ShowsNothing
    <3>2. CASE ~inside
      <4>1. Outside(text) \intersect (m + 1..m) = {}
        BY <1>10
      <4>2. QED  BY <4>1, <3>2, <1>1, <1>4, <1>6, <1>7, <1>8, <1>9, <1>10, ShowsText
    <3>3. QED  BY <3>1, <3>2
  <2>2. ~finished'
    BY <1>4
  <2>3. QED  BY <2>1, <2>2, Zenon DEF VisibleInv
<1>14. SteadyInv'
  BY <1>1, <1>4, <1>5, <1>7, NoneFound
<1>15. ThinkTypeOK'
  <2>1. /\ begun' \in BOOLEAN
        /\ gap' \union visible' \subseteq gap \union visible \union (drained + 1..m)
    <3>1. CASE inside
      <4>1. begun' = begun /\ gap' = gap /\ visible' = visible
        BY <1>8, <3>1 DEF showVars
      <4>2. begun' \in BOOLEAN
        BY <4>1, <1>1, FilterFlags
      <4>3. QED  BY <4>1, <4>2
    <3>2. CASE ~inside
      BY <3>2, <1>1, <1>8, ShowBounds
    <3>3. QED  BY <3>1, <3>2
  <2>2. gap' \union visible' \union thought' \union withheld' \subseteq 1..drained'
    <3>1. thought' \subseteq 1..drained' /\ withheld' \subseteq 1..drained'
      BY <1>11
    <3>2. gap \union visible \subseteq 1..drained
      BY <1>1 DEF ThinkTypeOK
    <3>3. 1..drained \subseteq 1..drained' /\ drained + 1..m \subseteq 1..drained'
      BY <1>2, <1>6, <1>7
    <3>4. QED  BY <3>1, <3>2, <3>3, <2>1
  <2>3. arrived' \in 0..Len(text) /\ drained' \in drained..arrived'
    BY <1>2, <1>4, <1>5, <1>7
  <2>4. turning' \in BOOLEAN /\ inside' \in BOOLEAN /\ finished' \in BOOLEAN
    <3>1. inside' \in BOOLEAN /\ finished' \in BOOLEAN
      BY <1>1, <1>4, Zenon DEF ThinkTypeOK
    <3>2. QED  BY <3>1, <1>4
  <2>5. QED  BY <2>1, <2>2, <2>3, <2>4, <1>1, <1>4, FilterTypeStep
<1>16. QED  BY <1>12, <1>13, <1>14, <1>15 DEF FilterInv

\* A text that ended while nothing but white space was outside a span.
LEMMA NothingButWhite ==
  ASSUME ThinkTypeOK, trim, withheld = (1..drained) \ Outside(text), withheld # {},
         \A j \in Outside(text) : text[j] \in White
  PROVE  Answer = {}
<1>1. Answer = Body(Outside(text))
  BY LedBySpan
<1>2. Body(Outside(text)) = {}
  BY DEF Body
<1>3. QED  BY <1>1, <1>2

\* At the end what was shown is the answer.
LEMMA ShownAtTheEnd ==
  ASSUME ThinkTypeOK, DrainedInv, VisibleSoFar', drained' = Len(text), UNCHANGED <<text, trim>>,
         trim /\ ~begun' => withheld # {}
  PROVE  visible' = Answer'
<1> DEFINE P == Outside(text)
<1>1. P \intersect 1..Len(text) = P /\ Answer \intersect 1..Len(text) = Answer
  BY PartPlaces, AnswerIsOutside
<1>2. Answer' = Answer
  BY AnswerStays
<1>3. /\ (Outside(text) \intersect 1..drained)' = P
      /\ (Answer \intersect 1..drained)' = Answer
      /\ text' = text /\ trim' = trim
  BY <1>1, <1>2
<1>4. CASE ~trim
  <2>1. ~trim'
    BY <1>3, <1>4
  <2>2. visible' = (Outside(text) \intersect 1..drained)'
    BY <2>1, Zenon DEF VisibleSoFar
  <2>3. Answer = P
    BY <1>4 DEF Answer
  <2>4. QED  BY <1>2, <1>3, <2>2, <2>3
<1>5. CASE trim /\ begun'
  <2>1. trim' /\ begun'
    BY <1>3, <1>5
  <2>2. visible' = (Answer \intersect 1..drained)'
    BY <2>1, Zenon DEF VisibleSoFar
  <2>3. QED  BY <1>2, <1>3, <2>2
<1>6. CASE trim /\ ~begun'
  <2>1. trim' /\ ~begun'
    BY <1>3, <1>6
  <2>2. /\ visible' = {}
        /\ \A j \in (Outside(text) \intersect 1..drained)' : text'[j] \in White
    BY <2>1, Zenon DEF VisibleSoFar
  <2>3. \A j \in P : text[j] \in White
    BY <1>3, <2>2
  <2>4. withheld # {} /\ withheld = (1..drained) \ Outside(text)
    BY <1>6 DEF DrainedInv
  <2>5. Answer = {}
    BY <2>3, <2>4, <1>6, NothingButWhite
  <2>6. QED  BY <1>2, <2>2, <2>5
<1>7. QED  BY <1>4, <1>5, <1>6

\* The end of the text: what is still pending is no tag.
LEMMA FinishKeeps ==
  ASSUME FilterInv, Finish
  PROVE  FilterInv'
<1>1. /\ ThinkTypeOK /\ SteadyInv /\ DrainedInv /\ VisibleInv
      /\ ~finished => VisibleSoFar
  BY FilterMeansMore
<1>2. /\ Len(text) \in Nat /\ drained \in 0..Len(text)
      /\ Len(Tag) \in Nat /\ Len(Tag) > 0
  BY <1>1, FilterSizes
<1> DEFINE m == arrived
<1>3. /\ ~turning /\ ~finished /\ arrived = Len(text) /\ finished' = TRUE
      /\ drained' = arrived
      /\ text' = text /\ arrived' = arrived /\ turning' = turning /\ trim' = trim
      /\ inside' = inside
  BY Zenon DEF Finish
<1>4. m \in drained..Len(text) /\ m \in drained..arrived /\ drained' = m
  BY <1>2, <1>3
<1>5. Found = {}
  BY <1>1, <1>3 DEF SteadyInv
<1>6. \A i \in drained..m - 1 : ~TagAt(text, Tag, i)
  <2>1. SUFFICES ASSUME NEW i \in drained..m - 1, TagAt(text, Tag, i) PROVE FALSE
    OBVIOUS
  <2>2. i \in drained..arrived - Len(Tag)
    BY <1>2, <1>3, <2>1 DEF TagAt
  <2>3. i \in Found
    BY <2>1, <2>2 DEF Found
  <2>4. QED  BY <2>3, <1>5
<1> DEFINE tail == drained + 1..m
<1>7. /\ inside => /\ tail \subseteq Within(text) /\ Outside(text) \intersect tail = {}
      /\ ~inside => /\ tail \subseteq Outside(text) /\ Within(text) \intersect tail = {}
  BY <1>1, <1>4, <1>6, Drains
<1>8. /\ inside => /\ thought' = thought \union tail
                   /\ withheld' = withheld \union tail \union {}
                   /\ UNCHANGED showVars
      /\ ~inside => /\ thought' = thought /\ withheld' = withheld
                    /\ IF trim /\ ~begun /\ withheld = {}
                       THEN /\ visible' = visible \union gap \union tail
                            /\ gap' = {} /\ begun' = (Body(tail) # {})
                       ELSE Show(tail)
  BY Zenon DEF Finish, Think
<1>9. m + 1..m = {} /\ m \in m..Len(text)
  BY <1>2, <1>4
<1>10. /\ thought' = (Within(text) \intersect 1..drained)'
       /\ withheld' = ((1..drained) \ Outside(text))'
  BY <1>1, <1>3, <1>4, <1>7, <1>8, <1>9, DrainsWhole
<1> HIDE DEF m, tail
<1>11. DrainedInv'
  <2>1. inside' => withheld' # {}
    <3>1. inside => withheld # {}
      BY <1>1 DEF DrainedInv
    <3>2. withheld \subseteq withheld'
      BY <1>8
    <3>3. QED  BY <3>1, <3>2, <1>3
  <2>2. ~turning'
    BY <1>3
  <2>3. drained' = Len(text)'
    BY <1>3
  <2>4. QED  BY <1>10, <2>1, <2>2, <2>3, Zenon DEF DrainedInv
<1>12. visible' = Answer'
  <2>1. CASE inside
    <3>1. VisibleSoFar'
      BY <2>1, <1>1, <1>3, <1>4, <1>7, <1>8, ShowsNothing DEF tail
    <3>2. withheld # {}
      BY <2>1, <1>1 DEF DrainedInv
    <3>3. QED  BY <3>1, <3>2, <1>1, <1>3, ShownAtTheEnd
  <2>2. CASE ~inside /\ ~(trim /\ ~begun /\ withheld = {})
    <3>1. Show(tail)
      BY <2>2, <1>8
    <3>2. VisibleSoFar'
      <4>1. Outside(text) \intersect (m + 1..m) = {}
        BY <1>9
      <4>2. tail \subseteq Outside(text)
        BY <1>7, <2>2
      <4>3. QED  BY <3>1, <4>1, <4>2, <1>1, <1>3, <1>4, <1>9, ShowsText DEF tail
    <3>3. trim /\ ~begun' => withheld # {}
      <4>1. begun => begun'
        BY <3>1 DEF Show
      <4>2. QED  BY <4>1, <2>2
    <3>4. QED  BY <3>2, <3>3, <1>1, <1>3, ShownAtTheEnd
  <2>3. CASE ~inside /\ trim /\ ~begun /\ withheld = {}
    <3>1. visible' = visible \union gap \union tail
      BY <2>3, <1>8
    <3>2. visible = {} /\ gap = Outside(text) \intersect 1..drained
      BY <2>3, <1>1, <1>3, Zenon DEF VisibleSoFar
    <3>3. 1..drained \subseteq Outside(text)
      BY <2>3, <1>1 DEF DrainedInv
    <3>4. 1..Len(text) = (1..drained) \union tail
      BY <1>2, <1>3 DEF tail, m
    <3>5. Outside(text) = 1..Len(text)
      BY <3>3, <3>4, <1>7, <2>3, PartPlaces
    <3>6. visible' = Outside(text)
      BY <3>1, <3>2, <3>3, <3>4, <3>5
    <3>7. Answer = Outside(text)
      BY <3>5 DEF Answer, OpensWithSpan
    <3>8. QED  BY <3>6, <3>7, <1>3, AnswerStays
  <2>4. QED  BY <2>1, <2>2, <2>3
<1>13. VisibleInv'
  BY <1>3, <1>12, Zenon DEF VisibleInv
<1>14. SteadyInv'
  BY <1>1, <1>3, <1>4, <1>5, <1>6, NoneFound
<1>15. ThinkTypeOK'
  <2>1. /\ begun' \in BOOLEAN
        /\ gap' \union visible' \subseteq gap \union visible \union tail
    <3>1. CASE inside
      <4>1. begun' = begun /\ gap' = gap /\ visible' = visible
        BY <1>8, <3>1 DEF showVars
      <4>2. begun' \in BOOLEAN
        BY <4>1, <1>1, FilterFlags
      <4>3. QED  BY <4>1, <4>2
    <3>2. CASE ~inside /\ ~(trim /\ ~begun /\ withheld = {})
      BY <3>2, <1>1, <1>8, ShowBounds
    <3>3. CASE ~inside /\ trim /\ ~begun /\ withheld = {}
      <4>1. /\ visible' = visible \union gap \union tail
            /\ gap' = {} /\ begun' = (Body(tail) # {})
        BY <3>3, <1>8
      <4>2. QED  BY <4>1
    <3>4. QED  BY <3>1, <3>2, <3>3
  <2>2. gap' \union visible' \union thought' \union withheld' \subseteq 1..drained'
    <3>1. thought' \subseteq 1..drained' /\ withheld' \subseteq 1..drained'
      BY <1>10
    <3>2. gap \union visible \subseteq 1..drained
      BY <1>1 DEF ThinkTypeOK
    <3>3. 1..drained \subseteq 1..drained' /\ tail \subseteq 1..drained'
      BY <1>2, <1>4 DEF tail
    <3>4. QED  BY <3>1, <3>2, <3>3, <2>1
  <2>3. arrived' \in 0..Len(text) /\ drained' \in drained..arrived'
    BY <1>2, <1>3, <1>4
  <2>4. turning' \in BOOLEAN /\ inside' \in BOOLEAN /\ finished' \in BOOLEAN
    BY <1>1, <1>3, Zenon DEF ThinkTypeOK
  <2>5. QED  BY <2>1, <2>2, <2>3, <2>4, <1>1, <1>3, FilterTypeStep
<1>16. QED  BY <1>11, <1>13, <1>14, <1>15 DEF FilterInv

\* Before the first delta there is nothing to scan and nothing to show.
LEMMA FilterStarts == ThinkInit => FilterInv
<1> SUFFICES ASSUME ThinkInit PROVE FilterInv
  OBVIOUS
<1>1. /\ text \in Texts /\ arrived = 0 /\ drained = 0
      /\ gap = {} /\ visible = {} /\ thought = {} /\ withheld = {}
  BY DEF ThinkInit
<1>2. ~turning /\ ~inside /\ ~begun /\ ~finished
  BY Zenon DEF ThinkInit
<1>3. text \in Seq(Symbols) /\ Len(text) \in Nat
  BY <1>1, ThinkAssumption
<1>4. ThinkTypeOK
  <2>1. {turning, inside, trim, begun, finished} \subseteq BOOLEAN
    BY Zenon DEF ThinkInit
  <2>2. QED  BY <2>1, <1>1, <1>3 DEF ThinkTypeOK
<1>5. SteadyInv
  <2>1. ScanOf(text)[0] = Unscanned
    BY <1>3, ScanIs
  <2>2. ScanOf(text)[drained].inside = FALSE /\ ScanOf(text)[drained].since = 0
    BY <2>1, <1>1 DEF Unscanned
  <2>3. ScanOf(text)[drained].inside = inside
    BY <2>2, Zenon DEF ThinkInit
  <2>4. \A i \in ScanOf(text)[drained].since..drained - 1 : ~TagAt(text, Tag, i)
    BY <2>2, <1>1
  <2>5. Found = {}
    <3>1. Len(Tag) \in Nat /\ Len(Tag) > 0
      BY <1>4, FilterSizes
    <3>2. drained..arrived - Len(Tag) = {}
      BY <3>1, <1>1
    <3>3. QED  BY <3>2 DEF Found
  <2>6. QED  BY <2>3, <2>4, <2>5 DEF SteadyInv
<1>6. 1..drained = {}
  BY <1>1
<1>7. DrainedInv
  BY <1>1, <1>2, <1>6 DEF DrainedInv
<1>8. VisibleInv
  BY <1>1, <1>2, <1>6 DEF VisibleInv, VisibleSoFar
<1>9. QED  BY <1>4, <1>5, <1>7, <1>8 DEF FilterInv

LEMMA FilterRests ==
  ASSUME FilterInv, UNCHANGED thinkVars
  PROVE  FilterInv'
<1>1. /\ text' = text /\ arrived' = arrived /\ drained' = drained /\ turning' = turning
      /\ inside' = inside /\ trim' = trim /\ begun' = begun /\ gap' = gap
      /\ visible' = visible /\ thought' = thought /\ withheld' = withheld
      /\ finished' = finished
  BY DEF thinkVars, spanVars, showVars
<1>2. Tag' = Tag /\ Found' = Found /\ Answer' = Answer
  BY <1>1, AnswerStays DEF Tag, Found
<1>3. ThinkTypeOK'
  BY <1>1 DEF FilterInv, ThinkTypeOK
<1>4. SteadyInv'
  BY <1>1, <1>2 DEF FilterInv, SteadyInv
<1>5. DrainedInv'
  BY <1>1 DEF FilterInv, DrainedInv
<1>6. VisibleInv'
  BY <1>1, <1>2 DEF FilterInv, VisibleInv, VisibleSoFar
<1>7. QED  BY <1>3, <1>4, <1>5, <1>6 DEF FilterInv

\* The filter has drained what the scan of the whole text has passed, and put each
\* place where the whole text has it (think.rs, push_split).
THEOREM FilterInvariance == ThinkSpec => []FilterInv
<1>1. ASSUME FilterInv, [ThinkNext]_thinkVars
      PROVE  FilterInv'
  <2>1. CASE PassTag
    BY <1>1, <2>1, PassTagKeeps
  <2>2. CASE PassRest
    BY <1>1, <2>2, PassRestKeeps
  <2>3. CASE Finish
    BY <1>1, <2>3, FinishKeeps
  <2>4. CASE \E n \in 1..Len(text) : Push(n)
    <3>1. PICK n \in 1..Len(text) : Push(n)
      BY <2>4
    <3>2. QED  BY <1>1, <3>1, PushKeeps
  <2>5. CASE UNCHANGED thinkVars
    BY <1>1, <2>5, FilterRests
  <2>6. QED  BY <1>1, <2>1, <2>2, <2>3, <2>4, <2>5, Zenon DEF ThinkNext
<1>2. QED  BY <1>1, FilterStarts, PTL DEF ThinkSpec

\* The filter's variables have their types, and it lets out only what has arrived
\* and is no longer pending (think.rs, Filter).
THEOREM FilterTypeCorrect == ThinkSpec => []ThinkTypeOK
<1>1. FilterInv => ThinkTypeOK
  BY Zenon DEF FilterInv
<1>2. QED  BY <1>1, FilterInvariance, PTL

\* A beginning by place is one in Begins' sense.
LEMMA BeginsUpTo ==
  ASSUME NEW P, NEW d \in Nat, NEW s, s = P \intersect 1..d, P \subseteq Nat \ {0}
  PROVE  Begins(s, P)
BY DEF Begins

\* What is drained up to a place is a beginning of the whole.
LEMMA FilterShows == FilterInv => StreamedAsWhole
<1> SUFFICES ASSUME FilterInv PROVE StreamedAsWhole
  OBVIOUS
<1>1. /\ ThinkTypeOK /\ SteadyInv /\ DrainedInv /\ VisibleInv
      /\ ~finished => VisibleSoFar
  BY FilterMeansMore
<1>2. Len(text) \in Nat /\ drained \in Nat
  BY <1>1, FilterSizes
<1>3. /\ Outside(text) \subseteq Nat \ {0} /\ Within(text) \subseteq Nat \ {0}
      /\ Answer \subseteq Nat \ {0}
      /\ Outside(text) \subseteq 1..Len(text) /\ Within(text) \subseteq 1..Len(text)
  <2>1. 1..Len(text) \subseteq Nat \ {0}
    BY <1>2
  <2>2. QED  BY <2>1, PartPlaces, AnswerIsOutside
<1>4. Begins(thought, Within(text))
  BY <1>1, <1>2, <1>3, BeginsUpTo DEF DrainedInv
<1>5. Begins(visible, Answer)
  <2>1. CASE finished
    BY <2>1, <1>1 DEF VisibleInv, Begins
  <2>2. CASE ~finished
    <3>1. CASE ~trim
      <4>1. visible = Outside(text) \intersect 1..drained
        BY <1>1, <2>2, <3>1, Zenon DEF VisibleSoFar
      <4>2. Answer = Outside(text)
        BY <3>1 DEF Answer
      <4>3. QED  BY <4>1, <4>2, <1>2, <1>3, BeginsUpTo
    <3>2. CASE trim /\ begun
      <4>1. visible = Answer \intersect 1..drained
        BY <1>1, <2>2, <3>2, Zenon DEF VisibleSoFar
      <4>2. QED  BY <4>1, <1>2, <1>3, BeginsUpTo
    <3>3. CASE trim /\ ~begun
      <4>1. visible = {}
        BY <1>1, <2>2, <3>3, Zenon DEF VisibleSoFar
      <4>2. QED  BY <4>1 DEF Begins
    <3>4. QED  BY <3>1, <3>2, <3>3, Zenon
  <2>3. QED  BY <2>1, <2>2, Zenon
<1>6. ASSUME finished
      PROVE  /\ visible = Answer /\ thought = Within(text)
             /\ ~trim => withheld = (1..Len(text)) \ visible
  <2>1. visible = Answer /\ drained = Len(text)
    BY <1>1, <1>6 DEF VisibleInv, DrainedInv
  <2>2. thought = Within(text)
    BY <1>1, <1>3, <2>1 DEF DrainedInv
  <2>3. ~trim => withheld = (1..Len(text)) \ visible
    BY <1>1, <2>1 DEF DrainedInv, Answer
  <2>4. QED  BY <2>1, <2>2, <2>3
<1>7. QED  BY <1>4, <1>5, <1>6, Zenon DEF StreamedAsWhole

\* An answer streamed one token at a time and the same answer filtered whole come
\* out the same, for every text, every pair of tags and however the text is cut
\* (think.rs, push_split, show and finish_split).
THEOREM ShownAsWhole == ThinkSpec => []StreamedAsWhole
BY FilterInvariance, FilterShows, PTL
==============================================================================
