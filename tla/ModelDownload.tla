----------------------------- MODULE ModelDownload -----------------------------
(***************************************************************************)
(* Fetching the files of a model from the Hub (hub.rs): each is streamed   *)
(* into <file>.part, resumed there after a kill, verified and renamed.     *)
(* The revision is a branch ("main" for the whole catalog), so what a URL  *)
(* names can change between any two requests.                              *)
(*                                                                         *)
(* A body is a sequence of chunks, each known by the revision it is of.    *)
(* The sha256 a HEAD announces for an LFS file is that of one revision's   *)
(* body; or the HEAD is refused, or another host answers, and there is     *)
(* none.  One process fetches, one file at a time.  Left out: the list of  *)
(* files (fixed, or read from the shard index), redirects, progress, and   *)
(* a body whose length the server does not announce.                       *)
(***************************************************************************)
EXTENDS Integers, Sequences

CONSTANTS
    Files,        \* the files of the model
    Lfs,          \* those the Hub may announce a sha256 for
    Size,         \* chunks of each revision's body
    MaxRevision,  \* bound: times the branch moves, plus one
    MaxCuts,      \* bound: kills and errors
    Absent        \* no such file on disk, nothing announced

ASSUME DownloadAssumption ==
    /\ MaxRevision \in Nat \ {0} /\ MaxCuts \in Nat
    /\ Size \in [1..MaxRevision -> Nat \ {0}]
    /\ Lfs \subseteq Files
    /\ Absent \notin 1..MaxRevision /\ Absent \notin Seq(1..MaxRevision)

VARIABLES
    revision,   \* what the branch points at
    part,       \* <file>.part
    dest,       \* the file itself
    vouched,    \* history: the files whose bytes a digest was compared with
    fetching,   \* the file being fetched
    fetchPc,    \* where fetch_file_with is
    announced,  \* expected_sha: the revision whose digest its HEAD gave
    body,       \* the revision the GET streams
    hashed,     \* the chunks the stream hasher has seen
    cuts        \* kills and errors so far

stored    == <<part, dest, vouched>>
request   == <<announced, body, hashed>>
fetchVars == <<revision, stored, fetching, fetchPc, request, cuts>>

Chunks(r) == [i \in 1..Size[r] |-> r]
FetchStages == {"idle", "cached", "head", "get", "stream", "verify", "rename"}
Parts == {q \in Seq(1..MaxRevision) : \E r \in 1..MaxRevision : Len(q) <= Size[r]}

FetchInit ==
    /\ revision = 1
    /\ part = [f \in Files |-> Absent] /\ dest = [f \in Files |-> Absent]
    /\ vouched = {}
    /\ fetching \in Files /\ fetchPc = "idle"
    /\ announced = Absent /\ body = 1 /\ hashed = <<>>
    /\ cuts = 0

Goto(stage) == fetchPc' = stage
PartLength(f) == IF part[f] = Absent THEN 0 ELSE Len(part[f])

\* The branch moves.
Upstream ==
    /\ revision < MaxRevision
    /\ revision' = revision + 1
    /\ UNCHANGED <<stored, fetching, fetchPc, request, cuts>>

-----------------------------------------------------------------------------
(* fetch_file_with.                                                        *)

\* A file that is there is not fetched, nor its .part looked at.
Begin(f) ==
    /\ fetchPc = "idle" /\ dest[f] = Absent
    /\ fetching' = f /\ Goto("head")
    /\ UNCHANGED <<revision, stored, request, cuts>>

\* verify_cached: a file that is there is hashed against what is announced.
BeginVerify(f) ==
    /\ fetchPc = "idle" /\ dest[f] # Absent /\ f \in Lfs
    /\ fetching' = f /\ Goto("cached")
    /\ UNCHANGED <<revision, stored, request, cuts>>

\* One that differs is deleted, with any .part, and fetched again; without a
\* digest there is nothing to compare it with.
VerifyCached ==
    /\ fetchPc = "cached"
    /\ \/ Goto("idle") /\ UNCHANGED stored
       \/ /\ dest[fetching] = Chunks(revision)
          /\ vouched' = vouched \union {fetching}
          /\ Goto("idle") /\ UNCHANGED <<part, dest>>
       \/ /\ dest[fetching] # Chunks(revision)
          /\ dest' = [dest EXCEPT ![fetching] = Absent]
          /\ part' = [part EXCEPT ![fetching] = Absent]
          /\ vouched' = vouched \ {fetching}
          /\ Goto("head")
    /\ UNCHANGED <<revision, fetching, request, cuts>>

-----------------------------------------------------------------------------
(* download.                                                               *)

\* Mutant: a sha256 announced once is not asked for again.
AnnounceShaOnce ==
    /\ fetchPc = "head" /\ Goto("get")
    /\ announced' = IF fetching \notin Lfs THEN Absent
                    ELSE IF announced # Absent THEN announced ELSE revision
    /\ UNCHANGED <<revision, stored, fetching, body, hashed, cuts>>

\* announced_sha256
AnnounceSha ==
    /\ fetchPc = "head" /\ Goto("get")
    /\ announced' \in {Absent} \union (IF fetching \in Lfs THEN {revision} ELSE {})
    /\ UNCHANGED <<revision, stored, fetching, body, hashed, cuts>>

\* The server takes up where the .part ends: append, its bytes hashed first.
GetRest ==
    /\ fetchPc = "get" /\ PartLength(fetching) \in 1..Size[revision] - 1
    /\ Goto("stream")
    /\ body' = revision
    /\ hashed' = part[fetching]
    /\ UNCHANGED <<revision, stored, fetching, announced, cuts>>

\* There is no .part, or the server ignores the range: from the beginning.
GetAll ==
    /\ fetchPc = "get"
    /\ Goto("stream")
    /\ body' = revision
    /\ hashed' = <<>>
    /\ part' = [part EXCEPT ![fetching] = <<>>]
    /\ UNCHANGED <<revision, dest, vouched, fetching, announced, cuts>>

\* A range that begins where the body ends, or beyond, cannot be satisfied: an
\* error.
GetNothing ==
    /\ fetchPc = "get" /\ PartLength(fetching) >= Size[revision]
    /\ Goto("idle")
    /\ UNCHANGED <<revision, stored, fetching, request, cuts>>

\* Mutant: the length is not looked at.
StreamOn ==
    /\ fetchPc = "stream"
    /\ part' = [part EXCEPT ![fetching] = Append(@, body)]
    /\ hashed' = Append(hashed, body)
    /\ UNCHANGED <<revision, dest, vouched, fetching, fetchPc, announced, body, cuts>>

\* One chunk, to the disk and to the hasher.
Stream ==
    /\ fetchPc = "stream" /\ PartLength(fetching) < Size[body]
    /\ part' = [part EXCEPT ![fetching] = Append(@, body)]
    /\ hashed' = Append(hashed, body)
    /\ UNCHANGED <<revision, dest, vouched, fetching, fetchPc, announced, body, cuts>>

StreamEnds ==
    /\ fetchPc = "stream" /\ PartLength(fetching) = Size[body]
    /\ Goto("verify")
    /\ UNCHANGED <<revision, stored, fetching, request, cuts>>

\* Mutant: the length alone is verified.
VerifyLength ==
    /\ fetchPc = "verify" /\ Goto("rename")
    /\ UNCHANGED <<revision, stored, fetching, request, cuts>>

\* verify_stream: the length is right; a digest that is not the announced one
\* takes the .part with it.
Verify ==
    /\ fetchPc = "verify"
    /\ IF announced = Absent \/ hashed = Chunks(announced)
       THEN Goto("rename") /\ UNCHANGED part
       ELSE Goto("idle") /\ part' = [part EXCEPT ![fetching] = Absent]
    /\ UNCHANGED <<revision, dest, vouched, fetching, request, cuts>>

RenamePart ==
    /\ fetchPc = "rename" /\ Goto("idle")
    /\ dest' = [dest EXCEPT ![fetching] = part[fetching]]
    /\ part' = [part EXCEPT ![fetching] = Absent]
    /\ vouched' = IF announced # Absent
                THEN vouched \union {fetching}
                ELSE vouched \ {fetching}
    /\ UNCHANGED <<revision, fetching, request, cuts>>

\* The transport fails, the stream ends short, a disk refuses, or the process
\* is killed: the .part is kept.
CutShort ==
    /\ fetchPc # "idle" /\ cuts < MaxCuts
    /\ cuts' = cuts + 1
    /\ Goto("idle")
    /\ UNCHANGED <<revision, stored, fetching, request>>

FetchStep ==
    \/ VerifyCached \/ AnnounceSha \/ GetRest \/ GetAll \/ GetNothing
    \/ Stream \/ StreamEnds \/ Verify \/ RenamePart

FetchNext ==
    \/ Upstream \/ CutShort \/ FetchStep
    \/ \E f \in Files : Begin(f) \/ BeginVerify(f)

FetchSpec == FetchInit /\ [][FetchNext]_fetchVars

\* A fetch runs on, and a file that is missing is asked for again.
FairFetch ==
    FetchSpec /\ WF_fetchVars(FetchStep) /\ \A f \in Files : SF_fetchVars(Begin(f))

-----------------------------------------------------------------------------
(* Properties.                                                             *)

FetchTypeOK ==
    /\ revision \in 1..MaxRevision /\ body \in 1..MaxRevision
    /\ part \in [Files -> Parts \union {Absent}]
    /\ dest \in [Files -> Parts \union {Absent}]
    /\ vouched \subseteq Files
    /\ fetching \in Files /\ fetchPc \in FetchStages
    /\ announced \in 1..MaxRevision \union {Absent}
    /\ hashed \in Parts /\ cuts \in 0..MaxCuts

\* A file on disk has the length of a body; and if a digest was announced for
\* its download, it is one revision's, chunk for chunk, whatever the download
\* went through: kills, resumes, a branch that moved between HEAD, GET and
\* resume.  (announced_sha256: without one, downloads "stay length-verified
\* only", and one resumed after a move is half of either revision.)
FilesAreWhole ==
    \A f \in Files : dest[f] # Absent =>
        /\ \E r \in 1..MaxRevision : Len(dest[f]) = Size[r]
        /\ f \in vouched => \E r \in 1..MaxRevision : dest[f] = Chunks(r)

\* "A .part picks up where a killed download stopped" (hub.rs's head): a file
\* is not lost to a kill.  Except one whose .part is as long as the body or
\* longer: killed before its rename, or the branch moved to a shorter body.
\* It is asked for a range beyond its end ever after.
FetchedUnlessOvergrown ==
    \A f \in Files :
        \/ []<>(dest[f] # Absent)
        \/ <>[](dest[f] = Absent /\ PartLength(f) >= Size[revision])
=============================================================================
