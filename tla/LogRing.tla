-------------------------------- MODULE LogRing --------------------------------
(***************************************************************************)
(* The server's log (logs.rs): one sequence of lines kept in two bounded   *)
(* rings, a main one and a quiet one for routine polls, and a client that  *)
(* pages through it with a cursor and is told what it missed.  The process *)
(* may restart under the client, whose cursor is then of another sequence. *)
(*                                                                         *)
(* A line is its seq.  Left out: the source filter, the bytes of a page    *)
(* (they stop it as its limit does), the shell of the lines.               *)
(***************************************************************************)
EXTENDS Integers, Sequences, FiniteSets, SequencesExt, FiniteSetsExt

CONSTANTS
    MaxLines, QuietLines,  \* capacities of the rings
    EvictionMemory,        \* evicted seqs remembered
    Limits,                \* page limits a client may ask with
    MaxSeq,                \* bound: lines a process records
    MaxReboots             \* bound

ASSUME LogAssumption ==
    /\ MaxLines \in Nat \ {0} /\ QuietLines \in Nat /\ EvictionMemory \in Nat \ {0}
    /\ Limits \subseteq Nat \ {0} /\ MaxSeq \in Nat /\ MaxReboots \in Nat

VARIABLES
    lines, quietLines,  \* the rings
    nextSeq,        \* the seq of the next line
    evicted,        \* the last evictions from the main ring
    droppedTotal,   \* evictions from the main ring
    cursor,         \* the client's `since`
    limit,          \* the client's page limit
    shown,          \* main-ring lines the client got since its last re-sync
    told,           \* losses it was told of since then
    exact,          \* every loss was told as a count, not a floor
    astray,         \* its cursor is another process's and passed for ours
    recorded,       \* history: main-ring lines this process recorded
    reboots

ring   == <<lines, quietLines, nextSeq, evicted, droppedTotal, recorded>>
client == <<cursor, shown, told, exact, astray>>
logVars == <<ring, client, limit, reboots>>

LogInit ==
    /\ lines = <<>> /\ quietLines = <<>> /\ nextSeq = 1
    /\ evicted = <<>> /\ droppedTotal = 0 /\ recorded = {}
    /\ cursor = 0 /\ limit \in Limits
    /\ shown = 0 /\ told = 0 /\ exact = TRUE /\ astray = FALSE
    /\ reboots = 0

LastOf(s, n) == IF Len(s) > n THEN Tail(s) ELSE s

\* Ring::record of a routine poll: it can only push out another.
RecordQuiet ==
    /\ nextSeq <= MaxSeq
    /\ nextSeq' = nextSeq + 1
    /\ quietLines' = LastOf(Append(quietLines, nextSeq), QuietLines)
    /\ UNCHANGED <<lines, evicted, droppedTotal, recorded, client, limit, reboots>>

\* Ring::record of any other line.
RecordMain ==
    /\ nextSeq <= MaxSeq
    /\ nextSeq' = nextSeq + 1
    /\ recorded' = recorded \union {nextSeq}
    /\ lines' = LastOf(Append(lines, nextSeq), MaxLines)
    /\ IF Len(lines) = MaxLines
       THEN /\ droppedTotal' = droppedTotal + 1
            /\ evicted' = LastOf(Append(evicted, Head(lines)), EvictionMemory)
       ELSE UNCHANGED <<droppedTotal, evicted>>
    /\ UNCHANGED <<quietLines, client, limit, reboots>>

-----------------------------------------------------------------------------
(* read.                                                                   *)

NewestSeq == nextSeq - 1
Held   == ToSet(lines) \union ToSet(quietLines)
Oldest == IF Held = {} THEN nextSeq ELSE Min(Held)
After(since) == {s \in Held : s > since}

\* The first of the lines after `since`, at most a page of them.
PageAfter(since) ==
    {s \in After(since) : Cardinality({x \in After(since) : x < s}) < limit}
\* Mutant: a page cut short moves the cursor to the end.
CursorAtNewest(since) == NewestSeq

\* The page's last line, or the newest when nothing is left behind it.
CursorAfter(since) ==
    IF PageAfter(since) = After(since) THEN NewestSeq ELSE Max(PageAfter(since))

\* dropped_after: how many main-ring lines after `since` are gone, and
\* whether that is a count or a floor.
Count(n)    == [lost |-> n, exact |-> TRUE]
DroppedAfter(since) ==
    LET after     == Cardinality({i \in DOMAIN evicted : evicted[i] > since})
        forgotten == droppedTotal - Len(evicted)
        least     == IF forgotten > since THEN forgotten - since ELSE 0
        between   == evicted[1] - 1 - since
        most      == IF forgotten < between THEN forgotten ELSE between
    IN  IF evicted = <<>> \/ since >= Last(evicted) THEN Count(0)
        ELSE IF after < Len(evicted) \/ forgotten = 0 THEN Count(after)
        ELSE [lost |-> Len(evicted) + least, exact |-> least = most]

MainIn(S) == Cardinality(S \intersect ToSet(lines))

\* A cursor this process may have handed out: the page goes on from it.
Poll ==
    /\ cursor <= NewestSeq
    /\ LET dropped == DroppedAfter(cursor) IN
        /\ told' = told + dropped.lost
        /\ exact' = (exact /\ dropped.exact)
    /\ shown' = shown + MainIn(PageAfter(cursor))
    /\ cursor' = CursorAfter(cursor)
    /\ UNCHANGED <<ring, astray, limit, reboots>>

\* A cursor it never handed out: the client starts over, told of everything
\* this process has lost.
Resync ==
    /\ cursor > NewestSeq
    /\ LET since == Oldest - 1 IN
        /\ shown' = MainIn(PageAfter(since))
        /\ cursor' = CursorAfter(since)
    /\ told' = droppedTotal /\ exact' = TRUE /\ astray' = FALSE
    /\ UNCHANGED <<ring, limit, reboots>>

\* Another process: empty rings, a sequence from 1, the client's cursor kept.
Restart ==
    /\ reboots < MaxReboots
    /\ reboots' = reboots + 1
    /\ lines' = <<>> /\ quietLines' = <<>> /\ nextSeq' = 1
    /\ evicted' = <<>> /\ droppedTotal' = 0 /\ recorded' = {}
    /\ astray' = (cursor > 0)
    /\ UNCHANGED <<cursor, shown, told, exact, limit>>

LogNext == RecordQuiet \/ RecordMain \/ Poll \/ Resync \/ Restart

LogSpec == LogInit /\ [][LogNext]_logVars

-----------------------------------------------------------------------------
(* Properties.                                                             *)

LogTypeOK ==
    /\ Len(lines) <= MaxLines /\ Len(quietLines) <= QuietLines
    /\ Len(evicted) <= EvictionMemory
    /\ nextSeq \in 1..MaxSeq + 1 /\ droppedTotal \in 0..MaxSeq
    /\ cursor \in 0..MaxSeq /\ limit \in Limits
    /\ shown \in Nat /\ told \in Nat
    /\ exact \in BOOLEAN /\ astray \in BOOLEAN
    /\ recorded \subseteq 1..MaxSeq /\ reboots \in 0..MaxReboots

PastCursor == Cardinality({s \in recorded : s <= cursor})

\* A client whose page reaches past the quiet ring accounts for every line
\* the server printed: it got it, or was told it was lost, once.  Where the
\* evictions are forgotten it is told of no more than were lost.
EveryLineIsAccountedFor ==
    (~astray /\ limit > QuietLines) =>
        /\ exact => shown + told = PastCursor
        /\ shown + told <= PastCursor
=============================================================================
