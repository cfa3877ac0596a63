------------------------------ MODULE ThinkFilter ------------------------------
(***************************************************************************)
(* The streaming removal of the spans between two tags (think.rs): of a    *)
(* <think> block, or of a family's tool-call markup.  The text arrives cut *)
(* anywhere, a tag can be split over any number of pieces, and what could  *)
(* still become a tag is held back.  The think filter also drops the white *)
(* space around a block that opens the answer.                             *)
(*                                                                         *)
(* A symbol of the text is known by its place in it, and what is visible,  *)
(* thought or withheld is the set of the places put there; what is pending *)
(* are those after `drained`.  A turn of the loop is a step, after which   *)
(* what is shown begins the answer, so that the sets keep the order; in a  *)
(* step only show puts one piece, the gap, before another.                 *)
(***************************************************************************)
EXTENDS Integers, Sequences

CONSTANTS
    Symbols,
    Texts,              \* what the model may write
    OpenTag, CloseTag,
    White               \* the symbols that are white space

ASSUME ThinkAssumption ==
    /\ Texts \subseteq Seq(Symbols)
    /\ OpenTag \in Seq(Symbols) \ {<<>>} /\ CloseTag \in Seq(Symbols) \ {<<>>}

VARIABLES
    text,      \* what the model writes
    arrived,   \* how much of it has arrived
    drained,   \* and how much of that is no longer pending
    turning,   \* push_split is in its loop
    inside,    \* of a span
    trim,      \* the think filter, or a plain one
    begun,     \* text other than white space has been let through
    gap,       \* white space the text opened with
    visible, thought, withheld,
    finished

spanVars == <<inside, thought, withheld>>
showVars == <<begun, gap, visible>>
thinkVars == <<text, arrived, drained, turning, trim, spanVars, showVars, finished>>

ThinkInit ==
    /\ text \in Texts /\ trim \in BOOLEAN
    /\ arrived = 0 /\ drained = 0
    /\ turning = FALSE /\ inside = FALSE /\ begun = FALSE /\ finished = FALSE
    /\ gap = {} /\ visible = {} /\ thought = {} /\ withheld = {}

\* A tag of t begins after its first i symbols.
TagAt(t, tag, i) ==
    /\ i + Len(tag) <= Len(t)
    /\ \A k \in DOMAIN tag : t[i + k] = tag[k]

\* The tag that ends what the filter is in.
TagFrom(in) == IF in THEN CloseTag ELSE OpenTag
Tag == TagFrom(inside)

Found == {i \in drained..arrived - Len(Tag) : TagAt(text, Tag, i)}

\* Mutant: a tag cut in two is text.
DanglingNever == {0}

\* The proper prefixes of the tag that the pending text ends with, by length.
Dangling ==
    {n \in 0..Len(Tag) - 1 :
        /\ n <= arrived - drained
        /\ \A k \in 1..n : text[arrived - n + k] = Tag[k]}

\* trim_start.
Body(places) == {i \in places : \E j \in places : j <= i /\ text[j] \notin White}

\* show: what is outside any span.
Show(places) ==
    \/ /\ ~trim \/ begun
       /\ visible' = visible \union places
       /\ UNCHANGED <<begun, gap>>
    \/ /\ trim /\ ~begun /\ Body(places) = {}
       /\ gap' = gap \union places
       /\ UNCHANGED <<begun, visible>>
    \/ /\ trim /\ ~begun /\ Body(places) # {}
       /\ begun' = TRUE /\ gap' = {}
       /\ visible' = visible \union IF withheld # {} THEN Body(places) ELSE gap \union places

Think(places, tag) ==
    /\ thought' = thought \union places
    /\ withheld' = withheld \union places \union tag

\* A delta of n symbols.
Push(n) ==
    /\ ~turning /\ ~finished /\ arrived + n <= Len(text)
    /\ arrived' = arrived + n /\ turning' = TRUE
    /\ UNCHANGED <<text, drained, trim, spanVars, showVars, finished>>

\* A turn of push_split's loop: the next tag is there ...
PassTag ==
    /\ turning
    /\ \E at \in Found :
         /\ \A i \in Found : at <= i
         /\ drained' = at + Len(Tag)
         /\ IF inside
            THEN Think(drained + 1..at, at + 1..at + Len(Tag)) /\ UNCHANGED showVars
            ELSE /\ Show(drained + 1..at)
                 /\ withheld' = withheld \union (at + 1..at + Len(Tag))
                 /\ UNCHANGED thought
    /\ inside' = ~inside
    /\ UNCHANGED <<text, arrived, turning, trim, finished>>

\* ... or is not: what cannot become one goes out, and the loop ends.
PassRest ==
    /\ turning /\ Found = {}
    /\ \E keep \in Dangling :
         /\ \A n \in Dangling : n <= keep
         /\ drained' = arrived - keep
         /\ IF inside THEN Think(drained + 1..arrived - keep, {}) /\ UNCHANGED showVars
                      ELSE Show(drained + 1..arrived - keep) /\ UNCHANGED <<thought, withheld>>
    /\ turning' = FALSE
    /\ UNCHANGED <<text, arrived, trim, inside, finished>>

\* finish_split: the rest of an open span is thought; a partial tag outside
\* one was text, and so was white space that no span followed.
Finish ==
    /\ ~turning /\ ~finished /\ arrived = Len(text)
    /\ finished' = TRUE /\ drained' = arrived
    /\ IF inside THEN Think(drained + 1..arrived, {}) /\ UNCHANGED showVars
       ELSE /\ UNCHANGED <<thought, withheld>>
            /\ LET tail == drained + 1..arrived IN
               IF trim /\ ~begun /\ withheld = {}
               THEN /\ visible' = visible \union gap \union tail
                    /\ gap' = {} /\ begun' = (Body(tail) # {})
               ELSE Show(tail)
    /\ UNCHANGED <<text, arrived, turning, trim, inside>>

ThinkNext == PassTag \/ PassRest \/ Finish \/ \E n \in 1..Len(text) : Push(n)

ThinkSpec == ThinkInit /\ [][ThinkNext]_thinkVars

-----------------------------------------------------------------------------
(* The text as a whole, read symbol by symbol.                             *)

\* After n symbols: inside a span or not, and since when.
ScanOf(t) ==
    LET scan[n \in 0..Len(t)] ==
          IF n = 0 THEN [inside |-> FALSE, since |-> 0]
          ELSE LET last == scan[n - 1]
                   tag  == TagFrom(last.inside)
               IN  IF last.since + Len(tag) <= n /\ TagAt(t, tag, n - Len(tag))
                   THEN [inside |-> ~last.inside, since |-> n]
                   ELSE last
    IN  scan

\* The i-th symbol is one of a tag.
InTag(t, i) ==
    \E n \in i..Len(t) :
        /\ ScanOf(t)[n].since = n
        /\ n - Len(TagFrom(~ScanOf(t)[n].inside)) < i

Outside(t) == {i \in 1..Len(t) : ~ScanOf(t)[i - 1].inside /\ ~InTag(t, i)}
Within(t)  == {i \in 1..Len(t) : ScanOf(t)[i - 1].inside /\ ~InTag(t, i)}

\* Nothing but white space comes before the first span.
OpensWithSpan(t) ==
    \E i \in (1..Len(t)) \ Outside(t) :
        \A j \in Outside(t) : j < i => t[j] \in White

Answer ==
    IF trim /\ OpensWithSpan(text) THEN Body(Outside(text)) ELSE Outside(text)

-----------------------------------------------------------------------------
(* Properties.                                                             *)

ThinkTypeOK ==
    /\ text \in Texts /\ arrived \in 0..Len(text) /\ drained \in 0..arrived
    /\ {turning, inside, trim, begun, finished} \subseteq BOOLEAN
    /\ gap \union visible \union thought \union withheld \subseteq 1..drained

\* Some of the places, and all of them up to the last of these.
Begins(some, places) ==
    /\ some \subseteq places
    /\ \A i \in places, j \in some : i < j => i \in some

\* "An answer streamed one token at a time and the same answer filtered whole
\* come out the same", nothing is "emitted and regretted" on the way, and of a
\* plain filter's text "nothing goes missing": it is visible or withheld.
StreamedAsWhole ==
    /\ Begins(visible, Answer) /\ Begins(thought, Within(text))
    /\ finished => visible = Answer /\ thought = Within(text)
    /\ finished /\ ~trim => withheld = (1..Len(text)) \ visible
=============================================================================
