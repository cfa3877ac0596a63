------------------------------ MODULE AnswerStream ------------------------------
(***************************************************************************)
(* What the decode thread promises the requests it answers (`Update` of    *)
(* decoder.rs, and what `generate_batched` of engine.rs reads into it): an *)
(* answer is tokens, never more than the budget allows, and then one end;  *)
(* nothing follows the end.  Only who joined a running session may be      *)
(* turned back, and only as the first thing it hears.  One step of the     *)
(* batch may speak to several requests at once.                            *)
(***************************************************************************)
EXTENDS Integers, Sequences

CONSTANTS Requests, Budget

VARIABLES
    listening,  \* requests with an answer to come or to read
    joiners,    \* those that joined a session rather than starting it
    unread,     \* what was said to each and not read yet
    said        \* tokens said in an answer that has not ended

vars == <<listening, joiners, unread, said>>

Init ==
    /\ listening = {} /\ joiners = {}
    /\ unread = [r \in Requests |-> <<>>] /\ said = [r \in Requests |-> 0]

Ended(r) == \E i \in DOMAIN unread[r] : unread[r][i] # "token"

Start(r) ==
    /\ r \notin listening
    /\ listening' = listening \union {r}
    /\ UNCHANGED <<joiners, unread, said>>

Join(r) ==
    /\ r \notin listening
    /\ listening' = listening \union {r} /\ joiners' = joiners \union {r}
    /\ UNCHANGED <<unread, said>>

\* What may be said to a request in one breath.
Words(r) ==
    IF r \notin listening \/ Ended(r) THEN {<<>>}
    ELSE {<<>>, <<"token", "done">>, <<"done">>, <<"failed">>}
         \union (IF said[r] + 1 < Budget THEN {<<"token">>} ELSE {})
         \union (IF said[r] = 0 THEN {<<"stranded">>} ELSE {})
         \union (IF said[r] = 0 /\ r \in joiners THEN {<<"bounced">>} ELSE {})

Count(n, word) == CASE word = <<>> -> n [] word = <<"token">> -> n + 1 [] OTHER -> 0

Say ==
    /\ UNCHANGED <<listening, joiners>>
    /\ \E word \in [Requests -> UNION {Words(r) : r \in Requests}] :
         /\ \A r \in Requests : word[r] \in Words(r)
         /\ unread' = [r \in Requests |-> unread[r] \o word[r]]
         /\ said' = [r \in Requests |-> Count(said[r], word[r])]

HearToken(r) ==
    /\ r \in listening /\ unread[r] # <<>> /\ Head(unread[r]) = "token"
    /\ unread' = [unread EXCEPT ![r] = Tail(@)]
    /\ UNCHANGED <<listening, joiners, said>>

\* It heard the end, was turned back, or hung up: it listens no more, and may
\* come back for another answer.
Leave(r) ==
    /\ r \in listening
    /\ listening' = listening \ {r} /\ joiners' = joiners \ {r}
    /\ unread' = [unread EXCEPT ![r] = <<>>] /\ said' = [said EXCEPT ![r] = 0]

Next == (\E r \in Requests : Start(r) \/ Join(r) \/ HearToken(r) \/ Leave(r)) \/ Say

Spec == Init /\ [][Next]_vars
=============================================================================
