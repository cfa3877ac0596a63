------------------------- MODULE DecodeThreadProofs -------------------------
(***************************************************************************)
(* Proofs about DecodeThread, for any devices, requests, models, loads,     *)
(* slots in the batch, token budget and bounds on the environment.          *)
(*                                                                          *)
(* The model slot passes from hand to hand -- a request, a Start message,   *)
(* the session, the failure that ends it -- and the invariant IInv says, for *)
(* each place of that path, what the registry, the channel, the resident    *)
(* model and the epochs are there.                                          *)
(***************************************************************************)
EXTENDS DecodeThread, RecoveryBooksProofs, FiniteSetTheorems, SequenceTheorems

\* Where a request has the slot in hand.
Holding == {"planning", "releasing", "loading", "resident", "sending"}

\* Who holds the slot, and what is in it.
SlotInv ==
  /\ \A r \in Requests : slot = r <=> pc[r] \in Holding
  /\ held => slot = Thread /\ at \notin {"deciding", "evicting"}
  /\ at # "top" => slot = Thread
  /\ ~held => at \in {"top", "deciding", "evicting"}
  /\ slot = Thread => entry # NoModel
  /\ \A r \in Requests : pc[r] \in {"resident", "sending"} =>
       entry # NoModel /\ entry.key = key[r]

\* What a message says of its sender and of the slot: one Start at most, one
\* release from a request that waits for it.
ChannelInv ==
  \A i \in DOMAIN channel :
    /\ channel[i].kind \in {"start", "join"} => channel[i].from \in Requests
    /\ channel[i].kind = "start" =>
         /\ slot = Thread /\ ~held /\ at = "top"
         /\ \A j \in DOMAIN channel : channel[j].kind = "start" => i = j
    /\ channel[i].kind = "release" /\ channel[i].from \in Requests =>
         /\ pc[channel[i].from] = "releasing"
         /\ \A j \in DOMAIN channel :
              channel[j].kind = "release" /\ channel[j].from \in Requests => i = j

\* A slot handed over is in a Start message, in a session or in its failure.
HandedInv ==
  slot = Thread =>
    \/ held \/ at \in {"deciding", "evicting"}
    \/ \E i \in DOMAIN channel : channel[i].kind = "start"

\* The session outlives every open registry.
RegistryInv ==
  registry.accepting =>
    /\ entry # NoModel /\ entry.key = registry.key
    /\ \/ slot = Thread /\ at \notin {"deciding", "evicting", "closing"}
       \/ slot \in Requests /\ pc[slot] = "sending"

\* A request that passed the check of the latch, and has not had its load.
Checked == {"releasing", "loading"}

\* One load lands after a latch at most: the one that was past its check.
LatchInv ==
  /\ lateLoads <= 1
  /\ lateLoads = 1 => exiting /\ \A r \in Requests : pc[r] \notin Checked

\* Where the thread has a job in its hands.
JobInv ==
  /\ job # NoOne => at \in {"admitting", "calling", "judging", "failing", "deciding"}
  /\ at = "admitting" => job # NoOne

\* The batch is a batch: a call that would admit was made with room to spare.
BatchInv ==
  /\ IsFiniteSet(jobs)
  /\ Cardinality(jobs) <= MaxSlots
  /\ at \in {"calling", "judging"} /\ job # NoOne => Cardinality(jobs) < MaxSlots
  /\ \A r \in Requests : made[r] < MaxTokens

\* No model is newer than the epoch; after a latch, none is as new but one that
\* landed after it.
StampInv ==
  entry # NoModel => /\ entry.stamp <= epoch
                     /\ exiting /\ lateLoads = 0 => entry.stamp < epoch

\* A call is marked with its model's stamp, and a spoiled one shows.
CallInv ==
  /\ at \in {"calling", "judging"} => mark.global = entry.stamp
  /\ at = "judging" /\ spoiled => mark.global < epoch

\* Updates that end a wait, and a request that has been sent one.
Ending(s) == \E i \in DOMAIN s : s[i] # "token"
Answered(r) == Ending(updates[r])

\* A request that listens has its job in the thread's hands, or its answer.
JobsInv == \A r \in Requests : Open(r) => InThread(r) \/ Answered(r)

IInv ==
  /\ DecodeTypeOK /\ SlotInv /\ ChannelInv /\ HandedInv /\ RegistryInv /\ LatchInv /\ JobInv
  /\ BatchInv /\ StampInv /\ CallInv /\ JobsInv /\ NoBatchBesideALoad

\* The steps of calls that hold no slot: what they do to the books, and the
\* drain after it.
OutsideFails == \E c \in Outsiders : FailsOutside(c) \/ Contain(c)
OutsideEvicts == \E c \in Outsiders : EvictElsewhere(c)

(***************************************************************************)
(* The types, in parts: the provers take each kind alone better.            *)
(***************************************************************************)

SlotTypes == slot \in Requests \cup {NoOne, Thread} /\ entry \in Model \cup {NoModel}

RegistryType == registry \in [key : Models \cup {NoModel}, accepting : BOOLEAN]

StageType == pc \in [Requests -> Stages]

KeyType == key \in [Requests -> Models]

UpdateType == updates \in [Requests -> Seq(Updates)]

MadeType == made \in [Requests -> 0..MaxTokens]

Lists == queue \in Seq(Requests) /\ waiting \in Seq(Requests)

ChannelType == channel \in Seq(Messages)

Sets ==
  /\ jobs \subseteq Requests /\ joined \subseteq Requests
  /\ seen \subseteq Requests /\ notified \subseteq Requests

PlaceTypes == at \in Places /\ base \in {"top", "end", "ending"} /\ outcome \in Outcomes

HandTypes == job \in Requests \cup {NoOne} /\ cached \in LoadIds \cup {NoLoad}

Flags ==
  /\ locked \in BOOLEAN /\ filling \in BOOLEAN /\ held \in BOOLEAN
  /\ releaseAfter \in BOOLEAN /\ spanned \in BOOLEAN /\ spoiled \in BOOLEAN

Bounds ==
  /\ raised \in 0..MaxFailures /\ bugs \in 0..MaxBugs /\ releases \in 0..MaxReleases
  /\ outside \in [Outsiders -> {"none", "failed", "decided"}] /\ lateLoads \in Nat

MarkKind == mark \in Marks

\* The mark of no call is a mark.
LEMMA NoMarkType == NoMark \in Marks
  BY DEF NoMark, Marks

(***************************************************************************)
(* Sequences: the channel, and what waits in line.                          *)
(***************************************************************************)

\* A received message was the first; the others keep their order.
LEMMA Received ==
  ASSUME ChannelType, NEW kind, Receiving(kind)
  PROVE  /\ ChannelType'
         /\ 1 \in DOMAIN channel
         /\ Head(channel) = channel[1] /\ channel[1] \in Messages /\ channel[1].kind = kind
         /\ at \in {"top", "ending"}
         /\ \A i \in DOMAIN channel' :
              /\ i \in Int /\ i + 1 \in DOMAIN channel /\ i + 1 # 1
              /\ channel'[i] = channel[i + 1]
         /\ \A i \in DOMAIN channel : i # 1 =>
              i \in Int /\ i - 1 \in DOMAIN channel' /\ channel'[i - 1] = channel[i]
<1>1. channel \in Seq(Messages) /\ channel # <<>> /\ channel' = Tail(channel)
  BY DEF ChannelType, Receiving
<1>2. /\ channel' \in Seq(Messages) /\ Len(channel') = Len(channel) - 1
      /\ \A i \in 1..Len(channel') : channel'[i] = channel[i + 1]
  BY <1>1, HeadTailProperties
<1>3. /\ Len(channel) \in Nat \ {0} /\ DOMAIN channel = 1..Len(channel)
      /\ DOMAIN channel' = 1..Len(channel')
  BY <1>1, <1>2, EmptySeq, LenProperties
<1>4. 1 \in DOMAIN channel /\ Head(channel) = channel[1] /\ channel[1] \in Messages
  BY <1>1, <1>3
<1>5. \A i \in DOMAIN channel' :
         /\ i \in Int /\ i + 1 \in DOMAIN channel /\ i + 1 # 1
         /\ channel'[i] = channel[i + 1]
  BY <1>2, <1>3
<1>6. \A i \in DOMAIN channel : i # 1 =>
         i \in Int /\ i - 1 \in DOMAIN channel' /\ channel'[i - 1] = channel[i]
  <2> SUFFICES ASSUME NEW i \in DOMAIN channel, i # 1
               PROVE  i \in Int /\ i - 1 \in DOMAIN channel' /\ channel'[i - 1] = channel[i]
    OBVIOUS
  <2>1. i \in Int /\ i - 1 \in 1..Len(channel') /\ (i - 1) + 1 = i
    BY <1>2, <1>3
  <2>2. channel'[i - 1] = channel[(i - 1) + 1]
    BY <1>2, <2>1
  <2>3. QED  BY <1>3, <2>1, <2>2
<1>7. QED  BY <1>2, <1>4, <1>5, <1>6 DEF ChannelType, Receiving

\* A posted message is the last; the others stay where they are.
LEMMA Posted ==
  ASSUME ChannelType, NEW kind, NEW from, Post(kind, from),
         [kind |-> kind, from |-> from] \in Messages
  PROVE  /\ ChannelType'
         /\ \E n : /\ n \notin DOMAIN channel /\ DOMAIN channel' = DOMAIN channel \cup {n}
                   /\ channel'[n] = [kind |-> kind, from |-> from]
                   /\ \A i \in DOMAIN channel : channel'[i] = channel[i]
<1> DEFINE m == [kind |-> kind, from |-> from]
<1> HIDE DEF m
<1>1. channel \in Seq(Messages) /\ m \in Messages /\ channel' = Append(channel, m)
  BY DEF ChannelType, Post, m
<1>2. /\ channel' \in Seq(Messages) /\ Len(channel') = Len(channel) + 1
      /\ \A i \in 1..Len(channel) : channel'[i] = channel[i]
      /\ channel'[Len(channel) + 1] = m
  BY <1>1, AppendProperties
<1>3. /\ Len(channel) \in Nat /\ DOMAIN channel = 1..Len(channel)
      /\ DOMAIN channel' = 1..Len(channel')
  BY <1>1, <1>2, LenProperties
<1>4. Len(channel) + 1 \notin DOMAIN channel
  BY <1>3
<1>5. DOMAIN channel' = DOMAIN channel \cup {Len(channel) + 1}
  BY <1>2, <1>3
<1>6. QED  BY <1>2, <1>3, <1>4, <1>5 DEF ChannelType, m

\* r's job is in the channel.
Carried(r) ==
  \E i \in DOMAIN channel : channel[i].kind \in {"start", "join"} /\ channel[i].from = r

\* Only the job of the received message leaves the channel.
LEMMA ReceivedCarries ==
  ASSUME ChannelType, NEW kind, Receiving(kind)
  PROVE  \A r : Carried(r) =>
           Carried(r)' \/ (kind \in {"start", "join"} /\ Head(channel).from = r)
<1> SUFFICES ASSUME NEW r, NEW i \in DOMAIN channel,
                    channel[i].kind \in {"start", "join"}, channel[i].from = r
             PROVE  Carried(r)' \/ (kind \in {"start", "join"} /\ Head(channel).from = r)
  BY DEF Carried
<1>1. CASE i = 1
  BY <1>1, Received
<1>2. CASE i # 1
  <2>1. i - 1 \in DOMAIN channel' /\ channel'[i - 1] = channel[i]
    BY <1>2, Received
  <2>2. QED  BY <2>1 DEF Carried
<1>3. QED  BY <1>1, <1>2

\* Posting takes no job out of the channel, and puts its sender's in.
LEMMA PostedCarries ==
  ASSUME ChannelType, NEW kind, NEW from, Post(kind, from),
         [kind |-> kind, from |-> from] \in Messages
  PROVE  /\ \A r : Carried(r) => Carried(r)'
         /\ kind \in {"start", "join"} => Carried(from)'
<1>1. PICK n : /\ n \notin DOMAIN channel /\ DOMAIN channel' = DOMAIN channel \cup {n}
               /\ channel'[n] = [kind |-> kind, from |-> from]
               /\ \A i \in DOMAIN channel : channel'[i] = channel[i]
  BY Posted
<1>2. channel'[n].kind = kind /\ channel'[n].from = from
  BY <1>1
<1>3. QED  BY <1>1, <1>2 DEF Carried

\* Who joins a line is in it, with those who were.
LEMMA AppendLine ==
  ASSUME NEW S, NEW s \in Seq(S), NEW e \in S
  PROVE  Append(s, e) \in Seq(S) /\ ToSet(Append(s, e)) = ToSet(s) \cup {e}
<1>1. Len(s) \in Nat /\ DOMAIN s = 1..Len(s)
  BY LenProperties
<1>2. /\ Append(s, e) \in Seq(S) /\ Len(Append(s, e)) = Len(s) + 1
      /\ \A i \in 1..Len(s) : Append(s, e)[i] = s[i]
      /\ Append(s, e)[Len(s) + 1] = e
  BY AppendProperties
<1>3. DOMAIN Append(s, e) = 1..Len(s) + 1
  BY <1>2, LenProperties
<1>4. QED  BY <1>1, <1>2, <1>3 DEF ToSet

\* What is put before a line, appended to it or taken from its head.
LEMMA LineFacts ==
  ASSUME NEW S, NEW s \in Seq(S)
  PROVE  /\ ToSet(s) \subseteq S /\ ToSet(<<>>) = {}
         /\ \A e \in S :
              /\ Append(s, e) \in Seq(S) /\ ToSet(Append(s, e)) = ToSet(s) \cup {e}
              /\ <<e>> \o s \in Seq(S) /\ ToSet(<<e>> \o s) = ToSet(s) \cup {e}
         /\ s # <<>> =>
              /\ Head(s) \in S /\ Tail(s) \in Seq(S)
              /\ ToSet(s) = ToSet(Tail(s)) \cup {Head(s)}
<1>1. Len(s) \in Nat /\ DOMAIN s = 1..Len(s)
  BY LenProperties
<1>2. ToSet(s) \subseteq S /\ ToSet(<<>>) = {}
  BY <1>1, ElementOfSeq DEF ToSet
<1>3. ASSUME NEW e \in S
      PROVE  Append(s, e) \in Seq(S) /\ ToSet(Append(s, e)) = ToSet(s) \cup {e}
  BY AppendLine
<1>4. ASSUME NEW e \in S
      PROVE  <<e>> \o s \in Seq(S) /\ ToSet(<<e>> \o s) = ToSet(s) \cup {e}
  <2>1. <<e>> \in Seq(S) /\ Len(<<e>>) = 1 /\ <<e>>[1] = e
    OBVIOUS
  <2>2. /\ <<e>> \o s \in Seq(S) /\ Len(<<e>> \o s) = 1 + Len(s)
        /\ \A i \in 1..1 + Len(s) : (<<e>> \o s)[i] = IF i <= 1 THEN <<e>>[i] ELSE s[i - 1]
    BY <2>1, ConcatProperties
  <2>3. DOMAIN (<<e>> \o s) = 1..1 + Len(s)
    BY <2>2, LenProperties
  <2>4. \A i \in 1..1 + Len(s) : (<<e>> \o s)[i] \in ToSet(s) \cup {e}
    BY <1>1, <2>1, <2>2 DEF ToSet
  <2>5. (<<e>> \o s)[1] = e
    BY <1>1, <2>1, <2>2
  <2>6. \A i \in 1..Len(s) : (<<e>> \o s)[i + 1] = s[i]
    BY <1>1, <2>2
  <2>7. ToSet(<<e>> \o s) \subseteq ToSet(s) \cup {e}
    BY <2>3, <2>4 DEF ToSet
  <2>8. e \in ToSet(<<e>> \o s)
    <3>1. 1 \in 1..1 + Len(s)  BY <1>1
    <3>2. QED  BY <3>1, <2>3, <2>5 DEF ToSet
  <2>9. \A i \in 1..Len(s) : s[i] \in ToSet(<<e>> \o s)
    <3>1. \A i \in 1..Len(s) : i + 1 \in 1..1 + Len(s)  BY <1>1
    <3>2. QED  BY <3>1, <2>3, <2>6 DEF ToSet
  <2>10. ToSet(s) \subseteq ToSet(<<e>> \o s)
    BY <1>1, <2>9 DEF ToSet
  <2>11. QED  BY <2>2, <2>7, <2>8, <2>10
<1>5. ASSUME s # <<>>
      PROVE  /\ Head(s) \in S /\ Tail(s) \in Seq(S)
             /\ ToSet(s) = ToSet(Tail(s)) \cup {Head(s)}
  <2>1. /\ Head(s) \in S /\ Tail(s) \in Seq(S) /\ Len(Tail(s)) = Len(s) - 1
        /\ \A i \in 1..Len(Tail(s)) : Tail(s)[i] = s[i + 1]
    BY <1>5, HeadTailProperties
  <2>2. DOMAIN Tail(s) = 1..Len(s) - 1 /\ 1 \in 1..Len(s) /\ Head(s) = s[1]
    BY <1>1, <1>5, <2>1, LenProperties, EmptySeq
  <2>3. \A i \in 1..Len(s) : s[i] \in ToSet(Tail(s)) \cup {Head(s)}
    <3>1. ASSUME NEW i \in 1..Len(s), i # 1  PROVE s[i] \in ToSet(Tail(s))
      <4>1. i - 1 \in 1..Len(s) - 1 /\ (i - 1) + 1 = i  BY <1>1, <3>1
      <4>2. Tail(s)[i - 1] = s[(i - 1) + 1]  BY <2>1, <4>1
      <4>3. QED  BY <2>2, <4>1, <4>2 DEF ToSet
    <3>2. QED  BY <2>2, <3>1
  <2>4. \A i \in 1..Len(s) - 1 : Tail(s)[i] \in ToSet(s)
    BY <1>1, <2>1 DEF ToSet
  <2>5. ToSet(s) \subseteq ToSet(Tail(s)) \cup {Head(s)}
    BY <1>1, <2>3 DEF ToSet
  <2>6. ToSet(Tail(s)) \subseteq ToSet(s)
    BY <2>2, <2>4 DEF ToSet
  <2>7. Head(s) \in ToSet(s)
    BY <1>1, <2>2 DEF ToSet
  <2>8. QED  BY <2>1, <2>5, <2>6, <2>7
<1>6. QED  BY <1>2, <1>3, <1>4, <1>5

\* An update that ends a wait survives what is sent after it, ...
LEMMA EndingConcat ==
  ASSUME NEW s \in Seq(Updates), NEW e \in Seq(Updates), Ending(s) \/ Ending(e)
  PROVE  Ending(s \o e)
<1>1. /\ s \o e \in Seq(Updates) /\ Len(s \o e) = Len(s) + Len(e)
      /\ \A i \in 1..Len(s) + Len(e) :
           (s \o e)[i] = IF i <= Len(s) THEN s[i] ELSE e[i - Len(s)]
  BY ConcatProperties
<1>2. /\ Len(s) \in Nat /\ DOMAIN s = 1..Len(s) /\ Len(e) \in Nat /\ DOMAIN e = 1..Len(e)
      /\ DOMAIN (s \o e) = 1..Len(s) + Len(e)
  BY <1>1, LenProperties
<1>3. CASE Ending(s)
  <2>1. PICK i \in 1..Len(s) : s[i] # "token"  BY <1>2, <1>3 DEF Ending
  <2>2. i \in 1..Len(s) + Len(e) /\ (s \o e)[i] = s[i]  BY <1>1, <1>2
  <2>3. QED  BY <1>2, <2>1, <2>2 DEF Ending
<1>4. CASE Ending(e)
  <2>1. PICK i \in 1..Len(e) : e[i] # "token"  BY <1>2, <1>4 DEF Ending
  <2>2. i + Len(s) \in 1..Len(s) + Len(e) /\ ~(i + Len(s) <= Len(s)) /\ (i + Len(s)) - Len(s) = i
    BY <1>2
  <2>3. (s \o e)[i + Len(s)] = e[i]  BY <1>1, <2>2
  <2>4. QED  BY <1>2, <2>1, <2>2, <2>3 DEF Ending
<1>5. QED  BY <1>3, <1>4

\* ... and the reading of the tokens before it.
LEMMA EndingTail ==
  ASSUME NEW s \in Seq(Updates), s # <<>>, Head(s) = "token", Ending(s)
  PROVE  Ending(Tail(s))
<1>1. /\ Tail(s) \in Seq(Updates) /\ Len(Tail(s)) = Len(s) - 1
      /\ \A i \in 1..Len(Tail(s)) : Tail(s)[i] = s[i + 1]
  BY HeadTailProperties
<1>2. /\ Len(s) \in Nat /\ DOMAIN s = 1..Len(s) /\ DOMAIN Tail(s) = 1..Len(s) - 1
  BY <1>1, LenProperties
<1>3. PICK i \in 1..Len(s) : s[i] # "token"
  BY <1>2 DEF Ending
<1>4. i # 1
  BY <1>3
<1>5. i - 1 \in 1..Len(s) - 1 /\ (i - 1) + 1 = i
  BY <1>2, <1>4
<1>6. Tail(s)[i - 1] = s[i]
  BY <1>1, <1>5
<1>7. QED  BY <1>2, <1>3, <1>5, <1>6 DEF Ending

\* The one-word updates.
LEMMA Words ==
  /\ \A w \in Updates : <<w>> \in Seq(Updates) /\ (w # "token" => Ending(<<w>>))
  /\ <<"token", "done">> \in Seq(Updates) /\ Ending(<<"token", "done">>)
  /\ {"token", "done", "failed", "bounced", "stranded"} \subseteq Updates
BY DEF Updates, Ending

\* Who is told keeps what it was sent before.
LEMMA Told ==
  ASSUME UpdateType, NEW to, NEW what \in Seq(Updates), Tell(to, what)
  PROVE  /\ UpdateType'
         /\ \A r \in Requests :
              /\ Answered(r) => Answered(r)'
              /\ r \in to /\ Open(r) /\ Ending(what) => Answered(r)'
<1>1. \A r \in Requests : updates[r] \in Seq(Updates) /\ updates[r] \o what \in Seq(Updates)
  BY ConcatProperties DEF UpdateType
<1>2. \A r \in Requests :
         updates'[r] = IF r \in to /\ Open(r) THEN updates[r] \o what ELSE updates[r]
  BY DEF Tell
<1>3. UpdateType'
  BY <1>1 DEF Tell, UpdateType
<1>4. QED  BY <1>1, <1>2, <1>3, EndingConcat DEF Answered

\* Who leaves the queue leaves a queue.
LEMMA WithoutType ==
  ASSUME NEW S, NEW s \in Seq(S), NEW e
  PROVE  Without(s, e) \in Seq(S)
<1>1. CASE e \in ToSet(s)
  <2> DEFINE i == CHOOSE n \in DOMAIN s : s[n] = e
  <2>1. i \in DOMAIN s
    BY <1>1 DEF ToSet
  <2>2. Len(s) \in Nat /\ DOMAIN s = 1..Len(s)
    BY LenProperties
  <2> HIDE DEF i
  <2>3. SubSeq(s, 1, i - 1) \in Seq(S) /\ SubSeq(s, i + 1, Len(s)) \in Seq(S)
    BY <2>1, <2>2, SubSeqProperties
  <2>4. SubSeq(s, 1, i - 1) \o SubSeq(s, i + 1, Len(s)) \in Seq(S)
    BY <2>3, ConcatProperties
  <2>5. QED  BY <1>1, <2>4 DEF Without, RemoveAt, i
<1>2. CASE e \notin ToSet(s)
  BY <1>2 DEF Without
<1>3. QED  BY <1>1, <1>2

\* Every step keeps the slot in the hands the invariant names.
LEMMA SlotStep ==
  BooksTypeOK /\ SlotTypes /\ StageType /\ KeyType /\ PlaceTypes /\ ChannelType /\ SlotInv /\
  ChannelInv /\ [Next]_vars => SlotInv'
<1> SUFFICES ASSUME BooksTypeOK, SlotTypes, StageType, KeyType, PlaceTypes, ChannelType, SlotInv,
                   ChannelInv, [Next]_vars
             PROVE  SlotInv'
  OBVIOUS
<1>1. ASSUME NEW r \in Requests, RequestNext(r)
      PROVE  SlotInv'
  <2>1. CASE JoinMissed(r)
    BY <2>1
    DEF JoinMissed, booksVars, sessionVars, callVars, registryVars, envVars, SlotInv,
        SlotTypes, StageType, KeyType, Holding
  <2>2. CASE Arrive(r)
    BY <2>2, DecodeAssumption
    DEF Arrive, Go, booksVars, sessionVars, callVars, registryVars, envVars, SlotInv,
        SlotTypes, StageType, KeyType, Holding
  <2>3. CASE Join(r)
    BY <2>3, DecodeAssumption
    DEF Join, Go, Post, booksVars, sessionVars, callVars, registryVars, envVars, SlotInv,
        SlotTypes, StageType, KeyType, Holding
  <2>4. CASE HangUp(r)
    BY <2>4, DecodeAssumption
    DEF HangUp, Return, Go, booksVars, sessionVars, callVars, registryVars, envVars, SlotInv,
        SlotTypes, StageType, KeyType, Holding
  <2>5. CASE Queue(r)
    BY <2>5, DecodeAssumption
    DEF Queue, Go, booksVars, sessionVars, callVars, registryVars, envVars, SlotInv,
        SlotTypes, StageType, KeyType, Holding
  <2>6. CASE TakeSlot(r)
    <3>1. /\ slot = NoOne /\ slot' = r /\ pc[r] = "queued"
          /\ UNCHANGED <<key, held, at>>
      BY <2>6 DEF TakeSlot, sessionVars
    <3>2. /\ pc' = [pc EXCEPT ![r] = "resident"] /\ UNCHANGED entry
             /\ entry # NoModel /\ entry.key = key[r]
          \/ pc' = [pc EXCEPT ![r] = "planning"]
      BY <2>6 DEF TakeSlot, Go
    <3>3. at = "top" /\ ~held /\ \A q \in Requests : pc[q] \notin Holding
      BY <3>1, DecodeAssumption DEF SlotInv
    <3>4. QED  BY <3>1, <3>2, <3>3, DecodeAssumption DEF SlotInv, StageType, KeyType, Holding
  <2>7. CASE RefuseLoad(r)
    BY <2>7, DecodeAssumption
    DEF RefuseLoad, Return, Go, booksVars, sessionVars, callVars, registryVars, envVars,
        SlotInv, SlotTypes, StageType, KeyType, Holding
  <2>8. CASE ReleaseWait(r)
    BY <2>8, DecodeAssumption
    DEF ReleaseWait, Go, Post, booksVars, sessionVars, callVars, envVars, SlotInv, SlotTypes,
        StageType, KeyType, Holding
  <2>9. CASE LoadLands(r)
    <3>1. PICK id \in LoadIds : entry' = [key |-> key[r], load |-> id, stamp |-> epoch]
      BY <2>9 DEF LoadLands
    <3>2. entry' \in [key : Models, load : LoadIds, stamp : Nat] /\ entry'.key = key[r]
      BY <3>1 DEF KeyType, BooksTypeOK
    <3>3. entry' # NoModel
      BY <3>2, DecodeAssumption
    <3>4. QED
      BY <2>9, <3>2, <3>3, DecodeAssumption
      DEF LoadLands, Go, sessionVars, SlotInv, StageType, KeyType, Holding
  <2>10. CASE LoadFails(r)
    BY <2>10, DecodeAssumption
    DEF LoadFails, Return, Go, booksVars, sessionVars, callVars, registryVars, envVars,
        SlotInv, SlotTypes, StageType, KeyType, Holding
  <2>11. CASE ServingFailed(r)
    BY <2>11, DecodeAssumption
    DEF ServingFailed, Return, Condemned, RecordFailure, Go, sessionVars, callVars,
        registryVars, envVars, SlotInv, SlotTypes, StageType, KeyType, Holding
  <2>12. CASE Publish(r)
    BY <2>12, DecodeAssumption
    DEF Publish, Go, Condemned, booksVars, sessionVars, callVars, envVars, SlotInv, SlotTypes,
        StageType, KeyType, Holding
  <2>13. CASE SendStart(r)
    BY <2>13, DecodeAssumption
    DEF SendStart, Go, Post, booksVars, sessionVars, registryVars, envVars, SlotInv,
        SlotTypes, StageType, KeyType, Holding
  <2>14. CASE ReadToken(r)
    BY <2>14, DecodeAssumption
    DEF ReadToken, Go, GenerationSucceeded, booksVars, sessionVars, callVars, registryVars,
        envVars, SlotInv, SlotTypes, StageType, KeyType, Holding, Open
  <2>15. CASE ReadBounce(r)
    BY <2>15, DecodeAssumption
    DEF ReadBounce, Go, booksVars, sessionVars, callVars, registryVars, envVars, SlotInv,
        SlotTypes, StageType, KeyType, Holding, Open
  <2>16. CASE ReadEnd(r)
    BY <2>16, DecodeAssumption
    DEF ReadEnd, Return, Go, booksVars, sessionVars, callVars, registryVars, envVars, SlotInv,
        SlotTypes, StageType, KeyType, Holding, Open
  <2>17. QED
    BY <1>1, <2>1, <2>2, <2>3, <2>4, <2>5, <2>6, <2>7, <2>8, <2>9, <2>10, <2>11, <2>12, <2>13,
         <2>14, <2>15, <2>16
    DEF RequestNext, Serving, Reads
<1>2. CASE ThreadStep
  <2>1. CASE StrandJoin
    BY <2>1
    DEF StrandJoin, Tell, Receiving, booksVars, sessionVars, callVars, registryVars, envVars,
        SlotInv, SlotTypes, StageType, KeyType, Holding
  <2>2. CASE ReceiveStart
    BY <2>2, DecodeAssumption, Received
    DEF ReceiveStart, booksVars, callVars, clientVars, registryVars, envVars, SlotInv,
        SlotTypes, StageType, KeyType, Holding, ChannelInv
  <2>3. CASE ReceiveJoin
    BY <2>3, DecodeAssumption, Received
    DEF ReceiveJoin, booksVars, callVars, clientVars, registryVars, envVars, SlotInv,
        SlotTypes, StageType, KeyType, Holding
  <2>4. CASE ReceiveRelease
    BY <2>4, DecodeAssumption, Received
    DEF ReceiveRelease, Go, booksVars, callVars, registryVars, envVars, SlotInv, SlotTypes,
        StageType, KeyType, Holding, ChannelInv
  <2>5. CASE Turn
    BY <2>5, DecodeAssumption
    DEF Turn, booksVars, callVars, clientVars, envVars, SlotInv, SlotTypes, StageType,
        KeyType, Holding
  <2>6. CASE FillNext
    BY <2>6, DecodeAssumption
    DEF FillNext, booksVars, callVars, clientVars, registryVars, envVars, SlotInv, SlotTypes,
        StageType, KeyType, Holding, PlaceTypes
  <2>7. CASE DropAbandoned
    BY <2>7, DecodeAssumption
    DEF DropAbandoned, AfterAdmission, booksVars, callVars, clientVars, registryVars, envVars,
        SlotInv, SlotTypes, StageType, KeyType, Holding, PlaceTypes
  <2>8. CASE HandBack
    BY <2>8, DecodeAssumption
    DEF HandBack, booksVars, callVars, clientVars, registryVars, envVars, SlotInv, SlotTypes,
        StageType, KeyType, Holding, PlaceTypes
  <2>9. CASE Bounce
    BY <2>9, DecodeAssumption
    DEF Bounce, Tell, AfterAdmission, booksVars, callVars, registryVars, envVars, SlotInv,
        SlotTypes, StageType, KeyType, Holding, PlaceTypes
  <2>10. CASE StepEmpty
    BY <2>10, DecodeAssumption
    DEF StepEmpty, booksVars, callVars, clientVars, registryVars, envVars, SlotInv, SlotTypes,
        StageType, KeyType, Holding
  <2>11. CASE Guarded
    BY <2>11, DecodeAssumption
    DEF Guarded, Condemned, booksVars, clientVars, registryVars, envVars, SlotInv, SlotTypes,
        StageType, KeyType, Holding
  <2>12. CASE \E how \in Outcomes : CallReturns(how)
    BY <2>12, DecodeAssumption
    DEF CallReturns, NoteUnattributedPanic, booksVars, clientVars, registryVars, envVars,
        SlotInv, SlotTypes, StageType, KeyType, Holding
  <2>13. CASE Deliver
    BY <2>13, DecodeAssumption
    DEF Deliver, Forget, AfterAdmission, booksVars, registryVars, envVars, SlotInv, SlotTypes,
        StageType, KeyType, Holding, PlaceTypes
  <2>14. CASE FailOrdinary
    BY <2>14, DecodeAssumption
    DEF FailOrdinary, Tell, Forget, booksVars, registryVars, envVars, SlotInv, SlotTypes,
        StageType, KeyType, Holding
  <2>15. CASE JudgeDeviceFailed
    BY <2>15, DecodeAssumption
    DEF JudgeDeviceFailed, booksVars, callVars, clientVars, registryVars, envVars, SlotInv,
        SlotTypes, StageType, KeyType, Holding
  <2>16. CASE FailCloses
    BY <2>16, DecodeAssumption
    DEF FailCloses, booksVars, callVars, clientVars, envVars, SlotInv, SlotTypes, StageType,
        KeyType, Holding
  <2>17. CASE FailDecides
    BY <2>17, DecodeAssumption
    DEF FailDecides, Tell, Forget, RecordFailure, registryVars, envVars, SlotInv, SlotTypes,
        StageType, KeyType, Holding
  <2>18. CASE FailEvicts
    BY <2>18, DecodeAssumption
    DEF FailEvicts, booksVars, callVars, clientVars, registryVars, envVars, SlotInv,
        SlotTypes, StageType, KeyType, Holding
  <2>19. CASE MaybeEnd
    BY <2>19, DecodeAssumption
    DEF MaybeEnd, booksVars, callVars, clientVars, envVars, SlotInv, SlotTypes, StageType,
        KeyType, Holding
  <2>20. CASE Close
    BY <2>20, DecodeAssumption
    DEF Close, booksVars, callVars, clientVars, envVars, SlotInv, SlotTypes, StageType,
        KeyType, Holding
  <2>21. CASE LetGo
    BY <2>21, DecodeAssumption
    DEF LetGo, booksVars, callVars, clientVars, registryVars, envVars, SlotInv, SlotTypes,
        StageType, KeyType, Holding
  <2>22. QED
    BY <1>2, <2>1, <2>2, <2>3, <2>4, <2>5, <2>6, <2>7, <2>8, <2>9, <2>10, <2>11, <2>12, <2>13,
         <2>14, <2>15, <2>16, <2>17, <2>18, <2>19, <2>20, <2>21
    DEF ThreadStep
<1>3. CASE \/ IdleOut \/ SpanElapses \/ ReleaseBatch \/ UnloadIdle \/ TimePasses
          \/ (\E d \in Accelerators : DeviceFails(d)) \/ OutsideFails \/ OutsideEvicts
  <2>1. CASE \/ IdleOut \/ SpanElapses \/ ReleaseBatch \/ TimePasses
             \/ (\E d \in Accelerators : DeviceFails(d)) \/ OutsideFails \/ OutsideEvicts
    BY <2>1
    DEF IdleOut, booksVars, callVars, clientVars, registryVars, envVars, SpanElapses,
        ReleaseBatch, Post, sessionVars, TimePasses, CooldownEnds, DeviceFails, NoteDevicePanic,
        SlotInv, SlotTypes, StageType, KeyType, Holding, OutsideFails, FailsOutside, Contain,
        OutsideEvicts, EvictElsewhere
  <2>2. CASE UnloadIdle
    BY <2>2, DecodeAssumption
    DEF UnloadIdle, booksVars, sessionVars, callVars, clientVars, registryVars, envVars,
        SlotInv, SlotTypes, StageType, KeyType, Holding
  <2>3. QED
    BY <1>3, <2>1, <2>2
<1>4. CASE UNCHANGED vars
  BY <1>4
  DEF vars, booksVars, sessionVars, callVars, clientVars, registryVars, envVars, SlotInv,
      SlotTypes, StageType, KeyType, Holding
<1>5. QED
  BY <1>1, <1>2, <1>3, <1>4 DEF Next, OutsideFails, OutsideEvicts

\* Every step keeps what the messages say.
LEMMA ChannelStep ==
  SlotTypes /\ StageType /\ PlaceTypes /\ ChannelType /\ SlotInv /\ ChannelInv /\ [Next]_vars =>
  ChannelInv'
<1> SUFFICES ASSUME SlotTypes, StageType, PlaceTypes, ChannelType, SlotInv, ChannelInv,
                   [Next]_vars
             PROVE  ChannelInv'
  OBVIOUS
<1>1. ASSUME NEW r \in Requests, RequestNext(r)
      PROVE  ChannelInv'
  <2>1. CASE JoinMissed(r)
    BY <2>1
    DEF JoinMissed, booksVars, sessionVars, callVars, registryVars, envVars, ChannelInv,
        SlotInv, StageType, SlotTypes, Holding
  <2>2. CASE Arrive(r)
    BY <2>2, DecodeAssumption
    DEF Arrive, Go, booksVars, sessionVars, callVars, registryVars, envVars, ChannelInv,
        SlotInv, StageType, SlotTypes, Holding
  <2>3. CASE Join(r)
    <3>1. PICK n : /\ n \notin DOMAIN channel /\ DOMAIN channel' = DOMAIN channel \cup {n}
                   /\ channel'[n] = [kind |-> "join", from |-> r]
                   /\ \A i \in DOMAIN channel : channel'[i] = channel[i]
      BY <2>3, Posted DEF Join, Messages
    <3>2. channel'[n].kind = "join" /\ channel'[n].from = r
      BY <3>1
    <3>3. QED
      BY <2>3, <3>1, <3>2
      DEF Join, Go, sessionVars, ChannelInv, StageType
  <2>4. CASE HangUp(r)
    BY <2>4, DecodeAssumption
    DEF HangUp, Return, Go, booksVars, sessionVars, callVars, registryVars, envVars,
        ChannelInv, SlotInv, StageType, SlotTypes, Holding
  <2>5. CASE Queue(r)
    BY <2>5, DecodeAssumption
    DEF Queue, Go, booksVars, sessionVars, callVars, registryVars, envVars, ChannelInv,
        SlotInv, StageType, SlotTypes, Holding
  <2>6. CASE TakeSlot(r)
    BY <2>6, DecodeAssumption
    DEF TakeSlot, Go, Condemned, booksVars, sessionVars, registryVars, envVars, ChannelInv,
        SlotInv, StageType, SlotTypes, Holding
  <2>7. CASE RefuseLoad(r)
    BY <2>7, DecodeAssumption
    DEF RefuseLoad, Return, Go, booksVars, sessionVars, callVars, registryVars, envVars,
        ChannelInv, SlotInv, StageType, SlotTypes, Holding
  <2>8. CASE ReleaseWait(r)
    <3>1. PICK n : /\ n \notin DOMAIN channel /\ DOMAIN channel' = DOMAIN channel \cup {n}
                   /\ channel'[n] = [kind |-> "release", from |-> r]
                   /\ \A i \in DOMAIN channel : channel'[i] = channel[i]
      BY <2>8, Posted DEF ReleaseWait, Messages
    <3>2. channel'[n].kind = "release" /\ channel'[n].from = r
      BY <3>1
    <3>3. slot = r /\ ~held
      BY <2>8, DecodeAssumption DEF ReleaseWait, SlotInv, Holding
    <3>4. /\ pc[r] = "planning" /\ pc' = [pc EXCEPT ![r] = "releasing"]
          /\ UNCHANGED <<slot, held, at>>
      BY <2>8 DEF ReleaseWait, Go, sessionVars
    <3>5. \A i \in DOMAIN channel :
             /\ channel[i].kind # "start"
             /\ ~(channel[i].kind = "release" /\ channel[i].from \in Requests)
      BY <3>3, <3>4, DecodeAssumption DEF ChannelInv, SlotInv, Holding
    <3>6. QED
      BY <3>1, <3>2, <3>4, <3>5 DEF ChannelInv, StageType
  <2>9. CASE LoadLands(r)
    BY <2>9, DecodeAssumption
    DEF LoadLands, Go, LoadSucceeded, sessionVars, registryVars, envVars, ChannelInv, SlotInv,
        StageType, SlotTypes, Holding
  <2>10. CASE LoadFails(r)
    BY <2>10, DecodeAssumption
    DEF LoadFails, Return, Go, booksVars, sessionVars, callVars, registryVars, envVars,
        ChannelInv, SlotInv, StageType, SlotTypes, Holding
  <2>11. CASE ServingFailed(r)
    BY <2>11, DecodeAssumption
    DEF ServingFailed, Return, Condemned, RecordFailure, Go, sessionVars, callVars,
        registryVars, envVars, ChannelInv, SlotInv, StageType, SlotTypes, Holding
  <2>12. CASE Publish(r)
    BY <2>12, DecodeAssumption
    DEF Publish, Go, Condemned, booksVars, sessionVars, callVars, envVars, ChannelInv,
        SlotInv, StageType, SlotTypes, Holding
  <2>13. CASE SendStart(r)
    <3>1. PICK n : /\ n \notin DOMAIN channel /\ DOMAIN channel' = DOMAIN channel \cup {n}
                   /\ channel'[n] = [kind |-> "start", from |-> r]
                   /\ \A i \in DOMAIN channel : channel'[i] = channel[i]
      BY <2>13, Posted DEF SendStart, Messages
    <3>2. channel'[n].kind = "start" /\ channel'[n].from = r
      BY <3>1
    <3>3. slot = r /\ ~held /\ at = "top"
      BY <2>13, DecodeAssumption DEF SendStart, SlotInv, Holding
    <3>4. /\ pc[r] = "sending" /\ pc' = [pc EXCEPT ![r] = "batched"]
          /\ slot' = Thread /\ UNCHANGED <<held, at>>
      BY <2>13 DEF SendStart, Go, sessionVars
    <3>5. \A i \in DOMAIN channel : channel[i].kind # "start"
      BY <3>3, DecodeAssumption DEF ChannelInv
    <3>6. QED
      BY <3>1, <3>2, <3>3, <3>4, <3>5 DEF ChannelInv, StageType
  <2>14. CASE ReadToken(r)
    BY <2>14, DecodeAssumption
    DEF ReadToken, Go, GenerationSucceeded, booksVars, sessionVars, callVars, registryVars,
        envVars, ChannelInv, SlotInv, StageType, SlotTypes, Holding, Open
  <2>15. CASE ReadBounce(r)
    BY <2>15, DecodeAssumption
    DEF ReadBounce, Go, booksVars, sessionVars, callVars, registryVars, envVars, ChannelInv,
        SlotInv, StageType, SlotTypes, Holding, Open
  <2>16. CASE ReadEnd(r)
    BY <2>16, DecodeAssumption
    DEF ReadEnd, Return, Go, booksVars, sessionVars, callVars, registryVars, envVars,
        ChannelInv, SlotInv, StageType, SlotTypes, Holding, Open
  <2>17. QED
    BY <1>1, <2>1, <2>2, <2>3, <2>4, <2>5, <2>6, <2>7, <2>8, <2>9, <2>10, <2>11, <2>12, <2>13,
         <2>14, <2>15, <2>16
    DEF RequestNext, Serving, Reads
<1>2. CASE ThreadStep
  <2>1. CASE ReceiveStart
    BY <2>1, DecodeAssumption, Received
    DEF ReceiveStart, booksVars, callVars, clientVars, registryVars, envVars, ChannelInv,
        SlotInv, StageType, SlotTypes, Holding
  <2>2. CASE ReceiveJoin
    BY <2>2, DecodeAssumption, Received
    DEF ReceiveJoin, booksVars, callVars, clientVars, registryVars, envVars, ChannelInv,
        SlotInv, StageType, SlotTypes, Holding
  <2>3. CASE StrandJoin
    BY <2>3, DecodeAssumption, Received
    DEF StrandJoin, Tell, booksVars, sessionVars, callVars, registryVars, envVars, ChannelInv,
        SlotInv, StageType, SlotTypes, Holding
  <2>4. CASE ReceiveRelease
    BY <2>4, DecodeAssumption, Received
    DEF ReceiveRelease, Go, booksVars, callVars, registryVars, envVars, ChannelInv, SlotInv,
        StageType, SlotTypes, Holding
  <2>5. CASE Turn
    BY <2>5, DecodeAssumption
    DEF Turn, booksVars, callVars, clientVars, envVars, ChannelInv, SlotInv, StageType,
        SlotTypes, Holding
  <2>6. CASE FillNext
    BY <2>6, DecodeAssumption
    DEF FillNext, booksVars, callVars, clientVars, registryVars, envVars, ChannelInv, SlotInv,
        StageType, SlotTypes, Holding
  <2>7. CASE DropAbandoned
    BY <2>7, DecodeAssumption
    DEF DropAbandoned, AfterAdmission, booksVars, callVars, clientVars, registryVars, envVars,
        ChannelInv, SlotInv, StageType, SlotTypes, Holding
  <2>8. CASE HandBack
    BY <2>8, DecodeAssumption
    DEF HandBack, booksVars, callVars, clientVars, registryVars, envVars, ChannelInv, SlotInv,
        StageType, SlotTypes, Holding
  <2>9. CASE Bounce
    BY <2>9, DecodeAssumption
    DEF Bounce, Tell, AfterAdmission, booksVars, callVars, registryVars, envVars, ChannelInv,
        SlotInv, StageType, SlotTypes, Holding
  <2>10. CASE StepEmpty
    BY <2>10, DecodeAssumption
    DEF StepEmpty, booksVars, callVars, clientVars, registryVars, envVars, ChannelInv,
        SlotInv, StageType, SlotTypes, Holding
  <2>11. CASE Guarded
    BY <2>11, DecodeAssumption
    DEF Guarded, Condemned, booksVars, clientVars, registryVars, envVars, ChannelInv, SlotInv,
        StageType, SlotTypes, Holding
  <2>12. CASE \E how \in Outcomes : CallReturns(how)
    BY <2>12, DecodeAssumption
    DEF CallReturns, NoteUnattributedPanic, booksVars, clientVars, registryVars, envVars,
        ChannelInv, SlotInv, StageType, SlotTypes, Holding
  <2>13. CASE Deliver
    BY <2>13, DecodeAssumption
    DEF Deliver, Forget, AfterAdmission, booksVars, registryVars, envVars, ChannelInv,
        SlotInv, StageType, SlotTypes, Holding
  <2>14. CASE FailOrdinary
    BY <2>14, DecodeAssumption
    DEF FailOrdinary, Tell, Forget, booksVars, registryVars, envVars, ChannelInv, SlotInv,
        StageType, SlotTypes, Holding
  <2>15. CASE JudgeDeviceFailed
    BY <2>15, DecodeAssumption
    DEF JudgeDeviceFailed, booksVars, callVars, clientVars, registryVars, envVars, ChannelInv,
        SlotInv, StageType, SlotTypes, Holding
  <2>16. CASE FailCloses
    BY <2>16, DecodeAssumption
    DEF FailCloses, booksVars, callVars, clientVars, envVars, ChannelInv, SlotInv, StageType,
        SlotTypes, Holding
  <2>17. CASE FailDecides
    BY <2>17, DecodeAssumption
    DEF FailDecides, Tell, Forget, RecordFailure, registryVars, envVars, ChannelInv, SlotInv,
        StageType, SlotTypes, Holding
  <2>18. CASE FailEvicts
    BY <2>18, DecodeAssumption
    DEF FailEvicts, booksVars, callVars, clientVars, registryVars, envVars, ChannelInv,
        SlotInv, StageType, SlotTypes, Holding
  <2>19. CASE MaybeEnd
    BY <2>19, DecodeAssumption
    DEF MaybeEnd, booksVars, callVars, clientVars, envVars, ChannelInv, SlotInv, StageType,
        SlotTypes, Holding
  <2>20. CASE Close
    BY <2>20, DecodeAssumption
    DEF Close, booksVars, callVars, clientVars, envVars, ChannelInv, SlotInv, StageType,
        SlotTypes, Holding
  <2>21. CASE LetGo
    BY <2>21, DecodeAssumption
    DEF LetGo, booksVars, callVars, clientVars, registryVars, envVars, ChannelInv, SlotInv,
        StageType, SlotTypes, Holding
  <2>22. QED
    BY <1>2, <2>1, <2>2, <2>3, <2>4, <2>5, <2>6, <2>7, <2>8, <2>9, <2>10, <2>11, <2>12, <2>13,
         <2>14, <2>15, <2>16, <2>17, <2>18, <2>19, <2>20, <2>21
    DEF ThreadStep
<1>3. CASE \/ IdleOut \/ SpanElapses \/ ReleaseBatch \/ UnloadIdle \/ TimePasses
          \/ (\E d \in Accelerators : DeviceFails(d)) \/ OutsideFails \/ OutsideEvicts
  <2>1. CASE \/ IdleOut \/ SpanElapses \/ UnloadIdle \/ TimePasses
             \/ (\E d \in Accelerators : DeviceFails(d)) \/ OutsideFails
    BY <2>1
    DEF IdleOut, booksVars, callVars, clientVars, registryVars, envVars, SpanElapses,
        UnloadIdle, sessionVars, TimePasses, CooldownEnds, DeviceFails, NoteDevicePanic, ChannelInv,
        SlotInv, StageType, SlotTypes, Holding, OutsideFails, FailsOutside, Contain
  <2>2. CASE ReleaseBatch
    <3>1. PICK n : /\ n \notin DOMAIN channel /\ DOMAIN channel' = DOMAIN channel \cup {n}
                   /\ channel'[n] = [kind |-> "release", from |-> NoOne]
                   /\ \A i \in DOMAIN channel : channel'[i] = channel[i]
      BY <2>2, Posted DEF ReleaseBatch, Messages
    <3>2. channel'[n].kind = "release" /\ channel'[n].from = NoOne
      BY <3>1
    <3>3. QED
      BY <2>2, <3>1, <3>2, DecodeAssumption
      DEF ReleaseBatch, sessionVars, clientVars, ChannelInv
  <2>3. CASE OutsideEvicts
    <3>1. PICK n : /\ n \notin DOMAIN channel /\ DOMAIN channel' = DOMAIN channel \cup {n}
                   /\ channel'[n] = [kind |-> "release", from |-> NoOne]
                   /\ \A i \in DOMAIN channel : channel'[i] = channel[i]
      BY <2>3, Posted DEF OutsideEvicts, EvictElsewhere, Messages
    <3>2. channel'[n].kind = "release" /\ channel'[n].from = NoOne
      BY <3>1
    <3>3. QED
      BY <2>3, <3>1, <3>2, DecodeAssumption
      DEF OutsideEvicts, EvictElsewhere, sessionVars, clientVars, ChannelInv
  <2>4. QED
    BY <1>3, <2>1, <2>2, <2>3
<1>4. CASE UNCHANGED vars
  BY <1>4
  DEF vars, booksVars, sessionVars, callVars, clientVars, registryVars, envVars, ChannelInv,
      SlotInv, StageType, SlotTypes, Holding
<1>5. QED
  BY <1>1, <1>2, <1>3, <1>4 DEF Next, OutsideFails, OutsideEvicts

\* Every step keeps the registry closed unless a session is there to admit.
LEMMA RegistryStep ==
  SlotTypes /\ RegistryType /\ StageType /\ KeyType /\ PlaceTypes /\ ChannelType /\ SlotInv /\
  ChannelInv /\ RegistryInv /\ [Next]_vars => RegistryInv'
<1> SUFFICES ASSUME SlotTypes, RegistryType, StageType, KeyType, PlaceTypes, ChannelType,
                   SlotInv, ChannelInv, RegistryInv, [Next]_vars
             PROVE  RegistryInv'
  OBVIOUS
<1>1. ASSUME NEW r \in Requests, RequestNext(r)
      PROVE  RegistryInv'
  <2>1. CASE JoinMissed(r)
    BY <2>1
    DEF JoinMissed, booksVars, sessionVars, callVars, registryVars, envVars, RegistryInv,
        RegistryType, SlotInv, StageType, SlotTypes, Holding
  <2>2. CASE Arrive(r)
    BY <2>2, DecodeAssumption
    DEF Arrive, Go, booksVars, sessionVars, callVars, registryVars, envVars, RegistryInv,
        RegistryType, SlotInv, StageType, SlotTypes, Holding
  <2>3. CASE Join(r)
    BY <2>3, DecodeAssumption
    DEF Join, Go, Post, booksVars, sessionVars, callVars, registryVars, envVars, RegistryInv,
        RegistryType, SlotInv, StageType, SlotTypes, Holding
  <2>4. CASE HangUp(r)
    BY <2>4, DecodeAssumption
    DEF HangUp, Return, Go, booksVars, sessionVars, callVars, registryVars, envVars,
        RegistryInv, RegistryType, SlotInv, StageType, SlotTypes, Holding
  <2>5. CASE Queue(r)
    BY <2>5, DecodeAssumption
    DEF Queue, Go, booksVars, sessionVars, callVars, registryVars, envVars, RegistryInv,
        RegistryType, SlotInv, StageType, SlotTypes, Holding
  <2>6. CASE TakeSlot(r)
    BY <2>6, DecodeAssumption
    DEF TakeSlot, Go, Condemned, booksVars, sessionVars, registryVars, envVars, RegistryInv,
        RegistryType, SlotInv, StageType, SlotTypes, Holding
  <2>7. CASE RefuseLoad(r)
    BY <2>7, DecodeAssumption
    DEF RefuseLoad, Return, Go, booksVars, sessionVars, callVars, registryVars, envVars,
        RegistryInv, RegistryType, SlotInv, StageType, SlotTypes, Holding
  <2>8. CASE ReleaseWait(r)
    BY <2>8, DecodeAssumption
    DEF ReleaseWait, Go, Post, booksVars, sessionVars, callVars, envVars, RegistryInv,
        RegistryType, SlotInv, StageType, SlotTypes, Holding
  <2>9. CASE LoadLands(r)
    BY <2>9, DecodeAssumption
    DEF LoadLands, Go, LoadSucceeded, sessionVars, registryVars, envVars, RegistryInv,
        RegistryType, SlotInv, StageType, SlotTypes, Holding
  <2>10. CASE LoadFails(r)
    BY <2>10, DecodeAssumption
    DEF LoadFails, Return, Go, booksVars, sessionVars, callVars, registryVars, envVars,
        RegistryInv, RegistryType, SlotInv, StageType, SlotTypes, Holding
  <2>11. CASE ServingFailed(r)
    BY <2>11, DecodeAssumption
    DEF ServingFailed, Return, Condemned, RecordFailure, Go, sessionVars, callVars,
        registryVars, envVars, RegistryInv, RegistryType, SlotInv, StageType, SlotTypes,
        Holding
  <2>12. CASE Publish(r)
    BY <2>12, DecodeAssumption
    DEF Publish, Go, Condemned, booksVars, sessionVars, callVars, envVars, RegistryInv,
        RegistryType, SlotInv, StageType, SlotTypes, Holding
  <2>13. CASE SendStart(r)
    BY <2>13, DecodeAssumption
    DEF SendStart, Go, Post, booksVars, sessionVars, registryVars, envVars, RegistryInv,
        RegistryType, SlotInv, StageType, SlotTypes, Holding
  <2>14. CASE ReadToken(r)
    BY <2>14, DecodeAssumption
    DEF ReadToken, Go, GenerationSucceeded, booksVars, sessionVars, callVars, registryVars,
        envVars, RegistryInv, RegistryType, SlotInv, StageType, SlotTypes, Holding, Open
  <2>15. CASE ReadBounce(r)
    BY <2>15, DecodeAssumption
    DEF ReadBounce, Go, booksVars, sessionVars, callVars, registryVars, envVars, RegistryInv,
        RegistryType, SlotInv, StageType, SlotTypes, Holding, Open
  <2>16. CASE ReadEnd(r)
    BY <2>16, DecodeAssumption
    DEF ReadEnd, Return, Go, booksVars, sessionVars, callVars, registryVars, envVars,
        RegistryInv, RegistryType, SlotInv, StageType, SlotTypes, Holding, Open
  <2>17. QED
    BY <1>1, <2>1, <2>2, <2>3, <2>4, <2>5, <2>6, <2>7, <2>8, <2>9, <2>10, <2>11, <2>12, <2>13,
         <2>14, <2>15, <2>16
    DEF RequestNext, Serving, Reads
<1>2. CASE ThreadStep
  <2>1. CASE ReceiveStart
    BY <2>1, DecodeAssumption, Received
    DEF ReceiveStart, booksVars, callVars, clientVars, registryVars, envVars, RegistryInv,
        RegistryType, SlotInv, StageType, SlotTypes, Holding, ChannelInv
  <2>2. CASE ReceiveJoin
    BY <2>2, DecodeAssumption, Received
    DEF ReceiveJoin, booksVars, callVars, clientVars, registryVars, envVars, RegistryInv,
        RegistryType, SlotInv, StageType, SlotTypes, Holding, ChannelInv
  <2>3. CASE StrandJoin
    BY <2>3, DecodeAssumption, Received
    DEF StrandJoin, Tell, booksVars, sessionVars, callVars, registryVars, envVars,
        RegistryInv, RegistryType, SlotInv, StageType, SlotTypes, Holding, ChannelInv
  <2>4. CASE ReceiveRelease
    BY <2>4, DecodeAssumption, Received
    DEF ReceiveRelease, Go, booksVars, callVars, registryVars, envVars, RegistryInv,
        RegistryType, SlotInv, StageType, SlotTypes, Holding, ChannelInv
  <2>5. CASE Turn
    BY <2>5, DecodeAssumption
    DEF Turn, booksVars, callVars, clientVars, envVars, RegistryInv, RegistryType, SlotInv,
        StageType, SlotTypes, Holding
  <2>6. CASE FillNext
    BY <2>6, DecodeAssumption
    DEF FillNext, booksVars, callVars, clientVars, registryVars, envVars, RegistryInv,
        RegistryType, SlotInv, StageType, SlotTypes, Holding, PlaceTypes
  <2>7. CASE DropAbandoned
    BY <2>7, DecodeAssumption
    DEF DropAbandoned, AfterAdmission, booksVars, callVars, clientVars, registryVars, envVars,
        RegistryInv, RegistryType, SlotInv, StageType, SlotTypes, Holding, PlaceTypes
  <2>8. CASE HandBack
    BY <2>8, DecodeAssumption
    DEF HandBack, booksVars, callVars, clientVars, registryVars, envVars, RegistryInv,
        RegistryType, SlotInv, StageType, SlotTypes, Holding, PlaceTypes
  <2>9. CASE Bounce
    BY <2>9, DecodeAssumption
    DEF Bounce, Tell, AfterAdmission, booksVars, callVars, registryVars, envVars, RegistryInv,
        RegistryType, SlotInv, StageType, SlotTypes, Holding, PlaceTypes
  <2>10. CASE StepEmpty
    BY <2>10, DecodeAssumption
    DEF StepEmpty, booksVars, callVars, clientVars, registryVars, envVars, RegistryInv,
        RegistryType, SlotInv, StageType, SlotTypes, Holding
  <2>11. CASE Guarded
    BY <2>11, DecodeAssumption
    DEF Guarded, Condemned, booksVars, clientVars, registryVars, envVars, RegistryInv,
        RegistryType, SlotInv, StageType, SlotTypes, Holding
  <2>12. CASE \E how \in Outcomes : CallReturns(how)
    BY <2>12, DecodeAssumption
    DEF CallReturns, NoteUnattributedPanic, booksVars, clientVars, registryVars, envVars,
        RegistryInv, RegistryType, SlotInv, StageType, SlotTypes, Holding
  <2>13. CASE Deliver
    BY <2>13, DecodeAssumption
    DEF Deliver, Forget, AfterAdmission, booksVars, registryVars, envVars, RegistryInv,
        RegistryType, SlotInv, StageType, SlotTypes, Holding, PlaceTypes
  <2>14. CASE FailOrdinary
    BY <2>14, DecodeAssumption
    DEF FailOrdinary, Tell, Forget, booksVars, registryVars, envVars, RegistryInv,
        RegistryType, SlotInv, StageType, SlotTypes, Holding
  <2>15. CASE JudgeDeviceFailed
    BY <2>15, DecodeAssumption
    DEF JudgeDeviceFailed, booksVars, callVars, clientVars, registryVars, envVars,
        RegistryInv, RegistryType, SlotInv, StageType, SlotTypes, Holding
  <2>16. CASE FailCloses
    BY <2>16, DecodeAssumption
    DEF FailCloses, booksVars, callVars, clientVars, envVars, RegistryInv, RegistryType,
        SlotInv, StageType, SlotTypes, Holding, NoSession
  <2>17. CASE FailDecides
    BY <2>17, DecodeAssumption
    DEF FailDecides, Tell, Forget, RecordFailure, registryVars, envVars, RegistryInv,
        RegistryType, SlotInv, StageType, SlotTypes, Holding
  <2>18. CASE FailEvicts
    BY <2>18, DecodeAssumption
    DEF FailEvicts, booksVars, callVars, clientVars, registryVars, envVars, RegistryInv,
        RegistryType, SlotInv, StageType, SlotTypes, Holding
  <2>19. CASE MaybeEnd
    BY <2>19, DecodeAssumption
    DEF MaybeEnd, booksVars, callVars, clientVars, envVars, RegistryInv, RegistryType,
        SlotInv, StageType, SlotTypes, Holding
  <2>20. CASE Close
    BY <2>20, DecodeAssumption
    DEF Close, booksVars, callVars, clientVars, envVars, RegistryInv, RegistryType, SlotInv,
        StageType, SlotTypes, Holding, NoSession
  <2>21. CASE LetGo
    BY <2>21, DecodeAssumption
    DEF LetGo, booksVars, callVars, clientVars, registryVars, envVars, RegistryInv,
        RegistryType, SlotInv, StageType, SlotTypes, Holding
  <2>22. QED
    BY <1>2, <2>1, <2>2, <2>3, <2>4, <2>5, <2>6, <2>7, <2>8, <2>9, <2>10, <2>11, <2>12, <2>13,
         <2>14, <2>15, <2>16, <2>17, <2>18, <2>19, <2>20, <2>21
    DEF ThreadStep
<1>3. CASE \/ IdleOut \/ SpanElapses \/ ReleaseBatch \/ UnloadIdle \/ TimePasses
          \/ (\E d \in Accelerators : DeviceFails(d)) \/ OutsideFails \/ OutsideEvicts
  <2>1. CASE \/ IdleOut \/ SpanElapses \/ TimePasses
             \/ (\E d \in Accelerators : DeviceFails(d)) \/ OutsideFails
    BY <2>1
    DEF IdleOut, booksVars, callVars, clientVars, registryVars, envVars, SpanElapses,
        TimePasses, CooldownEnds, sessionVars, DeviceFails, NoteDevicePanic, RegistryInv,
        RegistryType, SlotInv, StageType, SlotTypes, Holding, OutsideFails, FailsOutside, Contain
  <2>2. CASE ReleaseBatch
    BY <2>2, DecodeAssumption
    DEF ReleaseBatch, Post, booksVars, sessionVars, callVars, clientVars, RegistryInv,
        RegistryType, SlotInv, StageType, SlotTypes, Holding
  <2>3. CASE UnloadIdle
    BY <2>3, DecodeAssumption
    DEF UnloadIdle, booksVars, sessionVars, callVars, clientVars, registryVars, envVars,
        RegistryInv, RegistryType, SlotInv, StageType, SlotTypes, Holding
  <2>4. CASE OutsideEvicts
    BY <2>4, DecodeAssumption
    DEF OutsideEvicts, EvictElsewhere, Post, booksVars, sessionVars, callVars, clientVars,
        RegistryInv,
        RegistryType, SlotInv, StageType, SlotTypes, Holding
  <2>5. QED
    BY <1>3, <2>1, <2>2, <2>3, <2>4
<1>4. CASE UNCHANGED vars
  BY <1>4
  DEF vars, booksVars, sessionVars, callVars, clientVars, registryVars, envVars, RegistryInv,
      RegistryType, SlotInv, StageType, SlotTypes, Holding
<1>5. QED
  BY <1>1, <1>2, <1>3, <1>4 DEF Next, OutsideFails, OutsideEvicts

\* But for a load that lands and a request that passes its check, no step adds
\* to the loads past a latch or to those who may: the latch is never undone.
LatchKept ==
  /\ lateLoads' = lateLoads /\ (exiting => exiting')
  /\ \A r \in Requests : pc'[r] \in Checked => pc[r] \in Checked

LEMMA ChecksAreKept ==
  ASSUME StageType, ChannelType, ChannelInv, [Next]_vars,
         ~\E r \in Requests : ReleaseWait(r) \/ LoadLands(r)
  PROVE  LatchKept
<1> USE DEF StageType, Checked, Go, booksVars, clientVars, envVars
<1>1. ASSUME NEW r \in Requests, RequestNext(r)
      PROVE  LatchKept
  <2>1. CASE \/ Arrive(r) \/ Join(r) \/ JoinMissed(r) \/ HangUp(r) \/ Queue(r) \/ TakeSlot(r)
             \/ RefuseLoad(r) \/ LoadFails(r) \/ Publish(r) \/ SendStart(r) \/ ReadBounce(r)
             \/ ReadEnd(r)
    BY <2>1
    DEF Arrive, Join, JoinMissed, HangUp, Queue, TakeSlot, RefuseLoad, LoadFails, Publish,
        SendStart, ReadBounce, ReadEnd, Return, LatchKept
  <2>2. CASE ServingFailed(r)
    BY <2>2 DEF ServingFailed, Return, RecordFailure, LatchKept
  <2>3. CASE ReadToken(r)
    BY <2>3 DEF ReadToken, GenerationSucceeded, LatchKept
  <2>4. QED  BY <1>1, <2>1, <2>2, <2>3 DEF RequestNext, Serving, Reads
<1>2. CASE ThreadStep
  <2>1. CASE \/ ReceiveStart \/ ReceiveJoin \/ StrandJoin \/ Turn \/ FillNext \/ DropAbandoned
             \/ HandBack \/ Bounce \/ StepEmpty \/ Guarded \/ Deliver \/ FailOrdinary
             \/ JudgeDeviceFailed \/ FailCloses \/ FailEvicts \/ MaybeEnd \/ Close \/ LetGo
    <3>1. UNCHANGED <<pc, exiting, lateLoads>>
      BY <2>1
      DEF ReceiveStart, ReceiveJoin, StrandJoin, Turn, FillNext, DropAbandoned, HandBack, Bounce,
          StepEmpty, Guarded, Deliver, FailOrdinary, JudgeDeviceFailed, FailCloses, FailEvicts,
          MaybeEnd, Close, LetGo
    <3>2. QED  BY <3>1 DEF LatchKept
  <2>2. CASE ReceiveRelease
    <3>1. /\ 1 \in DOMAIN channel /\ Head(channel) = channel[1] /\ channel[1].kind = "release"
      BY <2>2, Received DEF ReceiveRelease
    <3>2. Head(channel).from \in Requests => pc[Head(channel).from] = "releasing"
      BY <3>1 DEF ChannelInv
    <3>3. lateLoads' = lateLoads /\ exiting' = exiting
      BY <2>2 DEF ReceiveRelease
    <3>4. \A r \in Requests : pc'[r] \in Checked => pc[r] \in Checked
      BY <2>2, <3>2 DEF ReceiveRelease
    <3>5. QED  BY <3>3, <3>4 DEF LatchKept
  <2>3. CASE \E how \in Outcomes : CallReturns(how)
    BY <2>3 DEF CallReturns, NoteUnattributedPanic, LatchKept
  <2>4. CASE FailDecides
    BY <2>4 DEF FailDecides, RecordFailure, LatchKept
  <2>5. QED  BY <1>2, <2>1, <2>2, <2>3, <2>4 DEF ThreadStep
<1>3. CASE \/ IdleOut \/ SpanElapses \/ ReleaseBatch \/ UnloadIdle \/ TimePasses
          \/ (\E d \in Accelerators : DeviceFails(d)) \/ OutsideFails \/ OutsideEvicts
  <2>1. UNCHANGED <<pc, lateLoads>>
    BY <1>3
    DEF IdleOut, SpanElapses, ReleaseBatch, UnloadIdle, TimePasses, DeviceFails, OutsideFails,
        FailsOutside, Contain, OutsideEvicts, EvictElsewhere
  <2>2. CASE OutsideFails
    <3>1. exiting => exiting'
      BY <2>2
      DEF OutsideFails, FailsOutside, NoteUnattributedPanic, Contain, RecordFailure
    <3>2. QED  BY <2>1, <3>1 DEF LatchKept
  <2>3. CASE ~OutsideFails
    <3>1. exiting' = exiting
      BY <1>3, <2>3
      DEF IdleOut, SpanElapses, ReleaseBatch, UnloadIdle, TimePasses, CooldownEnds, DeviceFails,
          NoteDevicePanic, OutsideEvicts, EvictElsewhere
    <3>2. QED  BY <2>1, <3>1 DEF LatchKept
  <2>4. QED  BY <2>2, <2>3
<1>4. CASE UNCHANGED vars
  BY <1>4 DEF vars, LatchKept
<1>5. QED
  BY <1>1, <1>2, <1>3, <1>4 DEF Next, OutsideFails, OutsideEvicts

\* Every step keeps the loads past a latch to the one that held the slot.
LEMMA LatchStep ==
  Bounds /\ StageType /\ ChannelType /\ SlotInv /\ ChannelInv /\ LatchInv /\ [Next]_vars
  => LatchInv'
<1> SUFFICES ASSUME Bounds, StageType, ChannelType, SlotInv, ChannelInv, LatchInv, [Next]_vars
             PROVE  LatchInv'
  OBVIOUS
<1>1. lateLoads \in Nat  BY DEF Bounds
<1>2. CASE \E r \in Requests : LoadLands(r)
  <2>1. PICK r \in Requests : LoadLands(r)  BY <1>2
  <2>2. /\ pc[r] = "loading" /\ pc' = [pc EXCEPT ![r] = "resident"] /\ exiting' = exiting
        /\ lateLoads' = IF exiting THEN lateLoads + 1 ELSE lateLoads
    BY <2>1 DEF LoadLands, LoadSucceeded, Go
  <2>3. lateLoads = 0  BY <1>1, <2>2 DEF LatchInv, Checked
  <2>4. \A q \in Requests : pc[q] \in Checked => q = r
    BY <2>2 DEF SlotInv, Holding, Checked
  <2>5. \A q \in Requests : pc'[q] \notin Checked
    BY <2>2, <2>4 DEF StageType, Checked
  <2>6. QED  BY <2>2, <2>3, <2>5 DEF LatchInv
<1>3. CASE \E r \in Requests : ReleaseWait(r)
  <2>1. ~exiting /\ lateLoads' = lateLoads  BY <1>3 DEF ReleaseWait, envVars
  <2>2. QED  BY <1>1, <2>1 DEF LatchInv
<1>4. CASE ~\E r \in Requests : ReleaseWait(r) \/ LoadLands(r)
  <2>1. LatchKept  BY <1>4, ChecksAreKept
  <2>2. QED  BY <1>1, <2>1 DEF LatchInv, LatchKept
<1>5. QED  BY <1>2, <1>3, <1>4

\* Every step keeps the thread's hands empty between admissions and calls.
LEMMA JobStep ==
  PlaceTypes /\ HandTypes /\ ChannelType /\ Lists /\ ChannelInv /\ JobInv /\ [Next]_vars =>
  JobInv'
<1> SUFFICES ASSUME PlaceTypes, HandTypes, ChannelType, Lists, ChannelInv, JobInv, [Next]_vars
             PROVE  JobInv'
  OBVIOUS
<1>1. ASSUME NEW r \in Requests, RequestNext(r)
      PROVE  JobInv'
  <2>1. CASE \/ Arrive(r) \/ Join(r) \/ JoinMissed(r) \/ HangUp(r) \/ Queue(r) \/ TakeSlot(r)
             \/ RefuseLoad(r) \/ ReleaseWait(r) \/ LoadLands(r) \/ LoadFails(r)
             \/ ServingFailed(r) \/ Publish(r) \/ SendStart(r) \/ ReadToken(r) \/ ReadBounce(r)
             \/ ReadEnd(r)
    BY <2>1
    DEF Arrive, Go, booksVars, sessionVars, callVars, registryVars, envVars, Join, Post,
        JoinMissed, HangUp, Return, Queue, TakeSlot, Condemned, RefuseLoad, ReleaseWait,
        LoadLands, LoadSucceeded, LoadFails, ServingFailed, RecordFailure, Publish, SendStart,
        ReadToken, GenerationSucceeded, ReadBounce, ReadEnd, JobInv, HandTypes
  <2>2. QED
    BY <1>1, <2>1
    DEF RequestNext, Serving, Reads
<1>2. CASE ThreadStep
  <2>1. CASE StrandJoin \/ ReceiveRelease
    BY <2>1
    DEF StrandJoin, Tell, Receiving, booksVars, sessionVars, callVars, registryVars, envVars,
        ReceiveRelease, Go, JobInv, HandTypes
  <2>2. CASE ReceiveStart
    BY <2>2, DecodeAssumption, Received
    DEF ReceiveStart, booksVars, callVars, clientVars, registryVars, envVars, JobInv,
        HandTypes, ChannelInv
  <2>3. CASE ReceiveJoin
    BY <2>3, DecodeAssumption, Received
    DEF ReceiveJoin, booksVars, callVars, clientVars, registryVars, envVars, JobInv,
        HandTypes, ChannelInv
  <2>4. CASE Turn
    BY <2>4, DecodeAssumption
    DEF Turn, booksVars, callVars, clientVars, envVars, JobInv, HandTypes
  <2>5. CASE FillNext
    BY <2>5, DecodeAssumption
    DEF FillNext, booksVars, callVars, clientVars, registryVars, envVars, JobInv, HandTypes,
        PlaceTypes, Lists
  <2>6. CASE DropAbandoned
    BY <2>6, DecodeAssumption
    DEF DropAbandoned, AfterAdmission, booksVars, callVars, clientVars, registryVars, envVars,
        JobInv, HandTypes, PlaceTypes
  <2>7. CASE HandBack
    BY <2>7, DecodeAssumption
    DEF HandBack, booksVars, callVars, clientVars, registryVars, envVars, JobInv, HandTypes,
        PlaceTypes
  <2>8. CASE Bounce
    BY <2>8, DecodeAssumption
    DEF Bounce, Tell, AfterAdmission, booksVars, callVars, registryVars, envVars, JobInv,
        HandTypes, PlaceTypes
  <2>9. CASE StepEmpty
    BY <2>9, DecodeAssumption
    DEF StepEmpty, booksVars, callVars, clientVars, registryVars, envVars, JobInv, HandTypes
  <2>10. CASE Guarded
    BY <2>10, DecodeAssumption
    DEF Guarded, Condemned, booksVars, clientVars, registryVars, envVars, JobInv, HandTypes
  <2>11. CASE \E how \in Outcomes : CallReturns(how)
    BY <2>11, DecodeAssumption
    DEF CallReturns, NoteUnattributedPanic, booksVars, clientVars, registryVars, envVars,
        JobInv, HandTypes
  <2>12. CASE Deliver
    BY <2>12, DecodeAssumption
    DEF Deliver, Forget, AfterAdmission, booksVars, registryVars, envVars, JobInv, HandTypes,
        PlaceTypes
  <2>13. CASE FailOrdinary
    BY <2>13, DecodeAssumption
    DEF FailOrdinary, Tell, Forget, booksVars, registryVars, envVars, JobInv, HandTypes
  <2>14. CASE JudgeDeviceFailed
    BY <2>14, DecodeAssumption
    DEF JudgeDeviceFailed, booksVars, callVars, clientVars, registryVars, envVars, JobInv,
        HandTypes
  <2>15. CASE FailCloses
    BY <2>15, DecodeAssumption
    DEF FailCloses, booksVars, callVars, clientVars, envVars, JobInv, HandTypes
  <2>16. CASE FailDecides
    BY <2>16, DecodeAssumption
    DEF FailDecides, Tell, Forget, RecordFailure, registryVars, envVars, JobInv, HandTypes
  <2>17. CASE FailEvicts
    BY <2>17, DecodeAssumption
    DEF FailEvicts, booksVars, callVars, clientVars, registryVars, envVars, JobInv, HandTypes
  <2>18. CASE MaybeEnd
    BY <2>18, DecodeAssumption
    DEF MaybeEnd, booksVars, callVars, clientVars, envVars, JobInv, HandTypes
  <2>19. CASE Close
    BY <2>19, DecodeAssumption
    DEF Close, booksVars, callVars, clientVars, envVars, JobInv, HandTypes
  <2>20. CASE LetGo
    BY <2>20, DecodeAssumption
    DEF LetGo, booksVars, callVars, clientVars, registryVars, envVars, JobInv, HandTypes
  <2>21. QED
    BY <1>2, <2>1, <2>2, <2>3, <2>4, <2>5, <2>6, <2>7, <2>8, <2>9, <2>10, <2>11, <2>12, <2>13,
         <2>14, <2>15, <2>16, <2>17, <2>18, <2>19, <2>20
    DEF ThreadStep
<1>3. CASE \/ IdleOut \/ SpanElapses \/ ReleaseBatch \/ UnloadIdle \/ TimePasses
          \/ (\E d \in Accelerators : DeviceFails(d)) \/ OutsideFails \/ OutsideEvicts
  <2>1. CASE \/ IdleOut \/ SpanElapses \/ ReleaseBatch \/ UnloadIdle \/ TimePasses
             \/ (\E d \in Accelerators : DeviceFails(d)) \/ OutsideFails \/ OutsideEvicts
    BY <2>1
    DEF IdleOut, booksVars, callVars, clientVars, registryVars, envVars, SpanElapses,
        ReleaseBatch, Post, sessionVars, UnloadIdle, TimePasses, CooldownEnds, DeviceFails,
        NoteDevicePanic, JobInv, HandTypes, OutsideFails, FailsOutside, Contain, OutsideEvicts,
        EvictElsewhere
  <2>2. QED
    BY <1>3, <2>1
<1>4. CASE UNCHANGED vars
  BY <1>4
  DEF vars, booksVars, sessionVars, callVars, clientVars, registryVars, envVars, JobInv,
      HandTypes
<1>5. QED
  BY <1>1, <1>2, <1>3, <1>4 DEF Next, OutsideFails, OutsideEvicts

\* Every step keeps a load from landing beside a batch.
LEMMA NoLoadBeside ==
  StageType /\ PlaceTypes /\ ChannelType /\ SlotInv /\ ChannelInv /\ NoBatchBesideALoad /\
  [Next]_vars => NoBatchBesideALoad'
<1> SUFFICES ASSUME StageType, PlaceTypes, ChannelType, SlotInv, ChannelInv, NoBatchBesideALoad,
                   [Next]_vars
             PROVE  NoBatchBesideALoad'
  OBVIOUS
<1>1. ASSUME NEW r \in Requests, RequestNext(r)
      PROVE  NoBatchBesideALoad'
  <2>1. CASE JoinMissed(r)
    BY <2>1
    DEF JoinMissed, booksVars, sessionVars, callVars, registryVars, envVars,
        NoBatchBesideALoad, StageType
  <2>2. CASE Arrive(r)
    BY <2>2, DecodeAssumption
    DEF Arrive, Go, booksVars, sessionVars, callVars, registryVars, envVars,
        NoBatchBesideALoad, StageType
  <2>3. CASE Join(r)
    BY <2>3, DecodeAssumption
    DEF Join, Go, Post, booksVars, sessionVars, callVars, registryVars, envVars,
        NoBatchBesideALoad, StageType
  <2>4. CASE HangUp(r)
    BY <2>4, DecodeAssumption
    DEF HangUp, Return, Go, booksVars, sessionVars, callVars, registryVars, envVars,
        NoBatchBesideALoad, StageType
  <2>5. CASE Queue(r)
    BY <2>5, DecodeAssumption
    DEF Queue, Go, booksVars, sessionVars, callVars, registryVars, envVars,
        NoBatchBesideALoad, StageType
  <2>6. CASE TakeSlot(r)
    BY <2>6, DecodeAssumption
    DEF TakeSlot, Go, Condemned, booksVars, sessionVars, registryVars, envVars,
        NoBatchBesideALoad, StageType
  <2>7. CASE RefuseLoad(r)
    BY <2>7, DecodeAssumption
    DEF RefuseLoad, Return, Go, booksVars, sessionVars, callVars, registryVars, envVars,
        NoBatchBesideALoad, StageType
  <2>8. CASE ReleaseWait(r)
    BY <2>8, DecodeAssumption
    DEF ReleaseWait, Go, Post, booksVars, sessionVars, callVars, envVars, NoBatchBesideALoad,
        StageType
  <2>9. CASE LoadLands(r)
    BY <2>9, DecodeAssumption
    DEF LoadLands, Go, LoadSucceeded, sessionVars, registryVars, envVars, NoBatchBesideALoad,
        StageType
  <2>10. CASE LoadFails(r)
    BY <2>10, DecodeAssumption
    DEF LoadFails, Return, Go, booksVars, sessionVars, callVars, registryVars, envVars,
        NoBatchBesideALoad, StageType
  <2>11. CASE ServingFailed(r)
    BY <2>11, DecodeAssumption
    DEF ServingFailed, Return, Condemned, RecordFailure, Go, sessionVars, callVars,
        registryVars, envVars, NoBatchBesideALoad, StageType
  <2>12. CASE Publish(r)
    BY <2>12, DecodeAssumption
    DEF Publish, Go, Condemned, booksVars, sessionVars, callVars, envVars, NoBatchBesideALoad,
        StageType
  <2>13. CASE SendStart(r)
    BY <2>13, DecodeAssumption
    DEF SendStart, Go, Post, booksVars, sessionVars, registryVars, envVars,
        NoBatchBesideALoad, StageType
  <2>14. CASE ReadToken(r)
    BY <2>14, DecodeAssumption
    DEF ReadToken, Go, GenerationSucceeded, booksVars, sessionVars, callVars, registryVars,
        envVars, NoBatchBesideALoad, StageType, Open
  <2>15. CASE ReadBounce(r)
    BY <2>15, DecodeAssumption
    DEF ReadBounce, Go, booksVars, sessionVars, callVars, registryVars, envVars,
        NoBatchBesideALoad, StageType, Open
  <2>16. CASE ReadEnd(r)
    BY <2>16, DecodeAssumption
    DEF ReadEnd, Return, Go, booksVars, sessionVars, callVars, registryVars, envVars,
        NoBatchBesideALoad, StageType, Open
  <2>17. QED
    BY <1>1, <2>1, <2>2, <2>3, <2>4, <2>5, <2>6, <2>7, <2>8, <2>9, <2>10, <2>11, <2>12, <2>13,
         <2>14, <2>15, <2>16
    DEF RequestNext, Serving, Reads
<1>2. CASE ThreadStep
  <2>1. CASE \/ ReceiveJoin \/ StrandJoin \/ Turn \/ FillNext \/ DropAbandoned \/ HandBack
             \/ Bounce \/ StepEmpty \/ Guarded \/ Deliver \/ JudgeDeviceFailed \/ FailCloses
             \/ FailEvicts \/ MaybeEnd \/ Close \/ (\E how \in Outcomes : CallReturns(how))
    BY <2>1
    DEF ReceiveJoin, Receiving, booksVars, callVars, clientVars, registryVars, envVars,
        StrandJoin, Tell, sessionVars, Turn, FillNext, DropAbandoned, AfterAdmission, HandBack,
        Bounce, StepEmpty, Guarded, Condemned, CallReturns, NoteUnattributedPanic, Deliver,
        Forget, JudgeDeviceFailed, FailCloses, FailEvicts, MaybeEnd, Close, NoBatchBesideALoad,
        StageType
  <2>2. CASE ReceiveStart
    BY <2>2, DecodeAssumption, Received
    DEF ReceiveStart, booksVars, callVars, clientVars, registryVars, envVars,
        NoBatchBesideALoad, StageType, ChannelInv, SlotInv, Holding
  <2>3. CASE ReceiveRelease
    BY <2>3, DecodeAssumption, Received
    DEF ReceiveRelease, Go, booksVars, callVars, registryVars, envVars, NoBatchBesideALoad,
        StageType, ChannelInv, SlotInv, Holding
  <2>4. CASE FailOrdinary
    BY <2>4, DecodeAssumption
    DEF FailOrdinary, Tell, Forget, booksVars, registryVars, envVars, NoBatchBesideALoad,
        StageType, SlotInv, Holding
  <2>5. CASE FailDecides
    BY <2>5, DecodeAssumption
    DEF FailDecides, Tell, Forget, RecordFailure, registryVars, envVars, NoBatchBesideALoad,
        StageType
  <2>6. CASE LetGo
    BY <2>6, DecodeAssumption
    DEF LetGo, booksVars, callVars, clientVars, registryVars, envVars, NoBatchBesideALoad,
        StageType
  <2>7. QED
    BY <1>2, <2>1, <2>2, <2>3, <2>4, <2>5, <2>6
    DEF ThreadStep
<1>3. CASE \/ IdleOut \/ SpanElapses \/ ReleaseBatch \/ UnloadIdle \/ TimePasses
          \/ (\E d \in Accelerators : DeviceFails(d)) \/ OutsideFails \/ OutsideEvicts
  <2>1. CASE \/ SpanElapses \/ ReleaseBatch \/ UnloadIdle \/ TimePasses
             \/ (\E d \in Accelerators : DeviceFails(d)) \/ OutsideFails \/ OutsideEvicts
    BY <2>1
    DEF SpanElapses, booksVars, callVars, clientVars, registryVars, envVars, ReleaseBatch, Post,
        sessionVars, UnloadIdle, TimePasses, CooldownEnds, DeviceFails, NoteDevicePanic,
        NoBatchBesideALoad, StageType, OutsideFails, FailsOutside, Contain, OutsideEvicts,
        EvictElsewhere
  <2>2. CASE IdleOut
    BY <2>2, DecodeAssumption
    DEF IdleOut, booksVars, callVars, clientVars, registryVars, envVars, NoBatchBesideALoad,
        StageType
  <2>3. QED
    BY <1>3, <2>1, <2>2
<1>4. CASE UNCHANGED vars
  BY <1>4
  DEF vars, booksVars, sessionVars, callVars, clientVars, registryVars, envVars,
      NoBatchBesideALoad, StageType
<1>5. QED
  BY <1>1, <1>2, <1>3, <1>4 DEF Next, OutsideFails, OutsideEvicts

\* Every step keeps models no newer than the epoch.
LEMMA StampStep ==
  BooksTypeOK /\ SlotTypes /\ SlotInv /\ StageType /\ Bounds /\ StampInv /\ [Next]_vars =>
  StampInv'
<1> SUFFICES ASSUME BooksTypeOK, SlotTypes, SlotInv, StageType, Bounds, StampInv, [Next]_vars
             PROVE  StampInv'
  OBVIOUS
<1>1. ASSUME NEW r \in Requests, RequestNext(r)
      PROVE  StampInv'
  <2>1. CASE \/ Arrive(r) \/ Join(r) \/ JoinMissed(r) \/ HangUp(r) \/ Queue(r) \/ RefuseLoad(r)
             \/ ReleaseWait(r) \/ LoadFails(r) \/ Publish(r) \/ SendStart(r) \/ ReadBounce(r)
             \/ ReadEnd(r)
    BY <2>1
    DEF Arrive, Go, booksVars, sessionVars, callVars, registryVars, envVars, Join, Post,
        JoinMissed, HangUp, Return, Queue, RefuseLoad, ReleaseWait, LoadFails, Publish,
        Condemned, SendStart, ReadBounce, ReadEnd, StampInv, SlotTypes, Model, BooksTypeOK
  <2>2. CASE TakeSlot(r)
    BY <2>2, DecodeAssumption
    DEF TakeSlot, Go, Condemned, booksVars, sessionVars, registryVars, envVars, StampInv,
        SlotTypes, Model, BooksTypeOK
  <2>3. CASE LoadLands(r)
    <3>1. lateLoads \in Nat /\ epoch \in Nat
      BY DEF Bounds, BooksTypeOK
    <3>2. /\ entry'.stamp = epoch /\ epoch' = epoch /\ exiting' = exiting
          /\ lateLoads' = IF exiting THEN lateLoads + 1 ELSE lateLoads
      BY <2>3 DEF LoadLands, LoadSucceeded
    <3>3. QED  BY <3>1, <3>2 DEF StampInv
  <2>4. CASE ServingFailed(r)
    BY <2>4, DecodeAssumption
    DEF ServingFailed, Return, Condemned, RecordFailure, Go, sessionVars, callVars,
        registryVars, envVars, StampInv, SlotTypes, Model, BooksTypeOK
  <2>5. CASE ReadToken(r)
    BY <2>5, DecodeAssumption
    DEF ReadToken, Go, GenerationSucceeded, booksVars, sessionVars, callVars, registryVars,
        envVars, StampInv, SlotTypes, Model, BooksTypeOK
  <2>6. QED
    BY <1>1, <2>1, <2>2, <2>3, <2>4, <2>5
    DEF RequestNext, Serving, Reads
<1>2. CASE ThreadStep
  <2>1. CASE \/ ReceiveStart \/ ReceiveJoin \/ StrandJoin \/ ReceiveRelease \/ Turn \/ FillNext
             \/ DropAbandoned \/ HandBack \/ Bounce \/ StepEmpty \/ Guarded \/ Deliver
             \/ FailOrdinary \/ JudgeDeviceFailed \/ FailCloses \/ MaybeEnd \/ Close \/ LetGo
    BY <2>1
    DEF ReceiveStart, Receiving, booksVars, callVars, clientVars, registryVars, envVars,
        ReceiveJoin, StrandJoin, Tell, sessionVars, ReceiveRelease, Go, Turn, FillNext,
        DropAbandoned, AfterAdmission, HandBack, Bounce, StepEmpty, Guarded, Condemned, Deliver,
        Forget, FailOrdinary, JudgeDeviceFailed, FailCloses, MaybeEnd, Close, LetGo, StampInv,
        SlotTypes, Model, BooksTypeOK
  <2>2. CASE \E how \in Outcomes : CallReturns(how)
    BY <2>2, DecodeAssumption
    DEF CallReturns, NoteUnattributedPanic, booksVars, clientVars, registryVars, envVars,
        StampInv, SlotTypes, Model, BooksTypeOK
  <2>3. CASE FailDecides
    BY <2>3, DecodeAssumption
    DEF FailDecides, Tell, Forget, RecordFailure, registryVars, envVars, StampInv, SlotTypes,
        Model, BooksTypeOK, SlotInv
  <2>4. CASE FailEvicts
    BY <2>4, DecodeAssumption
    DEF FailEvicts, booksVars, callVars, clientVars, registryVars, envVars, StampInv,
        SlotTypes, Model, BooksTypeOK
  <2>5. QED
    BY <1>2, <2>1, <2>2, <2>3, <2>4
    DEF ThreadStep
<1>3. CASE \/ IdleOut \/ SpanElapses \/ ReleaseBatch \/ UnloadIdle \/ TimePasses
          \/ (\E d \in Accelerators : DeviceFails(d)) \/ OutsideFails \/ OutsideEvicts
  <2>1. CASE IdleOut \/ SpanElapses \/ ReleaseBatch
    BY <2>1
    DEF IdleOut, booksVars, callVars, clientVars, registryVars, envVars, SpanElapses,
        ReleaseBatch, Post, sessionVars, StampInv, SlotTypes, Model, BooksTypeOK
  <2>2. CASE UnloadIdle
    BY <2>2, DecodeAssumption
    DEF UnloadIdle, booksVars, sessionVars, callVars, clientVars, registryVars, envVars,
        StampInv, SlotTypes, Model, BooksTypeOK
  <2>3. CASE TimePasses
    BY <2>3, DecodeAssumption
    DEF TimePasses, CooldownEnds, sessionVars, callVars, clientVars, registryVars, envVars,
        StampInv, SlotTypes, Model, BooksTypeOK
  <2>4. CASE \E d \in Accelerators : DeviceFails(d)
    BY <2>4, DecodeAssumption
    DEF DeviceFails, NoteDevicePanic, sessionVars, callVars, clientVars, registryVars, StampInv,
        SlotTypes, Model, BooksTypeOK
  <2>5. CASE OutsideFails
    BY <2>5, DecodeAssumption
    DEF OutsideFails, FailsOutside, NoteUnattributedPanic, Contain, RecordFailure, booksVars,
        StampInv, SlotTypes, Model, BooksTypeOK
  <2>6. CASE OutsideEvicts
    BY <2>6 DEF OutsideEvicts, EvictElsewhere, booksVars, StampInv
  <2>7. QED
    BY <1>3, <2>1, <2>2, <2>3, <2>4, <2>5, <2>6
<1>4. CASE UNCHANGED vars
  BY <1>4
  DEF vars, booksVars, sessionVars, callVars, clientVars, registryVars, envVars, StampInv,
      SlotTypes, Model, BooksTypeOK
<1>5. QED
  BY <1>1, <1>2, <1>3, <1>4 DEF Next, OutsideFails, OutsideEvicts

\* Every step keeps a spoiled call recognisable by its mark.
LEMMA CallStep ==
  BooksTypeOK /\ SlotTypes /\ PlaceTypes /\ MarkKind /\ SlotInv /\ StampInv /\ CallInv /\
  [Next]_vars => CallInv'
<1> SUFFICES ASSUME BooksTypeOK, SlotTypes, PlaceTypes, MarkKind, SlotInv, StampInv, CallInv,
                   [Next]_vars
             PROVE  CallInv'
  OBVIOUS
<1>1. ASSUME NEW r \in Requests, RequestNext(r)
      PROVE  CallInv'
  <2>1. CASE \/ Arrive(r) \/ Join(r) \/ JoinMissed(r) \/ HangUp(r) \/ Queue(r) \/ RefuseLoad(r)
             \/ ReleaseWait(r) \/ LoadFails(r) \/ Publish(r) \/ ReadBounce(r) \/ ReadEnd(r)
    BY <2>1
    DEF Arrive, Go, booksVars, sessionVars, callVars, registryVars, envVars, Join, Post,
        JoinMissed, HangUp, Return, Queue, RefuseLoad, ReleaseWait, LoadFails, Publish,
        Condemned, ReadBounce, ReadEnd, CallInv, BooksTypeOK, MarkKind, Marks
  <2>2. CASE TakeSlot(r)
    BY <2>2, DecodeAssumption
    DEF TakeSlot, Go, Condemned, booksVars, sessionVars, registryVars, envVars, CallInv,
        BooksTypeOK, MarkKind, Marks, SlotInv
  <2>3. CASE LoadLands(r)
    BY <2>3, DecodeAssumption
    DEF LoadLands, Go, LoadSucceeded, sessionVars, registryVars, envVars, CallInv,
        BooksTypeOK, MarkKind, Marks, SlotInv, Holding
  <2>4. CASE ServingFailed(r)
    BY <2>4, DecodeAssumption
    DEF ServingFailed, Return, Condemned, RecordFailure, Go, sessionVars, callVars,
        registryVars, envVars, CallInv, BooksTypeOK, MarkKind, Marks, SlotInv, Holding
  <2>5. CASE SendStart(r)
    BY <2>5, DecodeAssumption
    DEF SendStart, Go, Post, booksVars, sessionVars, registryVars, envVars, CallInv,
        BooksTypeOK, MarkKind, Marks, SlotInv, Holding
  <2>6. CASE ReadToken(r)
    BY <2>6, DecodeAssumption
    DEF ReadToken, Go, GenerationSucceeded, booksVars, sessionVars, callVars, registryVars,
        envVars, CallInv, BooksTypeOK, MarkKind, Marks
  <2>7. QED
    BY <1>1, <2>1, <2>2, <2>3, <2>4, <2>5, <2>6
    DEF RequestNext, Serving, Reads
<1>2. CASE ThreadStep
  <2>1. CASE StrandJoin \/ ReceiveRelease
    BY <2>1
    DEF StrandJoin, Tell, Receiving, booksVars, sessionVars, callVars, registryVars, envVars,
        ReceiveRelease, Go, CallInv, BooksTypeOK, MarkKind, Marks
  <2>2. CASE ReceiveStart
    BY <2>2, DecodeAssumption
    DEF ReceiveStart, Receiving, booksVars, callVars, clientVars, registryVars, envVars,
        CallInv, BooksTypeOK, MarkKind, Marks
  <2>3. CASE ReceiveJoin
    BY <2>3, DecodeAssumption
    DEF ReceiveJoin, Receiving, booksVars, callVars, clientVars, registryVars, envVars,
        CallInv, BooksTypeOK, MarkKind, Marks
  <2>4. CASE Turn
    BY <2>4, DecodeAssumption
    DEF Turn, booksVars, callVars, clientVars, envVars, CallInv, BooksTypeOK, MarkKind, Marks
  <2>5. CASE FillNext
    BY <2>5, DecodeAssumption
    DEF FillNext, booksVars, callVars, clientVars, registryVars, envVars, CallInv,
        BooksTypeOK, MarkKind, Marks, PlaceTypes
  <2>6. CASE DropAbandoned
    BY <2>6, DecodeAssumption
    DEF DropAbandoned, AfterAdmission, booksVars, callVars, clientVars, registryVars, envVars,
        CallInv, BooksTypeOK, MarkKind, Marks, PlaceTypes
  <2>7. CASE HandBack
    BY <2>7, DecodeAssumption
    DEF HandBack, booksVars, callVars, clientVars, registryVars, envVars, CallInv,
        BooksTypeOK, MarkKind, Marks, PlaceTypes
  <2>8. CASE Bounce
    BY <2>8, DecodeAssumption
    DEF Bounce, Tell, AfterAdmission, booksVars, callVars, registryVars, envVars, CallInv,
        BooksTypeOK, MarkKind, Marks, PlaceTypes
  <2>9. CASE StepEmpty
    BY <2>9, DecodeAssumption
    DEF StepEmpty, booksVars, callVars, clientVars, registryVars, envVars, CallInv,
        BooksTypeOK, MarkKind, Marks
  <2>10. CASE Guarded
    <3>1. mark' = Mark /\ Mark.global = epoch /\ UNCHANGED <<entry, epoch>>
      BY <2>10 DEF Guarded, Mark, booksVars
    <3>2. at' = "calling" => entry.stamp = epoch
      BY <2>10 DEF Guarded, Condemned
    <3>3. at' \in {"failing", "calling"}
      BY <2>10 DEF Guarded
    <3>4. QED  BY <3>1, <3>2, <3>3 DEF CallInv
  <2>11. CASE \E how \in Outcomes : CallReturns(how)
    <3>1. PICK how \in Outcomes : CallReturns(how)
      BY <2>11
    <3>2. epoch' = epoch \/ epoch' = epoch + 1
      BY <3>1 DEF CallReturns, NoteUnattributedPanic, booksVars
    <3>3. /\ at = "calling" /\ at' = "judging" /\ UNCHANGED <<mark, entry>>
          /\ (spoiled' => epoch' # entry.stamp)
      BY <3>1 DEF CallReturns
    <3>4. entry.stamp \in Nat /\ entry.stamp <= epoch
      BY <3>3 DEF SlotInv, StampInv, SlotTypes, Model
    <3>5. mark.global = entry.stamp
      BY <3>3 DEF CallInv
    <3>6. spoiled' => mark.global < epoch'
      BY <3>2, <3>3, <3>4, <3>5 DEF BooksTypeOK
    <3>7. QED  BY <3>3, <3>5, <3>6 DEF CallInv
  <2>12. CASE Deliver
    BY <2>12, DecodeAssumption
    DEF Deliver, Forget, AfterAdmission, booksVars, registryVars, envVars, CallInv,
        BooksTypeOK, MarkKind, Marks, PlaceTypes
  <2>13. CASE FailOrdinary
    BY <2>13, DecodeAssumption
    DEF FailOrdinary, Tell, Forget, booksVars, registryVars, envVars, CallInv, BooksTypeOK,
        MarkKind, Marks
  <2>14. CASE JudgeDeviceFailed
    BY <2>14, DecodeAssumption
    DEF JudgeDeviceFailed, booksVars, callVars, clientVars, registryVars, envVars, CallInv,
        BooksTypeOK, MarkKind, Marks
  <2>15. CASE FailCloses
    BY <2>15, DecodeAssumption
    DEF FailCloses, booksVars, callVars, clientVars, envVars, CallInv, BooksTypeOK, MarkKind,
        Marks
  <2>16. CASE FailDecides
    BY <2>16, DecodeAssumption
    DEF FailDecides, Tell, Forget, RecordFailure, registryVars, envVars, CallInv, BooksTypeOK,
        MarkKind, Marks
  <2>17. CASE FailEvicts
    BY <2>17, DecodeAssumption
    DEF FailEvicts, booksVars, callVars, clientVars, registryVars, envVars, CallInv,
        BooksTypeOK, MarkKind, Marks
  <2>18. CASE MaybeEnd
    BY <2>18, DecodeAssumption
    DEF MaybeEnd, booksVars, callVars, clientVars, envVars, CallInv, BooksTypeOK, MarkKind,
        Marks
  <2>19. CASE Close
    BY <2>19, DecodeAssumption
    DEF Close, booksVars, callVars, clientVars, envVars, CallInv, BooksTypeOK, MarkKind, Marks
  <2>20. CASE LetGo
    BY <2>20, DecodeAssumption
    DEF LetGo, booksVars, callVars, clientVars, registryVars, envVars, CallInv, BooksTypeOK,
        MarkKind, Marks
  <2>21. QED
    BY <1>2, <2>1, <2>2, <2>3, <2>4, <2>5, <2>6, <2>7, <2>8, <2>9, <2>10, <2>11, <2>12, <2>13,
         <2>14, <2>15, <2>16, <2>17, <2>18, <2>19, <2>20
    DEF ThreadStep
<1>3. CASE \/ IdleOut \/ SpanElapses \/ ReleaseBatch \/ UnloadIdle \/ TimePasses
          \/ (\E d \in Accelerators : DeviceFails(d)) \/ OutsideFails \/ OutsideEvicts
  <2>1. CASE IdleOut \/ SpanElapses \/ ReleaseBatch
    BY <2>1
    DEF IdleOut, booksVars, callVars, clientVars, registryVars, envVars, SpanElapses,
        ReleaseBatch, Post, sessionVars, CallInv, BooksTypeOK, MarkKind, Marks
  <2>2. CASE UnloadIdle
    BY <2>2, DecodeAssumption
    DEF UnloadIdle, booksVars, sessionVars, callVars, clientVars, registryVars, envVars,
        CallInv, BooksTypeOK, MarkKind, Marks, SlotInv
  <2>3. CASE TimePasses
    BY <2>3, DecodeAssumption
    DEF TimePasses, CooldownEnds, sessionVars, callVars, clientVars, registryVars, envVars,
        CallInv, BooksTypeOK, MarkKind, Marks
  <2>4. CASE \E d \in Accelerators : DeviceFails(d)
    BY <2>4, DecodeAssumption
    DEF DeviceFails, NoteDevicePanic, sessionVars, callVars, clientVars, registryVars, CallInv,
        BooksTypeOK, MarkKind, Marks
  <2>5. CASE OutsideFails
    <3>1. UNCHANGED <<at, mark, entry, spoiled>> /\ (epoch' = epoch \/ epoch' = epoch + 1)
      BY <2>5
      DEF OutsideFails, FailsOutside, NoteUnattributedPanic, Contain, RecordFailure, booksVars,
          sessionVars, callVars
    <3>2. QED  BY <3>1 DEF CallInv, BooksTypeOK, MarkKind, Marks
  <2>6. CASE OutsideEvicts
    BY <2>6 DEF OutsideEvicts, EvictElsewhere, booksVars, sessionVars, callVars, CallInv
  <2>7. QED
    BY <1>3, <2>1, <2>2, <2>3, <2>4, <2>5, <2>6
<1>4. CASE UNCHANGED vars
  BY <1>4
  DEF vars, booksVars, sessionVars, callVars, clientVars, registryVars, envVars, CallInv,
      BooksTypeOK, MarkKind, Marks
<1>5. QED
  BY <1>1, <1>2, <1>3, <1>4 DEF Next, OutsideFails, OutsideEvicts

\* Every step keeps the batch within its slots and every sequence in its budget.
LEMMA BatchStep ==
  PlaceTypes /\ HandTypes /\ Sets /\ MadeType /\ JobInv /\ BatchInv /\ [Next]_vars => BatchInv'
<1> SUFFICES ASSUME PlaceTypes, HandTypes, Sets, MadeType, JobInv, BatchInv, [Next]_vars
             PROVE  BatchInv'
  OBVIOUS
<1>1. ASSUME NEW r \in Requests, RequestNext(r)
      PROVE  BatchInv'
  <2>1. CASE \/ Arrive(r) \/ Join(r) \/ JoinMissed(r) \/ HangUp(r) \/ Queue(r) \/ TakeSlot(r)
             \/ RefuseLoad(r) \/ ReleaseWait(r) \/ LoadLands(r) \/ LoadFails(r)
             \/ ServingFailed(r) \/ Publish(r) \/ SendStart(r) \/ ReadToken(r) \/ ReadBounce(r)
             \/ ReadEnd(r)
    BY <2>1
    DEF Arrive, Go, booksVars, sessionVars, callVars, registryVars, envVars, Join, Post,
        JoinMissed, HangUp, Return, Queue, TakeSlot, Condemned, RefuseLoad, ReleaseWait,
        LoadLands, LoadSucceeded, LoadFails, ServingFailed, RecordFailure, Publish, SendStart,
        ReadToken, GenerationSucceeded, ReadBounce, ReadEnd, BatchInv, MadeType
  <2>2. QED
    BY <1>1, <2>1
    DEF RequestNext, Serving, Reads
<1>2. CASE ThreadStep
  <2>1. CASE StrandJoin \/ ReceiveRelease
    BY <2>1
    DEF StrandJoin, Tell, Receiving, booksVars, sessionVars, callVars, registryVars, envVars,
        ReceiveRelease, Go, BatchInv, MadeType
  <2>2. CASE ReceiveStart
    BY <2>2, DecodeAssumption
    DEF ReceiveStart, Receiving, booksVars, callVars, clientVars, registryVars, envVars,
        BatchInv, MadeType
  <2>3. CASE ReceiveJoin
    BY <2>3, DecodeAssumption
    DEF ReceiveJoin, Receiving, booksVars, callVars, clientVars, registryVars, envVars,
        BatchInv, MadeType
  <2>4. CASE Turn
    BY <2>4, DecodeAssumption
    DEF Turn, booksVars, callVars, clientVars, envVars, BatchInv, MadeType
  <2>5. CASE FillNext
    BY <2>5, DecodeAssumption
    DEF FillNext, booksVars, callVars, clientVars, registryVars, envVars, BatchInv, MadeType,
        PlaceTypes
  <2>6. CASE DropAbandoned
    BY <2>6, DecodeAssumption
    DEF DropAbandoned, AfterAdmission, booksVars, callVars, clientVars, registryVars, envVars,
        BatchInv, MadeType
  <2>7. CASE HandBack
    BY <2>7, DecodeAssumption
    DEF HandBack, booksVars, callVars, clientVars, registryVars, envVars, BatchInv, MadeType
  <2>8. CASE Bounce
    BY <2>8, DecodeAssumption
    DEF Bounce, Tell, AfterAdmission, booksVars, callVars, registryVars, envVars, BatchInv,
        MadeType
  <2>9. CASE StepEmpty
    BY <2>9, DecodeAssumption
    DEF StepEmpty, booksVars, callVars, clientVars, registryVars, envVars, BatchInv, MadeType
  <2>10. CASE Guarded
    BY <2>10, DecodeAssumption
    DEF Guarded, Condemned, booksVars, clientVars, registryVars, envVars, BatchInv, MadeType,
        JobInv, HasRoom
  <2>11. CASE \E how \in Outcomes : CallReturns(how)
    BY <2>11, DecodeAssumption
    DEF CallReturns, NoteUnattributedPanic, booksVars, clientVars, registryVars, envVars,
        BatchInv, MadeType
  <2>12. CASE Deliver
    <3>1. PICK event \in [Called -> Events] :
             /\ \A r \in Called : event[r] \in EventsFor(r)
             /\ LET live == {r \in Called : ~Ends(event[r]) /\ Open(r)}
                IN  /\ jobs' = (jobs \ Called) \cup live
                    /\ made' = [r \in Requests |->
                                  IF r \notin Called THEN made[r]
                                  ELSE IF r \in live THEN made[r] + Tokens(event[r]) ELSE 0]
      BY <2>12 DEF Deliver
    <3> DEFINE live == {r \in Called : ~Ends(event[r]) /\ Open(r)}
    <3>2. Called = IF job = NoOne THEN jobs ELSE {job}
      BY DEF Called
    <3>3. jobs' \subseteq jobs \cup Called /\ (job = NoOne => jobs' \subseteq jobs)
      BY <3>1, <3>2
    <3>4. at' \notin {"calling", "judging"}
      BY <2>12 DEF Deliver, AfterAdmission, PlaceTypes
    <3>5. IsFiniteSet(jobs') /\ Cardinality(jobs') <= MaxSlots
      <4>1. CASE job = NoOne
        <5>1. IsFiniteSet(jobs') /\ Cardinality(jobs') <= Cardinality(jobs)
          BY <3>3, <4>1, FS_Subset DEF BatchInv
        <5>2. Cardinality(jobs) \in Nat /\ Cardinality(jobs') \in Nat
          BY <5>1, FS_CardinalityType DEF BatchInv
        <5>3. QED  BY <5>1, <5>2, DecodeAssumption DEF BatchInv
      <4>2. CASE job # NoOne
        <5>1. IsFiniteSet(jobs) /\ Cardinality(jobs) < MaxSlots /\ jobs' \subseteq jobs \cup {job}
          BY <2>12, <3>2, <3>3, <4>2 DEF Deliver, BatchInv
        <5>2. /\ IsFiniteSet(jobs \cup {job})
              /\ Cardinality(jobs \cup {job}) = IF job \in jobs THEN Cardinality(jobs)
                                                 ELSE Cardinality(jobs) + 1
          BY <5>1, FS_AddElement
        <5>3. IsFiniteSet(jobs') /\ Cardinality(jobs') <= Cardinality(jobs \cup {job})
          BY <5>1, <5>2, FS_Subset
        <5>4. Cardinality(jobs) \in Nat /\ Cardinality(jobs') \in Nat
          BY <5>1, <5>3, FS_CardinalityType
        <5>5. QED  BY <5>1, <5>2, <5>3, <5>4, DecodeAssumption
      <4>3. QED  BY <4>1, <4>2
    <3>6. ASSUME NEW r \in Requests  PROVE made'[r] < MaxTokens
      <4>1. made[r] \in Nat /\ made[r] < MaxTokens
        BY DecodeAssumption DEF MadeType, BatchInv
      <4>2. CASE r \in live
        <5>1. event[r] \in Events /\ event[r] \in EventsFor(r) /\ ~Ends(event[r])
          BY <3>1, <4>2
        <5>2. made[r] + 1 # MaxTokens
          BY <5>1 DEF EventsFor
        <5>3. event[r] = <<"token">>
          BY <5>1 DEF Ends
        <5>4. Tokens(event[r]) = 1
          BY <5>3 DEF Tokens
        <5>5. made'[r] = made[r] + 1
          BY <3>1, <4>2, <5>4
        <5>6. QED  BY <4>1, <5>2, <5>5, DecodeAssumption
      <4>3. CASE r \notin live
        BY <3>1, <4>1, <4>3, DecodeAssumption
      <4>4. QED  BY <4>2, <4>3
    <3>7. QED  BY <3>4, <3>5, <3>6 DEF BatchInv
  <2>13. CASE FailOrdinary
    <3>1. jobs' = {} /\ made' = [r \in Requests |-> 0]
      BY <2>13 DEF FailOrdinary
    <3>2. IsFiniteSet({}) /\ Cardinality({}) = 0
      BY FS_EmptySet
    <3>3. QED  BY <3>1, <3>2, DecodeAssumption DEF BatchInv
  <2>14. CASE JudgeDeviceFailed
    BY <2>14, DecodeAssumption
    DEF JudgeDeviceFailed, booksVars, callVars, clientVars, registryVars, envVars, BatchInv,
        MadeType
  <2>15. CASE FailCloses
    BY <2>15, DecodeAssumption
    DEF FailCloses, booksVars, callVars, clientVars, envVars, BatchInv, MadeType
  <2>16. CASE FailDecides
    <3>1. jobs' = {} /\ made' = [r \in Requests |-> 0]
      BY <2>16 DEF FailDecides
    <3>2. IsFiniteSet({}) /\ Cardinality({}) = 0
      BY FS_EmptySet
    <3>3. QED  BY <3>1, <3>2, DecodeAssumption DEF BatchInv
  <2>17. CASE FailEvicts
    BY <2>17, DecodeAssumption
    DEF FailEvicts, booksVars, callVars, clientVars, registryVars, envVars, BatchInv, MadeType
  <2>18. CASE MaybeEnd
    BY <2>18, DecodeAssumption
    DEF MaybeEnd, booksVars, callVars, clientVars, envVars, BatchInv, MadeType
  <2>19. CASE Close
    BY <2>19, DecodeAssumption
    DEF Close, booksVars, callVars, clientVars, envVars, BatchInv, MadeType
  <2>20. CASE LetGo
    BY <2>20, DecodeAssumption
    DEF LetGo, booksVars, callVars, clientVars, registryVars, envVars, BatchInv, MadeType
  <2>21. QED
    BY <1>2, <2>1, <2>2, <2>3, <2>4, <2>5, <2>6, <2>7, <2>8, <2>9, <2>10, <2>11, <2>12, <2>13,
         <2>14, <2>15, <2>16, <2>17, <2>18, <2>19, <2>20
    DEF ThreadStep
<1>3. CASE \/ IdleOut \/ SpanElapses \/ ReleaseBatch \/ UnloadIdle \/ TimePasses
          \/ (\E d \in Accelerators : DeviceFails(d)) \/ OutsideFails \/ OutsideEvicts
  <2>1. CASE \/ IdleOut \/ SpanElapses \/ ReleaseBatch \/ UnloadIdle \/ TimePasses
             \/ (\E d \in Accelerators : DeviceFails(d)) \/ OutsideFails \/ OutsideEvicts
    BY <2>1
    DEF IdleOut, booksVars, callVars, clientVars, registryVars, envVars, SpanElapses,
        ReleaseBatch, Post, sessionVars, UnloadIdle, TimePasses, CooldownEnds, DeviceFails,
        NoteDevicePanic, BatchInv, MadeType, OutsideFails, FailsOutside, Contain, OutsideEvicts,
        EvictElsewhere
  <2>2. QED
    BY <1>3, <2>1
<1>4. CASE UNCHANGED vars
  BY <1>4
  DEF vars, booksVars, sessionVars, callVars, clientVars, registryVars, envVars, BatchInv,
      MadeType
<1>5. QED
  BY <1>1, <1>2, <1>3, <1>4 DEF Next, OutsideFails, OutsideEvicts

\* Every step keeps every listening request's job or its answer.
LEMMA JobsStep ==
  StageType /\ UpdateType /\ HandTypes /\ Lists /\ Sets /\ PlaceTypes /\ ChannelType /\
  ChannelInv /\ JobInv /\ JobsInv /\ [Next]_vars => JobsInv'
<1> SUFFICES ASSUME StageType, UpdateType, HandTypes, Lists, Sets, PlaceTypes, ChannelType,
                   ChannelInv, JobInv, JobsInv, [Next]_vars
             PROVE  JobsInv'
  OBVIOUS
<1>1. ASSUME NEW r \in Requests, RequestNext(r)
      PROVE  JobsInv'
  <2>1. CASE JoinMissed(r)
    BY <2>1
    DEF JoinMissed, booksVars, sessionVars, callVars, registryVars, envVars, JobsInv,
        StageType, Open, InThread, Answered
  <2>2. CASE Arrive(r)
    BY <2>2, DecodeAssumption
    DEF Arrive, Go, booksVars, sessionVars, callVars, registryVars, envVars, JobsInv,
        StageType, Open, InThread, Answered
  <2>3. CASE Join(r)
    <3>1. (\A q \in Requests : Carried(q) => Carried(q)') /\ Carried(r)'
      BY <2>3, PostedCarries DEF Join, Messages
    <3>2. QED
      BY <2>3, <3>1
      DEF Join, Go, sessionVars, JobsInv, InThread, Open, StageType, Carried, Answered
  <2>4. CASE HangUp(r)
    BY <2>4, DecodeAssumption
    DEF HangUp, Return, Go, booksVars, sessionVars, callVars, registryVars, envVars, JobsInv,
        StageType, Open, InThread, Answered
  <2>5. CASE Queue(r)
    BY <2>5, DecodeAssumption
    DEF Queue, Go, booksVars, sessionVars, callVars, registryVars, envVars, JobsInv,
        StageType, Open, InThread, Answered
  <2>6. CASE TakeSlot(r)
    BY <2>6, DecodeAssumption
    DEF TakeSlot, Go, Condemned, booksVars, sessionVars, registryVars, envVars, JobsInv,
        StageType, Open, InThread, Answered
  <2>7. CASE RefuseLoad(r)
    BY <2>7, DecodeAssumption
    DEF RefuseLoad, Return, Go, booksVars, sessionVars, callVars, registryVars, envVars,
        JobsInv, StageType, Open, InThread, Answered
  <2>8. CASE ReleaseWait(r)
    <3>1. \A q \in Requests : Carried(q) => Carried(q)'
      BY <2>8, PostedCarries DEF ReleaseWait, Messages
    <3>2. QED
      BY <2>8, <3>1
      DEF ReleaseWait, Go, sessionVars, JobsInv, InThread, Open, StageType, Carried, Answered
  <2>9. CASE LoadLands(r)
    BY <2>9, DecodeAssumption
    DEF LoadLands, Go, LoadSucceeded, sessionVars, registryVars, envVars, JobsInv, StageType,
        Open, InThread, Answered
  <2>10. CASE LoadFails(r)
    BY <2>10, DecodeAssumption
    DEF LoadFails, Return, Go, booksVars, sessionVars, callVars, registryVars, envVars,
        JobsInv, StageType, Open, InThread, Answered
  <2>11. CASE ServingFailed(r)
    BY <2>11, DecodeAssumption
    DEF ServingFailed, Return, Condemned, RecordFailure, Go, sessionVars, callVars,
        registryVars, envVars, JobsInv, StageType, Open, InThread, Answered
  <2>12. CASE Publish(r)
    BY <2>12, DecodeAssumption
    DEF Publish, Go, Condemned, booksVars, sessionVars, callVars, envVars, JobsInv, StageType,
        Open, InThread, Answered
  <2>13. CASE SendStart(r)
    <3>1. (\A q \in Requests : Carried(q) => Carried(q)') /\ Carried(r)'
      BY <2>13, PostedCarries DEF SendStart, Messages
    <3>2. QED
      BY <2>13, <3>1
      DEF SendStart, Go, sessionVars, JobsInv, InThread, Open, StageType, Carried, Answered
  <2>14. CASE ReadToken(r)
    <3>1. /\ updates[r] \in Seq(Updates) /\ updates[r] # <<>> /\ Head(updates[r]) = "token"
          /\ updates' = [updates EXCEPT ![r] = Tail(updates[r])] /\ Open(r)
          /\ pc' = [pc EXCEPT ![r] = "batched"]
          /\ UNCHANGED <<jobs, waiting, job, channel>>
      BY <2>14 DEF ReadToken, Go, sessionVars, UpdateType
    <3>2. Answered(r) => Answered(r)'
      BY <3>1, EndingTail DEF Answered, UpdateType
    <3>3. \A q \in Requests : q # r => updates'[q] = updates[q] /\ pc'[q] = pc[q]
      BY <3>1 DEF UpdateType, StageType
    <3>4. \A q \in Requests : InThread(q) <=> InThread(q)'
      BY <3>1 DEF InThread
    <3>5. ASSUME NEW q \in Requests, Open(q)'  PROVE InThread(q)' \/ Answered(q)'
      BY <3>1, <3>2, <3>3, <3>4, <3>5 DEF JobsInv, Open, Answered
    <3>6. QED  BY <3>5 DEF JobsInv
  <2>15. CASE ReadBounce(r)
    BY <2>15, DecodeAssumption
    DEF ReadBounce, Go, booksVars, sessionVars, callVars, registryVars, envVars, JobsInv,
        StageType, Open, InThread, Answered
  <2>16. CASE ReadEnd(r)
    BY <2>16, DecodeAssumption
    DEF ReadEnd, Return, Go, booksVars, sessionVars, callVars, registryVars, envVars, JobsInv,
        StageType, Open, InThread, Answered
  <2>17. QED
    BY <1>1, <2>1, <2>2, <2>3, <2>4, <2>5, <2>6, <2>7, <2>8, <2>9, <2>10, <2>11, <2>12, <2>13,
         <2>14, <2>15, <2>16
    DEF RequestNext, Serving, Reads
<1>2. CASE ThreadStep
  <2>1. CASE \/ Turn \/ StepEmpty \/ Guarded \/ JudgeDeviceFailed \/ FailCloses \/ FailEvicts
             \/ MaybeEnd \/ Close \/ LetGo \/ (\E how \in Outcomes : CallReturns(how))
    BY <2>1
    DEF Turn, booksVars, callVars, clientVars, envVars, StepEmpty, registryVars, Guarded,
        Condemned, CallReturns, NoteUnattributedPanic, JudgeDeviceFailed, FailCloses,
        FailEvicts, MaybeEnd, Close, LetGo, JobsInv, StageType, Open, InThread, Answered
  <2>2. CASE ReceiveStart
    <3>1. \A q \in Requests : Carried(q) => Carried(q)' \/ q = Head(channel).from
      BY <2>2, ReceivedCarries DEF ReceiveStart
    <3>2. job = NoOne
      BY <2>2 DEF ReceiveStart, Receiving, JobInv
    <3>3. job' = Head(channel).from /\ UNCHANGED <<pc, jobs, waiting, updates>>
      BY <2>2 DEF ReceiveStart, clientVars
    <3>4. QED  BY <3>1, <3>2, <3>3, DecodeAssumption DEF JobsInv, InThread, Open, Carried, Answered
  <2>3. CASE ReceiveJoin
    <3>1. \A q \in Requests : Carried(q) => Carried(q)' \/ q = Head(channel).from
      BY <2>3, ReceivedCarries DEF ReceiveJoin
    <3>2. job = NoOne
      BY <2>3 DEF ReceiveJoin, Receiving, JobInv
    <3>3. UNCHANGED <<pc, jobs, updates>>
      BY <2>3 DEF ReceiveJoin, clientVars
    <3>4. Head(channel).from \in Requests
      BY <2>3, Received DEF ReceiveJoin, ChannelInv
    <3>5. /\ ToSet(waiting) \subseteq ToSet(waiting')
          /\ Head(channel).from = job' \/ Head(channel).from \in ToSet(waiting')
      <4>1. waiting \in Seq(Requests)
        BY DEF Lists
      <4>2. \A e \in Requests : ToSet(Append(waiting, e)) = ToSet(waiting) \cup {e}
        BY <4>1, AppendLine
      <4>3. \/ waiting' = Append(waiting, Head(channel).from)
            \/ waiting' = waiting /\ job' = Head(channel).from
        BY <2>3 DEF ReceiveJoin
      <4>4. QED  BY <3>4, <4>2, <4>3
    <3>6. QED
      BY <3>1, <3>2, <3>3, <3>5, DecodeAssumption DEF JobsInv, InThread, Open, Carried, Answered
  <2>4. CASE StrandJoin
    <3>1. \A q \in Requests : Carried(q) => Carried(q)' \/ q = Head(channel).from
      BY <2>4, ReceivedCarries DEF StrandJoin
    <3>2. /\ UNCHANGED <<pc, jobs, waiting, job>>
          /\ \A q \in Requests : Answered(q) => Answered(q)'
          /\ \A q \in {Head(channel).from} \cap Requests : Open(q) => Answered(q)'
      BY <2>4, Told, Words DEF StrandJoin, sessionVars
    <3>3. QED  BY <3>1, <3>2 DEF JobsInv, InThread, Open, Carried
  <2>5. CASE ReceiveRelease
    <3>1. \A q \in Requests : Carried(q) => Carried(q)'
      BY <2>5, ReceivedCarries DEF ReceiveRelease
    <3>2. /\ UNCHANGED <<jobs, waiting, job, updates>>
          /\ \A q \in Requests : pc'[q] = pc[q] \/ pc'[q] = "loading"
      BY <2>5 DEF ReceiveRelease, Go, StageType
    <3>3. QED  BY <3>1, <3>2 DEF JobsInv, InThread, Open, Carried, Answered
  <2>6. CASE FillNext
    <3>1. job = NoOne /\ UNCHANGED <<pc, jobs, channel, updates>>
      BY <2>6 DEF FillNext, JobInv, clientVars
    <3>2. ToSet(waiting) \subseteq ToSet(waiting') \cup {job'} /\ (job' = job \/ waiting # <<>>)
      <4>1. waiting # <<>> => ToSet(waiting) = ToSet(Tail(waiting)) \cup {Head(waiting)}
        BY LineFacts DEF Lists
      <4>2. \/ waiting # <<>> /\ job' = Head(waiting) /\ waiting' = Tail(waiting)
            \/ waiting' = waiting /\ job' = job
        BY <2>6 DEF FillNext
      <4>3. QED  BY <4>1, <4>2
    <3>3. QED  BY <3>1, <3>2, DecodeAssumption DEF JobsInv, InThread, Open, Answered
  <2>7. CASE DropAbandoned
    BY <2>7, DecodeAssumption
    DEF DropAbandoned, AfterAdmission, booksVars, callVars, clientVars, registryVars, envVars,
        JobsInv, StageType, Open, InThread, Answered
  <2>8. CASE HandBack
    <3>1. job \in Requests /\ UNCHANGED <<pc, jobs, channel, updates>>
      BY <2>8 DEF HandBack, JobInv, HandTypes, clientVars
    <3>2. ToSet(waiting') = ToSet(waiting) \cup {job}
      BY <2>8, <3>1, LineFacts DEF HandBack, Lists
    <3>3. QED  BY <3>1, <3>2 DEF JobsInv, InThread, Open, Answered
  <2>9. CASE Bounce
    <3>1. /\ UNCHANGED <<pc, channel>>
          /\ \A q \in Requests : Answered(q) => Answered(q)'
          /\ \A q \in {job} \cap Requests : Open(q) => Answered(q)'
      BY <2>9, Told, Words DEF Bounce
    <3>2. UNCHANGED <<jobs, waiting>>
      BY <2>9 DEF Bounce
    <3>3. QED  BY <3>1, <3>2 DEF JobsInv, InThread, Open
  <2>10. CASE Deliver
    <3>1. PICK event \in [Called -> Events] :
             /\ \A r \in Called : event[r] \in EventsFor(r)
             /\ updates' = [r \in Requests |->
                              IF r \in Called /\ Open(r) THEN updates[r] \o event[r]
                              ELSE updates[r]]
             /\ jobs' = (jobs \ Called) \cup {r \in Called : ~Ends(event[r]) /\ Open(r)}
      BY <2>10 DEF Deliver
    <3>2. UNCHANGED <<pc, channel, waiting>> /\ (job \in Requests => job \in Called)
      BY <2>10, DecodeAssumption DEF Deliver, Called
    <3>3. ASSUME NEW q \in Called \cap Requests, Open(q)
          PROVE  q \in jobs' \/ Answered(q)'
      <4>1. event[q] \in Events  BY <3>1, <3>3
      <4>2. CASE event[q] = <<"token">>
        BY <3>1, <3>3, <4>2 DEF Ends
      <4>3. CASE event[q] # <<"token">>
        <5>1. event[q] \in Seq(Updates) /\ Ending(event[q])
          BY <4>1, <4>3, Words DEF Events
        <5>2. updates'[q] = updates[q] \o event[q] /\ updates[q] \in Seq(Updates)
          BY <3>1, <3>3 DEF UpdateType
        <5>3. QED  BY <5>1, <5>2, EndingConcat DEF Answered
      <4>4. QED  BY <4>2, <4>3
    <3>4. ASSUME NEW q \in Requests, q \notin Called, Open(q)
          PROVE  InThread(q)' \/ Answered(q)'
      <4>1. updates'[q] = updates[q] /\ q # job /\ (q \in jobs => q \in jobs')
        BY <3>1, <3>2, <3>4
      <4>2. QED  BY <3>2, <3>4, <4>1 DEF JobsInv, InThread, Answered
    <3>5. \A q \in Requests : Open(q)' => Open(q)
      BY <3>2 DEF Open
    <3>6. QED  BY <3>3, <3>4, <3>5 DEF JobsInv, InThread
  <2>11. CASE FailOrdinary
    <3>1. /\ UNCHANGED <<pc, channel>>
          /\ \A q \in Requests : Answered(q) => Answered(q)'
          /\ \A q \in ({job} \cup jobs) \cap Requests : Open(q) => Answered(q)'
      BY <2>11, Told, Words DEF FailOrdinary
    <3>2. UNCHANGED waiting
      BY <2>11 DEF FailOrdinary
    <3>3. QED  BY <3>1, <3>2 DEF JobsInv, InThread, Open
  <2>12. CASE FailDecides
    <3>1. /\ UNCHANGED <<pc, channel>>
          /\ \A q \in Requests : Answered(q) => Answered(q)'
          /\ \A q \in Failing \cap Requests : Open(q) => Answered(q)'
      BY <2>12, Told, Words DEF FailDecides
    <3>2. QED  BY <3>1 DEF JobsInv, InThread, Open, Failing
  <2>13. QED
    BY <1>2, <2>1, <2>2, <2>3, <2>4, <2>5, <2>6, <2>7, <2>8, <2>9, <2>10, <2>11, <2>12
    DEF ThreadStep
<1>3. CASE \/ IdleOut \/ SpanElapses \/ ReleaseBatch \/ UnloadIdle \/ TimePasses
          \/ (\E d \in Accelerators : DeviceFails(d)) \/ OutsideFails \/ OutsideEvicts
  <2>1. CASE \/ IdleOut \/ SpanElapses \/ UnloadIdle \/ TimePasses
             \/ (\E d \in Accelerators : DeviceFails(d)) \/ OutsideFails
    BY <2>1
    DEF IdleOut, booksVars, callVars, clientVars, registryVars, envVars, SpanElapses,
        UnloadIdle, sessionVars, TimePasses, CooldownEnds, DeviceFails, NoteDevicePanic, JobsInv,
        StageType, Open, InThread, Answered, OutsideFails, FailsOutside, Contain
  <2>2. CASE ReleaseBatch
    <3>1. \A q \in Requests : Carried(q) => Carried(q)'
      BY <2>2, PostedCarries DEF ReleaseBatch, Messages
    <3>2. QED
      BY <2>2, <3>1
      DEF ReleaseBatch, sessionVars, clientVars, JobsInv, InThread, Open, Carried, Answered
  <2>3. CASE OutsideEvicts
    <3>1. \A q \in Requests : Carried(q) => Carried(q)'
      BY <2>3, PostedCarries DEF OutsideEvicts, EvictElsewhere, Messages
    <3>2. QED
      BY <2>3, <3>1
      DEF OutsideEvicts, EvictElsewhere, sessionVars, clientVars, JobsInv, InThread, Open,
          Carried, Answered
  <2>4. QED
    BY <1>3, <2>1, <2>2, <2>3
<1>4. CASE UNCHANGED vars
  BY <1>4
  DEF vars, booksVars, sessionVars, callVars, clientVars, registryVars, envVars, JobsInv,
      StageType, Open, InThread, Answered
<1>5. QED
  BY <1>1, <1>2, <1>3, <1>4 DEF Next, OutsideFails, OutsideEvicts

\* Every step keeps the types of the updates.
LEMMA UpdateStep ==
  UpdateType /\ [Next]_vars => UpdateType'
<1> SUFFICES ASSUME UpdateType, [Next]_vars
             PROVE  UpdateType'
  OBVIOUS
<1>1. ASSUME NEW r \in Requests, RequestNext(r)
      PROVE  UpdateType'
  <2>1. CASE \/ Arrive(r) \/ Join(r) \/ JoinMissed(r) \/ Queue(r) \/ TakeSlot(r)
             \/ ReleaseWait(r) \/ LoadLands(r) \/ Publish(r) \/ SendStart(r)
    BY <2>1
    DEF Arrive, Go, booksVars, sessionVars, callVars, registryVars, envVars, Join, Post,
        JoinMissed, Queue, TakeSlot, Condemned, ReleaseWait, LoadLands, LoadSucceeded, Publish,
        SendStart, UpdateType
  <2>2. CASE HangUp(r)
    BY <2>2
    DEF HangUp, Return, Go, booksVars, sessionVars, callVars, registryVars, envVars,
        UpdateType
  <2>3. CASE RefuseLoad(r)
    BY <2>3
    DEF RefuseLoad, Return, Go, booksVars, sessionVars, callVars, registryVars, envVars,
        UpdateType
  <2>4. CASE LoadFails(r)
    BY <2>4
    DEF LoadFails, Return, Go, booksVars, sessionVars, callVars, registryVars, envVars,
        UpdateType
  <2>5. CASE ServingFailed(r)
    BY <2>5
    DEF ServingFailed, Return, Condemned, RecordFailure, Go, sessionVars, callVars,
        registryVars, envVars, UpdateType
  <2>6. CASE ReadToken(r)
    <3>1. updates[r] \in Seq(Updates) /\ updates[r] # <<>>
      BY <2>6 DEF ReadToken, UpdateType
    <3>2. Tail(updates[r]) \in Seq(Updates)
      BY <3>1, HeadTailProperties
    <3>3. QED  BY <2>6, <3>2 DEF ReadToken, UpdateType
  <2>7. CASE ReadBounce(r)
    BY <2>7
    DEF ReadBounce, Go, booksVars, sessionVars, callVars, registryVars, envVars, UpdateType
  <2>8. CASE ReadEnd(r)
    BY <2>8
    DEF ReadEnd, Return, Go, booksVars, sessionVars, callVars, registryVars, envVars,
        UpdateType
  <2>9. QED
    BY <1>1, <2>1, <2>2, <2>3, <2>4, <2>5, <2>6, <2>7, <2>8
    DEF RequestNext, Serving, Reads
<1>2. CASE ThreadStep
  <2>1. CASE \/ ReceiveStart \/ ReceiveJoin \/ ReceiveRelease \/ Turn \/ FillNext
             \/ DropAbandoned \/ HandBack \/ StepEmpty \/ Guarded \/ JudgeDeviceFailed
             \/ FailCloses \/ FailEvicts \/ MaybeEnd \/ Close \/ LetGo
             \/ (\E how \in Outcomes : CallReturns(how))
    BY <2>1
    DEF ReceiveStart, Receiving, booksVars, callVars, clientVars, registryVars, envVars,
        ReceiveJoin, ReceiveRelease, Go, Turn, FillNext, DropAbandoned, AfterAdmission,
        HandBack, StepEmpty, Guarded, Condemned, CallReturns, NoteUnattributedPanic,
        JudgeDeviceFailed, FailCloses, FailEvicts, MaybeEnd, Close, LetGo, UpdateType
  <2>2. CASE StrandJoin
    <3>1. QED  BY <2>2, Told, Words DEF StrandJoin
  <2>3. CASE Bounce
    <3>1. QED  BY <2>3, Told, Words DEF Bounce
  <2>4. CASE Deliver
    <3>1. PICK event \in [Called -> Events] :
             updates' = [r \in Requests |->
                          IF r \in Called /\ Open(r) THEN updates[r] \o event[r] ELSE updates[r]]
      BY <2>4 DEF Deliver
    <3>2. \A r \in Called : event[r] \in Seq(Updates)
      BY <3>1, Words DEF Events
    <3>3. \A r \in Requests : r \in Called => updates[r] \o event[r] \in Seq(Updates)
      BY <3>2, ConcatProperties DEF UpdateType
    <3>4. QED  BY <3>1, <3>3 DEF UpdateType
  <2>5. CASE FailOrdinary
    <3>1. QED  BY <2>5, Told, Words DEF FailOrdinary
  <2>6. CASE FailDecides
    <3>1. QED  BY <2>6, Told, Words DEF FailDecides
  <2>7. QED
    BY <1>2, <2>1, <2>2, <2>3, <2>4, <2>5, <2>6
    DEF ThreadStep
<1>3. CASE \/ IdleOut \/ SpanElapses \/ ReleaseBatch \/ UnloadIdle \/ TimePasses
          \/ (\E d \in Accelerators : DeviceFails(d)) \/ OutsideFails \/ OutsideEvicts
  <2>1. CASE \/ IdleOut \/ SpanElapses \/ ReleaseBatch \/ UnloadIdle \/ TimePasses
             \/ (\E d \in Accelerators : DeviceFails(d)) \/ OutsideFails \/ OutsideEvicts
    BY <2>1
    DEF IdleOut, booksVars, callVars, clientVars, registryVars, envVars, SpanElapses,
        ReleaseBatch, Post, sessionVars, UnloadIdle, TimePasses, CooldownEnds, DeviceFails,
        NoteDevicePanic, UpdateType, OutsideFails, FailsOutside, Contain, OutsideEvicts,
        EvictElsewhere
  <2>2. QED
    BY <1>3, <2>1
<1>4. CASE UNCHANGED vars
  BY <1>4
  DEF vars, booksVars, sessionVars, callVars, clientVars, registryVars, envVars, UpdateType
<1>5. QED
  BY <1>1, <1>2, <1>3, <1>4 DEF Next, OutsideFails, OutsideEvicts

\* The stages, places and outcomes a step goes to are stages, places and outcomes.
LEMMA Names ==
  /\ {"idle", "arrived", "queued", "batched", "joining"} \subseteq Stages
  /\ Holding \subseteq Stages
  /\ {"top", "step", "admitting", "filling", "calling", "judging", "failing"} \subseteq Places
  /\ {"deciding", "evicting", "end", "ending", "closing"} \subseteq Places
  /\ "ok" \in Outcomes
BY DEF Stages, Holding, Places, Outcomes

\* Every step takes requests to stages there are.
LEMMA StageStep ==
  StageType /\ [Next]_vars => StageType'
<1> SUFFICES ASSUME StageType, [Next]_vars
             PROVE  StageType'
  OBVIOUS
<1>1. ASSUME NEW r \in Requests, RequestNext(r)
      PROVE  StageType'
  <2>1. CASE JoinMissed(r)
    BY <2>1
    DEF JoinMissed, booksVars, sessionVars, callVars, registryVars, envVars, StageType,
        Holding
  <2>2. CASE Arrive(r)
    BY <2>2, Names
    DEF Arrive, Go, booksVars, sessionVars, callVars, registryVars, envVars, StageType,
        Holding
  <2>3. CASE Join(r)
    BY <2>3, Names
    DEF Join, Go, Post, booksVars, sessionVars, callVars, registryVars, envVars, StageType,
        Holding
  <2>4. CASE HangUp(r)
    BY <2>4, Names
    DEF HangUp, Return, Go, booksVars, sessionVars, callVars, registryVars, envVars,
        StageType, Holding
  <2>5. CASE Queue(r)
    BY <2>5, Names
    DEF Queue, Go, booksVars, sessionVars, callVars, registryVars, envVars, StageType, Holding
  <2>6. CASE TakeSlot(r)
    BY <2>6, Names
    DEF TakeSlot, Go, Condemned, booksVars, sessionVars, registryVars, envVars, StageType,
        Holding
  <2>7. CASE RefuseLoad(r)
    BY <2>7, Names
    DEF RefuseLoad, Return, Go, booksVars, sessionVars, callVars, registryVars, envVars,
        StageType, Holding
  <2>8. CASE ReleaseWait(r)
    BY <2>8, Names
    DEF ReleaseWait, Go, Post, booksVars, sessionVars, callVars, envVars, StageType, Holding
  <2>9. CASE LoadLands(r)
    BY <2>9, Names
    DEF LoadLands, Go, LoadSucceeded, sessionVars, registryVars, envVars, StageType, Holding
  <2>10. CASE LoadFails(r)
    BY <2>10, Names
    DEF LoadFails, Return, Go, booksVars, sessionVars, callVars, registryVars, envVars,
        StageType, Holding
  <2>11. CASE ServingFailed(r)
    BY <2>11, Names
    DEF ServingFailed, Return, Condemned, RecordFailure, Go, sessionVars, callVars,
        registryVars, envVars, StageType, Holding
  <2>12. CASE Publish(r)
    BY <2>12, Names
    DEF Publish, Go, Condemned, booksVars, sessionVars, callVars, envVars, StageType, Holding
  <2>13. CASE SendStart(r)
    BY <2>13, Names
    DEF SendStart, Go, Post, booksVars, sessionVars, registryVars, envVars, StageType, Holding
  <2>14. CASE ReadToken(r)
    BY <2>14, Names
    DEF ReadToken, Go, GenerationSucceeded, booksVars, sessionVars, callVars, registryVars,
        envVars, StageType, Holding
  <2>15. CASE ReadBounce(r)
    BY <2>15, Names
    DEF ReadBounce, Go, booksVars, sessionVars, callVars, registryVars, envVars, StageType,
        Holding
  <2>16. CASE ReadEnd(r)
    BY <2>16, Names
    DEF ReadEnd, Return, Go, booksVars, sessionVars, callVars, registryVars, envVars,
        StageType, Holding
  <2>17. QED
    BY <1>1, <2>1, <2>2, <2>3, <2>4, <2>5, <2>6, <2>7, <2>8, <2>9, <2>10, <2>11, <2>12, <2>13,
         <2>14, <2>15, <2>16
    DEF RequestNext, Serving, Reads
<1>2. CASE ThreadStep
  <2>1. CASE \/ ReceiveStart \/ ReceiveJoin \/ StrandJoin \/ Turn \/ FillNext \/ DropAbandoned
             \/ HandBack \/ Bounce \/ StepEmpty \/ Guarded \/ Deliver \/ FailOrdinary
             \/ JudgeDeviceFailed \/ FailCloses \/ FailDecides \/ FailEvicts \/ MaybeEnd
             \/ Close \/ LetGo \/ (\E how \in Outcomes : CallReturns(how))
    BY <2>1
    DEF ReceiveStart, Receiving, booksVars, callVars, clientVars, registryVars, envVars,
        ReceiveJoin, StrandJoin, Tell, sessionVars, Turn, FillNext, DropAbandoned,
        AfterAdmission, HandBack, Bounce, StepEmpty, Guarded, Condemned, CallReturns,
        NoteUnattributedPanic, Deliver, Forget, FailOrdinary, JudgeDeviceFailed, FailCloses,
        FailDecides, RecordFailure, FailEvicts, MaybeEnd, Close, LetGo, StageType, Holding
  <2>2. CASE ReceiveRelease
    BY <2>2, Names
    DEF ReceiveRelease, Go, Receiving, booksVars, callVars, registryVars, envVars, StageType,
        Holding
  <2>3. QED
    BY <1>2, <2>1, <2>2
    DEF ThreadStep
<1>3. CASE \/ IdleOut \/ SpanElapses \/ ReleaseBatch \/ UnloadIdle \/ TimePasses
          \/ (\E d \in Accelerators : DeviceFails(d)) \/ OutsideFails \/ OutsideEvicts
  <2>1. CASE \/ IdleOut \/ SpanElapses \/ ReleaseBatch \/ UnloadIdle \/ TimePasses
             \/ (\E d \in Accelerators : DeviceFails(d)) \/ OutsideFails \/ OutsideEvicts
    BY <2>1
    DEF IdleOut, booksVars, callVars, clientVars, registryVars, envVars, SpanElapses,
        ReleaseBatch, Post, sessionVars, UnloadIdle, TimePasses, CooldownEnds, DeviceFails,
        NoteDevicePanic, StageType, Holding, OutsideFails, FailsOutside, Contain, OutsideEvicts,
        EvictElsewhere
  <2>2. QED
    BY <1>3, <2>1
<1>4. CASE UNCHANGED vars
  BY <1>4
  DEF vars, booksVars, sessionVars, callVars, clientVars, registryVars, envVars, StageType,
      Holding
<1>5. QED
  BY <1>1, <1>2, <1>3, <1>4 DEF Next, OutsideFails, OutsideEvicts

\* Every step keeps the requests' models.
LEMMA KeyStep ==
  KeyType /\ [Next]_vars => KeyType'
<1> SUFFICES ASSUME KeyType, [Next]_vars
             PROVE  KeyType'
  OBVIOUS
<1>1. ASSUME NEW r \in Requests, RequestNext(r)
      PROVE  KeyType'
  <2>1. CASE \/ Join(r) \/ JoinMissed(r) \/ HangUp(r) \/ Queue(r) \/ TakeSlot(r)
             \/ RefuseLoad(r) \/ ReleaseWait(r) \/ LoadLands(r) \/ LoadFails(r)
             \/ ServingFailed(r) \/ Publish(r) \/ SendStart(r) \/ ReadToken(r) \/ ReadBounce(r)
             \/ ReadEnd(r)
    BY <2>1
    DEF Join, Go, Post, booksVars, sessionVars, callVars, registryVars, envVars, JoinMissed,
        HangUp, Return, Queue, TakeSlot, Condemned, RefuseLoad, ReleaseWait, LoadLands,
        LoadSucceeded, LoadFails, ServingFailed, RecordFailure, Publish, SendStart, ReadToken,
        GenerationSucceeded, ReadBounce, ReadEnd, KeyType
  <2>2. CASE Arrive(r)
    BY <2>2
    DEF Arrive, Go, booksVars, sessionVars, callVars, registryVars, envVars, KeyType
  <2>3. QED
    BY <1>1, <2>1, <2>2
    DEF RequestNext, Serving, Reads
<1>2. CASE ThreadStep
  <2>1. CASE \/ ReceiveStart \/ ReceiveJoin \/ StrandJoin \/ ReceiveRelease \/ Turn \/ FillNext
             \/ DropAbandoned \/ HandBack \/ Bounce \/ StepEmpty \/ Guarded \/ Deliver
             \/ FailOrdinary \/ JudgeDeviceFailed \/ FailCloses \/ FailDecides \/ FailEvicts
             \/ MaybeEnd \/ Close \/ LetGo \/ (\E how \in Outcomes : CallReturns(how))
    BY <2>1
    DEF ReceiveStart, Receiving, booksVars, callVars, clientVars, registryVars, envVars,
        ReceiveJoin, StrandJoin, Tell, sessionVars, ReceiveRelease, Go, Turn, FillNext,
        DropAbandoned, AfterAdmission, HandBack, Bounce, StepEmpty, Guarded, Condemned,
        CallReturns, NoteUnattributedPanic, Deliver, Forget, FailOrdinary, JudgeDeviceFailed,
        FailCloses, FailDecides, RecordFailure, FailEvicts, MaybeEnd, Close, LetGo, KeyType
  <2>2. QED
    BY <1>2, <2>1
    DEF ThreadStep
<1>3. CASE \/ IdleOut \/ SpanElapses \/ ReleaseBatch \/ UnloadIdle \/ TimePasses
          \/ (\E d \in Accelerators : DeviceFails(d)) \/ OutsideFails \/ OutsideEvicts
  <2>1. CASE \/ IdleOut \/ SpanElapses \/ ReleaseBatch \/ UnloadIdle \/ TimePasses
             \/ (\E d \in Accelerators : DeviceFails(d)) \/ OutsideFails \/ OutsideEvicts
    BY <2>1
    DEF IdleOut, booksVars, callVars, clientVars, registryVars, envVars, SpanElapses,
        ReleaseBatch, Post, sessionVars, UnloadIdle, TimePasses, CooldownEnds, DeviceFails,
        NoteDevicePanic, KeyType, OutsideFails, FailsOutside, Contain, OutsideEvicts, EvictElsewhere
  <2>2. QED
    BY <1>3, <2>1
<1>4. CASE UNCHANGED vars
  BY <1>4
  DEF vars, booksVars, sessionVars, callVars, clientVars, registryVars, envVars, KeyType
<1>5. QED
  BY <1>1, <1>2, <1>3, <1>4 DEF Next, OutsideFails, OutsideEvicts

\* Every step takes the thread to a place there is.
LEMMA PlaceStep ==
  PlaceTypes /\ [Next]_vars => PlaceTypes'
<1> SUFFICES ASSUME PlaceTypes, [Next]_vars
             PROVE  PlaceTypes'
  OBVIOUS
<1>1. ASSUME NEW r \in Requests, RequestNext(r)
      PROVE  PlaceTypes'
  <2>1. CASE \/ Arrive(r) \/ Join(r) \/ JoinMissed(r) \/ HangUp(r) \/ Queue(r) \/ TakeSlot(r)
             \/ RefuseLoad(r) \/ ReleaseWait(r) \/ LoadLands(r) \/ LoadFails(r)
             \/ ServingFailed(r) \/ Publish(r) \/ SendStart(r) \/ ReadToken(r) \/ ReadBounce(r)
             \/ ReadEnd(r)
    BY <2>1
    DEF Arrive, Go, booksVars, sessionVars, callVars, registryVars, envVars, Join, Post,
        JoinMissed, HangUp, Return, Queue, TakeSlot, Condemned, RefuseLoad, ReleaseWait,
        LoadLands, LoadSucceeded, LoadFails, ServingFailed, RecordFailure, Publish, SendStart,
        ReadToken, GenerationSucceeded, ReadBounce, ReadEnd, PlaceTypes
  <2>2. QED
    BY <1>1, <2>1
    DEF RequestNext, Serving, Reads
<1>2. CASE ThreadStep
  <2>1. CASE StrandJoin \/ ReceiveRelease
    BY <2>1
    DEF StrandJoin, Tell, Receiving, booksVars, sessionVars, callVars, registryVars, envVars,
        ReceiveRelease, Go, PlaceTypes
  <2>2. CASE ReceiveStart
    BY <2>2, Names
    DEF ReceiveStart, Receiving, booksVars, callVars, clientVars, registryVars, envVars,
        PlaceTypes
  <2>3. CASE ReceiveJoin
    BY <2>3, Names
    DEF ReceiveJoin, Receiving, booksVars, callVars, clientVars, registryVars, envVars,
        PlaceTypes
  <2>4. CASE Turn
    BY <2>4, Names
    DEF Turn, booksVars, callVars, clientVars, envVars, PlaceTypes
  <2>5. CASE FillNext
    BY <2>5, Names
    DEF FillNext, booksVars, callVars, clientVars, registryVars, envVars, PlaceTypes
  <2>6. CASE DropAbandoned
    BY <2>6, Names
    DEF DropAbandoned, AfterAdmission, booksVars, callVars, clientVars, registryVars, envVars,
        PlaceTypes
  <2>7. CASE HandBack
    BY <2>7, Names
    DEF HandBack, booksVars, callVars, clientVars, registryVars, envVars, PlaceTypes
  <2>8. CASE Bounce
    BY <2>8, Names
    DEF Bounce, Tell, AfterAdmission, booksVars, callVars, registryVars, envVars, PlaceTypes
  <2>9. CASE StepEmpty
    BY <2>9, Names
    DEF StepEmpty, booksVars, callVars, clientVars, registryVars, envVars, PlaceTypes
  <2>10. CASE Guarded
    BY <2>10, Names
    DEF Guarded, Condemned, booksVars, clientVars, registryVars, envVars, PlaceTypes
  <2>11. CASE \E how \in Outcomes : CallReturns(how)
    BY <2>11, Names
    DEF CallReturns, NoteUnattributedPanic, booksVars, clientVars, registryVars, envVars,
        PlaceTypes
  <2>12. CASE Deliver
    BY <2>12, Names
    DEF Deliver, Forget, AfterAdmission, booksVars, registryVars, envVars, PlaceTypes
  <2>13. CASE FailOrdinary
    BY <2>13, Names
    DEF FailOrdinary, Tell, Forget, booksVars, registryVars, envVars, PlaceTypes
  <2>14. CASE JudgeDeviceFailed
    BY <2>14, Names
    DEF JudgeDeviceFailed, booksVars, callVars, clientVars, registryVars, envVars, PlaceTypes
  <2>15. CASE FailCloses
    BY <2>15, Names
    DEF FailCloses, booksVars, callVars, clientVars, envVars, PlaceTypes
  <2>16. CASE FailDecides
    BY <2>16, Names
    DEF FailDecides, Tell, Forget, RecordFailure, registryVars, envVars, PlaceTypes
  <2>17. CASE FailEvicts
    BY <2>17, Names
    DEF FailEvicts, booksVars, callVars, clientVars, registryVars, envVars, PlaceTypes
  <2>18. CASE MaybeEnd
    BY <2>18, Names
    DEF MaybeEnd, booksVars, callVars, clientVars, envVars, PlaceTypes
  <2>19. CASE Close
    BY <2>19, Names
    DEF Close, booksVars, callVars, clientVars, envVars, PlaceTypes
  <2>20. CASE LetGo
    BY <2>20, Names
    DEF LetGo, booksVars, callVars, clientVars, registryVars, envVars, PlaceTypes
  <2>21. QED
    BY <1>2, <2>1, <2>2, <2>3, <2>4, <2>5, <2>6, <2>7, <2>8, <2>9, <2>10, <2>11, <2>12, <2>13,
         <2>14, <2>15, <2>16, <2>17, <2>18, <2>19, <2>20
    DEF ThreadStep
<1>3. CASE \/ IdleOut \/ SpanElapses \/ ReleaseBatch \/ UnloadIdle \/ TimePasses
          \/ (\E d \in Accelerators : DeviceFails(d)) \/ OutsideFails \/ OutsideEvicts
  <2>1. CASE \/ IdleOut \/ SpanElapses \/ ReleaseBatch \/ UnloadIdle \/ TimePasses
             \/ (\E d \in Accelerators : DeviceFails(d)) \/ OutsideFails \/ OutsideEvicts
    BY <2>1
    DEF IdleOut, booksVars, callVars, clientVars, registryVars, envVars, SpanElapses,
        ReleaseBatch, Post, sessionVars, UnloadIdle, TimePasses, CooldownEnds, DeviceFails,
        NoteDevicePanic, PlaceTypes, OutsideFails, FailsOutside, Contain, OutsideEvicts,
        EvictElsewhere
  <2>2. QED
    BY <1>3, <2>1
<1>4. CASE UNCHANGED vars
  BY <1>4
  DEF vars, booksVars, sessionVars, callVars, clientVars, registryVars, envVars, PlaceTypes
<1>5. QED
  BY <1>1, <1>2, <1>3, <1>4 DEF Next, OutsideFails, OutsideEvicts

\* Every step keeps the slot's types.
LEMMA SlotTypeStep ==
  BooksTypeOK /\ SlotTypes /\ KeyType /\ [Next]_vars => SlotTypes'
<1> SUFFICES ASSUME BooksTypeOK, SlotTypes, KeyType, [Next]_vars
             PROVE  SlotTypes'
  OBVIOUS
<1>1. ASSUME NEW r \in Requests, RequestNext(r)
      PROVE  SlotTypes'
  <2>1. CASE \/ Arrive(r) \/ Join(r) \/ JoinMissed(r) \/ HangUp(r) \/ Queue(r) \/ ReleaseWait(r)
             \/ Publish(r) \/ ReadToken(r) \/ ReadBounce(r) \/ ReadEnd(r)
    BY <2>1
    DEF Arrive, Go, booksVars, sessionVars, callVars, registryVars, envVars, Join, Post,
        JoinMissed, HangUp, Return, Queue, ReleaseWait, Publish, Condemned, ReadToken,
        GenerationSucceeded, ReadBounce, ReadEnd, SlotTypes
  <2>2. CASE TakeSlot(r)
    BY <2>2
    DEF TakeSlot, Go, Condemned, booksVars, sessionVars, registryVars, envVars, SlotTypes
  <2>3. CASE RefuseLoad(r)
    BY <2>3
    DEF RefuseLoad, Return, Go, booksVars, sessionVars, callVars, registryVars, envVars,
        SlotTypes
  <2>4. CASE LoadLands(r)
    BY <2>4
    DEF LoadLands, Go, LoadSucceeded, sessionVars, registryVars, envVars, SlotTypes, Model,
        KeyType, BooksTypeOK
  <2>5. CASE LoadFails(r)
    BY <2>5
    DEF LoadFails, Return, Go, booksVars, sessionVars, callVars, registryVars, envVars,
        SlotTypes
  <2>6. CASE ServingFailed(r)
    BY <2>6
    DEF ServingFailed, Return, Condemned, RecordFailure, Go, sessionVars, callVars,
        registryVars, envVars, SlotTypes
  <2>7. CASE SendStart(r)
    BY <2>7
    DEF SendStart, Go, Post, booksVars, sessionVars, registryVars, envVars, SlotTypes
  <2>8. QED
    BY <1>1, <2>1, <2>2, <2>3, <2>4, <2>5, <2>6, <2>7
    DEF RequestNext, Serving, Reads
<1>2. CASE ThreadStep
  <2>1. CASE \/ ReceiveStart \/ ReceiveJoin \/ StrandJoin \/ ReceiveRelease \/ Turn \/ FillNext
             \/ DropAbandoned \/ HandBack \/ Bounce \/ StepEmpty \/ Guarded \/ Deliver
             \/ FailOrdinary \/ JudgeDeviceFailed \/ FailCloses \/ FailDecides \/ MaybeEnd
             \/ Close \/ (\E how \in Outcomes : CallReturns(how))
    BY <2>1
    DEF ReceiveStart, Receiving, booksVars, callVars, clientVars, registryVars, envVars,
        ReceiveJoin, StrandJoin, Tell, sessionVars, ReceiveRelease, Go, Turn, FillNext,
        DropAbandoned, AfterAdmission, HandBack, Bounce, StepEmpty, Guarded, Condemned,
        CallReturns, NoteUnattributedPanic, Deliver, Forget, FailOrdinary, JudgeDeviceFailed,
        FailCloses, FailDecides, RecordFailure, MaybeEnd, Close, SlotTypes
  <2>2. CASE FailEvicts
    BY <2>2
    DEF FailEvicts, booksVars, callVars, clientVars, registryVars, envVars, SlotTypes
  <2>3. CASE LetGo
    BY <2>3
    DEF LetGo, booksVars, callVars, clientVars, registryVars, envVars, SlotTypes
  <2>4. QED
    BY <1>2, <2>1, <2>2, <2>3
    DEF ThreadStep
<1>3. CASE \/ IdleOut \/ SpanElapses \/ ReleaseBatch \/ UnloadIdle \/ TimePasses
          \/ (\E d \in Accelerators : DeviceFails(d)) \/ OutsideFails \/ OutsideEvicts
  <2>1. CASE \/ IdleOut \/ SpanElapses \/ ReleaseBatch \/ TimePasses
             \/ (\E d \in Accelerators : DeviceFails(d)) \/ OutsideFails \/ OutsideEvicts
    BY <2>1
    DEF IdleOut, booksVars, callVars, clientVars, registryVars, envVars, SpanElapses,
        ReleaseBatch, Post, sessionVars, TimePasses, CooldownEnds, DeviceFails, NoteDevicePanic,
        SlotTypes, OutsideFails, FailsOutside, Contain, OutsideEvicts, EvictElsewhere
  <2>2. CASE UnloadIdle
    BY <2>2
    DEF UnloadIdle, booksVars, sessionVars, callVars, clientVars, registryVars, envVars,
        SlotTypes
  <2>3. QED
    BY <1>3, <2>1, <2>2
<1>4. CASE UNCHANGED vars
  BY <1>4
  DEF vars, booksVars, sessionVars, callVars, clientVars, registryVars, envVars, SlotTypes
<1>5. QED
  BY <1>1, <1>2, <1>3, <1>4 DEF Next, OutsideFails, OutsideEvicts

\* Every step keeps the registry's type.
LEMMA RegistryTypeStep ==
  RegistryType /\ KeyType /\ [Next]_vars => RegistryType'
<1> SUFFICES ASSUME RegistryType, KeyType, [Next]_vars
             PROVE  RegistryType'
  OBVIOUS
<1>1. ASSUME NEW r \in Requests, RequestNext(r)
      PROVE  RegistryType'
  <2>1. CASE \/ Arrive(r) \/ Join(r) \/ JoinMissed(r) \/ HangUp(r) \/ Queue(r) \/ TakeSlot(r)
             \/ RefuseLoad(r) \/ LoadLands(r) \/ LoadFails(r) \/ ServingFailed(r)
             \/ SendStart(r) \/ ReadToken(r) \/ ReadBounce(r) \/ ReadEnd(r)
    BY <2>1
    DEF Arrive, Go, booksVars, sessionVars, callVars, registryVars, envVars, Join, Post,
        JoinMissed, HangUp, Return, Queue, TakeSlot, Condemned, RefuseLoad, LoadLands,
        LoadSucceeded, LoadFails, ServingFailed, RecordFailure, SendStart, ReadToken,
        GenerationSucceeded, ReadBounce, ReadEnd, RegistryType, KeyType, NoSession
  <2>2. CASE ReleaseWait(r)
    BY <2>2, Zenon
    DEF ReleaseWait, Go, Post, booksVars, sessionVars, callVars, envVars, RegistryType,
        KeyType, NoSession
  <2>3. CASE Publish(r)
    BY <2>3, Zenon
    DEF Publish, Go, Condemned, booksVars, sessionVars, callVars, envVars, RegistryType,
        KeyType, NoSession
  <2>4. QED
    BY <1>1, <2>1, <2>2, <2>3
    DEF RequestNext, Serving, Reads
<1>2. CASE ThreadStep
  <2>1. CASE \/ ReceiveStart \/ ReceiveJoin \/ StrandJoin \/ ReceiveRelease \/ FillNext
             \/ DropAbandoned \/ HandBack \/ Bounce \/ StepEmpty \/ Guarded \/ Deliver
             \/ FailOrdinary \/ JudgeDeviceFailed \/ FailDecides \/ FailEvicts \/ MaybeEnd
             \/ LetGo \/ (\E how \in Outcomes : CallReturns(how))
    BY <2>1
    DEF ReceiveStart, Receiving, booksVars, callVars, clientVars, registryVars, envVars,
        ReceiveJoin, StrandJoin, Tell, sessionVars, ReceiveRelease, Go, FillNext, DropAbandoned,
        AfterAdmission, HandBack, Bounce, StepEmpty, Guarded, Condemned, CallReturns,
        NoteUnattributedPanic, Deliver, Forget, FailOrdinary, JudgeDeviceFailed, FailDecides,
        RecordFailure, FailEvicts, MaybeEnd, LetGo, RegistryType, KeyType, NoSession
  <2>2. CASE Turn
    BY <2>2, Zenon
    DEF Turn, booksVars, callVars, clientVars, envVars, RegistryType, KeyType, NoSession
  <2>3. CASE FailCloses
    <3>1. NoSession \in [key : Models \cup {NoModel}, accepting : BOOLEAN]
      BY DEF NoSession
    <3>2. QED  BY <2>3, <3>1 DEF FailCloses, RegistryType
  <2>4. CASE Close
    <3>1. NoSession \in [key : Models \cup {NoModel}, accepting : BOOLEAN]
      BY DEF NoSession
    <3>2. registry' = registry \/ registry' = NoSession
      BY <2>4 DEF Close
    <3>3. QED  BY <3>1, <3>2 DEF RegistryType
  <2>5. QED
    BY <1>2, <2>1, <2>2, <2>3, <2>4
    DEF ThreadStep
<1>3. CASE \/ IdleOut \/ SpanElapses \/ ReleaseBatch \/ UnloadIdle \/ TimePasses
          \/ (\E d \in Accelerators : DeviceFails(d)) \/ OutsideFails \/ OutsideEvicts
  <2>1. CASE \/ IdleOut \/ SpanElapses \/ UnloadIdle \/ TimePasses
             \/ (\E d \in Accelerators : DeviceFails(d)) \/ OutsideFails
    BY <2>1
    DEF IdleOut, booksVars, callVars, clientVars, registryVars, envVars, SpanElapses,
        UnloadIdle, sessionVars, TimePasses, CooldownEnds, DeviceFails, NoteDevicePanic,
        RegistryType, KeyType, NoSession, OutsideFails, FailsOutside, Contain
  <2>2. CASE ReleaseBatch
    BY <2>2, Zenon
    DEF ReleaseBatch, Post, booksVars, sessionVars, callVars, clientVars, RegistryType, KeyType,
        NoSession
  <2>3. CASE OutsideEvicts
    BY <2>3, Zenon
    DEF OutsideEvicts, EvictElsewhere, Post, booksVars, sessionVars, callVars, clientVars,
        RegistryType, KeyType,
        NoSession
  <2>4. QED
    BY <1>3, <2>1, <2>2, <2>3
<1>4. CASE UNCHANGED vars
  BY <1>4
  DEF vars, booksVars, sessionVars, callVars, clientVars, registryVars, envVars, RegistryType,
      KeyType, NoSession
<1>5. QED
  BY <1>1, <1>2, <1>3, <1>4 DEF Next, OutsideFails, OutsideEvicts

\* Every step keeps the types of what the thread has in hand.
LEMMA HandStep ==
  HandTypes /\ Lists /\ SlotTypes /\ ChannelType /\ SlotInv /\ ChannelInv /\ [Next]_vars =>
  HandTypes'
<1> SUFFICES ASSUME HandTypes, Lists, SlotTypes, ChannelType, SlotInv, ChannelInv, [Next]_vars
             PROVE  HandTypes'
  OBVIOUS
<1>1. ASSUME NEW r \in Requests, RequestNext(r)
      PROVE  HandTypes'
  <2>1. CASE \/ Arrive(r) \/ Join(r) \/ JoinMissed(r) \/ HangUp(r) \/ Queue(r) \/ TakeSlot(r)
             \/ RefuseLoad(r) \/ ReleaseWait(r) \/ LoadLands(r) \/ LoadFails(r)
             \/ ServingFailed(r) \/ Publish(r) \/ SendStart(r) \/ ReadToken(r) \/ ReadBounce(r)
             \/ ReadEnd(r)
    BY <2>1
    DEF Arrive, Go, booksVars, sessionVars, callVars, registryVars, envVars, Join, Post,
        JoinMissed, HangUp, Return, Queue, TakeSlot, Condemned, RefuseLoad, ReleaseWait,
        LoadLands, LoadSucceeded, LoadFails, ServingFailed, RecordFailure, Publish, SendStart,
        ReadToken, GenerationSucceeded, ReadBounce, ReadEnd, HandTypes
  <2>2. QED
    BY <1>1, <2>1
    DEF RequestNext, Serving, Reads
<1>2. CASE ThreadStep
  <2>1. CASE \/ StrandJoin \/ Turn \/ StepEmpty \/ Guarded \/ JudgeDeviceFailed \/ FailCloses
             \/ FailEvicts \/ MaybeEnd \/ Close \/ (\E how \in Outcomes : CallReturns(how))
    BY <2>1
    DEF StrandJoin, Tell, Receiving, booksVars, sessionVars, callVars, registryVars, envVars,
        Turn, clientVars, StepEmpty, Guarded, Condemned, CallReturns, NoteUnattributedPanic,
        JudgeDeviceFailed, FailCloses, FailEvicts, MaybeEnd, Close, HandTypes
  <2>2. CASE ReceiveStart
    BY <2>2, Received, DecodeAssumption
    DEF ReceiveStart, booksVars, callVars, clientVars, registryVars, envVars, HandTypes,
        ChannelInv, SlotInv, SlotTypes, Model
  <2>3. CASE ReceiveJoin
    BY <2>3, Received
    DEF ReceiveJoin, booksVars, callVars, clientVars, registryVars, envVars, HandTypes,
        ChannelInv
  <2>4. CASE ReceiveRelease
    BY <2>4
    DEF ReceiveRelease, Go, Receiving, booksVars, callVars, registryVars, envVars, HandTypes
  <2>5. CASE FillNext
    BY <2>5, LineFacts
    DEF FillNext, booksVars, callVars, clientVars, registryVars, envVars, HandTypes, Lists
  <2>6. CASE DropAbandoned
    BY <2>6
    DEF DropAbandoned, AfterAdmission, booksVars, callVars, clientVars, registryVars, envVars,
        HandTypes
  <2>7. CASE HandBack
    BY <2>7
    DEF HandBack, booksVars, callVars, clientVars, registryVars, envVars, HandTypes
  <2>8. CASE Bounce
    BY <2>8
    DEF Bounce, Tell, AfterAdmission, booksVars, callVars, registryVars, envVars, HandTypes
  <2>9. CASE Deliver
    BY <2>9
    DEF Deliver, Forget, AfterAdmission, booksVars, registryVars, envVars, HandTypes
  <2>10. CASE FailOrdinary
    BY <2>10, DecodeAssumption
    DEF FailOrdinary, Tell, Forget, booksVars, registryVars, envVars, HandTypes, SlotInv,
        SlotTypes, Model
  <2>11. CASE FailDecides
    BY <2>11
    DEF FailDecides, Tell, Forget, RecordFailure, registryVars, envVars, HandTypes
  <2>12. CASE LetGo
    BY <2>12
    DEF LetGo, booksVars, callVars, clientVars, registryVars, envVars, HandTypes
  <2>13. QED
    BY <1>2, <2>1, <2>2, <2>3, <2>4, <2>5, <2>6, <2>7, <2>8, <2>9, <2>10, <2>11, <2>12
    DEF ThreadStep
<1>3. CASE \/ IdleOut \/ SpanElapses \/ ReleaseBatch \/ UnloadIdle \/ TimePasses
          \/ (\E d \in Accelerators : DeviceFails(d)) \/ OutsideFails \/ OutsideEvicts
  <2>1. CASE \/ SpanElapses \/ ReleaseBatch \/ UnloadIdle \/ TimePasses
             \/ (\E d \in Accelerators : DeviceFails(d)) \/ OutsideFails \/ OutsideEvicts
    BY <2>1
    DEF SpanElapses, booksVars, callVars, clientVars, registryVars, envVars, ReleaseBatch, Post,
        sessionVars, UnloadIdle, TimePasses, CooldownEnds, DeviceFails, NoteDevicePanic, HandTypes,
        OutsideFails, FailsOutside, Contain, OutsideEvicts, EvictElsewhere
  <2>2. CASE IdleOut
    BY <2>2
    DEF IdleOut, booksVars, callVars, clientVars, registryVars, envVars, HandTypes
  <2>3. QED
    BY <1>3, <2>1, <2>2
<1>4. CASE UNCHANGED vars
  BY <1>4
  DEF vars, booksVars, sessionVars, callVars, clientVars, registryVars, envVars, HandTypes
<1>5. QED
  BY <1>1, <1>2, <1>3, <1>4 DEF Next, OutsideFails, OutsideEvicts

\* Every step keeps the sets of requests sets of requests.
LEMMA SetStep ==
  Sets /\ HandTypes /\ StageType /\ [Next]_vars => Sets'
<1> SUFFICES ASSUME Sets, HandTypes, StageType, [Next]_vars
             PROVE  Sets'
  OBVIOUS
<1>1. ASSUME NEW r \in Requests, RequestNext(r)
      PROVE  Sets'
  <2>1. CASE \/ Arrive(r) \/ Queue(r) \/ TakeSlot(r) \/ ReleaseWait(r) \/ LoadLands(r)
             \/ Publish(r)
    BY <2>1
    DEF Arrive, Go, booksVars, sessionVars, callVars, registryVars, envVars, Queue, TakeSlot,
        Condemned, ReleaseWait, Post, LoadLands, LoadSucceeded, Publish, Sets, HandTypes
  <2>2. CASE Join(r)
    BY <2>2, DecodeAssumption
    DEF Join, Go, Post, booksVars, sessionVars, callVars, registryVars, envVars, Sets,
        HandTypes
  <2>3. CASE JoinMissed(r)
    BY <2>3, DecodeAssumption
    DEF JoinMissed, booksVars, sessionVars, callVars, registryVars, envVars, Sets, HandTypes
  <2>4. CASE HangUp(r)
    BY <2>4, DecodeAssumption
    DEF HangUp, Return, Go, booksVars, sessionVars, callVars, registryVars, envVars, Sets,
        HandTypes
  <2>5. CASE RefuseLoad(r)
    BY <2>5, DecodeAssumption
    DEF RefuseLoad, Return, Go, booksVars, sessionVars, callVars, registryVars, envVars, Sets,
        HandTypes
  <2>6. CASE LoadFails(r)
    BY <2>6, DecodeAssumption
    DEF LoadFails, Return, Go, booksVars, sessionVars, callVars, registryVars, envVars, Sets,
        HandTypes
  <2>7. CASE ServingFailed(r)
    BY <2>7, DecodeAssumption
    DEF ServingFailed, Return, Condemned, RecordFailure, Go, sessionVars, callVars,
        registryVars, envVars, Sets, HandTypes
  <2>8. CASE SendStart(r)
    BY <2>8, DecodeAssumption
    DEF SendStart, Go, Post, booksVars, sessionVars, registryVars, envVars, Sets, HandTypes
  <2>9. CASE ReadToken(r)
    BY <2>9, DecodeAssumption
    DEF ReadToken, Go, GenerationSucceeded, booksVars, sessionVars, callVars, registryVars,
        envVars, Sets, HandTypes
  <2>10. CASE ReadBounce(r)
    BY <2>10, DecodeAssumption
    DEF ReadBounce, Go, booksVars, sessionVars, callVars, registryVars, envVars, Sets,
        HandTypes
  <2>11. CASE ReadEnd(r)
    BY <2>11, DecodeAssumption
    DEF ReadEnd, Return, Go, booksVars, sessionVars, callVars, registryVars, envVars, Sets,
        HandTypes
  <2>12. QED
    BY <1>1, <2>1, <2>2, <2>3, <2>4, <2>5, <2>6, <2>7, <2>8, <2>9, <2>10, <2>11
    DEF RequestNext, Serving, Reads
<1>2. CASE ThreadStep
  <2>1. CASE \/ ReceiveStart \/ ReceiveJoin \/ StrandJoin \/ ReceiveRelease \/ Turn \/ FillNext
             \/ DropAbandoned \/ HandBack \/ Bounce \/ StepEmpty \/ Guarded \/ JudgeDeviceFailed
             \/ FailCloses \/ FailEvicts \/ MaybeEnd \/ Close \/ LetGo
             \/ (\E how \in Outcomes : CallReturns(how))
    BY <2>1
    DEF ReceiveStart, Receiving, booksVars, callVars, clientVars, registryVars, envVars,
        ReceiveJoin, StrandJoin, Tell, sessionVars, ReceiveRelease, Go, Turn, FillNext,
        DropAbandoned, AfterAdmission, HandBack, Bounce, StepEmpty, Guarded, Condemned,
        CallReturns, NoteUnattributedPanic, JudgeDeviceFailed, FailCloses, FailEvicts, MaybeEnd,
        Close, LetGo, Sets, HandTypes
  <2>2. CASE Deliver
    BY <2>2, DecodeAssumption
    DEF Deliver, Forget, AfterAdmission, booksVars, registryVars, envVars, Sets, HandTypes,
        Called
  <2>3. CASE FailOrdinary
    BY <2>3, DecodeAssumption
    DEF FailOrdinary, Tell, Forget, booksVars, registryVars, envVars, Sets, HandTypes
  <2>4. CASE FailDecides
    BY <2>4, DecodeAssumption
    DEF FailDecides, Tell, Forget, RecordFailure, registryVars, envVars, Sets, HandTypes
  <2>5. QED
    BY <1>2, <2>1, <2>2, <2>3, <2>4
    DEF ThreadStep
<1>3. CASE \/ IdleOut \/ SpanElapses \/ ReleaseBatch \/ UnloadIdle \/ TimePasses
          \/ (\E d \in Accelerators : DeviceFails(d)) \/ OutsideFails \/ OutsideEvicts
  <2>1. CASE \/ IdleOut \/ SpanElapses \/ ReleaseBatch \/ UnloadIdle \/ TimePasses
             \/ (\E d \in Accelerators : DeviceFails(d)) \/ OutsideFails \/ OutsideEvicts
    BY <2>1
    DEF IdleOut, booksVars, callVars, clientVars, registryVars, envVars, SpanElapses,
        ReleaseBatch, Post, sessionVars, UnloadIdle, TimePasses, CooldownEnds, DeviceFails,
        NoteDevicePanic, Sets, HandTypes, OutsideFails, FailsOutside, Contain, OutsideEvicts,
        EvictElsewhere
  <2>2. QED
    BY <1>3, <2>1
<1>4. CASE UNCHANGED vars
  BY <1>4
  DEF vars, booksVars, sessionVars, callVars, clientVars, registryVars, envVars, Sets,
      HandTypes
<1>5. QED
  BY <1>1, <1>2, <1>3, <1>4 DEF Next, OutsideFails, OutsideEvicts

\* Every step keeps who waits in line requests.
LEMMA ListStep ==
  Lists /\ HandTypes /\ ChannelType /\ ChannelInv /\ JobInv /\ [Next]_vars => Lists'
<1> SUFFICES ASSUME Lists, HandTypes, ChannelType, ChannelInv, JobInv, [Next]_vars
             PROVE  Lists'
  OBVIOUS
<1>1. ASSUME NEW r \in Requests, RequestNext(r)
      PROVE  Lists'
  <2>1. CASE \/ Arrive(r) \/ Join(r) \/ JoinMissed(r) \/ ReleaseWait(r) \/ LoadLands(r)
             \/ Publish(r) \/ SendStart(r) \/ ReadToken(r)
    BY <2>1
    DEF Arrive, Go, booksVars, sessionVars, callVars, registryVars, envVars, Join, Post,
        JoinMissed, ReleaseWait, LoadLands, LoadSucceeded, Publish, Condemned, SendStart,
        ReadToken, GenerationSucceeded, Lists
  <2>2. CASE HangUp(r)
    BY <2>2, WithoutType
    DEF HangUp, Return, Go, booksVars, sessionVars, callVars, registryVars, envVars, Lists
  <2>3. CASE Queue(r)
    BY <2>3
    DEF Queue, Go, booksVars, sessionVars, callVars, registryVars, envVars, Lists
  <2>4. CASE TakeSlot(r)
    BY <2>4
    DEF TakeSlot, Go, Condemned, booksVars, sessionVars, registryVars, envVars, Lists
  <2>5. CASE RefuseLoad(r)
    BY <2>5, WithoutType
    DEF RefuseLoad, Return, Go, booksVars, sessionVars, callVars, registryVars, envVars, Lists
  <2>6. CASE LoadFails(r)
    BY <2>6, WithoutType
    DEF LoadFails, Return, Go, booksVars, sessionVars, callVars, registryVars, envVars, Lists
  <2>7. CASE ServingFailed(r)
    BY <2>7, WithoutType
    DEF ServingFailed, Return, Condemned, RecordFailure, Go, sessionVars, callVars,
        registryVars, envVars, Lists
  <2>8. CASE ReadBounce(r)
    BY <2>8
    DEF ReadBounce, Go, booksVars, sessionVars, callVars, registryVars, envVars, Lists
  <2>9. CASE ReadEnd(r)
    BY <2>9, WithoutType
    DEF ReadEnd, Return, Go, booksVars, sessionVars, callVars, registryVars, envVars, Lists
  <2>10. QED
    BY <1>1, <2>1, <2>2, <2>3, <2>4, <2>5, <2>6, <2>7, <2>8, <2>9
    DEF RequestNext, Serving, Reads
<1>2. CASE ThreadStep
  <2>1. CASE \/ ReceiveStart \/ StrandJoin \/ ReceiveRelease \/ Turn \/ DropAbandoned \/ Bounce
             \/ StepEmpty \/ Guarded \/ Deliver \/ FailOrdinary \/ JudgeDeviceFailed
             \/ FailCloses \/ FailEvicts \/ MaybeEnd \/ Close \/ LetGo
             \/ (\E how \in Outcomes : CallReturns(how))
    BY <2>1
    DEF ReceiveStart, Receiving, booksVars, callVars, clientVars, registryVars, envVars,
        StrandJoin, Tell, sessionVars, ReceiveRelease, Go, Turn, DropAbandoned, AfterAdmission,
        Bounce, StepEmpty, Guarded, Condemned, CallReturns, NoteUnattributedPanic, Deliver,
        Forget, FailOrdinary, JudgeDeviceFailed, FailCloses, FailEvicts, MaybeEnd, Close, LetGo,
        Lists
  <2>2. CASE ReceiveJoin
    <3>1. Head(channel).from \in Requests
      BY <2>2, Received DEF ReceiveJoin, ChannelInv
    <3>2. \A e \in Requests : /\ Append(waiting, e) \in Seq(Requests)
   BY LineFacts DEF Lists
    <3>3. QED  BY <2>2, <3>1, <3>2 DEF ReceiveJoin, clientVars, Lists
  <2>3. CASE FillNext
    BY <2>3
    DEF FillNext, booksVars, callVars, clientVars, registryVars, envVars, Lists
  <2>4. CASE HandBack
    <3>1. job \in Requests
      BY <2>4 DEF HandBack, JobInv, HandTypes
    <3>2. \A e \in Requests : /\ Append(waiting, e) \in Seq(Requests)
                                /\ <<e>> \o waiting \in Seq(Requests)
      BY LineFacts DEF Lists
    <3>3. QED  BY <2>4, <3>1, <3>2 DEF HandBack, clientVars, Lists
  <2>5. CASE FailDecides
    BY <2>5
    DEF FailDecides, Tell, Forget, RecordFailure, registryVars, envVars, Lists
  <2>6. QED
    BY <1>2, <2>1, <2>2, <2>3, <2>4, <2>5
    DEF ThreadStep
<1>3. CASE \/ IdleOut \/ SpanElapses \/ ReleaseBatch \/ UnloadIdle \/ TimePasses
          \/ (\E d \in Accelerators : DeviceFails(d)) \/ OutsideFails \/ OutsideEvicts
  <2>1. CASE \/ IdleOut \/ SpanElapses \/ ReleaseBatch \/ UnloadIdle \/ TimePasses
             \/ (\E d \in Accelerators : DeviceFails(d)) \/ OutsideFails \/ OutsideEvicts
    BY <2>1
    DEF IdleOut, booksVars, callVars, clientVars, registryVars, envVars, SpanElapses,
        ReleaseBatch, Post, sessionVars, UnloadIdle, TimePasses, CooldownEnds, DeviceFails,
        NoteDevicePanic, Lists, OutsideFails, FailsOutside, Contain, OutsideEvicts, EvictElsewhere
  <2>2. QED
    BY <1>3, <2>1
<1>4. CASE UNCHANGED vars
  BY <1>4
  DEF vars, booksVars, sessionVars, callVars, clientVars, registryVars, envVars, Lists
<1>5. QED
  BY <1>1, <1>2, <1>3, <1>4 DEF Next, OutsideFails, OutsideEvicts

\* Every step keeps the messages messages.
LEMMA ChannelTypeStep ==
  ChannelType /\ [Next]_vars => ChannelType'
<1> SUFFICES ASSUME ChannelType, [Next]_vars
             PROVE  ChannelType'
  OBVIOUS
<1>1. ASSUME NEW r \in Requests, RequestNext(r)
      PROVE  ChannelType'
  <2>1. CASE \/ Arrive(r) \/ JoinMissed(r) \/ HangUp(r) \/ Queue(r) \/ TakeSlot(r)
             \/ RefuseLoad(r) \/ LoadLands(r) \/ LoadFails(r) \/ ServingFailed(r) \/ Publish(r)
             \/ ReadToken(r) \/ ReadBounce(r) \/ ReadEnd(r)
    BY <2>1
    DEF Arrive, Go, booksVars, sessionVars, callVars, registryVars, envVars, JoinMissed,
        HangUp, Return, Queue, TakeSlot, Condemned, RefuseLoad, LoadLands, LoadSucceeded,
        LoadFails, ServingFailed, RecordFailure, Publish, ReadToken, GenerationSucceeded,
        ReadBounce, ReadEnd, ChannelType
  <2>2. CASE Join(r)
    BY <2>2, Posted, Received, Posted
    DEF Join, Go, booksVars, sessionVars, callVars, registryVars, envVars, Messages
  <2>3. CASE ReleaseWait(r)
    BY <2>3, Posted, Received, Posted
    DEF ReleaseWait, Go, booksVars, sessionVars, callVars, envVars, Messages
  <2>4. CASE SendStart(r)
    BY <2>4, Posted, Received, Posted
    DEF SendStart, Go, booksVars, sessionVars, registryVars, envVars, Messages
  <2>5. QED
    BY <1>1, <2>1, <2>2, <2>3, <2>4
    DEF RequestNext, Serving, Reads
<1>2. CASE ThreadStep
  <2>1. CASE \/ Turn \/ FillNext \/ DropAbandoned \/ HandBack \/ Bounce \/ StepEmpty \/ Guarded
             \/ Deliver \/ FailOrdinary \/ JudgeDeviceFailed \/ FailCloses \/ FailDecides
             \/ FailEvicts \/ MaybeEnd \/ Close \/ LetGo
             \/ (\E how \in Outcomes : CallReturns(how))
    BY <2>1
    DEF Turn, booksVars, callVars, clientVars, envVars, FillNext, registryVars, DropAbandoned,
        AfterAdmission, HandBack, Bounce, Tell, StepEmpty, Guarded, Condemned, CallReturns,
        NoteUnattributedPanic, Deliver, Forget, FailOrdinary, JudgeDeviceFailed, FailCloses,
        FailDecides, RecordFailure, FailEvicts, MaybeEnd, Close, LetGo, ChannelType
  <2>2. CASE ReceiveStart
    BY <2>2, Posted, Received, Received
    DEF ReceiveStart, booksVars, callVars, clientVars, registryVars, envVars
  <2>3. CASE ReceiveJoin
    BY <2>3, Posted, Received, Received
    DEF ReceiveJoin, booksVars, callVars, clientVars, registryVars, envVars
  <2>4. CASE StrandJoin
    BY <2>4, Posted, Received, Received
    DEF StrandJoin, Tell, booksVars, sessionVars, callVars, registryVars, envVars
  <2>5. CASE ReceiveRelease
    BY <2>5, Posted, Received, Received
    DEF ReceiveRelease, Go, booksVars, callVars, registryVars, envVars
  <2>6. QED
    BY <1>2, <2>1, <2>2, <2>3, <2>4, <2>5
    DEF ThreadStep
<1>3. CASE \/ IdleOut \/ SpanElapses \/ ReleaseBatch \/ UnloadIdle \/ TimePasses
          \/ (\E d \in Accelerators : DeviceFails(d)) \/ OutsideFails \/ OutsideEvicts
  <2>1. CASE \/ IdleOut \/ SpanElapses \/ UnloadIdle \/ TimePasses
             \/ (\E d \in Accelerators : DeviceFails(d)) \/ OutsideFails
    BY <2>1
    DEF IdleOut, booksVars, callVars, clientVars, registryVars, envVars, SpanElapses,
        UnloadIdle, sessionVars, TimePasses, CooldownEnds, DeviceFails, NoteDevicePanic,
        ChannelType, OutsideFails, FailsOutside, Contain
  <2>2. CASE ReleaseBatch
    BY <2>2, Posted, Received, Posted
    DEF ReleaseBatch, booksVars, sessionVars, callVars, clientVars, Messages
  <2>3. CASE OutsideEvicts
    BY <2>3, Posted, Received, Posted
    DEF OutsideEvicts, EvictElsewhere, booksVars, sessionVars, callVars, clientVars, Messages
  <2>4. QED
    BY <1>3, <2>1, <2>2, <2>3
<1>4. CASE UNCHANGED vars
  BY <1>4
  DEF vars, booksVars, sessionVars, callVars, clientVars, registryVars, envVars, ChannelType
<1>5. QED
  BY <1>1, <1>2, <1>3, <1>4 DEF Next, OutsideFails, OutsideEvicts

\* Every step keeps the counts of tokens in their range.
LEMMA MadeStep ==
  MadeType /\ BatchInv /\ [Next]_vars => MadeType'
<1> SUFFICES ASSUME MadeType, BatchInv, [Next]_vars
             PROVE  MadeType'
  OBVIOUS
<1>1. ASSUME NEW r \in Requests, RequestNext(r)
      PROVE  MadeType'
  <2>1. CASE \/ Arrive(r) \/ Join(r) \/ JoinMissed(r) \/ HangUp(r) \/ Queue(r) \/ TakeSlot(r)
             \/ RefuseLoad(r) \/ ReleaseWait(r) \/ LoadLands(r) \/ LoadFails(r)
             \/ ServingFailed(r) \/ Publish(r) \/ SendStart(r) \/ ReadToken(r) \/ ReadBounce(r)
             \/ ReadEnd(r)
    BY <2>1
    DEF Arrive, Go, booksVars, sessionVars, callVars, registryVars, envVars, Join, Post,
        JoinMissed, HangUp, Return, Queue, TakeSlot, Condemned, RefuseLoad, ReleaseWait,
        LoadLands, LoadSucceeded, LoadFails, ServingFailed, RecordFailure, Publish, SendStart,
        ReadToken, GenerationSucceeded, ReadBounce, ReadEnd, MadeType
  <2>2. QED
    BY <1>1, <2>1
    DEF RequestNext, Serving, Reads
<1>2. CASE ThreadStep
  <2>1. CASE \/ ReceiveStart \/ ReceiveJoin \/ StrandJoin \/ ReceiveRelease \/ Turn \/ FillNext
             \/ DropAbandoned \/ HandBack \/ Bounce \/ StepEmpty \/ Guarded \/ JudgeDeviceFailed
             \/ FailCloses \/ FailEvicts \/ MaybeEnd \/ Close \/ LetGo
             \/ (\E how \in Outcomes : CallReturns(how))
    BY <2>1
    DEF ReceiveStart, Receiving, booksVars, callVars, clientVars, registryVars, envVars,
        ReceiveJoin, StrandJoin, Tell, sessionVars, ReceiveRelease, Go, Turn, FillNext,
        DropAbandoned, AfterAdmission, HandBack, Bounce, StepEmpty, Guarded, Condemned,
        CallReturns, NoteUnattributedPanic, JudgeDeviceFailed, FailCloses, FailEvicts, MaybeEnd,
        Close, LetGo, MadeType
  <2>2. CASE Deliver
    <3>1. PICK event \in [Called -> Events] :
             /\ \A r \in Called : event[r] \in EventsFor(r)
             /\ LET live == {r \in Called : ~Ends(event[r]) /\ Open(r)}
                IN  made' = [r \in Requests |->
                              IF r \notin Called THEN made[r]
                              ELSE IF r \in live THEN made[r] + Tokens(event[r]) ELSE 0]
      BY <2>2 DEF Deliver
    <3>2. \A r \in Called : Tokens(event[r]) \in {0, 1}
      BY DEF Tokens
    <3>3. ASSUME NEW r \in Requests
          PROVE  (IF r \notin Called THEN made[r]
                  ELSE IF r \in {q \in Called : ~Ends(event[q]) /\ Open(q)}
                       THEN made[r] + Tokens(event[r]) ELSE 0) \in 0..MaxTokens
      <4>1. made[r] \in Nat /\ made[r] < MaxTokens
        BY DecodeAssumption DEF MadeType, BatchInv
      <4>2. r \in Called => made[r] + Tokens(event[r]) \in 0..MaxTokens
        BY <3>2, <4>1, DecodeAssumption
      <4>3. QED  BY <4>1, <4>2, DecodeAssumption
    <3>4. QED  BY <3>1, <3>3 DEF MadeType
  <2>3. CASE FailOrdinary
    BY <2>3, DecodeAssumption
    DEF FailOrdinary, Tell, Forget, booksVars, registryVars, envVars, MadeType
  <2>4. CASE FailDecides
    BY <2>4, DecodeAssumption
    DEF FailDecides, Tell, Forget, RecordFailure, registryVars, envVars, MadeType
  <2>5. QED
    BY <1>2, <2>1, <2>2, <2>3, <2>4
    DEF ThreadStep
<1>3. CASE \/ IdleOut \/ SpanElapses \/ ReleaseBatch \/ UnloadIdle \/ TimePasses
          \/ (\E d \in Accelerators : DeviceFails(d)) \/ OutsideFails \/ OutsideEvicts
  <2>1. CASE \/ IdleOut \/ SpanElapses \/ ReleaseBatch \/ UnloadIdle \/ TimePasses
             \/ (\E d \in Accelerators : DeviceFails(d)) \/ OutsideFails \/ OutsideEvicts
    BY <2>1
    DEF IdleOut, booksVars, callVars, clientVars, registryVars, envVars, SpanElapses,
        ReleaseBatch, Post, sessionVars, UnloadIdle, TimePasses, CooldownEnds, DeviceFails,
        NoteDevicePanic, MadeType, OutsideFails, FailsOutside, Contain, OutsideEvicts,
        EvictElsewhere
  <2>2. QED
    BY <1>3, <2>1
<1>4. CASE UNCHANGED vars
  BY <1>4
  DEF vars, booksVars, sessionVars, callVars, clientVars, registryVars, envVars, MadeType
<1>5. QED
  BY <1>1, <1>2, <1>3, <1>4 DEF Next, OutsideFails, OutsideEvicts

\* Every step keeps the flags flags.
LEMMA FlagStep ==
  Flags /\ [Next]_vars => Flags'
<1> SUFFICES ASSUME Flags, [Next]_vars
             PROVE  Flags'
  OBVIOUS
<1>1. ASSUME NEW r \in Requests, RequestNext(r)
      PROVE  Flags'
  <2>1. CASE \/ Arrive(r) \/ Join(r) \/ JoinMissed(r) \/ HangUp(r) \/ Queue(r) \/ TakeSlot(r)
             \/ RefuseLoad(r) \/ ReleaseWait(r) \/ LoadLands(r) \/ LoadFails(r)
             \/ ServingFailed(r) \/ Publish(r) \/ SendStart(r) \/ ReadToken(r) \/ ReadBounce(r)
             \/ ReadEnd(r)
    BY <2>1
    DEF Arrive, Go, booksVars, sessionVars, callVars, registryVars, envVars, Join, Post,
        JoinMissed, HangUp, Return, Queue, TakeSlot, Condemned, RefuseLoad, ReleaseWait,
        LoadLands, LoadSucceeded, LoadFails, ServingFailed, RecordFailure, Publish, SendStart,
        ReadToken, GenerationSucceeded, ReadBounce, ReadEnd, Flags
  <2>2. QED
    BY <1>1, <2>1
    DEF RequestNext, Serving, Reads
<1>2. CASE ThreadStep
  <2>1. CASE \/ ReceiveJoin \/ StrandJoin \/ Turn \/ DropAbandoned \/ Bounce \/ Guarded
             \/ JudgeDeviceFailed
    BY <2>1
    DEF ReceiveJoin, Receiving, booksVars, callVars, clientVars, registryVars, envVars,
        StrandJoin, Tell, sessionVars, Turn, DropAbandoned, AfterAdmission, Bounce, Guarded,
        Condemned, JudgeDeviceFailed, Flags
  <2>2. CASE ReceiveStart
    BY <2>2, Zenon
    DEF ReceiveStart, Receiving, booksVars, callVars, clientVars, registryVars, envVars, Flags
  <2>3. CASE ReceiveRelease
    BY <2>3, Zenon
    DEF ReceiveRelease, Go, Receiving, booksVars, callVars, registryVars, envVars, Flags
  <2>4. CASE FillNext
    BY <2>4, Zenon
    DEF FillNext, booksVars, callVars, clientVars, registryVars, envVars, Flags
  <2>5. CASE HandBack
    BY <2>5, Zenon
    DEF HandBack, booksVars, callVars, clientVars, registryVars, envVars, Flags
  <2>6. CASE StepEmpty
    BY <2>6, Zenon
    DEF StepEmpty, booksVars, callVars, clientVars, registryVars, envVars, Flags
  <2>7. CASE \E how \in Outcomes : CallReturns(how)
    BY <2>7, Zenon
    DEF CallReturns, NoteUnattributedPanic, booksVars, clientVars, registryVars, envVars,
        Flags
  <2>8. CASE Deliver
    BY <2>8, Zenon
    DEF Deliver, Forget, AfterAdmission, booksVars, registryVars, envVars, Flags
  <2>9. CASE FailOrdinary
    BY <2>9, Zenon
    DEF FailOrdinary, Tell, Forget, booksVars, registryVars, envVars, Flags
  <2>10. CASE FailCloses
    BY <2>10, Zenon
    DEF FailCloses, booksVars, callVars, clientVars, envVars, Flags
  <2>11. CASE FailDecides
    BY <2>11, Zenon
    DEF FailDecides, Tell, Forget, RecordFailure, registryVars, envVars, Flags
  <2>12. CASE FailEvicts
    BY <2>12, Zenon
    DEF FailEvicts, booksVars, callVars, clientVars, registryVars, envVars, Flags
  <2>13. CASE MaybeEnd
    BY <2>13, Zenon
    DEF MaybeEnd, booksVars, callVars, clientVars, envVars, Flags
  <2>14. CASE Close
    BY <2>14, Zenon
    DEF Close, booksVars, callVars, clientVars, envVars, Flags
  <2>15. CASE LetGo
    BY <2>15, Zenon
    DEF LetGo, booksVars, callVars, clientVars, registryVars, envVars, Flags
  <2>16. QED
    BY <1>2, <2>1, <2>2, <2>3, <2>4, <2>5, <2>6, <2>7, <2>8, <2>9, <2>10, <2>11, <2>12, <2>13,
         <2>14, <2>15
    DEF ThreadStep
<1>3. CASE \/ IdleOut \/ SpanElapses \/ ReleaseBatch \/ UnloadIdle \/ TimePasses
          \/ (\E d \in Accelerators : DeviceFails(d)) \/ OutsideFails \/ OutsideEvicts
  <2>1. CASE \/ IdleOut \/ ReleaseBatch \/ UnloadIdle \/ TimePasses
             \/ (\E d \in Accelerators : DeviceFails(d)) \/ OutsideFails \/ OutsideEvicts
    BY <2>1
    DEF IdleOut, booksVars, callVars, clientVars, registryVars, envVars, ReleaseBatch, Post,
        sessionVars, UnloadIdle, TimePasses, CooldownEnds, DeviceFails, NoteDevicePanic, Flags,
        OutsideFails, FailsOutside, Contain, OutsideEvicts, EvictElsewhere
  <2>2. CASE SpanElapses
    BY <2>2, Zenon
    DEF SpanElapses, booksVars, callVars, clientVars, registryVars, envVars, Flags
  <2>3. QED
    BY <1>3, <2>1, <2>2
<1>4. CASE UNCHANGED vars
  BY <1>4
  DEF vars, booksVars, sessionVars, callVars, clientVars, registryVars, envVars, Flags
<1>5. QED
  BY <1>1, <1>2, <1>3, <1>4 DEF Next, OutsideFails, OutsideEvicts

\* Every step keeps the environment within its bounds.
LEMMA BoundStep ==
  Bounds /\ [Next]_vars => Bounds'
<1> SUFFICES ASSUME Bounds, [Next]_vars
             PROVE  Bounds'
  OBVIOUS
<1>1. ASSUME NEW r \in Requests, RequestNext(r)
      PROVE  Bounds'
  <2>1. CASE \/ Arrive(r) \/ Join(r) \/ JoinMissed(r) \/ HangUp(r) \/ Queue(r) \/ TakeSlot(r)
             \/ RefuseLoad(r) \/ ReleaseWait(r) \/ LoadLands(r) \/ LoadFails(r)
             \/ ServingFailed(r) \/ Publish(r) \/ SendStart(r) \/ ReadToken(r) \/ ReadBounce(r)
             \/ ReadEnd(r)
    BY <2>1
    DEF Arrive, Go, booksVars, sessionVars, callVars, registryVars, envVars, Join, Post,
        JoinMissed, HangUp, Return, Queue, TakeSlot, Condemned, RefuseLoad, ReleaseWait,
        LoadLands, LoadSucceeded, LoadFails, ServingFailed, RecordFailure, Publish, SendStart,
        ReadToken, GenerationSucceeded, ReadBounce, ReadEnd, Bounds
  <2>2. QED
    BY <1>1, <2>1
    DEF RequestNext, Serving, Reads
<1>2. CASE ThreadStep
  <2>1. CASE \/ ReceiveStart \/ ReceiveJoin \/ StrandJoin \/ ReceiveRelease \/ Turn \/ FillNext
             \/ DropAbandoned \/ HandBack \/ Bounce \/ StepEmpty \/ Guarded \/ Deliver
             \/ FailOrdinary \/ JudgeDeviceFailed \/ FailCloses \/ FailDecides \/ FailEvicts
             \/ MaybeEnd \/ Close \/ LetGo
    BY <2>1
    DEF ReceiveStart, Receiving, booksVars, callVars, clientVars, registryVars, envVars,
        ReceiveJoin, StrandJoin, Tell, sessionVars, ReceiveRelease, Go, Turn, FillNext,
        DropAbandoned, AfterAdmission, HandBack, Bounce, StepEmpty, Guarded, Condemned, Deliver,
        Forget, FailOrdinary, JudgeDeviceFailed, FailCloses, FailDecides, RecordFailure,
        FailEvicts, MaybeEnd, Close, LetGo, Bounds
  <2>2. CASE \E how \in Outcomes : CallReturns(how)
    BY <2>2, DecodeAssumption
    DEF CallReturns, NoteUnattributedPanic, booksVars, clientVars, registryVars, envVars,
        Bounds
  <2>3. QED
    BY <1>2, <2>1, <2>2
    DEF ThreadStep
<1>3. CASE \/ IdleOut \/ SpanElapses \/ ReleaseBatch \/ UnloadIdle \/ TimePasses
          \/ (\E d \in Accelerators : DeviceFails(d)) \/ OutsideFails \/ OutsideEvicts
  <2>1. CASE IdleOut \/ SpanElapses \/ UnloadIdle \/ TimePasses
    BY <2>1
    DEF IdleOut, booksVars, callVars, clientVars, registryVars, envVars, SpanElapses,
        UnloadIdle, sessionVars, TimePasses, CooldownEnds, Bounds
  <2>2. CASE ReleaseBatch
    BY <2>2, DecodeAssumption
    DEF ReleaseBatch, Post, booksVars, sessionVars, callVars, clientVars, Bounds
  <2>3. CASE \E d \in Accelerators : DeviceFails(d)
    BY <2>3, DecodeAssumption
    DEF DeviceFails, NoteDevicePanic, sessionVars, callVars, clientVars, registryVars, Bounds
  <2>4. CASE OutsideFails \/ OutsideEvicts
    BY <2>4, DecodeAssumption
    DEF OutsideFails, FailsOutside, Contain, OutsideEvicts, EvictElsewhere, Bounds
  <2>5. QED
    BY <1>3, <2>1, <2>2, <2>3, <2>4
<1>4. CASE UNCHANGED vars
  BY <1>4
  DEF vars, booksVars, sessionVars, callVars, clientVars, registryVars, envVars, Bounds
<1>5. QED
  BY <1>1, <1>2, <1>3, <1>4 DEF Next, OutsideFails, OutsideEvicts

\* Every step keeps the mark a mark.
LEMMA MarkStep ==
  BooksTypeOK /\ MarkKind /\ [Next]_vars => MarkKind'
<1> SUFFICES ASSUME BooksTypeOK, MarkKind, [Next]_vars
             PROVE  MarkKind'
  OBVIOUS
<1>1. ASSUME NEW r \in Requests, RequestNext(r)
      PROVE  MarkKind'
  <2>1. CASE \/ Arrive(r) \/ Join(r) \/ JoinMissed(r) \/ HangUp(r) \/ Queue(r) \/ RefuseLoad(r)
             \/ ReleaseWait(r) \/ LoadFails(r) \/ ServingFailed(r) \/ Publish(r) \/ ReadToken(r)
             \/ ReadBounce(r) \/ ReadEnd(r)
    BY <2>1
    DEF Arrive, Go, booksVars, sessionVars, callVars, registryVars, envVars, Join, Post,
        JoinMissed, HangUp, Return, Queue, RefuseLoad, ReleaseWait, LoadFails, ServingFailed,
        Condemned, RecordFailure, Publish, ReadToken, GenerationSucceeded, ReadBounce, ReadEnd,
        MarkKind
  <2>2. CASE TakeSlot(r)
    BY <2>2, MarkType, NoMarkType
    DEF TakeSlot, Go, Condemned, booksVars, sessionVars, registryVars, envVars, MarkKind
  <2>3. CASE LoadLands(r)
    BY <2>3, MarkType, NoMarkType
    DEF LoadLands, Go, LoadSucceeded, sessionVars, registryVars, envVars, MarkKind
  <2>4. CASE SendStart(r)
    BY <2>4, MarkType, NoMarkType
    DEF SendStart, Go, Post, booksVars, sessionVars, registryVars, envVars, MarkKind
  <2>5. QED
    BY <1>1, <2>1, <2>2, <2>3, <2>4
    DEF RequestNext, Serving, Reads
<1>2. CASE ThreadStep
  <2>1. CASE \/ ReceiveStart \/ ReceiveJoin \/ StrandJoin \/ ReceiveRelease \/ Turn \/ FillNext
             \/ DropAbandoned \/ HandBack \/ Bounce \/ StepEmpty \/ JudgeDeviceFailed
             \/ FailCloses \/ FailEvicts \/ MaybeEnd \/ Close \/ LetGo
             \/ (\E how \in Outcomes : CallReturns(how))
    BY <2>1
    DEF ReceiveStart, Receiving, booksVars, callVars, clientVars, registryVars, envVars,
        ReceiveJoin, StrandJoin, Tell, sessionVars, ReceiveRelease, Go, Turn, FillNext,
        DropAbandoned, AfterAdmission, HandBack, Bounce, StepEmpty, CallReturns,
        NoteUnattributedPanic, JudgeDeviceFailed, FailCloses, FailEvicts, MaybeEnd, Close,
        LetGo, MarkKind
  <2>2. CASE Guarded
    BY <2>2, MarkType, NoMarkType
    DEF Guarded, Condemned, booksVars, clientVars, registryVars, envVars, MarkKind
  <2>3. CASE Deliver
    BY <2>3, MarkType, NoMarkType
    DEF Deliver, Forget, AfterAdmission, booksVars, registryVars, envVars, MarkKind
  <2>4. CASE FailOrdinary
    BY <2>4, MarkType, NoMarkType
    DEF FailOrdinary, Tell, Forget, booksVars, registryVars, envVars, MarkKind
  <2>5. CASE FailDecides
    BY <2>5, MarkType, NoMarkType
    DEF FailDecides, Tell, Forget, RecordFailure, registryVars, envVars, MarkKind
  <2>6. QED
    BY <1>2, <2>1, <2>2, <2>3, <2>4, <2>5
    DEF ThreadStep
<1>3. CASE \/ IdleOut \/ SpanElapses \/ ReleaseBatch \/ UnloadIdle \/ TimePasses
          \/ (\E d \in Accelerators : DeviceFails(d)) \/ OutsideFails \/ OutsideEvicts
  <2>1. CASE \/ IdleOut \/ SpanElapses \/ ReleaseBatch \/ UnloadIdle \/ TimePasses
             \/ (\E d \in Accelerators : DeviceFails(d)) \/ OutsideFails \/ OutsideEvicts
    BY <2>1
    DEF IdleOut, booksVars, callVars, clientVars, registryVars, envVars, SpanElapses,
        ReleaseBatch, Post, sessionVars, UnloadIdle, TimePasses, CooldownEnds, DeviceFails,
        NoteDevicePanic, MarkKind, OutsideFails, FailsOutside, Contain, OutsideEvicts,
        EvictElsewhere
  <2>2. QED
    BY <1>3, <2>1
<1>4. CASE UNCHANGED vars
  BY <1>4
  DEF vars, booksVars, sessionVars, callVars, clientVars, registryVars, envVars, MarkKind
<1>5. QED
  BY <1>1, <1>2, <1>3, <1>4 DEF Next, OutsideFails, OutsideEvicts

\* Every step keeps the books' types.
LEMMA BooksStep ==
  BooksTypeOK /\ [Next]_vars => BooksTypeOK'
<1> SUFFICES ASSUME BooksTypeOK, [Next]_vars
             PROVE  BooksTypeOK'
  OBVIOUS
<1>1. ASSUME NEW r \in Requests, RequestNext(r)
      PROVE  BooksTypeOK'
  <2>1. CASE \/ Arrive(r) \/ Join(r) \/ JoinMissed(r) \/ HangUp(r) \/ Queue(r) \/ TakeSlot(r)
             \/ RefuseLoad(r) \/ ReleaseWait(r) \/ LoadFails(r) \/ Publish(r) \/ SendStart(r)
             \/ ReadBounce(r) \/ ReadEnd(r)
    BY <2>1, SameBooksType
    DEF Arrive, Go, booksVars, sessionVars, callVars, registryVars, envVars, Join, Post,
        JoinMissed, HangUp, Return, Queue, TakeSlot, Condemned, RefuseLoad, ReleaseWait,
        LoadFails, Publish, SendStart, ReadBounce, ReadEnd
  <2>2. CASE LoadLands(r)
    BY <2>2, RecordFailureType, LoadSucceededType, GenerationSucceededType, NoteDevicePanicType,
       NoteUnattributedPanicType, CooldownEndsType, SameBooksType
    DEF LoadLands, Go, LoadSucceeded, sessionVars, registryVars, envVars
  <2>3. CASE ServingFailed(r)
    BY <2>3, RecordFailureType, LoadSucceededType, GenerationSucceededType, NoteDevicePanicType,
       NoteUnattributedPanicType, CooldownEndsType, SameBooksType
    DEF ServingFailed, Return, Condemned, RecordFailure, Go, sessionVars, callVars,
        registryVars, envVars
  <2>4. CASE ReadToken(r)
    BY <2>4, RecordFailureType, LoadSucceededType, GenerationSucceededType, NoteDevicePanicType,
       NoteUnattributedPanicType, CooldownEndsType, SameBooksType
    DEF ReadToken, Go, GenerationSucceeded, booksVars, sessionVars, callVars, registryVars,
        envVars
  <2>5. QED
    BY <1>1, <2>1, <2>2, <2>3, <2>4
    DEF RequestNext, Serving, Reads
<1>2. CASE ThreadStep
  <2>1. CASE \/ ReceiveStart \/ ReceiveJoin \/ StrandJoin \/ ReceiveRelease \/ Turn \/ FillNext
             \/ DropAbandoned \/ HandBack \/ Bounce \/ StepEmpty \/ Guarded \/ Deliver
             \/ FailOrdinary \/ JudgeDeviceFailed \/ FailCloses \/ FailEvicts \/ MaybeEnd
             \/ Close \/ LetGo
    BY <2>1, SameBooksType
    DEF ReceiveStart, Receiving, booksVars, callVars, clientVars, registryVars, envVars,
        ReceiveJoin, StrandJoin, Tell, sessionVars, ReceiveRelease, Go, Turn, FillNext,
        DropAbandoned, AfterAdmission, HandBack, Bounce, StepEmpty, Guarded, Condemned, Deliver,
        Forget, FailOrdinary, JudgeDeviceFailed, FailCloses, FailEvicts, MaybeEnd, Close, LetGo
  <2>2. CASE \E how \in Outcomes : CallReturns(how)
    BY <2>2, RecordFailureType, LoadSucceededType, GenerationSucceededType, NoteDevicePanicType,
       NoteUnattributedPanicType, CooldownEndsType, SameBooksType, SameBooksType
    DEF CallReturns, NoteUnattributedPanic, booksVars, clientVars, registryVars, envVars
  <2>3. CASE FailDecides
    BY <2>3, RecordFailureType, LoadSucceededType, GenerationSucceededType, NoteDevicePanicType,
       NoteUnattributedPanicType, CooldownEndsType, SameBooksType
    DEF FailDecides, Tell, Forget, RecordFailure, registryVars, envVars
  <2>4. QED
    BY <1>2, <2>1, <2>2, <2>3
    DEF ThreadStep
<1>3. CASE \/ IdleOut \/ SpanElapses \/ ReleaseBatch \/ UnloadIdle \/ TimePasses
          \/ (\E d \in Accelerators : DeviceFails(d)) \/ OutsideFails \/ OutsideEvicts
  <2>1. CASE IdleOut \/ SpanElapses \/ ReleaseBatch \/ UnloadIdle
    BY <2>1, SameBooksType
    DEF IdleOut, booksVars, callVars, clientVars, registryVars, envVars, SpanElapses,
        ReleaseBatch, Post, sessionVars, UnloadIdle
  <2>2. CASE TimePasses
    BY <2>2, RecordFailureType, LoadSucceededType, GenerationSucceededType, NoteDevicePanicType,
       NoteUnattributedPanicType, CooldownEndsType, SameBooksType
    DEF TimePasses, CooldownEnds, sessionVars, callVars, clientVars, registryVars, envVars
  <2>3. CASE \E d \in Accelerators : DeviceFails(d)
    <3>1. PICK d \in Accelerators : DeviceFails(d)
      BY <2>3
    <3>2. QED  BY <3>1, NoteDevicePanicType DEF DeviceFails, Devices
  <2>4. CASE OutsideFails
    <3>1. PICK c \in Outsiders : FailsOutside(c) \/ Contain(c)
      BY <2>4 DEF OutsideFails
    <3>2. CASE FailsOutside(c)
      BY <3>2, NoteUnattributedPanicType, SameBooksType DEF FailsOutside
    <3>3. CASE Contain(c)
      BY <3>3, RecordFailureType DEF Contain
    <3>4. QED  BY <3>1, <3>2, <3>3
  <2>5. CASE OutsideEvicts
    BY <2>5, SameBooksType DEF OutsideEvicts, EvictElsewhere
  <2>6. QED
    BY <1>3, <2>1, <2>2, <2>3, <2>4, <2>5
<1>4. CASE UNCHANGED vars
  BY <1>4, SameBooksType
  DEF vars, booksVars, sessionVars, callVars, clientVars, registryVars, envVars
<1>5. QED
  BY <1>1, <1>2, <1>3, <1>4 DEF Next, OutsideFails, OutsideEvicts

\* Every step keeps a slot handed over in somebody's hands.
LEMMA HandedStep ==
  SlotTypes /\ StageType /\ PlaceTypes /\ ChannelType /\ SlotInv /\ ChannelInv /\ HandedInv /\
  [Next]_vars => HandedInv'
<1> SUFFICES ASSUME SlotTypes, StageType, PlaceTypes, ChannelType, SlotInv, ChannelInv,
                   HandedInv, [Next]_vars
             PROVE  HandedInv'
  OBVIOUS
<1>1. ASSUME NEW r \in Requests, RequestNext(r)
      PROVE  HandedInv'
  <2>1. CASE \/ Arrive(r) \/ JoinMissed(r) \/ HangUp(r) \/ Queue(r) \/ LoadLands(r)
             \/ Publish(r) \/ ReadToken(r) \/ ReadBounce(r) \/ ReadEnd(r)
    BY <2>1
    DEF Arrive, Go, booksVars, sessionVars, callVars, registryVars, envVars, JoinMissed,
        HangUp, Return, Queue, LoadLands, LoadSucceeded, Publish, Condemned, ReadToken,
        GenerationSucceeded, ReadBounce, ReadEnd, HandedInv
  <2>2. CASE Join(r)
    <3>1. \A i \in DOMAIN channel : channel[i].kind = "start" =>
             \E j \in DOMAIN channel' : channel'[j].kind = "start"
      BY <2>2, Posted DEF Join, Messages
    <3>2. QED  BY <2>2, <3>1, DecodeAssumption DEF Join, sessionVars, clientVars, HandedInv
  <2>3. CASE TakeSlot(r)
    BY <2>3, DecodeAssumption
    DEF TakeSlot, Go, Condemned, booksVars, sessionVars, registryVars, envVars, HandedInv
  <2>4. CASE RefuseLoad(r)
    BY <2>4, DecodeAssumption
    DEF RefuseLoad, Return, Go, booksVars, sessionVars, callVars, registryVars, envVars,
        HandedInv
  <2>5. CASE ReleaseWait(r)
    <3>1. \A i \in DOMAIN channel : channel[i].kind = "start" =>
             \E j \in DOMAIN channel' : channel'[j].kind = "start"
      BY <2>5, Posted DEF ReleaseWait, Messages
    <3>2. QED  BY <2>5, <3>1, DecodeAssumption DEF ReleaseWait, sessionVars, clientVars, HandedInv
  <2>6. CASE LoadFails(r)
    BY <2>6, DecodeAssumption
    DEF LoadFails, Return, Go, booksVars, sessionVars, callVars, registryVars, envVars,
        HandedInv
  <2>7. CASE ServingFailed(r)
    BY <2>7, DecodeAssumption
    DEF ServingFailed, Return, Condemned, RecordFailure, Go, sessionVars, callVars,
        registryVars, envVars, HandedInv
  <2>8. CASE SendStart(r)
    <3>1. PICK n : /\ n \notin DOMAIN channel /\ DOMAIN channel' = DOMAIN channel \cup {n}
                   /\ channel'[n] = [kind |-> "start", from |-> r]
                   /\ \A i \in DOMAIN channel : channel'[i] = channel[i]
      BY <2>8, Posted DEF SendStart, Messages
    <3>2. channel'[n].kind = "start" /\ channel'[n].from = r
      BY <3>1
    <3>3. n \in DOMAIN channel'
      BY <3>1
    <3>4. QED  BY <3>2, <3>3 DEF HandedInv
  <2>9. QED
    BY <1>1, <2>1, <2>2, <2>3, <2>4, <2>5, <2>6, <2>7, <2>8
    DEF RequestNext, Serving, Reads
<1>2. CASE ThreadStep
  <2>1. CASE ReceiveStart
    BY <2>1, DecodeAssumption
    DEF ReceiveStart, Receiving, booksVars, callVars, clientVars, registryVars, envVars,
        HandedInv
  <2>2. CASE ReceiveJoin
    BY <2>2, DecodeAssumption
    DEF ReceiveJoin, Receiving, booksVars, callVars, clientVars, registryVars, envVars,
        HandedInv
  <2>3. CASE StrandJoin
    <3>1. channel[1].kind = "join"
      BY <2>3, Received DEF StrandJoin
    <3>2. \A i \in DOMAIN channel : channel[i].kind = "start" =>
             \E j \in DOMAIN channel' : channel'[j].kind = "start"
      <4> SUFFICES ASSUME NEW i \in DOMAIN channel, channel[i].kind = "start"
                   PROVE  \E j \in DOMAIN channel' : channel'[j].kind = "start"
        OBVIOUS
      <4>1. i # 1 BY <3>1
      <4>2. i - 1 \in DOMAIN channel' /\ channel'[i - 1] = channel[i]
        BY <2>3, <4>1, Received DEF StrandJoin
      <4>3. QED  BY <4>2
    <3>3. QED  BY <2>3, <3>2 DEF StrandJoin, sessionVars, HandedInv
  <2>4. CASE ReceiveRelease
    <3>1. channel[1].kind = "release"
      BY <2>4, Received DEF ReceiveRelease
    <3>2. \A i \in DOMAIN channel : channel[i].kind = "start" =>
             \E j \in DOMAIN channel' : channel'[j].kind = "start"
      <4> SUFFICES ASSUME NEW i \in DOMAIN channel, channel[i].kind = "start"
                   PROVE  \E j \in DOMAIN channel' : channel'[j].kind = "start"
        OBVIOUS
      <4>1. i # 1 BY <3>1
      <4>2. i - 1 \in DOMAIN channel' /\ channel'[i - 1] = channel[i]
        BY <2>4, <4>1, Received DEF ReceiveRelease
      <4>3. QED  BY <4>2
    <3>3. QED  BY <2>4, <3>2 DEF ReceiveRelease, sessionVars, HandedInv
  <2>5. CASE Turn
    BY <2>5, DecodeAssumption
    DEF Turn, booksVars, callVars, clientVars, envVars, HandedInv, SlotInv
  <2>6. CASE FillNext
    BY <2>6, DecodeAssumption
    DEF FillNext, booksVars, callVars, clientVars, registryVars, envVars, HandedInv, SlotInv
  <2>7. CASE DropAbandoned
    BY <2>7, DecodeAssumption
    DEF DropAbandoned, AfterAdmission, booksVars, callVars, clientVars, registryVars, envVars,
        HandedInv, SlotInv
  <2>8. CASE HandBack
    BY <2>8, DecodeAssumption
    DEF HandBack, booksVars, callVars, clientVars, registryVars, envVars, HandedInv, SlotInv
  <2>9. CASE Bounce
    BY <2>9, DecodeAssumption
    DEF Bounce, Tell, AfterAdmission, booksVars, callVars, registryVars, envVars, HandedInv,
        SlotInv
  <2>10. CASE StepEmpty
    BY <2>10, DecodeAssumption
    DEF StepEmpty, booksVars, callVars, clientVars, registryVars, envVars, HandedInv, SlotInv
  <2>11. CASE Guarded
    BY <2>11, DecodeAssumption
    DEF Guarded, Condemned, booksVars, clientVars, registryVars, envVars, HandedInv, SlotInv
  <2>12. CASE \E how \in Outcomes : CallReturns(how)
    BY <2>12, DecodeAssumption
    DEF CallReturns, NoteUnattributedPanic, booksVars, clientVars, registryVars, envVars,
        HandedInv, SlotInv
  <2>13. CASE Deliver
    BY <2>13, DecodeAssumption
    DEF Deliver, Forget, AfterAdmission, booksVars, registryVars, envVars, HandedInv, SlotInv
  <2>14. CASE FailOrdinary
    BY <2>14, DecodeAssumption
    DEF FailOrdinary, Tell, Forget, booksVars, registryVars, envVars, HandedInv, SlotInv
  <2>15. CASE JudgeDeviceFailed
    BY <2>15, DecodeAssumption
    DEF JudgeDeviceFailed, booksVars, callVars, clientVars, registryVars, envVars, HandedInv,
        SlotInv
  <2>16. CASE FailCloses
    BY <2>16, DecodeAssumption
    DEF FailCloses, booksVars, callVars, clientVars, envVars, HandedInv
  <2>17. CASE FailDecides
    BY <2>17, DecodeAssumption
    DEF FailDecides, Tell, Forget, RecordFailure, registryVars, envVars, HandedInv
  <2>18. CASE FailEvicts
    BY <2>18, DecodeAssumption
    DEF FailEvicts, booksVars, callVars, clientVars, registryVars, envVars, HandedInv
  <2>19. CASE MaybeEnd
    BY <2>19, DecodeAssumption
    DEF MaybeEnd, booksVars, callVars, clientVars, envVars, HandedInv, SlotInv
  <2>20. CASE Close
    BY <2>20, DecodeAssumption
    DEF Close, booksVars, callVars, clientVars, envVars, HandedInv, SlotInv
  <2>21. CASE LetGo
    BY <2>21, DecodeAssumption
    DEF LetGo, booksVars, callVars, clientVars, registryVars, envVars, HandedInv
  <2>22. QED
    BY <1>2, <2>1, <2>2, <2>3, <2>4, <2>5, <2>6, <2>7, <2>8, <2>9, <2>10, <2>11, <2>12, <2>13,
         <2>14, <2>15, <2>16, <2>17, <2>18, <2>19, <2>20, <2>21
    DEF ThreadStep
<1>3. CASE \/ IdleOut \/ SpanElapses \/ ReleaseBatch \/ UnloadIdle \/ TimePasses
          \/ (\E d \in Accelerators : DeviceFails(d)) \/ OutsideFails \/ OutsideEvicts
  <2>1. CASE \/ IdleOut \/ SpanElapses \/ UnloadIdle \/ TimePasses
             \/ (\E d \in Accelerators : DeviceFails(d)) \/ OutsideFails
    BY <2>1
    DEF IdleOut, booksVars, callVars, clientVars, registryVars, envVars, SpanElapses,
        UnloadIdle, sessionVars, TimePasses, CooldownEnds, DeviceFails, NoteDevicePanic, HandedInv,
        OutsideFails, FailsOutside, Contain
  <2>2. CASE ReleaseBatch
    <3>1. \A i \in DOMAIN channel : channel[i].kind = "start" =>
             \E j \in DOMAIN channel' : channel'[j].kind = "start"
      BY <2>2, Posted DEF ReleaseBatch, Messages
    <3>2. QED  BY <2>2, <3>1, DecodeAssumption DEF ReleaseBatch, sessionVars, clientVars, HandedInv
  <2>3. CASE OutsideEvicts
    <3>1. \A i \in DOMAIN channel : channel[i].kind = "start" =>
             \E j \in DOMAIN channel' : channel'[j].kind = "start"
      BY <2>3, Posted DEF OutsideEvicts, EvictElsewhere, Messages
    <3>2. QED  BY <2>3, <3>1, DecodeAssumption DEF OutsideEvicts, EvictElsewhere, sessionVars,
        clientVars, HandedInv
  <2>4. QED
    BY <1>3, <2>1, <2>2, <2>3
<1>4. CASE UNCHANGED vars
  BY <1>4
  DEF vars, booksVars, sessionVars, callVars, clientVars, registryVars, envVars, HandedInv
<1>5. QED
  BY <1>1, <1>2, <1>3, <1>4 DEF Next, OutsideFails, OutsideEvicts

(***************************************************************************)
(* The invariant.                                                           *)
(***************************************************************************)

\* The types in parts are the types.
TypeParts ==
  /\ BooksTypeOK /\ SlotTypes /\ RegistryType /\ StageType /\ KeyType /\ UpdateType /\ MadeType
  /\ Lists /\ ChannelType /\ Sets /\ PlaceTypes /\ HandTypes /\ Flags /\ Bounds /\ MarkKind

\* Whatever else holds, the type invariant is the parts and the size of the batch.
LEMMA PartsAreTypes == DecodeTypeOK <=> TypeParts /\ Cardinality(jobs) <= MaxSlots
BY Zenon
DEF DecodeTypeOK, TypeParts, SlotTypes, RegistryType, StageType, KeyType, UpdateType, MadeType,
    Lists, ChannelType, Sets, PlaceTypes, HandTypes, Flags, Bounds, MarkKind

\* Everything but the types.
Parts ==
  /\ SlotInv /\ ChannelInv /\ HandedInv /\ RegistryInv /\ LatchInv /\ JobInv
  /\ BatchInv /\ StampInv /\ CallInv /\ JobsInv /\ NoBatchBesideALoad

\* Every step keeps the types.
LEMMA TypeStep == TypeParts /\ Parts /\ [Next]_vars => TypeParts'
<1> SUFFICES ASSUME TypeParts, Parts, [Next]_vars  PROVE TypeParts'
  OBVIOUS
<1> USE DEF TypeParts, Parts
<1>1. BooksTypeOK' /\ SlotTypes' /\ RegistryType' /\ StageType' /\ KeyType'
  BY BooksStep, SlotTypeStep, RegistryTypeStep, StageStep, KeyStep, Zenon
<1>2. UpdateType' /\ MadeType' /\ Lists' /\ ChannelType' /\ Sets'
  BY UpdateStep, MadeStep, ListStep, ChannelTypeStep, SetStep, Zenon
<1>3. PlaceTypes' /\ HandTypes' /\ Flags' /\ Bounds' /\ MarkKind'
  BY PlaceStep, HandStep, FlagStep, BoundStep, MarkStep, Zenon
<1>4. QED  BY <1>1, <1>2, <1>3

\* Every step keeps the rest.
LEMMA PartsStep == TypeParts /\ Parts /\ [Next]_vars => Parts'
<1> SUFFICES ASSUME TypeParts, Parts, [Next]_vars  PROVE Parts'
  OBVIOUS
<1> USE DEF TypeParts, Parts
<1>1. SlotInv' /\ ChannelInv' /\ HandedInv' /\ RegistryInv' /\ LatchInv' /\ JobInv'
  BY SlotStep, ChannelStep, HandedStep, RegistryStep, LatchStep, JobStep, Zenon
<1>2. BatchInv' /\ StampInv' /\ CallInv' /\ JobsInv' /\ NoBatchBesideALoad'
  BY BatchStep, StampStep, CallStep, JobsStep, NoLoadBeside, Zenon
<1>3. QED  BY <1>1, <1>2

\* Before anything happens all of it holds.
LEMMA InitParts == Init => TypeParts /\ Parts
<1> SUFFICES ASSUME Init  PROVE TypeParts /\ Parts
  OBVIOUS
<1>1. BooksTypeOK
  BY BooksInitType DEF Init
<1>2. SlotTypes /\ RegistryType /\ HandTypes
  BY DEF Init, SlotTypes, RegistryType, HandTypes, NoSession
<1>3. StageType /\ PlaceTypes
  BY Names DEF Init, StageType, PlaceTypes
<1>4. KeyType /\ UpdateType /\ Lists /\ ChannelType /\ Sets
  BY DEF Init, KeyType, UpdateType, Lists, ChannelType, Sets
<1>5. MadeType /\ Bounds
  BY DecodeAssumption DEF Init, MadeType, Bounds
<1>6. Flags /\ MarkKind
  BY NoMarkType DEF Init, Flags, MarkKind
<1>7. SlotInv /\ ChannelInv /\ HandedInv /\ RegistryInv /\ JobInv /\ NoBatchBesideALoad
  BY DecodeAssumption
  DEF Init, SlotInv, ChannelInv, HandedInv, RegistryInv, JobInv, NoBatchBesideALoad, NoSession,
      Holding
<1>8. LatchInv /\ StampInv /\ CallInv
  BY DEF Init, BooksInit, LatchInv, StampInv, CallInv
<1>9. JobsInv
  BY DEF Init, JobsInv, Open
<1>10. BatchInv
  BY FS_EmptySet, DecodeAssumption DEF Init, BatchInv
<1>11. QED
  BY <1>1, <1>2, <1>3, <1>4, <1>5, <1>6, <1>7, <1>8, <1>9, <1>10 DEF TypeParts, Parts

\* So it always holds.
THEOREM DecodeInvariance == Spec => []IInv
<1>1. IInv <=> TypeParts /\ Parts
  BY PartsAreTypes, Zenon DEF IInv, Parts, BatchInv
<1>2. TypeParts /\ Parts /\ [Next]_vars => (TypeParts /\ Parts)'
  BY TypeStep, PartsStep
<1>3. QED  BY <1>1, <1>2, InitParts, PTL DEF Spec

(***************************************************************************)
(* The properties.                                                          *)
(***************************************************************************)

\* The decode thread's state, the registry, the channel and the requests' stay
\* in their ranges, and the batch in its slots.
THEOREM DecodeTypeCorrect == Spec => []DecodeTypeOK
<1>1. IInv => DecodeTypeOK  BY DEF IInv
<1>2. QED  BY DecodeInvariance, <1>1, PTL

\* No job is lost: a request that listens has its job in the channel, in the
\* batch or before it, or an unread answer (handle and fail).
THEOREM NobodyForgotten == Spec => []NobodyIsForgotten
<1>1. IInv => NobodyIsForgotten
  <2> SUFFICES ASSUME IInv, NEW r \in Requests, Open(r)
               PROVE  InThread(r) \/ updates[r] # <<>>
    BY DEF NobodyIsForgotten
  <2>1. InThread(r) \/ Answered(r)
    BY DEF IInv, JobsInv
  <2>2. Answered(r) => updates[r] # <<>>
    BY DEF Answered, Ending
  <2>3. QED  BY <2>1, <2>2
<1>2. QED  BY DecodeInvariance, <1>1, PTL

\* An open registry names the model in the slot, which is the thread's or on
\* its way there (start, join, fail and maybe_end).
THEOREM AdmittingReal == Spec => []AdmittingSessionIsReal
<1>1. IInv => AdmittingSessionIsReal
  BY DEF IInv, RegistryInv, AdmittingSessionIsReal
<1>2. QED  BY DecodeInvariance, <1>1, PTL

\* The model slot never leaks: whoever holds it is a request on its way with it
\* or the thread, and then it is in a Start message, in a session or in the
\* failure that ends one (start, run, fail and maybe_end).
THEOREM SlotIsHeld ==
  Spec => [](slot # NoOne =>
               \/ \E r \in Requests : slot = r /\ pc[r] \in Holding
               \/ held \/ at \in {"deciding", "evicting"}
               \/ \E i \in DOMAIN channel : channel[i].kind = "start")
<1>1. IInv /\ slot # NoOne =>
        \/ \E r \in Requests : slot = r /\ pc[r] \in Holding
        \/ held \/ at \in {"deciding", "evicting"}
        \/ \E i \in DOMAIN channel : channel[i].kind = "start"
  <2> SUFFICES ASSUME IInv, slot # NoOne
               PROVE  \/ \E r \in Requests : slot = r /\ pc[r] \in Holding
                      \/ held \/ at \in {"deciding", "evicting"}
                      \/ \E i \in DOMAIN channel : channel[i].kind = "start"
    OBVIOUS
  <2>1. slot \in Requests \/ slot = Thread
    BY DEF IInv, DecodeTypeOK
  <2>2. SlotInv /\ HandedInv
    BY DEF IInv
  <2>3. CASE slot \in Requests
    BY <2>2, <2>3 DEF SlotInv
  <2>4. CASE slot = Thread
    BY <2>2, <2>4 DEF HandedInv
  <2>5. QED  BY <2>1, <2>3, <2>4
<1>2. QED  BY DecodeInvariance, <1>1, PTL

\* No load lands beside the batch of the last model (release_wait).
THEOREM LoadsAlone == Spec => []NoBatchBesideALoad
<1>1. IInv => NoBatchBesideALoad  BY DEF IInv
<1>2. QED  BY DecodeInvariance, <1>1, PTL

\* Once an exit is latched, wherever it was decided, a session runs only on a
\* model known to be stale, and what its call makes is refused, but for the one
\* load that was past its check of the latch (load_for_slot, guarded, contain).
THEOREM LatchStopsSessions == Spec => []LatchEndsSessions
<1>1. IInv => LatchEndsSessions
  <2> SUFFICES ASSUME IInv  PROVE LatchEndsSessions
    OBVIOUS
  <2>1. /\ SlotInv /\ RegistryInv /\ StampInv /\ CallInv
        /\ BooksTypeOK /\ entry \in Model \cup {NoModel}
    BY DEF IInv, DecodeTypeOK
  <2>2. lateLoads <= 1
    BY DEF IInv, LatchInv
  <2>3. held \/ registry.accepting \/ at = "calling" => entry # NoModel
    BY <2>1 DEF SlotInv, RegistryInv
  <2>4. exiting /\ lateLoads = 0 /\ entry # NoModel =>
          entry.stamp \in Nat /\ epoch \in Nat /\ entry.stamp < epoch
    BY <2>1 DEF StampInv, Model, BooksTypeOK
  <2>5. at = "calling" => mark.global = entry.stamp
    BY <2>1 DEF CallInv
  <2>6. QED  BY <2>2, <2>3, <2>4, <2>5 DEF LatchEndsSessions, Condemned, Moved
<1>2. QED  BY DecodeInvariance, <1>1, PTL

\* No answer grows.
Quiet == \A r \in Requests : Len(updates'[r]) <= Len(updates[r])

\* A spoiled call that is being judged: a device failed before it returned.
SpoiledCall == at = "judging" /\ spoiled

\* The epoch has moved since its mark.
LEMMA SpoiltMoved ==
  ASSUME BooksTypeOK, MarkKind, CallInv, SpoiledCall
  PROVE  Moved(mark)
BY DEF BooksTypeOK, MarkKind, Marks, CallInv, SpoiledCall, Moved

\* Answers that do not change do not grow.
LEMMA QuietIfSame ==
  ASSUME UpdateType, UNCHANGED updates
  PROVE  Quiet
<1>1. \A q \in Requests : Len(updates[q]) \in Nat
  BY LenProperties DEF UpdateType
<1>2. QED  BY <1>1 DEF Quiet

\* What returns takes its answers with it.
LEMMA ReturnIsQuiet ==
  ASSUME UpdateType, NEW r \in Requests, Return(r)
  PROVE  Quiet
<1>1. \A q \in Requests : Len(updates[q]) \in Nat /\ Len(<<>>) = 0
  BY LenProperties DEF UpdateType
<1>2. QED  BY <1>1 DEF Return, UpdateType, Quiet

\* Nothing is sent while a spoiled call is judged.
LEMMA QuietStep ==
  BooksTypeOK /\ UpdateType /\ MarkKind /\ CallInv /\ SpoiledCall /\ [Next]_vars => Quiet
<1> SUFFICES ASSUME BooksTypeOK, UpdateType, MarkKind, CallInv, SpoiledCall, [Next]_vars
             PROVE  Quiet
  OBVIOUS
<1>1. ASSUME NEW r \in Requests, RequestNext(r)
      PROVE  Quiet
  <2>1. CASE \/ Arrive(r) \/ Join(r) \/ JoinMissed(r) \/ Queue(r) \/ TakeSlot(r)
             \/ ReleaseWait(r) \/ LoadLands(r) \/ Publish(r) \/ SendStart(r)
    BY <2>1, QuietIfSame
    DEF Arrive, Go, booksVars, sessionVars, callVars, registryVars, envVars, Join, Post,
        JoinMissed, Queue, TakeSlot, Condemned, ReleaseWait, LoadLands, LoadSucceeded, Publish,
        SendStart, Quiet
  <2>2. CASE HangUp(r)
    <3>1. Return(r)  BY <2>2 DEF HangUp
    <3>2. QED  BY <3>1, ReturnIsQuiet
  <2>3. CASE RefuseLoad(r)
    <3>1. Return(r)  BY <2>3 DEF RefuseLoad
    <3>2. QED  BY <3>1, ReturnIsQuiet
  <2>4. CASE LoadFails(r)
    <3>1. Return(r)  BY <2>4 DEF LoadFails
    <3>2. QED  BY <3>1, ReturnIsQuiet
  <2>5. CASE ServingFailed(r)
    <3>1. Return(r)  BY <2>5 DEF ServingFailed
    <3>2. QED  BY <3>1, ReturnIsQuiet
  <2>6. CASE ReadToken(r)
    <3>1. /\ updates[r] \in Seq(Updates) /\ updates[r] # <<>>
          /\ updates' = [updates EXCEPT ![r] = Tail(@)]
      BY <2>6 DEF ReadToken, UpdateType
    <3>2. Len(Tail(updates[r])) = Len(updates[r]) - 1 /\ Len(updates[r]) \in Nat
      BY <3>1, HeadTailProperties, LenProperties
    <3>3. \A q \in Requests : Len(updates[q]) \in Nat
      BY LenProperties DEF UpdateType
    <3>4. QED  BY <3>1, <3>2, <3>3 DEF UpdateType, Quiet
  <2>7. CASE ReadBounce(r)
    <3>1. \A q \in Requests : Len(updates[q]) \in Nat /\ Len(<<>>) = 0
      BY LenProperties DEF UpdateType
    <3>2. QED  BY <2>7, <3>1 DEF ReadBounce, UpdateType, Quiet
  <2>8. CASE ReadEnd(r)
    <3>1. Return(r)  BY <2>8 DEF ReadEnd
    <3>2. QED  BY <3>1, ReturnIsQuiet
  <2>9. QED
    BY <1>1, <2>1, <2>2, <2>3, <2>4, <2>5, <2>6, <2>7, <2>8
    DEF RequestNext, Serving, Reads
<1>2. CASE ThreadStep
  <2>1. CASE \/ ReceiveStart \/ ReceiveJoin \/ ReceiveRelease \/ Turn \/ FillNext
             \/ DropAbandoned \/ HandBack \/ StepEmpty \/ Guarded \/ JudgeDeviceFailed
             \/ FailCloses \/ FailEvicts \/ MaybeEnd \/ Close \/ LetGo
             \/ (\E how \in Outcomes : CallReturns(how))
    BY <2>1, QuietIfSame
    DEF ReceiveStart, Receiving, booksVars, callVars, clientVars, registryVars, envVars,
        ReceiveJoin, ReceiveRelease, Go, Turn, FillNext, DropAbandoned, AfterAdmission,
        HandBack, StepEmpty, Guarded, Condemned, CallReturns, NoteUnattributedPanic,
        JudgeDeviceFailed, FailCloses, FailEvicts, MaybeEnd, Close, LetGo, Quiet
  <2>2. CASE StrandJoin
    BY <2>2
    DEF StrandJoin, Tell, Receiving, booksVars, sessionVars, callVars, registryVars, envVars,
        Quiet, SpoiledCall
  <2>3. CASE Bounce
    BY <2>3
    DEF Bounce, Tell, AfterAdmission, booksVars, callVars, registryVars, envVars, Quiet,
        SpoiledCall
  <2>4. CASE Deliver
    BY <2>4, SpoiltMoved
    DEF Deliver, booksVars, registryVars, envVars, JudgedClean
  <2>5. CASE FailOrdinary
    BY <2>5, SpoiltMoved
    DEF FailOrdinary, booksVars, registryVars, envVars
  <2>6. CASE FailDecides
    BY <2>6
    DEF FailDecides, Tell, Forget, RecordFailure, registryVars, envVars, Quiet, SpoiledCall
  <2>7. QED
    BY <1>2, <2>1, <2>2, <2>3, <2>4, <2>5, <2>6
    DEF ThreadStep
<1>3. CASE \/ IdleOut \/ SpanElapses \/ ReleaseBatch \/ UnloadIdle \/ TimePasses
          \/ (\E d \in Accelerators : DeviceFails(d)) \/ OutsideFails \/ OutsideEvicts
  <2>1. CASE \/ IdleOut \/ SpanElapses \/ ReleaseBatch \/ UnloadIdle \/ TimePasses
             \/ (\E d \in Accelerators : DeviceFails(d)) \/ OutsideFails \/ OutsideEvicts
    BY <2>1, QuietIfSame
    DEF IdleOut, booksVars, callVars, clientVars, registryVars, envVars, SpanElapses,
        ReleaseBatch, Post, sessionVars, UnloadIdle, TimePasses, CooldownEnds, DeviceFails,
        NoteDevicePanic, Quiet, OutsideFails, FailsOutside, Contain, OutsideEvicts, EvictElsewhere
  <2>2. QED
    BY <1>3, <2>1
<1>4. CASE UNCHANGED vars
  BY <1>4, QuietIfSame
  DEF vars, booksVars, sessionVars, callVars, clientVars, registryVars, envVars, Quiet
<1>5. QED
  BY <1>1, <1>2, <1>3, <1>4 DEF Next, OutsideFails, OutsideEvicts

\* No event of a call a device failed under, or of a condemned model, is sent
\* (guarded: any movement is a device failure, whatever the call returned).
THEOREM SentTokensClean == Spec => SentTokensAreClean
<1>1. IInv /\ [Next]_vars =>
        [\A r \in Requests :
           /\ at = "judging"
           /\ Len(updates'[r]) > Len(updates[r]) /\ Last(updates'[r]) # "failed"
           => ~spoiled]_vars
  <2> SUFFICES ASSUME IInv, [Next]_vars, NEW r \in Requests, at = "judging", spoiled,
                      Len(updates'[r]) > Len(updates[r])
               PROVE  FALSE
    OBVIOUS
  <2>1. BooksTypeOK /\ UpdateType /\ MarkKind /\ CallInv
    BY DEF IInv, DecodeTypeOK, UpdateType, MarkKind
  <2>2. Quiet
    BY <2>1, QuietStep DEF SpoiledCall
  <2>3. updates[r] \in Seq(Updates) /\ updates'[r] \in Seq(Updates)
    BY <2>1, UpdateStep DEF UpdateType
  <2>4. Len(updates[r]) \in Nat /\ Len(updates'[r]) \in Nat
    BY <2>3, LenProperties
  <2>5. QED  BY <2>2, <2>4 DEF Quiet
<1>2. QED  BY DecodeInvariance, <1>1, PTL DEF Spec, SentTokensAreClean

(***************************************************************************)
(* The answers.                                                             *)
(***************************************************************************)

\* No name twice in a line.
Once(s) == \A i, j \in DOMAIN s : s[i] = s[j] => i = j

CarriesJob(i) == channel[i].kind \in {"start", "join"}

CarriedOnce ==
  \A i, j \in DOMAIN channel :
    CarriesJob(i) /\ CarriesJob(j) /\ channel[i].from = channel[j].from => i = j

\* A job is in one place: in one message, in line once, in admission or live.
OnceInv ==
  /\ job \notin jobs /\ job \notin ToSet(waiting)
  /\ \A r \in jobs : r \notin ToSet(waiting)
  /\ Once(waiting)
  /\ \A r \in Requests : Carried(r) => r \notin jobs /\ r \notin ToSet(waiting) /\ r # job
  /\ CarriedOnce

\* Whose job the thread still has listens and waits for its end, or has hung up
\* and not come back.
AloneInv ==
  \A r \in Requests : InThread(r) => pc[r] = "idle" \/ (Open(r) /\ ~Answered(r))

\* Nothing is kept for who does not listen.
SilentInv == \A r \in Requests : ~Open(r) => updates[r] = <<>> /\ r \notin joined

\* Only live sequences have tokens.
MadeInv == \A r \in Requests : made[r] # 0 => r \in jobs

\* The received message was the only one with its sender's job.
LEMMA ReceivedOnce ==
  ASSUME ChannelType, CarriedOnce, NEW kind, Receiving(kind)
  PROVE  /\ CarriedOnce'
         /\ \A r : Carried(r)' => Carried(r)
         /\ \A r : kind \in {"start", "join"} /\ r = Head(channel).from =>
              Carried(r) /\ ~Carried(r)'
<1>1. /\ 1 \in DOMAIN channel /\ Head(channel) = channel[1] /\ channel[1].kind = kind
      /\ \A i \in DOMAIN channel' :
           /\ i \in Int /\ i + 1 \in DOMAIN channel /\ i + 1 # 1
           /\ channel'[i] = channel[i + 1]
  BY Received
<1>2. CarriedOnce'
  <2> SUFFICES ASSUME NEW i \in DOMAIN channel', NEW j \in DOMAIN channel',
                      channel'[i].kind \in {"start", "join"},
                      channel'[j].kind \in {"start", "join"},
                      channel'[i].from = channel'[j].from
               PROVE  i = j
    BY DEF CarriedOnce, CarriesJob
  <2>1. /\ i + 1 \in DOMAIN channel /\ channel'[i] = channel[i + 1]
        /\ j + 1 \in DOMAIN channel /\ channel'[j] = channel[j + 1]
        /\ i \in Int /\ j \in Int
    BY <1>1
  <2>2. i + 1 = j + 1
    BY <2>1 DEF CarriedOnce, CarriesJob
  <2>3. QED  BY <2>1, <2>2
<1>3. ASSUME NEW r, Carried(r)'  PROVE Carried(r)
  <2>1. PICK i \in DOMAIN channel' :
          channel'[i].kind \in {"start", "join"} /\ channel'[i].from = r
    BY <1>3 DEF Carried
  <2>2. i + 1 \in DOMAIN channel /\ channel'[i] = channel[i + 1]
    BY <1>1
  <2>3. QED  BY <2>1, <2>2 DEF Carried
<1>4. ASSUME NEW r, kind \in {"start", "join"}, r = Head(channel).from
      PROVE  Carried(r) /\ ~Carried(r)'
  <2>1. Carried(r)
    BY <1>1, <1>4 DEF Carried
  <2>2. ASSUME NEW i \in DOMAIN channel', channel'[i].kind \in {"start", "join"},
               channel'[i].from = r
        PROVE  FALSE
    <3>1. i + 1 \in DOMAIN channel /\ i + 1 # 1 /\ channel'[i] = channel[i + 1]
      BY <1>1
    <3>2. QED  BY <1>1, <1>4, <2>2, <3>1 DEF CarriedOnce, CarriesJob
  <2>3. QED  BY <2>1, <2>2 DEF Carried
<1>5. QED  BY <1>2, <1>3, <1>4

\* A posted job was not in the channel, and no other comes with it.
LEMMA PostedOnce ==
  ASSUME ChannelType, CarriedOnce, NEW kind, NEW from, Post(kind, from),
         [kind |-> kind, from |-> from] \in Messages,
         kind \in {"start", "join"} => ~Carried(from)
  PROVE  /\ CarriedOnce'
         /\ \A r : Carried(r)' => Carried(r) \/ (kind \in {"start", "join"} /\ r = from)
<1>1. PICK n : /\ n \notin DOMAIN channel /\ DOMAIN channel' = DOMAIN channel \cup {n}
               /\ channel'[n] = [kind |-> kind, from |-> from]
               /\ \A i \in DOMAIN channel : channel'[i] = channel[i]
  BY Posted
<1>2. channel'[n].kind = kind /\ channel'[n].from = from
  BY <1>1
<1>3. CarriedOnce'
  <2> SUFFICES ASSUME NEW i \in DOMAIN channel', NEW j \in DOMAIN channel',
                      channel'[i].kind \in {"start", "join"},
                      channel'[j].kind \in {"start", "join"},
                      channel'[i].from = channel'[j].from
               PROVE  i = j
    BY DEF CarriedOnce, CarriesJob
  <2>1. CASE i \in DOMAIN channel /\ j \in DOMAIN channel
    BY <1>1, <2>1 DEF CarriedOnce, CarriesJob
  <2>2. CASE i = n /\ j \in DOMAIN channel
    BY <1>1, <1>2, <2>2 DEF Carried
  <2>3. CASE j = n /\ i \in DOMAIN channel
    BY <1>1, <1>2, <2>3 DEF Carried
  <2>4. QED  BY <1>1, <2>1, <2>2, <2>3
<1>4. ASSUME NEW r, Carried(r)'
      PROVE  Carried(r) \/ (kind \in {"start", "join"} /\ r = from)
  <2>1. PICK i \in DOMAIN channel' :
          channel'[i].kind \in {"start", "join"} /\ channel'[i].from = r
    BY <1>4 DEF Carried
  <2>2. CASE i = n
    BY <1>2, <2>1, <2>2
  <2>3. CASE i \in DOMAIN channel
    BY <1>1, <2>1, <2>3 DEF Carried
  <2>4. QED  BY <1>1, <2>2, <2>3
<1>5. QED  BY <1>3, <1>4

\* Who is not in a line may join it at either end; who leaves its head has left it.
LEMMA OnceLine ==
  ASSUME NEW S, NEW s \in Seq(S), Once(s)
  PROVE  /\ \A e \in S : e \notin ToSet(s) => Once(Append(s, e)) /\ Once(<<e>> \o s)
         /\ s # <<>> => Once(Tail(s)) /\ Head(s) \notin ToSet(Tail(s))
<1>1. Len(s) \in Nat /\ DOMAIN s = 1..Len(s)
  BY LenProperties
<1>2. ASSUME NEW e \in S, e \notin ToSet(s)
      PROVE  Once(Append(s, e))
  <2>1. /\ Append(s, e) \in Seq(S) /\ Len(Append(s, e)) = Len(s) + 1
        /\ \A i \in 1..Len(s) : Append(s, e)[i] = s[i]
        /\ Append(s, e)[Len(s) + 1] = e
    BY AppendProperties
  <2>2. DOMAIN Append(s, e) = 1..Len(s) + 1
    BY <2>1, LenProperties
  <2>3. \A i \in 1..Len(s) : Append(s, e)[i] # e
    BY <1>1, <1>2, <2>1 DEF ToSet
  <2>4. \A i, j \in 1..Len(s) : Append(s, e)[i] = Append(s, e)[j] => i = j
    BY <1>1, <2>1 DEF Once
  <2>5. QED  BY <1>1, <2>1, <2>2, <2>3, <2>4 DEF Once
<1>3. ASSUME NEW e \in S, e \notin ToSet(s)
      PROVE  Once(<<e>> \o s)
  <2>1. <<e>> \in Seq(S) /\ Len(<<e>>) = 1 /\ <<e>>[1] = e
    OBVIOUS
  <2>2. /\ <<e>> \o s \in Seq(S) /\ Len(<<e>> \o s) = 1 + Len(s)
        /\ \A i \in 1..1 + Len(s) : (<<e>> \o s)[i] = IF i <= 1 THEN <<e>>[i] ELSE s[i - 1]
    BY <2>1, ConcatProperties
  <2>3. DOMAIN (<<e>> \o s) = 1..1 + Len(s)
    BY <2>2, LenProperties
  <2> DEFINE t == <<e>> \o s
  <2>4. t[1] = e
    BY <1>1, <2>1, <2>2
  <2>5. \A i \in 1..1 + Len(s) : i # 1 => i - 1 \in 1..Len(s) /\ t[i] = s[i - 1]
    BY <1>1, <2>2
  <2>6. DOMAIN t = 1..1 + Len(s)
    BY <2>3
  <2> HIDE DEF t
  <2>7. \A i \in 1..1 + Len(s) : i # 1 => t[i] # e
    BY <1>1, <1>3, <2>5 DEF ToSet
  <2>8. ASSUME NEW i \in 1..1 + Len(s), NEW j \in 1..1 + Len(s), i # 1, j # 1, t[i] = t[j]
        PROVE  i = j
    <3>1. i - 1 \in 1..Len(s) /\ j - 1 \in 1..Len(s) /\ s[i - 1] = s[j - 1]
      BY <2>5, <2>8
    <3>2. i - 1 = j - 1
      BY <1>1, <3>1 DEF Once
    <3>3. QED  BY <1>1, <3>2
  <2>9. Once(t)
    BY <2>4, <2>6, <2>7, <2>8 DEF Once
  <2>10. QED  BY <2>9 DEF t
<1>4. ASSUME s # <<>>
      PROVE  Once(Tail(s)) /\ Head(s) \notin ToSet(Tail(s))
  <2>1. /\ Tail(s) \in Seq(S) /\ Len(Tail(s)) = Len(s) - 1
        /\ \A i \in 1..Len(Tail(s)) : Tail(s)[i] = s[i + 1]
    BY <1>4, HeadTailProperties
  <2>2. DOMAIN Tail(s) = 1..Len(s) - 1 /\ 1 \in 1..Len(s) /\ Head(s) = s[1]
    BY <1>1, <1>4, <2>1, LenProperties, EmptySeq
  <2>3. \A i \in 1..Len(s) - 1 : i + 1 \in 1..Len(s) /\ i + 1 # 1 /\ Tail(s)[i] = s[i + 1]
    BY <1>1, <2>1
  <2>4. ASSUME NEW i \in 1..Len(s) - 1, NEW j \in 1..Len(s) - 1, Tail(s)[i] = Tail(s)[j]
        PROVE  i = j
    <3>1. s[i + 1] = s[j + 1] /\ i + 1 \in DOMAIN s /\ j + 1 \in DOMAIN s
      BY <1>1, <2>3, <2>4
    <3>2. i + 1 = j + 1
      BY <3>1 DEF Once
    <3>3. QED  BY <1>1, <3>2
  <2>5. \A i \in 1..Len(s) - 1 : Tail(s)[i] # s[1]
    BY <1>1, <2>2, <2>3 DEF Once
  <2>6. QED  BY <2>2, <2>4, <2>5 DEF Once, ToSet
<1>5. QED  BY <1>2, <1>3, <1>4

\* Only what is sent can end an answer.
LEMMA EndingBack ==
  ASSUME NEW s \in Seq(Updates), NEW e \in Seq(Updates), Ending(s \o e)
  PROVE  Ending(s) \/ Ending(e)
<1>1. /\ s \o e \in Seq(Updates) /\ Len(s \o e) = Len(s) + Len(e)
      /\ \A i \in 1..Len(s) + Len(e) :
           (s \o e)[i] = IF i <= Len(s) THEN s[i] ELSE e[i - Len(s)]
  BY ConcatProperties
<1>2. /\ Len(s) \in Nat /\ DOMAIN s = 1..Len(s) /\ Len(e) \in Nat /\ DOMAIN e = 1..Len(e)
      /\ DOMAIN (s \o e) = 1..Len(s) + Len(e)
  BY <1>1, LenProperties
<1>3. PICK i \in 1..Len(s) + Len(e) : (s \o e)[i] # "token"
  BY <1>2 DEF Ending
<1>4. CASE i <= Len(s)
  <2>1. i \in DOMAIN s /\ s[i] # "token"
    BY <1>1, <1>2, <1>3, <1>4
  <2>2. QED  BY <2>1 DEF Ending
<1>5. CASE ~(i <= Len(s))
  <2>1. i - Len(s) \in DOMAIN e /\ e[i - Len(s)] # "token"
    BY <1>1, <1>2, <1>3, <1>5
  <2>2. QED  BY <2>1 DEF Ending
<1>6. QED  BY <1>4, <1>5

\* Reading a token ends nothing.
LEMMA EndingTailBack ==
  ASSUME NEW s \in Seq(Updates), s # <<>>, Ending(Tail(s))
  PROVE  Ending(s)
<1>1. /\ Tail(s) \in Seq(Updates) /\ Len(Tail(s)) = Len(s) - 1
      /\ \A i \in 1..Len(Tail(s)) : Tail(s)[i] = s[i + 1]
  BY HeadTailProperties
<1>2. /\ Len(s) \in Nat /\ DOMAIN s = 1..Len(s) /\ DOMAIN Tail(s) = 1..Len(s) - 1
  BY <1>1, LenProperties
<1>3. PICK i \in 1..Len(s) - 1 : Tail(s)[i] # "token"
  BY <1>2 DEF Ending
<1>4. i + 1 \in DOMAIN s /\ s[i + 1] # "token"
  BY <1>1, <1>2, <1>3
<1>5. QED  BY <1>4 DEF Ending

\* A job that stays where it is stays there once.
LEMMA OnceIfSame ==
  ASSUME OnceInv, UNCHANGED <<channel, jobs, waiting, job>>
  PROVE  OnceInv'
BY DEF OnceInv, Carried, CarriedOnce, CarriesJob

\* A job is put in the channel by a request the thread has no job of.
LEMMA OnceIfPosted ==
  ASSUME ChannelType, OnceInv, NEW kind, NEW from, Post(kind, from),
         [kind |-> kind, from |-> from] \in Messages,
         kind \in {"start", "join"} => ~InThread(from),
         UNCHANGED <<jobs, waiting, job>>
  PROVE  OnceInv'
<1>1. kind \in {"start", "join"} =>
        ~Carried(from) /\ from \notin jobs /\ from \notin ToSet(waiting) /\ from # job
  BY DEF InThread, Carried
<1>2. /\ CarriedOnce'
      /\ \A r : Carried(r)' => Carried(r) \/ (kind \in {"start", "join"} /\ r = from)
  BY <1>1, PostedOnce DEF OnceInv
<1>3. QED  BY <1>1, <1>2 DEF OnceInv

\* Every step keeps a job in one place.
LEMMA OnceStep ==
  StageType /\ HandTypes /\ Lists /\ Sets /\ ChannelType /\ ChannelInv /\ JobInv /\
  OnceInv /\ AloneInv /\ [Next]_vars => OnceInv'
<1> SUFFICES ASSUME StageType, HandTypes, Lists, Sets, ChannelType, ChannelInv, JobInv,
                    OnceInv, AloneInv, [Next]_vars
             PROVE  OnceInv'
  OBVIOUS
<1>0. NoOne \notin jobs /\ NoOne \notin ToSet(waiting) /\ NoOne \notin Requests
  BY LineFacts, DecodeAssumption DEF Sets, Lists
<1>1. ASSUME NEW r \in Requests, RequestNext(r)
      PROVE  OnceInv'
  <2>1. CASE \/ Arrive(r) \/ JoinMissed(r) \/ HangUp(r) \/ Queue(r) \/ TakeSlot(r)
             \/ RefuseLoad(r) \/ LoadLands(r) \/ LoadFails(r) \/ ServingFailed(r) \/ Publish(r)
             \/ ReadToken(r) \/ ReadBounce(r) \/ ReadEnd(r)
    BY <2>1, OnceIfSame
    DEF Arrive, JoinMissed, HangUp, Queue, TakeSlot, RefuseLoad, LoadLands, LoadFails,
        ServingFailed, Publish, ReadToken, ReadBounce, ReadEnd, sessionVars
  <2>2. CASE Join(r)
    <3>1. ~InThread(r)
      BY <2>2 DEF Join, AloneInv, Open
    <3>2. QED
      BY <2>2, <3>1, OnceIfPosted DEF Join, Messages, sessionVars
  <2>3. CASE ReleaseWait(r)
    BY <2>3, OnceIfPosted DEF ReleaseWait, Messages, sessionVars
  <2>4. CASE SendStart(r)
    <3>1. ~InThread(r)
      BY <2>4 DEF SendStart, AloneInv, Open
    <3>2. QED
      BY <2>4, <3>1, OnceIfPosted DEF SendStart, Messages, sessionVars
  <2>5. QED
    BY <1>1, <2>1, <2>2, <2>3, <2>4
    DEF RequestNext, Serving, Reads
<1>2. CASE ThreadStep
  <2>1. CASE \/ Turn \/ StepEmpty \/ Guarded \/ JudgeDeviceFailed \/ FailCloses \/ FailEvicts
             \/ MaybeEnd \/ Close \/ LetGo \/ (\E how \in Outcomes : CallReturns(how))
    BY <2>1, OnceIfSame
    DEF Turn, StepEmpty, Guarded, JudgeDeviceFailed, FailCloses, FailEvicts, MaybeEnd, Close,
        LetGo, CallReturns
  <2>2. CASE ReceiveStart \/ ReceiveJoin
    <3> DEFINE from == Head(channel).from
    <3>1. PICK kind \in {"start", "join"} : Receiving(kind)
      BY <2>2 DEF ReceiveStart, ReceiveJoin
    <3>2. from \in Requests
      BY <3>1, Received DEF ChannelInv
    <3>3. /\ CarriedOnce' /\ \A r : Carried(r)' => Carried(r)
          /\ Carried(from) /\ \A r : r = from => ~Carried(r)'
      BY <3>1, ReceivedOnce DEF OnceInv
    <3> HIDE DEF from
    <3>4. from \notin jobs /\ from \notin ToSet(waiting) /\ from # job
      BY <3>2, <3>3 DEF OnceInv
    <3>5. \/ job' = from /\ UNCHANGED <<jobs, waiting>>
          \/ waiting' = Append(waiting, from) /\ UNCHANGED <<jobs, job>>
      BY <2>2 DEF ReceiveStart, ReceiveJoin, from
    <3>6. CASE job' = from /\ UNCHANGED <<jobs, waiting>>
      BY <3>3, <3>4, <3>6 DEF OnceInv
    <3>7. CASE waiting' = Append(waiting, from) /\ UNCHANGED <<jobs, job>>
      <4>1. waiting \in Seq(Requests) /\ Once(waiting)
        BY DEF Lists, OnceInv
      <4>2. Once(waiting') /\ ToSet(waiting') = ToSet(waiting) \cup {from}
        BY <3>2, <3>4, <3>7, <4>1, OnceLine, AppendLine
      <4>3. QED  BY <3>3, <3>4, <3>7, <4>2 DEF OnceInv
    <3>8. QED  BY <3>5, <3>6, <3>7
  <2>3. CASE StrandJoin \/ ReceiveRelease
    <3>1. \E kind : Receiving(kind)
      BY <2>3 DEF StrandJoin, ReceiveRelease
    <3>2. CarriedOnce' /\ \A r : Carried(r)' => Carried(r)
      BY <3>1, ReceivedOnce DEF OnceInv
    <3>3. UNCHANGED <<jobs, waiting, job>>
      BY <2>3 DEF StrandJoin, ReceiveRelease, sessionVars
    <3>4. QED  BY <3>2, <3>3 DEF OnceInv
  <2>4. CASE FillNext
    <3>1. /\ UNCHANGED <<channel, jobs>>
          /\ \/ UNCHANGED <<job, waiting>>
             \/ waiting # <<>> /\ job' = Head(waiting) /\ waiting' = Tail(waiting)
      BY <2>4 DEF FillNext
    <3>2. CASE waiting # <<>> /\ job' = Head(waiting) /\ waiting' = Tail(waiting)
      <4>1. waiting \in Seq(Requests) /\ Once(waiting)
        BY DEF Lists, OnceInv
      <4>2. /\ Once(waiting') /\ job' \notin ToSet(waiting')
            /\ ToSet(waiting) = ToSet(waiting') \cup {job'}
        BY <3>2, <4>1, OnceLine, LineFacts
      <4>3. QED  BY <3>1, <4>2 DEF OnceInv, Carried, CarriedOnce, CarriesJob
    <3>3. QED  BY <3>1, <3>2, OnceIfSame
  <2>5. CASE HandBack
    <3>1. job \in Requests /\ job' = NoOne /\ UNCHANGED <<channel, jobs>>
      BY <2>5 DEF HandBack, JobInv, HandTypes
    <3>2. waiting \in Seq(Requests) /\ Once(waiting) /\ job \notin ToSet(waiting)
      BY DEF Lists, OnceInv
    <3>3. Once(waiting') /\ ToSet(waiting') = ToSet(waiting) \cup {job}
      BY <2>5, <3>1, <3>2, OnceLine, LineFacts DEF HandBack
    <3>4. QED  BY <1>0, <3>1, <3>3 DEF OnceInv, Carried, CarriedOnce, CarriesJob
  <2>6. CASE DropAbandoned \/ Bounce
    <3>1. job' = NoOne /\ UNCHANGED <<channel, jobs, waiting>>
      BY <2>6 DEF DropAbandoned, Bounce
    <3>2. QED  BY <1>0, <3>1 DEF OnceInv, Carried, CarriedOnce, CarriesJob
  <2>7. CASE Deliver
    <3>1. PICK event \in [Called -> Events] :
             jobs' = (jobs \ Called) \cup {r \in Called : ~Ends(event[r]) /\ Open(r)}
      BY <2>7 DEF Deliver
    <3>2. job' = NoOne /\ UNCHANGED <<channel, waiting>>
      BY <2>7 DEF Deliver
    <3>3. \A r \in jobs' : r \in jobs \/ r = job
      BY <3>1 DEF Called
    <3>4. NoOne \notin jobs'
      BY <1>0, <3>1 DEF Called
    <3>5. QED  BY <1>0, <3>2, <3>3, <3>4 DEF OnceInv, Carried, CarriedOnce, CarriesJob
  <2>8. CASE FailOrdinary
    <3>1. job' = NoOne /\ jobs' = {} /\ UNCHANGED <<channel, waiting>>
      BY <2>8 DEF FailOrdinary
    <3>2. QED  BY <1>0, <3>1 DEF OnceInv, Carried, CarriedOnce, CarriesJob
  <2>9. CASE FailDecides
    <3>1. job' = NoOne /\ jobs' = {} /\ waiting' = <<>> /\ UNCHANGED channel
      BY <2>9 DEF FailDecides
    <3>2. ToSet(<<>>) = {} /\ Once(<<>>)
      BY DEF ToSet, Once
    <3>3. QED  BY <1>0, <3>1, <3>2 DEF OnceInv, Carried, CarriedOnce, CarriesJob
  <2>10. QED
    BY <1>2, <2>1, <2>2, <2>3, <2>4, <2>5, <2>6, <2>7, <2>8, <2>9
    DEF ThreadStep
<1>3. CASE \/ IdleOut \/ SpanElapses \/ ReleaseBatch \/ UnloadIdle \/ TimePasses
          \/ (\E d \in Accelerators : DeviceFails(d)) \/ OutsideFails \/ OutsideEvicts
  <2>1. CASE \/ IdleOut \/ SpanElapses \/ UnloadIdle \/ TimePasses
             \/ (\E d \in Accelerators : DeviceFails(d)) \/ OutsideFails
    BY <2>1, OnceIfSame
    DEF IdleOut, SpanElapses, UnloadIdle, TimePasses, DeviceFails, sessionVars, OutsideFails,
        FailsOutside, Contain
  <2>2. CASE ReleaseBatch
    BY <2>2, OnceIfPosted DEF ReleaseBatch, Messages, sessionVars
  <2>3. CASE OutsideEvicts
    BY <2>3, OnceIfPosted DEF OutsideEvicts, EvictElsewhere, Messages, sessionVars
  <2>4. QED
    BY <1>3, <2>1, <2>2, <2>3
<1>4. CASE UNCHANGED vars
  BY <1>4, OnceIfSame DEF vars, sessionVars
<1>5. QED
  BY <1>1, <1>2, <1>3, <1>4 DEF Next, OutsideFails, OutsideEvicts

\* Nothing changes for a request but that the thread may let its job go.
LEMMA AloneIfSame ==
  ASSUME AloneInv, UNCHANGED <<pc, updates>>,
         \A q \in Requests : InThread(q)' => InThread(q)
  PROVE  AloneInv'
BY DEF AloneInv, Open, Answered

\* One request moves: the thread has no job of it, or it has come back.
LEMMA AloneIfOneMoves ==
  ASSUME AloneInv, NEW r \in Requests, UNCHANGED <<channel, jobs, waiting, job>>,
         \A q \in Requests : q # r => pc'[q] = pc[q] /\ updates'[q] = updates[q],
         InThread(r) => pc'[r] = "idle"
  PROVE  AloneInv'
<1>1. \A q \in Requests : InThread(q)' = InThread(q)
  BY DEF InThread
<1>2. QED  BY <1>1 DEF AloneInv, Open, Answered

\* What the thread has a job of is no request on its way to the slot.
LEMMA NotOnItsWay ==
  ASSUME AloneInv, NEW r \in Requests, pc[r] \notin {"idle", "joining", "batched"}
  PROVE  ~InThread(r)
BY DEF AloneInv, Open

\* A request that returns leaves the others as they are.
LEMMA Returned ==
  ASSUME StageType, UpdateType, NEW r \in Requests, Return(r)
  PROVE  /\ pc'[r] = "idle" /\ updates'[r] = <<>>
         /\ \A q \in Requests : q # r => pc'[q] = pc[q] /\ updates'[q] = updates[q]
         /\ joined' = joined \ {r}
BY DEF Return, Go, StageType, UpdateType

\* Who is told an end is no longer in the thread.
LEMMA AloneIfTold ==
  ASSUME UpdateType, AloneInv, NEW to, NEW what \in Seq(Updates), Tell(to, what), UNCHANGED pc,
         \A q \in Requests : InThread(q)' => InThread(q) /\ q \notin to
  PROVE  AloneInv'
<1>1. \A q \in Requests : q \notin to => updates'[q] = updates[q]
  BY DEF Tell
<1>2. QED  BY <1>1 DEF AloneInv, Open, Answered

\* A job the thread has listens and waits for its end, or its client is gone.
LEMMA AloneStep ==
  StageType /\ UpdateType /\ HandTypes /\ Lists /\ Sets /\ ChannelType /\ ChannelInv /\ JobInv /\
  OnceInv /\ AloneInv /\ SilentInv /\ [Next]_vars => AloneInv'
<1> SUFFICES ASSUME StageType, UpdateType, HandTypes, Lists, Sets, ChannelType, ChannelInv,
                    JobInv, OnceInv, AloneInv, SilentInv, [Next]_vars
             PROVE  AloneInv'
  OBVIOUS
<1>0. NoOne \notin jobs /\ NoOne \notin ToSet(waiting) /\ NoOne \notin Requests
  BY LineFacts, DecodeAssumption DEF Sets, Lists
<1>1. ASSUME NEW r \in Requests, RequestNext(r)
      PROVE  AloneInv'
  <2>1. CASE JoinMissed(r)
    BY <2>1, AloneIfSame DEF JoinMissed, sessionVars, InThread
  <2>2. CASE Arrive(r)
    <3>1. /\ ~InThread(r) /\ UNCHANGED <<channel, jobs, waiting, job, updates>>
          /\ pc' = [pc EXCEPT ![r] = "arrived"]
      BY <2>2 DEF Arrive, Go, sessionVars
    <3>2. QED  BY <3>1, AloneIfOneMoves DEF StageType
  <2>3. CASE Queue(r) \/ TakeSlot(r) \/ LoadLands(r) \/ Publish(r)
    <3>1. pc[r] \notin {"idle", "joining", "batched"}
      BY <2>3 DEF Queue, TakeSlot, LoadLands, Publish
    <3>2. UNCHANGED <<channel, jobs, waiting, job, updates>>
      BY <2>3 DEF Queue, TakeSlot, LoadLands, Publish, sessionVars
    <3>3. \A q \in Requests : q # r => pc'[q] = pc[q]
      BY <2>3 DEF Queue, TakeSlot, LoadLands, Publish, Go, StageType
    <3>4. QED  BY <3>1, <3>2, <3>3, NotOnItsWay, AloneIfOneMoves
  <2>4. CASE HangUp(r) \/ RefuseLoad(r) \/ LoadFails(r) \/ ServingFailed(r) \/ ReadEnd(r)
    <3>1. Return(r) /\ UNCHANGED <<channel, jobs, waiting, job>>
      BY <2>4 DEF HangUp, RefuseLoad, LoadFails, ServingFailed, ReadEnd, sessionVars
    <3>2. QED  BY <3>1, Returned, AloneIfOneMoves
  <2>5. CASE Join(r) \/ SendStart(r)
    <3>1. pc[r] \notin {"idle", "joining", "batched"}
      BY <2>5 DEF Join, SendStart
    <3>2. PICK kind \in {"start", "join"} : Post(kind, r)
      BY <2>5 DEF Join, SendStart
    <3>3. UNCHANGED <<jobs, waiting, job, updates>>
      BY <2>5 DEF Join, SendStart, sessionVars
    <3>4. /\ pc'[r] \in {"joining", "batched"}
          /\ \A q \in Requests : q # r => pc'[q] = pc[q]
      BY <2>5 DEF Join, SendStart, Go, StageType
    <3>5. ~InThread(r) /\ updates[r] = <<>>
      BY <3>1, NotOnItsWay DEF SilentInv, Open
    <3>6. \A q \in Requests : q # r /\ InThread(q)' => InThread(q)
      <4>1. [kind |-> kind, from |-> r] \in Messages /\ ~Carried(r)
        BY <3>5 DEF Messages, InThread, Carried
      <4>2. \A q : Carried(q)' => Carried(q) \/ q = r
        BY <3>2, <4>1, PostedOnce DEF OnceInv
      <4>3. QED  BY <3>3, <4>2 DEF InThread, Carried
    <3>7. ~Answered(r)' /\ Open(r)'
      BY <3>3, <3>4, <3>5 DEF Answered, Ending, Open
    <3>8. QED  BY <3>3, <3>4, <3>6, <3>7 DEF AloneInv, Open, Answered
  <2>6. CASE ReleaseWait(r)
    <3>1. ~InThread(r)
      BY <2>6, NotOnItsWay DEF ReleaseWait
    <3>2. /\ UNCHANGED <<jobs, waiting, job, updates>> /\ Post("release", r)
          /\ \A q \in Requests : q # r => pc'[q] = pc[q]
      BY <2>6 DEF ReleaseWait, sessionVars, Go, StageType
    <3>3. \A q : Carried(q)' => Carried(q)
      BY <3>2, PostedOnce DEF OnceInv, Messages
    <3>4. \A q \in Requests : InThread(q)' => InThread(q)
      BY <3>2, <3>3 DEF InThread, Carried
    <3>5. QED  BY <3>1, <3>2, <3>4 DEF AloneInv, Open, Answered
  <2>7. CASE ReadToken(r)
    <3>1. /\ updates[r] \in Seq(Updates) /\ updates[r] # <<>> /\ Open(r)
          /\ updates' = [updates EXCEPT ![r] = Tail(updates[r])]
          /\ pc' = [pc EXCEPT ![r] = "batched"]
          /\ UNCHANGED <<channel, jobs, waiting, job>>
      BY <2>7 DEF ReadToken, Go, sessionVars, UpdateType
    <3>2. Answered(r)' => Answered(r)
      BY <3>1, EndingTailBack DEF Answered, UpdateType
    <3>3. \A q \in Requests : q # r => updates'[q] = updates[q] /\ pc'[q] = pc[q]
      BY <3>1 DEF UpdateType, StageType
    <3>4. \A q \in Requests : InThread(q)' => InThread(q)
      BY <3>1 DEF InThread
    <3>5. Open(r)' /\ pc[r] # "idle"
      BY <3>1 DEF Open, StageType
    <3>6. QED  BY <3>2, <3>3, <3>4, <3>5 DEF AloneInv, Open, Answered
  <2>8. CASE ReadBounce(r)
    <3>1. /\ updates[r] \in Seq(Updates) /\ updates[r] # <<>> /\ Head(updates[r]) # "token"
          /\ updates' = [updates EXCEPT ![r] = <<>>] /\ pc' = [pc EXCEPT ![r] = "queued"]
          /\ UNCHANGED <<channel, jobs, waiting, job>> /\ Open(r)
      BY <2>8 DEF ReadBounce, Go, sessionVars, UpdateType
    <3>2. Answered(r)
      <4>1. 1 \in DOMAIN updates[r] /\ Head(updates[r]) = updates[r][1]
        BY <3>1, EmptySeq, LenProperties
      <4>2. QED  BY <3>1, <4>1 DEF Answered, Ending
    <3>3. ~InThread(r)
      BY <3>1, <3>2 DEF AloneInv, Open
    <3>4. QED  BY <3>1, <3>3, AloneIfOneMoves DEF StageType, UpdateType
  <2>9. QED
    BY <1>1, <2>1, <2>2, <2>3, <2>4, <2>5, <2>6, <2>7, <2>8
    DEF RequestNext, Serving, Reads
<1>2. CASE ThreadStep
  <2>1. CASE \/ Turn \/ StepEmpty \/ Guarded \/ JudgeDeviceFailed \/ FailCloses \/ FailEvicts
             \/ MaybeEnd \/ Close \/ LetGo \/ (\E how \in Outcomes : CallReturns(how))
    BY <2>1, AloneIfSame
    DEF Turn, StepEmpty, Guarded, JudgeDeviceFailed, FailCloses, FailEvicts, MaybeEnd, Close,
        LetGo, CallReturns, clientVars, InThread
  <2>2. CASE ReceiveStart \/ ReceiveJoin
    <3> DEFINE from == Head(channel).from
    <3>1. PICK kind \in {"start", "join"} : Receiving(kind)
      BY <2>2 DEF ReceiveStart, ReceiveJoin
    <3>2. (\A r : Carried(r)' => Carried(r)) /\ Carried(from) /\ from \in Requests
      BY <3>1, ReceivedOnce, Received DEF OnceInv, ChannelInv
    <3> HIDE DEF from
    <3>3. /\ job' = from \/ job' = job
          /\ waiting' = waiting \/ waiting' = Append(waiting, from)
          /\ UNCHANGED <<jobs, pc, updates>>
      BY <2>2 DEF ReceiveStart, ReceiveJoin, from, clientVars
    <3>4. ToSet(waiting') \subseteq ToSet(waiting) \cup {from}
      BY <3>2, <3>3, AppendLine DEF Lists
    <3>5. \A q \in Requests : InThread(q)' => InThread(q)
      BY <3>2, <3>3, <3>4 DEF InThread, Carried
    <3>6. QED  BY <3>3, <3>5, AloneIfSame
  <2>3. CASE StrandJoin
    <3> DEFINE from == Head(channel).from
    <3>1. Receiving("join") /\ Tell({from}, <<"stranded">>) /\ UNCHANGED <<pc, jobs, waiting, job>>
      BY <2>3 DEF StrandJoin, sessionVars
    <3>2. /\ \A r : Carried(r)' => Carried(r)
          /\ Carried(from) /\ (\A r : r = from => ~Carried(r)') /\ from \in Requests
      BY <3>1, ReceivedOnce, Received DEF OnceInv, ChannelInv
    <3> HIDE DEF from
    <3>3. from \notin jobs /\ from \notin ToSet(waiting) /\ from # job
      BY <3>2 DEF OnceInv
    <3>4. \A q \in Requests : InThread(q)' => InThread(q) /\ q \notin {from}
      BY <3>1, <3>2, <3>3 DEF InThread, Carried
    <3>5. QED  BY <3>1, <3>4, AloneIfTold, Words
  <2>4. CASE ReceiveRelease
    <3>1. Receiving("release") /\ UNCHANGED <<jobs, waiting, job, updates>>
      BY <2>4 DEF ReceiveRelease
    <3>2. \A r : Carried(r)' => Carried(r)
      BY <3>1, ReceivedOnce DEF OnceInv
    <3>3. \A q \in Requests : InThread(q)' => InThread(q)
      BY <3>1, <3>2 DEF InThread, Carried
    <3>4. Head(channel).from \in Requests => pc[Head(channel).from] = "releasing"
      BY <3>1, Received DEF ChannelInv
    <3>5. \A q \in Requests : pc'[q] = pc[q] \/ pc[q] = "releasing"
      BY <2>4, <3>4 DEF ReceiveRelease, Go, StageType
    <3>6. QED  BY <3>1, <3>3, <3>5 DEF AloneInv, Open, Answered
  <2>5. CASE FillNext
    <3>1. /\ UNCHANGED <<channel, jobs, pc, updates>>
          /\ \/ UNCHANGED <<job, waiting>>
             \/ waiting # <<>> /\ job' = Head(waiting) /\ waiting' = Tail(waiting)
      BY <2>5 DEF FillNext, clientVars
    <3>2. ToSet(waiting') \subseteq ToSet(waiting) /\ (job' = job \/ job' \in ToSet(waiting))
      <4>1. waiting # <<>> => ToSet(waiting) = ToSet(Tail(waiting)) \cup {Head(waiting)}
        BY LineFacts DEF Lists
      <4>2. QED  BY <3>1, <4>1
    <3>3. \A q \in Requests : InThread(q)' => InThread(q)
      BY <3>1, <3>2 DEF InThread
    <3>4. QED  BY <3>1, <3>3, AloneIfSame
  <2>6. CASE HandBack
    <3>1. job \in Requests /\ job' = NoOne /\ UNCHANGED <<channel, jobs, pc, updates>>
      BY <2>6 DEF HandBack, JobInv, HandTypes, clientVars
    <3>2. ToSet(waiting') = ToSet(waiting) \cup {job}
      BY <2>6, <3>1, LineFacts DEF HandBack, Lists
    <3>3. \A q \in Requests : InThread(q)' => InThread(q)
      BY <1>0, <3>1, <3>2 DEF InThread
    <3>4. QED  BY <3>1, <3>3, AloneIfSame
  <2>7. CASE DropAbandoned
    <3>1. job' = NoOne /\ UNCHANGED <<channel, jobs, waiting, pc, updates>>
      BY <2>7 DEF DropAbandoned, clientVars
    <3>2. \A q \in Requests : InThread(q)' => InThread(q)
      BY <1>0, <3>1 DEF InThread
    <3>3. QED  BY <3>1, <3>2, AloneIfSame
  <2>8. CASE Bounce
    <3>1. /\ Tell({job}, <<"bounced">>) /\ job' = NoOne
          /\ UNCHANGED <<channel, jobs, waiting, pc>>
      BY <2>8 DEF Bounce
    <3>2. \A q \in Requests : InThread(q)' => InThread(q) /\ q \notin {job}
      BY <1>0, <3>1 DEF InThread, OnceInv, Carried
    <3>3. QED  BY <3>1, <3>2, AloneIfTold, Words
  <2>9. CASE Deliver
    <3>1. PICK event \in [Called -> Events] :
             /\ updates' = [r \in Requests |->
                              IF r \in Called /\ Open(r) THEN updates[r] \o event[r]
                              ELSE updates[r]]
             /\ jobs' = (jobs \ Called) \cup {r \in Called : ~Ends(event[r]) /\ Open(r)}
      BY <2>9 DEF Deliver
    <3>2. job' = NoOne /\ UNCHANGED <<pc, channel, waiting>>
      BY <2>9 DEF Deliver
    <3>3. \A q \in Called : InThread(q) /\ ~Carried(q) /\ q \notin ToSet(waiting)
      <4>1. \A q \in Called : q \in Requests /\ (q \in jobs \/ q = job)
        BY DEF Called, Sets, HandTypes
      <4>2. QED  BY <4>1 DEF InThread, OnceInv
    <3>4. ASSUME NEW q \in Called \cap Requests, InThread(q)'
          PROVE  Open(q) /\ ~Answered(q)'
      <4>1. q \in jobs'
        BY <1>0, <3>2, <3>3, <3>4 DEF InThread, Carried
      <4>2. event[q] = <<"token">> /\ Open(q)
        BY <3>1, <3>4, <4>1 DEF Ends
      <4>3. updates'[q] = updates[q] \o <<"token">> /\ updates[q] \in Seq(Updates)
        BY <3>1, <3>4, <4>2 DEF UpdateType
      <4>4. ~Ending(<<"token">>)
        BY DEF Ending
      <4>5. ~Answered(q)
        BY <3>3, <3>4, <4>2 DEF AloneInv, Open
      <4>6. QED  BY <4>2, <4>3, <4>4, <4>5, EndingBack, Words DEF Answered
    <3>5. ASSUME NEW q \in Requests, q \notin Called, InThread(q)'
          PROVE  InThread(q) /\ updates'[q] = updates[q]
      BY <1>0, <3>1, <3>2, <3>5 DEF InThread
    <3>6. QED  BY <3>2, <3>4, <3>5 DEF AloneInv, Open, Answered
  <2>10. CASE FailOrdinary
    <3>1. /\ Tell({job} \cup jobs, <<"failed">>) /\ job' = NoOne /\ jobs' = {}
          /\ UNCHANGED <<channel, waiting, pc>>
      BY <2>10 DEF FailOrdinary
    <3>2. \A q \in Requests : InThread(q)' => InThread(q) /\ q \notin {job} \cup jobs
      BY <1>0, <3>1 DEF InThread, OnceInv, Carried
    <3>3. QED  BY <3>1, <3>2, AloneIfTold, Words
  <2>11. CASE FailDecides
    <3>1. /\ Tell(Failing, <<"failed">>) /\ job' = NoOne /\ jobs' = {} /\ waiting' = <<>>
          /\ UNCHANGED <<channel, pc>>
      BY <2>11 DEF FailDecides
    <3>2. ToSet(<<>>) = {}
      BY DEF ToSet
    <3>3. \A q \in Requests : InThread(q)' => InThread(q) /\ q \notin Failing
      BY <1>0, <3>1, <3>2 DEF InThread, OnceInv, Carried, Failing
    <3>4. QED  BY <3>1, <3>3, AloneIfTold, Words
  <2>12. QED
    BY <1>2, <2>1, <2>2, <2>3, <2>4, <2>5, <2>6, <2>7, <2>8, <2>9, <2>10, <2>11
    DEF ThreadStep
<1>3. CASE \/ IdleOut \/ SpanElapses \/ ReleaseBatch \/ UnloadIdle \/ TimePasses
          \/ (\E d \in Accelerators : DeviceFails(d)) \/ OutsideFails \/ OutsideEvicts
  <2>1. CASE \/ IdleOut \/ SpanElapses \/ UnloadIdle \/ TimePasses
             \/ (\E d \in Accelerators : DeviceFails(d)) \/ OutsideFails
    BY <2>1, AloneIfSame
    DEF IdleOut, SpanElapses, UnloadIdle, TimePasses, DeviceFails, sessionVars, clientVars,
        InThread, OutsideFails, FailsOutside, Contain
  <2>2. CASE ReleaseBatch
    <3>1. Post("release", NoOne) /\ UNCHANGED <<jobs, waiting, job, pc, updates>>
      BY <2>2 DEF ReleaseBatch, sessionVars, clientVars
    <3>2. \A q : Carried(q)' => Carried(q)
      BY <3>1, PostedOnce DEF OnceInv, Messages
    <3>3. \A q \in Requests : InThread(q)' => InThread(q)
      BY <3>1, <3>2 DEF InThread, Carried
    <3>4. QED  BY <3>1, <3>3, AloneIfSame
  <2>3. CASE OutsideEvicts
    <3>1. Post("release", NoOne) /\ UNCHANGED <<jobs, waiting, job, pc, updates>>
      BY <2>3 DEF OutsideEvicts, EvictElsewhere, sessionVars, clientVars
    <3>2. \A q : Carried(q)' => Carried(q)
      BY <3>1, PostedOnce DEF OnceInv, Messages
    <3>3. \A q \in Requests : InThread(q)' => InThread(q)
      BY <3>1, <3>2 DEF InThread, Carried
    <3>4. QED  BY <3>1, <3>3, AloneIfSame
  <2>4. QED
    BY <1>3, <2>1, <2>2, <2>3
<1>4. CASE UNCHANGED vars
  BY <1>4, AloneIfSame DEF vars, sessionVars, clientVars, InThread
<1>5. QED
  BY <1>1, <1>2, <1>3, <1>4 DEF Next, OutsideFails, OutsideEvicts

\* Nothing is kept for who stops listening, and nothing sent to who does not.
LEMMA SilentStep ==
  StageType /\ UpdateType /\ Sets /\ ChannelType /\ ChannelInv /\ SilentInv /\ [Next]_vars =>
    SilentInv'
<1> SUFFICES ASSUME StageType, UpdateType, Sets, ChannelType, ChannelInv, SilentInv, [Next]_vars
             PROVE  SilentInv'
  OBVIOUS
<1>1. ASSUME NEW r \in Requests, RequestNext(r)
      PROVE  SilentInv'
  <2>1. CASE \/ Arrive(r) \/ JoinMissed(r) \/ Queue(r) \/ TakeSlot(r) \/ ReleaseWait(r)
             \/ LoadLands(r) \/ Publish(r) \/ SendStart(r)
    <3>1. UNCHANGED <<updates, joined>>
      BY <2>1
      DEF Arrive, JoinMissed, Queue, TakeSlot, ReleaseWait, LoadLands, Publish, SendStart
    <3>2. \A q \in Requests : pc'[q] = pc[q] \/ pc[q] \notin {"joining", "batched"}
      BY <2>1
      DEF Arrive, JoinMissed, Queue, TakeSlot, ReleaseWait, LoadLands, Publish, SendStart, Go,
          StageType
    <3>3. QED  BY <3>1, <3>2 DEF SilentInv, Open
  <2>2. CASE Join(r)
    <3>1. /\ pc' = [pc EXCEPT ![r] = "joining"] /\ joined' = joined \cup {r} /\ UNCHANGED updates
      BY <2>2 DEF Join, Go
    <3>2. Open(r)' /\ \A q \in Requests : q # r => pc'[q] = pc[q]
      BY <3>1 DEF StageType, Open
    <3>3. QED  BY <3>1, <3>2 DEF SilentInv, Open
  <2>3. CASE HangUp(r) \/ RefuseLoad(r) \/ LoadFails(r) \/ ServingFailed(r) \/ ReadEnd(r)
    <3>1. Return(r)
      BY <2>3 DEF HangUp, RefuseLoad, LoadFails, ServingFailed, ReadEnd
    <3>2. QED  BY <3>1, Returned DEF SilentInv, Open
  <2>4. CASE ReadToken(r)
    <3>1. /\ pc' = [pc EXCEPT ![r] = "batched"] /\ UNCHANGED joined
          /\ updates' = [updates EXCEPT ![r] = Tail(@)]
      BY <2>4 DEF ReadToken, Go
    <3>2. Open(r)' /\ \A q \in Requests : q # r => pc'[q] = pc[q] /\ updates'[q] = updates[q]
      BY <3>1 DEF StageType, UpdateType, Open
    <3>3. QED  BY <3>1, <3>2 DEF SilentInv, Open
  <2>5. CASE ReadBounce(r)
    <3>1. /\ pc' = [pc EXCEPT ![r] = "queued"] /\ joined' = joined \ {r}
          /\ updates' = [updates EXCEPT ![r] = <<>>]
      BY <2>5 DEF ReadBounce, Go
    <3>2. /\ updates'[r] = <<>>
          /\ \A q \in Requests : q # r => pc'[q] = pc[q] /\ updates'[q] = updates[q]
      BY <3>1 DEF StageType, UpdateType
    <3>3. QED  BY <3>1, <3>2 DEF SilentInv, Open
  <2>6. QED
    BY <1>1, <2>1, <2>2, <2>3, <2>4, <2>5
    DEF RequestNext, Serving, Reads
<1>2. CASE ThreadStep
  <2>1. CASE \/ ReceiveStart \/ ReceiveJoin \/ Turn \/ FillNext \/ DropAbandoned \/ HandBack
             \/ StepEmpty \/ Guarded \/ JudgeDeviceFailed \/ FailCloses \/ FailEvicts
             \/ MaybeEnd \/ Close \/ LetGo \/ (\E how \in Outcomes : CallReturns(how))
    BY <2>1
    DEF ReceiveStart, ReceiveJoin, Turn, FillNext, DropAbandoned, HandBack, StepEmpty, Guarded,
        JudgeDeviceFailed, FailCloses, FailEvicts, MaybeEnd, Close, LetGo, CallReturns,
        clientVars, SilentInv, Open
  <2>2. CASE ReceiveRelease
    <3>1. /\ UNCHANGED <<updates, joined>>
          /\ \A q \in Requests : pc'[q] = pc[q] \/ pc[q] = "releasing"
      BY <2>2, Received DEF ReceiveRelease, Go, StageType, ChannelInv
    <3>2. QED  BY <3>1 DEF SilentInv, Open
  <2>3. CASE StrandJoin \/ Bounce \/ FailOrdinary \/ FailDecides
    <3>1. UNCHANGED <<pc, joined>> /\ \E to, what : Tell(to, what)
      BY <2>3 DEF StrandJoin, Bounce, FailOrdinary, FailDecides
    <3>2. \A q \in Requests : ~Open(q) => updates'[q] = updates[q]
      BY <3>1 DEF Tell
    <3>3. QED  BY <3>1, <3>2 DEF SilentInv, Open
  <2>4. CASE Deliver
    <3>1. UNCHANGED <<pc, joined>>
      BY <2>4 DEF Deliver
    <3>2. \A q \in Requests : ~Open(q) => updates'[q] = updates[q]
      BY <2>4 DEF Deliver
    <3>3. QED  BY <3>1, <3>2 DEF SilentInv, Open
  <2>5. QED
    BY <1>2, <2>1, <2>2, <2>3, <2>4
    DEF ThreadStep
<1>3. CASE \/ IdleOut \/ SpanElapses \/ ReleaseBatch \/ UnloadIdle \/ TimePasses
          \/ (\E d \in Accelerators : DeviceFails(d)) \/ OutsideFails \/ OutsideEvicts
  BY <1>3
  DEF IdleOut, SpanElapses, ReleaseBatch, UnloadIdle, TimePasses, DeviceFails, clientVars,
      SilentInv, Open, OutsideFails, FailsOutside, Contain, OutsideEvicts, EvictElsewhere
<1>4. CASE UNCHANGED vars
  BY <1>4 DEF vars, clientVars, SilentInv, Open
<1>5. QED
  BY <1>1, <1>2, <1>3, <1>4 DEF Next, OutsideFails, OutsideEvicts

\* A sequence leaves the batch with its tokens counted out.
LEMMA MadeOnlyLive ==
  Sets /\ MadeInv /\ [Next]_vars => MadeInv'
<1> SUFFICES ASSUME Sets, MadeInv, [Next]_vars
             PROVE  MadeInv'
  OBVIOUS
<1>1. CASE UNCHANGED <<jobs, made>>
  BY <1>1 DEF MadeInv
<1>2. CASE Deliver
  <2>1. PICK event \in [Called -> Events] :
          LET live == {r \in Called : ~Ends(event[r]) /\ Open(r)}
          IN  /\ jobs' = (jobs \ Called) \cup live
              /\ made' = [r \in Requests |-> IF r \notin Called THEN made[r]
                                             ELSE IF r \in live THEN made[r] + Tokens(event[r])
                                             ELSE 0]
    BY <1>2 DEF Deliver
  <2>2. \A r \in Requests : r \notin Called => made'[r] = made[r] /\ (r \in jobs => r \in jobs')
    BY <2>1
  <2>3. \A r \in Requests : r \in Called => made'[r] = 0 \/ r \in jobs'
    BY <2>1
  <2>4. QED  BY <2>2, <2>3 DEF MadeInv
<1>3. CASE FailOrdinary \/ FailDecides
  BY <1>3 DEF FailOrdinary, FailDecides, MadeInv
<1>4. ASSUME NEW r \in Requests, RequestNext(r)
      PROVE  UNCHANGED <<jobs, made>>
  BY <1>4
  DEF RequestNext, Serving, Reads, Arrive, Join, JoinMissed, HangUp, Queue, TakeSlot, RefuseLoad,
      ReleaseWait, LoadLands, LoadFails, ServingFailed, Publish, SendStart, ReadToken, ReadBounce,
      ReadEnd, sessionVars, callVars
<1>5. CASE ThreadStep /\ ~Deliver /\ ~FailOrdinary /\ ~FailDecides
  <2>1. UNCHANGED <<jobs, made>>
    BY <1>5
    DEF ThreadStep, ReceiveStart, ReceiveJoin, StrandJoin, ReceiveRelease, Turn, FillNext,
        DropAbandoned, HandBack, Bounce, StepEmpty, Guarded, CallReturns, JudgeDeviceFailed,
        FailCloses, FailEvicts, MaybeEnd, Close, LetGo, sessionVars, callVars
  <2>2. QED  BY <2>1, <1>1
<1>6. CASE \/ IdleOut \/ SpanElapses \/ ReleaseBatch \/ UnloadIdle \/ TimePasses
          \/ (\E d \in Accelerators : DeviceFails(d)) \/ OutsideFails \/ OutsideEvicts
  <2>1. UNCHANGED <<jobs, made>>
    BY <1>6
    DEF IdleOut, SpanElapses, ReleaseBatch, UnloadIdle, TimePasses, DeviceFails, sessionVars,
        callVars, OutsideFails, FailsOutside, Contain, OutsideEvicts, EvictElsewhere
  <2>2. QED  BY <2>1, <1>1
<1>7. CASE UNCHANGED vars
  BY <1>1, <1>7 DEF vars, sessionVars, callVars
<1>8. QED
  BY <1>1, <1>2, <1>3, <1>4, <1>5, <1>6, <1>7 DEF Next, OutsideFails, OutsideEvicts

\* What the promise is proved from.
AnswersInv == OnceInv /\ AloneInv /\ SilentInv /\ MadeInv

\* A job is in one place; the thread has none of a request that was answered or
\* is on its way to the slot; and only live sequences have tokens (handle,
\* enqueue, admit, admit_waiting, step, fail and fail_ordinary).
THEOREM JobsAreHeldOnce == Spec => []AnswersInv
<1>1. Init => AnswersInv
  <2> SUFFICES ASSUME Init  PROVE AnswersInv
    OBVIOUS
  <2>1. ToSet(<<>>) = {} /\ Once(<<>>)
    BY DEF ToSet, Once
  <2>2. \A r \in Requests : ~InThread(r)
    BY <2>1, DecodeAssumption DEF Init, InThread
  <2>3. OnceInv
    BY <2>1, DecodeAssumption DEF Init, OnceInv, Carried, CarriedOnce
  <2>4. SilentInv /\ MadeInv
    BY DEF Init, SilentInv, MadeInv
  <2>5. QED  BY <2>2, <2>3, <2>4 DEF AnswersInv, AloneInv
<1>2. IInv /\ AnswersInv /\ [Next]_vars => AnswersInv'
  <2> SUFFICES ASSUME IInv, AnswersInv, [Next]_vars  PROVE AnswersInv'
    OBVIOUS
  <2>1. TypeParts /\ ChannelInv /\ JobInv
    BY PartsAreTypes DEF IInv
  <2>2. OnceInv /\ AloneInv /\ SilentInv /\ MadeInv
    BY DEF AnswersInv
  <2>3. OnceInv'
    BY <2>1, <2>2, OnceStep DEF TypeParts
  <2>4. AloneInv'
    BY <2>1, <2>2, AloneStep DEF TypeParts
  <2>5. SilentInv'
    BY <2>1, <2>2, SilentStep DEF TypeParts
  <2>6. MadeInv'
    BY <2>1, <2>2, MadeOnlyLive DEF TypeParts
  <2>7. QED  BY <2>3, <2>4, <2>5, <2>6 DEF AnswersInv
<1>3. QED  BY <1>1, <1>2, DecodeInvariance, PTL DEF Spec

(***************************************************************************)
(* The promise.                                                             *)
(***************************************************************************)

\* Nothing a listener could tell has changed.
LEMMA Unheard ==
  ASSUME UNCHANGED <<updates, joined, made>>, \A q \in Requests : Open(q)' = Open(q)
  PROVE  UNCHANGED Promise!vars
BY DEF Promise!vars

\* What may be said to whom.
LEMMA MayBeSaid ==
  ASSUME NEW r \in Requests
  PROVE  /\ <<>> \in Promise!Words(r)
         /\ Open(r) /\ ~Answered(r) =>
              /\ {<<"token", "done">>, <<"done">>, <<"failed">>} \subseteq Promise!Words(r)
              /\ made[r] + 1 < MaxTokens => <<"token">> \in Promise!Words(r)
              /\ made[r] = 0 => <<"stranded">> \in Promise!Words(r)
              /\ made[r] = 0 /\ r \in joined => <<"bounced">> \in Promise!Words(r)
BY DEF Promise!Words, Promise!Ended, Answered, Ending

\* A step that says the right words, and counts them, is a step of the promise.
LEMMA Spoken ==
  ASSUME NEW word, word = [r \in Requests |-> word[r]],
         \A r \in Requests : word[r] \in Promise!Words(r),
         updates' = [r \in Requests |-> updates[r] \o word[r]],
         UNCHANGED <<pc, joined>>,
         \A r \in Requests : ~Open(r) => word[r] = <<>>,
         \A r \in Requests : Open(r) => made'[r] = Promise!Count(made[r], word[r])
  PROVE  Promise!Say
<1> DEFINE said == [r \in Requests |-> IF Open(r) THEN made[r] ELSE 0]
           saidThen == [r \in Requests |-> IF Open(r)' THEN made'[r] ELSE 0]
<1>1. \A r \in Requests : Open(r)' = Open(r)
  BY DEF Open
<1>2. Promise!Count(0, <<>>) = 0
  BY DEF Promise!Count
<1>3. saidThen = [r \in Requests |-> Promise!Count(said[r], word[r])]
  BY <1>1, <1>2
<1>4. word \in [Requests -> UNION {Promise!Words(r) : r \in Requests}]
  OBVIOUS
<1>5. /\ {r \in Requests : Open(r)}' = {r \in Requests : Open(r)}
      /\ joined' = joined
  BY <1>1
<1>6. QED  BY <1>3, <1>4, <1>5, Zenon DEF Promise!Say

\* Ends are told to who has none yet, with nothing to follow.
LEMMA EndsAreSaid ==
  ASSUME UpdateType, NEW to, NEW w \in {"failed", "stranded", "bounced"}, Tell(to, <<w>>),
         UNCHANGED <<pc, joined>>,
         \A r \in Requests : r \in to /\ Open(r) => ~Answered(r) /\ made'[r] = 0,
         \A r \in Requests : r \in to /\ Open(r) /\ w \in {"stranded", "bounced"} => made[r] = 0,
         \A r \in Requests : r \in to /\ Open(r) /\ w = "bounced" => r \in joined,
         \A r \in Requests : r \notin to /\ Open(r) => made'[r] = made[r]
  PROVE  Promise!Say
<1> DEFINE word == [r \in Requests |-> IF r \in to /\ Open(r) THEN <<w>> ELSE <<>>]
<1>1. \A r \in Requests : word[r] \in Promise!Words(r)
  BY MayBeSaid
<1>2. \A r \in Requests : updates[r] \o <<>> = updates[r]
  BY ConcatEmptySeq DEF UpdateType
<1>3. updates' = [r \in Requests |-> updates[r] \o word[r]]
  BY <1>2 DEF Tell
<1>4. \A r \in Requests : Open(r) => made'[r] = Promise!Count(made[r], word[r])
  BY DEF Promise!Count
<1>5. \A r \in Requests : ~Open(r) => word[r] = <<>>
  OBVIOUS
<1>6. word = [r \in Requests |-> word[r]]
  OBVIOUS
<1> HIDE DEF word
<1>7. QED  BY <1>1, <1>3, <1>4, <1>5, <1>6, Spoken

\* A request that returns stops listening, if it did.
LEMMA ReturnLeaves ==
  ASSUME StageType, UpdateType, Sets, SilentInv, NEW r \in Requests, Return(r), UNCHANGED made
  PROVE  Promise!Leave(r) \/ UNCHANGED Promise!vars
<1>1. /\ pc'[r] = "idle" /\ joined' = joined \ {r} /\ updates' = [updates EXCEPT ![r] = <<>>]
      /\ \A q \in Requests : q # r => pc'[q] = pc[q]
  BY Returned DEF Return
<1>2. ~Open(r)' /\ \A q \in Requests : q # r => Open(q)' = Open(q)
  BY <1>1 DEF Open
<1>3. CASE Open(r)
  <2>1. {q \in Requests : Open(q)}' = {q \in Requests : Open(q)} \ {r}
    BY <1>2
  <2>2. [q \in Requests |-> IF Open(q) THEN made[q] ELSE 0]'
          = [[q \in Requests |-> IF Open(q) THEN made[q] ELSE 0] EXCEPT ![r] = 0]
    BY <1>2
  <2>3. r \in {q \in Requests : Open(q)}
    BY <1>3
  <2>4. QED  BY <1>1, <2>1, <2>2, <2>3, Zenon DEF Promise!Leave
<1>4. CASE ~Open(r)
  <2>1. updates' = updates /\ joined' = joined
    <3>1. updates[r] = <<>> /\ r \notin joined
      BY <1>4 DEF SilentInv
    <3>2. QED  BY <1>1, <3>1 DEF UpdateType
  <2>2. \A q \in Requests : Open(q)' = Open(q)
    BY <1>2, <1>4 DEF Open
  <2>3. QED  BY <2>1, <2>2, Unheard
<1>5. QED  BY <1>3, <1>4

\* Who comes to listen has heard nothing of another answer.
LEMMA Fresh ==
  ASSUME StageType, AloneInv, SilentInv, MadeInv, NEW r \in Requests,
         pc[r] \notin {"idle", "joining", "batched"}, NEW stage \in {"joining", "batched"},
         Go(r, stage), UNCHANGED made
  PROVE  /\ ~Open(r)
         /\ {q \in Requests : Open(q)}' = {q \in Requests : Open(q)} \union {r}
         /\ [q \in Requests |-> IF Open(q) THEN made[q] ELSE 0]'
              = [q \in Requests |-> IF Open(q) THEN made[q] ELSE 0]
<1>1. Open(r)' /\ \A q \in Requests : q # r => Open(q)' = Open(q)
  BY DEF Go, StageType, Open
<1>2. made[r] = 0 /\ ~Open(r)
  BY NotOnItsWay DEF MadeInv, InThread, Open
<1>3. QED  BY <1>1, <1>2

\* Each step is a step of the promise, or none.
LEMMA PromiseStep ==
  ASSUME IInv, AnswersInv, [Next]_vars
  PROVE  [Promise!Next]_(Promise!vars)
<1>0. /\ StageType /\ UpdateType /\ MadeType /\ HandTypes /\ Lists /\ Sets /\ ChannelType
      /\ ChannelInv /\ BatchInv /\ OnceInv /\ AloneInv /\ SilentInv /\ MadeInv
  BY PartsAreTypes, Zenon DEF IInv, TypeParts, AnswersInv
<1>1. ASSUME NEW r \in Requests, RequestNext(r)
      PROVE  [Promise!Next]_(Promise!vars)
  <2>1. CASE \/ Arrive(r) \/ JoinMissed(r) \/ Queue(r) \/ TakeSlot(r) \/ ReleaseWait(r)
             \/ LoadLands(r) \/ Publish(r)
    <3>1. UNCHANGED <<updates, joined, made>>
      BY <2>1
      DEF Arrive, JoinMissed, Queue, TakeSlot, ReleaseWait, LoadLands, Publish, callVars
    <3>2. \A q \in Requests : Open(q)' = Open(q)
      BY <1>0, <2>1
      DEF Arrive, JoinMissed, Queue, TakeSlot, ReleaseWait, LoadLands, Publish, Go, StageType,
          Open
    <3>3. QED  BY <3>1, <3>2, Unheard
  <2>2. CASE HangUp(r) \/ RefuseLoad(r) \/ LoadFails(r) \/ ServingFailed(r) \/ ReadEnd(r)
    <3>1. Return(r) /\ UNCHANGED made
      BY <2>2 DEF HangUp, RefuseLoad, LoadFails, ServingFailed, ReadEnd, callVars
    <3>2. QED  BY <1>0, <3>1, ReturnLeaves DEF Promise!Next
  <2>3. CASE Join(r)
    <3>1. /\ pc[r] \notin {"idle", "joining", "batched"} /\ Go(r, "joining")
          /\ joined' = joined \cup {r} /\ UNCHANGED <<updates, made>>
      BY <2>3 DEF Join, callVars
    <3>2. QED  BY <1>0, <3>1, Fresh DEF Promise!Next, Promise!Join
  <2>4. CASE SendStart(r)
    <3>1. /\ pc[r] \notin {"idle", "joining", "batched"} /\ Go(r, "batched")
          /\ UNCHANGED <<updates, joined, made>>
      BY <2>4 DEF SendStart
    <3>2. QED  BY <1>0, <3>1, Fresh DEF Promise!Next, Promise!Start
  <2>5. CASE ReadToken(r)
    <3>1. /\ Open(r) /\ updates[r] # <<>> /\ Head(updates[r]) = "token"
          /\ updates' = [updates EXCEPT ![r] = Tail(@)]
          /\ pc' = [pc EXCEPT ![r] = "batched"] /\ UNCHANGED <<joined, made>>
      BY <2>5 DEF ReadToken, Go, callVars
    <3>2. \A q \in Requests : Open(q)' = Open(q)
      BY <1>0, <3>1 DEF StageType, Open
    <3>3. QED  BY <3>1, <3>2 DEF Promise!Next, Promise!HearToken
  <2>6. CASE ReadBounce(r)
    <3>1. /\ Open(r) /\ updates' = [updates EXCEPT ![r] = <<>>] /\ joined' = joined \ {r}
          /\ pc' = [pc EXCEPT ![r] = "queued"] /\ UNCHANGED made
      BY <2>6 DEF ReadBounce, Go, callVars
    <3>2. ~Open(r)' /\ \A q \in Requests : q # r => Open(q)' = Open(q)
      BY <1>0, <3>1 DEF StageType, Open
    <3>3. QED  BY <3>1, <3>2 DEF Promise!Next, Promise!Leave
  <2>7. QED
    BY <1>1, <2>1, <2>2, <2>3, <2>4, <2>5, <2>6
    DEF RequestNext, Serving, Reads
<1>2. CASE ThreadStep
  <2>1. CASE \/ ReceiveStart \/ ReceiveJoin \/ Turn \/ FillNext \/ DropAbandoned \/ HandBack
             \/ StepEmpty \/ Guarded \/ JudgeDeviceFailed \/ FailCloses \/ FailEvicts
             \/ MaybeEnd \/ Close \/ LetGo \/ (\E how \in Outcomes : CallReturns(how))
    <3>1. UNCHANGED <<pc, updates, joined, made>>
      BY <2>1
      DEF ReceiveStart, ReceiveJoin, Turn, FillNext, DropAbandoned, HandBack, StepEmpty, Guarded,
          JudgeDeviceFailed, FailCloses, FailEvicts, MaybeEnd, Close, LetGo, CallReturns,
          clientVars, callVars
    <3>2. QED  BY <3>1, Unheard DEF Open
  <2>2. CASE ReceiveRelease
    <3>1. /\ UNCHANGED <<updates, joined, made>>
          /\ \A q \in Requests : pc'[q] = pc[q] \/ (pc[q] = "releasing" /\ pc'[q] = "loading")
      BY <1>0, <2>2, Received DEF ReceiveRelease, Go, StageType, ChannelInv, callVars
    <3>2. QED  BY <3>1, Unheard DEF Open
  <2>3. CASE StrandJoin
    <3> DEFINE from == Head(channel).from
    <3>1. /\ Receiving("join") /\ Tell({from}, <<"stranded">>)
          /\ UNCHANGED <<pc, joined, made>>
      BY <2>3 DEF StrandJoin, callVars
    <3>2. from \in Requests /\ Carried(from)
      BY <1>0, <3>1, ReceivedOnce, Received DEF OnceInv, ChannelInv
    <3> HIDE DEF from
    <3>3. InThread(from) /\ made[from] = 0
      BY <1>0, <3>2 DEF OnceInv, MadeInv, InThread, Carried
    <3>4. \A r \in Requests : r \in {from} /\ Open(r) =>
            ~Answered(r) /\ made[r] = 0 /\ made'[r] = 0
      BY <1>0, <3>1, <3>3 DEF AloneInv, Open
    <3>5. Promise!Say
      BY <1>0, <3>1, <3>4, EndsAreSaid
    <3>6. QED  BY <3>5 DEF Promise!Next
  <2>4. CASE Bounce
    <3>1. /\ Tell({job}, <<"bounced">>) /\ job \in joined
          /\ UNCHANGED <<pc, joined, made>>
      BY <2>4 DEF Bounce, callVars
    <3>2. \A r \in Requests : r = job =>
            InThread(r) /\ made[r] = 0 /\ made'[r] = 0
      BY <1>0, <3>1 DEF OnceInv, MadeInv, InThread
    <3>3. \A r \in Requests : r \in {job} /\ Open(r) =>
            ~Answered(r) /\ made[r] = 0 /\ made'[r] = 0 /\ r \in joined
      BY <1>0, <3>1, <3>2 DEF AloneInv, Open
    <3>4. Promise!Say
      BY <1>0, <3>1, <3>3, EndsAreSaid
    <3>5. QED  BY <3>4 DEF Promise!Next
  <2>5. CASE Deliver
    <3>1. PICK event \in [Called -> Events] :
             /\ \A r \in Called : event[r] \in EventsFor(r)
             /\ updates' = [r \in Requests |->
                              IF r \in Called /\ Open(r) THEN updates[r] \o event[r]
                              ELSE updates[r]]
             /\ LET live == {r \in Called : ~Ends(event[r]) /\ Open(r)}
                IN  made' = [r \in Requests |->
                              IF r \notin Called THEN made[r]
                              ELSE IF r \in live THEN made[r] + Tokens(event[r]) ELSE 0]
      BY <2>5 DEF Deliver
    <3>2. UNCHANGED <<pc, joined>>
      BY <2>5 DEF Deliver
    <3> DEFINE word == [r \in Requests |-> IF r \in Called /\ Open(r) THEN event[r] ELSE <<>>]
    <3>3. ASSUME NEW r \in Requests, r \in Called, Open(r)
          PROVE  event[r] \in Promise!Words(r) /\ made'[r] = Promise!Count(made[r], event[r])
      <4>1. event[r] \in Events /\ (made[r] + 1 = MaxTokens => Ends(event[r]))
        BY <3>1, <3>3 DEF EventsFor
      <4>2. InThread(r)
        BY <3>3 DEF Called, InThread
      <4>3. ~Answered(r)
        BY <1>0, <3>3, <4>2 DEF AloneInv, Open
      <4>4. made[r] \in Nat /\ made[r] < MaxTokens /\ MaxTokens \in Nat
        BY <1>0, DecodeAssumption DEF MadeType, BatchInv
      <4>5. CASE event[r] = <<"token">>
        <5>1. made[r] + 1 < MaxTokens
          BY <4>1, <4>4, <4>5 DEF Ends
        <5>2. Tokens(event[r]) = 1
          BY <4>5 DEF Tokens
        <5>3. made'[r] = made[r] + 1
          BY <3>1, <3>3, <4>5, <5>2 DEF Ends
        <5>4. Promise!Count(made[r], <<"token">>) = made[r] + 1
          BY DEF Promise!Count
        <5>5. QED  BY <3>3, <4>3, <4>5, <5>1, <5>3, <5>4, MayBeSaid
      <4>6. CASE event[r] \in {<<"token", "done">>, <<"done">>}
        <5>1. Ends(event[r])
          BY <4>6 DEF Ends
        <5>2. made'[r] = 0
          BY <3>1, <3>3, <5>1
        <5>3. Promise!Count(made[r], event[r]) = 0
          BY <4>6 DEF Promise!Count
        <5>4. QED  BY <3>3, <4>3, <4>6, <5>2, <5>3, MayBeSaid
      <4>7. QED  BY <4>1, <4>5, <4>6 DEF Events
    <3>4. ASSUME NEW r \in Requests, ~(r \in Called /\ Open(r)), Open(r)
          PROVE  made'[r] = Promise!Count(made[r], <<>>)
      <4>1. made'[r] = made[r]
        BY <3>1, <3>4
      <4>2. QED  BY <4>1 DEF Promise!Count
    <3>5. \A r \in Requests : word[r] \in Promise!Words(r)
      BY <3>3, MayBeSaid
    <3>6. \A r \in Requests : updates[r] \o <<>> = updates[r]
      BY <1>0, ConcatEmptySeq DEF UpdateType
    <3>7. updates' = [r \in Requests |-> updates[r] \o word[r]]
      BY <3>1, <3>6
    <3>8. \A r \in Requests : Open(r) => made'[r] = Promise!Count(made[r], word[r])
      BY <3>3, <3>4
    <3>9. /\ \A r \in Requests : ~Open(r) => word[r] = <<>>
          /\ word = [r \in Requests |-> word[r]]
      OBVIOUS
    <3> HIDE DEF word
    <3>10. Promise!Say
      BY <3>2, <3>5, <3>7, <3>8, <3>9, Spoken
    <3>11. QED  BY <3>10 DEF Promise!Next
  <2>6. CASE FailOrdinary
    <3>1. /\ Tell({job} \cup jobs, <<"failed">>) /\ UNCHANGED <<pc, joined>>
          /\ made' = [r \in Requests |-> 0]
      BY <2>6 DEF FailOrdinary
    <3>2. \A r \in Requests : r \in {job} \cup jobs => InThread(r)
      BY DEF InThread
    <3>3. \A r \in Requests : r \in {job} \cup jobs /\ Open(r) => ~Answered(r) /\ made'[r] = 0
      BY <1>0, <3>1, <3>2 DEF AloneInv, Open
    <3>4. \A r \in Requests : r \notin {job} \cup jobs => made'[r] = made[r]
      BY <1>0, <3>1 DEF MadeInv
    <3>5. Promise!Say
      BY <1>0, <3>1, <3>3, <3>4, EndsAreSaid
    <3>6. QED  BY <3>5 DEF Promise!Next
  <2>7. CASE FailDecides
    <3>1. /\ Tell(Failing, <<"failed">>) /\ UNCHANGED <<pc, joined>>
          /\ made' = [r \in Requests |-> 0]
      BY <2>7 DEF FailDecides
    <3>2. \A r \in Requests : r \in Failing => InThread(r)
      BY DEF InThread, Failing
    <3>3. \A r \in Requests : r \in Failing /\ Open(r) => ~Answered(r) /\ made'[r] = 0
      BY <1>0, <3>1, <3>2 DEF AloneInv, Open
    <3>4. \A r \in Requests : r \notin Failing => made'[r] = made[r]
      BY <1>0, <3>1 DEF MadeInv, Failing
    <3>5. Promise!Say
      BY <1>0, <3>1, <3>3, <3>4, EndsAreSaid
    <3>6. QED  BY <3>5 DEF Promise!Next
  <2>8. QED
    BY <1>2, <2>1, <2>2, <2>3, <2>4, <2>5, <2>6, <2>7
    DEF ThreadStep
<1>3. CASE \/ IdleOut \/ SpanElapses \/ ReleaseBatch \/ UnloadIdle \/ TimePasses
          \/ (\E d \in Accelerators : DeviceFails(d)) \/ OutsideFails \/ OutsideEvicts
  <2>1. UNCHANGED <<pc, updates, joined, made>>
    BY <1>3
    DEF IdleOut, SpanElapses, ReleaseBatch, UnloadIdle, TimePasses, DeviceFails, clientVars,
        callVars, OutsideFails, FailsOutside, Contain, OutsideEvicts, EvictElsewhere
  <2>2. QED  BY <2>1, Unheard DEF Open
<1>4. CASE UNCHANGED vars
  BY <1>4, Unheard DEF vars, clientVars, callVars, Open
<1>5. QED
  BY <1>1, <1>2, <1>3, <1>4 DEF Next, OutsideFails, OutsideEvicts

\* What every request hears is an answer as AnswerStream promises it: no more
\* tokens than its budget, one end and nothing after it, and only a joiner is
\* turned back, before anything else (Update, and generate_batched's "a starter
\* is never turned back").
THEOREM AnswersKeepTheirPromise == Spec => AnswersAsPromised
<1>1. Init => Promise!Init
  <2> SUFFICES ASSUME Init  PROVE Promise!Init
    OBVIOUS
  <2>1. \A r \in Requests : ~Open(r)
    BY DEF Init, Open
  <2>2. QED  BY <2>1 DEF Init, Promise!Init
<1>2. IInv /\ AnswersInv /\ [Next]_vars => [Promise!Next]_(Promise!vars)
  BY PromiseStep
<1>3. QED
  BY <1>1, <1>2, DecodeInvariance, JobsAreHeldOnce, PTL DEF Spec, AnswersAsPromised, Promise!Spec
=============================================================================
