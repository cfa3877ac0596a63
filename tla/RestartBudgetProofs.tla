------------------------- MODULE RestartBudgetProofs -------------------------
(***************************************************************************)
(* Theorems about RestartBudget, for every cooldown, cap and clock bound.  *)
(*                                                                         *)
(* A restart that still counts -- younger than the cooldown, its record    *)
(* not lost -- is always the newest stamp of one known place: the header   *)
(* that would win if the files were taken now, the one being taken, or the *)
(* history in memory.  While an exit is latched there is none.             *)
(*                                                                         *)
(* And a file whose exit was adopted is gone or could not be set aside,    *)
(* because the two places never hold the same exit.                        *)
(***************************************************************************)
EXTENDS RestartBudget, FiniteSetTheorems, TLAPS

\* A restart that still counts.
Live(t) == t \in restarted \ lost /\ now - t < Cooldown

\* A header carries its own stamp, the last of those it carries.
HeaderOK(h, n) ==
    \/ h = NoFile
    \/ /\ h \in Headers
       /\ h.at \in h.restarts /\ h.at <= n
       /\ \A u \in h.restarts : u <= h.at

\* Of two headers, the one a start would adopt is that of t.
WinnerIs(t, a, b) == Newer(a, b) # NoFile /\ Newer(a, b).at = t

\* No stamp is of the future.
HeadersInv ==
    /\ \A p \in Places : HeaderOK(file[p], now) /\ HeaderOK(taken[p], now)
    /\ HeaderOK(header, now)
    /\ \A t \in restarts \union restarted : t <= now

\* A file is older than anything this process can stamp, or its own.
AgeInv ==
    \A p \in Places : file[p] # NoFile =>
        /\ phase # "down" /\ header = NoFile => file[p].at < now
        /\ header # NoFile => file[p] = header \/ file[p].at < header.at

\* What a process's place says of its exit.
ExitInv ==
    /\ phase # "up" =>
         /\ exitAt = "none" /\ ~latched /\ deciding = 0 /\ ~copying
         /\ restarts = {}
    /\ phase \in {"down", "taking"} => \A p \in Places : taken[p] = NoFile
    /\ deciding > 0 => latched
    /\ exitAt # "none" => latched
    /\ stalled => exitAt # "none"
    /\ header # NoFile <=> exitAt \in {"write", "fall back", "leave"}
    /\ header # NoFile => header.at \in restarts
    /\ copying => exitAt = "leave"
    /\ exitAt = "leave" =>
         (\E p \in Places : file[p] = header) \/ restarts \subseteq lost

\* Where the record of a live restart is.
RecordInv ==
    /\ latched => \A t \in restarted : ~Live(t)
    /\ phase = "up" => \A t \in restarted : Live(t) => t \in restarts
    /\ phase \in {"down", "taking"} =>
         \A t \in restarted : Live(t) => WinnerIs(t, file["local"], file["root"])
    /\ phase = "taking root" =>
         \A t \in restarted : Live(t) =>
           /\ WinnerIs(t, taken["local"], file["root"])
           /\ file["local"] # NoFile => WinnerIs(t, file["local"], file["root"])
    /\ phase = "adopting" =>
         \A t \in restarted : Live(t) => WinnerIs(t, taken["local"], taken["root"])

IInv == TypeOK /\ HeadersInv /\ AgeInv /\ ExitInv /\ RecordInv

-----------------------------------------------------------------------------
\* The newest stamps are stamps, and the last of all is among them.
LEMMA NewestKeepsTheLast ==
  ASSUME NEW S \in SUBSET Nat
  PROVE  /\ Newest(S) \subseteq S
         /\ \A t \in S : (\A u \in S : u <= t) => t \in Newest(S)
<1>1. Newest(S) \subseteq S
  BY DEF Newest
<1>2. ASSUME NEW t \in S, \A u \in S : u <= t PROVE t \in Newest(S)
  <2>1. \A u \in S : ~(u > t)
    BY <1>2
  <2>2. {u \in S : u > t} = {}
    BY <2>1
  <2>3. Cardinality({u \in S : u > t}) = 0
    BY <2>2, FS_EmptySet
  <2>4. QED  BY <2>3, RestartAssumption DEF Newest
<1>3. QED  BY <1>1, <1>2

\* The winner of two headers is one of them.
LEMMA NewerIsOneOfThem ==
  ASSUME NEW a, NEW b PROVE Newer(a, b) \in {a, b}
BY DEF Newer

\* The types, in parts: the provers take each kind alone better.
Counters == now \in Nat /\ consecutive \in 0..2 /\ deciding \in 0..MaxDeciders

Where ==
    /\ phase \in Phases
    /\ watchdog \in {"off", "armed", "failed"}
    /\ exitAt \in Steps

Shelves ==
    /\ taken \in [Places -> Headers \union {NoFile}]
    /\ file \in [Places -> Headers \union {NoFile}]
    /\ header \in Headers \union {NoFile}

Stamps ==
    /\ restarts \in SUBSET Nat
    /\ restarted \in SUBSET Nat /\ lost \in SUBSET Nat
    /\ adopted \in SUBSET Nat /\ kept \in SUBSET Nat

Flags == latched \in BOOLEAN /\ stalled \in BOOLEAN /\ copying \in BOOLEAN

\* It holds when nothing has started yet.
LEMMA InitIInv == Init => IInv
<1> SUFFICES ASSUME Init PROVE IInv  OBVIOUS
<1>1. TypeOK
  <2>1. Counters /\ Where
    BY RestartAssumption DEF Init, Counters, Where, Phases, Steps
  <2>2. Shelves
    BY DEF Init, Shelves
  <2>3. Stamps /\ Flags
    BY DEF Init, Stamps, Flags
  <2>4. QED  BY <2>1, <2>2, <2>3, Zenon DEF TypeOK, Counters, Where, Shelves, Stamps, Flags
<1>2. HeadersInv /\ AgeInv /\ ExitInv /\ RecordInv
  BY RestartAssumption DEF Init, HeadersInv, AgeInv, ExitInv, RecordInv, HeaderOK, Live
<1>3. QED  BY <1>1, <1>2 DEF IInv

\* The places a step goes to are places.
LEMMA Names ==
  /\ {"down", "taking", "taking root", "adopting", "up"} \subseteq Phases
  /\ {"none", "announce", "stamp", "write", "fall back", "leave"} \subseteq Steps
BY DEF Phases, Steps

\* Every step keeps the clock and the counts.
LEMMA CounterStep ==
  MaxDeciders \in Nat /\ Counters /\ [Next]_vars => Counters'
<1> SUFFICES ASSUME MaxDeciders \in Nat, Counters, [Next]_vars
             PROVE  Counters'
  OBVIOUS
<1>1. CASE Tick
  BY <1>1
  DEF Tick, books, exit, history, Counters
<1>2. CASE Start
  BY <1>2
  DEF Start, books, exit, history, Counters
<1>3. CASE TakeLocal
  BY <1>3
  DEF TakeLocal, Take, books, exit, history, Counters
<1>4. CASE TakeRoot
  BY <1>4
  DEF TakeRoot, Take, books, exit, history, Counters
<1>5. CASE Adopt
  BY <1>5
  DEF Adopt, books, exit, history, Counters
<1>6. CASE Fail
  BY <1>6
  DEF Fail, books, exit, history, Counters
<1>7. CASE TokenProduced
  BY <1>7
  DEF TokenProduced, books, exit, history, Counters
<1>8. CASE BeginExit
  BY <1>8
  DEF BeginExit, books, exit, history, Counters
<1>9. CASE Announce
  BY <1>9
  DEF Announce, At, books, exit, history, Counters
<1>10. CASE Stamp
  BY <1>10
  DEF Stamp, At, books, exit, history, Counters
<1>11. CASE WriteLocal
  BY <1>11
  DEF WriteLocal, At, books, exit, history, Counters
<1>12. CASE FallBack
  BY <1>12
  DEF FallBack, At, books, exit, history, Counters
<1>13. CASE Leave
  BY <1>13
  DEF Leave, At, Gone, books, exit, history, Counters
<1>14. CASE LateCopy
  BY <1>14
  DEF LateCopy, books, exit, history, Counters
<1>15. CASE Stall
  BY <1>15
  DEF Stall, At, books, exit, history, Counters
<1>16. CASE WatchdogFires
  BY <1>16
  DEF WatchdogFires, Gone, books, exit, history, Counters
<1>17. CASE Die
  BY <1>17
  DEF Die, Gone, books, exit, history, Counters
<1>18. CASE Deploy
  BY <1>18
  DEF Deploy, books, exit, history, Counters
<1>19. CASE UNCHANGED vars
  BY <1>19
  DEF vars, books, exit, history, Counters
<1>20. QED
  BY <1>1, <1>2, <1>3, <1>4, <1>5, <1>6, <1>7, <1>8, <1>9, <1>10,
     <1>11, <1>12, <1>13, <1>14, <1>15, <1>16, <1>17, <1>18, <1>19 DEF Next, ExitStep

\* Every step goes to a place there is.
LEMMA WhereStep ==
  Where /\ [Next]_vars => Where'
<1> SUFFICES ASSUME Where, [Next]_vars
             PROVE  Where'
  OBVIOUS
<1>1. CASE Tick
  BY <1>1, Names
  DEF Tick, books, exit, history, Where
<1>2. CASE Start
  BY <1>2, Names
  DEF Start, books, exit, history, Where
<1>3. CASE TakeLocal
  BY <1>3, Names
  DEF TakeLocal, Take, books, exit, history, Where
<1>4. CASE TakeRoot
  BY <1>4, Names
  DEF TakeRoot, Take, books, exit, history, Where
<1>5. CASE Adopt
  BY <1>5, Names
  DEF Adopt, books, exit, history, Where
<1>6. CASE Fail
  BY <1>6, Names
  DEF Fail, books, exit, history, Where
<1>7. CASE TokenProduced
  BY <1>7, Names
  DEF TokenProduced, books, exit, history, Where
<1>8. CASE BeginExit
  BY <1>8, Names
  DEF BeginExit, books, exit, history, Where
<1>9. CASE Announce
  BY <1>9, Names
  DEF Announce, At, books, exit, history, Where
<1>10. CASE Stamp
  BY <1>10, Names
  DEF Stamp, At, books, exit, history, Where
<1>11. CASE WriteLocal
  BY <1>11, Names
  DEF WriteLocal, At, books, exit, history, Where
<1>12. CASE FallBack
  BY <1>12, Names
  DEF FallBack, At, books, exit, history, Where
<1>13. CASE Leave
  BY <1>13, Names
  DEF Leave, At, Gone, books, exit, history, Where
<1>14. CASE LateCopy
  BY <1>14, Names
  DEF LateCopy, books, exit, history, Where
<1>15. CASE Stall
  BY <1>15, Names
  DEF Stall, At, books, exit, history, Where
<1>16. CASE WatchdogFires
  BY <1>16, Names
  DEF WatchdogFires, Gone, books, exit, history, Where
<1>17. CASE Die
  BY <1>17, Names
  DEF Die, Gone, books, exit, history, Where
<1>18. CASE Deploy
  BY <1>18, Names
  DEF Deploy, books, exit, history, Where
<1>19. CASE UNCHANGED vars
  BY <1>19
  DEF vars, books, exit, history, Where
<1>20. QED
  BY <1>1, <1>2, <1>3, <1>4, <1>5, <1>6, <1>7, <1>8, <1>9, <1>10,
     <1>11, <1>12, <1>13, <1>14, <1>15, <1>16, <1>17, <1>18, <1>19 DEF Next, ExitStep

\* Every step keeps the types of the files and headers.
LEMMA FileStep ==
  Counters /\ Stamps /\ Shelves /\ [Next]_vars => Shelves'
<1> SUFFICES ASSUME Counters, Stamps, Shelves, [Next]_vars
             PROVE  Shelves'
  OBVIOUS
<1>1. CASE Tick
  BY <1>1
  DEF Tick, books, exit, history, Shelves
<1>2. CASE Start
  BY <1>2
  DEF Start, books, exit, history, Shelves
<1>3. CASE TakeLocal
  BY <1>3
  DEF TakeLocal, Take, books, exit, history, Shelves
<1>4. CASE TakeRoot
  BY <1>4
  DEF TakeRoot, Take, books, exit, history, Shelves
<1>5. CASE Adopt
  BY <1>5
  DEF Adopt, books, exit, history, Shelves
<1>6. CASE Fail
  BY <1>6
  DEF Fail, books, exit, history, Shelves
<1>7. CASE TokenProduced
  BY <1>7
  DEF TokenProduced, books, exit, history, Shelves
<1>8. CASE BeginExit
  BY <1>8
  DEF BeginExit, books, exit, history, Shelves
<1>9. CASE Announce
  BY <1>9
  DEF Announce, At, books, exit, history, Shelves
<1>10. CASE Stamp
  <2>1. restarts' \in SUBSET Nat
    BY <1>10 DEF Stamp, Counters, Stamps
  <2>2. Newest(restarts') \in SUBSET Nat
    BY <2>1 DEF Newest
  <2>3. header' \in Headers
    BY <1>10, <2>2 DEF Stamp, Counters, Headers
  <2>4. QED  BY <1>10, <2>3 DEF Stamp, At, Shelves
<1>11. CASE WriteLocal
  BY <1>11
  DEF WriteLocal, At, books, exit, history, Shelves
<1>12. CASE FallBack
  BY <1>12
  DEF FallBack, At, books, exit, history, Shelves
<1>13. CASE Leave
  BY <1>13
  DEF Leave, At, Gone, books, exit, history, Shelves
<1>14. CASE LateCopy
  BY <1>14
  DEF LateCopy, books, exit, history, Shelves
<1>15. CASE Stall
  BY <1>15
  DEF Stall, At, books, exit, history, Shelves
<1>16. CASE WatchdogFires
  BY <1>16
  DEF WatchdogFires, Gone, books, exit, history, Shelves
<1>17. CASE Die
  BY <1>17
  DEF Die, Gone, books, exit, history, Shelves
<1>18. CASE Deploy
  BY <1>18
  DEF Deploy, books, exit, history, Shelves
<1>19. CASE UNCHANGED vars
  BY <1>19
  DEF vars, books, exit, history, Shelves
<1>20. QED
  BY <1>1, <1>2, <1>3, <1>4, <1>5, <1>6, <1>7, <1>8, <1>9, <1>10,
     <1>11, <1>12, <1>13, <1>14, <1>15, <1>16, <1>17, <1>18, <1>19 DEF Next, ExitStep

\* Every step keeps the types of the sets of stamps.
LEMMA StampStep ==
  Counters /\ Shelves /\ ExitInv /\ Stamps /\ [Next]_vars => Stamps'
<1> SUFFICES ASSUME Counters, Shelves, ExitInv, Stamps, [Next]_vars
             PROVE  Stamps'
  OBVIOUS
<1>1. CASE Tick
  BY <1>1
  DEF Tick, books, exit, history, Stamps
<1>2. CASE Start
  BY <1>2
  DEF Start, books, exit, history, Stamps
<1>3. CASE TakeLocal
  <2>1. StampsOf(file["local"]) \in SUBSET Nat
    BY DEF Shelves, StampsOf, Headers, Places
  <2>2. file["local"] # NoFile => file["local"].at \in Nat
    BY DEF Shelves, Headers, Places
  <2>3. PICK readable \in BOOLEAN, aside \in BOOLEAN :
          /\ lost' = IF readable THEN lost ELSE lost \union StampsOf(file["local"])
          /\ kept' = IF aside \/ file["local"] = NoFile THEN kept
                     ELSE kept \union {file["local"].at}
    BY <1>3, Zenon DEF TakeLocal, Take
  <2>4. lost' \in SUBSET Nat
    BY <2>1, <2>3 DEF Stamps
  <2>5. kept' \in SUBSET Nat
    BY <2>2, <2>3 DEF Stamps
  <2>6. UNCHANGED <<restarts, restarted, adopted>>
    BY <1>3 DEF TakeLocal, Take, books
  <2>7. QED  BY <2>4, <2>5, <2>6 DEF Stamps
<1>4. CASE TakeRoot
  <2>1. StampsOf(file["root"]) \in SUBSET Nat
    BY DEF Shelves, StampsOf, Headers, Places
  <2>2. file["root"] # NoFile => file["root"].at \in Nat
    BY DEF Shelves, Headers, Places
  <2>3. PICK readable \in BOOLEAN, aside \in BOOLEAN :
          /\ lost' = IF readable THEN lost ELSE lost \union StampsOf(file["root"])
          /\ kept' = IF aside \/ file["root"] = NoFile THEN kept
                     ELSE kept \union {file["root"].at}
    BY <1>4, Zenon DEF TakeRoot, Take
  <2>4. lost' \in SUBSET Nat
    BY <2>1, <2>3 DEF Stamps
  <2>5. kept' \in SUBSET Nat
    BY <2>2, <2>3 DEF Stamps
  <2>6. UNCHANGED <<restarts, restarted, adopted>>
    BY <1>4 DEF TakeRoot, Take, books
  <2>7. QED  BY <2>4, <2>5, <2>6 DEF Stamps
<1>5. CASE Adopt
  <2> DEFINE news == Newer(taken["local"], taken["root"])
  <2>1. news \in Headers \union {NoFile}
    BY DEF Newer, Shelves, Places
  <2>2. StampsOf(news) \in SUBSET Nat /\ (news # NoFile => news.at \in Nat)
    BY <2>1 DEF StampsOf, Headers
  <2>3. restarts' \in SUBSET Nat
    <3>1. restarts' \subseteq StampsOf(news)
      BY <1>5 DEF Adopt, Newest
    <3>2. QED  BY <2>2, <3>1
  <2>4. adopted' \in SUBSET Nat
    BY <1>5, <2>2 DEF Adopt, Stamps
  <2>5. UNCHANGED <<restarted, lost, kept>>
    BY <1>5 DEF Adopt
  <2>6. QED  BY <2>3, <2>4, <2>5 DEF Stamps
<1>6. CASE Fail
  BY <1>6
  DEF Fail, books, exit, history, Stamps
<1>7. CASE TokenProduced
  BY <1>7
  DEF TokenProduced, books, exit, history, Stamps
<1>8. CASE BeginExit
  BY <1>8
  DEF BeginExit, books, exit, history, Stamps
<1>9. CASE Announce
  BY <1>9
  DEF Announce, At, books, exit, history, Stamps
<1>10. CASE Stamp
  <2>1. restarts' \in SUBSET Nat
    BY <1>10 DEF Stamp, Counters, Stamps
  <2>2. QED  BY <1>10, <2>1 DEF Stamp, history, Stamps
<1>11. CASE WriteLocal
  BY <1>11
  DEF WriteLocal, At, books, exit, history, Stamps
<1>12. CASE FallBack
  BY <1>12
  DEF FallBack, At, books, exit, history, Stamps
<1>13. CASE Leave
  <2>1. header # NoFile
    BY <1>13 DEF Leave, At, ExitInv
  <2>2. header.at \in Nat
    BY <2>1 DEF Shelves, Headers
  <2>3. QED  BY <1>13, <2>2 DEF Leave, At, Gone, Stamps
<1>14. CASE LateCopy
  BY <1>14
  DEF LateCopy, books, exit, history, Stamps
<1>15. CASE Stall
  BY <1>15
  DEF Stall, At, books, exit, history, Stamps
<1>16. CASE WatchdogFires
  <2> DEFINE stamp == IF header = NoFile THEN now ELSE header.at
  <2>1. stamp \in Nat
    BY DEF Counters, Shelves, Headers
  <2>2. /\ restarts' = {}
        /\ restarted' = restarted \union {stamp}
        /\ lost' = IF exitAt = "leave" THEN lost
                  ELSE lost \union restarts \union {stamp}
        /\ UNCHANGED <<adopted, kept>>
    BY <1>16 DEF WatchdogFires, Gone
  <2> HIDE DEF stamp
  <2>3. lost' \in SUBSET Nat /\ restarted' \in SUBSET Nat
    BY <2>1, <2>2 DEF Stamps
  <2>4. QED  BY <2>2, <2>3 DEF Stamps
<1>17. CASE Die
  <2>1. \A p \in Places : StampsOf(taken[p]) \in SUBSET Nat
    BY DEF Shelves, StampsOf, Headers
  <2>2. UNION {StampsOf(taken[p]) : p \in Places} \in SUBSET Nat
    BY <2>1
  <2>3. restarts' = {} /\ lost' \in SUBSET Nat /\ UNCHANGED <<restarted, adopted, kept>>
    BY <1>17, <2>2 DEF Die, Gone, Stamps
  <2>4. QED  BY <2>3 DEF Stamps
<1>18. CASE Deploy
  <2>1. StampsOf(file["local"]) \in SUBSET Nat
    BY DEF Shelves, StampsOf, Headers, Places
  <2>2. QED  BY <1>18, <2>1 DEF Deploy, books, Stamps
<1>19. CASE UNCHANGED vars
  BY <1>19
  DEF vars, books, exit, history, Stamps
<1>20. QED
  BY <1>1, <1>2, <1>3, <1>4, <1>5, <1>6, <1>7, <1>8, <1>9, <1>10,
     <1>11, <1>12, <1>13, <1>14, <1>15, <1>16, <1>17, <1>18, <1>19 DEF Next, ExitStep

\* Every step keeps the flags flags.
LEMMA FlagStep ==
  Flags /\ [Next]_vars => Flags'
<1> SUFFICES ASSUME Flags, [Next]_vars
             PROVE  Flags'
  OBVIOUS
<1>1. CASE Tick
  BY <1>1, Zenon
  DEF Tick, books, exit, history, Flags
<1>2. CASE Start
  BY <1>2, Zenon
  DEF Start, books, exit, history, Flags
<1>3. CASE TakeLocal
  BY <1>3, Zenon
  DEF TakeLocal, Take, books, exit, history, Flags
<1>4. CASE TakeRoot
  BY <1>4, Zenon
  DEF TakeRoot, Take, books, exit, history, Flags
<1>5. CASE Adopt
  BY <1>5, Zenon
  DEF Adopt, books, exit, history, Flags
<1>6. CASE Fail
  BY <1>6, Zenon
  DEF Fail, books, exit, history, Flags
<1>7. CASE TokenProduced
  BY <1>7, Zenon
  DEF TokenProduced, books, exit, history, Flags
<1>8. CASE BeginExit
  BY <1>8, Zenon
  DEF BeginExit, books, exit, history, Flags
<1>9. CASE Announce
  BY <1>9, Zenon
  DEF Announce, At, books, exit, history, Flags
<1>10. CASE Stamp
  BY <1>10, Zenon
  DEF Stamp, At, books, exit, history, Flags
<1>11. CASE WriteLocal
  BY <1>11, Zenon
  DEF WriteLocal, At, books, exit, history, Flags
<1>12. CASE FallBack
  BY <1>12, Zenon
  DEF FallBack, At, books, exit, history, Flags
<1>13. CASE Leave
  BY <1>13, Zenon
  DEF Leave, At, Gone, books, exit, history, Flags
<1>14. CASE LateCopy
  BY <1>14, Zenon
  DEF LateCopy, books, exit, history, Flags
<1>15. CASE Stall
  BY <1>15, Zenon
  DEF Stall, At, books, exit, history, Flags
<1>16. CASE WatchdogFires
  BY <1>16, Zenon
  DEF WatchdogFires, Gone, books, exit, history, Flags
<1>17. CASE Die
  BY <1>17, Zenon
  DEF Die, Gone, books, exit, history, Flags
<1>18. CASE Deploy
  BY <1>18, Zenon
  DEF Deploy, books, exit, history, Flags
<1>19. CASE UNCHANGED vars
  BY <1>19
  DEF vars, books, exit, history, Flags
<1>20. QED
  BY <1>1, <1>2, <1>3, <1>4, <1>5, <1>6, <1>7, <1>8, <1>9, <1>10,
     <1>11, <1>12, <1>13, <1>14, <1>15, <1>16, <1>17, <1>18, <1>19 DEF Next, ExitStep


\* Both together are the types.
LEMMA TypeStep == TypeOK /\ ExitInv /\ [Next]_vars => TypeOK'
<1>1. TypeOK <=> Counters /\ Where /\ Shelves /\ Stamps /\ Flags
  BY Zenon DEF TypeOK, Counters, Where, Shelves, Stamps, Flags
<1>2. TypeOK' <=> Counters' /\ Where' /\ Shelves' /\ Stamps' /\ Flags'
  BY Zenon DEF TypeOK, Counters, Where, Shelves, Stamps, Flags
<1>3. MaxDeciders \in Nat
  BY RestartAssumption
<1>4. QED  BY <1>1, <1>2, <1>3, CounterStep, WhereStep, FileStep, StampStep, FlagStep

\* A header stays in order as time passes.
LEMMA HeaderLater ==
  ASSUME NEW h, NEW m \in Nat, NEW n \in Nat, m <= n, HeaderOK(h, m)
  PROVE  HeaderOK(h, n)
<1>1. CASE h = NoFile
  BY <1>1 DEF HeaderOK
<1>2. CASE h # NoFile
  <2>1. h.at \in Nat
    BY <1>2 DEF HeaderOK, Headers
  <2>2. QED  BY <1>2, <2>1 DEF HeaderOK
<1>3. QED  BY <1>1, <1>2

\* The winner's stamp is among the stamps of its header, so a header without
\* it can be taken away.
LEMMA WinnerStays ==
  ASSUME NEW a, NEW b, NEW n, NEW t, HeaderOK(a, n), HeaderOK(b, n), WinnerIs(t, a, b)
  PROVE  /\ t \in StampsOf(a) \union StampsOf(b)
         /\ t \notin StampsOf(a) => WinnerIs(t, NoFile, b)
         /\ t \notin StampsOf(b) => WinnerIs(t, a, NoFile)
BY DEF HeaderOK, WinnerIs, Newer, StampsOf

\* Every step keeps the headers in order.
LEMMA HeadersStep ==
  IInv /\ TypeOK' /\ [Next]_vars => HeadersInv'
<1> SUFFICES ASSUME IInv, TypeOK', [Next]_vars
             PROVE  HeadersInv'
  OBVIOUS
<1>1. CASE Tick
  <2>1. now \in Nat /\ now' = now + 1
    BY <1>1 DEF Tick, IInv, TypeOK
  <2>2. UNCHANGED <<taken, restarts, restarted, file, header>>
    BY <1>1 DEF Tick, books, exit, history
  <2>3. \A p \in Places : HeaderOK(file[p], now') /\ HeaderOK(taken[p], now')
    BY <2>1, HeaderLater DEF IInv, HeadersInv
  <2>4. HeaderOK(header, now')
    BY <2>1, HeaderLater DEF IInv, HeadersInv
  <2>5. \A t \in restarts \union restarted : t <= now'
    <3>1. \A t \in restarts \union restarted : t \in Nat /\ t <= now
      BY DEF IInv, TypeOK, HeadersInv
    <3>2. QED  BY <2>1, <3>1
  <2>6. QED  BY <2>2, <2>3, <2>4, <2>5 DEF HeadersInv
<1>2. CASE Start
  <2>1. now \in Nat /\ now' = now + 1
    BY <1>2 DEF Start, IInv, TypeOK
  <2>2. UNCHANGED <<taken, restarts, restarted, file, header>>
    BY <1>2 DEF Start, books, exit, history
  <2>3. \A p \in Places : HeaderOK(file[p], now') /\ HeaderOK(taken[p], now')
    BY <2>1, HeaderLater DEF IInv, HeadersInv
  <2>4. HeaderOK(header, now')
    BY <2>1, HeaderLater DEF IInv, HeadersInv
  <2>5. \A t \in restarts \union restarted : t <= now'
    <3>1. \A t \in restarts \union restarted : t \in Nat /\ t <= now
      BY DEF IInv, TypeOK, HeadersInv
    <3>2. QED  BY <2>1, <3>1
  <2>6. QED  BY <2>2, <2>3, <2>4, <2>5 DEF HeadersInv
<1>3. CASE TakeLocal
  <2>1. HeaderOK(NoFile, now)
    BY DEF HeaderOK
  <2>2. UNCHANGED <<now, header, restarts, restarted>>
    BY <1>3 DEF TakeLocal, Take, books, exit
  <2>3. \A q \in Places : taken'[q] \in {taken[q], file[q], NoFile}
    BY <1>3 DEF TakeLocal, Take, IInv, TypeOK
  <2>4. \A q \in Places : file'[q] \in {file[q], NoFile}
    BY <1>3 DEF TakeLocal, Take, IInv, TypeOK
  <2>5. QED  BY <2>1, <2>2, <2>3, <2>4 DEF IInv, HeadersInv
<1>4. CASE TakeRoot
  <2>1. HeaderOK(NoFile, now)
    BY DEF HeaderOK
  <2>2. UNCHANGED <<now, header, restarts, restarted>>
    BY <1>4 DEF TakeRoot, Take, books, exit
  <2>3. \A q \in Places : taken'[q] \in {taken[q], file[q], NoFile}
    BY <1>4 DEF TakeRoot, Take, IInv, TypeOK
  <2>4. \A q \in Places : file'[q] \in {file[q], NoFile}
    BY <1>4 DEF TakeRoot, Take, IInv, TypeOK
  <2>5. QED  BY <2>1, <2>2, <2>3, <2>4 DEF IInv, HeadersInv
<1>5. CASE Adopt
  <2> DEFINE news == Newer(taken["local"], taken["root"])
  <2>1. HeaderOK(news, now)
    BY DEF IInv, HeadersInv, Newer, Places
  <2>2. restarts' \subseteq StampsOf(news)
    BY <1>5 DEF Adopt, Newest
  <2>3. \A t \in StampsOf(news) : t <= now
    <3>1. CASE news = NoFile
      BY <3>1 DEF StampsOf
    <3>2. CASE news # NoFile
      <4>1. /\ news.at \in Nat /\ news.at <= now /\ news.restarts \in SUBSET Nat
            /\ \A u \in news.restarts : u <= news.at
        BY <2>1, <3>2 DEF HeaderOK, Headers
      <4>2. now \in Nat
        BY DEF IInv, TypeOK
      <4>3. QED  BY <3>2, <4>1, <4>2 DEF StampsOf
    <3>3. QED  BY <3>1, <3>2
  <2>4. HeaderOK(NoFile, now)
    BY DEF HeaderOK
  <2>5. /\ UNCHANGED <<now, file, restarted, header>>
        /\ \A p \in Places : taken'[p] = NoFile
    BY <1>5 DEF Adopt, exit
  <2>6. QED  BY <2>2, <2>3, <2>4, <2>5 DEF IInv, HeadersInv
<1>6. CASE Fail
  BY <1>6
  DEF Fail, books, exit, history, IInv, HeadersInv, TypeOK
<1>7. CASE TokenProduced
  BY <1>7
  DEF TokenProduced, books, exit, history, IInv, HeadersInv, TypeOK
<1>8. CASE BeginExit
  BY <1>8
  DEF BeginExit, books, exit, history, IInv, HeadersInv, TypeOK
<1>9. CASE Announce
  BY <1>9
  DEF Announce, At, books, exit, history, IInv, HeadersInv, TypeOK
<1>10. CASE Stamp
  <2>1. now \in Nat /\ restarts' = restarts \union {now} /\ restarts' \in SUBSET Nat
    BY <1>10 DEF Stamp, IInv, TypeOK
  <2>2. \A u \in restarts' : u <= now
    BY <2>1 DEF IInv, HeadersInv
  <2>3. now \in Newest(restarts') /\ Newest(restarts') \subseteq restarts'
    BY <2>1, <2>2, NewestKeepsTheLast
  <2>4. header' = [at |-> now, restarts |-> Newest(restarts')]
    BY <1>10 DEF Stamp
  <2>5. HeaderOK(header', now)
    BY <2>1, <2>2, <2>3, <2>4 DEF HeaderOK, Headers
  <2>6. UNCHANGED <<now, file, taken, restarted>>
    BY <1>10 DEF Stamp, history
  <2>7. QED  BY <2>2, <2>5, <2>6 DEF IInv, HeadersInv
<1>11. CASE WriteLocal
  <2>1. UNCHANGED <<now, taken, header, restarts, restarted>>
    BY <1>11 DEF WriteLocal, books, exit, history
  <2>2. \A q \in Places : file'[q] \in {file[q], header}
    BY <1>11 DEF WriteLocal, IInv, TypeOK
  <2>3. QED  BY <2>1, <2>2 DEF IInv, HeadersInv
<1>12. CASE FallBack
  <2>1. UNCHANGED <<now, taken, header, restarts, restarted>>
    BY <1>12 DEF FallBack, books, exit, history
  <2>2. \A q \in Places : file'[q] \in {file[q], header}
    BY <1>12 DEF FallBack, IInv, TypeOK
  <2>3. QED  BY <2>1, <2>2 DEF IInv, HeadersInv
<1>13. CASE Leave
  <2>1. \A p \in Places : taken'[p] = NoFile
    BY <1>13 DEF Leave, Gone
  <2>2. UNCHANGED <<now, file>> /\ header' = NoFile /\ restarts' = {}
    BY <1>13 DEF Leave, Gone
  <2>3. HeaderOK(NoFile, now)
    BY DEF HeaderOK
  <2>4. \A t \in restarted' : t <= now
    <3>1. header # NoFile
      BY <1>13 DEF Leave, At, IInv, ExitInv
    <3>2. header.at <= now
      BY <3>1 DEF IInv, HeadersInv, HeaderOK
    <3>3. QED  BY <1>13, <3>2 DEF Leave, IInv, HeadersInv
  <2>5. QED  BY <2>1, <2>2, <2>3, <2>4 DEF IInv, HeadersInv
<1>14. CASE LateCopy
  <2>1. UNCHANGED <<now, taken, header, restarts, restarted>>
    BY <1>14 DEF LateCopy, books, exit, history
  <2>2. \A q \in Places : file'[q] \in {file[q], header}
    BY <1>14 DEF LateCopy, IInv, TypeOK
  <2>3. QED  BY <2>1, <2>2 DEF IInv, HeadersInv
<1>15. CASE Stall
  BY <1>15
  DEF Stall, At, books, exit, history, IInv, HeadersInv, TypeOK
<1>16. CASE WatchdogFires
  <2>1. \A p \in Places : taken'[p] = NoFile
    BY <1>16 DEF WatchdogFires, Gone
  <2>2. UNCHANGED <<now, file>> /\ header' = NoFile /\ restarts' = {}
    BY <1>16 DEF WatchdogFires, Gone
  <2>3. HeaderOK(NoFile, now)
    BY DEF HeaderOK
  <2>4. \A t \in restarted' : t <= now
    <3>1. header # NoFile => header.at <= now
      BY DEF IInv, HeadersInv, HeaderOK
    <3>2. now \in Nat
      BY DEF IInv, TypeOK
    <3>3. QED  BY <1>16, <3>1, <3>2 DEF WatchdogFires, IInv, HeadersInv
  <2>5. QED  BY <2>1, <2>2, <2>3, <2>4 DEF IInv, HeadersInv
<1>17. CASE Die
  <2>1. \A p \in Places : taken'[p] = NoFile
    BY <1>17 DEF Die, Gone
  <2>2. UNCHANGED <<now, file>> /\ header' = NoFile /\ restarts' = {}
    BY <1>17 DEF Die, Gone
  <2>3. HeaderOK(NoFile, now)
    BY DEF HeaderOK
  <2>4. restarted' = restarted
    BY <1>17 DEF Die
  <2>5. QED  BY <2>1, <2>2, <2>3, <2>4 DEF IInv, HeadersInv
<1>18. CASE Deploy
  <2>1. UNCHANGED <<now, taken, header, restarts, restarted>>
    BY <1>18 DEF Deploy, books, exit
  <2>2. \A q \in Places : file'[q] \in {file[q], NoFile}
    BY <1>18 DEF Deploy, IInv, TypeOK
  <2>3. HeaderOK(NoFile, now)
    BY DEF HeaderOK
  <2>4. QED  BY <2>1, <2>2, <2>3 DEF IInv, HeadersInv
<1>19. CASE UNCHANGED vars
  BY <1>19
  DEF vars, books, exit, history, IInv, HeadersInv, TypeOK
<1>20. QED
  BY <1>1, <1>2, <1>3, <1>4, <1>5, <1>6, <1>7, <1>8, <1>9, <1>10,
     <1>11, <1>12, <1>13, <1>14, <1>15, <1>16, <1>17, <1>18, <1>19 DEF Next, ExitStep

\* Every step keeps the files older than what can be stamped.
LEMMA AgeStep ==
  IInv /\ TypeOK' /\ [Next]_vars => AgeInv'
<1> SUFFICES ASSUME IInv, TypeOK', [Next]_vars
             PROVE  AgeInv'
  OBVIOUS
<1>1. CASE Tick
  <2>1. now \in Nat /\ now' = now + 1
    BY <1>1 DEF Tick, IInv, TypeOK
  <2>2. UNCHANGED <<file, header>>
    BY <1>1 DEF Tick, exit
  <2>3. \A p \in Places : file[p] # NoFile => file[p].at \in Nat /\ file[p].at <= now
    BY DEF IInv, TypeOK, Headers, HeadersInv, HeaderOK
  <2>4. \A p \in Places : file[p] # NoFile => file[p].at < now'
    BY <2>1, <2>3
  <2>5. QED  BY <2>2, <2>4 DEF IInv, AgeInv
<1>2. CASE Start
  <2>1. now \in Nat /\ now' = now + 1
    BY <1>2 DEF Start, IInv, TypeOK
  <2>2. UNCHANGED <<file, header>>
    BY <1>2 DEF Start, exit
  <2>3. \A p \in Places : file[p] # NoFile => file[p].at \in Nat /\ file[p].at <= now
    BY DEF IInv, TypeOK, Headers, HeadersInv, HeaderOK
  <2>4. \A p \in Places : file[p] # NoFile => file[p].at < now'
    BY <2>1, <2>3
  <2>5. QED  BY <2>2, <2>4 DEF IInv, AgeInv
<1>3. CASE TakeLocal
  <2>1. UNCHANGED <<now, header>> /\ phase # "down" /\ phase' # "down"
    BY <1>3 DEF TakeLocal, Take, exit
  <2>2. \A q \in Places : file'[q] \in {file[q], NoFile}
    BY <1>3 DEF TakeLocal, Take, IInv, TypeOK
  <2>3. QED  BY <2>1, <2>2 DEF IInv, AgeInv
<1>4. CASE TakeRoot
  <2>1. UNCHANGED <<now, header>> /\ phase # "down" /\ phase' # "down"
    BY <1>4 DEF TakeRoot, Take, exit
  <2>2. \A q \in Places : file'[q] \in {file[q], NoFile}
    BY <1>4 DEF TakeRoot, Take, IInv, TypeOK
  <2>3. QED  BY <2>1, <2>2 DEF IInv, AgeInv
<1>5. CASE Adopt
  BY <1>5
  DEF Adopt, books, exit, history, IInv, AgeInv, ExitInv, TypeOK, Places
<1>6. CASE Fail
  BY <1>6
  DEF Fail, books, exit, history, IInv, AgeInv, ExitInv, TypeOK, Places
<1>7. CASE TokenProduced
  BY <1>7
  DEF TokenProduced, books, exit, history, IInv, AgeInv, ExitInv, TypeOK, Places
<1>8. CASE BeginExit
  BY <1>8
  DEF BeginExit, books, exit, history, IInv, AgeInv, ExitInv, TypeOK, Places
<1>9. CASE Announce
  BY <1>9
  DEF Announce, At, books, exit, history, IInv, AgeInv, ExitInv, TypeOK, Places
<1>10. CASE Stamp
  BY <1>10
  DEF Stamp, At, books, exit, history, IInv, AgeInv, ExitInv, TypeOK, Places
<1>11. CASE WriteLocal
  <2>1. UNCHANGED <<now, header, phase>> /\ header # NoFile
    BY <1>11 DEF WriteLocal, At, exit, IInv, ExitInv
  <2>2. \A q \in Places : file'[q] \in {file[q], header}
    BY <1>11 DEF WriteLocal, IInv, TypeOK
  <2>3. QED  BY <2>1, <2>2 DEF IInv, AgeInv
<1>12. CASE FallBack
  <2>1. UNCHANGED <<now, header, phase>> /\ header # NoFile
    BY <1>12 DEF FallBack, At, exit, IInv, ExitInv
  <2>2. \A q \in Places : file'[q] \in {file[q], header}
    BY <1>12 DEF FallBack, IInv, TypeOK
  <2>3. QED  BY <2>1, <2>2 DEF IInv, AgeInv
<1>13. CASE Leave
  BY <1>13
  DEF Leave, At, Gone, books, exit, history, IInv, AgeInv, ExitInv, TypeOK, Places
<1>14. CASE LateCopy
  <2>1. UNCHANGED <<now, header, phase>> /\ header # NoFile
    BY <1>14 DEF LateCopy, At, exit, IInv, ExitInv
  <2>2. \A q \in Places : file'[q] \in {file[q], header}
    BY <1>14 DEF LateCopy, IInv, TypeOK
  <2>3. QED  BY <2>1, <2>2 DEF IInv, AgeInv
<1>15. CASE Stall
  BY <1>15
  DEF Stall, At, books, exit, history, IInv, AgeInv, ExitInv, TypeOK, Places
<1>16. CASE WatchdogFires
  BY <1>16
  DEF WatchdogFires, Gone, books, exit, history, IInv, AgeInv, ExitInv, TypeOK, Places
<1>17. CASE Die
  BY <1>17
  DEF Die, Gone, books, exit, history, IInv, AgeInv, ExitInv, TypeOK, Places
<1>18. CASE Deploy
  BY <1>18
  DEF Deploy, books, exit, history, IInv, AgeInv, ExitInv, TypeOK, Places
<1>19. CASE UNCHANGED vars
  BY <1>19
  DEF vars, books, exit, history, IInv, AgeInv, ExitInv, TypeOK, Places
<1>20. QED
  BY <1>1, <1>2, <1>3, <1>4, <1>5, <1>6, <1>7, <1>8, <1>9, <1>10,
     <1>11, <1>12, <1>13, <1>14, <1>15, <1>16, <1>17, <1>18, <1>19 DEF Next, ExitStep

\* Every step keeps the exit's books.
LEMMA ExitStepKeeps ==
  IInv /\ TypeOK' /\ [Next]_vars => ExitInv'
<1> SUFFICES ASSUME IInv, TypeOK', [Next]_vars
             PROVE  ExitInv'
  OBVIOUS
<1>1. CASE Tick
  BY <1>1
  DEF Tick, books, exit, history, IInv, ExitInv, TypeOK, Places
<1>2. CASE Start
  BY <1>2
  DEF Start, books, exit, history, IInv, ExitInv, TypeOK, Places
<1>3. CASE TakeLocal
  BY <1>3
  DEF TakeLocal, Take, books, exit, history, IInv, ExitInv, TypeOK, Places
<1>4. CASE TakeRoot
  BY <1>4
  DEF TakeRoot, Take, books, exit, history, IInv, ExitInv, TypeOK, Places
<1>5. CASE Adopt
  BY <1>5
  DEF Adopt, books, exit, history, IInv, ExitInv, TypeOK, Places
<1>6. CASE Fail
  BY <1>6
  DEF Fail, books, exit, history, IInv, ExitInv, TypeOK, Places
<1>7. CASE TokenProduced
  BY <1>7
  DEF TokenProduced, books, exit, history, IInv, ExitInv, TypeOK, Places
<1>8. CASE BeginExit
  BY <1>8
  DEF BeginExit, books, exit, history, IInv, ExitInv, TypeOK, Places
<1>9. CASE Announce
  BY <1>9
  DEF Announce, At, books, exit, history, IInv, ExitInv, TypeOK, Places
<1>10. CASE Stamp
  <2>1. /\ phase = "up" /\ exitAt = "stamp" /\ exitAt' = "write" /\ header' # NoFile
        /\ header'.at \in restarts'
        /\ UNCHANGED <<phase, taken, latched, deciding, stalled, copying>>
    <3>1. header' = [at |-> now, restarts |-> Newest(restarts')] /\ now \in restarts'
      BY <1>10 DEF Stamp
    <3>2. header' \in Headers
      <4>1. now \in Nat /\ restarts' \in SUBSET Nat
        BY DEF IInv, TypeOK
      <4>2. Newest(restarts') \in SUBSET Nat
        BY <4>1 DEF Newest
      <4>3. QED  BY <3>1, <4>1, <4>2 DEF Headers
    <3>3. header' # NoFile
      BY <3>2, RestartAssumption
    <3>4. QED  BY <1>10, <3>1, <3>3 DEF Stamp, At
  <2>2. QED  BY <2>1 DEF IInv, ExitInv
<1>11. CASE WriteLocal
  BY <1>11
  DEF WriteLocal, At, books, exit, history, IInv, ExitInv, TypeOK, Places
<1>12. CASE FallBack
  BY <1>12
  DEF FallBack, At, books, exit, history, IInv, ExitInv, TypeOK, Places
<1>13. CASE Leave
  <2>1. /\ phase' = "down" /\ \A p \in Places : taken'[p] = NoFile
        /\ restarts' = {} /\ latched' = FALSE /\ deciding' = 0
        /\ exitAt' = "none" /\ stalled' = FALSE /\ header' = NoFile /\ copying' = FALSE
    BY <1>13 DEF Leave, Gone
  <2>2. QED  BY <2>1 DEF ExitInv
<1>14. CASE LateCopy
  BY <1>14
  DEF LateCopy, books, exit, history, IInv, ExitInv, TypeOK, Places
<1>15. CASE Stall
  BY <1>15
  DEF Stall, At, books, exit, history, IInv, ExitInv, TypeOK, Places
<1>16. CASE WatchdogFires
  <2>1. /\ phase' = "down" /\ \A p \in Places : taken'[p] = NoFile
        /\ restarts' = {} /\ latched' = FALSE /\ deciding' = 0
        /\ exitAt' = "none" /\ stalled' = FALSE /\ header' = NoFile /\ copying' = FALSE
    BY <1>16 DEF WatchdogFires, Gone
  <2>2. QED  BY <2>1 DEF ExitInv
<1>17. CASE Die
  <2>1. /\ phase' = "down" /\ \A p \in Places : taken'[p] = NoFile
        /\ restarts' = {} /\ latched' = FALSE /\ deciding' = 0
        /\ exitAt' = "none" /\ stalled' = FALSE /\ header' = NoFile /\ copying' = FALSE
    BY <1>17 DEF Die, Gone
  <2>2. QED  BY <2>1 DEF ExitInv
<1>18. CASE Deploy
  BY <1>18
  DEF Deploy, books, exit, history, IInv, ExitInv, TypeOK, Places
<1>19. CASE UNCHANGED vars
  BY <1>19
  DEF vars, books, exit, history, IInv, ExitInv, TypeOK, Places
<1>20. QED
  BY <1>1, <1>2, <1>3, <1>4, <1>5, <1>6, <1>7, <1>8, <1>9, <1>10,
     <1>11, <1>12, <1>13, <1>14, <1>15, <1>16, <1>17, <1>18, <1>19 DEF Next, ExitStep

\* What an exit wrote is what the next start would adopt, unless it was lost.
LEMMA WrittenWins ==
  ASSUME IInv, phase = "up", exitAt = "leave", header.at \notin lost
  PROVE  WinnerIs(header.at, file["local"], file["root"])
<1>1. header # NoFile /\ header.at \in restarts /\ \E p \in Places : file[p] = header
  BY DEF IInv, ExitInv
<1>2. PICK p \in Places : file[p] = header
  BY <1>1
<1>3. \A q \in Places : file[q] # NoFile => file[q] = header \/ file[q].at < header.at
  BY <1>1 DEF IInv, AgeInv
<1>4. header.at \in Nat /\ \A q \in Places : file[q] # NoFile => file[q].at \in Nat
  BY <1>1 DEF IInv, TypeOK, Headers
<1>5. CASE p = "local"
  BY <1>1, <1>2, <1>3, <1>4, <1>5 DEF WinnerIs, Newer, Places
<1>6. CASE p = "root"
  BY <1>1, <1>2, <1>3, <1>4, <1>6 DEF WinnerIs, Newer, Places
<1>7. QED  BY <1>2, <1>5, <1>6 DEF Places

\* Every step keeps a live restart on record.
LEMMA RecordStep ==
  IInv /\ TypeOK' /\ [Next]_vars => RecordInv'
<1> SUFFICES ASSUME IInv, TypeOK', [Next]_vars
             PROVE  RecordInv'
  OBVIOUS
<1>1. CASE Tick
  <2>1. UNCHANGED <<taken, file, restarted, lost, restarts, latched>>
    BY <1>1 DEF Tick, books, history
  <2>2. ASSUME NEW t \in restarted, Live(t)' PROVE Live(t)
    <3>1. now' = now + 1 /\ now \in Nat /\ t \in Nat /\ Cooldown \in Nat
      BY <1>1, RestartAssumption DEF Tick, IInv, TypeOK
    <3>2. QED  BY <2>1, <2>2, <3>1 DEF Live
  <2>3. phase' = phase
    BY <1>1 DEF Tick
  <2>4. QED  BY <2>1, <2>2, <2>3 DEF IInv, RecordInv
<1>2. CASE Start
  <2>1. UNCHANGED <<taken, file, restarted, lost, restarts, latched>>
    BY <1>2 DEF Start, books, history
  <2>2. ASSUME NEW t \in restarted, Live(t)' PROVE Live(t)
    <3>1. now' = now + 1 /\ now \in Nat /\ t \in Nat /\ Cooldown \in Nat
      BY <1>2, RestartAssumption DEF Start, IInv, TypeOK
    <3>2. QED  BY <2>1, <2>2, <3>1 DEF Live
  <2>3. phase = "down" /\ phase' = "taking"
    BY <1>2 DEF Start
  <2>4. QED  BY <2>1, <2>2, <2>3 DEF IInv, RecordInv
<1>3. CASE TakeLocal
  <2>1. PICK readable \in BOOLEAN, aside \in BOOLEAN :
          /\ taken' = [taken EXCEPT !["local"] =
                         IF readable THEN file["local"] ELSE NoFile]
          /\ file' = [file EXCEPT !["local"] = IF aside THEN NoFile ELSE @]
          /\ lost' = IF readable THEN lost ELSE lost \union StampsOf(file["local"])
    BY <1>3, Zenon DEF TakeLocal, Take
  <2>2. /\ phase = "taking" /\ phase' = "taking root" /\ latched' = FALSE
        /\ UNCHANGED <<now, restarted>>
    BY <1>3 DEF TakeLocal, Take, books, IInv, ExitInv, TypeOK
  <2>3. taken'["local"] = (IF readable THEN file["local"] ELSE NoFile)
    BY <2>1 DEF IInv, TypeOK, Places
  <2>4. file'["root"] = file["root"] /\ file'["local"] \in {file["local"], NoFile}
    BY <2>1 DEF IInv, TypeOK, Places
  <2>5. ASSUME NEW t \in restarted', Live(t)'
        PROVE  /\ WinnerIs(t, taken'["local"], file'["root"])
               /\ file'["local"] # NoFile =>
                    WinnerIs(t, file'["local"], file'["root"])
    <3>1. t \in restarted /\ Live(t) /\ t \notin lost'
      BY <2>1, <2>2, <2>5 DEF Live
    <3>2. WinnerIs(t, file["local"], file["root"])
      BY <2>2, <3>1 DEF IInv, RecordInv
    <3>3. t \notin StampsOf(file["local"]) => WinnerIs(t, NoFile, file["root"])
      BY <3>2, WinnerStays DEF IInv, HeadersInv, Places
    <3>4. ~readable => t \notin StampsOf(file["local"])
      BY <2>1, <3>1
    <3>5. QED  BY <2>3, <2>4, <3>2, <3>3, <3>4
  <2>6. QED  BY <2>2, <2>5 DEF RecordInv
<1>4. CASE TakeRoot
  <2>1. PICK readable \in BOOLEAN :
          /\ taken' = [taken EXCEPT !["root"] =
                         IF readable THEN file["root"] ELSE NoFile]
          /\ lost' = IF readable THEN lost ELSE lost \union StampsOf(file["root"])
    BY <1>4, Zenon DEF TakeRoot, Take
  <2>2. /\ phase = "taking root" /\ phase' = "adopting" /\ latched' = FALSE
        /\ UNCHANGED <<now, restarted>>
    BY <1>4 DEF TakeRoot, Take, books, IInv, ExitInv, TypeOK
  <2>3. /\ taken'["root"] = (IF readable THEN file["root"] ELSE NoFile)
        /\ taken'["local"] = taken["local"]
    BY <2>1 DEF IInv, TypeOK, Places
  <2>4. ASSUME NEW t \in restarted', Live(t)'
        PROVE  WinnerIs(t, taken'["local"], taken'["root"])
    <3>1. t \in restarted /\ Live(t) /\ t \notin lost'
      BY <2>1, <2>2, <2>4 DEF Live
    <3>2. WinnerIs(t, taken["local"], file["root"])
      BY <2>2, <3>1 DEF IInv, RecordInv
    <3>3. t \notin StampsOf(file["root"]) => WinnerIs(t, taken["local"], NoFile)
      BY <3>2, WinnerStays DEF IInv, HeadersInv, Places
    <3>4. ~readable => t \notin StampsOf(file["root"])
      BY <2>1, <3>1
    <3>5. QED  BY <2>3, <3>2, <3>3, <3>4
  <2>5. QED  BY <2>2, <2>4 DEF RecordInv
<1>5. CASE Adopt
  <2> DEFINE news == Newer(taken["local"], taken["root"])
             young == {u \in StampsOf(news) : now - u < Day}
  <2>1. /\ phase = "adopting" /\ phase' = "up" /\ latched' = FALSE
        /\ restarts' = Newest(young)
        /\ UNCHANGED <<now, restarted, lost>>
    BY <1>5 DEF Adopt, IInv, ExitInv, TypeOK
  <2>2. HeaderOK(news, now)
    BY DEF IInv, HeadersInv, Newer, Places
  <2>3. ASSUME NEW t \in restarted', Live(t)' PROVE t \in restarts'
    <3>1. t \in restarted /\ Live(t) /\ t \in Nat
      BY <2>1, <2>3 DEF Live, IInv, TypeOK
    <3>2. news # NoFile /\ news.at = t
      BY <2>1, <3>1 DEF IInv, RecordInv, WinnerIs
    <3>3. /\ StampsOf(news) \in SUBSET Nat /\ t \in StampsOf(news)
          /\ \A u \in StampsOf(news) : u <= t
      BY <2>2, <3>2 DEF HeaderOK, StampsOf, Headers
    <3> HIDE DEF news
    <3>4. t \in young
      <4>1. now \in Nat /\ Cooldown \in Nat /\ Day \in Nat /\ Cooldown <= Day
        BY RestartAssumption DEF IInv, TypeOK
      <4>2. QED  BY <3>1, <3>3, <4>1 DEF Live
    <3>5. young \in SUBSET Nat /\ \A u \in young : u <= t
      BY <3>3
    <3> HIDE DEF young
    <3>6. QED  BY <2>1, <3>4, <3>5, NewestKeepsTheLast
  <2>4. QED  BY <2>1, <2>3 DEF RecordInv
<1>6. CASE Fail
  <2>1. /\ phase = "up" /\ phase' = "up"
        /\ UNCHANGED <<now, restarts, restarted, lost>>
    BY <1>6 DEF Fail, history
  <2>2. \A t \in restarted : Live(t) => t \in restarts
    BY <2>1 DEF IInv, RecordInv
  <2>3. latched' => latched \/ \A t \in restarts : now - t >= Cooldown
    BY <1>6 DEF Fail, MustRestart
  <2>4. ASSUME latched', NEW t \in restarted PROVE ~Live(t)
    <3>1. CASE latched
      BY <3>1 DEF IInv, RecordInv
    <3>2. CASE \A u \in restarts : now - u >= Cooldown
      <4>1. now \in Nat /\ t \in Nat /\ Cooldown \in Nat
        BY RestartAssumption DEF IInv, TypeOK
      <4>2. QED  BY <2>2, <3>2, <4>1 DEF Live
    <3>3. QED  BY <2>3, <2>4, <3>1, <3>2
  <2>5. \A t : Live(t)' <=> Live(t)
    BY <2>1 DEF Live
  <2>6. QED  BY <2>1, <2>2, <2>4, <2>5 DEF RecordInv
<1>7. CASE TokenProduced
  BY <1>7
  DEF TokenProduced, books, exit, history, IInv, RecordInv, ExitInv, TypeOK, Live
<1>8. CASE BeginExit
  BY <1>8
  DEF BeginExit, books, exit, history, IInv, RecordInv, ExitInv, TypeOK, Live
<1>9. CASE Announce
  BY <1>9
  DEF Announce, At, books, exit, history, IInv, RecordInv, ExitInv, TypeOK, Live
<1>10. CASE Stamp
  BY <1>10
  DEF Stamp, At, books, exit, history, IInv, RecordInv, ExitInv, TypeOK, Live
<1>11. CASE WriteLocal
  BY <1>11
  DEF WriteLocal, At, books, exit, history, IInv, RecordInv, ExitInv, TypeOK, Live
<1>12. CASE FallBack
  BY <1>12
  DEF FallBack, At, books, exit, history, IInv, RecordInv, ExitInv, TypeOK, Live
<1>13. CASE Leave
  <2>1. /\ phase = "up" /\ exitAt = "leave" /\ latched
        /\ phase' = "down" /\ latched' = FALSE
        /\ restarted' = restarted \union {header.at}
        /\ UNCHANGED <<now, file, lost>>
    BY <1>13 DEF Leave, Gone, At, IInv, ExitInv
  <2>2. ASSUME NEW t \in restarted', Live(t)'
        PROVE  WinnerIs(t, file["local"], file["root"])
    <3>1. t \notin lost /\ (t \in restarted => Live(t))
      BY <2>1, <2>2 DEF Live
    <3>2. t = header.at
      BY <2>1, <2>2, <3>1 DEF IInv, RecordInv
    <3>3. QED  BY <2>1, <3>1, <3>2, WrittenWins
  <2>3. QED  BY <2>1, <2>2 DEF RecordInv
<1>14. CASE LateCopy
  BY <1>14
  DEF LateCopy, books, exit, history, IInv, RecordInv, ExitInv, TypeOK, Live
<1>15. CASE Stall
  BY <1>15
  DEF Stall, At, books, exit, history, IInv, RecordInv, ExitInv, TypeOK, Live
<1>16. CASE WatchdogFires
  <2> DEFINE stamp == IF header = NoFile THEN now ELSE header.at
  <2>1. /\ phase = "up" /\ latched
        /\ phase' = "down" /\ latched' = FALSE
        /\ restarted' = restarted \union {stamp}
        /\ lost' = (IF exitAt = "leave" THEN lost
                   ELSE lost \union restarts \union {stamp})
        /\ UNCHANGED <<now, file>>
    BY <1>16 DEF WatchdogFires, Gone, IInv, ExitInv
  <2>2. exitAt = "leave" => stamp = header.at
    BY DEF IInv, ExitInv
  <2> HIDE DEF stamp
  <2>3. ASSUME NEW t \in restarted', Live(t)'
        PROVE  WinnerIs(t, file["local"], file["root"])
    <3>1. t \notin lost /\ t \notin lost' /\ (t \in restarted => Live(t))
      BY <2>1, <2>3 DEF Live
    <3>2. t = stamp /\ exitAt = "leave"
      BY <2>1, <2>3, <3>1 DEF IInv, RecordInv
    <3>3. QED  BY <2>1, <2>2, <3>1, <3>2, WrittenWins
  <2>4. QED  BY <2>1, <2>3 DEF RecordInv
<1>17. CASE Die
  <2>1. /\ phase' = "down" /\ latched' = FALSE /\ phase # "down"
        /\ lost' = lost \union restarts
                       \union UNION {StampsOf(taken[p]) : p \in Places}
        /\ UNCHANGED <<now, file, restarted>>
    BY <1>17 DEF Die, Gone
  <2>2. ASSUME NEW t \in restarted', Live(t)'
        PROVE  WinnerIs(t, file["local"], file["root"])
    <3>1. /\ t \in restarted /\ Live(t) /\ t \notin restarts
          /\ t \notin StampsOf(taken["local"]) /\ t \notin StampsOf(taken["root"])
      BY <2>1, <2>2 DEF Live, Places
    <3>2. CASE phase = "up"
      BY <3>1, <3>2 DEF IInv, RecordInv
    <3>3. CASE phase = "taking"
      BY <3>1, <3>3 DEF IInv, RecordInv
    <3>4. CASE phase = "taking root"
      <4>1. /\ WinnerIs(t, taken["local"], file["root"])
            /\ file["local"] # NoFile => WinnerIs(t, file["local"], file["root"])
        BY <3>1, <3>4 DEF IInv, RecordInv
      <4>2. WinnerIs(t, NoFile, file["root"])
        BY <3>1, <4>1, WinnerStays DEF IInv, HeadersInv, Places
      <4>3. QED  BY <4>1, <4>2
    <3>5. CASE phase = "adopting"
      <4>1. WinnerIs(t, taken["local"], taken["root"])
        BY <3>1, <3>5 DEF IInv, RecordInv
      <4>2. QED  BY <3>1, <4>1, WinnerStays DEF IInv, HeadersInv, Places
    <3>6. QED  BY <2>1, <3>2, <3>3, <3>4, <3>5 DEF IInv, TypeOK, Phases
  <2>3. QED  BY <2>1, <2>2 DEF RecordInv
<1>18. CASE Deploy
  <2>1. /\ phase = "down" /\ phase' = "down" /\ latched' = FALSE
        /\ lost' = lost \union StampsOf(file["local"])
        /\ UNCHANGED <<now, restarted>>
    BY <1>18 DEF Deploy, books, IInv, ExitInv, TypeOK
  <2>2. file'["local"] = NoFile /\ file'["root"] = file["root"]
    BY <1>18 DEF Deploy, IInv, TypeOK, Places
  <2>3. ASSUME NEW t \in restarted', Live(t)'
        PROVE  WinnerIs(t, file'["local"], file'["root"])
    <3>1. t \in restarted /\ Live(t) /\ t \notin StampsOf(file["local"])
      BY <2>1, <2>3 DEF Live
    <3>2. WinnerIs(t, file["local"], file["root"])
      BY <2>1, <3>1 DEF IInv, RecordInv
    <3>3. WinnerIs(t, NoFile, file["root"])
      BY <3>1, <3>2, WinnerStays DEF IInv, HeadersInv, Places
    <3>4. QED  BY <2>2, <3>3
  <2>4. QED  BY <2>1, <2>3 DEF RecordInv
<1>19. CASE UNCHANGED vars
  BY <1>19
  DEF vars, books, exit, history, IInv, RecordInv, ExitInv, TypeOK, Live
<1>20. QED
  BY <1>1, <1>2, <1>3, <1>4, <1>5, <1>6, <1>7, <1>8, <1>9, <1>10,
     <1>11, <1>12, <1>13, <1>14, <1>15, <1>16, <1>17, <1>18, <1>19 DEF Next, ExitStep


\* The invariant of the restart budget (recovery.rs, supervise_with to
\* run_exit): it holds in every reachable state, over any number of processes,
\* for every cooldown, day and cap.
THEOREM BudgetInvariance ==
  Spec => []IInv
<1>1. Init => IInv
  BY InitIInv
<1>2. IInv /\ [Next]_vars => IInv'
  <2> SUFFICES ASSUME IInv, [Next]_vars PROVE IInv'  OBVIOUS
  <2>1. TypeOK'
    BY TypeStep DEF IInv
  <2>2. HeadersInv' /\ AgeInv' /\ ExitInv' /\ RecordInv'
    BY <2>1, HeadersStep, AgeStep, ExitStepKeeps, RecordStep
  <2>3. QED  BY <2>1, <2>2 DEF IInv
<1>3. QED  BY <1>1, <1>2, PTL DEF Spec

\* A process decides to restart itself at most once per cooldown, over crashes,
\* deploys, disks that refuse and files that cannot be set aside, as long as
\* the record of the last restart was not lost to one of them.
THEOREM BudgetIsKept ==
  Spec => BudgetHolds
<1>1. ASSUME IInv, [Next]_vars, latched', ~latched, NEW t \in restarted \ lost
      PROVE  now - t >= Cooldown
  <2>1. CASE Fail
    <3>1. phase = "up" /\ \A u \in restarts : now - u >= Cooldown
      BY <1>1, <2>1 DEF Fail, MustRestart
    <3>2. Live(t) => t \in restarts
      BY <1>1, <3>1 DEF IInv, RecordInv
    <3>3. now \in Nat /\ t \in Nat /\ Cooldown \in Nat
      BY <1>1, RestartAssumption DEF IInv, TypeOK
    <3>4. QED  BY <1>1, <3>1, <3>2, <3>3 DEF Live
  <2>2. CASE ~Fail
    BY <1>1, <2>2
    DEF Next, ExitStep, Tick, Start, TakeLocal, TakeRoot, Take, Adopt, TokenProduced,
        BeginExit, Announce, Stamp, WriteLocal, FallBack, Leave, LateCopy, Stall,
        WatchdogFires, Die, Deploy, Gone, books, vars
  <2>3. QED  BY <2>1, <2>2
<1>2. IInv /\ [Next]_vars =>
        [latched' /\ ~latched => \A t \in restarted \ lost : now - t >= Cooldown]_vars
  BY <1>1
<1>3. QED  BY BudgetInvariance, <1>2, PTL DEF Spec, BudgetHolds

-----------------------------------------------------------------------------
\* What a start sets aside comes back for news only if it stayed.

\* What was adopted is of the past, and before anything that can be stamped.
PastInv ==
    /\ \A a \in adopted : a <= now
    /\ phase # "down" /\ header = NoFile => \A a \in adopted : a < now
    /\ header # NoFile => header.at \notin adopted

\* A file that was adopted and is still there could not be set aside.
KeptInv ==
    \A p \in Places : file[p] # NoFile /\ file[p].at \in adopted =>
        file[p].at \in kept

\* What was taken is of the past, and kept if it was adopted or is still there.
TakenInv ==
    \A p \in Places : taken[p] # NoFile =>
        /\ phase \in {"taking root", "adopting"}
        /\ taken[p].at < now
        /\ taken[p].at \in adopted => taken[p].at \in kept
        /\ file[p] # NoFile => file[p].at \in kept

\* An exit's header is in no place before it is written there.
UnwrittenInv ==
    /\ exitAt \in {"write", "fall back"} => \A p \in Places : file[p] # header
    /\ copying => file["local"] # header

\* The two places never hold the same exit.
ApartInv ==
    \A p, q \in Places : p # q =>
        /\ file[p] # NoFile /\ file[q] # NoFile => file[p].at # file[q].at
        /\ taken[p] # NoFile /\ file[q] # NoFile => taken[p].at # file[q].at
        /\ taken[p] # NoFile /\ taken[q] # NoFile => taken[p].at # taken[q].at

NewsInv == PastInv /\ KeptInv /\ TakenInv /\ UnwrittenInv /\ ApartInv

\* It holds when nothing has started yet.
LEMMA InitNews == Init => NewsInv
BY DEF Init, NewsInv, PastInv, KeptInv, TakenInv, UnwrittenInv, ApartInv

\* Every step keeps what was adopted in the past.
LEMMA PastStep ==
  IInv /\ NewsInv /\ TypeOK' /\ [Next]_vars => PastInv'
<1> SUFFICES ASSUME IInv, NewsInv, TypeOK', [Next]_vars
             PROVE  PastInv'
  OBVIOUS
<1>1. CASE Tick
  <2>1. now \in Nat /\ now' = now + 1 /\ adopted \in SUBSET Nat
    BY <1>1 DEF Tick, IInv, TypeOK
  <2>2. UNCHANGED <<adopted, phase, header>>
    BY <1>1 DEF Tick, exit, history
  <2>3. QED  BY <2>1, <2>2 DEF NewsInv, PastInv
<1>2. CASE Start
  BY <1>2
  DEF Start, books, exit, history, IInv, TypeOK, ExitInv, NewsInv, PastInv
<1>3. CASE TakeLocal
  BY <1>3
  DEF TakeLocal, Take, books, exit, history, IInv, TypeOK, ExitInv, NewsInv, PastInv
<1>4. CASE TakeRoot
  BY <1>4
  DEF TakeRoot, Take, books, exit, history, IInv, TypeOK, ExitInv, NewsInv, PastInv
<1>5. CASE Adopt
  <2> DEFINE news == Newer(taken["local"], taken["root"])
  <2>1. news # NoFile => news.at < now
    BY NewerIsOneOfThem DEF NewsInv, TakenInv, Places
  <2>2. news # NoFile => news.at \in Nat
    BY NewerIsOneOfThem DEF IInv, TypeOK, Headers, Places
  <2>3. adopted' = IF news = NoFile THEN adopted ELSE adopted \union {news.at}
    BY <1>5 DEF Adopt
  <2>4. UNCHANGED <<now, header>> /\ phase # "down" /\ header = NoFile
    BY <1>5 DEF Adopt, exit, IInv, ExitInv
  <2> HIDE DEF news
  <2>5. QED  BY <2>1, <2>2, <2>3, <2>4 DEF NewsInv, PastInv, IInv, TypeOK
<1>6. CASE Fail
  BY <1>6
  DEF Fail, books, exit, history, IInv, TypeOK, ExitInv, NewsInv, PastInv
<1>7. CASE TokenProduced
  BY <1>7
  DEF TokenProduced, books, exit, history, IInv, TypeOK, ExitInv, NewsInv, PastInv
<1>8. CASE BeginExit
  BY <1>8
  DEF BeginExit, books, exit, history, IInv, TypeOK, ExitInv, NewsInv, PastInv
<1>9. CASE Announce
  BY <1>9
  DEF Announce, At, books, exit, history, IInv, TypeOK, ExitInv, NewsInv, PastInv
<1>10. CASE Stamp
  BY <1>10
  DEF Stamp, At, books, exit, history, IInv, TypeOK, ExitInv, NewsInv, PastInv
<1>11. CASE WriteLocal
  BY <1>11
  DEF WriteLocal, At, books, exit, history, IInv, TypeOK, ExitInv, NewsInv, PastInv
<1>12. CASE FallBack
  BY <1>12
  DEF FallBack, At, books, exit, history, IInv, TypeOK, ExitInv, NewsInv, PastInv
<1>13. CASE Leave
  BY <1>13
  DEF Leave, At, Gone, books, exit, history, IInv, TypeOK, ExitInv, NewsInv, PastInv
<1>14. CASE LateCopy
  BY <1>14
  DEF LateCopy, books, exit, history, IInv, TypeOK, ExitInv, NewsInv, PastInv
<1>15. CASE Stall
  BY <1>15
  DEF Stall, At, books, exit, history, IInv, TypeOK, ExitInv, NewsInv, PastInv
<1>16. CASE WatchdogFires
  BY <1>16
  DEF WatchdogFires, Gone, books, exit, history, IInv, TypeOK, ExitInv, NewsInv, PastInv
<1>17. CASE Die
  BY <1>17
  DEF Die, Gone, books, exit, history, IInv, TypeOK, ExitInv, NewsInv, PastInv
<1>18. CASE Deploy
  BY <1>18
  DEF Deploy, books, exit, history, IInv, TypeOK, ExitInv, NewsInv, PastInv
<1>19. CASE UNCHANGED vars
  BY <1>19
  DEF vars, books, exit, history, IInv, TypeOK, ExitInv, NewsInv, PastInv
<1>20. QED
  BY <1>1, <1>2, <1>3, <1>4, <1>5, <1>6, <1>7, <1>8, <1>9, <1>10,
     <1>11, <1>12, <1>13, <1>14, <1>15, <1>16, <1>17, <1>18, <1>19 DEF Next, ExitStep

\* Every step leaves an adopted file only where it was kept.
LEMMA KeptStep ==
  IInv /\ NewsInv /\ TypeOK' /\ [Next]_vars => KeptInv'
<1> SUFFICES ASSUME IInv, NewsInv, TypeOK', [Next]_vars
             PROVE  KeptInv'
  OBVIOUS
<1>1. CASE Tick
  BY <1>1
  DEF Tick, books, exit, history, IInv, TypeOK, ExitInv, NewsInv, KeptInv, PastInv, Places
<1>2. CASE Start
  BY <1>2
  DEF Start, books, exit, history, IInv, TypeOK, ExitInv, NewsInv, KeptInv, PastInv, Places
<1>3. CASE TakeLocal
  BY <1>3
  DEF TakeLocal, Take, books, exit, history, IInv, TypeOK, ExitInv, NewsInv, KeptInv, PastInv, Places
<1>4. CASE TakeRoot
  BY <1>4
  DEF TakeRoot, Take, books, exit, history, IInv, TypeOK, ExitInv, NewsInv, KeptInv, PastInv, Places
<1>5. CASE Adopt
  <2> DEFINE news == Newer(taken["local"], taken["root"])
  <2>1. ASSUME NEW p \in Places, news # NoFile, file[p] # NoFile,
               file[p].at = news.at
        PROVE  file[p].at \in kept
    <3>1. PICK q \in Places : taken[q] = news
      BY NewerIsOneOfThem DEF Places
    <3>2. q = p
      BY <2>1, <3>1 DEF NewsInv, ApartInv
    <3>3. QED  BY <2>1, <3>1, <3>2 DEF NewsInv, TakenInv
  <2>2. adopted' = IF news = NoFile THEN adopted ELSE adopted \union {news.at}
    BY <1>5 DEF Adopt
  <2>3. UNCHANGED <<file, kept>>
    BY <1>5 DEF Adopt
  <2> HIDE DEF news
  <2>4. QED  BY <2>1, <2>2, <2>3 DEF NewsInv, KeptInv
<1>6. CASE Fail
  BY <1>6
  DEF Fail, books, exit, history, IInv, TypeOK, ExitInv, NewsInv, KeptInv, PastInv, Places
<1>7. CASE TokenProduced
  BY <1>7
  DEF TokenProduced, books, exit, history, IInv, TypeOK, ExitInv, NewsInv, KeptInv, PastInv, Places
<1>8. CASE BeginExit
  BY <1>8
  DEF BeginExit, books, exit, history, IInv, TypeOK, ExitInv, NewsInv, KeptInv, PastInv, Places
<1>9. CASE Announce
  BY <1>9
  DEF Announce, At, books, exit, history, IInv, TypeOK, ExitInv, NewsInv, KeptInv, PastInv, Places
<1>10. CASE Stamp
  BY <1>10
  DEF Stamp, At, books, exit, history, IInv, TypeOK, ExitInv, NewsInv, KeptInv, PastInv, Places
<1>11. CASE WriteLocal
  BY <1>11
  DEF WriteLocal, At, books, exit, history, IInv, TypeOK, ExitInv, NewsInv, KeptInv, PastInv, Places
<1>12. CASE FallBack
  BY <1>12
  DEF FallBack, At, books, exit, history, IInv, TypeOK, ExitInv, NewsInv, KeptInv, PastInv, Places
<1>13. CASE Leave
  BY <1>13
  DEF Leave, At, Gone, books, exit, history, IInv, TypeOK, ExitInv, NewsInv, KeptInv, PastInv, Places
<1>14. CASE LateCopy
  BY <1>14
  DEF LateCopy, books, exit, history, IInv, TypeOK, ExitInv, NewsInv, KeptInv, PastInv, Places
<1>15. CASE Stall
  BY <1>15
  DEF Stall, At, books, exit, history, IInv, TypeOK, ExitInv, NewsInv, KeptInv, PastInv, Places
<1>16. CASE WatchdogFires
  BY <1>16
  DEF WatchdogFires, Gone, books, exit, history, IInv, TypeOK, ExitInv, NewsInv, KeptInv, PastInv, Places
<1>17. CASE Die
  BY <1>17
  DEF Die, Gone, books, exit, history, IInv, TypeOK, ExitInv, NewsInv, KeptInv, PastInv, Places
<1>18. CASE Deploy
  BY <1>18
  DEF Deploy, books, exit, history, IInv, TypeOK, ExitInv, NewsInv, KeptInv, PastInv, Places
<1>19. CASE UNCHANGED vars
  BY <1>19
  DEF vars, books, exit, history, IInv, TypeOK, ExitInv, NewsInv, KeptInv, PastInv, Places
<1>20. QED
  BY <1>1, <1>2, <1>3, <1>4, <1>5, <1>6, <1>7, <1>8, <1>9, <1>10,
     <1>11, <1>12, <1>13, <1>14, <1>15, <1>16, <1>17, <1>18, <1>19 DEF Next, ExitStep

\* Every step takes only what is past.
LEMMA TakenStep ==
  IInv /\ NewsInv /\ TypeOK' /\ [Next]_vars => TakenInv'
<1> SUFFICES ASSUME IInv, NewsInv, TypeOK', [Next]_vars
             PROVE  TakenInv'
  OBVIOUS
<1>1. CASE Tick
  <2>1. now \in Nat /\ now' = now + 1 /\ UNCHANGED <<phase, taken, file, adopted, kept>>
    BY <1>1 DEF Tick, IInv, TypeOK, history
  <2>2. \A p \in Places : taken[p] # NoFile => taken[p].at \in Nat
    <3>1. taken \in [Places -> Headers \union {NoFile}]
      BY DEF IInv, TypeOK
    <3>2. \A h \in Headers : h.at \in Nat
      BY DEF Headers
    <3>3. \A p \in Places : taken[p] # NoFile => taken[p] \in Headers
      BY <3>1
    <3>4. QED  BY <3>2, <3>3
  <2>3. \A p \in Places : taken[p] # NoFile => taken[p].at < now'
    <3>1. \A p \in Places : taken[p] # NoFile => taken[p].at < now
      BY DEF NewsInv, TakenInv
    <3>2. \A n \in Nat : n < now => n < now'
      BY <2>1
    <3>3. QED  BY <2>2, <3>1, <3>2
  <2>4. QED  BY <2>1, <2>3 DEF NewsInv, TakenInv
<1>2. CASE Start
  BY <1>2
  DEF Start, books, exit, history, IInv, TypeOK, ExitInv, NewsInv, TakenInv, Places
<1>3. CASE TakeLocal
  <2>1. /\ phase = "taking" /\ phase' = "taking root"
        /\ UNCHANGED <<now, adopted>> /\ header = NoFile
    BY <1>3 DEF TakeLocal, Take, IInv, ExitInv
  <2>2. PICK readable \in BOOLEAN, aside \in BOOLEAN :
          /\ taken' = [taken EXCEPT !["local"] = IF readable THEN file["local"] ELSE NoFile]
          /\ file' = [file EXCEPT !["local"] = IF aside THEN NoFile ELSE @]
          /\ kept' = IF aside \/ file["local"] = NoFile THEN kept
                     ELSE kept \union {file["local"].at}
    BY <1>3 DEF TakeLocal, Take
  <2>3. /\ taken'["local"] \in {file["local"], NoFile} /\ taken'["root"] = taken["root"]
        /\ file'["local"] \in {file["local"], NoFile} /\ file'["root"] = file["root"]
        /\ kept \subseteq kept'
        /\ file'["local"] # NoFile => file'["local"].at \in kept'
    BY <2>2 DEF IInv, TypeOK, Places
  <2>4. file["local"] # NoFile => file["local"].at < now
    BY <2>1 DEF IInv, AgeInv, Places
  <2>5. taken'["local"] # NoFile =>
          /\ taken'["local"].at < now
          /\ taken'["local"].at \in adopted => taken'["local"].at \in kept'
    BY <2>3, <2>4 DEF NewsInv, KeptInv, Places
  <2>6. taken["root"] # NoFile =>
          /\ phase \in {"taking root", "adopting"}
          /\ taken["root"].at < now
          /\ taken["root"].at \in adopted => taken["root"].at \in kept
          /\ file["root"] # NoFile => file["root"].at \in kept
    BY DEF NewsInv, TakenInv, Places
  <2>7. QED  BY <2>1, <2>3, <2>5, <2>6 DEF TakenInv, Places
<1>4. CASE TakeRoot
  <2>1. /\ phase = "taking root" /\ phase' = "adopting"
        /\ UNCHANGED <<now, adopted>> /\ header = NoFile
    BY <1>4 DEF TakeRoot, Take, IInv, ExitInv
  <2>2. PICK readable \in BOOLEAN, aside \in BOOLEAN :
          /\ taken' = [taken EXCEPT !["root"] = IF readable THEN file["root"] ELSE NoFile]
          /\ file' = [file EXCEPT !["root"] = IF aside THEN NoFile ELSE @]
          /\ kept' = IF aside \/ file["root"] = NoFile THEN kept
                     ELSE kept \union {file["root"].at}
    BY <1>4 DEF TakeRoot, Take
  <2>3. /\ taken'["root"] \in {file["root"], NoFile} /\ taken'["local"] = taken["local"]
        /\ file'["root"] \in {file["root"], NoFile} /\ file'["local"] = file["local"]
        /\ kept \subseteq kept'
        /\ file'["root"] # NoFile => file'["root"].at \in kept'
    BY <2>2 DEF IInv, TypeOK, Places
  <2>4. file["root"] # NoFile => file["root"].at < now
    BY <2>1 DEF IInv, AgeInv, Places
  <2>5. taken'["root"] # NoFile =>
          /\ taken'["root"].at < now
          /\ taken'["root"].at \in adopted => taken'["root"].at \in kept'
    BY <2>3, <2>4 DEF NewsInv, KeptInv, Places
  <2>6. taken["local"] # NoFile =>
          /\ phase \in {"taking root", "adopting"}
          /\ taken["local"].at < now
          /\ taken["local"].at \in adopted => taken["local"].at \in kept
          /\ file["local"] # NoFile => file["local"].at \in kept
    BY DEF NewsInv, TakenInv, Places
  <2>7. QED  BY <2>1, <2>3, <2>5, <2>6 DEF TakenInv, Places
<1>5. CASE Adopt
  BY <1>5
  DEF Adopt, books, exit, history, IInv, TypeOK, ExitInv, NewsInv, TakenInv, Places
<1>6. CASE Fail
  BY <1>6
  DEF Fail, books, exit, history, IInv, TypeOK, ExitInv, NewsInv, TakenInv, Places
<1>7. CASE TokenProduced
  BY <1>7
  DEF TokenProduced, books, exit, history, IInv, TypeOK, ExitInv, NewsInv, TakenInv, Places
<1>8. CASE BeginExit
  BY <1>8
  DEF BeginExit, books, exit, history, IInv, TypeOK, ExitInv, NewsInv, TakenInv, Places
<1>9. CASE Announce
  BY <1>9
  DEF Announce, At, books, exit, history, IInv, TypeOK, ExitInv, NewsInv, TakenInv, Places
<1>10. CASE Stamp
  BY <1>10
  DEF Stamp, At, books, exit, history, IInv, TypeOK, ExitInv, NewsInv, TakenInv, Places
<1>11. CASE WriteLocal
  BY <1>11
  DEF WriteLocal, At, books, exit, history, IInv, TypeOK, ExitInv, NewsInv, TakenInv, Places
<1>12. CASE FallBack
  BY <1>12
  DEF FallBack, At, books, exit, history, IInv, TypeOK, ExitInv, NewsInv, TakenInv, Places
<1>13. CASE Leave
  BY <1>13
  DEF Leave, At, Gone, books, exit, history, IInv, TypeOK, ExitInv, NewsInv, TakenInv, Places
<1>14. CASE LateCopy
  BY <1>14
  DEF LateCopy, books, exit, history, IInv, TypeOK, ExitInv, NewsInv, TakenInv, Places
<1>15. CASE Stall
  BY <1>15
  DEF Stall, At, books, exit, history, IInv, TypeOK, ExitInv, NewsInv, TakenInv, Places
<1>16. CASE WatchdogFires
  BY <1>16
  DEF WatchdogFires, Gone, books, exit, history, IInv, TypeOK, ExitInv, NewsInv, TakenInv, Places
<1>17. CASE Die
  BY <1>17
  DEF Die, Gone, books, exit, history, IInv, TypeOK, ExitInv, NewsInv, TakenInv, Places
<1>18. CASE Deploy
  BY <1>18
  DEF Deploy, books, exit, history, IInv, TypeOK, ExitInv, NewsInv, TakenInv, Places
<1>19. CASE UNCHANGED vars
  BY <1>19
  DEF vars, books, exit, history, IInv, TypeOK, ExitInv, NewsInv, TakenInv, Places
<1>20. QED
  BY <1>1, <1>2, <1>3, <1>4, <1>5, <1>6, <1>7, <1>8, <1>9, <1>10,
     <1>11, <1>12, <1>13, <1>14, <1>15, <1>16, <1>17, <1>18, <1>19 DEF Next, ExitStep

\* Every step writes a header where it says.
LEMMA UnwrittenStep ==
  IInv /\ NewsInv /\ TypeOK' /\ [Next]_vars => UnwrittenInv'
<1> SUFFICES ASSUME IInv, NewsInv, TypeOK', [Next]_vars
             PROVE  UnwrittenInv'
  OBVIOUS
<1>1. CASE Tick
  BY <1>1
  DEF Tick, books, exit, history, IInv, TypeOK, ExitInv, NewsInv, UnwrittenInv, Places
<1>2. CASE Start
  BY <1>2
  DEF Start, books, exit, history, IInv, TypeOK, ExitInv, NewsInv, UnwrittenInv, Places
<1>3. CASE TakeLocal
  BY <1>3
  DEF TakeLocal, Take, books, exit, history, IInv, TypeOK, ExitInv, NewsInv, UnwrittenInv, Places
<1>4. CASE TakeRoot
  BY <1>4
  DEF TakeRoot, Take, books, exit, history, IInv, TypeOK, ExitInv, NewsInv, UnwrittenInv, Places
<1>5. CASE Adopt
  BY <1>5
  DEF Adopt, books, exit, history, IInv, TypeOK, ExitInv, NewsInv, UnwrittenInv, Places
<1>6. CASE Fail
  BY <1>6
  DEF Fail, books, exit, history, IInv, TypeOK, ExitInv, NewsInv, UnwrittenInv, Places
<1>7. CASE TokenProduced
  BY <1>7
  DEF TokenProduced, books, exit, history, IInv, TypeOK, ExitInv, NewsInv, UnwrittenInv, Places
<1>8. CASE BeginExit
  BY <1>8
  DEF BeginExit, books, exit, history, IInv, TypeOK, ExitInv, NewsInv, UnwrittenInv, Places
<1>9. CASE Announce
  BY <1>9
  DEF Announce, At, books, exit, history, IInv, TypeOK, ExitInv, NewsInv, UnwrittenInv, Places
<1>10. CASE Stamp
  <2>1. now \in Nat /\ header'.at = now /\ exitAt = "stamp" /\ phase = "up"
        /\ UNCHANGED <<file, copying>>
    BY <1>10 DEF Stamp, At, history, IInv, TypeOK
  <2>2. header = NoFile /\ ~copying
    BY <2>1 DEF IInv, ExitInv
  <2>3. \A p \in Places : file[p] # NoFile => file[p].at < now
    BY <2>1, <2>2 DEF IInv, AgeInv
  <2>4. header' # NoFile
    <3>1. restarts' \in SUBSET Nat /\ now \in Nat
      BY <1>10 DEF Stamp, IInv, TypeOK
    <3>2. Newest(restarts') \in SUBSET Nat
      BY <3>1 DEF Newest
    <3>3. header' \in Headers
      BY <1>10, <3>1, <3>2 DEF Stamp, Headers
    <3>4. QED  BY <3>3, RestartAssumption
  <2>5. \A p \in Places : file[p] # header'
    BY <2>1, <2>3, <2>4 DEF IInv, TypeOK, Headers
  <2>6. QED  BY <2>1, <2>2, <2>5 DEF UnwrittenInv
<1>11. CASE WriteLocal
  BY <1>11
  DEF WriteLocal, At, books, exit, history, IInv, TypeOK, ExitInv, NewsInv, UnwrittenInv, Places
<1>12. CASE FallBack
  BY <1>12
  DEF FallBack, At, books, exit, history, IInv, TypeOK, ExitInv, NewsInv, UnwrittenInv, Places
<1>13. CASE Leave
  BY <1>13
  DEF Leave, At, Gone, books, exit, history, IInv, TypeOK, ExitInv, NewsInv, UnwrittenInv, Places
<1>14. CASE LateCopy
  BY <1>14
  DEF LateCopy, books, exit, history, IInv, TypeOK, ExitInv, NewsInv, UnwrittenInv, Places
<1>15. CASE Stall
  BY <1>15
  DEF Stall, At, books, exit, history, IInv, TypeOK, ExitInv, NewsInv, UnwrittenInv, Places
<1>16. CASE WatchdogFires
  BY <1>16
  DEF WatchdogFires, Gone, books, exit, history, IInv, TypeOK, ExitInv, NewsInv, UnwrittenInv, Places
<1>17. CASE Die
  BY <1>17
  DEF Die, Gone, books, exit, history, IInv, TypeOK, ExitInv, NewsInv, UnwrittenInv, Places
<1>18. CASE Deploy
  BY <1>18
  DEF Deploy, books, exit, history, IInv, TypeOK, ExitInv, NewsInv, UnwrittenInv, Places
<1>19. CASE UNCHANGED vars
  BY <1>19
  DEF vars, books, exit, history, IInv, TypeOK, ExitInv, NewsInv, UnwrittenInv, Places
<1>20. QED
  BY <1>1, <1>2, <1>3, <1>4, <1>5, <1>6, <1>7, <1>8, <1>9, <1>10,
     <1>11, <1>12, <1>13, <1>14, <1>15, <1>16, <1>17, <1>18, <1>19 DEF Next, ExitStep

\* Every step keeps the two places apart.
LEMMA ApartStep ==
  IInv /\ NewsInv /\ TypeOK' /\ [Next]_vars => ApartInv'
<1> SUFFICES ASSUME IInv, NewsInv, TypeOK', [Next]_vars
             PROVE  ApartInv'
  OBVIOUS
<1>1. CASE Tick
  BY <1>1
  DEF Tick, books, exit, history, IInv, TypeOK, ExitInv, NewsInv, ApartInv, Places
<1>2. CASE Start
  BY <1>2
  DEF Start, books, exit, history, IInv, TypeOK, ExitInv, NewsInv, ApartInv, Places
<1>3. CASE TakeLocal
  BY <1>3
  DEF TakeLocal, Take, books, exit, history, IInv, TypeOK, ExitInv, NewsInv, ApartInv, Places
<1>4. CASE TakeRoot
  BY <1>4
  DEF TakeRoot, Take, books, exit, history, IInv, TypeOK, ExitInv, NewsInv, ApartInv, Places
<1>5. CASE Adopt
  BY <1>5
  DEF Adopt, books, exit, history, IInv, TypeOK, ExitInv, NewsInv, ApartInv, Places
<1>6. CASE Fail
  BY <1>6
  DEF Fail, books, exit, history, IInv, TypeOK, ExitInv, NewsInv, ApartInv, Places
<1>7. CASE TokenProduced
  BY <1>7
  DEF TokenProduced, books, exit, history, IInv, TypeOK, ExitInv, NewsInv, ApartInv, Places
<1>8. CASE BeginExit
  BY <1>8
  DEF BeginExit, books, exit, history, IInv, TypeOK, ExitInv, NewsInv, ApartInv, Places
<1>9. CASE Announce
  BY <1>9
  DEF Announce, At, books, exit, history, IInv, TypeOK, ExitInv, NewsInv, ApartInv, Places
<1>10. CASE Stamp
  BY <1>10
  DEF Stamp, At, books, exit, history, IInv, TypeOK, ExitInv, NewsInv, ApartInv, Places
<1>11. CASE WriteLocal
  <2>1. phase = "up" /\ header # NoFile /\ UNCHANGED taken
    BY <1>11 DEF WriteLocal, At, IInv, ExitInv
  <2>2. file["root"] # NoFile => file["root"].at # header.at
    <3>1. file["root"] # header
      BY <1>11 DEF WriteLocal, At, NewsInv, UnwrittenInv, Places
    <3>2. file["root"] # NoFile => file["root"].at < header.at
      BY <2>1, <3>1 DEF IInv, AgeInv, Places
    <3>3. QED  BY <2>1, <3>2 DEF IInv, TypeOK, Headers, Places
  <2>3. file' \in {file, [file EXCEPT !["local"] = header]}
    BY <1>11 DEF WriteLocal
  <2>4. file'["root"] = file["root"] /\ file'["local"] \in {file["local"], header}
    BY <2>3 DEF IInv, TypeOK, Places
  <2>5. \A r \in Places : taken[r] = NoFile
    BY <2>1 DEF NewsInv, TakenInv
  <2>6. QED  BY <2>1, <2>2, <2>4, <2>5 DEF NewsInv, ApartInv, Places
<1>12. CASE FallBack
  <2>1. phase = "up" /\ header # NoFile /\ UNCHANGED taken
    BY <1>12 DEF FallBack, At, IInv, ExitInv
  <2>2. file["local"] # NoFile => file["local"].at # header.at
    <3>1. file["local"] # header
      BY <1>12 DEF FallBack, At, NewsInv, UnwrittenInv, Places
    <3>2. file["local"] # NoFile => file["local"].at < header.at
      BY <2>1, <3>1 DEF IInv, AgeInv, Places
    <3>3. QED  BY <2>1, <3>2 DEF IInv, TypeOK, Headers, Places
  <2>3. file' \in {file, [file EXCEPT !["root"] = header]}
    BY <1>12 DEF FallBack
  <2>4. file'["local"] = file["local"] /\ file'["root"] \in {file["root"], header}
    BY <2>3 DEF IInv, TypeOK, Places
  <2>5. \A r \in Places : taken[r] = NoFile
    BY <2>1 DEF NewsInv, TakenInv
  <2>6. QED  BY <2>1, <2>2, <2>4, <2>5 DEF NewsInv, ApartInv, Places
<1>13. CASE Leave
  BY <1>13
  DEF Leave, At, Gone, books, exit, history, IInv, TypeOK, ExitInv, NewsInv, ApartInv, Places
<1>14. CASE LateCopy
  <2>1. phase = "up" /\ header # NoFile /\ UNCHANGED taken
    BY <1>14 DEF LateCopy, At, IInv, ExitInv
  <2>2. file["local"] # NoFile => file["local"].at # header.at
    <3>1. file["local"] # header
      BY <1>14 DEF LateCopy, At, NewsInv, UnwrittenInv, Places
    <3>2. file["local"] # NoFile => file["local"].at < header.at
      BY <2>1, <3>1 DEF IInv, AgeInv, Places
    <3>3. QED  BY <2>1, <3>2 DEF IInv, TypeOK, Headers, Places
  <2>3. file' \in {file, [file EXCEPT !["root"] = header]}
    BY <1>14 DEF LateCopy
  <2>4. file'["local"] = file["local"] /\ file'["root"] \in {file["root"], header}
    BY <2>3 DEF IInv, TypeOK, Places
  <2>5. \A r \in Places : taken[r] = NoFile
    BY <2>1 DEF NewsInv, TakenInv
  <2>6. QED  BY <2>1, <2>2, <2>4, <2>5 DEF NewsInv, ApartInv, Places
<1>15. CASE Stall
  BY <1>15
  DEF Stall, At, books, exit, history, IInv, TypeOK, ExitInv, NewsInv, ApartInv, Places
<1>16. CASE WatchdogFires
  BY <1>16
  DEF WatchdogFires, Gone, books, exit, history, IInv, TypeOK, ExitInv, NewsInv, ApartInv, Places
<1>17. CASE Die
  BY <1>17
  DEF Die, Gone, books, exit, history, IInv, TypeOK, ExitInv, NewsInv, ApartInv, Places
<1>18. CASE Deploy
  BY <1>18
  DEF Deploy, books, exit, history, IInv, TypeOK, ExitInv, NewsInv, ApartInv, Places
<1>19. CASE UNCHANGED vars
  BY <1>19
  DEF vars, books, exit, history, IInv, TypeOK, ExitInv, NewsInv, ApartInv, Places
<1>20. QED
  BY <1>1, <1>2, <1>3, <1>4, <1>5, <1>6, <1>7, <1>8, <1>9, <1>10,
     <1>11, <1>12, <1>13, <1>14, <1>15, <1>16, <1>17, <1>18, <1>19 DEF Next, ExitStep


\* The same history is never adopted twice: what a start takes for the exit
\* before it was not adopted by an earlier start, unless its file could not be
\* set aside (recovery.rs, take and supervise_with).
THEOREM EvidenceStaysNews ==
  Spec => EvidenceIsNews
<1>1. Init => IInv /\ NewsInv
  BY InitIInv, InitNews
<1>2. IInv /\ NewsInv /\ [Next]_vars => (IInv /\ NewsInv)'
  <2> SUFFICES ASSUME IInv, NewsInv, [Next]_vars PROVE IInv' /\ NewsInv'
    OBVIOUS
  <2>1. TypeOK'
    BY TypeStep DEF IInv
  <2>2. HeadersInv' /\ AgeInv' /\ ExitInv' /\ RecordInv'
    BY <2>1, HeadersStep, AgeStep, ExitStepKeeps, RecordStep
  <2>3. PastInv' /\ KeptInv' /\ TakenInv' /\ UnwrittenInv' /\ ApartInv'
    BY <2>1, PastStep, KeptStep, TakenStep, UnwrittenStep, ApartStep
  <2>4. QED  BY <2>1, <2>2, <2>3 DEF IInv, NewsInv
<1>3. IInv /\ NewsInv /\ [Next]_vars =>
        [phase = "adopting" /\ phase' = "up" =>
           LET news == Newer(taken["local"], taken["root"]) IN
             news # NoFile /\ news.at \in adopted => news.at \in kept]_vars
  BY NewerIsOneOfThem DEF NewsInv, TakenInv, Places
<1>4. QED  BY <1>1, <1>2, <1>3, PTL DEF Spec, EvidenceIsNews
=============================================================================
