---------------------------- MODULE RestartBudget ----------------------------
(***************************************************************************)
(* One self-restart per cooldown, across processes (serve/recovery.rs).    *)
(* A process that decides to exit latches that decision, starts the exit   *)
(* once under a watchdog, stamps its restart history and leaves it in a    *)
(* file; the next process takes the file and adopts the history.  Here a   *)
(* process can die between any two of these steps, a disk can refuse or    *)
(* stall, and a file that was read may refuse to be set aside.             *)
(*                                                                         *)
(* Left out: the log lines in the evidence and their parsing, the drain of *)
(* open responses and the grace (both bounded waits on the exit's own      *)
(* thread), and a wall clock that goes backwards.  A write goes to a       *)
(* temporary name and is renamed, so a file is the old one or the new one. *)
(***************************************************************************)
EXTENDS Integers, FiniteSets

CONSTANTS
    Cooldown,     \* RESTART_COOLDOWN, in ticks of the clock
    Day,          \* the age at which a start forgets a restart
    HistoryCap,   \* restarts a header carries: the newest 16
    MaxTime,      \* bound: the last tick
    MaxDeciders,  \* bound: requests between their decision and begin_exit
    NoFile        \* no evidence file in a place

VARIABLES
    now,          \* now_ms, in ticks
    phase,        \* where the process is in supervise_with, or "down"
    taken,        \* what each place held, between the takes and the adoption
    consecutive,  \* the worst device's failures in a row, 2 for "at least 2"
    restarts,     \* State::restarts_ms
    latched,      \* EXITING
    deciding,     \* requests that decided Restart and have not begun the exit
    watchdog,     \* "off", "armed", or "failed" (its thread was not spawned)
    exitAt,       \* the step of run_exit about to run; "none" before begin_exit
    stalled,      \* that step is parked and will not return
    header,       \* the header this exit rendered
    copying,      \* the fallback's thread outlived the wait for it
    file,         \* the evidence file in each place
    restarted,    \* history: the stamps of the self-restarts there have been
    lost,         \* history: stamps an outside event took from the record
    adopted,      \* history: the exits that were adopted as news
    kept          \* history: the exits whose file could not be set aside

books   == <<consecutive, restarts, latched, deciding>>
exit    == <<watchdog, exitAt, stalled, header, copying>>
history == <<restarted, lost, adopted, kept>>
vars    == <<now, phase, taken, books, exit, file, history>>

Places  == {"local", "root"}
Headers == [at : Nat, restarts : SUBSET Nat]
Phases  == {"down", "taking", "taking root", "adopting", "up"}
Steps   == {"none", "announce", "stamp", "write", "fall back", "leave"}

\* RESTART_COOLDOWN is no longer than the day of the prune, and a header
\* carries a stamp.
ASSUME RestartAssumption ==
    /\ Cooldown \in Nat \ {0} /\ Day \in Nat /\ Cooldown <= Day
    /\ HistoryCap \in Nat \ {0}
    /\ MaxTime \in Nat /\ MaxDeciders \in Nat
    /\ NoFile \notin Headers

\* A header with the newest HistoryCap stamps (render, and the adoption).
Newest(stamps) ==
    {t \in stamps : Cardinality({u \in stamps : u > t}) < HistoryCap}

\* Of what the two places held, the one written last; the local copy on a tie.
Newer(a, b) ==
    IF b # NoFile /\ (a = NoFile \/ b.at > a.at) THEN b ELSE a

StampsOf(f) == IF f = NoFile THEN {} ELSE f.restarts

\* decide: two failures in a row, and no restart younger than the cooldown.
MustRestart(count, stamps) ==
    count >= 2 /\ \A t \in stamps : now - t >= Cooldown

-----------------------------------------------------------------------------
Init ==
    /\ now = 0
    /\ phase = "down"
    /\ taken = [p \in Places |-> NoFile]
    /\ consecutive = 0 /\ restarts = {} /\ latched = FALSE /\ deciding = 0
    /\ watchdog = "off" /\ exitAt = "none" /\ stalled = FALSE
    /\ header = NoFile /\ copying = FALSE
    /\ file = [p \in Places |-> NoFile]
    /\ restarted = {} /\ lost = {} /\ adopted = {} /\ kept = {}

Tick ==
    /\ now < MaxTime
    /\ now' = now + 1
    /\ UNCHANGED <<phase, taken, books, exit, file, history>>

-----------------------------------------------------------------------------
(* The supervised start.                                                   *)

\* The supervisor starts a process; its statics are fresh.  That takes time,
\* so no two processes stamp an exit with the same one.
Start ==
    /\ phase = "down" /\ now < MaxTime
    /\ phase' = "taking"
    /\ now' = now + 1
    /\ UNCHANGED <<taken, books, exit, file, history>>

\* Mutant: the file that was read is not set aside.
TakeInPlace(p, from, to) ==
    /\ phase = from
    /\ phase' = to
    /\ taken' = [taken EXCEPT ![p] = file[p]]
    /\ UNCHANGED <<now, books, exit, file, history>>

\* take: read the file in p, then set it aside -- rename, else remove, else
\* it stays.  A file that cannot be read is set aside all the same; one that
\* cannot be opened, or whose directory is refused, is left where it is.
Take(p, from, to) ==
    /\ phase = from
    /\ phase' = to
    /\ \E readable, aside \in BOOLEAN :
         /\ taken' = [taken EXCEPT ![p] = IF readable THEN file[p] ELSE NoFile]
         /\ file' = [file EXCEPT ![p] = IF aside THEN NoFile ELSE @]
         /\ lost' = IF readable THEN lost ELSE lost \union StampsOf(file[p])
         /\ kept' = IF aside \/ file[p] = NoFile THEN kept
                    ELSE kept \union {file[p].at}
    /\ UNCHANGED <<now, books, exit, restarted, adopted>>

TakeLocal == Take("local", "taking", "taking root")
TakeRoot  == Take("root", "taking root", "adopting")

\* supervise_with's critical section: what a day has not outdated becomes
\* this process's history.
Adopt ==
    /\ phase = "adopting"
    /\ phase' = "up"
    /\ LET news == Newer(taken["local"], taken["root"]) IN
         /\ restarts' = Newest({t \in StampsOf(news) : now - t < Day})
         /\ adopted' = IF news = NoFile THEN adopted
                       ELSE adopted \union {news.at}
    /\ taken' = [p \in Places |-> NoFile]
    /\ UNCHANGED <<now, consecutive, latched, deciding, exit, file,
                   restarted, lost, kept>>

-----------------------------------------------------------------------------
(* Failures, decided under the STATE mutex.                                *)

\* record_failure: count, decide, and latch a decision to exit.  begin_exit
\* comes after the mutex is released.
Fail ==
    /\ phase = "up"
    /\ consecutive' = IF consecutive = 0 THEN 1 ELSE 2
    /\ IF MustRestart(consecutive + 1, restarts)
       THEN /\ deciding < MaxDeciders
            /\ latched' = TRUE /\ deciding' = deciding + 1
       ELSE UNCHANGED <<latched, deciding>>
    /\ UNCHANGED <<now, phase, taken, restarts, exit, file, history>>

\* generation_succeeded: the device produced a token.
TokenProduced ==
    /\ phase = "up" /\ consecutive > 0
    /\ consecutive' = 0
    /\ UNCHANGED <<now, phase, taken, restarts, latched, deciding, exit, file,
                   history>>

\* begin_exit: the first caller arms the watchdog and starts run_exit, on a
\* thread of its own or, when that cannot be had, on the caller's.
BeginExit ==
    /\ phase = "up" /\ deciding > 0
    /\ deciding' = deciding - 1
    /\ IF exitAt # "none"
       THEN UNCHANGED <<watchdog, exitAt>>
       ELSE /\ watchdog' \in {"armed", "failed"}
            /\ exitAt' = "announce"
    /\ UNCHANGED <<now, phase, taken, consecutive, restarts, latched, stalled,
                   header, copying, file, history>>

-----------------------------------------------------------------------------
(* run_exit.                                                               *)

\* A step of the exit runs in a process that is up and whose exit is not
\* parked.
At(step) == phase = "up" /\ exitAt = step /\ ~stalled

\* The exit line is printed, open responses drain or their ten seconds end,
\* and the grace passes.
Announce ==
    /\ At("announce")
    /\ exitAt' = "stamp"
    /\ UNCHANGED <<now, phase, taken, books, watchdog, stalled, header,
                   copying, file, history>>

\* Mutant: the header is rendered before the restart is pushed.
StampRenderedFirst ==
    /\ At("stamp")
    /\ exitAt' = "write"
    /\ restarts' = restarts \union {now}
    /\ header' = [at |-> now, restarts |-> Newest(restarts)]
    /\ UNCHANGED <<now, phase, taken, consecutive, latched, deciding, watchdog,
                   stalled, copying, file, history>>

\* The restart is pushed onto the history, and the header rendered with it.
Stamp ==
    /\ At("stamp")
    /\ exitAt' = "write"
    /\ restarts' = restarts \union {now}
    /\ header' = [at |-> now, restarts |-> Newest(restarts')]
    /\ UNCHANGED <<now, phase, taken, consecutive, latched, deciding, watchdog,
                   stalled, copying, file, history>>

\* write_private: the local copy, published by the rename or refused.
WriteLocal ==
    /\ At("write")
    /\ \/ /\ file' = [file EXCEPT !["local"] = header]
          /\ exitAt' = "leave"
          /\ UNCHANGED lost
       \/ /\ exitAt' = "fall back"
          /\ UNCHANGED <<file, lost>>
    /\ UNCHANGED <<now, phase, taken, books, watchdog, stalled, header,
                   copying, restarted, adopted, kept>>

\* Only without a local copy: the models root, on a thread that is waited for
\* with a bound.  It writes, fails, or is still at it when the wait ends.
FallBack ==
    /\ At("fall back")
    /\ exitAt' = "leave"
    /\ \/ /\ file' = [file EXCEPT !["root"] = header]
          /\ UNCHANGED <<copying, lost>>
       \/ /\ copying' \in BOOLEAN
          /\ lost' = lost \union restarts
          /\ UNCHANGED file
    /\ UNCHANGED <<now, phase, taken, books, watchdog, stalled, header,
                   restarted, adopted, kept>>

\* The copy that was no longer waited for lands after all.
LateCopy ==
    /\ phase = "up" /\ copying
    /\ copying' = FALSE
    /\ file' = [file EXCEPT !["root"] = header]
    /\ UNCHANGED <<now, phase, taken, books, watchdog, exitAt, stalled, header,
                   history>>

\* A step with no budget of its own never returns: the print, the local disk,
\* or the exit handlers and the drivers' teardown.
Stall ==
    /\ \E step \in {"announce", "write", "leave"} : At(step)
    /\ stalled' = TRUE
    /\ UNCHANGED <<now, phase, taken, books, watchdog, exitAt, header, copying,
                   file, history>>

-----------------------------------------------------------------------------
(* The end of a process.                                                   *)

\* Its memory is gone, and every static of it.
Gone ==
    /\ phase' = "down"
    /\ taken' = [p \in Places |-> NoFile]
    /\ consecutive' = 0 /\ restarts' = {} /\ latched' = FALSE /\ deciding' = 0
    /\ watchdog' = "off" /\ exitAt' = "none" /\ stalled' = FALSE
    /\ header' = NoFile /\ copying' = FALSE

\* (supervisor.exit)(EXIT_RESTART)
Leave ==
    /\ At("leave")
    /\ Gone
    /\ restarted' = restarted \union {header.at}
    /\ UNCHANGED <<now, file, lost, adopted, kept>>

\* Mutant: the watchdog is disarmed once the evidence is written.
WatchdogFiresTillWritten ==
    /\ phase = "up" /\ watchdog = "armed" /\ stalled /\ exitAt # "leave"
    /\ Gone
    /\ LET stamp == IF header = NoFile THEN now ELSE header.at IN
         /\ restarted' = restarted \union {stamp}
         /\ lost' = lost \union restarts \union {stamp}
    /\ UNCHANGED <<now, file, adopted, kept>>

\* The deadline passes with the exit parked: terminate_now.  What it had not
\* written yet is lost.
WatchdogFires ==
    /\ phase = "up" /\ watchdog = "armed" /\ stalled
    /\ Gone
    /\ LET stamp == IF header = NoFile THEN now ELSE header.at IN
         /\ restarted' = restarted \union {stamp}
         /\ lost' = IF exitAt = "leave" THEN lost
                    ELSE lost \union restarts \union {stamp}
    /\ UNCHANGED <<now, file, adopted, kept>>

\* Anything else that ends a process, in whatever it is doing: an ordinary
\* crash, the kernel, an operator's stop or restart.  None of them writes
\* evidence.
Die ==
    /\ phase # "down"
    /\ Gone
    /\ lost' = lost \union restarts
                    \union UNION {StampsOf(taken[p]) : p \in Places}
    /\ UNCHANGED <<now, file, restarted, adopted, kept>>

\* A deploy replaces the container: the local directory goes with it.
Deploy ==
    /\ phase = "down" /\ file["local"] # NoFile
    /\ file' = [file EXCEPT !["local"] = NoFile]
    /\ lost' = lost \union StampsOf(file["local"])
    /\ UNCHANGED <<now, phase, taken, books, exit, restarted, adopted, kept>>

ExitStep == Announce \/ Stamp \/ WriteLocal \/ FallBack \/ Leave

Next ==
    \/ Tick
    \/ Start \/ TakeLocal \/ TakeRoot \/ Adopt
    \/ Fail \/ TokenProduced \/ BeginExit
    \/ ExitStep \/ LateCopy \/ Stall
    \/ WatchdogFires \/ Die \/ Deploy

Spec == Init /\ [][Next]_vars

\* A thread that is not parked runs, and so does the watchdog's.
FairSpec ==
    /\ Spec
    /\ WF_vars(BeginExit) /\ WF_vars(ExitStep) /\ WF_vars(WatchdogFires)

-----------------------------------------------------------------------------
(* Properties.                                                             *)

TypeOK ==
    /\ now \in Nat
    /\ phase \in Phases
    /\ taken \in [Places -> Headers \union {NoFile}]
    /\ file \in [Places -> Headers \union {NoFile}]
    /\ header \in Headers \union {NoFile}
    /\ consecutive \in 0..2
    /\ deciding \in 0..MaxDeciders
    /\ latched \in BOOLEAN /\ stalled \in BOOLEAN /\ copying \in BOOLEAN
    /\ watchdog \in {"off", "armed", "failed"}
    /\ exitAt \in Steps
    /\ restarts \in SUBSET Nat
    /\ restarted \in SUBSET Nat /\ lost \in SUBSET Nat
    /\ adopted \in SUBSET Nat /\ kept \in SUBSET Nat

\* No process decides to restart itself within a cooldown of an earlier
\* self-restart, unless that one's record was lost to something outside: a
\* death that is no self-restart, a disk, a deploy.  The module's promise is
\* "at most one such restart per RESTART_COOLDOWN".
BudgetHolds ==
    [][latched' /\ ~latched =>
         \A t \in restarted \ lost : now - t >= Cooldown]_vars

\* A start never takes an old exit for news: what it adopts was not adopted
\* before, unless its file could not be set aside.
EvidenceIsNews ==
    [][phase = "adopting" /\ phase' = "up" =>
         LET news == Newer(taken["local"], taken["root"]) IN
           news # NoFile /\ news.at \in adopted => news.at \in kept]_vars

\* A process that refuses work because it is restarting is gone in the end,
\* whatever parked its exit -- if its watchdog could be armed.
RestartingEnds ==
    latched ~> (phase = "down" \/ watchdog = "failed")
=============================================================================
