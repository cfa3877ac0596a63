--------------------------- MODULE DecodeThread ---------------------------
(***************************************************************************)
(* The decode thread (decoder.rs) and the requests that start a session on *)
(* it or join one (engine.rs `drive`, `join_session`, `generate_batched`).  *)
(*                                                                          *)
(* A request that holds the model slot hands it to the thread in a Start    *)
(* message; while the thread holds it, requests for the same model join the *)
(* batch instead of queueing.  The registry, one mutex, says whether the    *)
(* session admits.  Every client operation on it locks and unlocks in one   *)
(* step; the thread ends a session in several, under the lock (`locked`).   *)
(*                                                                          *)
(* A load is one step here, and succeeds or is refused: how it fails is     *)
(* module ModelServing's subject.  What it waits for, the thread dropping   *)
(* the last model's batch, is not.                                          *)
(***************************************************************************)
EXTENDS RecoveryBooks, SequencesExt

CONSTANTS
  Requests,    \* chat requests
  Outsiders,   \* calls that fail with the slot in other hands: retrievals, and
               \* chats whose failure the engine did not catch itself
  Models,      \* model directories
  LoadIds,     \* names for loads, reused once nothing holds the old one
  Placement,   \* the devices every load here touches
  MaxSlots,    \* sequences one batch decodes at once
  MaxTokens,   \* a request's token budget
  NoOne,       \* no holder, no job, no sender
  Thread,      \* the decode thread, as a holder of the slot
  NoModel,     \* an empty slot, an empty registry
  NoLoad,      \* no cached batcher
  MaxFailures, \* bound: device failures the environment raises
  MaxBugs,     \* bound: ordinary errors and panics out of the batcher
  MaxReleases  \* bound: releases the placement watch and unloads send

ASSUME DecodeAssumption ==
  /\ NoOne \notin Requests /\ Thread \notin Requests /\ NoOne # Thread
  /\ Placement \in (SUBSET (Accelerators \cup {Host})) \ {{}}
  /\ NoLoad \notin LoadIds
  /\ NoModel \notin Models \cup [key : Models, load : LoadIds, stamp : Nat]
  /\ MaxSlots \in Nat \ {0} /\ MaxTokens \in Nat \ {0}
  /\ MaxFailures \in Nat /\ MaxBugs \in Nat /\ MaxReleases \in Nat

VARIABLES
  slot, entry,        \* the slot's holder; its resident model
  queue,              \* the pending acquires, in tokio's FIFO order
  registry, locked,   \* REGISTRY; the thread is inside it
  channel,            \* messages to the thread
  at, base, filling,  \* where the thread is, and where an admission returns to
  held,               \* it runs a session, on the model in the slot
  jobs, waiting, job, \* live sequences; accepted but not admitted; in admission
  cached,             \* the load its batcher was made for
  releaseAfter,       \* drop the batcher when the session ends
  spanned,            \* the session is older than SESSION_SPAN
  mark, outcome,      \* the slot holder's epoch mark; how the last call returned
  spoiled,            \* history: a device had failed when the call's work ended
  made,               \* tokens the batcher made for each sequence
  pc, key, joined,    \* each request: where it is, its model, whether it joined
  updates, seen,      \* its update channel; whether it has read a token
  notified,           \* a session started since it last looked for one
  outside,            \* where each outsider is between its failure and its end
  lateLoads,          \* history: loads that landed after an exit was latched
  raised, bugs, releases  \* failures, bugs and releases so far

sessionVars == <<at, base, filling, held, jobs, waiting, job, cached, releaseAfter, spanned>>
callVars    == <<mark, outcome, spoiled, made>>
clientVars  == <<queue, pc, key, joined, updates, seen, notified>>
registryVars == <<registry, locked>>
envVars     == <<outside, lateLoads, raised, bugs, releases>>
vars == <<booksVars, slot, entry, registryVars, channel, sessionVars, callVars, clientVars,
          envVars>>

Model    == [key : Models, load : LoadIds, stamp : Nat]
Messages == [kind : {"start", "join", "release"}, from : Requests \cup {NoOne}]
Updates  == {"token", "done", "failed", "bounced", "stranded"}
Outcomes == {"ok", "error", "device_text", "bug"}
Places   == {"top", "step", "admitting", "filling", "calling", "judging", "failing", "deciding",
             "evicting", "end", "ending", "closing"}
Stages   == {"idle", "arrived", "queued", "planning", "releasing", "loading", "resident",
             "sending", "joining", "batched"}

NoMark == [global |-> 0, devices |-> [d \in Devices |-> 0]]

DecodeTypeOK ==
  /\ BooksTypeOK
  /\ slot \in Requests \cup {NoOne, Thread}
  /\ entry \in Model \cup {NoModel}
  /\ queue \in Seq(Requests)
  /\ registry \in [key : Models \cup {NoModel}, accepting : BOOLEAN] /\ locked \in BOOLEAN
  /\ channel \in Seq(Messages)
  /\ at \in Places /\ base \in {"top", "end", "ending"} /\ filling \in BOOLEAN
  /\ held \in BOOLEAN /\ jobs \subseteq Requests /\ waiting \in Seq(Requests)
  /\ job \in Requests \cup {NoOne} /\ cached \in LoadIds \cup {NoLoad}
  /\ releaseAfter \in BOOLEAN /\ spanned \in BOOLEAN
  /\ mark \in Marks /\ outcome \in Outcomes /\ spoiled \in BOOLEAN
  /\ made \in [Requests -> 0..MaxTokens]
  /\ pc \in [Requests -> Stages] /\ key \in [Requests -> Models] /\ joined \subseteq Requests
  /\ updates \in [Requests -> Seq(Updates)]
  /\ seen \subseteq Requests /\ notified \subseteq Requests
  /\ outside \in [Outsiders -> {"none", "failed", "decided"}] /\ lateLoads \in Nat
  /\ raised \in 0..MaxFailures /\ bugs \in 0..MaxBugs /\ releases \in 0..MaxReleases
  /\ Cardinality(jobs) <= MaxSlots

NoSession == [key |-> NoModel, accepting |-> FALSE]

Init ==
  /\ BooksInit
  /\ slot = NoOne /\ entry = NoModel /\ queue = <<>>
  /\ registry = NoSession /\ locked = FALSE /\ channel = <<>>
  /\ at = "top" /\ base = "top" /\ filling = FALSE
  /\ held = FALSE /\ jobs = {} /\ waiting = <<>> /\ job = NoOne
  /\ cached = NoLoad /\ releaseAfter = FALSE /\ spanned = FALSE
  /\ mark = NoMark /\ outcome = "ok" /\ spoiled = FALSE
  /\ made = [r \in Requests |-> 0]
  /\ pc = [r \in Requests |-> "idle"] /\ key \in [Requests -> Models] /\ joined = {}
  /\ updates = [r \in Requests |-> <<>>] /\ seen = {} /\ notified = {}
  /\ outside = [c \in Outsiders |-> "none"] /\ lateLoads = 0
  /\ raised = 0 /\ bugs = 0 /\ releases = 0

---------------------------------------------------------------------------
(* Helpers.                                                                 *)

Go(r, stage) == pc' = [pc EXCEPT ![r] = stage]

\* A request queues once.
Without(q, r) ==
  IF r \in ToSet(q) THEN RemoveAt(q, CHOOSE i \in DOMAIN q : q[i] = r) ELSE q

\* The call returns: its receiver and its place in the queue go with it.
Return(r) ==
  /\ Go(r, "idle")
  /\ queue' = Without(queue, r)
  /\ joined' = joined \ {r} /\ seen' = seen \ {r} /\ notified' = notified \ {r}
  /\ updates' = [updates EXCEPT ![r] = <<>>]
  /\ UNCHANGED key

Post(kind, from) == channel' = Append(channel, [kind |-> kind, from |-> from])

\* Jobs whose client is still there to be told.
Open(r) == pc[r] \in {"joining", "batched"}

\* `what` is sent to every request of `to` that still listens.
Tell(to, what) ==
  updates' = [r \in Requests |->
                IF r \in to /\ Open(r) THEN updates[r] \o what ELSE updates[r]]

Condemned == entry.stamp # epoch

\* Everything that still carries r's job.
InThread(r) ==
  \/ r \in jobs \cup ToSet(waiting) \cup {job}
  \/ \E i \in DOMAIN channel : channel[i].kind \in {"start", "join"} /\ channel[i].from = r

---------------------------------------------------------------------------
(* Requests.                                                                *)

\* A request is a name, used again once the thread has let go of its job.
Arrive(r) ==
  /\ pc[r] = "idle" /\ ~exiting /\ ~InThread(r)
  /\ Go(r, "arrived")
  /\ \E m \in Models : key' = [key EXCEPT ![r] = m]
  /\ UNCHANGED <<booksVars, slot, entry, registryVars, channel, sessionVars, callVars, queue,
                 joined, updates, seen, notified, envVars>>

Admitting(m) == registry.accepting /\ registry.key = m

\* join_session: on arrival, and once for every session that starts while the
\* request waits for the slot.
Join(r) ==
  /\ pc[r] = "arrived" \/ (pc[r] = "queued" /\ r \in notified)
  /\ ~locked /\ Admitting(key[r])
  /\ Post("join", r)
  /\ Go(r, "joining")
  /\ joined' = joined \cup {r}
  /\ notified' = IF pc[r] = "queued" THEN notified \ {r} ELSE notified
  /\ UNCHANGED <<booksVars, slot, entry, registryVars, sessionVars, callVars, queue, key, updates,
                 seen, envVars>>

\* No session it can join: it waits on.
JoinMissed(r) ==
  /\ pc[r] = "queued" /\ r \in notified
  /\ ~locked /\ ~Admitting(key[r])
  /\ notified' = notified \ {r}
  /\ UNCHANGED <<booksVars, slot, entry, registryVars, channel, sessionVars, callVars, queue, pc,
                 key, joined, updates, seen, envVars>>

Queue(r) ==
  /\ pc[r] = "arrived" /\ ~locked
  /\ Go(r, "queued")
  /\ queue' = Append(queue, r)
  /\ UNCHANGED <<booksVars, slot, entry, registryVars, channel, sessionVars, callVars, key, joined,
                 updates, seen, notified, envVars>>

\* The client hangs up; its receiver closes, its job stays where it is.
HangUp(r) ==
  /\ pc[r] \in {"queued", "joining", "batched"}
  /\ Return(r)
  /\ UNCHANGED <<booksVars, slot, entry, registryVars, channel, sessionVars, callVars, envVars>>

\* The first of the queue gets the slot, once it is polled there.
TakeSlot(r) ==
  /\ pc[r] = "queued" /\ slot = NoOne /\ queue # <<>> /\ Head(queue) = r
  /\ slot' = r
  /\ queue' = Tail(queue)
  /\ IF entry # NoModel /\ entry.key = key[r] /\ ~Condemned
     THEN Go(r, "resident") /\ UNCHANGED entry
     ELSE Go(r, "planning") /\ entry' = NoModel
  /\ mark' = Mark
  /\ UNCHANGED <<booksVars, registryVars, channel, sessionVars, outcome, spoiled, made, key, joined,
                 updates, seen, notified, envVars>>

RefuseLoad(r) ==
  /\ pc[r] = "planning" /\ exiting
  /\ slot' = NoOne
  /\ Return(r)
  /\ UNCHANGED <<booksVars, entry, registryVars, channel, sessionVars, callVars, envVars>>

\* Mutant: a load begins although the process is on its way out.
ReleaseWaitAnyway(r) ==
  /\ pc[r] = "planning" /\ ~locked
  /\ registry' = [registry EXCEPT !.accepting = FALSE]
  /\ Post("release", r)
  /\ Go(r, "releasing")
  /\ UNCHANGED <<booksVars, slot, entry, locked, sessionVars, callVars, queue, key, joined,
                 updates, seen, notified, envVars>>

\* Mutant: the load does not wait for the thread to have dropped its batch.
ReleaseWaitNotAtAll(r) ==
  /\ pc[r] = "planning" /\ ~exiting /\ ~locked
  /\ registry' = [registry EXCEPT !.accepting = FALSE]
  /\ Post("release", NoOne)
  /\ Go(r, "loading")
  /\ UNCHANGED <<booksVars, slot, entry, locked, sessionVars, callVars, queue, key, joined,
                 updates, seen, notified, envVars>>

\* release_wait: drain, send, wait for the acknowledgement (the thread holds
\* no slot, so it answers within the wait's budget).
ReleaseWait(r) ==
  /\ pc[r] = "planning" /\ ~exiting /\ ~locked
  /\ registry' = [registry EXCEPT !.accepting = FALSE]
  /\ Post("release", r)
  /\ Go(r, "releasing")
  /\ UNCHANGED <<booksVars, slot, entry, locked, sessionVars, callVars, queue, key, joined,
                 updates, seen, notified, envVars>>

\* A load nothing holds has a name nothing else does.
LoadLands(r) ==
  /\ pc[r] = "loading"
  /\ \E id \in LoadIds \ {cached} :
       entry' = [key |-> key[r], load |-> id, stamp |-> epoch]
  /\ LoadSucceeded(Placement)
  /\ lateLoads' = IF exiting THEN lateLoads + 1 ELSE lateLoads
  /\ mark' = Mark
  /\ Go(r, "resident")
  /\ UNCHANGED <<slot, registryVars, channel, sessionVars, outcome, spoiled, made, queue, key,
                 joined, updates, seen, notified, outside, raised, bugs, releases>>

LoadFails(r) ==
  /\ pc[r] = "loading"
  /\ slot' = NoOne
  /\ Return(r)
  /\ UNCHANGED <<booksVars, entry, registryVars, channel, sessionVars, callVars, envVars>>

\* A device failed since the model's load: nothing is handed to the thread.
ServingFailed(r) ==
  /\ pc[r] = "resident" /\ Condemned
  /\ RecordFailure(Attribute(mark, Placement))
  /\ entry' = NoModel /\ slot' = NoOne
  /\ Return(r)
  /\ UNCHANGED <<registryVars, channel, sessionVars, callVars, envVars>>

\* decoder::start publishes the session ...
Publish(r) ==
  /\ pc[r] = "resident" /\ ~Condemned /\ ~locked
  /\ registry' = [key |-> key[r], accepting |-> TRUE]
  /\ Go(r, "sending")
  /\ UNCHANGED <<booksVars, slot, entry, locked, channel, sessionVars, callVars, queue, key, joined,
                 updates, seen, notified, envVars>>

\* ... sends the slot's guard with its own job, and tells who waits.
SendStart(r) ==
  /\ pc[r] = "sending"
  /\ Post("start", r)
  /\ slot' = Thread
  /\ Go(r, "batched")
  /\ notified' = notified \cup {q \in Requests : pc[q] \in {"arrived", "queued", "joining"}}
  /\ mark' = NoMark
  /\ UNCHANGED <<booksVars, entry, registryVars, sessionVars, outcome, spoiled, made, queue, key,
                 joined, updates, seen, envVars>>

\* The first token a request READS vouches for the session's devices.
ReadToken(r) ==
  /\ Open(r) /\ updates[r] # <<>> /\ Head(updates[r]) = "token"
  /\ IF r \in seen THEN UNCHANGED booksVars ELSE GenerationSucceeded(Placement)
  /\ seen' = seen \cup {r}
  /\ updates' = [updates EXCEPT ![r] = Tail(@)]
  /\ Go(r, "batched")
  /\ UNCHANGED <<slot, entry, registryVars, channel, sessionVars, callVars, queue, key, joined,
                 notified, envVars>>

\* Turned back: it waits for the slot (a joiner that never queued joins the
\* queue now).
ReadBounce(r) ==
  /\ Open(r) /\ updates[r] # <<>> /\ Head(updates[r]) = "bounced"
  /\ Go(r, "queued")
  /\ queue' = IF r \in ToSet(queue) THEN queue ELSE Append(queue, r)
  /\ joined' = joined \ {r}
  /\ updates' = [updates EXCEPT ![r] = <<>>]
  /\ UNCHANGED <<booksVars, slot, entry, registryVars, channel, sessionVars, callVars, key, seen,
                 notified, envVars>>

ReadEnd(r) ==
  /\ Open(r) /\ updates[r] # <<>> /\ Head(updates[r]) \in {"done", "failed", "stranded"}
  /\ Return(r)
  /\ UNCHANGED <<booksVars, slot, entry, registryVars, channel, sessionVars, callVars, envVars>>

---------------------------------------------------------------------------
(* The thread: its messages (`run`, `handle`, `begin`, `enqueue`).          *)

Receiving(kind) ==
  /\ at \in {"top", "ending"} /\ channel # <<>> /\ Head(channel).kind = kind
  /\ channel' = Tail(channel)

\* begin: the batcher of another load is dropped for a fresh one.
ReceiveStart ==
  /\ Receiving("start")
  /\ held' = TRUE /\ spanned' = FALSE
  /\ cached' = entry.load
  /\ job' = Head(channel).from
  /\ base' = at /\ at' = "admitting"
  /\ UNCHANGED <<booksVars, slot, entry, registryVars, filling, jobs, waiting, releaseAfter,
                 callVars, clientVars, envVars>>

\* enqueue: behind whatever already waits, or admitted at once.
ReceiveJoin ==
  /\ Receiving("join") /\ held
  /\ IF waiting # <<>>
     THEN waiting' = Append(waiting, Head(channel).from) /\ UNCHANGED <<job, base, at>>
     ELSE job' = Head(channel).from /\ base' = at /\ at' = "admitting" /\ UNCHANGED waiting
  /\ UNCHANGED <<booksVars, slot, entry, registryVars, filling, held, jobs, cached, releaseAfter,
                 spanned, callVars, clientVars, envVars>>

\* "Unreachable by the registry protocol; said rather than dropped."
StrandJoin ==
  /\ Receiving("join") /\ ~held
  /\ Tell({Head(channel).from}, <<"stranded">>)
  /\ UNCHANGED <<booksVars, slot, entry, registryVars, sessionVars, callVars, queue, pc, key,
                 joined, seen, notified, envVars>>

\* The acknowledgement reaches the wait it belongs to, the sender's latest.
ReceiveRelease ==
  /\ Receiving("release")
  /\ IF held THEN releaseAfter' = TRUE /\ UNCHANGED cached
             ELSE cached' = NoLoad /\ UNCHANGED releaseAfter
  /\ IF Head(channel).from \in Requests THEN Go(Head(channel).from, "loading") ELSE UNCHANGED pc
  /\ UNCHANGED <<booksVars, slot, entry, registryVars, at, base, filling, held, jobs, waiting, job,
                 spanned, callVars, queue, key, joined, updates, seen, notified, envVars>>

\* KEEP_IDLE is over.
IdleOut ==
  /\ at = "top" /\ ~held /\ channel = <<>> /\ cached # NoLoad
  /\ cached' = NoLoad
  /\ UNCHANGED <<booksVars, slot, entry, registryVars, channel, at, base, filling, held, jobs,
                 waiting, job, releaseAfter, spanned, callVars, clientVars, envVars>>

\* The channel drained: an old session stops admitting, and a step is due.
Turn ==
  /\ at = "top" /\ held /\ channel = <<>>
  /\ registry' = [registry EXCEPT !.accepting = @ /\ ~spanned]
  /\ at' = "step"
  /\ UNCHANGED <<booksVars, slot, entry, locked, channel, base, filling, held, jobs, waiting, job,
                 cached, releaseAfter, spanned, callVars, clientVars, envVars>>

---------------------------------------------------------------------------
(* Admission (`admit`, `admit_waiting`, `charge`).                          *)

HasRoom == Cardinality(jobs) < MaxSlots

\* Where an admission returns to: the loop over what waits, or its caller.
AfterAdmission == IF filling THEN "filling" ELSE base

\* admit_waiting: first come, first admitted, while there is room.
FillNext ==
  /\ at = "filling"
  /\ IF held /\ HasRoom /\ waiting # <<>>
     THEN job' = Head(waiting) /\ waiting' = Tail(waiting) /\ at' = "admitting" /\ UNCHANGED filling
     ELSE at' = base /\ filling' = FALSE /\ UNCHANGED <<job, waiting>>
  /\ UNCHANGED <<booksVars, slot, entry, registryVars, channel, base, held, jobs, cached,
                 releaseAfter, spanned, callVars, clientVars, envVars>>

\* Its client hung up before it was admitted.
DropAbandoned ==
  /\ at = "admitting" /\ ~Open(job)
  /\ job' = NoOne /\ at' = AfterAdmission
  /\ UNCHANGED <<booksVars, slot, entry, registryVars, channel, base, filling, held, jobs, waiting,
                 cached, releaseAfter, spanned, callVars, clientVars, envVars>>

\* No room, or a live batch whose next capture will price a joiner's graph.
HandBack ==
  /\ at = "admitting" /\ Open(job)
  /\ ~HasRoom \/ (job \in joined /\ jobs # {})
  /\ waiting' = IF filling THEN <<job>> \o waiting ELSE Append(waiting, job)
  /\ job' = NoOne /\ at' = base /\ filling' = FALSE
  /\ UNCHANGED <<booksVars, slot, entry, registryVars, channel, base, held, jobs, cached,
                 releaseAfter, spanned, callVars, clientVars, envVars>>

\* Mutant: the request that starts the session may be turned back too.
BounceStarter ==
  /\ at = "admitting" /\ Open(job) /\ HasRoom
  /\ Tell({job}, <<"bounced">>)
  /\ job' = NoOne /\ at' = AfterAdmission
  /\ UNCHANGED <<booksVars, slot, entry, registryVars, channel, base, filling, held, jobs, waiting,
                 cached, releaseAfter, spanned, callVars, queue, pc, key, joined, seen, notified,
                 envVars>>

\* A joiner the card or the host has no bytes for, or that nothing prices.
Bounce ==
  /\ at = "admitting" /\ Open(job) /\ HasRoom /\ job \in joined
  /\ Tell({job}, <<"bounced">>)
  /\ job' = NoOne /\ at' = AfterAdmission
  /\ UNCHANGED <<booksVars, slot, entry, registryVars, channel, base, filling, held, jobs, waiting,
                 cached, releaseAfter, spanned, callVars, queue, pc, key, joined, seen, notified,
                 envVars>>

---------------------------------------------------------------------------
(* Calls into the batcher (`step`, `guarded`).                              *)

\* Nothing live: only admissions are left to do.
StepEmpty ==
  /\ at = "step" /\ jobs = {}
  /\ at' = "filling" /\ filling' = TRUE /\ base' = "end"
  /\ UNCHANGED <<booksVars, slot, entry, registryVars, channel, held, jobs, waiting, job, cached,
                 releaseAfter, spanned, callVars, clientVars, envVars>>

\* An admission or a step is about to be made: it is marked first, and not
\* made at all on a model that is already condemned.
Guarded ==
  /\ \/ at = "admitting" /\ Open(job) /\ HasRoom /\ UNCHANGED base
     \/ at = "step" /\ jobs # {} /\ base' = "end"
  /\ mark' = Mark
  /\ at' = IF Condemned THEN "failing" ELSE "calling"
  /\ outcome' = "ok"
  /\ UNCHANGED <<booksVars, slot, entry, registryVars, channel, filling, held, jobs, waiting, job,
                 cached, releaseAfter, spanned, spoiled, made, clientVars, envVars>>

\* The call comes back; cubecl's text may have moved the global epoch.
CallReturns(how) ==
  /\ at = "calling"
  /\ at' = "judging"
  /\ outcome' = how
  /\ \/ /\ how = "device_text"
        /\ raised < MaxFailures /\ raised' = raised + 1
        /\ NoteUnattributedPanic \/ UNCHANGED booksVars
        /\ UNCHANGED <<outside, lateLoads, bugs, releases>>
     \/ /\ how \in {"error", "bug"}
        /\ bugs < MaxBugs /\ bugs' = bugs + 1
        /\ UNCHANGED <<booksVars, outside, lateLoads, raised, releases>>
     \/ how = "ok" /\ UNCHANGED <<booksVars, envVars>>
  /\ spoiled' = (epoch' # entry.stamp)
  /\ UNCHANGED <<slot, entry, registryVars, channel, base, filling, held, jobs, waiting, job,
                 cached, releaseAfter, spanned, mark, made, clientVars>>

\* The call is judged: its locals go.
Forget == mark' = NoMark /\ outcome' = "ok" /\ spoiled' = FALSE

\* Who the call was for.
Called == IF job = NoOne THEN jobs ELSE {job}

\* What one call can make of a sequence: a token, its last token, or a stop.
Events == {<<"token">>, <<"token", "done">>, <<"done">>}

Ends(event) == event # <<"token">>

\* Mutant: the token budget does not end a sequence.
EventsForever(r) == Events

EventsFor(r) == {e \in Events : made[r] + 1 = MaxTokens => Ends(e)}

Tokens(event) == IF Head(event) = "token" THEN 1 ELSE 0

\* Mutant: the epoch is not read after the call.
JudgedCleanAtOnce == outcome = "ok"

JudgedClean == outcome = "ok" /\ ~Moved(mark)

\* Every event is delivered; a sequence that stopped, or whose client is
\* gone, leaves the batch.
Deliver ==
  /\ at = "judging" /\ JudgedClean
  /\ \E event \in [Called -> Events] :
       /\ \A r \in Called : event[r] \in EventsFor(r)
       /\ updates' = [r \in Requests |-> IF r \in Called /\ Open(r) THEN updates[r] \o event[r]
                                         ELSE updates[r]]
       /\ LET live == {r \in Called : ~Ends(event[r]) /\ Open(r)}
          IN  /\ jobs' = (jobs \ Called) \cup live
              /\ made' = [r \in Requests |-> IF r \notin Called THEN made[r]
                                             ELSE IF r \in live THEN made[r] + Tokens(event[r])
                                             ELSE 0]
  /\ job' = NoOne
  /\ IF job = NoOne THEN at' = "filling" /\ filling' = TRUE
                    ELSE at' = AfterAdmission /\ UNCHANGED filling
  /\ Forget
  /\ UNCHANGED <<booksVars, slot, entry, registryVars, channel, base, held, waiting, cached,
                 releaseAfter, spanned, queue, pc, key, joined, seen, notified, envVars>>

\* Mutant: the sequence whose admission failed is not told.
FailOrdinaryLiveOnly ==
  /\ at = "judging" /\ outcome \in {"error", "bug"} /\ ~Moved(mark)
  /\ Tell(jobs, <<"failed">>)
  /\ jobs' = {} /\ job' = NoOne /\ cached' = entry.load
  /\ made' = [r \in Requests |-> 0]
  /\ at' = "filling" /\ filling' = TRUE
  /\ Forget
  /\ UNCHANGED <<booksVars, slot, entry, registryVars, channel, base, held, waiting, releaseAfter,
                 spanned, queue, pc, key, joined, seen, notified, envVars>>

\* fail_ordinary: the whole batch is told, and what waits gets a fresh one.
FailOrdinary ==
  /\ at = "judging" /\ outcome \in {"error", "bug"} /\ ~Moved(mark)
  /\ Tell({job} \cup jobs, <<"failed">>)
  /\ jobs' = {} /\ job' = NoOne /\ cached' = entry.load
  /\ made' = [r \in Requests |-> 0]
  /\ at' = "filling" /\ filling' = TRUE
  /\ Forget
  /\ UNCHANGED <<booksVars, slot, entry, registryVars, channel, base, held, waiting, releaseAfter,
                 spanned, queue, pc, key, joined, seen, notified, envVars>>

JudgeDeviceFailed ==
  /\ at = "judging"
  /\ outcome = "device_text" \/ Moved(mark)
  /\ at' = "failing"
  /\ UNCHANGED <<booksVars, slot, entry, registryVars, channel, base, filling, held, jobs, waiting,
                 job, cached, releaseAfter, spanned, callVars, clientVars, envVars>>

---------------------------------------------------------------------------
(* A device failure on the thread (`fail`), and the end of a session        *)
(* (`maybe_end`).                                                           *)

\* Mutant: the session still admits while its failure is decided.
FailClosesAdmitting ==
  /\ at = "failing" /\ ~locked
  /\ held' = FALSE
  /\ at' = "deciding"
  /\ UNCHANGED <<booksVars, slot, entry, registryVars, channel, base, filling, jobs, waiting, job,
                 cached, releaseAfter, spanned, callVars, clientVars, envVars>>

\* The session is over before anything is decided.  The registry's mutex is
\* not reentrant: under maybe_end's own lock this step never comes.
FailCloses ==
  /\ at = "failing" /\ ~locked
  /\ held' = FALSE
  /\ registry' = NoSession
  /\ at' = "deciding"
  /\ UNCHANGED <<booksVars, slot, entry, locked, channel, base, filling, jobs, waiting, job, cached,
                 releaseAfter, spanned, callVars, clientVars, envVars>>

\* Mutant: what waits for a slot in the batch is not told.
FailingLiveOnly == {job} \cup jobs

\* Every sequence the session holds, in admission, live or waiting.
Failing == {job} \cup jobs \cup ToSet(waiting)

FailDecides ==
  /\ at = "deciding"
  /\ RecordFailure(Attribute(mark, Placement))
  /\ Tell(Failing, <<"failed">>)
  /\ jobs' = {} /\ waiting' = <<>> /\ job' = NoOne /\ cached' = NoLoad
  /\ made' = [r \in Requests |-> 0]
  /\ at' = "evicting"
  /\ Forget
  /\ UNCHANGED <<slot, entry, registryVars, channel, base, filling, held, releaseAfter, spanned,
                 queue, pc, key, joined, seen, notified, envVars>>

FailEvicts ==
  /\ at = "evicting"
  /\ entry' = NoModel /\ slot' = NoOne
  /\ at' = "top" /\ filling' = FALSE
  /\ UNCHANGED <<booksVars, registryVars, channel, base, held, jobs, waiting, job, cached,
                 releaseAfter, spanned, callVars, clientVars, envVars>>

Busy == jobs # {} \/ waiting # <<>>

MaybeEnd ==
  /\ at = "end"
  /\ IF held /\ ~Busy THEN locked' = TRUE /\ at' = "ending" ELSE at' = "top" /\ UNCHANGED locked
  /\ UNCHANGED <<booksVars, slot, entry, registry, channel, base, filling, held, jobs, waiting, job,
                 cached, releaseAfter, spanned, callVars, clientVars, envVars>>

\* Under the lock, with the channel drained: over, unless somebody joined.
Close ==
  /\ at = "ending" /\ channel = <<>>
  /\ locked' = FALSE
  /\ IF Busy THEN at' = "top" /\ UNCHANGED registry
             ELSE at' = "closing" /\ registry' = NoSession
  /\ UNCHANGED <<booksVars, slot, entry, channel, base, filling, held, jobs, waiting, job, cached,
                 releaseAfter, spanned, callVars, clientVars, envVars>>

LetGo ==
  /\ at = "closing"
  /\ held' = FALSE /\ slot' = NoOne
  /\ cached' = IF releaseAfter THEN NoLoad ELSE cached
  /\ releaseAfter' = FALSE
  /\ at' = "top"
  /\ UNCHANGED <<booksVars, entry, registryVars, channel, base, filling, jobs, waiting, job,
                 spanned, callVars, clientVars, envVars>>

---------------------------------------------------------------------------
(* The environment.                                                         *)

DeviceFails(d) ==
  /\ raised < MaxFailures /\ raised' = raised + 1
  /\ NoteDevicePanic(d)
  /\ UNCHANGED <<slot, entry, registryVars, channel, sessionVars, callVars, clientVars, outside,
                 lateLoads, bugs, releases>>

\* An outsider comes back with a device failure's text, or panics with it.
FailsOutside(c) ==
  /\ outside[c] = "none"
  /\ raised < MaxFailures /\ raised' = raised + 1
  /\ NoteUnattributedPanic \/ UNCHANGED booksVars
  /\ outside' = [outside EXCEPT ![c] = "failed"]
  /\ UNCHANGED <<slot, entry, registryVars, channel, sessionVars, callVars, clientVars, lateLoads,
                 bugs, releases>>

\* contain: the failure is decided, and an exit latched, whoever holds the
\* slot.  It is charged to the devices that failed since the call began,
\* whenever that was.
Contain(c) ==
  /\ outside[c] = "failed"
  /\ \E devices \in SUBSET {d \in Devices : book[d].epoch > 0} :
       RecordFailure(IF devices = {} THEN {Unattributed} ELSE devices)
  /\ outside' = [outside EXCEPT ![c] = "decided"]
  /\ UNCHANGED <<slot, entry, registryVars, channel, sessionVars, callVars, clientVars, lateLoads,
                 raised, bugs, releases>>

\* evict_after_device_failure: drain, and send; then the model goes as in
\* UnloadIdle.
EvictElsewhere(c) ==
  /\ outside[c] = "decided" /\ ~locked
  /\ registry' = [registry EXCEPT !.accepting = FALSE]
  /\ Post("release", NoOne)
  /\ outside' = [outside EXCEPT ![c] = "none"]
  /\ UNCHANGED <<booksVars, slot, entry, locked, sessionVars, callVars, clientVars, lateLoads,
                 raised, bugs, releases>>

\* SESSION_SPAN is over.
SpanElapses ==
  /\ held /\ ~spanned
  /\ spanned' = TRUE
  /\ UNCHANGED <<booksVars, slot, entry, registryVars, channel, at, base, filling, held, jobs,
                 waiting, job, cached, releaseAfter, callVars, clientVars, envVars>>

\* The card is wanted elsewhere: drain, and send ...
ReleaseBatch ==
  /\ ~locked
  /\ releases < MaxReleases /\ releases' = releases + 1
  /\ registry' = [registry EXCEPT !.accepting = FALSE]
  /\ Post("release", NoOne)
  /\ UNCHANGED <<booksVars, slot, entry, locked, sessionVars, callVars, clientVars, outside,
                 lateLoads, raised, bugs>>

\* ... and the model goes if nobody holds the slot or waits for it.
UnloadIdle ==
  /\ slot = NoOne /\ queue = <<>> /\ entry # NoModel
  /\ entry' = NoModel
  /\ UNCHANGED <<booksVars, slot, registryVars, channel, sessionVars, callVars, clientVars,
                 envVars>>

TimePasses ==
  /\ CooldownEnds
  /\ UNCHANGED <<slot, entry, registryVars, channel, sessionVars, callVars, clientVars, envVars>>

---------------------------------------------------------------------------

Reads(r) == ReadToken(r) \/ ReadBounce(r) \/ ReadEnd(r)

Serving(r) ==
  \/ Queue(r) \/ TakeSlot(r) \/ RefuseLoad(r) \/ ReleaseWait(r) \/ LoadLands(r) \/ LoadFails(r)
  \/ ServingFailed(r) \/ Publish(r) \/ SendStart(r) \/ Reads(r)

RequestNext(r) == Arrive(r) \/ Join(r) \/ JoinMissed(r) \/ HangUp(r) \/ Serving(r)

ThreadStep ==
  \/ ReceiveStart \/ ReceiveJoin \/ StrandJoin \/ ReceiveRelease \/ Turn
  \/ FillNext \/ DropAbandoned \/ HandBack \/ Bounce
  \/ StepEmpty \/ Guarded \/ \E how \in Outcomes : CallReturns(how)
  \/ Deliver \/ FailOrdinary \/ JudgeDeviceFailed
  \/ FailCloses \/ FailDecides \/ FailEvicts \/ MaybeEnd \/ Close \/ LetGo

Next ==
  \/ \E r \in Requests : RequestNext(r)
  \/ ThreadStep \/ IdleOut \/ SpanElapses \/ ReleaseBatch \/ UnloadIdle \/ TimePasses
  \/ \E d \in Accelerators : DeviceFails(d)
  \/ \E c \in Outsiders : FailsOutside(c) \/ Contain(c) \/ EvictElsewhere(c)

Spec == Init /\ [][Next]_vars

(* Fairness: the thread runs, the runtime polls every request, a session    *)
(* grows old.  The thread holds the registry's mutex for an instant at a    *)
(* time, so whoever asks for it gets it; and it drains its channel faster   *)
(* than clients who come and hang up fill it.                               *)
Fairness ==
  /\ WF_vars(ThreadStep) /\ WF_vars(SpanElapses)
  /\ SF_vars(Turn) /\ SF_vars(Close)
  /\ \A r \in Requests : WF_vars(Serving(r)) /\ SF_vars(Queue(r))

FairSpec == Spec /\ Fairness

---------------------------------------------------------------------------
(* Properties.                                                              *)

\* Nobody's job is lost: a request that listens has its job in the channel,
\* in the batch or before it, or an unread answer.  (handle: "said rather
\* than dropped"; fail: "told to every sequence the session holds, live or
\* waiting".)
NobodyIsForgotten ==
  \A r \in Requests : Open(r) => InThread(r) \/ updates[r] # <<>>

\* A registry that admits names the model that is in the slot, fresh or not,
\* and that model is the thread's or on its way there.  (join: "decided under
\* the registry lock".)
AdmittingSessionIsReal ==
  registry.accepting =>
    /\ entry # NoModel /\ entry.key = registry.key
    /\ slot = Thread \/ (slot \in Requests /\ pc[slot] = "sending")

\* A load never lands beside the batch of the last model.  (release_wait:
\* "before a load, whose bytes must not land beside the last model's batch".)
NoBatchBesideALoad == \A r \in Requests : pc[r] = "loading" => cached = NoLoad

\* No event of a call a device failed under, or of a condemned model, is sent.
\* (guarded: "any movement is a device failure whatever the call returned".)
SentTokensAreClean ==
  [][\A r \in Requests :
       /\ at = "judging"
       /\ Len(updates'[r]) > Len(updates[r]) /\ Last(updates'[r]) # "failed"
       => ~spoiled]_vars

\* Once an exit is latched, wherever it was decided, a session runs only on a
\* model known to be stale, and what its call in progress makes is refused:
\* but for the one load that was past its check of the latch, and comes up
\* clean after it.  (run_chat: "the failure that latched the restart moved the
\* fault epoch, so every resident model is stale and the slot must load";
\* load_for_slot refuses to during a restart.)
LatchEndsSessions ==
  /\ lateLoads <= 1
  /\ exiting /\ lateLoads = 0 =>
       /\ held \/ registry.accepting => Condemned
       /\ at = "calling" => Moved(mark)

\* What a request hears is an answer as AnswerStream promises it: within the
\* budget, ended once and for all, and only a joiner is turned back, before
\* anything else.  (generate_batched: "Only ever an admission's first answer
\* ...; a starter is never turned back".)
Promise == INSTANCE AnswerStream WITH
    listening <- {r \in Requests : Open(r)}, joiners <- joined, unread <- updates,
    said <- [r \in Requests |-> IF Open(r) THEN made[r] ELSE 0], Budget <- MaxTokens

AnswersAsPromised == Promise!Spec

\* Every request comes back.
EveryRequestReturns == \A r \in Requests : pc[r] # "idle" ~> pc[r] = "idle"

\* A request that joined is answered.  (join: "a join it has accepted is never
\* stranded".)
JoinIsAnswered == \A r \in Requests : pc[r] = "joining" ~> pc[r] # "joining"
============================================================================
