--------------------------- MODULE ModelServing ---------------------------
(***************************************************************************)
(* Chat requests, retrieval calls and background evictors around the one    *)
(* model slot (engine.rs `drive`, `serve_held`, `load_for_slot`; cache.rs   *)
(* ModelSlot; recovery.rs `contain`; retrieval.rs `run`), while the devices *)
(* under them fail.                                                         *)
(*                                                                          *)
(* The generation here is the one `generate_on` runs under the slot guard;  *)
(* the batched one, on the decode thread, is module DecodeThread.           *)
(*                                                                          *)
(* Device work is asynchronous: an upload is submitted and the loader goes  *)
(* on.  `doomed` holds the devices whose queue carries an allocation that   *)
(* will fail; running it panics on the device thread, where the panic is    *)
(* caught, and only the recovery hook sees it (NoteDevicePanic).  A sync or *)
(* a read of a device waits for its queue.                                  *)
(***************************************************************************)
EXTENDS RecoveryBooks

CONSTANTS
  Requests,    \* chat requests
  Retrievals,  \* embedding and reranking calls
  Models,      \* model directories, the keys of the slot
  Placements,  \* device sets a load may touch
  MaxTokens,   \* a request's token budget
  NoOne,       \* the slot's lock is free
  NoModel,     \* the slot is empty; no load is running
  MaxFailures, \* bound: device failures the environment raises
  MaxBugs      \* bound: ordinary panics, which are nobody's device failure

ASSUME ServingAssumption ==
  /\ NoOne \notin Requests \cup Retrievals
  /\ Requests \cap Retrievals = {}
  /\ Placements \subseteq (SUBSET (Accelerators \cup {Host})) \ {{}}
  /\ NoModel \notin [key : Models, stamp : Nat, devices : SUBSET Devices, sound : BOOLEAN]
  /\ MaxTokens \in Nat \ {0}
  /\ MaxFailures \in Nat
  /\ MaxBugs \in Nat

Clients == Requests \cup Retrievals

VARIABLES
  slot,      \* who holds SLOT's lock
  entry,     \* the resident model: its key, its fault_epoch, its devices
  build,     \* the load in progress, not in the slot yet
  doomed,    \* devices with a failing allocation in their queue
  pc,        \* where each client is
  key,       \* the model each chat request wants
  outer,     \* `contain`'s mark
  mark,      \* the load's or the generation's mark
  outcome,   \* how the guarded call returned
  tokens,    \* tokens delivered to the client
  tainted,   \* history: the token in hand was computed after a failure
  raised,    \* history: device failures raised
  decided,   \* history: device failures recorded and decided
  lateLoads, \* history: loads begun after an exit was latched
  bugs       \* ordinary panics raised so far

slotVars == <<slot, entry, build, doomed>>
callVars == <<key, outer, mark, outcome, tokens, tainted>>
histVars == <<raised, decided, lateLoads, bugs>>
vars == <<booksVars, slotVars, pc, callVars, histVars>>

\* How a guarded call comes back.
Outcomes == {"ok", "error", "device_text", "bug"}

Model == [key : Models, stamp : Nat, devices : SUBSET Devices, sound : BOOLEAN]

\* Where a client holds the slot's lock.
Loading == {"planning", "preparing", "loading", "syncing", "verified", "load_failed"}
Serving == {"resident", "arming", "generating", "token", "emit", "returned", "evicting"}
Holding == Loading \cup Serving \cup {"computing", "unwinding"}
Steps == Holding \cup {"idle", "queued", "escaped", "evict_elsewhere"}

TypeOK ==
  /\ BooksTypeOK
  /\ slot \in Clients \cup {NoOne}
  /\ entry \in Model \cup {NoModel}
  /\ build \in Model \cup {NoModel}
  /\ doomed \subseteq Accelerators
  /\ pc \in [Clients -> Steps]
  /\ key \in [Requests -> Models]
  /\ outer \in [Clients -> Marks]
  /\ mark \in [Clients -> Marks]
  /\ outcome \in [Clients -> Outcomes]
  /\ tokens \in [Clients -> 0..MaxTokens]
  /\ tainted \in [Clients -> BOOLEAN]
  /\ raised \in Nat /\ decided \in Nat /\ lateLoads \in Nat /\ bugs \in Nat

NoMark == [global |-> 0, devices |-> [d \in Devices |-> 0]]

Init ==
  /\ BooksInit
  /\ slot = NoOne /\ entry = NoModel /\ build = NoModel /\ doomed = {}
  /\ pc = [c \in Clients |-> "idle"]
  /\ key \in [Requests -> Models]
  /\ outer = [c \in Clients |-> NoMark]
  /\ mark = [c \in Clients |-> NoMark]
  /\ outcome = [c \in Clients |-> "ok"]
  /\ tokens = [c \in Clients |-> 0]
  /\ tainted = [c \in Clients |-> FALSE]
  /\ raised = 0 /\ decided = 0 /\ lateLoads = 0 /\ bugs = 0

Go(c, step) == pc' = [pc EXCEPT ![c] = step]

\* The call returns: its locals go with it.
Return(c) ==
  /\ Go(c, "idle")
  /\ outer' = [outer EXCEPT ![c] = NoMark]
  /\ mark' = [mark EXCEPT ![c] = NoMark]
  /\ outcome' = [outcome EXCEPT ![c] = "ok"]
  /\ tokens' = [tokens EXCEPT ![c] = 0]
  /\ tainted' = [tainted EXCEPT ![c] = FALSE]
  /\ UNCHANGED key

\* Loaded::condemned: a device failed since the model's load began.
Condemned == entry.stamp # epoch

\* A failure is charged, decided and recorded in one step.
Charge(devices) ==
  RecordFailure(devices) /\ decided' = decided + 1 /\ UNCHANGED <<raised, lateLoads, bugs>>

Raise == raised < MaxFailures /\ raised' = raised + 1 /\ UNCHANGED <<decided, lateLoads, bugs>>

\* A call under a guard comes back as `how`.  cubecl's text is an error its
\* caller reads, or a panic on this thread, which the hook sees as well.
ComesBack(c, how) ==
  /\ outcome' = [outcome EXCEPT ![c] = how]
  /\ CASE how = "device_text" -> Raise /\ (NoteUnattributedPanic \/ UNCHANGED booksVars)
       [] how = "bug" -> /\ bugs < MaxBugs /\ bugs' = bugs + 1
                         /\ UNCHANGED <<raised, decided, lateLoads, booksVars>>
       [] OTHER -> UNCHANGED <<histVars, booksVars>>
  /\ UNCHANGED <<key, outer, mark, tokens, tainted>>

---------------------------------------------------------------------------
(* The devices, and time.                                                   *)

\* A device fails on its own thread: another client's work, an activation.
DeviceFails(d) ==
  /\ Raise
  /\ NoteDevicePanic(d)
  /\ UNCHANGED <<slotVars, pc, callVars>>

\* A device's queue reaches the allocation that cannot be served.
DoomedRuns(d) ==
  /\ d \in doomed
  /\ doomed' = doomed \ {d}
  /\ NoteDevicePanic(d)
  /\ UNCHANGED <<slot, entry, build, pc, callVars, histVars>>

TimePasses == CooldownEnds /\ UNCHANGED <<slotVars, pc, callVars, histVars>>

\* POST /api/unload, the placement watch, host pressure: only a free slot.
UnloadIdle ==
  /\ slot = NoOne /\ entry # NoModel
  /\ entry' = NoModel
  /\ UNCHANGED <<booksVars, slot, build, doomed, pc, callVars, histVars>>

---------------------------------------------------------------------------
(* Arrival, and the slot.                                                   *)

\* The entry points refuse a new call during a restart; `contain` marks.
Arrive(c) ==
  /\ pc[c] = "idle" /\ ~exiting
  /\ Go(c, "queued")
  /\ \/ c \in Requests /\ \E m \in Models : key' = [key EXCEPT ![c] = m]
     \/ c \in Retrievals /\ UNCHANGED key
  /\ outer' = [outer EXCEPT ![c] = Mark]
  /\ UNCHANGED <<booksVars, slotVars, mark, outcome, tokens, tainted, histVars>>

RefuseArrival(c) == pc[c] = "idle" /\ exiting /\ UNCHANGED vars

\* The client hangs up while its request waits for the slot.
Leave(r) ==
  /\ pc[r] = "queued"
  /\ Return(r)
  /\ UNCHANGED <<booksVars, slotVars, histVars>>

Hit(r) == entry # NoModel /\ entry.key = key[r] /\ ~Condemned

\* acquire_valid: the key and the stamp are compared under the lock, and
\* what fails either is dropped before anything is loaded.
TakeSlot(r) ==
  /\ pc[r] = "queued" /\ slot = NoOne
  /\ slot' = r
  /\ IF Hit(r) THEN Go(r, "resident") /\ UNCHANGED entry
               ELSE Go(r, "planning") /\ entry' = NoModel
  /\ UNCHANGED <<booksVars, build, doomed, callVars, histVars>>

\* Dropping the guard hands the slot on with whatever is in it.
GiveBack(c) ==
  /\ \/ pc[c] = "load_failed"
     \/ pc[c] = "resident"          \* the client hung up meanwhile
  /\ slot' = NoOne
  /\ Return(c)
  /\ UNCHANGED <<booksVars, entry, build, doomed, histVars>>

---------------------------------------------------------------------------
(* load_for_slot, under the lock and with the slot empty.                   *)

RefuseLoad(r) ==
  /\ pc[r] = "planning" /\ exiting
  /\ Go(r, "load_failed")
  /\ UNCHANGED <<booksVars, slotVars, callVars, histVars>>

\* Past its check of the latch, a load lets go of what the last model left,
\* waits for the decode thread and may have to be planned afresh.
Prepare(r) ==
  /\ pc[r] = "planning" /\ ~exiting
  /\ Go(r, "preparing")
  /\ UNCHANGED <<booksVars, slotVars, callVars, histVars>>

\* Mutant: the load is compared with the mark `contain` took on arrival.
BeginLoadOnTheOuterMark(r) ==
  /\ pc[r] = "preparing"
  /\ \E devices \in Placements :
       build' = [key |-> key[r], stamp |-> epoch, devices |-> devices, sound |-> TRUE]
  /\ mark' = [mark EXCEPT ![r] = outer[r]]
  /\ lateLoads' = IF exiting THEN lateLoads + 1 ELSE lateLoads
  /\ Go(r, "loading")
  /\ UNCHANGED <<booksVars, slot, entry, doomed, key, outer, outcome, tokens, tainted, raised,
                 decided, bugs>>

\* The latch is not looked at again.
BeginLoad(r) ==
  /\ pc[r] = "preparing"
  /\ \E devices \in Placements :
       build' = [key |-> key[r], stamp |-> epoch, devices |-> devices, sound |-> TRUE]
  /\ mark' = [mark EXCEPT ![r] = Mark]
  /\ lateLoads' = IF exiting THEN lateLoads + 1 ELSE lateLoads
  /\ Go(r, "loading")
  /\ UNCHANGED <<booksVars, slot, entry, doomed, key, outer, outcome, tokens, tainted, raised,
                 decided, bugs>>

\* An upload is submitted whose allocation will not be served.
SubmitDoomed(r, d) ==
  /\ pc[r] = "loading" /\ d \in build.devices \cap Accelerators /\ d \notin doomed
  /\ Raise
  /\ doomed' = doomed \cup {d}
  /\ build' = [build EXCEPT !.sound = FALSE]
  /\ UNCHANGED <<booksVars, slot, entry, pc, callVars>>

LoaderReturns(r, how) ==
  /\ pc[r] = "loading"
  /\ ComesBack(r, how)
  /\ Go(r, "syncing")
  /\ UNCHANGED slotVars

\* Mutant: the epoch is compared without waiting for the devices.
SyncedAtOnce == TRUE

\* sync_devices: every device the load touched has run its queue.
Synced == doomed \cap build.devices = {}

LoadVerified(r) ==
  /\ pc[r] = "syncing" /\ Synced
  /\ ~Moved(mark[r]) /\ outcome[r] = "ok"
  /\ Go(r, "verified")
  /\ UNCHANGED <<booksVars, slotVars, callVars, histVars>>

\* load_fault, or cubecl's text in the loader's own answer.
LoadFault(r) ==
  /\ pc[r] = "syncing" /\ Synced
  /\ Moved(mark[r]) \/ outcome[r] = "device_text"
  /\ Charge(Attribute(mark[r], build.devices))
  /\ build' = NoModel
  /\ Go(r, "load_failed")
  /\ UNCHANGED <<slot, entry, doomed, callVars>>

\* The sync itself reports an error: that device is charged.
SyncRefused(r, d) ==
  /\ pc[r] = "syncing" /\ Synced /\ d \in build.devices
  /\ ~Moved(mark[r])
  /\ raised < MaxFailures /\ raised' = raised + 1 /\ UNCHANGED <<lateLoads, bugs>>
  /\ RecordFailure({d}) /\ decided' = decided + 1
  /\ build' = NoModel
  /\ Go(r, "load_failed")
  /\ UNCHANGED <<slot, entry, doomed, callVars>>

\* An ordinary error or an ordinary panic: nothing is charged.
LoadError(r) ==
  /\ pc[r] = "syncing" /\ Synced
  /\ ~Moved(mark[r]) /\ outcome[r] \in {"error", "bug"}
  /\ Go(r, IF outcome[r] = "bug" THEN "unwinding" ELSE "load_failed")
  /\ build' = NoModel
  /\ UNCHANGED <<booksVars, slot, entry, doomed, callVars, histVars>>

\* load_succeeded takes the books' lock again, after the check.
LoadLands(r) ==
  /\ pc[r] = "verified"
  /\ LoadSucceeded(build.devices)
  /\ entry' = build
  /\ build' = NoModel
  /\ Go(r, "resident")
  /\ UNCHANGED <<slot, doomed, callVars, histVars>>

---------------------------------------------------------------------------
(* serve_held, under the lock with a model in the slot.                     *)

StartServing(r) ==
  /\ pc[r] = "resident"
  /\ mark' = [mark EXCEPT ![r] = Mark]
  /\ Go(r, "arming")
  /\ UNCHANGED <<booksVars, slotVars, key, outer, outcome, tokens, tainted, histVars>>

\* before_request moves layers: an upload like a load's, but not synced.
MoveDoomed(r, d) ==
  /\ pc[r] = "arming" /\ d \in entry.devices \cap Accelerators /\ d \notin doomed
  /\ Raise
  /\ doomed' = doomed \cup {d}
  /\ entry' = [entry EXCEPT !.sound = FALSE]
  /\ UNCHANGED <<booksVars, slot, build, pc, callVars>>

Armed(r) ==
  /\ pc[r] = "arming"
  /\ Go(r, IF Condemned THEN "returned" ELSE "generating")
  /\ UNCHANGED <<booksVars, slotVars, callVars, histVars>>

\* Mutant: one token more than the request asked for.
BudgetOffByOne(r) == tokens[r] <= MaxTokens

Budget(r) == tokens[r] < MaxTokens

\* The next token is computed and read back: its devices' queues have run.
Forward(r) ==
  /\ pc[r] = "generating" /\ Budget(r)
  /\ doomed \cap entry.devices = {}
  /\ Go(r, "token")
  /\ tainted' = [tainted EXCEPT ![r] = Condemned \/ ~entry.sound]
  /\ UNCHANGED <<booksVars, slotVars, key, outer, mark, outcome, tokens, histVars>>

\* Mutant: the token callback lets every token through.
JudgeTokenUnseen(r) ==
  /\ pc[r] = "token"
  /\ Go(r, "emit")
  /\ UNCHANGED <<booksVars, slotVars, callVars, histVars>>

\* The token callback refuses a token of a condemned model ...
JudgeToken(r) ==
  /\ pc[r] = "token"
  /\ Go(r, IF Condemned THEN "returned" ELSE "emit")
  /\ UNCHANGED <<booksVars, slotVars, callVars, histVars>>

\* ... and the first one it lets through vouches for the model's devices.
EmitToken(r) ==
  /\ pc[r] = "emit"
  /\ IF tokens[r] = 0 THEN GenerationSucceeded(entry.devices) ELSE UNCHANGED booksVars
  /\ tokens' = [tokens EXCEPT ![r] = @ + 1]
  /\ Go(r, "generating")
  /\ UNCHANGED <<slotVars, key, outer, mark, outcome, tainted, histVars>>

GenerationReturns(r, how) ==
  /\ pc[r] \in {"arming", "generating"}
  /\ how = "ok" => pc[r] = "generating"
  /\ ComesBack(r, how)
  /\ Go(r, "returned")
  /\ UNCHANGED slotVars

\* What serve_held takes for a device failure when its call has returned.
DeviceFailed(r) ==
  \/ outcome[r] = "device_text"
  \/ outcome[r] \in {"ok", "error"} /\ Condemned
  \/ outcome[r] = "bug" /\ Moved(mark[r])

Answer(r) ==
  /\ pc[r] = "returned" /\ ~DeviceFailed(r) /\ outcome[r] # "bug"
  /\ slot' = NoOne
  /\ Return(r)
  /\ UNCHANGED <<booksVars, entry, build, doomed, histVars>>

\* resume_unwind: an ordinary bug leaves the model in the slot.
Resume(r) ==
  /\ pc[r] = "returned" /\ ~DeviceFailed(r) /\ outcome[r] = "bug"
  /\ Go(r, "unwinding")
  /\ UNCHANGED <<booksVars, slotVars, callVars, histVars>>

ServingFailed(r) ==
  /\ pc[r] = "returned" /\ DeviceFailed(r)
  /\ Charge(Attribute(mark[r], entry.devices))
  /\ Go(r, "evicting")
  /\ UNCHANGED <<slotVars, callVars>>

\* Mutant: the eviction keeps the lock.
EvictHeldAndKeep(r) ==
  /\ pc[r] = "evicting"
  /\ entry' = NoModel
  /\ Return(r)
  /\ UNCHANGED <<booksVars, slot, build, doomed, histVars>>

\* evict_held: the model is dropped before the lock is released.
EvictHeld(r) ==
  /\ pc[r] = "evicting"
  /\ entry' = NoModel
  /\ slot' = NoOne
  /\ Return(r)
  /\ UNCHANGED <<booksVars, build, doomed, histVars>>

---------------------------------------------------------------------------
(* Retrieval on the accelerator, under the slot's lock but not its model.   *)

\* The retrieval model's own load fails; the slot it held for it is free again
\* before `contain` decides anything.
RetrievalLoadFails(t) ==
  /\ pc[t] = "queued"
  /\ ComesBack(t, "device_text")
  /\ Go(t, "escaped")
  /\ UNCHANGED slotVars

HoldSlot(t) ==
  /\ pc[t] = "queued" /\ slot = NoOne
  /\ slot' = t
  /\ Go(t, "computing")
  /\ UNCHANGED <<booksVars, entry, build, doomed, callVars, histVars>>

ComputeDone(t) ==
  /\ pc[t] = "computing"
  /\ slot' = NoOne
  /\ Return(t)
  /\ UNCHANGED <<booksVars, entry, build, doomed, histVars>>

ComputePanics(t, how) ==
  /\ pc[t] = "computing" /\ how \in {"device_text", "bug"}
  /\ ComesBack(t, how)
  /\ Go(t, "unwinding")
  /\ UNCHANGED slotVars

---------------------------------------------------------------------------
(* contain, around every chat and every retrieval.                          *)

\* The unwinding drops the guard before `contain` catches anything.
Unwind(c) ==
  /\ pc[c] = "unwinding"
  /\ slot' = NoOne
  /\ Go(c, "escaped")
  /\ UNCHANGED <<booksVars, entry, build, doomed, callVars, histVars>>

Contain(c) ==
  /\ pc[c] = "escaped"
  /\ IF outcome[c] = "device_text" \/ Moved(outer[c])
     THEN Charge(Attribute(outer[c], {})) /\ Go(c, "evict_elsewhere") /\ UNCHANGED callVars
     ELSE Return(c) /\ UNCHANGED <<booksVars, histVars>>
  /\ UNCHANGED slotVars

\* evict_after_device_failure: the slot is cleared if nobody holds it.
EvictElsewhere(c) ==
  /\ pc[c] = "evict_elsewhere"
  /\ entry' = IF slot = NoOne THEN NoModel ELSE entry
  /\ Return(c)
  /\ UNCHANGED <<booksVars, slot, build, doomed, histVars>>

---------------------------------------------------------------------------

LoadStep(r) ==
  \/ RefuseLoad(r) \/ Prepare(r) \/ BeginLoad(r)
  \/ \E how \in Outcomes : LoaderReturns(r, how)
  \/ LoadVerified(r) \/ LoadFault(r) \/ LoadError(r) \/ LoadLands(r)

ServeStep(r) ==
  \/ StartServing(r) \/ Armed(r) \/ Forward(r) \/ JudgeToken(r) \/ EmitToken(r)
  \/ \E how \in Outcomes : GenerationReturns(r, how)
  \/ Answer(r) \/ Resume(r) \/ ServingFailed(r) \/ EvictHeld(r)

RequestNext(r) ==
  \/ Leave(r) \/ TakeSlot(r) \/ GiveBack(r)
  \/ LoadStep(r) \/ ServeStep(r)
  \/ \E d \in Devices : SubmitDoomed(r, d) \/ SyncRefused(r, d) \/ MoveDoomed(r, d)

RetrievalNext(t) ==
  \/ RetrievalLoadFails(t) \/ HoldSlot(t) \/ ComputeDone(t)
  \/ \E how \in Outcomes : ComputePanics(t, how)

ClientNext(c) == Arrive(c) \/ RefuseArrival(c) \/ Unwind(c) \/ Contain(c) \/ EvictElsewhere(c)

Next ==
  \/ \E r \in Requests : RequestNext(r)
  \/ \E t \in Retrievals : RetrievalNext(t)
  \/ \E c \in Clients : ClientNext(c)
  \/ \E d \in Accelerators : DeviceFails(d) \/ DoomedRuns(d)
  \/ UnloadIdle \/ TimePasses

Spec == Init /\ [][Next]_vars

(* Fairness: the runtime polls every request, a guarded call comes back (the *)
(* budget bounds a generation), a device thread runs its queue, and tokio's  *)
(* mutex is a FIFO queue, so no waiter for the slot is passed over for ever. *)
Fairness ==
  /\ \A r \in Requests : WF_vars(LoadStep(r)) /\ WF_vars(ServeStep(r)) /\ WF_vars(GiveBack(r))
                         /\ SF_vars(TakeSlot(r))
  /\ \A t \in Retrievals : SF_vars(HoldSlot(t)) /\ WF_vars(ComputeDone(t))
  /\ \A c \in Clients : WF_vars(Unwind(c)) /\ WF_vars(Contain(c)) /\ WF_vars(EvictElsewhere(c))
  /\ \A d \in Accelerators : WF_vars(DoomedRuns(d))

FairSpec == Spec /\ Fairness

---------------------------------------------------------------------------
(* Properties.                                                              *)

\* A model enters the slot only with every allocation of its load served,
\* however late a device reports the one that was not.  (load_for_slot: "a
\* load is only a load once the device has finished what it was given and
\* did not fail doing it".)
OnlySoundModelsLand ==
  [][entry = NoModel /\ entry' # NoModel => entry'.sound]_vars

\* A token handed to the client was computed with no device failure between
\* the start of its model's load and the end of its forward, on weights that
\* are all there.  (generate_on's per-token check.)
EmittedTokensAreClean == \A r \in Requests : pc[r] = "emit" => ~tainted[r]

\* Weights a failed allocation spoiled are told apart: the model's stamp is
\* behind the epoch, or the failure still waits in the queue of one of its
\* devices, ahead of every read of them.  (Loaded.fault_epoch.)
SpoiledModelsAreKnown ==
  entry # NoModel /\ ~entry.sound =>
    entry.stamp < epoch \/ doomed \cap entry.devices # {}

\* Once an exit is latched, whatever is resident or lands later is stale: but
\* for the one load that was past its check of the latch and began after it.
\* (run_chat: "the failure that latched the restart moved the fault epoch, so
\* every resident model is stale and the slot must load".)
NothingServableAfterLatch ==
  /\ lateLoads <= 1
  /\ exiting /\ lateLoads = 0 /\ entry # NoModel => Condemned

\* No device failure is decided twice: every decision answers a failure of
\* its own.  (the module header of recovery.rs: "a SECOND device failure
\* follows the first".)
EveryDecisionHasItsFailure == decided <= raised

\* The process restarts itself only after two device failures.
RestartNeedsTwoFailures == exiting => raised >= 2

\* Every call that arrives comes back.
EveryCallReturns == \A c \in Clients : pc[c] # "idle" ~> pc[c] = "idle"

---------------------------------------------------------------------------
(* The inductive invariant behind the safety properties (proved in          *)
(* ModelServingProofs).                                                     *)

\* Who is where: one holder, and each step belongs to one kind of client.
HolderInv ==
  /\ \A c \in Clients : pc[c] \in Holding <=> slot = c
  /\ \A r \in Requests : pc[r] # "computing"
  /\ \A t \in Retrievals : pc[t] \notin Loading \cup Serving

Building == {"loading", "syncing", "verified"}

\* The slot is empty while it is loaded into, and full while it is served.
ContentInv ==
  /\ \A r \in Requests : pc[r] \in Loading => entry = NoModel
  /\ \A r \in Requests : pc[r] \in Serving => entry # NoModel
  /\ \A r \in Requests : pc[r] \in Building => build # NoModel /\ build.stamp = mark[r].global
  /\ build # NoModel => \E r \in Requests : pc[r] \in Building

\* A stamp is a past epoch, and a behind one once an exit is latched.
StampInv(model) ==
  model # NoModel =>
    /\ model.stamp <= epoch
    /\ exiting /\ lateLoads = 0 => model.stamp < epoch

\* The one load a latch finds past its check is the last.
LateInv ==
  /\ lateLoads <= 1
  /\ lateLoads = 1 => exiting /\ \A r \in Requests : pc[r] # "preparing"

\* Spoiled weights are known, or will be before anyone reads them.
SpoiledInv(model) ==
  model # NoModel /\ ~model.sound => model.stamp < epoch \/ doomed \cap model.devices # {}

TokenInv ==
  \A r \in Requests :
    /\ pc[r] = "verified" => build.sound
    /\ pc[r] \in {"token", "emit"} => tokens[r] < MaxTokens
    /\ pc[r] = "token" /\ tainted[r] => entry.stamp < epoch
    /\ pc[r] = "emit" => ~tainted[r]

SafetyInv ==
  /\ HolderInv
  /\ ContentInv
  /\ StampInv(entry) /\ StampInv(build)
  /\ SpoiledInv(entry) /\ SpoiledInv(build)
  /\ TokenInv

IInv == TypeOK /\ SafetyInv /\ LateInv
============================================================================
