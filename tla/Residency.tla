----------------------------- MODULE Residency -----------------------------
(***************************************************************************)
(* What mummu-serve believes is resident, beside what is: the notes the     *)
(* planner takes (engine.rs RESIDENT), the phase and name the progress bar  *)
(* shows (progress.rs), and the model slot.  Chat requests, the decode      *)
(* thread and the evictors change the three one after another, in steps     *)
(* that others can come between; only the slot is held while they do.       *)
(*                                                                          *)
(* What a device failure decides is RecoveryBooks' subject: here one has    *)
(* happened or not, and may have latched an exit.                           *)
(***************************************************************************)
CONSTANTS
  Requests,  \* chat requests
  Models,    \* model directories
  Noted,     \* the models plan_fresh takes a note of: GGUF, not placed by layers
  Backends,  \* BackendChoice
  Cpu,       \* the host among them
  Evictions, \* bound: the kinds of eviction that happen
  NoModel,   \* an empty slot, an unused backend, a bar without a name
  NoOne,     \* the slot is free, no load has begun
  Thread     \* the decode thread, as a holder of the slot

ASSUME ResidencyAssumption ==
  /\ NoModel \notin Models
  /\ Noted \subseteq Models
  /\ Cpu \in Backends
  /\ Evictions \subseteq {"unload", "pressure", "placement", "moved", "contained"}
  /\ NoOne \notin Requests /\ Thread \notin Requests /\ NoOne # Thread

VARIABLES
  slot, entry,  \* SLOT's holder, its resident model
  notes,        \* RESIDENT: for each backend the model noted there
  phase, name,  \* PHASE, MODEL
  owner,        \* the request whose Load::begin drew the current GENERATION
  guard,        \* each request's Load: armed, landed, or none
  at, key,      \* where each request is, the model it wants
  noted,        \* its plan came from a note, and is a placeholder
  thread,       \* where the decode thread is with its session
  starter,      \* the request that started the session
  sent,         \* starters with a first token to read
  evictor,      \* an eviction under way: its kind, the model dropped, the step
  failed, exiting  \* some device has failed; an exit is latched

slotVars     == <<slot, entry>>
barVars      == <<phase, name, owner>>
requestVars  == <<guard, at, key, noted>>
sessionVars  == <<thread, starter, sent>>
failureVars  == <<failed, exiting>>
vars == <<slotVars, notes, barVars, requestVars, sessionVars, evictor, failureVars>>

Working == {"loading", "warming"}

\* Where a request holds the slot, and the model in it ...
Serving == {"landed", "serving", "settling", "leaving", "failing", "forgetting", "evicting"}
Holding == {"missed", "loading"} \cup Serving

\* ... and all its places.
Places == Holding \cup
  {"idle", "fitting", "looking", "queued", "joined", "joined_noted", "batched", "readying",
   "abandoned", "dropping", "resetting", "unnaming", "finishing", "retracting"}

NoEviction == [kind |-> "none", model |-> NoModel, at |-> "none"]

TypeOK ==
  /\ slot \in Requests \cup {NoOne, Thread} /\ entry \in Models \cup {NoModel}
  /\ notes \in [Backends -> Models \cup {NoModel}]
  /\ phase \in Working \cup {"idle", "ready"} /\ name \in Models \cup {NoModel}
  /\ owner \in Requests \cup {NoOne}
  /\ guard \in [Requests -> {"none", "armed", "landed"}]
  /\ at \in [Requests -> Places] /\ key \in [Requests -> Models \cup {NoModel}]
  /\ noted \subseteq Requests
  /\ thread \in {"none", "session", "failing", "evicting", "retracting"}
  /\ starter \in Requests \cup {NoOne} /\ sent \subseteq Requests
  /\ evictor \in [kind : Evictions \cup {"none"}, model : Models \cup {NoModel},
                  at : {"none", "notes", "retract"}]
  /\ failed \in BOOLEAN /\ exiting \in BOOLEAN

Init ==
  /\ slot = NoOne /\ entry = NoModel
  /\ notes = [b \in Backends |-> NoModel]
  /\ phase = "idle" /\ name = NoModel /\ owner = NoOne
  /\ guard = [r \in Requests |-> "none"]
  /\ at = [r \in Requests |-> "idle"] /\ key = [r \in Requests |-> NoModel] /\ noted = {}
  /\ thread = "none" /\ starter = NoOne /\ sent = {}
  /\ evictor = NoEviction
  /\ failed = FALSE /\ exiting = FALSE

---------------------------------------------------------------------------
(* Helpers.                                                                 *)

Go(r, place) == at' = [at EXCEPT ![r] = place] /\ UNCHANGED key

Return(r) == at' = [at EXCEPT ![r] = "idle"] /\ key' = [key EXCEPT ![r] = NoModel]

Without(dir) == [b \in Backends |-> IF notes[b] = dir THEN NoModel ELSE notes[b]]

\* A plan for r on backend b is noted before anything is loaded.
NotePlan(r, b) ==
  IF key[r] \in Noted THEN notes' = [notes EXCEPT ![b] = key[r]] ELSE UNCHANGED notes

\* A load in flight answers a second request for its model (LOADING).
InFlight(dir) == \E r \in Requests : at[r] = "loading" /\ key[r] = dir

\* Load::current.
Current(r) == owner = r /\ guard[r] # "none"

\* progress::evicted: a ready claim is retracted, with its name.
Evicted ==
  /\ phase' = IF phase = "ready" THEN "idle" ELSE phase
  /\ name' = IF phase = "ready" THEN NoModel ELSE name
  /\ UNCHANGED owner

\* A device failure is decided; one after the first may latch the exit.
Decided == failed' = TRUE /\ exiting' \in {exiting, failed}

---------------------------------------------------------------------------
(* A chat request, up to the slot.                                          *)

\* plan_fit: a noted model is served from where it is, unchecked; one being
\* loaded has its plan already; the rest are fitted.
Arrive(r, dir) ==
  /\ at[r] = "idle"
  /\ key' = [key EXCEPT ![r] = dir]
  /\ LET resident == \E b \in Backends : notes[b] = dir
     IN /\ noted' = IF resident THEN noted \cup {r} ELSE noted
        /\ at' = [at EXCEPT ![r] = IF resident \/ InFlight(dir) THEN "looking" ELSE "fitting"]
  /\ UNCHANGED <<slotVars, notes, barVars, guard, sessionVars, evictor, failureVars>>

\* plan_fresh: the first backend it fits.
Fit(r, b) ==
  /\ at[r] = "fitting"
  /\ Go(r, "looking")
  /\ NotePlan(r, b)
  /\ UNCHANGED <<slotVars, barVars, guard, noted, sessionVars, evictor, failureVars>>

\* It fits no backend.
FitRefused(r) ==
  /\ at[r] = "fitting" /\ key[r] \in Noted
  /\ Return(r)
  /\ UNCHANGED <<slotVars, notes, barVars, guard, noted, sessionVars, evictor, failureVars>>

\* A session of the model takes the request; its note is its own to take
\* back only once it is past the look.
Join(r) ==
  /\ at[r] \in {"looking", "queued"}
  /\ thread = "session" /\ entry = key[r]
  /\ Go(r, IF at[r] = "looking" THEN "joined" ELSE "joined_noted")
  /\ noted' = noted \ {r}
  /\ UNCHANGED <<slotVars, notes, barVars, guard, sessionVars, evictor, failureVars>>

JoinEnds(r) ==
  /\ \/ at[r] = "joined" /\ Return(r)
     \/ at[r] = "joined_noted" /\ Go(r, "abandoned")
  /\ UNCHANGED <<slotVars, notes, barVars, guard, noted, sessionVars, evictor, failureVars>>

\* The client hangs up, before `drive`, in its look at the slot, or queued.
HangUp(r) ==
  /\ \/ at[r] = "looking" /\ Return(r)
     \/ at[r] = "queued" /\ Go(r, "abandoned")
  /\ noted' = noted \ {r}
  /\ UNCHANGED <<slotVars, notes, barVars, guard, sessionVars, evictor, failureVars>>

\* loaded_key_async waits for the slot, looks, and lets it go.
Look(r) ==
  /\ at[r] = "looking" /\ slot = NoOne
  /\ Go(r, "queued")
  /\ UNCHANGED <<slotVars, notes, barVars, guard, noted, sessionVars, evictor, failureVars>>

\* ForgetResidentUnlessLoaded goes, then the progress guard, if one was armed.
Forget(r) ==
  /\ at[r] = "abandoned"
  /\ notes' = Without(key[r])
  /\ IF guard[r] = "none" THEN Return(r) ELSE Go(r, "dropping")
  /\ UNCHANGED <<slotVars, barVars, guard, noted, sessionVars, evictor, failureVars>>

---------------------------------------------------------------------------
(* The slot: a hit, or a load.                                              *)

\* A failure since the model's load makes it stale, and a stale hit a miss
\* (here any failure may have come since).
Acquire(r) ==
  /\ at[r] = "queued" /\ slot = NoOne
  /\ slot' = r
  /\ \/ entry = key[r] /\ Go(r, "landed") /\ noted' = noted \ {r} /\ UNCHANGED entry
     \/ (entry # key[r] \/ failed) /\ Go(r, "missed") /\ entry' = NoModel /\ UNCHANGED noted
  /\ UNCHANGED <<notes, barVars, guard, sessionVars, evictor, failureVars>>

\* The slot goes back empty, and the note after it.
Refuse(r) ==
  /\ slot' = NoOne
  /\ Go(r, "abandoned") /\ noted' = noted \ {r}
  /\ UNCHANGED <<entry, notes, barVars, guard, sessionVars, evictor, failureVars>>

RefuseLoad(r) == at[r] = "missed" /\ exiting /\ Refuse(r)

\* A plan made for a hit is made again, and may find that nothing fits.
Replan(r, b) ==
  /\ at[r] = "missed" /\ ~exiting /\ r \in noted
  /\ noted' = noted \ {r}
  /\ NotePlan(r, b)
  /\ UNCHANGED <<slotVars, barVars, guard, at, key, sessionVars, evictor, failureVars>>

ReplanRefused(r) ==
  /\ at[r] = "missed" /\ ~exiting /\ r \in noted /\ key[r] \in Noted
  /\ Refuse(r)

\* Mutant: the load runs, and no guard owns its bar.
BeginLoadUnarmed(r) ==
  /\ at[r] = "missed" /\ ~exiting /\ r \notin noted
  /\ phase' = "loading" /\ name' = key[r] /\ owner' = r
  /\ Go(r, "loading")
  /\ UNCHANGED <<slotVars, notes, guard, noted, sessionVars, evictor, failureVars>>

\* Mutant: a bar that has a name keeps it.
BeginLoadNamedBefore(r) ==
  /\ at[r] = "missed" /\ ~exiting /\ r \notin noted
  /\ phase' = "loading" /\ name' = (IF name = NoModel THEN key[r] ELSE name) /\ owner' = r
  /\ guard' = [guard EXCEPT ![r] = "armed"]
  /\ Go(r, "loading")
  /\ UNCHANGED <<slotVars, notes, noted, sessionVars, evictor, failureVars>>

\* Load::begin publishes name, generation and phase under the name's lock.
BeginLoad(r) ==
  /\ at[r] = "missed" /\ ~exiting /\ r \notin noted
  /\ phase' = "loading" /\ name' = key[r] /\ owner' = r
  /\ guard' = [guard EXCEPT ![r] = "armed"]
  /\ Go(r, "loading")
  /\ UNCHANGED <<slotVars, notes, noted, sessionVars, evictor, failureVars>>

\* The loaders enter their own phases without asking whose bar it is.
LoaderReports(r) ==
  /\ at[r] = "loading" /\ phase # "loading"
  /\ phase' = "loading"
  /\ UNCHANGED <<slotVars, notes, name, owner, requestVars, sessionVars, evictor, failureVars>>

LoadLands(r) ==
  /\ at[r] = "loading"
  /\ entry' = key[r]
  /\ Go(r, "landed")
  /\ UNCHANGED <<slot, notes, barVars, guard, noted, sessionVars, evictor, failureVars>>

\* An error, a panic, or a device failure decided under the lock.
LoadFails(r) ==
  /\ at[r] = "loading"
  /\ slot' = NoOne
  /\ Go(r, "abandoned")
  /\ Decided \/ UNCHANGED failureVars
  /\ UNCHANGED <<entry, notes, barVars, guard, noted, sessionVars, evictor>>

---------------------------------------------------------------------------
(* Serving under the guard.                                                 *)

\* The load is over: what the guard settles on is ready, whatever the request
\* does.  Warming is shown unless the client has gone.
StartServing(r) ==
  /\ at[r] = "landed"
  /\ guard' = [guard EXCEPT ![r] = IF @ = "armed" THEN "landed" ELSE @]
  /\ \/ Go(r, "settling") /\ UNCHANGED phase
     \/ Go(r, "serving") /\ phase' = IF Current(r) THEN "warming" ELSE phase
  /\ UNCHANGED <<slotVars, notes, name, owner, noted, sessionVars, evictor, failureVars>>

\* generate_on's first token.
FirstToken(r) ==
  /\ at[r] = "serving" /\ guard[r] # "none"
  /\ phase' = IF Current(r) THEN "ready" ELSE phase
  /\ guard' = [guard EXCEPT ![r] = "none"]
  /\ UNCHANGED <<slotVars, notes, name, owner, at, key, noted, sessionVars, evictor, failureVars>>

\* It returns, errs or unwinds; or a device failed, and that is decided.
ServingEnds(r) ==
  /\ at[r] = "serving"
  /\ \/ Go(r, "settling") /\ UNCHANGED failureVars
     \/ Go(r, "failing") /\ Decided
  /\ UNCHANGED <<slotVars, notes, barVars, guard, noted, sessionVars, evictor>>

\* The guard goes first, while the slot is held ...
Settle(r) ==
  /\ at[r] \in {"settling", "failing"}
  /\ phase' = IF Current(r) THEN "ready" ELSE phase
  /\ guard' = [guard EXCEPT ![r] = "none"]
  /\ Go(r, IF at[r] = "settling" THEN "leaving" ELSE "forgetting")
  /\ UNCHANGED <<slotVars, notes, name, owner, noted, sessionVars, evictor, failureVars>>

\* ... and then the slot.
Leave(r) ==
  /\ at[r] = "leaving"
  /\ slot' = NoOne
  /\ Return(r)
  /\ UNCHANGED <<entry, notes, barVars, guard, noted, sessionVars, evictor, failureVars>>

\* evict_held: the note, the model with the lock, the ready claim.
EvictForgets(r) ==
  /\ at[r] = "forgetting"
  /\ notes' = Without(key[r])
  /\ Go(r, "evicting")
  /\ UNCHANGED <<slotVars, barVars, guard, noted, sessionVars, evictor, failureVars>>

EvictHeld(r) ==
  /\ at[r] = "evicting"
  /\ slot' = NoOne /\ entry' = NoModel
  /\ Go(r, "retracting")
  /\ UNCHANGED <<notes, barVars, guard, noted, sessionVars, evictor, failureVars>>

EvictRetracts(r) ==
  /\ at[r] = "retracting"
  /\ Evicted
  /\ Return(r)
  /\ UNCHANGED <<slotVars, notes, guard, noted, sessionVars, evictor, failureVars>>

---------------------------------------------------------------------------
(* Serving on the decode thread.                                            *)

\* The slot goes to the thread; the progress guard stays with the request.
Batch(r) ==
  /\ at[r] = "serving" /\ thread = "none"
  /\ slot' = Thread /\ thread' = "session" /\ starter' = r /\ sent' = sent \ {r}
  /\ Go(r, "batched")
  /\ UNCHANGED <<entry, notes, barVars, guard, noted, evictor, failureVars>>

SendFirstToken ==
  /\ thread = "session" /\ starter # NoOne
  /\ sent' = IF at[starter] = "batched" THEN sent \cup {starter} ELSE sent
  /\ starter' = NoOne
  /\ UNCHANGED <<slotVars, notes, barVars, requestVars, thread, evictor, failureVars>>

SessionEnds ==
  /\ thread = "session"
  /\ thread' = "none" /\ starter' = NoOne /\ slot' = NoOne
  /\ UNCHANGED <<entry, notes, barVars, requestVars, sent, evictor, failureVars>>

SessionFails ==
  /\ thread = "session"
  /\ Decided
  /\ thread' = "failing" /\ starter' = NoOne
  /\ UNCHANGED <<slotVars, notes, barVars, requestVars, sent, evictor>>

\* evict_held, on the thread.
ThreadForgets ==
  /\ thread = "failing"
  /\ notes' = Without(entry)
  /\ thread' = "evicting"
  /\ UNCHANGED <<slotVars, barVars, requestVars, starter, sent, evictor, failureVars>>

ThreadEvicts ==
  /\ thread = "evicting"
  /\ slot' = NoOne /\ entry' = NoModel
  /\ thread' = "retracting"
  /\ UNCHANGED <<notes, barVars, requestVars, starter, sent, evictor, failureVars>>

ThreadRetracts ==
  /\ thread = "retracting"
  /\ Evicted
  /\ thread' = "none"
  /\ UNCHANGED <<slotVars, notes, requestVars, starter, sent, evictor, failureVars>>

\* The first token is read: ready, if this is still the current load ...
ReadFirstToken(r) ==
  /\ at[r] = "batched" /\ r \in sent
  /\ sent' = sent \ {r}
  /\ IF Current(r) THEN Go(r, "readying") /\ UNCHANGED guard
                   ELSE guard' = [guard EXCEPT ![r] = "none"] /\ UNCHANGED <<at, key>>
  /\ UNCHANGED <<slotVars, notes, barVars, noted, thread, starter, evictor, failureVars>>

\* ... and a step later the phase says so, whoever the bar belongs to by then.
Ready(r) ==
  /\ at[r] = "readying"
  /\ phase' = "ready"
  /\ guard' = [guard EXCEPT ![r] = "none"]
  /\ Go(r, "batched")
  /\ UNCHANGED <<slotVars, notes, name, owner, noted, sessionVars, evictor, failureVars>>

\* The last update is read; a failed session's comes without a token.
BatchEnds(r) ==
  /\ at[r] = "batched" /\ starter # r /\ r \notin sent
  /\ Go(r, "dropping")
  /\ UNCHANGED <<slotVars, notes, barVars, guard, noted, sessionVars, evictor, failureVars>>

BatchAbandoned(r) ==
  /\ at[r] = "batched"
  /\ Go(r, "dropping")
  /\ sent' = sent \ {r}
  /\ UNCHANGED <<slotVars, notes, barVars, guard, noted, thread, starter, evictor, failureVars>>

---------------------------------------------------------------------------
(* The guard's Drop, where the slot is not held.                            *)

\* Mutant: a load that never landed leaves its bar up.
DropGuardLanded(r) ==
  /\ at[r] = "dropping"
  /\ IF Current(r) /\ guard[r] = "landed"
     THEN Go(r, "finishing") /\ UNCHANGED guard
     ELSE Return(r) /\ guard' = [guard EXCEPT ![r] = "none"]
  /\ UNCHANGED <<slotVars, notes, barVars, noted, sessionVars, evictor, failureVars>>

\* Is this still the live load?
DropGuard(r) ==
  /\ at[r] = "dropping"
  /\ IF Current(r)
     THEN Go(r, IF guard[r] = "landed" THEN "finishing" ELSE "resetting") /\ UNCHANGED guard
     ELSE Return(r) /\ guard' = [guard EXCEPT ![r] = "none"]
  /\ UNCHANGED <<slotVars, notes, barVars, noted, sessionVars, evictor, failureVars>>

Finish(r) ==
  /\ at[r] = "finishing"
  /\ phase' = "ready"
  /\ guard' = [guard EXCEPT ![r] = "none"]
  /\ Return(r)
  /\ UNCHANGED <<slotVars, notes, name, owner, noted, sessionVars, evictor, failureVars>>

\* idle(): the phase, then the name.
Reset(r) ==
  /\ at[r] = "resetting"
  /\ phase' = "idle"
  /\ guard' = [guard EXCEPT ![r] = "none"]
  /\ Go(r, "unnaming")
  /\ UNCHANGED <<slotVars, notes, name, owner, noted, sessionVars, evictor, failureVars>>

Unname(r) ==
  /\ at[r] = "unnaming"
  /\ name' = NoModel
  /\ Return(r)
  /\ UNCHANGED <<slotVars, notes, phase, owner, guard, noted, sessionVars, evictor, failureVars>>

---------------------------------------------------------------------------
(* Evictions by those who hold nothing: try_lock, then the notes, then the  *)
(* ready claim.  One at a time (a bound).                                   *)

\* A failed move and a contained panic decide a device failure first.
AfterFailure == {"moved", "contained"}

\* What the others ask: is anything noted on the host, is anything there.
Wanted(kind) ==
  CASE kind = "pressure"  -> notes[Cpu] # NoModel
    [] kind = "placement" -> entry # NoModel
    [] OTHER -> TRUE

\* Mutant: it takes the slot from whoever holds it.
ClearHeld(kind) ==
  /\ evictor = NoEviction /\ Wanted(kind)
  /\ IF kind \in AfterFailure THEN Decided ELSE UNCHANGED failureVars
  /\ entry' = NoModel
  /\ evictor' = [kind |-> kind, model |-> entry, at |-> IF kind = "moved" THEN "retract" ELSE "notes"]
  /\ UNCHANGED <<slot, notes, barVars, requestVars, sessionVars>>

Clear(kind) ==
  /\ evictor = NoEviction /\ slot = NoOne /\ Wanted(kind)
  /\ IF kind \in AfterFailure THEN Decided ELSE UNCHANGED failureVars
  /\ entry' = NoModel
  /\ evictor' = [kind |-> kind, model |-> entry, at |-> IF kind = "moved" THEN "retract" ELSE "notes"]
  /\ UNCHANGED <<slot, notes, barVars, requestVars, sessionVars>>

\* The slot is busy: nothing is dropped.
ClearBusy(kind) ==
  /\ slot # NoOne /\ kind \in AfterFailure
  /\ Decided
  /\ UNCHANGED <<slotVars, notes, barVars, requestVars, sessionVars, evictor>>

ClearNotes ==
  /\ evictor.at = "notes"
  /\ notes' =
       CASE evictor.kind = "pressure"  -> [notes EXCEPT ![Cpu] = NoModel]
         [] evictor.kind = "placement" -> Without(evictor.model)
         [] OTHER -> [b \in Backends |-> NoModel]
  /\ evictor' = IF evictor.kind = "contained" /\ evictor.model = NoModel
                THEN NoEviction  \* nothing was resident: no claim to retract
                ELSE [evictor EXCEPT !.at = "retract"]
  /\ UNCHANGED <<slotVars, barVars, requestVars, sessionVars, failureVars>>

Retract ==
  /\ evictor.at = "retract"
  /\ Evicted
  /\ evictor' = NoEviction
  /\ UNCHANGED <<slotVars, notes, requestVars, sessionVars, failureVars>>

---------------------------------------------------------------------------

\* What the runtime gets to sooner or later ...
RequestStep(r) ==
  \/ (\E b \in Backends : Fit(r, b) \/ Replan(r, b)) \/ FitRefused(r) \/ ReplanRefused(r)
  \/ JoinEnds(r) \/ Forget(r) \/ RefuseLoad(r) \/ BeginLoad(r) \/ LoadLands(r) \/ LoadFails(r)
  \/ StartServing(r) \/ ServingEnds(r) \/ Settle(r) \/ Leave(r)
  \/ EvictForgets(r) \/ EvictHeld(r) \/ EvictRetracts(r)
  \/ Batch(r) \/ ReadFirstToken(r) \/ Ready(r) \/ BatchEnds(r)
  \/ DropGuard(r) \/ Finish(r) \/ Reset(r) \/ Unname(r)

ThreadStep ==
  \/ SendFirstToken \/ SessionEnds \/ SessionFails \/ ThreadForgets \/ ThreadEvicts
  \/ ThreadRetracts

\* ... and what may never come.
Next ==
  \/ \E r \in Requests :
       \/ RequestStep(r) \/ Join(r) \/ HangUp(r) \/ Look(r) \/ Acquire(r)
       \/ LoaderReports(r) \/ FirstToken(r) \/ BatchAbandoned(r)
       \/ \E dir \in Models : Arrive(r, dir)
  \/ ThreadStep \/ ClearNotes \/ Retract
  \/ \E kind \in Evictions : Clear(kind) \/ ClearBusy(kind)

Spec == Init /\ [][Next]_vars

\* The runtime polls every request; loads, generations and sessions come to
\* an end, well or badly.
FairSpec == Spec /\ WF_vars(ThreadStep) /\ \A r \in Requests : WF_vars(RequestStep(r))

---------------------------------------------------------------------------
(* Properties.                                                              *)

\* A working phase has an owner: a live guard that will settle it.  (drive:
\* "the bar sat at N/N `loading` forever because nothing owned it".)
WorkingPhaseIsOwned ==
  phase \in Working => owner \in Requests /\ guard[owner] # "none"

\* The bar never names another model than the one in the slot.  (evicted:
\* "the claim being retracted is spread over two variables".)
NameIsNotAnothers == entry # NoModel => name \in {entry, NoModel}

\* Nobody's model is taken from under them: what a request or the decode
\* thread serves, it holds the slot on.  (unload_all: "a `true` here means
\* nothing held the slot".)
ServedModelStays ==
  /\ \A r \in Requests : at[r] \in Serving => entry = key[r]
  /\ thread \in {"session", "failing", "evicting"} => entry # NoModel

\* A load's bar comes to an end, or is taken over by a newer load.  (Load:
\* every way out settles the phase.)
BarEnds ==
  \A r \in Requests :
    phase \in Working /\ owner = r ~> ~(phase \in Working /\ owner = r)

\* Nothing is under way.
AtRest == thread = "none" /\ evictor = NoEviction /\ \A r \in Requests : at[r] = "idle"

\* At rest, a ready bar names the model in the slot.  (evicted: Ready "is a
\* claim that a model is resident **now**".)
ReadyIsResident == AtRest /\ phase = "ready" /\ name # NoModel => entry = name

\* At rest, a noted model is in the slot.  (ForgetResidentUnlessLoaded:
\* "dropped on every way out of `drive` that did not put the model in the
\* slot: an `Err`, a panic, a cancelled request".)
NotesAreResident == AtRest => \A b \in Backends : notes[b] \in {NoModel, entry}

---------------------------------------------------------------------------
(* The inductive invariant behind the first three (ResidencyProofs).          *)

\* One holder, and each place belongs to it or to nobody.
HolderInv ==
  /\ \A r \in Requests : at[r] \in Holding <=> slot = r
  /\ thread \in {"session", "failing", "evicting"} <=> slot = Thread

\* The slot is empty while it is loaded into, and the load owns the bar.
LoadInv ==
  \A r \in Requests :
    /\ at[r] \in {"missed", "loading"} => entry = NoModel
    /\ at[r] = "loading" => owner = r /\ guard[r] = "armed" /\ name \in {key[r], NoModel}

\* Whoever has arrived wants a model.
ArrivedInv == \A r \in Requests : at[r] # "idle" => key[r] \in Models

IInv ==
  /\ TypeOK /\ HolderInv /\ LoadInv /\ ArrivedInv
  /\ WorkingPhaseIsOwned /\ NameIsNotAnothers /\ ServedModelStays
============================================================================
