# A TLA+ model of Mummu's serving core

Mummu runs language models on one machine, and `mummu-serve` is the HTTP server in front of it. The
part that is hard to get right is not the arithmetic: it is one model slot that chat requests,
retrieval calls, a decode thread, a placement watch and an unload endpoint share, on devices that
fail on threads of their own, after the call that caused it has returned `Ok`. This project models
that part in TLA+, and beside it the parts that keep state across processes and on disk, checks
them with TLC and proves their core with TLAPS.

Paths below are relative to `src/crates/`; `serve/` is `mummu-serve/src/`, `mummu/` is `mummu/src/`.

## 1. The system

### 1.1 Inventory

`PROJECT.json` lists all components with their sources and what is modelled of each. Those that
decide something:

| component | state it keeps | operations | talks to | correct when |
|---|---|---|---|---|
| Device recovery (`serve/recovery.rs`) | `EPOCH`; per device an epoch, a count of consecutive failures, an open error; the previous process's failure; `EXITING`; the restart history | panic hook, `mark`/`moved`, `record_failure`, `load_succeeded`, `generation_succeeded`, `contain`, the exit with its watchdog, the supervised start | everybody who touches a device; the next process, through files | a failure is decided once and charged to who failed; a restart follows two failures and happens once in thirty minutes; the process ends whatever blocks |
| Model slot (`mummu/cache.rs`, `serve/engine.rs` `drive`, `load_for_slot`, `serve_held`, `evict_*`) | `SLOT` (an async mutex over `key -> Loaded`), each model's `fault_epoch`, the residency notes | acquire, load, sync, serve, evict, unload | recovery, decode thread, progress, placement | a model lands only whole; a token comes from sound weights; whoever waits is served |
| Decode thread (`serve/decoder.rs`) | the registry, the channel, the session it holds, its jobs, a cached batcher | start, join, release, admit, step, fail, end | engine through channels, recovery, the slot it was handed | nobody who joined is forgotten; no load beside a batch |
| Continuous batching (`mummu/batch.rs`) | sequences in slots of an arena | admit, step, settle, retire | decode thread | every sequence ends by stop, budget or window |
| Retrieval (`serve/retrieval.rs`) | resident retrieval models | acquire, hold the slot, run | slot, recovery | never beside a chat's forward on the accelerator; never for ever |
| Load progress (`mummu/progress.rs`) | phase, name, generation | begin, phase, ready, evicted, `Drop` | engine, status | "ready" names what is resident; a bar ends |
| Live placement (`serve/placement.rs`) | the resident placement, host demand, a watch thread | watch, move, `before_request` | slot, decode thread, sysmon | a move never races a forward; pressure is answered once |
| Planner (`mummu-mix`), schedulers (`mummu-schedule`) | none, or a small ledger | solve, place, watermark, govern | engine, batch | within budgets; no oscillation |
| Residency tiers (`mummu/tier.rs`, `partition.rs`, `plan.rs`, `vram.rs`, `workingset.rs`, `adapt.rs`) | which layers live where; a budget; a pack's order on disk | fit, grow, shrink, stage, partition | engine, placement | never above the bytes given; no way back into a refused budget; a pack computes its model's function |
| Import and downloads (`mummu/hub.rs`, `import.rs`, `manage.rs`, `diskcache.rs`, `overlay.rs`) | partial files, temporary directories, cached ranges, a ring of device slots | download, resume, import, rename, read, prefetch | disk, network, device | a crash leaves the old or the new, never half; a read returns its own bytes; a layer is handed over once, in order |
| Constrained decoding (`mummu/constrain.rs`) | a pushdown state | mask, advance | sampler | accepts the grammar, no more, no less |
| HTTP surfaces, status, logs, sysmon (`serve/think.rs`, `logs.rs`, ...) | a stream's filter, two log rings, gauges | filter, record, page, render | engine, progress, recovery | cursors do not skip or repeat; a stream shows what the whole answer would |

Checkpoint parsers, tensor kernels, the model zoo, tokenizers and templates are numeric or textual
code with parity tests of their own; `PROJECT.json` gives the reason for each.

### 1.2 How they interact

A chat request (`run_chat`) is wrapped in `contain`. It looks for a session of its model to join on
the decode thread; else it queues on `SLOT` (tokio's FIFO mutex), racing that queue against the
start of a session it could join, and against its client going away. With the slot it either hits
(same key, epoch unmoved since the load began) or drops the old model and loads: refuse if an exit
is latched, wait for the decode thread to drop its batch, load, sync every device, compare the epoch
with the load's mark, and only then put the model into the slot. It then generates under the guard,
or hands the guard to the decode thread, where requests for the same model join the batch.

A device fails asynchronously: cubecl's device thread panics and catches the panic, the recovery
hook bumps the epoch, and nobody's call returns an error. Everything that makes a failure visible
compares epochs: at the landing of a load, at every token, and when the slot is taken.

### 1.3 What is hard

Failures reported late, on other threads, and about other devices; a check and the use of what it
checked in two critical sections; a guard handed from a request to a thread while others look at the
registry; a session that ends while somebody joins it; everyone waiting on one lock; an exit latched
while a model is served. Around the serving core: a process killed between two writes, or inside one,
whose successor reads what it left; a remote branch that moves between two requests; caches that share a
directory; two readers of one flag. `PROJECT.json` "hazards" lists each with its line and the properties
aimed at it; where no property covers one the note says why.

## 2. The modules

| module | models | variables of the code |
|---|---|---|
| `RecoveryBooks` | the books of `recovery.rs` and the operations on them; each runs under the `STATE` mutex, so each is one action. It has no next-state relation: `ModelServing` and `DecodeThread` EXTEND it | `epoch` EPOCH, `book` the per-device books, `previous`, `exiting` EXITING, `coolingDown` a restart younger than RESTART_COOLDOWN |
| `ModelServing` | chat requests, retrieval calls, evictors and failing devices around the slot; generation under the guard (`generate_on`) | `slot` who holds SLOT's lock, `entry` the resident model, `build` the one being loaded, `doomed` allocations in a device queue that will fail, `pc` where each client is |
| `AnswerStream` | what a request is promised by whoever generates for it, as an abstract specification | `listening`, `joiners`, `unread` the channel of Updates, `said` |
| `DecodeThread` | the thread, its registry and channel, and the requests that start, join, wait for and hang up on sessions | `registry`, `channel`, `held`/`jobs`/`waiting`/`job` the session, `cached` the batcher's load, `at` where the thread is, `updates` each client's receiver |
| `Residency` | what the server believes is resident beside what is: the planner's notes, the progress bar with its guard, the evictors that hold nothing | `notes` RESIDENT, `phase`/`name` PHASE and MODEL, `owner` who drew the live GENERATION, `guard` each request's `Load`, `slot`/`entry` SLOT, `evictor` an eviction under way |
| `RestartBudget` | the exit and the supervised start of `recovery.rs`, over any number of processes | `restarts` restarts_ms, `latched` EXITING, `exitAt`/`watchdog` where `run_exit` is, `file` the evidence in each place, `taken` what a start read |
| `LayerStream` | what `overlay.rs` promises of a ring, as an abstract specification | `begun`, `handed`, `stopped` |
| `OverlayRing` | the ring itself: the prefetch thread, the consumers, one mutex, one condition variable | `ready`, `occupied`, `shutdown`, `gone` RingState, `onDevice` what holds bytes |
| `ModelDownload` | `fetch_file_with` of `hub.rs`: HEAD, GET, resume, verify, rename | `part`, `dest` the files, `announced` expected_sha, `hashed` the stream hasher; `vouched` is history |
| `PackOnDisk` | `ensure_pack`: import, the ternary level, the partition with its journal and repair | `pack`, `q2bin`, `q2index`, `partitioned`, `journal` the files, `order` what the entries hold; `struck` is history |
| `DiskCache` | the range cache several `Pack` objects keep in one directory | `entries`, `used` a cache's books, `file` the .blk files |
| `WorkingSet` | one pass of `schedule` (`workingset.rs`) | `pinned`, `resident`, `overflow` |
| `VramGuard` | the watermark as the placement's guard (`watermark.rs`, `feed_guard`) | `recent` the window, `guard`, `quiet` |
| `PlacementBudget` | `adapt.rs`'s controller beside the two readers of `ALLOC_FAILED` | `budget`, `best`, `failedAt`, `allocFailed` |
| `ThinkFilter` | the streaming filters of `think.rs`, a turn of `push_split`'s loop to a step | `arrived`, `drained` (pending is between), `inside`, `trim`, `begun`, `gap`, `visible`, `thought`, `withheld` |
| `LogRing` | the two rings of `logs.rs` and a client's cursor | `lines`, `quietLines`, `nextSeq`, `evicted`, `cursor` since |
| `RecoveryBooksProofs` | lemmas about the books' operations, cited by the next two | |
| `ModelServingProofs`, `DecodeThreadProofs`, `ResidencyProofs`, `OverlayRingProofs`, `RestartBudgetProofs`, `PackOnDiskProofs` | the theorems about each of these | |
| `PartsProofs` | the theorems about `ModelDownload`, `DiskCache`, `PlacementBudget`, `WorkingSet`, `LogRing` and `ThinkFilter` | |
| `MCModelServing`, `MCDecodeThread`, `MCResidency`, `MCPackOnDisk`, `MCParts` | constants for TLC; `MCParts` sets ten parts side by side, which share no state with the serving path or with each other. It EXTENDS the nine that have theorems, so that TLC evaluates their assumptions, and takes `VramGuard` by INSTANCE | |

### 2.1 RecoveryBooks

A mark is the global epoch and every device's own. `Attribute` charges the devices that moved since
the mark, else the accelerators used, else what was used, else nobody. `DecisionFor` raises the
counts first and decides on the worst. `previous` is a *set* of devices, and `ClearsPrevious` says
when the code's label comparison succeeds: it never does for a failure naming two devices. Error
texts, timestamps and the page that shows them are left out; wall-clock time appears only as
`CooldownEnds`.

### 2.2 ModelServing

A chat goes idle -> queued -> (resident | planning -> loading -> syncing -> verified -> resident) ->
arming -> generating -> token -> emit -> ... -> returned -> idle, with exits to `load_failed`,
`evicting`, `unwinding`, `escaped`, `evict_elsewhere`. One action is the code between two points at
which another thread's step could be seen: `RefuseLoad` and `Prepare` are `load_for_slot`'s look at the latch,
`BeginLoad` its mark and the call of the loader, some seconds later and with no second look;
`LoadVerified`/`LoadFault` the sync's answer; `LoadLands` the insertion in the
slot; `JudgeToken` the epoch check of a computed token and `EmitToken` its delivery. `Contain` is
what `contain` does with a panic after unwinding gave the slot back.

Devices are the environment. `DeviceFails` is a failure of other work. `SubmitDoomed` puts an
allocation that cannot be served in a queue, `DoomedRuns` is the device reaching it; a sync or a
forward on a device waits for its queue, as the code's sync and read-back do. `sound`, `tainted`,
`raised`, `decided` and `lateLoads` are history: no guard reads them, except that `raised` bounds the
environment. `lateLoads` counts loads begun after the latch. A retrieval's `contain` can latch between a
load's look and its mark; that load has a fresh stamp and is served until the process exits, so
`NothingServableAfterLatch` leaves it out, and says that there is never a second.

### 2.3 AnswerStream and DecodeThread

The thread is a program counter `at` over the loop of `run`: receive (or be idle out), admit, step,
judge, end. A `guarded` call is three steps -- the mark, the call's return, the judgement -- so that a
device can fail between them. `maybe_end` is split where it takes the registry's lock (`locked`);
messages drained there are handled by the same actions with `base = "ending"`, since the code calls
the same functions. Requests' operations on the registry are one step each. `updates` are the
unbounded channels back to the clients; hanging up drops the receiver.

Failures with the slot in other hands are the `Outsiders`: a retrieval, or a chat whose failure
`contain` caught, may fail at any moment (`FailsOutside`), be decided without the slot (`Contain`: the books
move, and the second time the exit is latched, whatever the thread is doing) and drain the session
(`EvictElsewhere`). So a latch falls between a batch's mark and its judgement, or between a load's look
at the latch and `start`. `LatchEndsSessions` says what is left of a session then: it runs on a model
known to be stale, and the call it is in will be judged suspect, but for the one load (`lateLoads`) that
was past its look. A retrieval's own hold of the slot is `ModelServing`'s.

A load is one step here (its failures are `ModelServing`'s subject). The five-second budget of
`release_wait` is taken to be long enough: the thread holds no slot then and answers within a few of
its own steps. The retry look of `drive` for a session under a just-loaded key, and a batcher the
engine cannot make for a model (`Batcher::new` returning `None`, which serves under the guard), are not
modelled here.

`AnswerStream` is what all of it is for, told by itself: an answer is tokens, fewer than the budget
before its last word, and then one end; nothing follows the end; only who joined a session can be
turned back, and only as the first thing it hears. It knows no slot, thread, batch, model or failure.
The refinement `Promise` maps `listening` to the open requests, `unread` to `updates`, `joiners` to
`joined`, and `said` to what the thread has counted for an open request (`made`). The step of a batch
is one `Say` to several requests at once, and so is a failure that ends them all; a retry after a
turning back is a `Leave`.

### 2.4 Residency

The planner notes a model as resident when it *plans* it; the progress bar says `ready` when its
guard settles; the slot says what is there. The three are separate globals under separate locks, and
only the slot is held while a request changes them. A request goes idle -> (fitting) -> looking ->
queued -> (missed -> loading ->) landed -> serving -> settling -> leaving -> idle, with `abandoned`
where `ForgetResidentUnlessLoaded` drops, `dropping` where the `Load` guard does, and the failure
path `failing` -> `forgetting` -> `evicting` -> `retracting` of `evict_held`. One action is the code
between two points where another thread can be seen: `DropGuard` is the guard's question whether it is
the live load, `Finish` and `Reset` the stores that follow; an eviction is `Clear` (try_lock), then
`ClearNotes`, then `Retract`. `Load::begin` and `evicted` publish under one lock and are one action
each. Where the slot is held, nobody can begin a load, and a question and its store are one action.

Five kinds of eviction differ in what they ask first, which notes they drop and whether a device
failure is decided: the unload endpoint, host pressure, the placement watch, its failed move, and
`contain`. Between them they are one at a time. A session on the decode thread is here only its hold
of the slot, its first token to the request that started it, and its end; what a failure decides is
`RecoveryBooks`' subject and here only `failed` and `exiting`. Counts, rates and the tier runtime are
left out.

### 2.5 RestartBudget

A process is `down`, `taking` (the local file, then the root's), `adopting` and `up`; its exit goes
`announce` -> `stamp` -> `write` -> (`fall back` ->) `leave`. Between any two steps it can `Die`, the
announcement, the write and the leaving can `Stall`, and only then does the watchdog fire: its deadline
is 20 s (`EXIT_DEADLINE`) and the bounded waits of a healthy exit come to 12.3. A file that cannot be
read is set aside all the same; one that cannot be set aside stays. `lost` collects the stamps whose
record an outside event took -- a death that is no self-restart, a disk that refused both places, a
deploy that replaced the container, a watchdog that fired before the write -- and the property is about
the others. Time is a counter of ticks: a start takes one, so two processes never stamp the same.

### 2.6 LayerStream and OverlayRing

`LayerStream` begins a layer when a slot is free, hands out the next, and lets a handed one go.
`OverlayRing` is `prefetch_loop`, `acquire`, `Guard::drop` and `Ring::drop`, an action between every
two points where the mutex is free: the claim, the upload's return or panic, the publication, the
prefetcher's exit; a consumer's look, wait, take and release. Every `notify_all` wakes exactly whoever
waits, so a lost wake-up would be a behaviour of the model. The refinement maps `begun` to
`nextUpload`, `handed` to what landed and is not `ready`, `stopped` to a broken or dropped ring.

### 2.7 ModelDownload, PackOnDisk, DiskCache

Disk is what survives. In `ModelDownload` a stop clears the request and leaves `.part`; the revision can
move between HEAD, GET and the resume, to a longer body or a shorter one; a body is a sequence of chunks
named by revision, which is what a sha256 tells apart. `AnnounceSha` may find no digest even for
weights: the HEAD is refused, or answered by another host. `FilesAreWhole` asks one revision, chunk for
chunk, of the files a digest was compared with (`vouched`, history) and a body's length of every other:
without a digest a download resumed over a move is spliced, as `announced_sha256`'s doc allows ("stay
length-verified only"). A body whose length the server does not announce is not modelled. In
`PackOnDisk` an entry's values are the number of times its neurons were reordered, or torn: the layer
computes the model's function when its entries agree at every level. A kill can fall between any two
writes and inside one; the next load starts at `ensure_pack`. `Blind` names entries whose fingerprint
the reordering does not change, and `Untold` is what a stop in a rewrite leaves that no fingerprint
tells from a finished or an untouched entry. A journal that cannot be read is taken for none
(`MissJournal`): the layer is clustered again from what its entries hold, and those that had been
reordered are `struck` too. In `DiskCache` each reader has its own books over shared files; `missed`
separates the read of the blob from the insertion.

### 2.8 WorkingSet, VramGuard, PlacementBudget

`WorkingSet` walks the layers of a pass: the units pinned at the start, then for each layer the round
that stages the next one's units within the window, evicting whoever is used latest. `VramGuard` is
`observe_ambient`, `breach` and the settling of the watermark. `PlacementBudget` is the controller's
observation of a generation with its ways up, back and down, and what the server puts around it: the
guard takes `ALLOC_FAILED` too, and a failure costs the model its slot, so the load that follows arms
a fresh controller. The property is about the controller by itself, as its tests drive it.

### 2.9 ThinkFilter and LogRing

`ThinkFilter` takes a text in pieces cut anywhere (`Push`), passes its tags one by one (`PassTag`,
`PassRest`: the turns of the loop, between which no delta comes) and settles what is pending (`Finish`).
A symbol is its place in the text, so what was shown, thought or withheld is a set of places. The order
is kept all the same: after every turn what is visible must *begin* the answer. The reference (`ScanOf`,
`Outside`, `Within`, `Answer`) reads the whole text symbol by symbol, keeps nothing back and has no
pending text. `settle`, which gives the withheld text back when no tool call came of it, is not
modelled; its premise, that a plain filter's text is visible or withheld, is the last part of
`StreamedAsWhole`. `LogRing` records main and quiet lines, evicts, and pages: the cursor of a client
from before a restart is another sequence's, and is noticed or, when the new sequence has passed it, is
not (`astray`).

## 3. The runs

All runs use one accelerator and the host, unless the table says otherwise; model and request names
are model values.

| run | instance | shows |
|---|---|---|
| `serving_chat` | 2 chats, 2 models, 2 placements, 2 failures | `TypeOK`; every decision has a failure of its own and a restart follows two of them, when no retrieval runs |
| `serving_mixed` | 1 chat, 1 retrieval, card and host, 1 failure, 1 ordinary panic, a failure inherited from the previous process, fair | no tainted token, no spoiled model that looks current, nothing servable after the latch but one load past its check, only sound models land; every call comes back |
| `two_counts` | 1 chat, 1 retrieval, 1 failure | violation: one failure is decided twice and restarts the process |
| `decode_safety` | 2 requests, 1 call failing outside the slot, 2 load names, 2 slots, 2 tokens, supervised; 2 failures, or a failure outside, or a release | nobody forgotten, the admitting session is real, no batch beside a load, no token of a failed call, a session beside a latched exit is on a condemned model (`LatchEndsSessions`); `AnswersAsPromised`, which is the refinement of `AnswerStream` |
| `decode_live` | 2 requests, 1 slot, 1 ordinary error | every request comes back |
| `deadlock` | 2 requests, 1 failure, fair | violation: the registry's mutex is locked twice by one thread |
| `residency_safety` | 2 requests, 2 models of which 1 is noted, the host, every kind of eviction | a moving bar has a guard, never another model's name, and a served model stays |
| `residency_live` | 2 requests, 1 model, unload and `contain`'s eviction, fair | a load's bar ends or is taken over |
| `residency_ready` | 2 requests, 1 model, every kind of eviction | violation: `ready` for a model that an eviction took before the guard settled |
| `residency_notes` | 1 request, 1 model, card and host | violation: a client that hangs up in the look leaves its model noted |
| `parts` | ten parts, one of which moves; instances below | the properties of the parts, by name |
| `pack_crash` | 1 layer, 2 levels, 1 kill | violation: a pack is served with a half-written entry |

`parts` is ten checks in one: `turn` is chosen at the start, the parts whose turn it is not have one
initial state and never move, so the state space is the union of the ten. Its instances:

| part | instance | properties |
|---|---|---|
| `OverlayRing` | 2 slots, 2 consumers, 4 positions, fair | `FitsTheSlots`; `StreamsAsPromised`, which is the refinement of `LayerStream`; `AcquireReturns`, `DropReturns` |
| `ModelDownload` | a weight file that may have a sha and a config without, 3 revisions of 2, 3 and 2 chunks, 2 stops, fair | `FilesAreWhole`; `FilesArrive`, which is `FetchedUnlessOvergrown` |
| `PackOnDisk` | 2 layers, 2 levels, 3 stops or unreadable journals, fair | `WholeUnlessStruck`, `IndexIsBacked`; `PacksAreServed`, which is `ServedInTheEnd` |
| `DiskCache` | 3 readers of 2 packs, 3 threads, 3 ranges of 1, 2 and 4 bytes, capacity 2 | `ServesItsOwnBytes`, `UsedIsWhatIsListed` |
| `WorkingSet` | every pass of 3 layers over 3 units, 1 or 2 a layer; capacity 1..3, window 0..2 | `StagedInTime` |
| `VramGuard` | samples 0, 1, 2, 5; window 3, hysteresis 2, 1 breach, fair | `PeaksExpire` |
| `PlacementBudget` | budgets 1..8, 3 speeds, 2 failures, a plain caller and the server | `AloneItNeverDoes` |
| `ThinkFilter` | 181 texts of up to 14 symbols, cut anywhere, both filters, tags of 3 symbols that begin alike | `StreamedAsWhole` |
| `LogRing` | rings of 2 and 1, 2 evictions remembered, 7 lines, 1 restart | `EveryLineIsAccountedFor` |
| `RestartBudget` | cooldown 2, 4 ticks, 1 stamp in a header, 2 requests that decide | `BudgetHolds`, `EvidenceIsNews`, `RestartingEnds` |

**Bounds.** `MaxFailures`, `MaxBugs` and `MaxReleases` bound the environment, not the code. Two failures
are the least that latch an exit, and the second is enough to hit any state the first left;
`decode_safety` takes two failures, or one that an outsider decides and that latches (the thread decided
it first), or a release (`FewEvents`, which also lets the last restart's cooldown be over before
anything fails): for all of them together, and any number of each, its safety properties are all proved.
Two clients are the least that interleave on the slot; a third would only wait in the same queue. Two
models let a chat find another's model in the slot. A budget of one token still has a computed, a judged
and a delivered token and the step after the last; the decode thread has two where a session must
outlive a step. `LoadIds` are reused only when nothing refers to the old load, so two names do for any
number of loads. `decode_live` has one slot so that a joiner waits or is handed back. The epoch needs no
bound: every bump is a failure or its decision. `Residency` has no counters and needs no bound but its
sets and `Evictions`, with one eviction at a time: a second evictor finds the slot empty or held and
repeats the first one's stores. Its second request is the one whose load begins while the first one's
guard or an eviction is half done, and its second model the one whose name the first must not keep. In
the parts: a third stop lets a repair be cut short and repaired; a revision that moves twice makes two
to mix and a body that grows and shrinks, and a second chunk a place to cut; three samples fill a window
and a peak can leave it; a ring of two evicts with one line still there; four ticks hold a restart, one
too early and one in time; the ring's four positions pass each of its two slots twice.

**Fairness.** `ModelServing`: weak fairness of each client's steps (the runtime polls what is ready;
the loader, the forward and the device threads return) and strong fairness of taking the slot, since
tokio's mutex is FIFO. Nothing makes a client arrive, hang up, or a device fail. `DecodeThread`: weak
fairness of the thread, of each request, and of `SESSION_SPAN` running out; strong fairness of a
turn of the thread's loop and of the end of a session, because the thread drains its channel faster
than clients who come and hang up can fill it, and of queueing, because the registry's mutex is held
for an instant at a time. `decode_live` has no device failures, since with one the deadlock of
`deadlock` is reachable. `Residency`: weak fairness of each request's own steps and of the thread's,
because loads, generations and sessions come to an end. Nothing makes a client arrive, join or hang
up, a look or an acquire succeed, a loader report, or an eviction finish: `BarEnds` does not need them.

In `parts`, weak fairness of the prefetcher and of each consumer (uploads return, a guard is dropped
in the end); of the downloading and importing process's own step, and strong fairness of asking for
each file again, which is what a retried load does; of the guard's polls, which a timer makes; of the
exit's steps and its watchdog. Kills, errors, stalls and a moving branch have none.

**Deadlock checking** is off in `decode_safety`, `deadlock` and `parts` only: in the first two the
failures can leave the registry's mutex locked for ever (the finding), or every bounded environment
step spent and every request refused; in `parts` the bounded schedule, the finished text and the
planned pass have an end.

**Symmetry** of requests and load names is used in `decode_safety`, and of requests in
`residency_safety`; no property there names one.

## 4. The proofs

`ModelServingProofs` proves, for any number of requests, retrievals, devices, models, placements,
tokens, failures and panics, under `DevicesAssumption` and `ServingAssumption` (disjoint names,
positive budget):

| theorem | property |
|---|---|
| `Invariance` | `Spec => []IInv` |
| `TypeCorrect` | `TypeOK` |
| `SpoiledKnown` | `SpoiledModelsAreKnown` |
| `TokensClean` | `EmittedTokensAreClean` |
| `LatchStarves` | `NothingServableAfterLatch` |
| `SoundLanding` | `OnlySoundModelsLand` |

None of the safety properties is inductive alone. `IInv` adds to the types: who holds the lock is
exactly who is at a holding step (`HolderInv`); the slot is empty while it is loaded into and full
while served, and a build belongs to its loader and carries its mark's epoch (`ContentInv`); stamps
are past epochs, and strictly so once an exit is latched, unless a load began after it (`StampInv`); at
most one does (`LateInv`); spoiled weights are behind the
epoch or their failure is still queued (`SpoiledInv`); what a token in hand says (`TokenInv`).

The argument: a load begins with its stamp the epoch of that moment; the latch and every failure move
the epoch; so a model that predates either is behind. A load looks at the latch holding the lock and
keeps it until it begins, so at most one is past its look when the latch falls. A load's failing
allocation sits in a queue; the sync waits for that queue, so when it answers either the epoch moved --
and the load is thrown away -- or nothing was spoiled. A forward waits for its devices' queues, so a
token computed on spoiled weights sees the epoch moved when it is judged.

The same module counts decisions:

| theorem | property |
|---|---|
| `CountInvariance` | `Spec => []CountInv` |
| `AtMostThreeDecisions` | `decided <= 3 * raised + 2 * bugs` |
| `RestartIsDecided` | an exit takes a device failure and two decisions |
| `DecisionsAndPanics` | without retrieval calls, `decided <= raised + 2 * bugs` |
| `DecisionsHaveFailures` | without retrieval calls and without panics that are no device failures, `EveryDecisionHasItsFailure` |
| `RestartAfterTwo` | under the same two hypotheses, `RestartNeedsTwoFailures` |

What has to be bounded is not `decided` but everything that may still be decided (`Debt`): the decisions
made, the failures hidden in a device's queue, the one the slot's holder has before it, and two for
each call that escaped and `contain` has yet to judge. A failure the holder sees is cleared by its own
decision, because the decision moves the epoch and the holder drops its model. The two hypotheses are not
for the prover's sake. With a retrieval call one failure is decided twice (`two_counts`). And an ordinary
panic is judged by `contain` against a mark of its own: if another request's failure moved it, the
panic is decided as one more failure (TLC finds it in `serving_chat` with `MaxBugs = 1`). `serving_chat`,
which checks the two properties, is an instance of the hypotheses.

`DecodeThreadProofs` proves, for any number of requests, models, loads, batch slots, tokens, failures,
panics and releases, supervised or not, under `DevicesAssumption` and `DecodeAssumption` (names apart, a
positive batch and budget):

| theorem | property |
|---|---|
| `DecodeInvariance` | `Spec => []IInv` |
| `DecodeTypeCorrect` | `DecodeTypeOK` |
| `NobodyForgotten` | `NobodyIsForgotten` |
| `AdmittingReal` | `AdmittingSessionIsReal` |
| `LoadsAlone` | `NoBatchBesideALoad` |
| `LatchStopsSessions` | `LatchEndsSessions` |
| `SentTokensClean` | `SentTokensAreClean` |
| `JobsAreHeldOnce` | `Spec => []AnswersInv`: a job is in one place at a time, and goes when its request is told the end |
| `AnswersKeepTheirPromise` | `AnswersAsPromised`: every step of the thread and of its clients is a step of `AnswerStream` or none |
| `SlotIsHeld` | whoever has the slot is a request on its way with it, or the thread: in a `Start` message, in a session, or in the failure that ends one |

The invariant follows the slot from hand to hand, because that is what the properties hang on: a request
plans, loads and sends; its `Start` lies in the channel; the session runs; it ends or fails. For each
place it says who holds the slot and what is in it (`SlotInv`, `HandedInv`), that there is at most one
`Start` and one release on the way, each from a request that waits for it (`ChannelInv`), that an
admitting registry has a session of its own key (`RegistryInv`), and that a latch finds at most one load
past its look (`LatchInv`). A listening request's job is where the thread still looks, or it has an
answer that ends its wait (`JobsInv`): the proof goes through every place `fail`, `handle` and the two
ends of a session put a job. `LoadsAlone` needs that only the answer to a release lets a request on to
its load, and that the thread gives that answer with its batch dropped. `SentTokensClean` follows a
call's mark: a mark's epoch is its model's stamp (`CallInv`), so a spoiled call shows when it is judged;
with a stamp behind the epoch from the latch on (`StampInv`) the same mark gives `LatchStopsSessions`.
It is one lemma per conjunct of the invariant, one step per action in each.

`IInv` says that no listener is forgotten; the refinement needs the other half, that none is told
twice. `AnswersInv` is that half. A request's job is in one place only: one message, once in `waiting`,
in admission or live (`OnceInv`). Whose job the thread still has either listens and has not been told an
end, or has hung up and not come back (`AloneInv`): so whatever the thread says to the owner of a job
comes before an end, and the job goes with the end. Nothing is kept for who does not listen
(`SilentInv`), and only live sequences have a count (`MadeInv`). There is one lemma for every way a job
can move: it stays (`OnceIfSame`), it is posted (`OnceIfPosted`), it moves alone (`AloneIfOneMoves`), its
request is told and it goes (`AloneIfTold`). Given both invariants, `PromiseStep` takes each action to
the step of `AnswerStream` it is: the steps in which the thread speaks are written down as a function
from requests to words (`Spoken`, `EndsAreSaid`), a request that returns is a `Leave` (`ReturnLeaves`), and
one that comes to listen has nothing left of an earlier answer (`Fresh`).

`ResidencyProofs` proves, for any number of requests, models, backends and evictions, under
`ResidencyAssumption` (the names are apart, the host is a backend):

| theorem | property |
|---|---|
| `ResidencyInvariance` | `Spec => []IInv` |
| `ResidencyTypeCorrect` | `TypeOK` |
| `BarIsOwned` | `WorkingPhaseIsOwned` |
| `BarIsNamed` | `NameIsNotAnothers` |
| `ServedStays` | `ServedModelStays` |

Its `IInv` adds who holds the slot (`HolderInv`) and what a load knows: the slot is empty while it
is loaded into, and the load's request owns the bar with an armed guard, under its own name or, if an
older guard blanked it, none (`LoadInv`). Only a load's beginning gives the bar a new owner and name,
and only the slot's holder can load; so when a model lands the bar is the loader's. A guard goes only
together with its bar's working phase, or when the bar is a newer load's; the one store that can come
late, an old guard's `idle`, leaves a phase that needs no owner and a name that is nobody's. The steps
are one case per action and one leaf each: the types first, then the rest.

`OverlayRingProofs` proves, for any number of slots and consumers and any schedule length, under
`RingAssumption` (at least one slot, finitely many consumers):

| theorem | property |
|---|---|
| `RingInvariance` | `RingSpec => []IInv` |
| `RingTypeCorrect` | `RingTypeOK` |
| `SlotsAreKept` | `FitsTheSlots` |
| `RingKeepsItsPromise` | `StreamsAsPromised`: every step of the ring is a step of `LayerStream` or none |

`occupied` counts claims, not bytes: a slot stays counted from the claim until the guard's drop has
taken the mutex, after the payload went. `IInv` says so exactly (`SlotInv`): `occupied` is the layers
on the device, the consumers between their payload's drop and the mutex, and one slot a panicked upload
wasted. With it `ready` is the next positions in order, all on the device (`ReadyInv`), and what a
guard holds is on the device, was handed over, and is nobody else's (`HoldInv`).

`RestartBudgetProofs` proves, over any number of processes, deaths, deploys and refused files, under
`RestartAssumption` (a positive cooldown no longer than a day, a header that carries a stamp):

| theorem | property |
|---|---|
| `BudgetInvariance` | `Spec => []IInv` |
| `BudgetIsKept` | `BudgetHolds` |
| `EvidenceStaysNews` | `EvidenceIsNews` |

A restart still counts if it is younger than the cooldown and its record was not lost. The argument is
that the record of one is always in the place that will be read next (`RecordInv`): in the newer of
the two files while no process is up or one is taking them, in the newer of the two taken, then in
memory; and that there is none once an exit is latched. What makes "newer" right is `AgeInv`: a file
is older than anything the process can stamp, or its own exit's. A header carries its own stamp as its
last, so the cap cannot cut off the one that counts (`NewestKeepsTheLast`). The second theorem adds
that what was adopted is older than what can be stamped, and that the two places never hold the same
exit (`NewsInv`): otherwise a fallback's late copy could be adopted after the local one.

`PackOnDiskProofs` proves, for any number of layers and stops, any list of levels and any set of blind
entries, under `PackAssumption` (finitely many stops, at least one level, none twice):

| theorem | property |
|---|---|
| `PackInvariance` | `PackSpec => []PackInv` |
| `PackTypeCorrect` | `PackTypeOK` |
| `OnlyStruckLayersAreBroken` | `WholeUnlessStruck` |
| `UninterruptedPackIsWhole` | a pack whose making was never stopped is served whole |
| `TernaryIsBacked` | `IndexIsBacked` |

Two facts carry it. The level the fingerprint is taken of is written last, so an entry whose fingerprint
is still the old one can be rewritten whatever its other levels hold, and one whose fingerprint is not
has been moved at every level. And a rewrite puts down what was read before its first write. `LayerInv`
says so for each entry of each layer that is not struck, by the layer's journal (`Settled`) and the
place of the work on it (`AtWork`); `PhaseInv` and `PlaceInv` say which journals the load has behind it.
`UninterruptedPackIsWhole` is there because the excepted layers must not be all of them: what is struck
takes a stop, or a journal the disk refuses to read.

`PartsProofs` proves, under each part's own assumption:

| part | theorem | property |
|---|---|---|
| `ModelDownload` | `FetchInvariance`, `FetchTypeCorrect` | the invariant; the types |
| | `DownloadsAreWhole` | `FilesAreWhole` |
| `DiskCache` | `CacheInvariance`, `CacheTypeCorrect` | the invariant; the types |
| | `ReadsItsOwnPack` | `ServesItsOwnBytes` |
| | `BooksAreRight` | `UsedIsWhatIsListed` |
| `PlacementBudget` | `ControllerInvariance` | the invariant |
| | `NeverGrowsBack` | `AloneItNeverDoes` |
| `WorkingSet` | `PassInvariance`, `PassTypeCorrect` | the invariant; the types, the capacity among them |
| | `OnlyTheFirstOverflows` | `StagedInTime` |
| `LogRing` | `LogInvariance`, `LogTypeCorrect` | the invariant; the types |
| | `NothingPrintedIsLost` | `EveryLineIsAccountedFor` |
| `ThinkFilter` | `FilterInvariance`, `FilterTypeCorrect` | the invariant; the types |
| | `ShownAsWhole` | `StreamedAsWhole`, for every text and every two tags |

- The download: what ties a file to one revision is the digest, and it is of what the stream hasher saw;
  so while a body streams the `.part` *is* what was hashed, an earlier attempt's prefix included, and a
  rename of weights follows a digest that was announced.
- The cache: a reader beside which no other pack was open lists only files of its own pack, since whoever
  opens wipes the directory and every two readers of two packs have found each other. That
  `used_bytes` is what is listed needs a sum over a set to be the same in any order. The library's fold
  says nothing of that, and its induction theorems cannot be used; the lemmas before `SumOfParts` show by a
  smallest counterexample that some function counts one range after another, and that the fold is it.
- The controller: once it has learned of a failure the budget, and the best it would go back to, are
  below the ceiling that follows; until then the flag stands and the budget does not move.
- The pass: the pinned units leave room for a window, so a round always finds somebody to evict who is not
  of the next layer, and what it has looked at is on the device when the layer begins.
- The log: forgotten evictions are older than remembered ones, those older than what is held; a page
  longer than the quiet ring reaches a line of the main ring or the end, so its cursor skips nothing
  but what is evicted; and `dropped_after` is exact as far as the memory reaches and never too large beyond.
- The think filter: where it is, the scan of the whole text is too, and no tag begins in what it has let
  go of (`SteadyInv`). `NothingIsCut` is why holding back the longest dangling prefix is enough: a tag
  that began earlier and is not whole yet would be a longer one. It holds for tags that overlap
  themselves or each other. What opens the answer is decided by what came so far (`LedBySpan`,
  `LedByText`): a span withheld, or something to read before any. The scan is a recursive function; that
  there is one, and that it stays as it is where no tag ends, is shown by a smallest counterexample
  (`ScanExists`, `Upwards`).

Every assumption a theorem uses is evaluated by TLC in the runs. `Residency`'s types are proved and not
checked again by a run. The theorems say nothing of the bounds:
constants like `MaxFailures` are any number.

What stays with TLC:

- Liveness and ENABLED are beyond the prover: `EveryCallReturns`, `EveryRequestReturns`, `BarEnds`,
  `AcquireReturns`, `DropReturns`, `FilesArrive`, `PacksAreServed`, `PeaksExpire`, `RestartingEnds`.
- `PartsTypeOK`, which is the types of ten parts: nine are proved one by one, those of `VramGuard` are checked.

## 5. Findings

`PROJECT.json` "findings" quotes each line and names the run that shows it:

1. `deadlock` (code bug): `maybe_end` handles drained messages under the registry's mutex; an
   admission there that meets a device failure calls `fail`, which locks it again.
2. `two_counts`: `contain` around a retrieval and a chat's load both decide one device failure.
3. `residency_notes` (code bug): `drive` returns from its look at the slot before the guard that takes
   a plan's note back exists; the note then counts as bytes an eviction would free.
4. `residency_ready`: for a batched request the slot can come free before its progress guard drops,
   the order `drive`'s comment rules out.
5. `pack_crash` (code bug): `repair_layer` takes an entry that was killed inside its own rewrite for one
   that was rewritten, since it no longer has its old fingerprint, and marks the layer done.

Seen while modelling, without a run of their own:

- A join can overtake the `Start` of the session it joins, on a branch commented as unreachable
  (`serve/decoder.rs` 371). `StrandJoin` models it, and the joiner is told.
- `generation_succeeded` is called when a token is *read*, which may be after its session's failure
  was decided (`serve/engine.rs` 4444).
- A failure of another device between two calls of the decode thread is charged to the session's own
  devices (`serve/decoder.rs` 836).
- `load_succeeded` clears what failed after `load_fault` looked (`serve/recovery.rs` 1097).
- `contain` latches the exit after its guard is gone, where EXITING's comment says "under the model
  slot's lock" (`serve/recovery.rs` 781), `load_for_slot` "under this same lock" (`serve/engine.rs` 4896),
  and `record_failure` "so a queued request cannot slip into a load on a device that is about to go"
  (`serve/recovery.rs` 1399): the one load that is past its look does. It lands with a fresh stamp, so that
  "every resident model is stale" (`run_chat`, `serve/engine.rs` 1128) is not true of it.
- A previous failure that names two devices is never taken off the page (`serve/recovery.rs` 703).
- An old guard's `idle` can blank the phase or the name of a load that began in between
  (`mummu/progress.rs` 498).
- An eviction under host pressure drops only the note of the host, whichever backend the slot's model
  was noted on (`serve/engine.rs` 3533).
- `release_wait` gives up after five seconds; a thread that answers later drops its batcher beside the
  load that went on (`serve/decoder.rs` 273). A release that arrives during a session is forgotten if
  the session ends by a failure (378), which drops the batcher anyway.
- `record_failure` prints between latching the exit and arming the watchdog: a print that blocks there
  is not covered by it (`serve/recovery.rs` 1410).
- A range cache's key names the blob, not the pack, so two packs open at once overwrite each other's
  files (`mummu/diskcache.rs`); `ServesItsOwnBytes` excepts exactly that case (`crossed`). A rewrite of
  an entry does not drop its cached ranges, and `.tmp` files left by a kill are nobody's.
- A `.part` that is as long as the body or longer -- complete but not renamed, or the branch moved to a
  shorter file -- is asked for a range beyond its end on every later try (`mummu/hub.rs`);
  `FetchedUnlessOvergrown` excepts exactly that. A file without an announced sha can be spliced from two
  revisions, and two processes that download one file share its `.part`.
- A torn `partition.journal` entry fails every later load (`mummu/partition.rs`); `ServedInTheEnd`
  excepts exactly that. A stop in a layer whose entry the fingerprint cannot tell is `struck`, and so are the
  entries reordered twice past a journal that could not be read (418).
- `ALLOC_FAILED` is one flag with two readers: the guard's poll can take it before the controller sees
  it, and the load after a failure arms a controller that knows nothing (`serve/placement.rs`,
  `mummu/adapt.rs`); in the server the budget can therefore grow back into what was refused.
- A log client whose page does not reach past the quiet ring, or whose cursor of an earlier process has
  been passed by the new one's, can be told of a loss twice or not at all (`serve/logs.rs`);
  `EveryLineIsAccountedFor` excepts both.

## 6. What is left

1. `ModelServing` has no abstract specification. Its safety is about the epochs and the books
   themselves, and `DecodeThread`'s `AnswerStream` says what a client of the batched path is promised;
   the same promise for generation under the guard would be one token loop and is not stated.
2. The placement watch: its moves and thresholds against requests.
3. Retrieval's residents and the 120 s wait for the slot behind a chat (`serve/retrieval.rs`).
4. The idle re-plan's own `record_failure` after its slot guard is released (`serve/placement.rs` 2700): in
   the decode models such a failure is an outsider's, but its retraction of the placement is not there.

### Not modelled

`PROJECT.json` has the reason for each component; in short:

- The model zoo, the blocks and kernels, the device backends, graph capture, vision and embeddings are
  tensor programs in floating point. They keep no state a second actor sees, and the repository checks
  them against reference outputs. They are the larger part of the source.
- The checkpoint parsers and dequantisers are byte layouts, likewise; what their files leave on a disk
  after a kill is `PackOnDisk` and `ModelDownload`.
- The placement and precision planner, water-filling and the knapsacks optimise over reals, in one
  call, with property tests of their own.
- Grammar-constrained decoding, templates and tokenizers are recognisers over characters; numeric
  conversions are single expressions.
- HTTP routes, status pages, start-up, profiling and the desktop shell render or measure state kept
  elsewhere.
