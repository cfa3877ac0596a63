------------------------------ MODULE OverlayRing ------------------------------
(***************************************************************************)
(* The ring executor of overlay.rs: one prefetch thread uploads the layers *)
(* of a repeating schedule into a fixed number of slots, and consumers     *)
(* take them in order.  One mutex, one condition variable for everybody.   *)
(*                                                                         *)
(* A position stands for the layer scheduled there.  Left out: spurious    *)
(* wake-ups (every wait is in a loop that looks again), the row blocks of  *)
(* an upload, and the assertion that callers follow the schedule.          *)
(***************************************************************************)
EXTENDS Integers, Sequences, FiniteSets

CONSTANTS
    Slots,       \* device slots
    Consumers,   \* threads that acquire; each holds one guard at a time
    MaxPos       \* bound: positions of the endless schedule

ASSUME RingAssumption ==
    Slots \in Nat \ {0} /\ IsFiniteSet(Consumers) /\ MaxPos \in Nat

VARIABLES
    ready,        \* uploaded and not consumed, in schedule order
    nextUpload,   \* the next position the prefetcher claims
    nextAcquire,  \* the next position acquire hands out
    occupied,     \* slots in use
    shutdown,     \* Ring's Drop has begun
    gone,         \* prefetcher_gone
    prefetcher,   \* where the prefetch thread is
    broken,       \* its upload panicked
    consumer,     \* where each consumer is
    want,         \* the position each consumer claimed last
    onDevice      \* positions with bytes on the device

state    == <<ready, nextUpload, nextAcquire, occupied, shutdown, gone>>
ringVars == <<state, prefetcher, broken, consumer, want, onDevice>>

Prefetching == {"claim", "waiting", "upload", "retire", "exited"}
Consuming   == {"out", "look", "waiting", "hold", "release", "failed"}

RingInit ==
    /\ ready = <<>> /\ nextUpload = 0 /\ nextAcquire = 0 /\ occupied = 0
    /\ shutdown = FALSE /\ gone = FALSE
    /\ prefetcher = "claim" /\ broken = FALSE
    /\ consumer = [c \in Consumers |-> "out"]
    /\ want = [c \in Consumers |-> 0]
    /\ onDevice = {}

\* cv.notify_all: whoever waits looks again.
Awake(c) == IF consumer[c] = "waiting" THEN "look" ELSE consumer[c]
WokenConsumers == [c \in Consumers |-> Awake(c)]
WokenPrefetcher == IF prefetcher = "waiting" THEN "claim" ELSE prefetcher

-----------------------------------------------------------------------------
(* prefetch_loop.                                                          *)

\* The wait: nothing to do until a slot is free or the ring goes.
PrefetcherWaits ==
    /\ prefetcher = "claim" /\ ~shutdown /\ occupied >= Slots
    /\ prefetcher' = "waiting"
    /\ UNCHANGED <<state, broken, consumer, want, onDevice>>

\* A free slot: the next position is claimed, and its bytes start to come.
Claim ==
    /\ prefetcher = "claim" /\ ~shutdown /\ occupied < Slots
    /\ nextUpload < MaxPos
    /\ nextUpload' = nextUpload + 1
    /\ occupied' = occupied + 1
    /\ prefetcher' = "upload"
    /\ onDevice' = onDevice \union {nextUpload}
    /\ UNCHANGED <<ready, nextAcquire, shutdown, gone, broken, consumer, want>>

PrefetcherLeaves ==
    /\ prefetcher = "claim" /\ shutdown
    /\ prefetcher' = "retire"
    /\ UNCHANGED <<state, broken, consumer, want, onDevice>>

\* The upload returned: its payload is ready, and everyone is told.
Land ==
    /\ prefetcher = "upload"
    /\ ready' = Append(ready, nextUpload - 1)
    /\ prefetcher' = "claim"
    /\ consumer' = WokenConsumers
    /\ UNCHANGED <<nextUpload, nextAcquire, occupied, shutdown, gone, broken,
                   want, onDevice>>

\* The upload panicked: what it had brought is dropped, its slot is not.
UploadPanics ==
    /\ prefetcher = "upload"
    /\ broken' = TRUE
    /\ prefetcher' = "retire"
    /\ onDevice' = onDevice \ {nextUpload - 1}
    /\ UNCHANGED <<state, consumer, want>>

\* Mutant: nobody is told.
RetireQuietly ==
    /\ prefetcher = "retire"
    /\ gone' = TRUE
    /\ prefetcher' = "exited"
    /\ UNCHANGED <<ready, nextUpload, nextAcquire, occupied, shutdown, broken,
                   consumer, want, onDevice>>

\* Retire's Drop, however the loop was left.
Retire ==
    /\ prefetcher = "retire"
    /\ gone' = TRUE
    /\ prefetcher' = "exited"
    /\ consumer' = WokenConsumers
    /\ UNCHANGED <<ready, nextUpload, nextAcquire, occupied, shutdown, broken,
                   want, onDevice>>

-----------------------------------------------------------------------------
(* Consumers.                                                              *)

\* acquire claims the next position before it looks for it.
Acquire(c) ==
    /\ consumer[c] = "out" /\ ~shutdown /\ nextAcquire < MaxPos
    /\ want' = [want EXCEPT ![c] = nextAcquire]
    /\ nextAcquire' = nextAcquire + 1
    /\ consumer' = [consumer EXCEPT ![c] = "look"]
    /\ UNCHANGED <<ready, nextUpload, occupied, shutdown, gone, prefetcher,
                   broken, onDevice>>

\* Mutant: whatever is ready is taken.
AnyReady(c) == ready # <<>>

InFront(c) == ready # <<>> /\ Head(ready) = want[c]

\* Mutant: the slot is given back when its payload is taken.
TakeFrontAndRelease(c) ==
    /\ consumer[c] = "look" /\ InFront(c)
    /\ ready' = Tail(ready)
    /\ occupied' = occupied - 1
    /\ prefetcher' = WokenPrefetcher
    /\ consumer' = [consumer EXCEPT ![c] = "hold"]
    /\ UNCHANGED <<nextUpload, nextAcquire, shutdown, gone, broken, want,
                   onDevice>>

\* It is there: the guard holds the payload and the slot.
TakeFront(c) ==
    /\ consumer[c] = "look" /\ InFront(c)
    /\ ready' = Tail(ready)
    /\ consumer' = [consumer EXCEPT ![c] = "hold"]
    /\ UNCHANGED <<nextUpload, nextAcquire, occupied, shutdown, gone,
                   prefetcher, broken, want, onDevice>>

\* It is not there and never will be: the acquire panics.
AcquireFails(c) ==
    /\ consumer[c] = "look" /\ ~InFront(c) /\ gone
    /\ consumer' = [consumer EXCEPT ![c] = "failed"]
    /\ UNCHANGED <<state, prefetcher, broken, want, onDevice>>

ConsumerWaits(c) ==
    /\ consumer[c] = "look" /\ ~InFront(c) /\ ~gone
    /\ consumer' = [consumer EXCEPT ![c] = "waiting"]
    /\ UNCHANGED <<state, prefetcher, broken, want, onDevice>>

\* SlotGuard's Drop: the payload goes first ...
DropPayload(c) ==
    /\ consumer[c] = "hold"
    /\ onDevice' = onDevice \ {want[c]}
    /\ consumer' = [consumer EXCEPT ![c] = "release"]
    /\ UNCHANGED <<state, prefetcher, broken, want>>

\* ... then the slot, and everyone is told.
ReleaseSlot(c) ==
    /\ consumer[c] = "release"
    /\ occupied' = occupied - 1
    /\ prefetcher' = WokenPrefetcher
    /\ consumer' = [WokenConsumers EXCEPT ![c] = "out"]
    /\ UNCHANGED <<ready, nextUpload, nextAcquire, shutdown, gone, broken,
                   want, onDevice>>

\* Mutant: the prefetcher is not woken.
DropRingQuietly ==
    /\ ~shutdown
    /\ \A c \in Consumers : consumer[c] \notin {"look", "waiting"}
    /\ shutdown' = TRUE
    /\ UNCHANGED <<ready, nextUpload, nextAcquire, occupied, gone, prefetcher,
                   broken, consumer, want, onDevice>>

\* Ring's Drop: nobody is in acquire, which borrows the ring; guards may
\* outlive it.
DropRing ==
    /\ ~shutdown
    /\ \A c \in Consumers : consumer[c] \notin {"look", "waiting"}
    /\ shutdown' = TRUE
    /\ prefetcher' = WokenPrefetcher
    /\ consumer' = WokenConsumers
    /\ UNCHANGED <<ready, nextUpload, nextAcquire, occupied, gone, broken,
                   want, onDevice>>

-----------------------------------------------------------------------------
Prefetch ==
    \/ PrefetcherWaits \/ Claim \/ PrefetcherLeaves
    \/ Land \/ UploadPanics \/ Retire

Consume(c) ==
    \/ TakeFront(c) \/ AcquireFails(c) \/ ConsumerWaits(c)
    \/ DropPayload(c) \/ ReleaseSlot(c)

RingNext ==
    \/ Prefetch
    \/ \E c \in Consumers : Consume(c) \/ Acquire(c)
    \/ DropRing

RingSpec == RingInit /\ [][RingNext]_ringVars

\* Uploads return or panic; a thread that is not waiting runs; a guard is
\* dropped in the end.
FairRing ==
    /\ RingSpec
    /\ WF_ringVars(Prefetch) /\ \A c \in Consumers : WF_ringVars(Consume(c))

-----------------------------------------------------------------------------
(* Properties.                                                             *)

RingTypeOK ==
    /\ ready \in Seq(Nat)
    /\ nextUpload \in Nat /\ nextAcquire \in Nat /\ occupied \in Nat
    /\ shutdown \in BOOLEAN /\ gone \in BOOLEAN /\ broken \in BOOLEAN
    /\ prefetcher \in Prefetching
    /\ consumer \in [Consumers -> Consuming]
    /\ want \in [Consumers -> Nat]
    /\ onDevice \in SUBSET Nat

\* "At most `slots` layers' bytes exist on the device at once, whatever the
\* model's depth": RingState::occupied's comment, min_vram_bytes' theorem.
FitsTheSlots == Cardinality(onDevice) <= Slots

\* The ring keeps the promise of LayerStream: in order, once each, within
\* the slots, and a payload leaves the device only after it was handed over.
\* What was handed over is what is no longer ready, short of an upload that
\* is still flying or that panicked.
Landed == IF prefetcher = "upload" \/ broken THEN nextUpload - 1 ELSE nextUpload
Promise == INSTANCE LayerStream WITH
    begun <- nextUpload, handed <- Landed - Len(ready),
    stopped <- broken \/ shutdown

StreamsAsPromised == Promise!Spec

\* An acquire that waits gets its layer or fails loudly: no wake-up is lost,
\* and none waits on a dead prefetcher.
AcquireReturns ==
    \A c \in Consumers :
        consumer[c] \in {"look", "waiting"} ~> consumer[c] \in {"hold", "failed"}

\* Dropping the ring joins its thread, so the thread must leave.
DropReturns == shutdown ~> prefetcher = "exited"
=============================================================================
