--------------------------- MODULE OverlayRingProofs ---------------------------
(***************************************************************************)
(* Theorems about OverlayRing, for any number of slots, consumers and      *)
(* layers: the bytes on the device fit the slots, and the ring keeps the   *)
(* promise of LayerStream.                                                 *)
(***************************************************************************)
EXTENDS OverlayRing, FiniteSetTheorems, TLAPS

-----------------------------------------------------------------------------
(* The invariant.                                                          *)

\* Positions that left the ready queue.
Handed == Landed - Len(ready)

Releasing == {c \in Consumers : consumer[c] = "release"}

\* A slot that no bytes are in: a panicked upload's.
Wasted == IF broken THEN 1 ELSE 0

\* Where the prefetcher stands says whether an upload is under way or failed.
PrefetcherInv ==
    /\ prefetcher = "upload" => ~broken /\ nextUpload - 1 \in onDevice
    /\ broken => prefetcher \in {"retire", "exited"}
    /\ prefetcher = "upload" \/ broken => nextUpload > 0

\* What is ready is the next positions in order, all of them on the device.
ReadyInv ==
    /\ Handed >= 0
    /\ \A i \in 1..Len(ready) :
          ready[i] = Handed + i - 1 /\ ready[i] \in onDevice

\* A guard's payload is on the device and was handed over, to it alone.
HoldInv ==
    /\ \A c \in Consumers :
          consumer[c] = "hold" => want[c] \in onDevice /\ want[c] < Handed
    /\ \A c, d \in Consumers :
          /\ consumer[c] = "hold" /\ consumer[d] = "hold"
          /\ want[c] = want[d]
          => c = d

\* Every slot in use is one layer's bytes, one guard's that dropped its
\* payload, or the panicked upload's.
SlotInv ==
    /\ IsFiniteSet(onDevice) /\ onDevice \subseteq 0..(nextUpload - 1)
    /\ occupied = Cardinality(onDevice) + Cardinality(Releasing) + Wasted
    /\ occupied <= Slots

Safe == PrefetcherInv /\ ReadyInv /\ HoldInv /\ SlotInv

IInv == RingTypeOK /\ Safe

-----------------------------------------------------------------------------
(* The facts about sequences and counts that the steps need.               *)

\* A queue grows at its end and shrinks at its head.
LEMMA QueueFacts ==
  ASSUME NEW q \in Seq(Nat), NEW p \in Nat
  PROVE  /\ Len(q) \in Nat
         /\ \A i \in 1..Len(q) : q[i] \in Nat
         /\ Append(q, p) \in Seq(Nat) /\ Len(Append(q, p)) = Len(q) + 1
         /\ \A i \in 1..Len(q) : Append(q, p)[i] = q[i]
         /\ Append(q, p)[Len(q) + 1] = p
         /\ q # <<>> =>
              /\ Len(q) > 0 /\ Head(q) = q[1]
              /\ Tail(q) \in Seq(Nat) /\ Len(Tail(q)) = Len(q) - 1
              /\ \A i \in 1..Len(Tail(q)) : Tail(q)[i] = q[i + 1]
OBVIOUS

\* The guards that dropped their payload are finitely many.
LEMMA ReleasingFinite ==
  IsFiniteSet(Releasing) /\ Cardinality(Releasing) \in Nat
<1>1. Releasing \subseteq Consumers
  BY DEF Releasing
<1>2. QED  BY <1>1, RingAssumption, FS_Subset, FS_CardinalityType

\* What is on the device is at most the slots in use, hence fits.
LEMMA SlotsBound == IInv => FitsTheSlots
<1> SUFFICES ASSUME IInv PROVE FitsTheSlots  OBVIOUS
<1>1. Cardinality(Releasing) \in Nat /\ Cardinality(onDevice) \in Nat
  BY ReleasingFinite, FS_CardinalityType DEF IInv, Safe, SlotInv
<1>2. Wasted \in Nat
  BY DEF Wasted
<1>3. QED  BY <1>1, <1>2, RingAssumption DEF IInv, Safe, SlotInv, FitsTheSlots, RingTypeOK

-----------------------------------------------------------------------------
(* The invariant holds at the start and is kept by every step.             *)

\* It holds at the start: nothing is claimed and nobody asks.
LEMMA InitIInv == RingInit => IInv
<1> SUFFICES ASSUME RingInit PROVE IInv  OBVIOUS
<1>1. RingTypeOK
  <2>1. ready \in Seq(Nat)
    BY DEF RingInit
  <2>2. consumer \in [Consumers -> Consuming] /\ want \in [Consumers -> Nat]
    BY DEF RingInit, Consuming
  <2>3. QED  BY <2>1, <2>2 DEF RingInit, RingTypeOK, Prefetching
<1>2. Releasing = {}
  BY DEF RingInit, Releasing
<1>3. SlotInv
  BY <1>2, FS_EmptySet, RingAssumption DEF RingInit, SlotInv, Wasted
<1>4. PrefetcherInv /\ ReadyInv /\ HoldInv
  BY DEF RingInit, PrefetcherInv, ReadyInv, HoldInv, Handed, Landed
<1>5. QED  BY <1>1, <1>3, <1>4 DEF IInv, Safe

\* Every step keeps the types.
LEMMA TypeStep == IInv /\ [RingNext]_ringVars => RingTypeOK'
<1> SUFFICES ASSUME IInv, [RingNext]_ringVars PROVE RingTypeOK'  OBVIOUS
<1> USE DEF IInv, RingTypeOK, Prefetching, Consuming
<1>1. CASE PrefetcherWaits
  BY <1>1 DEF PrefetcherWaits, state
<1>2. CASE Claim
  BY <1>2 DEF Claim, state
<1>3. CASE PrefetcherLeaves
  BY <1>3 DEF PrefetcherLeaves, state
<1>4. CASE Land
  <2>1. nextUpload - 1 \in Nat
    BY <1>4 DEF Land, Safe, PrefetcherInv
  <2>2. QED  BY <1>4, <2>1, QueueFacts DEF Land, WokenConsumers, Awake
<1>5. CASE UploadPanics
  BY <1>5 DEF UploadPanics, state
<1>6. CASE Retire
  BY <1>6 DEF Retire, WokenConsumers, Awake, state
<1>7. ASSUME NEW c \in Consumers, Acquire(c) PROVE RingTypeOK'
  BY <1>7 DEF Acquire, state
<1>8. ASSUME NEW c \in Consumers, TakeFront(c) PROVE RingTypeOK'
  BY <1>8, QueueFacts DEF TakeFront, InFront, state
<1>9. ASSUME NEW c \in Consumers, AcquireFails(c) PROVE RingTypeOK'
  BY <1>9 DEF AcquireFails, InFront, state
<1>10. ASSUME NEW c \in Consumers, ConsumerWaits(c) PROVE RingTypeOK'
  BY <1>10 DEF ConsumerWaits, InFront, state
<1>11. ASSUME NEW c \in Consumers, DropPayload(c) PROVE RingTypeOK'
  BY <1>11 DEF DropPayload, state
<1>12. ASSUME NEW c \in Consumers, ReleaseSlot(c) PROVE RingTypeOK'
  <2>1. occupied - 1 \in Nat
    <3>1. c \in Releasing
      BY <1>12 DEF ReleaseSlot, Releasing
    <3>2. Cardinality(Releasing) > 0
      BY <3>1, ReleasingFinite, FS_EmptySet
    <3>3. Cardinality(onDevice) \in Nat /\ Wasted \in Nat
      BY FS_CardinalityType DEF Safe, SlotInv, Wasted
    <3>4. QED  BY <3>2, <3>3, ReleasingFinite DEF Safe, SlotInv
  <2>2. QED  BY <1>12, <2>1 DEF ReleaseSlot, WokenConsumers, WokenPrefetcher, Awake
<1>13. CASE DropRing
  BY <1>13 DEF DropRing, WokenConsumers, WokenPrefetcher, Awake, state
<1>14. CASE UNCHANGED ringVars
  BY <1>14 DEF ringVars, state
<1>15. QED
  BY <1>1, <1>2, <1>3, <1>4, <1>5, <1>6, <1>7, <1>8, <1>9, <1>10, <1>11, <1>12, <1>13, <1>14
  DEF RingNext, Prefetch, Consume

\* Every step keeps the rest.
LEMMA SafeStep == IInv /\ [RingNext]_ringVars => Safe'
<1> SUFFICES ASSUME IInv, [RingNext]_ringVars PROVE Safe'  OBVIOUS
<1> USE RingAssumption
<1>0. RingTypeOK /\ PrefetcherInv /\ ReadyInv /\ HoldInv /\ SlotInv /\ RingTypeOK'
  BY TypeStep DEF IInv, Safe
<1> DEFINE WaitFree == \A c \in Consumers :
              /\ consumer'[c] = "hold" <=> consumer[c] = "hold"
              /\ consumer'[c] = "release" <=> consumer[c] = "release"
<1>1. CASE PrefetcherWaits
  <2>1. WaitFree
    BY <1>1, <1>0 DEF PrefetcherWaits, state, RingTypeOK
  <2>2. Releasing' = Releasing
    BY <2>1 DEF Releasing
  <2>3. PrefetcherInv'
    BY <1>1, <1>0 DEF PrefetcherWaits, state, PrefetcherInv
  <2>4. Handed' = Handed /\ ReadyInv'
    BY <1>1, <1>0 DEF PrefetcherWaits, state, ReadyInv, Handed, Landed, PrefetcherInv
  <2>5. HoldInv'
    BY <1>1, <1>0, <2>1, <2>4 DEF PrefetcherWaits, state, HoldInv, RingTypeOK
  <2>6. SlotInv'
    BY <1>1, <1>0, <2>2 DEF PrefetcherWaits, state, SlotInv, Wasted
  <2>7. QED  BY <2>3, <2>4, <2>5, <2>6 DEF Safe
<1>2. CASE Claim
  <2>1. ~broken /\ ~broken' /\ nextUpload \notin onDevice
    BY <1>2, <1>0 DEF Claim, PrefetcherInv, SlotInv, RingTypeOK
  <2>2. Releasing' = Releasing
    BY <1>2 DEF Claim, Releasing
  <2>3. PrefetcherInv'
    BY <1>2, <1>0, <2>1 DEF Claim, PrefetcherInv, RingTypeOK
  <2>4. Handed' = Handed /\ ReadyInv'
    BY <1>2, <1>0, <2>1 DEF Claim, ReadyInv, Handed, Landed, RingTypeOK
  <2>5. HoldInv'
    BY <1>2, <1>0, <2>4 DEF Claim, HoldInv
  <2>6. SlotInv'
    <3>1. IsFiniteSet(onDevice') /\ Cardinality(onDevice') = Cardinality(onDevice) + 1
      BY <1>2, <1>0, <2>1, FS_AddElement DEF Claim, SlotInv
    <3>2. Cardinality(onDevice) \in Nat /\ Cardinality(Releasing) \in Nat
      BY <1>0, ReleasingFinite, FS_CardinalityType DEF SlotInv
    <3>3. onDevice' \subseteq 0..(nextUpload' - 1)
      BY <1>2, <1>0 DEF Claim, SlotInv, RingTypeOK
    <3>4. occupied' <= Slots
      BY <1>2, <1>0 DEF Claim, RingTypeOK
    <3>5. Wasted' = Wasted /\ Wasted \in Nat
      BY <2>1 DEF Wasted
    <3>6. QED  BY <1>2, <1>0, <2>2, <3>1, <3>2, <3>3, <3>4, <3>5 DEF Claim, SlotInv
  <2>7. QED  BY <2>3, <2>4, <2>5, <2>6 DEF Safe
<1>3. CASE PrefetcherLeaves
  <2>1. WaitFree
    BY <1>3, <1>0 DEF PrefetcherLeaves, state, RingTypeOK
  <2>2. Releasing' = Releasing
    BY <2>1 DEF Releasing
  <2>3. PrefetcherInv'
    BY <1>3, <1>0 DEF PrefetcherLeaves, state, PrefetcherInv
  <2>4. Handed' = Handed /\ ReadyInv'
    BY <1>3, <1>0 DEF PrefetcherLeaves, state, ReadyInv, Handed, Landed, PrefetcherInv
  <2>5. HoldInv'
    BY <1>3, <1>0, <2>1, <2>4 DEF PrefetcherLeaves, state, HoldInv, RingTypeOK
  <2>6. SlotInv'
    BY <1>3, <1>0, <2>2 DEF PrefetcherLeaves, state, SlotInv, Wasted
  <2>7. QED  BY <2>3, <2>4, <2>5, <2>6 DEF Safe
<1>4. CASE Land
  <2>1. WaitFree
    BY <1>4, <1>0 DEF Land, WokenConsumers, Awake, RingTypeOK
  <2>2. Releasing' = Releasing
    BY <2>1 DEF Releasing
  <2>3. ~broken /\ ~broken' /\ nextUpload - 1 \in Nat /\ nextUpload - 1 \in onDevice
    BY <1>4, <1>0 DEF Land, PrefetcherInv, RingTypeOK
  <2>4. PrefetcherInv'
    BY <1>4, <2>3 DEF Land, PrefetcherInv
  <2>5. Len(ready') = Len(ready) + 1 /\ Len(ready) \in Nat
    BY <1>4, <1>0, <2>3, QueueFacts DEF Land, RingTypeOK
  <2>6. Handed' = Handed /\ Handed = nextUpload - 1 - Len(ready)
    BY <1>4, <1>0, <2>3, <2>5 DEF Land, Handed, Landed, RingTypeOK
  <2>7. ReadyInv'
    <3>1. ASSUME NEW i \in 1..Len(ready)
          PROVE  ready'[i] = Handed + i - 1 /\ ready'[i] \in onDevice
      BY <1>4, <1>0, <2>3, QueueFacts DEF Land, ReadyInv, RingTypeOK
    <3>2. ready'[Len(ready) + 1] = nextUpload - 1
      BY <1>4, <1>0, <2>3, QueueFacts DEF Land, RingTypeOK
    <3>3. ready'[Len(ready) + 1] = Handed + (Len(ready) + 1) - 1
      BY <1>0, <2>5, <2>6, <3>2 DEF RingTypeOK
    <3>4. ASSUME NEW i \in 1..Len(ready')
          PROVE  ready'[i] = Handed + i - 1 /\ ready'[i] \in onDevice
      <4>1. CASE i = Len(ready) + 1
        BY <4>1, <3>2, <3>3, <2>3
      <4>2. CASE i # Len(ready) + 1
        <5>1. i \in 1..Len(ready)
          BY <4>2, <2>5
        <5>2. QED  BY <5>1, <3>1
      <4>3. QED  BY <4>1, <4>2
    <3>5. onDevice' = onDevice
      BY <1>4 DEF Land
    <3>6. QED  BY <1>0, <2>6, <3>4, <3>5 DEF ReadyInv
  <2>8. HoldInv'
    BY <1>4, <1>0, <2>1, <2>6 DEF Land, HoldInv
  <2>9. SlotInv'
    BY <1>4, <1>0, <2>2 DEF Land, SlotInv, Wasted
  <2>10. QED  BY <2>4, <2>7, <2>8, <2>9 DEF Safe
<1>5. CASE UploadPanics
  <2>1. ~broken /\ broken' /\ nextUpload - 1 \in Nat /\ nextUpload - 1 \in onDevice
    BY <1>5, <1>0 DEF UploadPanics, PrefetcherInv, RingTypeOK
  <2>2. Releasing' = Releasing
    BY <1>5 DEF UploadPanics, Releasing
  <2>3. PrefetcherInv'
    BY <1>5, <1>0 DEF UploadPanics, PrefetcherInv, state
  <2>4. Handed' = Handed /\ Handed = nextUpload - 1 - Len(ready)
    BY <1>5, <2>1 DEF UploadPanics, Handed, Landed, state
  <2>5. ReadyInv'
    <3>1. Len(ready) \in Nat
      BY <1>0, QueueFacts DEF RingTypeOK
    <3>2. \A i \in 1..Len(ready) : ready[i] # nextUpload - 1
      BY <1>0, <2>4, <3>1 DEF ReadyInv, RingTypeOK
    <3>3. QED  BY <1>5, <1>0, <2>4, <3>2 DEF UploadPanics, ReadyInv, state
  <2>6. HoldInv'
    <3>1. Len(ready) \in Nat
      BY <1>0, QueueFacts DEF RingTypeOK
    <3>2. \A c \in Consumers : consumer[c] = "hold" => want[c] # nextUpload - 1
      BY <1>0, <2>4, <3>1 DEF HoldInv, RingTypeOK
    <3>3. QED  BY <1>5, <1>0, <2>4, <3>2 DEF UploadPanics, HoldInv, state
  <2>7. SlotInv'
    <3>1. IsFiniteSet(onDevice') /\ Cardinality(onDevice') = Cardinality(onDevice) - 1
      BY <1>5, <1>0, <2>1, FS_RemoveElement DEF UploadPanics, SlotInv
    <3>2. Cardinality(onDevice) \in Nat /\ Cardinality(Releasing) \in Nat
      BY <1>0, ReleasingFinite, FS_CardinalityType DEF SlotInv
    <3>3. Wasted = 0 /\ Wasted' = 1
      BY <2>1 DEF Wasted
    <3>4. QED
      BY <1>5, <1>0, <2>2, <3>1, <3>2, <3>3 DEF UploadPanics, SlotInv, state, RingTypeOK
  <2>8. QED  BY <2>3, <2>5, <2>6, <2>7 DEF Safe
<1>6. CASE Retire
  <2>1. WaitFree
    BY <1>6, <1>0 DEF Retire, WokenConsumers, Awake, state, RingTypeOK
  <2>2. Releasing' = Releasing
    BY <2>1 DEF Releasing
  <2>3. PrefetcherInv'
    BY <1>6, <1>0 DEF Retire, WokenConsumers, Awake, state, PrefetcherInv
  <2>4. Handed' = Handed /\ ReadyInv'
    BY <1>6, <1>0
    DEF Retire, WokenConsumers, Awake, state, ReadyInv, Handed, Landed, PrefetcherInv
  <2>5. HoldInv'
    BY <1>6, <1>0, <2>1, <2>4 DEF Retire, WokenConsumers, Awake, state, HoldInv, RingTypeOK
  <2>6. SlotInv'
    BY <1>6, <1>0, <2>2 DEF Retire, WokenConsumers, Awake, state, SlotInv, Wasted
  <2>7. QED  BY <2>3, <2>4, <2>5, <2>6 DEF Safe
<1>7. ASSUME NEW c \in Consumers, Acquire(c) PROVE Safe'
  <2>1. WaitFree
    BY <1>7, <1>0 DEF Acquire, state, RingTypeOK
  <2>2. Releasing' = Releasing
    BY <2>1 DEF Releasing
  <2>3. PrefetcherInv'
    BY <1>7, <1>0 DEF Acquire, state, PrefetcherInv
  <2>4. Handed' = Handed /\ ReadyInv'
    BY <1>7, <1>0 DEF Acquire, state, ReadyInv, Handed, Landed, PrefetcherInv
  <2>5. HoldInv'
    BY <1>7, <1>0, <2>1, <2>4 DEF Acquire, state, HoldInv, RingTypeOK
  <2>6. SlotInv'
    BY <1>7, <1>0, <2>2 DEF Acquire, state, SlotInv, Wasted
  <2>7. QED  BY <2>3, <2>4, <2>5, <2>6 DEF Safe
<1>8. ASSUME NEW c \in Consumers, TakeFront(c) PROVE Safe'
  <2>1. /\ Len(ready) \in Nat /\ Len(ready) > 0 /\ want[c] = ready[1]
        /\ Len(ready') = Len(ready) - 1
        /\ \A i \in 1..Len(ready') : ready'[i] = ready[i + 1]
    BY <1>8, <1>0, QueueFacts DEF TakeFront, InFront, RingTypeOK
  <2>2. want[c] = Handed /\ want[c] \in onDevice
    BY <1>0, <2>1 DEF ReadyInv, Handed, Landed, RingTypeOK
  <2>3. Releasing' = Releasing
    BY <1>8, <1>0 DEF TakeFront, Releasing, RingTypeOK
  <2>4. PrefetcherInv'
    BY <1>8, <1>0 DEF TakeFront, PrefetcherInv
  <2>5. Handed' = Handed + 1 /\ Handed \in Int
    BY <1>8, <1>0, <2>1 DEF TakeFront, Handed, Landed, RingTypeOK
  <2>6. ReadyInv'
    <3>1. ASSUME NEW i \in 1..Len(ready')
          PROVE  ready'[i] = Handed' + i - 1 /\ ready'[i] \in onDevice
      <4>1. i + 1 \in 1..Len(ready) /\ ready'[i] = ready[i + 1]
        BY <2>1
      <4>2. QED  BY <1>0, <4>1, <2>5 DEF ReadyInv
    <3>2. Handed' >= 0 /\ onDevice' = onDevice
      BY <1>8, <1>0, <2>5 DEF ReadyInv, TakeFront
    <3>3. QED  BY <3>1, <3>2 DEF ReadyInv
  <2>7. HoldInv'
    <3>1. ASSUME NEW d \in Consumers, consumer'[d] = "hold", d # c
          PROVE  consumer[d] = "hold" /\ want[d] \in onDevice /\ want[d] < Handed
      BY <1>8, <1>0, <3>1 DEF TakeFront, HoldInv, RingTypeOK
    <3>2. want' = want /\ onDevice' = onDevice
      BY <1>8 DEF TakeFront
    <3>3. \A d \in Consumers : want[d] \in Nat
      BY <1>0 DEF RingTypeOK
    <3>4. ASSUME NEW d \in Consumers, consumer'[d] = "hold"
          PROVE  want'[d] \in onDevice' /\ want'[d] < Handed'
      BY <2>2, <2>5, <3>1, <3>2, <3>3, <3>4
    <3>5. ASSUME NEW d \in Consumers, NEW e \in Consumers,
                 consumer'[d] = "hold", consumer'[e] = "hold", want'[d] = want'[e]
          PROVE  d = e
      <4>1. CASE d = c \/ e = c
        BY <4>1, <2>2, <2>5, <3>1, <3>2, <3>3, <3>5
      <4>2. CASE d # c /\ e # c
        BY <4>2, <1>0, <3>1, <3>2, <3>5 DEF HoldInv
      <4>3. QED  BY <4>1, <4>2
    <3>6. QED  BY <3>4, <3>5 DEF HoldInv
  <2>8. SlotInv'
    BY <1>8, <1>0, <2>3 DEF TakeFront, SlotInv, Wasted
  <2>9. QED  BY <2>4, <2>6, <2>7, <2>8 DEF Safe
<1>9. ASSUME NEW c \in Consumers, AcquireFails(c) PROVE Safe'
  <2>1. WaitFree
    BY <1>9, <1>0 DEF AcquireFails, InFront, state, RingTypeOK
  <2>2. Releasing' = Releasing
    BY <2>1 DEF Releasing
  <2>3. PrefetcherInv'
    BY <1>9, <1>0 DEF AcquireFails, InFront, state, PrefetcherInv
  <2>4. Handed' = Handed /\ ReadyInv'
    BY <1>9, <1>0 DEF AcquireFails, InFront, state, ReadyInv, Handed, Landed, PrefetcherInv
  <2>5. HoldInv'
    BY <1>9, <1>0, <2>1, <2>4 DEF AcquireFails, InFront, state, HoldInv, RingTypeOK
  <2>6. SlotInv'
    BY <1>9, <1>0, <2>2 DEF AcquireFails, InFront, state, SlotInv, Wasted
  <2>7. QED  BY <2>3, <2>4, <2>5, <2>6 DEF Safe
<1>10. ASSUME NEW c \in Consumers, ConsumerWaits(c) PROVE Safe'
  <2>1. WaitFree
    BY <1>10, <1>0 DEF ConsumerWaits, InFront, state, RingTypeOK
  <2>2. Releasing' = Releasing
    BY <2>1 DEF Releasing
  <2>3. PrefetcherInv'
    BY <1>10, <1>0 DEF ConsumerWaits, InFront, state, PrefetcherInv
  <2>4. Handed' = Handed /\ ReadyInv'
    BY <1>10, <1>0 DEF ConsumerWaits, InFront, state, ReadyInv, Handed, Landed, PrefetcherInv
  <2>5. HoldInv'
    BY <1>10, <1>0, <2>1, <2>4 DEF ConsumerWaits, InFront, state, HoldInv, RingTypeOK
  <2>6. SlotInv'
    BY <1>10, <1>0, <2>2 DEF ConsumerWaits, InFront, state, SlotInv, Wasted
  <2>7. QED  BY <2>3, <2>4, <2>5, <2>6 DEF Safe
<1>11. ASSUME NEW c \in Consumers, DropPayload(c) PROVE Safe'
  <2>1. want[c] \in onDevice /\ want[c] < Handed /\ want[c] \in Nat
    BY <1>11, <1>0 DEF DropPayload, HoldInv, RingTypeOK
  <2>2. Releasing' = Releasing \union {c} /\ c \notin Releasing
    BY <1>11, <1>0 DEF DropPayload, Releasing, RingTypeOK
  <2>3. Len(ready) \in Nat /\ Handed' = Handed /\ Handed \in Int
    BY <1>11, <1>0, QueueFacts DEF DropPayload, Handed, Landed, state, RingTypeOK
  <2>4. PrefetcherInv'
    <3>1. prefetcher = "upload" => want[c] # nextUpload - 1
      BY <1>0, <2>1, <2>3 DEF PrefetcherInv, Handed, Landed, RingTypeOK
    <3>2. QED  BY <1>11, <1>0, <3>1 DEF DropPayload, PrefetcherInv, state
  <2>5. ReadyInv'
    <3>1. \A i \in 1..Len(ready) : ready[i] # want[c]
      BY <1>0, <2>1, <2>3 DEF ReadyInv, RingTypeOK
    <3>2. QED  BY <1>11, <1>0, <2>3, <3>1 DEF DropPayload, ReadyInv, state
  <2>6. HoldInv'
    BY <1>11, <1>0, <2>3 DEF DropPayload, HoldInv, RingTypeOK
  <2>7. SlotInv'
    <3>1. IsFiniteSet(onDevice') /\ Cardinality(onDevice') = Cardinality(onDevice) - 1
      BY <1>11, <1>0, <2>1, FS_RemoveElement DEF DropPayload, SlotInv
    <3>2. Cardinality(Releasing') = Cardinality(Releasing) + 1
      BY <2>2, ReleasingFinite, FS_AddElement
    <3>3. Cardinality(onDevice) \in Nat /\ Cardinality(Releasing) \in Nat
      BY <1>0, ReleasingFinite, FS_CardinalityType DEF SlotInv
    <3>4. Wasted' = Wasted /\ Wasted \in Nat
      BY <1>11 DEF DropPayload, Wasted
    <3>5. QED
      BY <1>11, <1>0, <3>1, <3>2, <3>3, <3>4 DEF DropPayload, SlotInv, state, RingTypeOK
  <2>8. QED  BY <2>4, <2>5, <2>6, <2>7 DEF Safe
<1>12. ASSUME NEW c \in Consumers, ReleaseSlot(c) PROVE Safe'
  <2>1. \A d \in Consumers : consumer'[d] = "hold" <=> consumer[d] = "hold"
    BY <1>12, <1>0 DEF ReleaseSlot, WokenConsumers, Awake, RingTypeOK
  <2>2. Releasing' = Releasing \ {c} /\ c \in Releasing
    BY <1>12, <1>0 DEF ReleaseSlot, WokenConsumers, Awake, Releasing, RingTypeOK
  <2>3. PrefetcherInv'
    BY <1>12, <1>0 DEF ReleaseSlot, WokenPrefetcher, PrefetcherInv
  <2>4. Handed' = Handed /\ ReadyInv'
    BY <1>12, <1>0 DEF ReleaseSlot, WokenPrefetcher, ReadyInv, Handed, Landed
  <2>5. HoldInv'
    BY <1>12, <1>0, <2>1, <2>4 DEF ReleaseSlot, HoldInv
  <2>6. SlotInv'
    <3>1. Cardinality(Releasing') = Cardinality(Releasing) - 1
      BY <2>2, ReleasingFinite, FS_RemoveElement
    <3>2. Cardinality(onDevice) \in Nat /\ Cardinality(Releasing) \in Nat
      BY <1>0, ReleasingFinite, FS_CardinalityType DEF SlotInv
    <3>3. Wasted' = Wasted /\ Wasted \in Nat
      BY <1>12 DEF ReleaseSlot, Wasted
    <3>4. QED
      BY <1>12, <1>0, <3>1, <3>2, <3>3 DEF ReleaseSlot, SlotInv, RingTypeOK
  <2>7. QED  BY <2>3, <2>4, <2>5, <2>6 DEF Safe
<1>13. CASE DropRing
  <2>1. WaitFree
    BY <1>13, <1>0 DEF DropRing, WokenConsumers, WokenPrefetcher, Awake, state, RingTypeOK
  <2>2. Releasing' = Releasing
    BY <2>1 DEF Releasing
  <2>3. PrefetcherInv'
    BY <1>13, <1>0 DEF DropRing, WokenConsumers, WokenPrefetcher, Awake, state, PrefetcherInv
  <2>4. Handed' = Handed /\ ReadyInv'
    BY <1>13, <1>0
    DEF DropRing, WokenConsumers, WokenPrefetcher, Awake, state, ReadyInv, Handed,
        Landed, PrefetcherInv
  <2>5. HoldInv'
    BY <1>13, <1>0, <2>1, <2>4
    DEF DropRing, WokenConsumers, WokenPrefetcher, Awake, state, HoldInv, RingTypeOK
  <2>6. SlotInv'
    BY <1>13, <1>0, <2>2
    DEF DropRing, WokenConsumers, WokenPrefetcher, Awake, state, SlotInv, Wasted
  <2>7. QED  BY <2>3, <2>4, <2>5, <2>6 DEF Safe
<1>14. CASE UNCHANGED ringVars
  BY <1>14, <1>0
  DEF ringVars, state, Safe, PrefetcherInv, ReadyInv, HoldInv, SlotInv, Handed, Landed, Releasing,
      Wasted
<1>15. QED
  BY <1>1, <1>2, <1>3, <1>4, <1>5, <1>6, <1>7, <1>8, <1>9, <1>10, <1>11, <1>12, <1>13, <1>14
  DEF RingNext, Prefetch, Consume

\* The invariant of the ring (the mutex of overlay.rs and what it guards): it
\* holds in every reachable state, for any number of slots and consumers.
THEOREM RingInvariance == RingSpec => []IInv
<1>1. IInv /\ [RingNext]_ringVars => IInv'
  BY TypeStep, SafeStep DEF IInv
<1>2. QED  BY InitIInv, <1>1, PTL DEF RingSpec

-----------------------------------------------------------------------------
(* What follows.                                                           *)

\* Every variable of the ring keeps its type.
THEOREM RingTypeCorrect == RingSpec => []RingTypeOK
<1>1. IInv => RingTypeOK
  BY DEF IInv
<1>2. QED  BY RingInvariance, <1>1, PTL

\* At most Slots layers' bytes are on the device at once, whatever the depth
\* of the model, however the threads interleave, panics and drops included.
THEOREM SlotsAreKept == RingSpec => []FitsTheSlots
BY RingInvariance, SlotsBound, PTL

\* Every step of the ring is a step LayerStream allows, or none.
LEMMA PromiseStep == IInv /\ IInv' /\ [RingNext]_ringVars => [Promise!Next]_(Promise!vars)
<1> SUFFICES ASSUME IInv, IInv', [RingNext]_ringVars PROVE [Promise!Next]_(Promise!vars)
  OBVIOUS
<1> DEFINE Still == /\ UNCHANGED <<nextUpload, onDevice>>
                    /\ Handed' = Handed
                    /\ (broken' \/ shutdown') = (broken \/ shutdown)
<1>0. RingTypeOK /\ PrefetcherInv /\ ReadyInv /\ HoldInv /\ SlotInv
  BY DEF IInv, Safe
<1>s. ASSUME Still PROVE UNCHANGED Promise!vars
  BY <1>s DEF Promise!vars, Handed
<1>q. Len(ready) \in Nat
  BY <1>0, QueueFacts DEF RingTypeOK
<1>1. CASE PrefetcherWaits
  <2>1. Handed' = Handed
    BY <1>1, <1>0 DEF PrefetcherWaits, state, Handed, Landed, PrefetcherInv
  <2>2. Still
    BY <1>1, <2>1 DEF PrefetcherWaits, state
  <2>3. QED  BY <2>2, <1>s
<1>2. CASE Claim
  <2>1. ~broken /\ ~broken' /\ ~shutdown /\ ~shutdown'
    BY <1>2, <1>0 DEF Claim, PrefetcherInv
  <2>2. Cardinality(onDevice) < Slots
    <3>1. Cardinality(onDevice) \in Nat /\ Cardinality(Releasing) \in Nat
      BY <1>0, ReleasingFinite, FS_CardinalityType DEF SlotInv
    <3>2. Wasted = 0
      BY <2>1 DEF Wasted
    <3>3. QED  BY <1>2, <1>0, <3>1, <3>2, RingAssumption DEF Claim, SlotInv, RingTypeOK
  <2>3. Handed' = Handed
    BY <1>2, <1>0, <2>1 DEF Claim, Handed, Landed, RingTypeOK
  <2>4. Promise!Cardinality(onDevice) = Cardinality(onDevice)
    BY Zenon DEF Promise!Cardinality, Cardinality
  <2>5. Promise!Bring
    BY <1>2, <2>1, <2>2, <2>3, <2>4 DEF Claim, Promise!Bring, Handed
  <2>6. QED  BY <2>5 DEF Promise!Next
<1>3. CASE PrefetcherLeaves
  <2>1. Handed' = Handed
    BY <1>3, <1>0 DEF PrefetcherLeaves, state, Handed, Landed, PrefetcherInv
  <2>2. Still
    BY <1>3, <2>1 DEF PrefetcherLeaves, state
  <2>3. QED  BY <2>2, <1>s
<1>4. CASE Land
  <2>1. Len(ready') = Len(ready) + 1
    <3>1. nextUpload - 1 \in Nat
      BY <1>4, <1>0 DEF Land, PrefetcherInv, RingTypeOK
    <3>2. QED  BY <1>4, <1>0, <3>1, QueueFacts DEF Land, RingTypeOK
  <2>2. Handed' = Handed
    BY <1>4, <1>0, <1>q, <2>1 DEF Land, Handed, Landed, PrefetcherInv, RingTypeOK
  <2>3. Still
    BY <1>4, <2>2 DEF Land
  <2>4. QED  BY <2>3, <1>s
<1>5. CASE UploadPanics
  <2>1. ~broken /\ broken' /\ nextUpload - 1 \in Nat
    BY <1>5, <1>0 DEF UploadPanics, PrefetcherInv, RingTypeOK
  <2>2. Handed' = Handed /\ Handed < nextUpload
    BY <1>5, <1>0, <1>q, <2>1 DEF UploadPanics, Handed, Landed, state, RingTypeOK
  <2>3. Promise!Break
    BY <1>5, <2>1, <2>2 DEF UploadPanics, Promise!Break, Handed, state
  <2>4. QED  BY <2>3 DEF Promise!Next
<1>6. CASE Retire
  <2>1. Handed' = Handed
    BY <1>6, <1>0 DEF Retire, WokenConsumers, Awake, state, Handed, Landed, PrefetcherInv
  <2>2. Still
    BY <1>6, <2>1 DEF Retire, WokenConsumers, Awake, state
  <2>3. QED  BY <2>2, <1>s
<1>7. ASSUME NEW c \in Consumers, Acquire(c) PROVE [Promise!Next]_(Promise!vars)
  <2>1. Handed' = Handed
    BY <1>7, <1>0 DEF Acquire, state, Handed, Landed, PrefetcherInv
  <2>2. Still
    BY <1>7, <2>1 DEF Acquire, state
  <2>3. QED  BY <2>2, <1>s
<1>8. ASSUME NEW c \in Consumers, TakeFront(c) PROVE [Promise!Next]_(Promise!vars)
  <2>1. Len(ready) > 0 /\ Len(ready') = Len(ready) - 1 /\ want[c] = ready[1]
    BY <1>8, <1>0, QueueFacts DEF TakeFront, InFront, RingTypeOK
  <2>2. Handed \in onDevice
    BY <1>0, <1>q, <2>1 DEF ReadyInv, Handed, Landed, RingTypeOK
  <2>3. Handed < nextUpload /\ Handed' = Handed + 1
    <3>1. Landed' = Landed /\ Landed \in Int /\ Landed <= nextUpload
      BY <1>8, <1>0 DEF TakeFront, Landed, RingTypeOK
    <3>2. QED  BY <1>0, <1>q, <2>1, <3>1 DEF Handed, RingTypeOK
  <2>4. Promise!HandOver
    BY <1>8, <2>2, <2>3 DEF TakeFront, Promise!HandOver, Handed
  <2>5. QED  BY <2>4 DEF Promise!Next
<1>9. ASSUME NEW c \in Consumers, AcquireFails(c) PROVE [Promise!Next]_(Promise!vars)
  <2>1. Handed' = Handed
    BY <1>9, <1>0 DEF AcquireFails, InFront, state, Handed, Landed, PrefetcherInv
  <2>2. Still
    BY <1>9, <2>1 DEF AcquireFails, InFront, state
  <2>3. QED  BY <2>2, <1>s
<1>10. ASSUME NEW c \in Consumers, ConsumerWaits(c) PROVE [Promise!Next]_(Promise!vars)
  <2>1. Handed' = Handed
    BY <1>10, <1>0 DEF ConsumerWaits, InFront, state, Handed, Landed, PrefetcherInv
  <2>2. Still
    BY <1>10, <2>1 DEF ConsumerWaits, InFront, state
  <2>3. QED  BY <2>2, <1>s
<1>11. ASSUME NEW c \in Consumers, DropPayload(c) PROVE [Promise!Next]_(Promise!vars)
  <2>1. want[c] \in onDevice /\ want[c] < Handed
    BY <1>11, <1>0 DEF DropPayload, HoldInv
  <2>2. Promise!Free(want[c])
    BY <1>11, <2>1 DEF DropPayload, Promise!Free, Handed, Landed, state
  <2>3. QED  BY <2>1, <2>2 DEF Promise!Next
<1>12. ASSUME NEW c \in Consumers, ReleaseSlot(c) PROVE [Promise!Next]_(Promise!vars)
  <2>1. Handed' = Handed
    BY <1>12, <1>0
    DEF ReleaseSlot, WokenConsumers, WokenPrefetcher, Awake, state, Handed, Landed,
        PrefetcherInv
  <2>2. Still
    BY <1>12, <2>1 DEF ReleaseSlot, WokenConsumers, WokenPrefetcher, Awake, state
  <2>3. QED  BY <2>2, <1>s
<1>13. CASE DropRing
  <2>1. Handed' = Handed
    BY <1>13 DEF DropRing, WokenPrefetcher, Handed, Landed
  <2>2. Promise!Stop
    BY <1>13, <2>1 DEF DropRing, Promise!Stop, Handed
  <2>3. QED  BY <2>2 DEF Promise!Next
<1>14. CASE UNCHANGED ringVars
  <2>1. Still
    BY <1>14 DEF ringVars, state, Handed, Landed
  <2>2. QED  BY <2>1, <1>s
<1>15. QED
  BY <1>1, <1>2, <1>3, <1>4, <1>5, <1>6, <1>7, <1>8, <1>9, <1>10, <1>11, <1>12, <1>13, <1>14
  DEF RingNext, Prefetch, Consume

\* The ring implements the promise: in order, each layer once, within the
\* slots, and a payload leaves the device only after it was handed over.
THEOREM RingKeepsItsPromise == RingSpec => StreamsAsPromised
<1>1. RingInit => Promise!Init
  BY DEF RingInit, Promise!Init, Landed
<1>2. QED  BY RingInvariance, PromiseStep, <1>1, PTL DEF RingSpec, StreamsAsPromised, Promise!Spec
=============================================================================
