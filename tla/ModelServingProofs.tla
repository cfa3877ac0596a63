------------------------ MODULE ModelServingProofs ------------------------
(***************************************************************************)
(* Proofs about ModelServing, for any devices, requests, retrieval calls,   *)
(* models and budgets: type correctness, the inductive invariant IInv and   *)
(* the safety properties that follow from it, and the count of decisions.   *)
(***************************************************************************)
EXTENDS ModelServing, RecoveryBooksProofs, FiniteSetTheorems

\* The mark of a call that has not started is a mark.
LEMMA NoMarkType == NoMark \in Marks
  BY DEF NoMark, Marks

(***************************************************************************)
(* Type correctness.                                                        *)
(***************************************************************************)

USE DEF Clients

\* A call that returns leaves its locals well typed.
LEMMA ReturnType ==
  ASSUME TypeOK, NEW c \in Clients, Return(c)
  PROVE  /\ pc' \in [Clients -> Steps]
         /\ key' \in [Requests -> Models]
         /\ outer' \in [Clients -> Marks]
         /\ mark' \in [Clients -> Marks]
         /\ outcome' \in [Clients -> Outcomes]
         /\ tokens' \in [Clients -> 0..MaxTokens]
         /\ tainted' \in [Clients -> BOOLEAN]
<1>1. "idle" \in Steps /\ "ok" \in Outcomes /\ 0 \in 0..MaxTokens
  BY ServingAssumption DEF Steps, Outcomes
<1>2. QED  BY <1>1, NoMarkType DEF TypeOK, Return, Go

\* A guarded call keeps the types however it comes back.
LEMMA ComesBackType ==
  ASSUME TypeOK, NEW c \in Clients, NEW how \in Outcomes, ComesBack(c, how)
  PROVE  /\ BooksTypeOK'
         /\ key' \in [Requests -> Models]
         /\ outer' \in [Clients -> Marks]
         /\ mark' \in [Clients -> Marks]
         /\ outcome' \in [Clients -> Outcomes]
         /\ tokens' \in [Clients -> 0..MaxTokens]
         /\ tainted' \in [Clients -> BOOLEAN]
         /\ raised' \in Nat /\ decided' \in Nat /\ lateLoads' \in Nat /\ bugs' \in Nat
<1>1. CASE how = "device_text"
  <2>1. BooksTypeOK'
    BY <1>1, NoteUnattributedPanicType DEF ComesBack, TypeOK, booksVars, BooksTypeOK
  <2>2. QED  BY <1>1, <2>1 DEF ComesBack, TypeOK, Raise
<1>2. CASE how = "bug"
  BY <1>2 DEF ComesBack, TypeOK, booksVars, BooksTypeOK
<1>3. CASE how \notin {"device_text", "bug"}
  BY <1>3 DEF ComesBack, TypeOK, booksVars, histVars, BooksTypeOK
<1>4. QED  BY <1>1, <1>2, <1>3

\* A failure charged and decided keeps the types of books and history.
LEMMA ChargeType ==
  ASSUME TypeOK, NEW devices, Charge(devices)
  PROVE  /\ BooksTypeOK'
         /\ raised' \in Nat /\ decided' \in Nat /\ lateLoads' \in Nat /\ bugs' \in Nat
<1>1. BooksTypeOK'  BY RecordFailureType DEF TypeOK, Charge
<1>2. QED  BY <1>1 DEF TypeOK, Charge

\* A client moved to a step is at a step.
LEMMA GoType ==
  ASSUME TypeOK, NEW c \in Clients, NEW step \in Steps, Go(c, step)
  PROVE  pc' \in [Clients -> Steps]
  BY DEF TypeOK, Go

\* The steps that hold the slot, load into it or serve from it are steps.
LEMMA StepNames ==
  /\ Loading \subseteq Steps /\ Serving \subseteq Steps
  /\ {"idle", "queued", "computing", "unwinding", "escaped", "evict_elsewhere"} \subseteq Steps
  BY DEF Steps, Holding, Loading, Serving

\* Every step of the loader keeps the types.
LEMMA LoadType ==
  ASSUME TypeOK, ContentInv, NEW r \in Requests,
         LoadStep(r) \/ \E d \in Devices : SubmitDoomed(r, d) \/ SyncRefused(r, d)
  PROVE  TypeOK'
<1> USE StepNames DEF Loading, Serving
<1>1. CASE RefuseLoad(r)
  BY <1>1, SameBooksType, GoType DEF TypeOK, RefuseLoad, slotVars, callVars, histVars
<1>2. CASE BeginLoad(r)
  <2>1. BooksTypeOK' /\ Mark \in Marks  BY <1>2, SameBooksType, MarkType DEF TypeOK, BeginLoad
  <2>2. pc' \in [Clients -> Steps]  BY <1>2, GoType DEF BeginLoad
  <2>3. build' \in Model
    BY <1>2, ServingAssumption DEF BeginLoad, TypeOK, BooksTypeOK, Model, Devices
  <2>4. lateLoads' \in Nat  BY <1>2 DEF BeginLoad, TypeOK
  <2>5. QED  BY <1>2, <2>1, <2>2, <2>3, <2>4 DEF TypeOK, BeginLoad
<1>3. CASE \E how \in Outcomes : LoaderReturns(r, how)
  <2>1. PICK how \in Outcomes : LoaderReturns(r, how)  BY <1>3
  <2>2. pc' \in [Clients -> Steps]  BY <2>1, GoType DEF LoaderReturns
  <2>3. QED  BY <2>1, <2>2, ComesBackType DEF TypeOK, LoaderReturns, slotVars
<1>4. CASE LoadVerified(r)
  BY <1>4, SameBooksType, GoType DEF TypeOK, LoadVerified, slotVars, callVars, histVars
<1>5. CASE LoadFault(r)
  <2>1. pc' \in [Clients -> Steps]  BY <1>5, GoType DEF LoadFault
  <2>2. QED  BY <1>5, <2>1, ChargeType DEF TypeOK, LoadFault, callVars
<1>6. CASE LoadError(r)
  <2>1. (IF outcome[r] = "bug" THEN "unwinding" ELSE "load_failed") \in Steps  OBVIOUS
  <2>2. pc' \in [Clients -> Steps]  BY <1>6, <2>1, GoType DEF LoadError
  <2>3. QED  BY <1>6, <2>2, SameBooksType DEF TypeOK, LoadError, callVars, histVars
<1>7. CASE LoadLands(r)
  <2>1. pc' \in [Clients -> Steps]  BY <1>7, GoType DEF LoadLands
  <2>2. BooksTypeOK'  BY <1>7, LoadSucceededType DEF TypeOK, LoadLands
  <2>3. QED  BY <1>7, <2>1, <2>2 DEF TypeOK, LoadLands, callVars, histVars
<1>8. CASE \E d \in Devices : SubmitDoomed(r, d)
  <2>1. PICK d \in Devices : SubmitDoomed(r, d)  BY <1>8
  <2>2. build' \in Model \cup {NoModel}
    BY <2>1 DEF TypeOK, ContentInv, Building, SubmitDoomed, Model
  <2>3. QED  BY <2>1, <2>2, SameBooksType DEF TypeOK, SubmitDoomed, Raise, callVars
<1>9. CASE \E d \in Devices : SyncRefused(r, d)
  <2>1. PICK d \in Devices : SyncRefused(r, d)  BY <1>9
  <2>2. pc' \in [Clients -> Steps]  BY <2>1, GoType DEF SyncRefused
  <2>3. BooksTypeOK'  BY <2>1, RecordFailureType DEF TypeOK, SyncRefused
  <2>4. QED  BY <2>1, <2>2, <2>3 DEF TypeOK, SyncRefused, callVars
<1>10. CASE Prepare(r)
  BY <1>10, SameBooksType, GoType DEF TypeOK, Prepare, slotVars, callVars, histVars
<1>11. QED  BY <1>1, <1>2, <1>3, <1>4, <1>5, <1>6, <1>7, <1>8, <1>9, <1>10 DEF LoadStep

\* So does every step of serving.
LEMMA ServeType ==
  ASSUME TypeOK, ContentInv, TokenInv, NEW r \in Requests,
         ServeStep(r) \/ \E d \in Devices : MoveDoomed(r, d)
  PROVE  TypeOK'
<1> USE StepNames DEF Loading, Serving
<1>1. CASE StartServing(r)
  <2>1. BooksTypeOK' /\ Mark \in Marks  BY <1>1, SameBooksType, MarkType DEF TypeOK, StartServing
  <2>2. pc' \in [Clients -> Steps]  BY <1>1, GoType DEF StartServing
  <2>3. QED  BY <1>1, <2>1, <2>2 DEF TypeOK, StartServing, slotVars, histVars
<1>2. CASE Armed(r)
  <2>1. (IF Condemned THEN "returned" ELSE "generating") \in Steps  OBVIOUS
  <2>2. pc' \in [Clients -> Steps]  BY <1>2, <2>1, GoType DEF Armed
  <2>3. QED  BY <1>2, <2>2, SameBooksType DEF TypeOK, Armed, slotVars, callVars, histVars
<1>3. CASE Forward(r)
  <2>1. pc' \in [Clients -> Steps]  BY <1>3, GoType DEF Forward
  <2>2. (Condemned \/ ~entry.sound) \in BOOLEAN  OBVIOUS
  <2>3. tainted' \in [Clients -> BOOLEAN]  BY <1>3, <2>2 DEF TypeOK, Forward
  <2>4. QED  BY <1>3, <2>1, <2>3, SameBooksType DEF TypeOK, Forward, slotVars, histVars
<1>4. CASE JudgeToken(r)
  <2>1. (IF Condemned THEN "returned" ELSE "emit") \in Steps  OBVIOUS
  <2>2. pc' \in [Clients -> Steps]  BY <1>4, <2>1, GoType DEF JudgeToken
  <2>3. QED  BY <1>4, <2>2, SameBooksType DEF TypeOK, JudgeToken, slotVars, callVars, histVars
<1>5. CASE EmitToken(r)
  <2>1. pc' \in [Clients -> Steps]  BY <1>5, GoType DEF EmitToken
  <2>2. BooksTypeOK'
    BY <1>5, GenerationSucceededType, SameBooksType DEF TypeOK, EmitToken
  <2>3. tokens' \in [Clients -> 0..MaxTokens]  
    BY <1>5, ServingAssumption DEF TypeOK, TokenInv, EmitToken
  <2>4. QED  BY <1>5, <2>1, <2>2, <2>3 DEF TypeOK, EmitToken, slotVars, histVars
<1>6. CASE \E how \in Outcomes : GenerationReturns(r, how)
  <2>1. PICK how \in Outcomes : GenerationReturns(r, how)  BY <1>6
  <2>2. pc' \in [Clients -> Steps]  BY <2>1, GoType DEF GenerationReturns
  <2>3. QED  BY <2>1, <2>2, ComesBackType DEF TypeOK, GenerationReturns, slotVars
<1>7. CASE Answer(r)
  BY <1>7, ReturnType, SameBooksType DEF TypeOK, Answer, histVars
<1>8. CASE Resume(r)
  BY <1>8, SameBooksType, GoType DEF TypeOK, Resume, slotVars, callVars, histVars
<1>9. CASE ServingFailed(r)
  <2>1. pc' \in [Clients -> Steps]  BY <1>9, GoType DEF ServingFailed
  <2>2. QED  BY <1>9, <2>1, ChargeType DEF TypeOK, ServingFailed, slotVars, callVars
<1>10. CASE EvictHeld(r)
  BY <1>10, ReturnType, SameBooksType DEF TypeOK, EvictHeld, histVars
<1>11. CASE \E d \in Devices : MoveDoomed(r, d)
  <2>1. PICK d \in Devices : MoveDoomed(r, d)  BY <1>11
  <2>2. entry' \in Model \cup {NoModel}
    BY <2>1 DEF TypeOK, ContentInv, MoveDoomed, Model
  <2>3. QED  BY <2>1, <2>2, SameBooksType DEF TypeOK, MoveDoomed, Raise, callVars
<1>12. QED
  BY <1>1, <1>2, <1>3, <1>4, <1>5, <1>6, <1>7, <1>8, <1>9, <1>10, <1>11 DEF ServeStep

\* And what is left of a call: arrival, the slot, retrieval, containment.
LEMMA CallType ==
  ASSUME TypeOK, NEW c \in Clients,
         \/ c \in Requests /\ (Leave(c) \/ TakeSlot(c) \/ GiveBack(c))
         \/ c \in Retrievals /\ RetrievalNext(c)
         \/ ClientNext(c)
  PROVE  TypeOK'
<1> USE StepNames
<1>1. CASE c \in Requests /\ Leave(c)
  BY <1>1, ReturnType, SameBooksType DEF TypeOK, Leave, slotVars, histVars
<1>2. CASE c \in Requests /\ TakeSlot(c)
  <2>1. pc' \in [Clients -> Steps]  BY <1>2, GoType DEF TakeSlot, Loading, Serving
  <2>2. QED  BY <1>2, <2>1, SameBooksType DEF TypeOK, TakeSlot, callVars, histVars
<1>3. CASE c \in Requests /\ GiveBack(c)
  BY <1>3, ReturnType, SameBooksType DEF TypeOK, GiveBack, histVars
<1>4. CASE c \in Retrievals /\ RetrievalLoadFails(c)
  <2>1. pc' \in [Clients -> Steps]  BY <1>4, GoType DEF RetrievalLoadFails
  <2>2. "device_text" \in Outcomes  BY DEF Outcomes
  <2>3. QED  BY <1>4, <2>1, <2>2, ComesBackType DEF TypeOK, RetrievalLoadFails, slotVars
<1>5. CASE c \in Retrievals /\ HoldSlot(c)
  <2>1. pc' \in [Clients -> Steps]  BY <1>5, GoType DEF HoldSlot
  <2>2. QED  BY <1>5, <2>1, SameBooksType DEF TypeOK, HoldSlot, callVars, histVars
<1>6. CASE c \in Retrievals /\ ComputeDone(c)
  BY <1>6, ReturnType, SameBooksType DEF TypeOK, ComputeDone, histVars
<1>7. CASE c \in Retrievals /\ \E how \in Outcomes : ComputePanics(c, how)
  <2>1. PICK how \in Outcomes : ComputePanics(c, how)  BY <1>7
  <2>2. pc' \in [Clients -> Steps]  BY <2>1, GoType DEF ComputePanics
  <2>3. QED  BY <2>1, <2>2, ComesBackType DEF TypeOK, ComputePanics, slotVars
<1>8. CASE Arrive(c)
  <2>1. pc' \in [Clients -> Steps]  BY <1>8, GoType DEF Arrive
  <2>2. BooksTypeOK' /\ Mark \in Marks  BY <1>8, SameBooksType, MarkType DEF TypeOK, Arrive
  <2>3. key' \in [Requests -> Models]  BY <1>8 DEF TypeOK, Arrive
  <2>4. QED  BY <1>8, <2>1, <2>2, <2>3 DEF TypeOK, Arrive, slotVars, histVars
<1>9. CASE RefuseArrival(c)
  BY <1>9, SameBooksType DEF TypeOK, RefuseArrival, vars, slotVars, callVars, histVars
<1>10. CASE Unwind(c)
  <2>1. pc' \in [Clients -> Steps]  BY <1>10, GoType DEF Unwind
  <2>2. QED  BY <1>10, <2>1, SameBooksType DEF TypeOK, Unwind, callVars, histVars
<1>11. CASE Contain(c)
  <2>1. CASE outcome[c] = "device_text" \/ Moved(outer[c])
    <3>1. pc' \in [Clients -> Steps]  BY <1>11, <2>1, GoType DEF Contain
    <3>2. Charge(Attribute(outer[c], {}))  BY <1>11, <2>1 DEF Contain
    <3>3. UNCHANGED callVars  BY <1>11, <2>1 DEF Contain
    <3>4. QED  BY <1>11, <3>1, <3>2, <3>3, ChargeType DEF TypeOK, Contain, slotVars, callVars
  <2>2. CASE ~(outcome[c] = "device_text" \/ Moved(outer[c]))
    <3>1. Return(c) /\ UNCHANGED <<booksVars, histVars>>  BY <1>11, <2>2 DEF Contain
    <3>2. QED  BY <1>11, <3>1, ReturnType, SameBooksType DEF TypeOK, Contain, slotVars, histVars
  <2>3. QED  BY <2>1, <2>2
<1>12. CASE EvictElsewhere(c)
  BY <1>12, ReturnType, SameBooksType DEF TypeOK, EvictElsewhere, histVars
<1>13. QED
  BY <1>1, <1>2, <1>3, <1>4, <1>5, <1>6, <1>7, <1>8, <1>9, <1>10, <1>11, <1>12
  DEF RetrievalNext, ClientNext

\* Every step, a stutter included, keeps the types.
LEMMA TypeStep ==
  ASSUME TypeOK, ContentInv, TokenInv, [Next]_vars
  PROVE  TypeOK'
<1>1. CASE UNCHANGED vars
  BY <1>1, SameBooksType DEF TypeOK, vars, slotVars, callVars, histVars
<1>2. CASE Next
  <2>1. CASE \E r \in Requests : RequestNext(r)
    BY <2>1, LoadType, ServeType, CallType DEF RequestNext
  <2>2. CASE \E t \in Retrievals : RetrievalNext(t)
    BY <2>2, CallType
  <2>3. CASE \E c \in Clients : ClientNext(c)
    BY <2>3, CallType
  <2>4. CASE \E d \in Accelerators : DeviceFails(d) \/ DoomedRuns(d)
    <3>1. PICK d \in Accelerators : DeviceFails(d) \/ DoomedRuns(d)  BY <2>4
    <3>2. BooksTypeOK'
      BY <3>1, NoteDevicePanicType DEF TypeOK, DeviceFails, DoomedRuns, Devices
    <3>3. QED
      BY <3>1, <3>2 DEF TypeOK, DeviceFails, DoomedRuns, Raise, slotVars, callVars, histVars
  <2>5. CASE UnloadIdle
    BY <2>5, SameBooksType DEF TypeOK, UnloadIdle, callVars, histVars
  <2>6. CASE TimePasses
    <3>1. BooksTypeOK'  BY <2>6 DEF TypeOK, BooksTypeOK, TimePasses, CooldownEnds
    <3>2. QED  BY <2>6, <3>1 DEF TypeOK, TimePasses, slotVars, callVars, histVars
  <2>7. QED  BY <1>2, <2>1, <2>2, <2>3, <2>4, <2>5, <2>6 DEF Next
<1>3. QED  BY <1>1, <1>2

(***************************************************************************)
(* The inductive invariant.                                                 *)
(***************************************************************************)

\* How far each way of coming back moves the epoch.
LEMMA ComesBackMoves ==
  ASSUME TypeOK, NEW c \in Clients, NEW how \in Outcomes, ComesBack(c, how)
  PROVE  /\ epoch' \in {epoch, epoch + 1}
         /\ exiting' = exiting /\ lateLoads' = lateLoads
         /\ UNCHANGED <<mark, tokens, tainted>>
  BY DEF ComesBack, Raise, NoteUnattributedPanic, booksVars, histVars

\* A recorded failure moves the epoch, whatever it decides.
LEMMA ChargeMoves ==
  ASSUME NEW devices, Charge(devices)
  PROVE  epoch' = epoch + 1 /\ lateLoads' = lateLoads
  BY DEF Charge, RecordFailure

\* What the slot and the loader hold stays sound when the epoch moves on.
LEMMA ModelsKept ==
  ASSUME TypeOK, SafetyInv, UNCHANGED <<entry, build, doomed, lateLoads>>,
         epoch' = epoch + 1 \/ (epoch' = epoch /\ exiting' = exiting)
  PROVE  StampInv(entry)' /\ StampInv(build)' /\ SpoiledInv(entry)' /\ SpoiledInv(build)'
<1>1. epoch \in Nat /\ entry \in Model \cup {NoModel} /\ build \in Model \cup {NoModel}
  BY DEF TypeOK, BooksTypeOK
<1>2. ASSUME NEW m \in Model \cup {NoModel}, StampInv(m), SpoiledInv(m)
      PROVE  /\ m # NoModel => m.stamp <= epoch' /\ (exiting' /\ lateLoads' = 0 => m.stamp < epoch')
             /\ m # NoModel /\ ~m.sound => m.stamp < epoch' \/ doomed' \cap m.devices # {}
  BY <1>1, <1>2 DEF Model, StampInv, SpoiledInv
<1>3. QED  BY <1>1, <1>2 DEF SafetyInv, StampInv, SpoiledInv

\* Every step of the loader keeps the safety invariant: BeginLoad stamps
\* with the epoch, and LoadVerified finds no doomed device and no moved epoch.
LEMMA LoadSafe ==
  ASSUME TypeOK, SafetyInv, NEW r \in Requests,
         LoadStep(r) \/ \E d \in Devices : SubmitDoomed(r, d) \/ SyncRefused(r, d)
  PROVE  SafetyInv'
<1> USE DEF TypeOK, BooksTypeOK, SafetyInv, HolderInv, ContentInv, StampInv, SpoiledInv, TokenInv,
            Holding, Loading, Serving, Building, Go, histVars, Raise
<1>1. CASE RefuseLoad(r)
  BY <1>1 DEF RefuseLoad, booksVars, slotVars, callVars
<1>2. CASE BeginLoad(r)
  <2>1. PICK devices \in Placements :
          build' = [key |-> key[r], stamp |-> epoch, devices |-> devices, sound |-> TRUE]
    BY <1>2 DEF BeginLoad
  <2>2. build' \in Model
    BY <2>1, ServingAssumption DEF Model, Devices
  <2>3. build' # NoModel /\ build'.stamp = epoch /\ build'.sound /\ mark'[r].global = epoch
    BY <1>2, <2>1, <2>2, ServingAssumption DEF BeginLoad, Mark, Model
  <2>4. /\ pc[r] = "preparing" /\ pc' = [pc EXCEPT ![r] = "loading"]
        /\ lateLoads' = IF exiting THEN lateLoads + 1 ELSE lateLoads
        /\ UNCHANGED <<epoch, exiting, slot, entry, doomed, tokens, tainted>>
    BY <1>2 DEF BeginLoad, booksVars
  <2>5. \A q \in Clients : q # r => pc[q] \notin Holding /\ mark'[q] = mark[q]
    BY <1>2 DEF BeginLoad
  <2>6. HolderInv'  BY <2>4
  <2>7. ContentInv'  BY <2>3, <2>4, <2>5
  <2>8. StampInv(entry)' /\ SpoiledInv(entry)'  BY <2>4
  <2>9. StampInv(build)' /\ SpoiledInv(build)'  BY <2>3, <2>4
  <2>10. TokenInv'  BY <2>3, <2>4, <2>5
  <2>11. QED  BY <2>6, <2>7, <2>8, <2>9, <2>10
<1>3. CASE \E how \in Outcomes : LoaderReturns(r, how)
  <2>1. PICK how \in Outcomes : LoaderReturns(r, how)  BY <1>3
  <2>2. /\ epoch' \in {epoch, epoch + 1}
        /\ UNCHANGED <<exiting, lateLoads, slot, entry, build, doomed, mark, tokens, tainted>>
    BY <2>1, ComesBackMoves DEF LoaderReturns, slotVars
  <2>3. pc[r] = "loading" /\ pc' = [pc EXCEPT ![r] = "syncing"]  BY <2>1 DEF LoaderReturns
  <2>4. HolderInv'  BY <2>2, <2>3
  <2>5. ContentInv'  BY <2>2, <2>3
  <2>6. StampInv(entry)' /\ SpoiledInv(entry)'  BY <2>2 DEF Model
  <2>7. StampInv(build)' /\ SpoiledInv(build)'  BY <2>2 DEF Model
  <2>8. TokenInv'  BY <2>2, <2>3 DEF Model
  <2>9. QED  BY <2>4, <2>5, <2>6, <2>7, <2>8
<1>4. CASE LoadVerified(r)
  BY <1>4 DEF LoadVerified, Moved, Synced, booksVars, slotVars, callVars
<1>5. CASE LoadFault(r)
  BY <1>5, ChargeMoves DEF LoadFault, callVars
<1>6. CASE LoadError(r)
  BY <1>6 DEF LoadError, booksVars, callVars
<1>7. CASE LoadLands(r)
  <2>1. /\ pc[r] = "verified" /\ pc' = [pc EXCEPT ![r] = "resident"]
        /\ entry' = build /\ build' = NoModel
        /\ UNCHANGED <<epoch, exiting, lateLoads, slot, doomed, mark, tokens, tainted>>
    BY <1>7 DEF LoadLands, LoadSucceeded, callVars
  <2>2. \A q \in Clients : q # r => pc[q] \notin Holding  BY <2>1
  <2>3. HolderInv'  BY <2>1
  <2>4. ContentInv'  BY <2>1, <2>2
  <2>5. StampInv(entry)' /\ SpoiledInv(entry)'  BY <2>1
  <2>6. StampInv(build)' /\ SpoiledInv(build)'  BY <2>1
  <2>7. TokenInv'  BY <2>1, <2>2
  <2>8. QED  BY <2>3, <2>4, <2>5, <2>6, <2>7
<1>8. CASE \E d \in Devices : SubmitDoomed(r, d)
  <2>1. PICK d \in Devices : SubmitDoomed(r, d)  BY <1>8
  <2>2. build \in Model /\ build' \in Model /\ build' = [build EXCEPT !.sound = FALSE]
    BY <2>1 DEF SubmitDoomed, Model
  <2>3. /\ build' # NoModel /\ build'.stamp = build.stamp
        /\ build'.devices = build.devices /\ d \in doomed' \cap build'.devices
    BY <2>1, <2>2, ServingAssumption DEF SubmitDoomed, Model
  <2>4. /\ pc[r] = "loading" /\ doomed \subseteq doomed'
        /\ UNCHANGED <<epoch, exiting, lateLoads, slot, entry, pc, mark, tokens, tainted>>
    BY <2>1 DEF SubmitDoomed, booksVars, callVars
  <2>5. HolderInv' /\ ContentInv'  BY <2>2, <2>3, <2>4
  <2>6. StampInv(entry)' /\ SpoiledInv(entry)'  BY <2>4
  <2>7. StampInv(build)' /\ SpoiledInv(build)'  BY <2>2, <2>3, <2>4
  <2>8. TokenInv'  BY <2>4
  <2>9. QED  BY <2>5, <2>6, <2>7, <2>8
<1>9. CASE \E d \in Devices : SyncRefused(r, d)
  BY <1>9 DEF SyncRefused, RecordFailure, callVars
<1>10. CASE Prepare(r)
  BY <1>10 DEF Prepare, booksVars, slotVars, callVars
<1>11. QED  BY <1>1, <1>2, <1>3, <1>4, <1>5, <1>6, <1>7, <1>8, <1>9, <1>10 DEF LoadStep

\* Every step of serving keeps it: Forward waits for the devices' queues,
\* and JudgeToken refuses what was computed on a condemned model.
LEMMA ServeSafe ==
  ASSUME TypeOK, SafetyInv, NEW r \in Requests,
         ServeStep(r) \/ \E d \in Devices : MoveDoomed(r, d)
  PROVE  SafetyInv'
<1> USE DEF TypeOK, BooksTypeOK, SafetyInv, HolderInv, ContentInv, StampInv, SpoiledInv, TokenInv,
            Holding, Loading, Serving, Building, Go, histVars, Raise
<1>1. CASE StartServing(r)
  BY <1>1 DEF StartServing, booksVars, slotVars
<1>2. CASE Armed(r)
  BY <1>2 DEF Armed, booksVars, slotVars, callVars
<1>3. CASE Forward(r)
  <2>1. /\ pc[r] = "generating" /\ pc' = [pc EXCEPT ![r] = "token"]
        /\ tokens[r] < MaxTokens /\ doomed \cap entry.devices = {}
        /\ tainted' = [tainted EXCEPT ![r] = Condemned \/ ~entry.sound]
        /\ UNCHANGED <<epoch, exiting, lateLoads, slot, entry, build, doomed, mark, tokens>>
    BY <1>3 DEF Forward, Budget, booksVars, slotVars
  <2>2. HolderInv' /\ ContentInv'  BY <2>1
  <2>3. entry \in Model  BY <2>1
  <2>4. tainted'[r] => entry.stamp < epoch
    <3>1. Condemned \/ ~entry.sound => entry.stamp < epoch
      BY <2>1, <2>3 DEF Condemned, Model
    <3>2. tainted'[r] = (Condemned \/ ~entry.sound)  BY <2>1
    <3>3. QED  BY <3>1, <3>2
  <2>5. TokenInv'  BY <2>1, <2>4
  <2>6. QED  BY <2>1, <2>2, <2>5, ModelsKept
<1>4. CASE JudgeToken(r)
  BY <1>4 DEF JudgeToken, Condemned, booksVars, slotVars, callVars
<1>5. CASE EmitToken(r)
  BY <1>5 DEF EmitToken, GenerationSucceeded, booksVars, slotVars
<1>6. CASE \E how \in Outcomes : GenerationReturns(r, how)
  <2>1. PICK how \in Outcomes : GenerationReturns(r, how)  BY <1>6
  <2>2. /\ epoch' \in {epoch, epoch + 1}
        /\ UNCHANGED <<exiting, lateLoads, slot, entry, build, doomed, mark, tokens, tainted>>
    BY <2>1, ComesBackMoves DEF GenerationReturns, slotVars
  <2>3. pc[r] \in {"arming", "generating"} /\ pc' = [pc EXCEPT ![r] = "returned"]
    BY <2>1 DEF GenerationReturns
  <2>4. HolderInv' /\ ContentInv'  BY <2>2, <2>3
  <2>5. TokenInv'  BY <2>2, <2>3 DEF Model
  <2>6. QED  BY <2>2, <2>4, <2>5, ModelsKept
<1>7. CASE Answer(r)
  <2>1. /\ pc[r] = "returned" /\ pc' = [pc EXCEPT ![r] = "idle"] /\ slot' = NoOne
        /\ UNCHANGED <<epoch, exiting, lateLoads, entry, build, doomed>>
        /\ \A q \in Requests : q # r => UNCHANGED <<mark[q], tokens[q], tainted[q]>>
    BY <1>7 DEF Answer, Return, booksVars
  <2>2. HolderInv'  BY <2>1, ServingAssumption
  <2>3. ContentInv'  BY <2>1
  <2>4. TokenInv'  BY <2>1
  <2>5. QED  BY <2>1, <2>2, <2>3, <2>4, ModelsKept
<1>8. CASE Resume(r)
  BY <1>8 DEF Resume, booksVars, slotVars, callVars
<1>9. CASE ServingFailed(r)
  <2>1. /\ pc[r] = "returned" /\ pc' = [pc EXCEPT ![r] = "evicting"]
        /\ epoch' = epoch + 1
        /\ UNCHANGED <<lateLoads, slot, entry, build, doomed, mark, tokens, tainted>>
    BY <1>9, ChargeMoves DEF ServingFailed, slotVars, callVars
  <2>2. HolderInv' /\ ContentInv'  BY <2>1
  <2>3. TokenInv'  BY <2>1 DEF Model
  <2>4. QED  BY <2>1, <2>2, <2>3, ModelsKept
<1>10. CASE EvictHeld(r)
  <2>1. /\ pc[r] = "evicting" /\ pc' = [pc EXCEPT ![r] = "idle"] /\ slot' = NoOne
        /\ entry' = NoModel
        /\ UNCHANGED <<epoch, exiting, lateLoads, build, doomed>>
        /\ \A q \in Requests : q # r => UNCHANGED <<mark[q], tokens[q], tainted[q]>>
    BY <1>10 DEF EvictHeld, Return, booksVars
  <2>2. HolderInv'  BY <2>1, ServingAssumption
  <2>3. ContentInv' /\ TokenInv'  BY <2>1
  <2>4. QED  BY <2>1, <2>2, <2>3
<1>11. CASE \E d \in Devices : MoveDoomed(r, d)
  <2>1. PICK d \in Devices : MoveDoomed(r, d)  BY <1>11
  <2>2. entry \in Model /\ entry' \in Model /\ entry' = [entry EXCEPT !.sound = FALSE]
    BY <2>1 DEF MoveDoomed, Model
  <2>3. /\ entry' # NoModel /\ entry'.stamp = entry.stamp
        /\ entry'.devices = entry.devices /\ d \in doomed' \cap entry'.devices
    BY <2>1, <2>2, ServingAssumption DEF MoveDoomed, Model
  <2>4. /\ pc[r] = "arming" /\ doomed \subseteq doomed'
        /\ UNCHANGED <<epoch, exiting, lateLoads, slot, build, pc, mark, tokens, tainted>>
    BY <2>1 DEF MoveDoomed, booksVars, callVars
  <2>5. HolderInv' /\ ContentInv'  BY <2>3, <2>4
  <2>6. StampInv(entry)' /\ SpoiledInv(entry)'  BY <2>2, <2>3, <2>4
  <2>7. StampInv(build)' /\ SpoiledInv(build)'  BY <2>4
  <2>8. TokenInv'  BY <2>3, <2>4
  <2>9. QED  BY <2>5, <2>6, <2>7, <2>8
<1>12. QED
  BY <1>1, <1>2, <1>3, <1>4, <1>5, <1>6, <1>7, <1>8, <1>9, <1>10, <1>11 DEF ServeStep

\* And every step of a call outside them: only the holder changes what is
\* in the slot, or whoever finds it free.
LEMMA CallSafe ==
  ASSUME TypeOK, SafetyInv, NEW c \in Clients,
         \/ c \in Requests /\ (Leave(c) \/ TakeSlot(c) \/ GiveBack(c))
         \/ c \in Retrievals /\ RetrievalNext(c)
         \/ ClientNext(c)
  PROVE  SafetyInv'
<1> USE ServingAssumption
    DEF TypeOK, BooksTypeOK, SafetyInv, HolderInv, ContentInv, StampInv, SpoiledInv, TokenInv,
        Holding, Loading, Serving, Building, Go, histVars, Raise
<1>1. CASE c \in Requests /\ Leave(c)
  BY <1>1 DEF Leave, Return, booksVars, slotVars
<1>2. CASE c \in Requests /\ TakeSlot(c)
  BY <1>2 DEF TakeSlot, Hit, booksVars, callVars
<1>3. CASE c \in Requests /\ GiveBack(c)
  BY <1>3 DEF GiveBack, Return, booksVars
<1>4. CASE c \in Retrievals /\ RetrievalLoadFails(c)
  <2>1. "device_text" \in Outcomes  BY DEF Outcomes
  <2>2. /\ epoch' \in {epoch, epoch + 1}
        /\ UNCHANGED <<exiting, lateLoads, slot, entry, build, doomed, mark, tokens, tainted>>
    BY <1>4, <2>1, ComesBackMoves DEF RetrievalLoadFails, slotVars
  <2>3. pc[c] = "queued" /\ pc' = [pc EXCEPT ![c] = "escaped"]  BY <1>4 DEF RetrievalLoadFails
  <2>4. HolderInv' /\ ContentInv'  BY <2>2, <2>3
  <2>5. TokenInv'  BY <2>2, <2>3 DEF Model
  <2>6. QED  BY <2>2, <2>4, <2>5, ModelsKept
<1>5. CASE c \in Retrievals /\ HoldSlot(c)
  BY <1>5 DEF HoldSlot, booksVars, callVars
<1>6. CASE c \in Retrievals /\ ComputeDone(c)
  BY <1>6 DEF ComputeDone, Return, booksVars
<1>7. CASE c \in Retrievals /\ \E how \in Outcomes : ComputePanics(c, how)
  <2>1. PICK how \in Outcomes : ComputePanics(c, how)  BY <1>7
  <2>2. /\ epoch' \in {epoch, epoch + 1}
        /\ UNCHANGED <<exiting, lateLoads, slot, entry, build, doomed, mark, tokens, tainted>>
    BY <2>1, ComesBackMoves DEF ComputePanics, slotVars
  <2>3. pc[c] = "computing" /\ pc' = [pc EXCEPT ![c] = "unwinding"]  BY <2>1 DEF ComputePanics
  <2>4. HolderInv' /\ ContentInv'  BY <2>2, <2>3
  <2>5. TokenInv'  BY <2>2, <2>3 DEF Model
  <2>6. QED  BY <2>2, <2>4, <2>5, ModelsKept
<1>8. CASE Arrive(c)
  BY <1>8 DEF Arrive, booksVars, slotVars
<1>9. CASE RefuseArrival(c)
  BY <1>9 DEF RefuseArrival, vars, booksVars, slotVars, callVars
<1>10. CASE Unwind(c)
  BY <1>10 DEF Unwind, booksVars, callVars
<1>11. CASE Contain(c)
  <2>1. /\ pc[c] = "escaped" /\ UNCHANGED <<lateLoads, slot, entry, build, doomed>>
        /\ pc' \in {[pc EXCEPT ![c] = "evict_elsewhere"], [pc EXCEPT ![c] = "idle"]}
        /\ epoch' = epoch + 1 \/ (epoch' = epoch /\ exiting' = exiting)
    BY <1>11, ChargeMoves DEF Contain, Return, booksVars, slotVars
  <2>2. \A q \in Requests : q # c => UNCHANGED <<mark[q], tokens[q], tainted[q]>>
    BY <1>11 DEF Contain, Return, callVars
  <2>3. HolderInv' /\ ContentInv'  BY <2>1, <2>2
  <2>4. TokenInv'  BY <2>1, <2>2 DEF Model
  <2>5. QED  BY <2>1, <2>3, <2>4, ModelsKept
<1>12. CASE EvictElsewhere(c)
  BY <1>12 DEF EvictElsewhere, Return, booksVars
<1>13. QED
  BY <1>1, <1>2, <1>3, <1>4, <1>5, <1>6, <1>7, <1>8, <1>9, <1>10, <1>11, <1>12
  DEF RetrievalNext, ClientNext

\* Every step of the system keeps the safety invariant, given the types.
LEMMA SafetyStep ==
  ASSUME IInv, [Next]_vars
  PROVE  SafetyInv'
<1> USE DEF IInv
<1>1. CASE UNCHANGED vars
  BY <1>1 DEF SafetyInv, HolderInv, ContentInv, StampInv, SpoiledInv, TokenInv, vars, booksVars,
              slotVars, callVars, histVars
<1>2. CASE Next
  <2>1. CASE \E r \in Requests : RequestNext(r)
    BY <2>1, LoadSafe, ServeSafe, CallSafe DEF RequestNext
  <2>2. CASE \E t \in Retrievals : RetrievalNext(t)
    BY <2>2, CallSafe
  <2>3. CASE \E c \in Clients : ClientNext(c)
    BY <2>3, CallSafe
  <2>4. CASE \E d \in Accelerators : DeviceFails(d) \/ DoomedRuns(d)
    <3>1. epoch' = epoch + 1 /\ UNCHANGED <<lateLoads, slot, entry, build, pc, callVars>>
      BY <2>4 DEF DeviceFails, DoomedRuns, NoteDevicePanic, Raise, slotVars, histVars
    <3>2. epoch \in Nat /\ entry \in Model \cup {NoModel} /\ build \in Model \cup {NoModel}
      BY DEF TypeOK, BooksTypeOK
    <3>3. HolderInv' /\ ContentInv'
      BY <3>1 DEF SafetyInv, HolderInv, ContentInv, callVars
    <3>4. StampInv(entry)' /\ StampInv(build)' /\ SpoiledInv(entry)' /\ SpoiledInv(build)'
      BY <3>1, <3>2 DEF SafetyInv, StampInv, SpoiledInv, Model
    <3>5. TokenInv'
      BY <3>1, <3>2 DEF SafetyInv, ContentInv, TokenInv, Serving, Model, callVars
    <3>6. QED  BY <3>3, <3>4, <3>5 DEF SafetyInv
  <2>5. CASE UnloadIdle
    BY <2>5, ServingAssumption
    DEF UnloadIdle, SafetyInv, HolderInv, ContentInv, StampInv, SpoiledInv, TokenInv, Holding,
        Loading, Serving, booksVars, callVars, histVars
  <2>6. CASE TimePasses
    BY <2>6 DEF TimePasses, CooldownEnds, SafetyInv, HolderInv, ContentInv, StampInv, SpoiledInv,
                TokenInv, slotVars, callVars, histVars
  <2>7. QED  BY <1>2, <2>1, <2>2, <2>3, <2>4, <2>5, <2>6 DEF Next
<1>3. QED  BY <1>1, <1>2

\* Who passes the check of the latch, or begins a load.
Checking == \E r \in Requests : Prepare(r) \/ BeginLoad(r)

\* Every other step leaves the late loads alone, and brings nobody past it.
CheckKept ==
  /\ lateLoads' = lateLoads /\ (exiting => exiting')
  /\ \A r \in Requests : pc'[r] = "preparing" => pc[r] = "preparing"

LEMMA CheckIsPassedOnce ==
  ASSUME TypeOK, [Next]_vars, ~Checking
  PROVE  CheckKept
<1> USE DEF TypeOK, Go, histVars, CheckKept
<1>1. ASSUME NEW devices, Charge(devices)
      PROVE  lateLoads' = lateLoads /\ (exiting => exiting')
  BY <1>1 DEF Charge, RecordFailure
<1>2. ASSUME NEW c \in Clients, NEW how \in Outcomes, ComesBack(c, how)
      PROVE  lateLoads' = lateLoads /\ (exiting => exiting')
  BY <1>2, ComesBackMoves
<1>3. ASSUME NEW r \in Requests, RequestNext(r)
      PROVE  CheckKept
  <2>1. CASE \/ Leave(r) \/ TakeSlot(r) \/ GiveBack(r) \/ RefuseLoad(r) \/ LoadVerified(r)
             \/ LoadError(r) \/ StartServing(r) \/ Armed(r) \/ Forward(r) \/ JudgeToken(r)
             \/ Answer(r) \/ Resume(r) \/ EvictHeld(r)
    BY <2>1
    DEF Leave, TakeSlot, GiveBack, RefuseLoad, LoadVerified, LoadError, StartServing, Armed,
        Forward, JudgeToken, Answer, Resume, EvictHeld, Return, booksVars
  <2>2. CASE LoadLands(r) \/ EmitToken(r)
    BY <2>2 DEF LoadLands, EmitToken, LoadSucceeded, GenerationSucceeded, booksVars
  <2>3. CASE \E how \in Outcomes : LoaderReturns(r, how) \/ GenerationReturns(r, how)
    BY <1>2, <2>3 DEF LoaderReturns, GenerationReturns
  <2>4. CASE LoadFault(r) \/ ServingFailed(r)
    BY <1>1, <2>4 DEF LoadFault, ServingFailed
  <2>5. CASE \E d \in Devices : SubmitDoomed(r, d) \/ MoveDoomed(r, d)
    BY <2>5 DEF SubmitDoomed, MoveDoomed, Raise, booksVars
  <2>6. CASE \E d \in Devices : SyncRefused(r, d)
    <3>1. /\ lateLoads' = lateLoads /\ pc' = [pc EXCEPT ![r] = "load_failed"]
          /\ \E devices : RecordFailure(devices)
      BY <2>6 DEF SyncRefused
    <3>2. exiting => exiting'  BY <3>1 DEF RecordFailure
    <3>3. QED  BY <3>1, <3>2
  <2>7. QED
    BY <1>3, <2>1, <2>2, <2>3, <2>4, <2>5, <2>6 DEF Checking, RequestNext, LoadStep, ServeStep
<1>4. ASSUME NEW t \in Retrievals, RetrievalNext(t)
      PROVE  CheckKept
  <2>1. "device_text" \in Outcomes  BY DEF Outcomes
  <2>2. QED
    BY <1>2, <1>4, <2>1
    DEF RetrievalNext, RetrievalLoadFails, HoldSlot, ComputeDone, ComputePanics, Return, booksVars
<1>5. ASSUME NEW c \in Clients, ClientNext(c)
      PROVE  CheckKept
  <2>1. CASE Contain(c)
    BY <1>1, <2>1 DEF Contain, Return, booksVars
  <2>2. CASE Arrive(c) \/ RefuseArrival(c) \/ Unwind(c) \/ EvictElsewhere(c)
    BY <2>2 DEF Arrive, RefuseArrival, Unwind, EvictElsewhere, Return, vars, booksVars
  <2>3. QED  BY <1>5, <2>1, <2>2 DEF ClientNext
<1>6. CASE \/ \E d \in Accelerators : DeviceFails(d) \/ DoomedRuns(d)
           \/ UnloadIdle \/ TimePasses \/ UNCHANGED vars
  BY <1>6 DEF DeviceFails, DoomedRuns, UnloadIdle, TimePasses, CooldownEnds, NoteDevicePanic, Raise,
              vars, booksVars
<1>7. QED  BY <1>3, <1>4, <1>5, <1>6 DEF Next

\* A load that begins after the latch was past its check before: it holds the
\* slot, and nobody passes the check any more.
LEMMA LateStep ==
  ASSUME IInv, [Next]_vars
  PROVE  LateInv'
<1>1. LateInv /\ lateLoads \in Nat /\ HolderInv /\ TypeOK  BY DEF IInv, TypeOK, SafetyInv
<1>2. CASE \E r \in Requests : BeginLoad(r)
  <2>1. PICK r \in Requests : BeginLoad(r)  BY <1>2
  <2>2. /\ pc[r] = "preparing" /\ pc' = [pc EXCEPT ![r] = "loading"] /\ exiting' = exiting
        /\ lateLoads' = IF exiting THEN lateLoads + 1 ELSE lateLoads
    BY <2>1 DEF BeginLoad, Go, booksVars
  <2>3. lateLoads = 0  BY <1>1, <2>2 DEF LateInv
  <2>4. \A q \in Requests : pc[q] = "preparing" => q = r
    BY <1>1, <2>2 DEF HolderInv, Holding, Loading
  <2>5. \A q \in Requests : pc'[q] # "preparing"
    BY <1>1, <2>2, <2>4 DEF TypeOK
  <2>6. QED  BY <2>2, <2>3, <2>5 DEF LateInv
<1>3. CASE \E r \in Requests : Prepare(r)
  <2>1. ~exiting /\ lateLoads' = lateLoads  BY <1>3 DEF Prepare, histVars
  <2>2. QED  BY <1>1, <2>1 DEF LateInv
<1>4. CASE ~Checking
  <2>1. CheckKept  BY <1>1, <1>4, CheckIsPassedOnce
  <2>2. QED  BY <1>1, <2>1 DEF LateInv, CheckKept
<1>5. QED  BY <1>2, <1>3, <1>4 DEF Checking

\* It holds at the start: the slot is empty and nobody has arrived.
LEMMA InitIInv == Init => IInv
<1> SUFFICES ASSUME Init PROVE IInv  OBVIOUS
<1>1. BooksTypeOK
  BY DevicesAssumption DEF Init, BooksInit, BooksTypeOK, Book
<1>2. TypeOK
  <2>1. "idle" \in Steps /\ "ok" \in Outcomes /\ 0 \in 0..MaxTokens
    BY ServingAssumption, StepNames DEF Outcomes
  <2>2. QED  BY <1>1, <2>1, NoMarkType DEF Init, TypeOK
<1>3. SafetyInv
  BY ServingAssumption
  DEF Init, SafetyInv, HolderInv, ContentInv, StampInv, SpoiledInv, TokenInv, Holding, Loading,
      Serving, Building
<1>4. LateInv  BY DEF Init, LateInv
<1>5. QED  BY <1>2, <1>3, <1>4 DEF IInv

\* The inductive invariant holds in every reachable state, for any number of
\* clients, devices, models, failures and panics.
THEOREM Invariance == Spec => []IInv
<1>1. IInv /\ [Next]_vars => IInv'
  BY TypeStep, SafetyStep, LateStep DEF IInv, SafetyInv
<1>2. QED  BY InitIInv, <1>1, PTL DEF Spec

(***************************************************************************)
(* What follows from it.                                                    *)
(***************************************************************************)

\* Every variable keeps its type; above all no request is given more tokens
\* than its budget.
THEOREM TypeCorrect == Spec => []TypeOK
<1>1. IInv => TypeOK  BY DEF IInv
<1>2. QED  BY Invariance, <1>1, PTL

\* A model whose weights a failed allocation spoiled never looks current: its
\* stamp is behind the epoch, or the failure is still ahead of every read.
THEOREM SpoiledKnown == Spec => []SpoiledModelsAreKnown
<1>1. IInv => SpoiledModelsAreKnown
  BY DEF IInv, SafetyInv, SpoiledInv, SpoiledModelsAreKnown
<1>2. QED  BY Invariance, <1>1, PTL

\* No client is ever handed a token computed on spoiled weights, or after a
\* failure of any device since its model's load began.
THEOREM TokensClean == Spec => []EmittedTokensAreClean
<1>1. IInv => EmittedTokensAreClean
  BY DEF IInv, SafetyInv, TokenInv, EmittedTokensAreClean
<1>2. QED  BY Invariance, <1>1, PTL

\* A latched exit leaves nothing in the slot that a queued request would hit,
\* but what one load that was past its check may still bring.
THEOREM LatchStarves == Spec => []NothingServableAfterLatch
<1>1. IInv => NothingServableAfterLatch
  BY DEF IInv, SafetyInv, StampInv, LateInv, NothingServableAfterLatch, Condemned, TypeOK,
         BooksTypeOK, Model
<1>2. QED  BY Invariance, <1>1, PTL

\* The slot is only ever filled with a model whose every allocation was
\* served.
THEOREM SoundLanding == Spec => OnlySoundModelsLand
<1>1. ASSUME IInv, [Next]_vars, entry = NoModel, entry' # NoModel
      PROVE  entry'.sound
  <2>1. entry' # entry  BY <1>1
  <2>2. CASE \E r \in Requests : LoadLands(r)
    <3>1. PICK r \in Requests : LoadLands(r)  BY <2>2
    <3>2. build.sound
      BY <1>1, <3>1 DEF LoadLands, IInv, SafetyInv, TokenInv
    <3>3. entry' = build  BY <3>1 DEF LoadLands
    <3>4. QED  BY <3>2, <3>3, Zenon
  <2>3. CASE ~\E r \in Requests : LoadLands(r)
    <3>1. \A r \in Requests : ~LoadStep(r)
      BY <2>1, <2>3 DEF LoadStep, RefuseLoad, Prepare, BeginLoad, LoaderReturns, LoadVerified,
                        LoadFault, LoadError, slotVars
    <3>2. \A r \in Requests : ~ServeStep(r)
      BY <1>1, <2>1 DEF ServeStep, StartServing, Armed, Forward, JudgeToken, EmitToken,
                        GenerationReturns, Answer, Resume, ServingFailed, EvictHeld, slotVars
    <3>3. \A r \in Requests : ~RequestNext(r)
      BY <1>1, <2>1, <3>1, <3>2
      DEF RequestNext, Leave, TakeSlot, GiveBack, SubmitDoomed, SyncRefused, MoveDoomed, slotVars,
          IInv, SafetyInv, ContentInv, Serving
    <3>4. \A t \in Retrievals : ~RetrievalNext(t)
      BY <2>1 DEF RetrievalNext, RetrievalLoadFails, HoldSlot, ComputeDone, ComputePanics, slotVars
    <3>5. \A c \in Clients : ~ClientNext(c)
      BY <1>1, <2>1
      DEF ClientNext, Arrive, RefuseArrival, Unwind, Contain, EvictElsewhere, vars, slotVars
    <3>6. QED
      BY <1>1, <2>1, <3>3, <3>4, <3>5
      DEF Next, DeviceFails, DoomedRuns, UnloadIdle, TimePasses, vars, slotVars
  <2>4. QED  BY <2>2, <2>3
<1>2. IInv /\ [Next]_vars => [entry = NoModel /\ entry' # NoModel => entry'.sound]_vars
  BY <1>1
<1>3. QED  BY Invariance, <1>2, PTL DEF Spec, OnlySoundModelsLand

(***************************************************************************)
(* Counting.  Every decision is paid for by a device failure, or by an      *)
(* ordinary panic that `contain` took for one.  The debts are the decisions *)
(* made, the failures still hidden in a queue, the failure the slot's       *)
(* holder has yet to answer for, and twice each call `contain` has yet to   *)
(* judge: it may decide, and its decision may condemn another's model.      *)
(***************************************************************************)

\* A failure the holder of the slot has before it.
Sees(r) ==
  \/ pc[r] \in Building /\ Moved(mark[r])
  \/ pc[r] \in {"syncing", "returned"} /\ outcome[r] = "device_text"
  \/ pc[r] \in Serving \ {"evicting"} /\ Condemned

Seeing == \E r \in Requests : Sees(r)

\* A call `contain` has yet to judge.
Escapes(c) ==
  \/ pc[c] \in {"unwinding", "escaped"}
  \/ pc[c] \in {"syncing", "returned"} /\ outcome[c] = "bug"

Escaping == {c \in Clients : Escapes(c)}

Debt == decided + Cardinality(doomed) + (IF Seeing THEN 1 ELSE 0) + 2 * Cardinality(Escaping)

\* A failure of a retrieval call pays for three decisions: the holder's, its
\* own, and that of the model its own decision condemns.
Paid == (IF Retrievals = {} THEN raised ELSE 3 * raised) + 2 * bugs

DebtInv == IsFiniteSet(doomed) /\ IsFiniteSet(Escaping) /\ Debt <= Paid

\* A call that has not come back has no outcome yet.
Judged == {"syncing", "load_failed", "returned", "evicting", "unwinding", "escaped",
           "evict_elsewhere"}

OutcomeInv == \A c \in Clients : pc[c] \notin Judged => outcome[c] = "ok"

\* A count in the books is a decision, and a latched exit is two.
LatchInv ==
  /\ \A d \in Devices : book[d].consecutive >= 1 => decided >= 1
  /\ exiting => decided >= 2

\* Until a device fails, nothing has moved and nothing has been decided.
CalmInv ==
  raised = 0 =>
    /\ epoch = 0 /\ decided = 0 /\ doomed = {}
    /\ \A c \in Clients :
         mark[c].global = 0 /\ outer[c].global = 0 /\ outcome[c] # "device_text"

\* Cardinalities of a set that loses a member, or gains at most one.
LEMMA Smaller ==
  ASSUME NEW S, IsFiniteSet(S), NEW T \in SUBSET S
  PROVE  /\ IsFiniteSet(T) /\ Cardinality(T) <= Cardinality(S)
         /\ Cardinality(T) \in Nat /\ Cardinality(S) \in Nat
  BY FS_Subset, FS_CardinalityType

LEMMA OneLess ==
  ASSUME NEW S, IsFiniteSet(S), NEW x \in S, NEW T \in SUBSET (S \ {x})
  PROVE  /\ IsFiniteSet(T) /\ Cardinality(T) <= Cardinality(S) - 1
         /\ Cardinality(T) \in Nat /\ Cardinality(S) \in Nat
<1>1. IsFiniteSet(S \ {x}) /\ Cardinality(S \ {x}) = Cardinality(S) - 1
  BY FS_RemoveElement
<1>2. QED  BY <1>1, Smaller, FS_CardinalityType

LEMMA OneMore ==
  ASSUME NEW S, IsFiniteSet(S), NEW x, NEW T \in SUBSET (S \cup {x})
  PROVE  /\ IsFiniteSet(T) /\ Cardinality(T) <= Cardinality(S) + 1
         /\ Cardinality(T) \in Nat /\ Cardinality(S) \in Nat
<1>1. /\ IsFiniteSet(S \cup {x})
      /\ Cardinality(S \cup {x}) \in {Cardinality(S), Cardinality(S) + 1}
  BY FS_AddElement
<1>2. QED  BY <1>1, Smaller, FS_CardinalityType

\* The balance: what each kind of step may add to the debts, and what pays.
LEMMA Settles ==
  ASSUME TypeOK, TypeOK', DebtInv, NEW x,
    \* nothing new
    \/ /\ UNCHANGED <<raised, decided, bugs>>
       /\ doomed' \subseteq doomed /\ Escaping' \subseteq Escaping /\ (Seeing' => Seeing)
    \* a failure the holder may see
    \/ /\ raised' = raised + 1 /\ UNCHANGED <<decided, bugs>>
       /\ doomed' \subseteq doomed /\ Escaping' \subseteq Escaping
    \* a failure that waits in a queue
    \/ /\ raised' = raised + 1 /\ UNCHANGED <<decided, bugs>>
       /\ doomed' \subseteq doomed \cup {x} /\ Escaping' \subseteq Escaping /\ (Seeing' => Seeing)
    \* the queue is run
    \/ /\ UNCHANGED <<raised, decided, bugs>>
       /\ x \in doomed /\ doomed' \subseteq doomed \ {x} /\ Escaping' \subseteq Escaping
    \* the holder decides what it saw
    \/ /\ decided' = decided + 1 /\ UNCHANGED <<raised, bugs>>
       /\ doomed' \subseteq doomed /\ Escaping' \subseteq Escaping /\ Seeing /\ ~Seeing'
    \* a call that escaped, or would have, is judged
    \/ /\ decided' = decided + 1 /\ UNCHANGED <<raised, bugs>>
       /\ doomed' \subseteq doomed /\ x \in Escaping /\ Escaping' \subseteq Escaping \ {x}
    \* a failure is raised and decided at once
    \/ /\ raised' = raised + 1 /\ decided' = decided + 1 /\ UNCHANGED bugs
       /\ doomed' \subseteq doomed /\ Escaping' \subseteq Escaping /\ (Seeing' => Seeing)
    \* an ordinary panic
    \/ /\ bugs' = bugs + 1 /\ UNCHANGED <<raised, decided>>
       /\ doomed' \subseteq doomed /\ Escaping' \subseteq Escaping \cup {x} /\ (Seeing' => Seeing)
    \* a failure of a retrieval call
    \/ /\ raised' = raised + 1 /\ UNCHANGED <<decided, bugs>> /\ Retrievals # {}
       /\ doomed' \subseteq doomed /\ Escaping' \subseteq Escaping \cup {x}
  PROVE  DebtInv'
<1>1. /\ raised \in Nat /\ decided \in Nat /\ bugs \in Nat
      /\ IsFiniteSet(doomed) /\ IsFiniteSet(Escaping) /\ Debt <= Paid
      /\ Cardinality(doomed) \in Nat /\ Cardinality(Escaping) \in Nat
  BY FS_CardinalityType DEF DebtInv, TypeOK
<1>2. /\ Debt = decided + Cardinality(doomed) + (IF Seeing THEN 1 ELSE 0)
                  + 2 * Cardinality(Escaping)
      /\ Debt' = decided' + Cardinality(doomed') + (IF Seeing' THEN 1 ELSE 0)
                   + 2 * Cardinality(Escaping')
      /\ Paid = (IF Retrievals = {} THEN raised ELSE 3 * raised) + 2 * bugs
      /\ Paid' = (IF Retrievals = {} THEN raised' ELSE 3 * raised') + 2 * bugs'
  BY DEF Debt, Paid
<1>3. /\ IsFiniteSet(doomed') /\ Cardinality(doomed') \in Nat
      /\ doomed' \subseteq doomed => Cardinality(doomed') <= Cardinality(doomed)
      /\ doomed' \subseteq doomed \cup {x} => Cardinality(doomed') <= Cardinality(doomed) + 1
      /\ x \in doomed /\ doomed' \subseteq doomed \ {x} =>
           Cardinality(doomed') <= Cardinality(doomed) - 1
  <2>1. doomed' \subseteq doomed \cup {x}  OBVIOUS
  <2>2. QED  BY <1>1, <2>1, Smaller, OneLess, OneMore
<1>4. /\ IsFiniteSet(Escaping') /\ Cardinality(Escaping') \in Nat
      /\ Escaping' \subseteq Escaping => Cardinality(Escaping') <= Cardinality(Escaping)
      /\ Escaping' \subseteq Escaping \cup {x} =>
           Cardinality(Escaping') <= Cardinality(Escaping) + 1
      /\ x \in Escaping /\ Escaping' \subseteq Escaping \ {x} =>
           Cardinality(Escaping') <= Cardinality(Escaping) - 1
  <2>1. Escaping' \subseteq Escaping \cup {x}  OBVIOUS
  <2>2. QED  BY <1>1, <2>1, Smaller, OneLess, OneMore
<1>5. Debt' <= Paid'
  BY <1>1, <1>2, <1>3, <1>4, SMTT(60)
<1>6. QED  BY <1>3, <1>4, <1>5 DEF DebtInv

\* Only the holder of the slot has a failure before it.
LEMMA HolderSees ==
  ASSUME IInv, NEW r \in Requests, Sees(r)
  PROVE  slot = r /\ pc[r] \in Loading \cup Serving
  BY DEF IInv, SafetyInv, HolderInv, Sees, Building, Loading, Serving, Holding

\* A request's guarded call pays however it comes back: a device failure is
\* before the holder, an ordinary panic is before `contain`.
LEMMA GuardedPays ==
  ASSUME IInv, TypeOK', DebtInv, NEW r \in Requests, NEW how \in Outcomes, ComesBack(r, how),
         UNCHANGED slotVars,
         \/ pc[r] = "loading" /\ Go(r, "syncing")
         \/ pc[r] \in {"arming", "generating"} /\ Go(r, "returned")
  PROVE  DebtInv'
<1>0. /\ TypeOK /\ UNCHANGED <<mark, entry, doomed>> /\ outcome' = [outcome EXCEPT ![r] = how]
  BY DEF IInv, ComesBack, slotVars
<1>1. Escaping' \subseteq Escaping \cup {r}
  BY <1>0 DEF TypeOK, Escaping, Escapes, Go
<1>2. CASE how = "device_text"
  <2>1. raised' = raised + 1 /\ UNCHANGED <<decided, bugs>>
    BY <1>2 DEF ComesBack, Raise
  <2>2. Escaping' \subseteq Escaping
    BY <1>0, <1>2 DEF TypeOK, Escaping, Escapes, Go
  <2>3. QED  BY <1>0, <2>1, <2>2, Settles
<1>3. CASE how # "device_text"
  <2>1. epoch' = epoch  BY <1>3 DEF ComesBack, booksVars
  <2>2. Seeing' => Seeing
    BY <1>0, <1>3, <2>1
    DEF TypeOK, Seeing, Sees, Moved, Condemned, Building, Serving, Go
  <2>3. CASE how = "bug"
    <3>1. bugs' = bugs + 1 /\ UNCHANGED <<raised, decided>>  BY <2>3 DEF ComesBack
    <3>2. QED  BY <1>0, <1>1, <2>2, <3>1, Settles
  <2>4. CASE how # "bug"
    <3>1. UNCHANGED <<raised, decided, bugs>>  BY <1>3, <2>4 DEF ComesBack, histVars
    <3>2. Escaping' \subseteq Escaping
      BY <1>0, <2>4 DEF TypeOK, Escaping, Escapes, Go
    <3>3. QED  BY <1>0, <2>2, <3>1, <3>2, Settles
  <2>5. QED  BY <2>3, <2>4
<1>4. QED  BY <1>2, <1>3

\* A step of the loader's pays for what it decides.
LEMMA LoadPays ==
  ASSUME IInv, TypeOK', DebtInv, NEW r \in Requests,
         LoadStep(r) \/ \E d \in Devices : SubmitDoomed(r, d) \/ SyncRefused(r, d)
  PROVE  DebtInv'
<1>0. /\ TypeOK
      /\ \A q \in Requests : Sees(q) => slot = q
      /\ pc[r] \in Building => build.stamp = mark[r].global
  BY HolderSees DEF IInv, SafetyInv, ContentInv
<1> USE DEF TypeOK, Sees, Seeing, Escapes, Escaping, Condemned, Moved, Building, Loading, Serving,
            Go
<1>1. CASE RefuseLoad(r)
  <2>1. /\ UNCHANGED <<raised, decided, bugs, doomed>> /\ Escaping' \subseteq Escaping
        /\ Seeing' => Seeing
    BY <1>0, <1>1 DEF RefuseLoad, booksVars, slotVars, callVars, histVars
  <2>2. QED  BY <1>0, <2>1, Settles
<1>2. CASE BeginLoad(r)
  <2>1. /\ UNCHANGED <<raised, decided, bugs, doomed>> /\ Escaping' \subseteq Escaping
        /\ Seeing' => Seeing
    BY <1>0, <1>2 DEF BeginLoad, Mark, booksVars, histVars
  <2>2. QED  BY <1>0, <2>1, Settles
<1>4. CASE LoadVerified(r)
  <2>1. /\ UNCHANGED <<raised, decided, bugs, doomed>> /\ Escaping' \subseteq Escaping
        /\ Seeing' => Seeing
    BY <1>0, <1>4 DEF LoadVerified, booksVars, slotVars, callVars, histVars
  <2>2. QED  BY <1>0, <2>1, Settles
<1>5. CASE LoadFault(r)
  <2>1. /\ decided' = decided + 1 /\ UNCHANGED <<raised, bugs, doomed>>
        /\ Escaping' \subseteq Escaping /\ Seeing
    BY <1>0, <1>5 DEF LoadFault, Charge, callVars
  <2>2. ~Seeing'
    BY <1>0, <1>5 DEF LoadFault, callVars, IInv, SafetyInv, HolderInv, Holding
  <2>3. QED  BY <1>0, <2>1, <2>2, Settles
<1>6. CASE LoadError(r)
  <2>1. /\ UNCHANGED <<raised, decided, bugs, doomed>> /\ Escaping' \subseteq Escaping
        /\ Seeing' => Seeing
    BY <1>0, <1>6 DEF LoadError, booksVars, callVars, histVars
  <2>2. QED  BY <1>0, <2>1, Settles
<1>7. CASE LoadLands(r)
  <2>1. /\ UNCHANGED <<raised, decided, bugs, doomed>> /\ Escaping' \subseteq Escaping
        /\ UNCHANGED <<epoch, mark, outcome>> /\ entry' = build
        /\ pc[r] = "verified" /\ pc' = [pc EXCEPT ![r] = "resident"]
    BY <1>0, <1>7 DEF LoadLands, LoadSucceeded, callVars, histVars
  <2>2. \A q \in Requests : q # r => pc[q] \notin Building \cup Serving
    BY <1>0, <2>1 DEF IInv, SafetyInv, HolderInv, Holding
  <2>3. Seeing' => Seeing  BY <1>0, <2>1, <2>2
  <2>4. QED  BY <1>0, <2>1, <2>3, Settles
<1>8. CASE \E d \in Devices : SubmitDoomed(r, d)
  <2>1. PICK d \in Devices : SubmitDoomed(r, d)  BY <1>8
  <2>2. /\ raised' = raised + 1 /\ UNCHANGED <<decided, bugs>> /\ doomed' \subseteq doomed \cup {d}
        /\ UNCHANGED <<epoch, entry, pc, mark, outcome>>
    BY <2>1 DEF SubmitDoomed, Raise, booksVars, callVars
  <2>3. Escaping' \subseteq Escaping /\ (Seeing' => Seeing)  BY <2>2
  <2>4. QED  BY <1>0, <2>2, <2>3, Settles
<1>9. CASE \E d \in Devices : SyncRefused(r, d)
  <2>1. PICK d \in Devices : SyncRefused(r, d)  BY <1>9
  <2>2. /\ raised' = raised + 1 /\ decided' = decided + 1 /\ UNCHANGED <<bugs, doomed>>
        /\ Escaping' \subseteq Escaping
    BY <1>0, <2>1 DEF SyncRefused, callVars
  <2>3. ~Seeing'
    BY <1>0, <2>1 DEF SyncRefused, callVars, IInv, SafetyInv, HolderInv, Holding
  <2>4. QED  BY <1>0, <2>2, <2>3, Settles
<1>3. CASE \E how \in Outcomes : LoaderReturns(r, how)
  <2>1. PICK how \in Outcomes : LoaderReturns(r, how)  BY <1>3
  <2>2. QED  BY <2>1, GuardedPays DEF LoaderReturns
<1>10. CASE Prepare(r)
  <2>1. /\ UNCHANGED <<raised, decided, bugs, doomed>> /\ Escaping' \subseteq Escaping
        /\ Seeing' => Seeing
    BY <1>0, <1>10 DEF Prepare, booksVars, slotVars, callVars, histVars
  <2>2. QED  BY <1>0, <2>1, Settles
<1>11. QED  BY <1>1, <1>2, <1>3, <1>4, <1>5, <1>6, <1>7, <1>8, <1>9, <1>10 DEF LoadStep

\* So does a step of serving.
LEMMA ServePays ==
  ASSUME IInv, TypeOK', OutcomeInv, DebtInv, NEW r \in Requests,
         ServeStep(r) \/ \E d \in Devices : MoveDoomed(r, d)
  PROVE  DebtInv'
<1>0. /\ TypeOK
      /\ \A q \in Requests : Sees(q) => slot = q
      /\ \A q \in Requests : pc[q] \in Loading \cup Serving <=> slot = q /\ pc[q] # "unwinding"
  BY HolderSees DEF IInv, SafetyInv, HolderInv, Holding, Loading, Serving
<1> USE DEF TypeOK, Sees, Seeing, Escapes, Escaping, Condemned, Moved, Building, Loading, Serving,
            Go
<1>1. CASE StartServing(r)
  <2>1. /\ UNCHANGED <<raised, decided, bugs, doomed>> /\ Escaping' \subseteq Escaping
        /\ Seeing' => Seeing
    BY <1>0, <1>1 DEF StartServing, booksVars, slotVars, histVars
  <2>2. QED  BY <1>0, <2>1, Settles
<1>2. CASE Armed(r)
  <2>1. /\ UNCHANGED <<raised, decided, bugs, doomed, epoch, entry, mark, outcome>>
        /\ pc[r] = "arming" /\ pc'[r] \in {"returned", "generating"}
        /\ \A c \in Clients \ {r} : pc'[c] = pc[c]
    BY <1>2 DEF Armed, booksVars, slotVars, callVars, histVars
  <2>2. Escaping' \subseteq Escaping  BY <1>0, <2>1 DEF OutcomeInv, Judged
  <2>3. Seeing' => Seeing  BY <1>0, <2>1 DEF OutcomeInv, Judged
  <2>4. QED  BY <1>0, <2>1, <2>2, <2>3, Settles
<1>3. CASE Forward(r)
  <2>1. /\ UNCHANGED <<raised, decided, bugs, doomed>> /\ Escaping' \subseteq Escaping
        /\ Seeing' => Seeing
    BY <1>0, <1>3 DEF Forward, booksVars, slotVars, histVars
  <2>2. QED  BY <1>0, <2>1, Settles
<1>4. CASE JudgeToken(r)
  <2>1. /\ UNCHANGED <<raised, decided, bugs, doomed, epoch, entry, mark, outcome>>
        /\ pc[r] = "token" /\ pc'[r] \in {"returned", "emit"}
        /\ \A c \in Clients \ {r} : pc'[c] = pc[c]
    BY <1>4 DEF JudgeToken, booksVars, slotVars, callVars, histVars
  <2>2. Escaping' \subseteq Escaping  BY <1>0, <2>1 DEF OutcomeInv, Judged
  <2>3. Seeing' => Seeing  BY <1>0, <2>1 DEF OutcomeInv, Judged
  <2>4. QED  BY <1>0, <2>1, <2>2, <2>3, Settles
<1>5. CASE EmitToken(r)
  <2>1. /\ UNCHANGED <<raised, decided, bugs, doomed>> /\ Escaping' \subseteq Escaping
        /\ Seeing' => Seeing
    BY <1>0, <1>5 DEF EmitToken, GenerationSucceeded, booksVars, slotVars, histVars
  <2>2. QED  BY <1>0, <2>1, Settles
<1>6. CASE \E how \in Outcomes : GenerationReturns(r, how)
  <2>1. PICK how \in Outcomes : GenerationReturns(r, how)  BY <1>6
  <2>2. QED  BY <2>1, GuardedPays DEF GenerationReturns
<1>7. CASE Answer(r)
  <2>1. /\ UNCHANGED <<raised, decided, bugs, doomed>> /\ Escaping' \subseteq Escaping
        /\ Seeing' => Seeing
    BY <1>0, <1>7 DEF Answer, Return, booksVars, histVars
  <2>2. QED  BY <1>0, <2>1, Settles
<1>8. CASE Resume(r)
  <2>1. /\ UNCHANGED <<raised, decided, bugs, doomed>> /\ Escaping' \subseteq Escaping
        /\ Seeing' => Seeing
    BY <1>0, <1>8 DEF Resume, booksVars, slotVars, callVars, histVars
  <2>2. QED  BY <1>0, <2>1, Settles
<1>9. CASE ServingFailed(r)
  <2>1. /\ decided' = decided + 1 /\ UNCHANGED <<raised, bugs>>
        /\ UNCHANGED <<entry, doomed, mark, outcome>>
        /\ pc[r] = "returned" /\ pc' = [pc EXCEPT ![r] = "evicting"]
    BY <1>9 DEF ServingFailed, Charge, slotVars, callVars
  <2>2. CASE outcome[r] = "bug"
    <3>1. r \in Escaping /\ Escaping' \subseteq Escaping \ {r}  BY <1>0, <2>1, <2>2
    <3>2. QED  BY <1>0, <2>1, <3>1, Settles
  <2>3. CASE outcome[r] # "bug"
    <3>1. Seeing  BY <1>0, <1>9, <2>1, <2>3 DEF ServingFailed, DeviceFailed
    <3>2. ~Seeing'  BY <1>0, <2>1
    <3>3. Escaping' \subseteq Escaping  BY <1>0, <2>1
    <3>4. QED  BY <1>0, <2>1, <3>1, <3>2, <3>3, Settles
  <2>4. QED  BY <2>2, <2>3
<1>10. CASE EvictHeld(r)
  <2>1. /\ UNCHANGED <<raised, decided, bugs, doomed>> /\ Escaping' \subseteq Escaping
        /\ UNCHANGED epoch /\ pc[r] = "evicting" /\ pc' = [pc EXCEPT ![r] = "idle"]
        /\ \A q \in Requests \ {r} : UNCHANGED <<mark[q], outcome[q]>>
    BY <1>0, <1>10 DEF EvictHeld, Return, booksVars, histVars
  <2>2. ~Seeing'  BY <1>0, <2>1
  <2>3. QED  BY <1>0, <2>1, <2>2, Settles
<1>11. CASE \E d \in Devices : MoveDoomed(r, d)
  <2>1. PICK d \in Devices : MoveDoomed(r, d)  BY <1>11
  <2>2. entry \in Model  BY <2>1 DEF MoveDoomed, IInv, SafetyInv, ContentInv
  <2>3. /\ raised' = raised + 1 /\ UNCHANGED <<decided, bugs>> /\ doomed' \subseteq doomed \cup {d}
        /\ UNCHANGED <<epoch, pc, mark, outcome>> /\ entry' = [entry EXCEPT !.sound = FALSE]
    BY <2>1 DEF MoveDoomed, Raise, booksVars, callVars
  <2>4. entry'.stamp = entry.stamp  BY <2>2, <2>3 DEF Model
  <2>5. Escaping' \subseteq Escaping /\ (Seeing' => Seeing)  BY <2>3, <2>4
  <2>6. QED  BY <1>0, <2>3, <2>5, Settles
<1>12. QED
  BY <1>1, <1>2, <1>3, <1>4, <1>5, <1>6, <1>7, <1>8, <1>9, <1>10, <1>11 DEF ServeStep

\* And every step of a call outside them: only `contain` decides, for a call
\* that escaped.
LEMMA CallPays ==
  ASSUME IInv, TypeOK', OutcomeInv, DebtInv, NEW c \in Clients,
         \/ c \in Requests /\ (Leave(c) \/ TakeSlot(c) \/ GiveBack(c))
         \/ c \in Retrievals /\ RetrievalNext(c)
         \/ ClientNext(c)
  PROVE  DebtInv'
<1>0. /\ TypeOK
      /\ \A q \in Requests : Sees(q) => slot = q
      /\ \A q \in Requests : pc[q] \in Loading \cup Serving <=> slot = q /\ pc[q] # "unwinding"
  BY HolderSees DEF IInv, SafetyInv, HolderInv, Holding, Loading, Serving
<1> USE ServingAssumption
    DEF TypeOK, Sees, Seeing, Escapes, Escaping, Condemned, Moved, Building, Loading, Serving, Go
<1>1. CASE c \in Requests /\ Leave(c)
  <2>1. /\ UNCHANGED <<raised, decided, bugs, doomed>> /\ Escaping' \subseteq Escaping
        /\ Seeing' => Seeing
    BY <1>0, <1>1 DEF Leave, Return, booksVars, slotVars, histVars
  <2>2. QED  BY <1>0, <2>1, Settles
<1>2. CASE c \in Requests /\ TakeSlot(c)
  <2>1. /\ UNCHANGED <<raised, decided, bugs, doomed, epoch, mark, outcome>>
        /\ pc[c] = "queued" /\ slot = NoOne
        /\ \/ pc' = [pc EXCEPT ![c] = "resident"] /\ entry' = entry /\ ~Condemned
           \/ pc' = [pc EXCEPT ![c] = "planning"] /\ entry' = NoModel
    BY <1>2 DEF TakeSlot, Hit, booksVars, callVars, histVars
  <2>2. ~Seeing'
    <3>1. \A q \in Requests : pc[q] \notin Loading \cup Serving  BY <1>0, <2>1
    <3>2. QED  BY <2>1, <3>1
  <2>3. Escaping' \subseteq Escaping  BY <2>1
  <2>4. QED  BY <1>0, <2>1, <2>2, <2>3, Settles
<1>3. CASE c \in Requests /\ GiveBack(c)
  <2>1. /\ UNCHANGED <<raised, decided, bugs, doomed>> /\ Escaping' \subseteq Escaping
        /\ Seeing' => Seeing
    BY <1>0, <1>3 DEF GiveBack, Return, booksVars, histVars
  <2>2. QED  BY <1>0, <2>1, Settles
<1>4. CASE c \in Retrievals /\ RetrievalLoadFails(c)
  <2>1. /\ raised' = raised + 1 /\ UNCHANGED <<decided, bugs, doomed>>
        /\ pc' = [pc EXCEPT ![c] = "escaped"] /\ outcome' = [outcome EXCEPT ![c] = "device_text"]
    BY <1>4 DEF RetrievalLoadFails, ComesBack, Raise, slotVars
  <2>2. Escaping' \subseteq Escaping \cup {c}  BY <1>0, <2>1
  <2>3. QED  BY <1>0, <1>4, <2>1, <2>2, Settles
<1>5. CASE c \in Retrievals /\ HoldSlot(c)
  <2>1. /\ UNCHANGED <<raised, decided, bugs, doomed>> /\ Escaping' \subseteq Escaping
        /\ Seeing' => Seeing
    BY <1>0, <1>5 DEF HoldSlot, booksVars, callVars, histVars
  <2>2. QED  BY <1>0, <2>1, Settles
<1>6. CASE c \in Retrievals /\ ComputeDone(c)
  <2>1. /\ UNCHANGED <<raised, decided, bugs, doomed>> /\ Escaping' \subseteq Escaping
        /\ Seeing' => Seeing
    BY <1>0, <1>6 DEF ComputeDone, Return, booksVars, histVars
  <2>2. QED  BY <1>0, <2>1, Settles
<1>7. CASE c \in Retrievals /\ \E how \in Outcomes : ComputePanics(c, how)
  <2>1. PICK how \in {"device_text", "bug"} : ComputePanics(c, how)  BY <1>7 DEF ComputePanics
  <2>2. /\ UNCHANGED <<doomed, entry, mark>> /\ pc[c] = "computing"
        /\ pc' = [pc EXCEPT ![c] = "unwinding"] /\ outcome' = [outcome EXCEPT ![c] = how]
    BY <2>1 DEF ComputePanics, ComesBack, slotVars
  <2>3. Escaping' \subseteq Escaping \cup {c}  BY <1>0, <2>2
  <2>4. CASE how = "device_text"
    <3>1. raised' = raised + 1 /\ UNCHANGED <<decided, bugs>>
      BY <2>1, <2>4 DEF ComputePanics, ComesBack, Raise
    <3>2. QED  BY <1>0, <1>7, <2>2, <2>3, <3>1, Settles
  <2>5. CASE how = "bug"
    <3>1. bugs' = bugs + 1 /\ UNCHANGED <<raised, decided, epoch>>
      BY <2>1, <2>5 DEF ComputePanics, ComesBack, booksVars
    <3>2. Seeing' => Seeing  BY <1>0, <1>7, <2>2, <3>1
    <3>3. QED  BY <1>0, <2>2, <2>3, <3>1, <3>2, Settles
  <2>6. QED  BY <2>4, <2>5
<1>8. CASE Arrive(c)
  <2>1. /\ UNCHANGED <<raised, decided, bugs, doomed>> /\ Escaping' \subseteq Escaping
        /\ Seeing' => Seeing
    BY <1>0, <1>8 DEF Arrive, booksVars, slotVars, histVars
  <2>2. QED  BY <1>0, <2>1, Settles
<1>9. CASE RefuseArrival(c)
  <2>1. /\ UNCHANGED <<raised, decided, bugs, doomed>> /\ Escaping' \subseteq Escaping
        /\ Seeing' => Seeing
    BY <1>0, <1>9 DEF RefuseArrival, vars, booksVars, slotVars, callVars, histVars
  <2>2. QED  BY <1>0, <2>1, Settles
<1>10. CASE Unwind(c)
  <2>1. /\ UNCHANGED <<raised, decided, bugs, doomed>> /\ Escaping' \subseteq Escaping
        /\ Seeing' => Seeing
    BY <1>0, <1>10 DEF Unwind, booksVars, callVars, histVars
  <2>2. QED  BY <1>0, <2>1, Settles
<1>11. CASE Contain(c)
  <2>1. CASE outcome[c] = "device_text" \/ Moved(outer[c])
    <3>1. /\ decided' = decided + 1 /\ UNCHANGED <<raised, bugs, doomed, outcome>>
          /\ pc[c] = "escaped" /\ pc' = [pc EXCEPT ![c] = "evict_elsewhere"]
      BY <1>11, <2>1 DEF Contain, Charge, slotVars, callVars
    <3>2. c \in Escaping /\ Escaping' \subseteq Escaping \ {c}  BY <1>0, <3>1
    <3>3. QED  BY <1>0, <3>1, <3>2, Settles
  <2>2. CASE ~(outcome[c] = "device_text" \/ Moved(outer[c]))
    <3>1. /\ UNCHANGED <<raised, decided, bugs, doomed, epoch, entry>> /\ Return(c)
          /\ pc[c] = "escaped"
      BY <1>11, <2>2 DEF Contain, booksVars, slotVars, histVars
    <3>2. Escaping' \subseteq Escaping /\ (Seeing' => Seeing)  BY <1>0, <3>1 DEF Return
    <3>3. QED  BY <1>0, <3>1, <3>2, Settles
  <2>3. QED  BY <2>1, <2>2
<1>12. CASE EvictElsewhere(c)
  <2>1. /\ UNCHANGED <<raised, decided, bugs, doomed, epoch, slot>> /\ Return(c)
        /\ pc[c] = "evict_elsewhere" /\ (slot # NoOne => entry' = entry)
    BY <1>12 DEF EvictElsewhere, booksVars, histVars
  <2>2. Escaping' \subseteq Escaping /\ (Seeing' => Seeing)  BY <1>0, <2>1 DEF Return
  <2>3. QED  BY <1>0, <2>1, <2>2, Settles
<1>13. QED
  BY <1>1, <1>2, <1>3, <1>4, <1>5, <1>6, <1>7, <1>8, <1>9, <1>10, <1>11, <1>12
  DEF RetrievalNext, ClientNext

\* Every step of the system leaves the decisions paid for.
LEMMA DebtStep ==
  ASSUME IInv, TypeOK', OutcomeInv, DebtInv, [Next]_vars
  PROVE  DebtInv'
<1>0. /\ TypeOK
      /\ \A q \in Requests : Sees(q) => slot = q
  BY HolderSees DEF IInv
<1> USE DEF Seeing, Sees, Escaping, Escapes, Condemned, Moved
<1>1. CASE UNCHANGED vars
  BY <1>0, <1>1, Settles DEF vars, booksVars, slotVars, callVars, histVars
<1>2. CASE Next
  <2>1. CASE \E r \in Requests : RequestNext(r)
    BY <2>1, LoadPays, ServePays, CallPays DEF RequestNext
  <2>2. CASE \E t \in Retrievals : RetrievalNext(t)
    BY <2>2, CallPays
  <2>3. CASE \E c \in Clients : ClientNext(c)
    BY <2>3, CallPays
  <2>4. CASE \E d \in Accelerators : DeviceFails(d)
    <3>1. raised' = raised + 1 /\ UNCHANGED <<decided, bugs, doomed, pc, outcome>>
      BY <2>4 DEF DeviceFails, Raise, slotVars, callVars
    <3>2. Escaping' \subseteq Escaping  BY <3>1
    <3>3. QED  BY <1>0, <3>1, <3>2, Settles
  <2>5. CASE \E d \in Accelerators : DoomedRuns(d)
    <3>1. PICK d \in Accelerators : DoomedRuns(d)  BY <2>5
    <3>2. /\ UNCHANGED <<raised, decided, bugs, pc, outcome>>
          /\ d \in doomed /\ doomed' = doomed \ {d}
      BY <3>1 DEF DoomedRuns, callVars, histVars
    <3>3. Escaping' \subseteq Escaping  BY <3>2
    <3>4. QED  BY <1>0, <3>2, <3>3, Settles
  <2>6. CASE UnloadIdle
    <3>1. /\ UNCHANGED <<raised, decided, bugs, doomed, epoch, mark, outcome, pc, slot>>
          /\ slot = NoOne
      BY <2>6 DEF UnloadIdle, booksVars, callVars, histVars
    <3>2. ~Seeing'
      <4>1. \A q \in Requests : pc[q] \notin Building \cup Serving
        BY <3>1, ServingAssumption
        DEF IInv, SafetyInv, HolderInv, Holding, Building, Loading, Serving
      <4>2. QED  BY <3>1, <4>1 DEF Building, Serving
    <3>3. Escaping' \subseteq Escaping  BY <3>1
    <3>4. QED  BY <1>0, <3>1, <3>2, <3>3, Settles
  <2>7. CASE TimePasses
    BY <1>0, <2>7, Settles DEF TimePasses, CooldownEnds, slotVars, callVars, histVars
  <2>8. QED  BY <1>2, <2>1, <2>2, <2>3, <2>4, <2>5, <2>6, <2>7 DEF Next
<1>3. QED  BY <1>1, <1>2

\* The counts stay, or a decision adds to them.
Counted ==
  \/ CountsKept /\ decided' = decided
  \/ decided' = decided + 1 /\ \E devices \in SUBSET Devices : RecordFailure(devices)

\* A charge to the devices a call moved or used is a decision.
LEMMA ChargeCounts ==
  ASSUME NEW m, NEW used \in SUBSET Devices, Charge(Attribute(m, used))
  PROVE  Counted
  BY AttributeType DEF Charge, Counted

\* However a guarded call comes back, it decides nothing.
LEMMA ComesBackCounts ==
  ASSUME BooksTypeOK, NEW c, NEW how, ComesBack(c, how)
  PROVE  Counted
<1>1. decided' = decided
  BY DEF ComesBack, Raise, histVars
<1>2. NoteUnattributedPanic \/ UNCHANGED booksVars  BY DEF ComesBack
<1>3. QED  BY <1>1, <1>2, QuietCounts DEF Counted

\* Nothing but a decision adds to the counts.
LEMMA CountStep ==
  ASSUME IInv, [Next]_vars
  PROVE  Counted
<1>1. BooksTypeOK  BY DEF IInv, TypeOK
<1>2. UNCHANGED <<booksVars, decided>> => Counted  BY <1>1, QuietCounts DEF Counted
<1>3. CASE UNCHANGED vars  BY <1>2, <1>3 DEF vars, histVars
<1>4. ASSUME NEW r \in Requests, RequestNext(r)
      PROVE  Counted
  <2>1. CASE LoadLands(r)
    <3>1. LoadSucceeded(build.devices) /\ decided' = decided  BY <2>1 DEF LoadLands, histVars
    <3>2. QED  BY <1>1, <3>1, QuietCounts DEF Counted
  <2>2. CASE EmitToken(r)
    <3>1. /\ decided' = decided
          /\ GenerationSucceeded(entry.devices) \/ UNCHANGED booksVars
      BY <2>2 DEF EmitToken, histVars
    <3>2. QED  BY <1>1, <3>1, QuietCounts DEF Counted
  <2>3. CASE \E how \in Outcomes : LoaderReturns(r, how) \/ GenerationReturns(r, how)
    BY <1>1, <2>3, ComesBackCounts DEF LoaderReturns, GenerationReturns
  <2>4. CASE LoadFault(r)
    <3>1. build.devices \in SUBSET Devices
      BY <2>4 DEF LoadFault, IInv, TypeOK, SafetyInv, ContentInv, Building, Model
    <3>2. QED  BY <2>4, <3>1, ChargeCounts DEF LoadFault
  <2>5. CASE ServingFailed(r)
    <3>1. entry.devices \in SUBSET Devices
      BY <2>5 DEF ServingFailed, IInv, TypeOK, SafetyInv, ContentInv, Serving, Model
    <3>2. QED  BY <2>5, <3>1, ChargeCounts DEF ServingFailed
  <2>6. CASE \E d \in Devices : SyncRefused(r, d)
    BY <2>6 DEF SyncRefused, Counted
  <2>7. CASE \/ Leave(r) \/ TakeSlot(r) \/ GiveBack(r) \/ RefuseLoad(r) \/ BeginLoad(r)
             \/ Prepare(r) \/ LoadVerified(r) \/ LoadError(r) \/ StartServing(r) \/ Armed(r)
             \/ Forward(r) \/ JudgeToken(r) \/ Answer(r) \/ Resume(r) \/ EvictHeld(r)
             \/ \E d \in Devices : SubmitDoomed(r, d) \/ MoveDoomed(r, d)
    BY <1>2, <2>7
    DEF Leave, TakeSlot, GiveBack, RefuseLoad, Prepare, BeginLoad, LoadVerified, LoadError,
        StartServing, Armed, Forward, JudgeToken, Answer, Resume, EvictHeld, SubmitDoomed,
        MoveDoomed, Raise, histVars
  <2>8. QED
    BY <1>4, <2>1, <2>2, <2>3, <2>4, <2>5, <2>6, <2>7 DEF RequestNext, LoadStep, ServeStep
<1>5. ASSUME NEW t \in Retrievals, RetrievalNext(t)
      PROVE  Counted
  BY <1>1, <1>2, <1>5, ComesBackCounts
  DEF RetrievalNext, RetrievalLoadFails, HoldSlot, ComputeDone, ComputePanics, histVars
<1>6. ASSUME NEW c \in Clients, ClientNext(c)
      PROVE  Counted
  <2>1. CASE Contain(c)
    <3>1. {} \in SUBSET Devices  OBVIOUS
    <3>2. CASE outcome[c] = "device_text" \/ Moved(outer[c])
      BY <2>1, <3>1, <3>2, ChargeCounts DEF Contain
    <3>3. CASE ~(outcome[c] = "device_text" \/ Moved(outer[c]))
      BY <1>2, <2>1, <3>3 DEF Contain, histVars
    <3>4. QED  BY <3>2, <3>3
  <2>2. CASE Arrive(c) \/ RefuseArrival(c) \/ Unwind(c) \/ EvictElsewhere(c)
    BY <1>2, <2>2 DEF Arrive, RefuseArrival, Unwind, EvictElsewhere, vars, histVars
  <2>3. QED  BY <1>6, <2>1, <2>2 DEF ClientNext
<1>7. CASE \E d \in Accelerators : DeviceFails(d) \/ DoomedRuns(d)
  BY <1>1, <1>7, QuietCounts DEF DeviceFails, DoomedRuns, Raise, histVars, Devices, Counted
<1>8. CASE UnloadIdle  BY <1>2, <1>8 DEF UnloadIdle, histVars
<1>9. CASE TimePasses  BY <1>1, <1>9, QuietCounts DEF TimePasses, histVars, Counted
<1>10. QED  BY <1>3, <1>4, <1>5, <1>6, <1>7, <1>8, <1>9 DEF Next

\* So every count in the books has its decision, and a latched exit has two.
LEMMA LatchStep ==
  ASSUME IInv, LatchInv, [Next]_vars
  PROVE  LatchInv'
<1>1. BooksTypeOK /\ decided \in Nat  BY DEF IInv, TypeOK
<1>2. CASE CountsKept /\ decided' = decided
  BY <1>2 DEF CountsKept, LatchInv
<1>3. CASE decided' = decided + 1 /\ \E devices \in SUBSET Devices : RecordFailure(devices)
  <2>1. exiting' => exiting \/ \E d \in Devices : book[d].consecutive >= 1
    BY <1>1, <1>3, LatchNeedsACount
  <2>2. exiting' => decided >= 1  BY <1>1, <2>1 DEF LatchInv
  <2>3. decided' = decided + 1  BY <1>3
  <2>4. QED  BY <1>1, <2>2, <2>3 DEF LatchInv
<1>4. QED  BY <1>2, <1>3, CountStep DEF Counted

\* A call has an outcome only between its coming back and its return.
LEMMA OutcomeStep ==
  ASSUME TypeOK, OutcomeInv, [Next]_vars
  PROVE  OutcomeInv'
<1> USE DEF TypeOK, OutcomeInv, Judged, Go
<1>1. CASE UNCHANGED vars  BY <1>1 DEF vars, callVars
<1>2. ASSUME NEW r \in Requests, RequestNext(r)
      PROVE  OutcomeInv'
  <2>1. CASE Leave(r) \/ GiveBack(r) \/ Answer(r) \/ EvictHeld(r)
    BY <2>1 DEF Leave, GiveBack, Answer, EvictHeld, Return
  <2>2. CASE TakeSlot(r)
    BY <2>2 DEF TakeSlot, callVars
  <2>3. CASE \/ RefuseLoad(r) \/ Prepare(r) \/ LoadVerified(r) \/ LoadFault(r) \/ LoadError(r)
             \/ LoadLands(r)
    BY <2>3 DEF RefuseLoad, Prepare, LoadVerified, LoadFault, LoadError, LoadLands, callVars
  <2>4. CASE BeginLoad(r) \/ StartServing(r) \/ Forward(r) \/ EmitToken(r)
    BY <2>4 DEF BeginLoad, StartServing, Forward, EmitToken
  <2>5. CASE Armed(r) \/ JudgeToken(r)
    <3>1. /\ UNCHANGED outcome /\ pc[r] \notin Judged
          /\ \A c \in Clients \ {r} : pc'[c] = pc[c]
      BY <2>5 DEF Armed, JudgeToken, callVars
    <3>2. QED  BY <3>1
  <2>6. CASE Resume(r) \/ ServingFailed(r)
    BY <2>6 DEF Resume, ServingFailed, callVars
  <2>7. CASE \E how \in Outcomes : LoaderReturns(r, how) \/ GenerationReturns(r, how)
    BY <2>7 DEF LoaderReturns, GenerationReturns, ComesBack
  <2>8. CASE \E d \in Devices : SubmitDoomed(r, d) \/ SyncRefused(r, d) \/ MoveDoomed(r, d)
    BY <2>8 DEF SubmitDoomed, SyncRefused, MoveDoomed, callVars
  <2>9. QED
    BY <1>2, <2>1, <2>2, <2>3, <2>4, <2>5, <2>6, <2>7, <2>8 DEF RequestNext, LoadStep, ServeStep
<1>3. ASSUME NEW t \in Retrievals, RetrievalNext(t)
      PROVE  OutcomeInv'
  BY <1>3
  DEF RetrievalNext, RetrievalLoadFails, HoldSlot, ComputeDone, ComputePanics, ComesBack, Return,
      callVars
<1>4. ASSUME NEW c \in Clients, ClientNext(c)
      PROVE  OutcomeInv'
  BY <1>4
  DEF ClientNext, Arrive, RefuseArrival, Unwind, Contain, EvictElsewhere, Return, vars, callVars
<1>5. CASE \/ \E d \in Accelerators : DeviceFails(d) \/ DoomedRuns(d)
           \/ UnloadIdle \/ TimePasses
  BY <1>5 DEF DeviceFails, DoomedRuns, UnloadIdle, TimePasses, callVars
<1>6. QED  BY <1>1, <1>2, <1>3, <1>4, <1>5 DEF Next

\* Failures are raised one by one, and ordinary panics within their bound.
Tallied ==
  /\ raised' \in {raised, raised + 1}
  /\ bugs' = bugs \/ (bugs < MaxBugs /\ bugs' = bugs + 1)

\* No step does otherwise.
LEMMA RaisedGrows ==
  ASSUME [Next]_vars
  PROVE  Tallied
<1> USE DEF Raise, Charge, histVars, Tallied
<1>1. ASSUME NEW c, NEW how, ComesBack(c, how)
      PROVE  Tallied
  BY <1>1 DEF ComesBack
<1>2. ASSUME NEW r \in Requests, RequestNext(r)
      PROVE  Tallied
  BY <1>1, <1>2
  DEF RequestNext, LoadStep, ServeStep, Leave, TakeSlot, GiveBack, RefuseLoad, Prepare, BeginLoad,
      LoaderReturns, LoadVerified, LoadFault, LoadError, LoadLands, StartServing, Armed, Forward,
      JudgeToken, EmitToken, GenerationReturns, Answer, Resume, ServingFailed, EvictHeld,
      SubmitDoomed, SyncRefused, MoveDoomed
<1>3. ASSUME NEW t \in Retrievals, RetrievalNext(t)
      PROVE  Tallied
  BY <1>1, <1>3 DEF RetrievalNext, RetrievalLoadFails, HoldSlot, ComputeDone, ComputePanics
<1>4. ASSUME NEW c \in Clients, ClientNext(c)
      PROVE  raised' = raised /\ bugs' = bugs
  BY <1>4 DEF ClientNext, Arrive, RefuseArrival, Unwind, Contain, EvictElsewhere, vars
<1>5. CASE \/ \E d \in Accelerators : DeviceFails(d) \/ DoomedRuns(d)
           \/ UnloadIdle \/ TimePasses \/ UNCHANGED vars
  BY <1>5 DEF DeviceFails, DoomedRuns, UnloadIdle, TimePasses, vars
<1>6. QED  BY <1>2, <1>3, <1>4, <1>5 DEF Next

\* While no device has failed nothing can move: a charge needs a mark behind
\* the epoch, a condemned model, or cubecl's text.
LEMMA CalmStep ==
  ASSUME IInv, CalmInv, [Next]_vars
  PROVE  CalmInv'
<1> SUFFICES ASSUME raised' = 0  PROVE CalmInv'  BY DEF CalmInv
<1>0. /\ TypeOK /\ raised \in Nat
      /\ \A r \in Requests : pc[r] \in Serving => entry.stamp <= epoch /\ entry.stamp \in Nat
  BY DEF IInv, TypeOK, SafetyInv, ContentInv, StampInv, Model
<1> DEFINE Calm == /\ epoch = 0 /\ decided = 0 /\ doomed = {}
                   /\ \A c \in Clients : /\ mark[c].global = 0 /\ outer[c].global = 0
                                         /\ outcome[c] # "device_text"
<1>1. \/ raised = 0 /\ Calm
      \/ raised >= 1
  BY <1>0 DEF CalmInv
<1>2. raised = 0 /\ Calm => ~Raise /\ raised' # raised + 1
  BY DEF Raise
<1>3. CASE raised = 0 /\ Calm
  <2> USE <1>0, <1>2, <1>3 DEF TypeOK, Go, Moved
  <2>1. CASE UNCHANGED vars
    BY <2>1 DEF CalmInv, vars, booksVars, slotVars, callVars, histVars
  <2>2. ASSUME NEW c \in Clients, NEW how \in Outcomes, ComesBack(c, how)
        PROVE  /\ UNCHANGED <<epoch, decided, mark, outer>>
               /\ \A q \in Clients : outcome'[q] # "device_text"
    BY <2>2 DEF ComesBack, booksVars, histVars
  <2>3. ASSUME NEW r \in Requests, RequestNext(r)
        PROVE  CalmInv'
    <3>1. ~LoadFault(r)  BY DEF LoadFault
    <3>2. ~ServingFailed(r)
      BY DEF ServingFailed, DeviceFailed, Condemned, Serving
    <3>3. \A d \in Devices : ~SubmitDoomed(r, d) /\ ~SyncRefused(r, d) /\ ~MoveDoomed(r, d)
      BY DEF SubmitDoomed, SyncRefused, MoveDoomed
    <3>4. CASE Leave(r) \/ GiveBack(r) \/ Answer(r) \/ EvictHeld(r)
      BY <3>4 DEF Leave, GiveBack, Answer, EvictHeld, Return, NoMark, booksVars, slotVars, histVars,
                  CalmInv
    <3>5. CASE BeginLoad(r) \/ StartServing(r)
      BY <3>5 DEF BeginLoad, StartServing, Mark, booksVars, slotVars, histVars, CalmInv
    <3>6. CASE \/ TakeSlot(r) \/ RefuseLoad(r) \/ Prepare(r) \/ LoadVerified(r) \/ LoadError(r)
               \/ LoadLands(r) \/ Armed(r) \/ Forward(r) \/ JudgeToken(r) \/ EmitToken(r)
               \/ Resume(r)
      <4>1. UNCHANGED <<epoch, decided, doomed, outer, mark, outcome>>
        BY <3>6
        DEF TakeSlot, RefuseLoad, Prepare, LoadVerified, LoadError, LoadLands, LoadSucceeded, Armed,
            Forward, JudgeToken, EmitToken, GenerationSucceeded, Resume, booksVars, slotVars,
            callVars, histVars
      <4>2. QED  BY <4>1 DEF CalmInv
    <3>7. CASE \E how \in Outcomes : LoaderReturns(r, how) \/ GenerationReturns(r, how)
      BY <2>2, <3>7 DEF LoaderReturns, GenerationReturns, slotVars, CalmInv
    <3>8. QED
      BY <2>3, <3>1, <3>2, <3>3, <3>4, <3>5, <3>6, <3>7 DEF RequestNext, LoadStep, ServeStep
  <2>4. ASSUME NEW t \in Retrievals, RetrievalNext(t)
        PROVE  CalmInv'
    <3>1. CASE RetrievalLoadFails(t) \/ \E how \in Outcomes : ComputePanics(t, how)
      <4>1. "device_text" \in Outcomes  BY DEF Outcomes
      <4>2. QED  BY <2>2, <3>1, <4>1 DEF RetrievalLoadFails, ComputePanics, slotVars, CalmInv
    <3>2. CASE HoldSlot(t) \/ ComputeDone(t)
      BY <3>2 DEF HoldSlot, ComputeDone, Return, NoMark, booksVars, callVars, histVars, CalmInv
    <3>3. QED  BY <2>4, <3>1, <3>2 DEF RetrievalNext
  <2>5. ASSUME NEW c \in Clients, ClientNext(c)
        PROVE  CalmInv'
    <3>1. CASE Contain(c)
      <4>1. Return(c) /\ UNCHANGED <<epoch, decided, doomed>>
        BY <3>1 DEF Contain, booksVars, slotVars, histVars
      <4>2. QED  BY <4>1 DEF Return, NoMark, CalmInv
    <3>2. CASE Arrive(c) \/ RefuseArrival(c) \/ Unwind(c) \/ EvictElsewhere(c)
      BY <3>2 DEF Arrive, RefuseArrival, Unwind, EvictElsewhere, Return, NoMark, Mark, vars,
                  booksVars, slotVars, callVars, histVars, CalmInv
    <3>3. QED  BY <2>5, <3>1, <3>2 DEF ClientNext
  <2>6. CASE \/ \E d \in Accelerators : DeviceFails(d) \/ DoomedRuns(d)
             \/ UnloadIdle \/ TimePasses
    BY <2>6 DEF DeviceFails, DoomedRuns, UnloadIdle, TimePasses, CooldownEnds, booksVars, slotVars,
                callVars, histVars, CalmInv
  <2>7. QED  BY <2>1, <2>3, <2>4, <2>5, <2>6 DEF Next
<1>4. CASE raised >= 1
  BY <1>0, <1>4, RaisedGrows DEF CalmInv, Tallied
<1>5. QED  BY <1>1, <1>3, <1>4

\* The whole counting invariant.
CountInv ==
  /\ IInv
  /\ OutcomeInv /\ LatchInv /\ CalmInv /\ DebtInv
  /\ bugs <= MaxBugs

\* It holds at the start, when nothing has happened and nothing is owed.
LEMMA InitCount == Init => CountInv
<1> SUFFICES ASSUME Init PROVE CountInv  OBVIOUS
<1>1. IInv  BY InitIInv
<1>2. OutcomeInv  BY DEF Init, OutcomeInv
<1>3. LatchInv  BY DEF Init, BooksInit, LatchInv
<1>4. CalmInv  BY DEF Init, BooksInit, CalmInv, NoMark
<1>5. DebtInv
  <2>1. Escaping = {}  BY DEF Init, Escaping, Escapes
  <2>2. ~Seeing  BY DEF Init, Seeing, Sees, Building, Serving
  <2>3. doomed = {} /\ raised = 0 /\ decided = 0 /\ bugs = 0  BY DEF Init
  <2>4. IsFiniteSet({}) /\ Cardinality({}) = 0  BY FS_EmptySet
  <2>5. QED  BY <2>1, <2>2, <2>3, <2>4 DEF DebtInv, Debt, Paid
<1>6. bugs <= MaxBugs  BY ServingAssumption DEF Init
<1>7. QED  BY <1>1, <1>2, <1>3, <1>4, <1>5, <1>6 DEF CountInv

\* In every reachable state every decision is paid for, whatever the devices,
\* the clients, the failures and the panics.
THEOREM CountInvariance == Spec => []CountInv
<1>1. CountInv /\ [Next]_vars => CountInv'
  <2> SUFFICES ASSUME CountInv, [Next]_vars PROVE CountInv'  OBVIOUS
  <2>1. IInv'  BY TypeStep, SafetyStep, LateStep DEF CountInv, IInv, SafetyInv
  <2>2. TypeOK'  BY <2>1 DEF IInv
  <2>3. OutcomeInv'  BY OutcomeStep DEF CountInv, IInv
  <2>4. LatchInv'  BY LatchStep DEF CountInv
  <2>5. CalmInv'  BY CalmStep DEF CountInv
  <2>6. DebtInv'  BY <2>2, DebtStep DEF CountInv
  <2>7. bugs' <= MaxBugs
    BY RaisedGrows, ServingAssumption DEF Tallied, CountInv, IInv, TypeOK
  <2>8. QED  BY <2>1, <2>3, <2>4, <2>5, <2>6, <2>7 DEF CountInv
<1>2. QED  BY InitCount, <1>1, PTL DEF Spec

\* What the debts come to: the decisions themselves are within what was paid.
LEMMA DecisionsPaid ==
  ASSUME CountInv
  PROVE  decided <= Paid
<1>1. decided \in Nat /\ raised \in Nat /\ bugs \in Nat
  BY DEF CountInv, IInv, TypeOK
<1>2. Cardinality(doomed) \in Nat /\ Cardinality(Escaping) \in Nat
  BY FS_CardinalityType DEF CountInv, DebtInv
<1>3. QED  BY <1>1, <1>2 DEF CountInv, DebtInv, Debt, Paid

\* However chats and retrieval calls meet, no failure leads to more than three
\* decisions, and no ordinary panic to more than two.
THEOREM AtMostThreeDecisions == Spec => [](decided <= 3 * raised + 2 * bugs)
<1>1. CountInv => decided <= 3 * raised + 2 * bugs
  BY DecisionsPaid DEF Paid, CountInv, IInv, TypeOK
<1>2. QED  BY CountInvariance, <1>1, PTL

\* A process whose devices never failed never restarts itself, whatever panics;
\* a restart needs two decisions (record_failure and decide).
THEOREM RestartIsDecided == Spec => [](exiting => raised >= 1 /\ decided >= 2)
<1>1. CountInv => (exiting => raised >= 1 /\ decided >= 2)
  BY DEF CountInv, LatchInv, CalmInv, IInv, TypeOK
<1>2. QED  BY CountInvariance, <1>1, PTL

\* Chats alone decide no failure twice, but for the ordinary panics: one that
\* `contain` takes for a device's is decided for nothing, and condemns a model
\* whose own request then decides again.
THEOREM DecisionsAndPanics ==
  ASSUME Retrievals = {}
  PROVE  Spec => [](decided <= raised + 2 * bugs)
<1>1. CountInv => decided <= raised + 2 * bugs
  BY DecisionsPaid DEF Paid, CountInv, IInv, TypeOK
<1>2. QED  BY CountInvariance, <1>1, PTL

\* Without those every decision answers a failure of its own.  Both hypotheses
\* are needed: run two_counts refutes the property with a retrieval call.
THEOREM DecisionsHaveFailures ==
  ASSUME Retrievals = {}, MaxBugs = 0
  PROVE  Spec => []EveryDecisionHasItsFailure
<1>1. CountInv => EveryDecisionHasItsFailure
  BY DecisionsPaid DEF Paid, CountInv, IInv, TypeOK, EveryDecisionHasItsFailure
<1>2. QED  BY CountInvariance, <1>1, PTL

\* So they restart the process after two device failures at the earliest.
THEOREM RestartAfterTwo ==
  ASSUME Retrievals = {}, MaxBugs = 0
  PROVE  Spec => []RestartNeedsTwoFailures
<1>1. CountInv => RestartNeedsTwoFailures
  BY DecisionsPaid DEF Paid, CountInv, LatchInv, IInv, TypeOK, RestartNeedsTwoFailures
<1>2. QED  BY CountInvariance, <1>1, PTL
============================================================================
