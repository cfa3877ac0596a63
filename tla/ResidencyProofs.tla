-------------------------- MODULE ResidencyProofs --------------------------
(***************************************************************************)
(* Theorems about Residency, for any number of requests, models, backends   *)
(* and evictions: the bar has an owner and no wrong name, and nobody's      *)
(* model is taken from under them.                                          *)
(***************************************************************************)
EXTENDS Residency, TLAPS

\* Everything the invariant adds to the types.
Safe ==
  HolderInv /\ LoadInv /\ ArrivedInv /\ WorkingPhaseIsOwned /\ NameIsNotAnothers /\ ServedModelStays

\* The places a step goes to are places.
LEMMA PlaceNames ==
  {"idle", "fitting", "looking", "queued", "joined", "joined_noted", "batched", "readying",
   "abandoned", "dropping", "resetting", "unnaming", "finishing", "retracting", "missed",
   "loading", "landed", "serving", "settling", "leaving", "failing", "forgetting", "evicting"}
    \subseteq Places
  BY DEF Places, Holding, Serving

\* A failure that is decided, or none, keeps the two flags flags.
LEMMA FailureTypes ==
  TypeOK /\ (Decided \/ UNCHANGED failureVars) => failed' \in BOOLEAN /\ exiting' \in BOOLEAN
<1> SUFFICES ASSUME TypeOK, Decided \/ UNCHANGED failureVars
             PROVE  failed' \in BOOLEAN /\ exiting' \in BOOLEAN
  OBVIOUS
<1>1. failed \in BOOLEAN /\ exiting \in BOOLEAN
  BY DEF TypeOK
<1>2. QED  BY <1>1, Zenon DEF Decided, failureVars

\* It holds at the start: nobody has arrived and nothing is resident.
LEMMA InitIInv == Init => IInv
<1> SUFFICES ASSUME Init PROVE IInv  OBVIOUS
<1>1. TypeOK
  BY PlaceNames DEF Init, TypeOK, NoEviction
<1>2. Safe
  BY ResidencyAssumption
  DEF Init, Safe, HolderInv, LoadInv, ArrivedInv, WorkingPhaseIsOwned, NameIsNotAnothers,
      ServedModelStays, Holding, Serving, Working
<1>3. QED  BY <1>1, <1>2 DEF IInv, Safe

\* Every step keeps the types.
LEMMA TypeStep == TypeOK /\ [Next]_vars => TypeOK'
<1> SUFFICES ASSUME TypeOK, [Next]_vars PROVE TypeOK'  OBVIOUS
<1>1. ASSUME NEW r \in Requests, NEW dir \in Models, Arrive(r, dir) PROVE TypeOK'
  BY <1>1, ResidencyAssumption, PlaceNames
  DEF Arrive, TypeOK, slotVars, barVars, requestVars, sessionVars, failureVars, Working
<1>2. ASSUME NEW r \in Requests, NEW b \in Backends, Fit(r, b) PROVE TypeOK'
  BY <1>2, ResidencyAssumption, PlaceNames
  DEF Fit, Go, NotePlan, TypeOK, slotVars, barVars, requestVars, sessionVars, failureVars,
      Working
<1>3. ASSUME NEW r \in Requests, FitRefused(r) PROVE TypeOK'
  BY <1>3, ResidencyAssumption, PlaceNames
  DEF FitRefused, Return, TypeOK, slotVars, barVars, requestVars, sessionVars, failureVars,
      Working
<1>4. ASSUME NEW r \in Requests, Join(r) PROVE TypeOK'
  BY <1>4, ResidencyAssumption, PlaceNames
  DEF Join, Go, TypeOK, slotVars, barVars, requestVars, sessionVars, failureVars, Working
<1>5. ASSUME NEW r \in Requests, JoinEnds(r) PROVE TypeOK'
  BY <1>5, ResidencyAssumption, PlaceNames
  DEF JoinEnds, Go, Return, TypeOK, slotVars, barVars, requestVars, sessionVars, failureVars,
      Working
<1>6. ASSUME NEW r \in Requests, HangUp(r) PROVE TypeOK'
  BY <1>6, ResidencyAssumption, PlaceNames
  DEF HangUp, Go, Return, TypeOK, slotVars, barVars, requestVars, sessionVars, failureVars,
      Working
<1>7. ASSUME NEW r \in Requests, Look(r) PROVE TypeOK'
  BY <1>7, ResidencyAssumption, PlaceNames
  DEF Look, Go, TypeOK, slotVars, barVars, requestVars, sessionVars, failureVars, Working
<1>8. ASSUME NEW r \in Requests, Forget(r) PROVE TypeOK'
  BY <1>8, ResidencyAssumption, PlaceNames
  DEF Forget, Go, Return, Without, TypeOK, slotVars, barVars, requestVars, sessionVars,
      failureVars, Working
<1>9. ASSUME NEW r \in Requests, Acquire(r) PROVE TypeOK'
  BY <1>9, ResidencyAssumption, PlaceNames
  DEF Acquire, Go, TypeOK, slotVars, barVars, requestVars, sessionVars, failureVars, Working
<1>10. ASSUME NEW r \in Requests, RefuseLoad(r) PROVE TypeOK'
  BY <1>10, ResidencyAssumption, PlaceNames
  DEF RefuseLoad, Refuse, Go, TypeOK, slotVars, barVars, requestVars, sessionVars, failureVars,
      Working
<1>11. ASSUME NEW r \in Requests, NEW b \in Backends, Replan(r, b) PROVE TypeOK'
  BY <1>11, ResidencyAssumption, PlaceNames
  DEF Replan, NotePlan, TypeOK, slotVars, barVars, requestVars, sessionVars, failureVars,
      Working
<1>12. ASSUME NEW r \in Requests, ReplanRefused(r) PROVE TypeOK'
  BY <1>12, ResidencyAssumption, PlaceNames
  DEF ReplanRefused, Refuse, Go, TypeOK, slotVars, barVars, requestVars, sessionVars,
      failureVars, Working
<1>13. ASSUME NEW r \in Requests, BeginLoad(r) PROVE TypeOK'
  BY <1>13, ResidencyAssumption, PlaceNames
  DEF BeginLoad, Go, TypeOK, slotVars, barVars, requestVars, sessionVars, failureVars, Working
<1>14. ASSUME NEW r \in Requests, LoaderReports(r) PROVE TypeOK'
  BY <1>14, ResidencyAssumption, PlaceNames
  DEF LoaderReports, TypeOK, slotVars, barVars, requestVars, sessionVars, failureVars, Working
<1>15. ASSUME NEW r \in Requests, LoadLands(r) PROVE TypeOK'
  BY <1>15, ResidencyAssumption, PlaceNames
  DEF LoadLands, Go, TypeOK, slotVars, barVars, requestVars, sessionVars, failureVars, Working
<1>16. ASSUME NEW r \in Requests, LoadFails(r) PROVE TypeOK'
  <2>1. failed' \in BOOLEAN /\ exiting' \in BOOLEAN
    BY <1>16, FailureTypes DEF LoadFails
  <2>2. QED
    BY <1>16, <2>1, ResidencyAssumption, PlaceNames
    DEF LoadFails, Go, TypeOK, slotVars, barVars, requestVars, sessionVars, failureVars, Working
<1>17. ASSUME NEW r \in Requests, StartServing(r) PROVE TypeOK'
  BY <1>17, ResidencyAssumption, PlaceNames
  DEF StartServing, Go, Current, TypeOK, slotVars, barVars, requestVars, sessionVars,
      failureVars, Working
<1>18. ASSUME NEW r \in Requests, FirstToken(r) PROVE TypeOK'
  BY <1>18, ResidencyAssumption, PlaceNames
  DEF FirstToken, Current, TypeOK, slotVars, barVars, requestVars, sessionVars, failureVars,
      Working
<1>19. ASSUME NEW r \in Requests, ServingEnds(r) PROVE TypeOK'
  <2>1. failed' \in BOOLEAN /\ exiting' \in BOOLEAN
    BY <1>19, FailureTypes DEF ServingEnds
  <2>2. QED
    BY <1>19, <2>1, ResidencyAssumption, PlaceNames
    DEF ServingEnds, Go, TypeOK, slotVars, barVars, requestVars, sessionVars, failureVars,
        Working
<1>20. ASSUME NEW r \in Requests, Settle(r) PROVE TypeOK'
  BY <1>20, ResidencyAssumption, PlaceNames
  DEF Settle, Go, Current, TypeOK, slotVars, barVars, requestVars, sessionVars, failureVars,
      Working
<1>21. ASSUME NEW r \in Requests, Leave(r) PROVE TypeOK'
  BY <1>21, ResidencyAssumption, PlaceNames
  DEF Leave, Return, TypeOK, slotVars, barVars, requestVars, sessionVars, failureVars, Working
<1>22. ASSUME NEW r \in Requests, EvictForgets(r) PROVE TypeOK'
  BY <1>22, ResidencyAssumption, PlaceNames
  DEF EvictForgets, Go, Without, TypeOK, slotVars, barVars, requestVars, sessionVars,
      failureVars, Working
<1>23. ASSUME NEW r \in Requests, EvictHeld(r) PROVE TypeOK'
  BY <1>23, ResidencyAssumption, PlaceNames
  DEF EvictHeld, Go, TypeOK, slotVars, barVars, requestVars, sessionVars, failureVars, Working
<1>24. ASSUME NEW r \in Requests, EvictRetracts(r) PROVE TypeOK'
  BY <1>24, ResidencyAssumption, PlaceNames
  DEF EvictRetracts, Return, Evicted, TypeOK, slotVars, barVars, requestVars, sessionVars,
      failureVars, Working
<1>25. ASSUME NEW r \in Requests, Batch(r) PROVE TypeOK'
  BY <1>25, ResidencyAssumption, PlaceNames
  DEF Batch, Go, TypeOK, slotVars, barVars, requestVars, sessionVars, failureVars, Working
<1>26. ASSUME NEW r \in Requests, ReadFirstToken(r) PROVE TypeOK'
  BY <1>26, ResidencyAssumption, PlaceNames
  DEF ReadFirstToken, Go, Current, TypeOK, slotVars, barVars, requestVars, sessionVars,
      failureVars, Working
<1>27. ASSUME NEW r \in Requests, Ready(r) PROVE TypeOK'
  BY <1>27, ResidencyAssumption, PlaceNames
  DEF Ready, Go, TypeOK, slotVars, barVars, requestVars, sessionVars, failureVars, Working
<1>28. ASSUME NEW r \in Requests, BatchEnds(r) PROVE TypeOK'
  BY <1>28, ResidencyAssumption, PlaceNames
  DEF BatchEnds, Go, TypeOK, slotVars, barVars, requestVars, sessionVars, failureVars, Working
<1>29. ASSUME NEW r \in Requests, BatchAbandoned(r) PROVE TypeOK'
  BY <1>29, ResidencyAssumption, PlaceNames
  DEF BatchAbandoned, Go, TypeOK, slotVars, barVars, requestVars, sessionVars, failureVars,
      Working
<1>30. ASSUME NEW r \in Requests, DropGuard(r) PROVE TypeOK'
  BY <1>30, ResidencyAssumption, PlaceNames
  DEF DropGuard, Go, Return, Current, TypeOK, slotVars, barVars, requestVars, sessionVars,
      failureVars, Working
<1>31. ASSUME NEW r \in Requests, Finish(r) PROVE TypeOK'
  BY <1>31, ResidencyAssumption, PlaceNames
  DEF Finish, Return, TypeOK, slotVars, barVars, requestVars, sessionVars, failureVars, Working
<1>32. ASSUME NEW r \in Requests, Reset(r) PROVE TypeOK'
  BY <1>32, ResidencyAssumption, PlaceNames
  DEF Reset, Go, TypeOK, slotVars, barVars, requestVars, sessionVars, failureVars, Working
<1>33. ASSUME NEW r \in Requests, Unname(r) PROVE TypeOK'
  BY <1>33, ResidencyAssumption, PlaceNames
  DEF Unname, Return, TypeOK, slotVars, barVars, requestVars, sessionVars, failureVars, Working
<1>34. ASSUME SendFirstToken PROVE TypeOK'
  BY <1>34, ResidencyAssumption, PlaceNames
  DEF SendFirstToken, TypeOK, slotVars, barVars, requestVars, sessionVars, failureVars, Working
<1>35. ASSUME SessionEnds PROVE TypeOK'
  BY <1>35, ResidencyAssumption, PlaceNames
  DEF SessionEnds, TypeOK, slotVars, barVars, requestVars, sessionVars, failureVars, Working
<1>36. ASSUME SessionFails PROVE TypeOK'
  BY <1>36, ResidencyAssumption, PlaceNames
  DEF SessionFails, Decided, TypeOK, slotVars, barVars, requestVars, sessionVars, failureVars,
      Working
<1>37. ASSUME ThreadForgets PROVE TypeOK'
  BY <1>37, ResidencyAssumption, PlaceNames
  DEF ThreadForgets, Without, TypeOK, slotVars, barVars, requestVars, sessionVars, failureVars,
      Working
<1>38. ASSUME ThreadEvicts PROVE TypeOK'
  BY <1>38, ResidencyAssumption, PlaceNames
  DEF ThreadEvicts, TypeOK, slotVars, barVars, requestVars, sessionVars, failureVars, Working
<1>39. ASSUME ThreadRetracts PROVE TypeOK'
  BY <1>39, ResidencyAssumption, PlaceNames
  DEF ThreadRetracts, Evicted, TypeOK, slotVars, barVars, requestVars, sessionVars, failureVars,
      Working
<1>40. ASSUME ClearNotes PROVE TypeOK'
  BY <1>40, ResidencyAssumption, PlaceNames
  DEF ClearNotes, Without, NoEviction, TypeOK, slotVars, barVars, requestVars, sessionVars,
      failureVars, Working
<1>41. ASSUME Retract PROVE TypeOK'
  BY <1>41, ResidencyAssumption, PlaceNames
  DEF Retract, Evicted, NoEviction, TypeOK, slotVars, barVars, requestVars, sessionVars,
      failureVars, Working
<1>42. ASSUME NEW kind \in Evictions, Clear(kind) PROVE TypeOK'
  BY <1>42, ResidencyAssumption, PlaceNames
  DEF Clear, Wanted, Decided, NoEviction, AfterFailure, TypeOK, slotVars, barVars, requestVars,
      sessionVars, failureVars, Working
<1>43. ASSUME NEW kind \in Evictions, ClearBusy(kind) PROVE TypeOK'
  BY <1>43, ResidencyAssumption, PlaceNames
  DEF ClearBusy, Decided, AfterFailure, TypeOK, slotVars, barVars, requestVars, sessionVars,
      failureVars, Working
<1>44. CASE UNCHANGED vars
  BY <1>44, ResidencyAssumption, PlaceNames
  DEF vars, TypeOK, slotVars, barVars, requestVars, sessionVars, failureVars, Working
<1>45. QED
  BY <1>1, <1>2, <1>3, <1>4, <1>5, <1>6, <1>7, <1>8, <1>9, <1>10, <1>11, <1>12, <1>13, <1>14,
     <1>15, <1>16, <1>17, <1>18, <1>19, <1>20, <1>21, <1>22, <1>23, <1>24, <1>25, <1>26, <1>27,
     <1>28, <1>29, <1>30, <1>31, <1>32, <1>33, <1>34, <1>35, <1>36, <1>37, <1>38, <1>39, <1>40,
     <1>41, <1>42, <1>43, <1>44
  DEF Next, RequestStep, ThreadStep

\* Every step keeps the rest: the slot's holder is the only one who loads,
\* and a load is the only step that gives the bar a new owner and name.
LEMMA SafeStep == TypeOK /\ Safe /\ [Next]_vars => Safe'
<1> SUFFICES ASSUME TypeOK, Safe, [Next]_vars PROVE Safe'  OBVIOUS
<1>1. ASSUME NEW r \in Requests, NEW dir \in Models, Arrive(r, dir) PROVE Safe'
  BY <1>1, ResidencyAssumption
  DEF Arrive, Safe, TypeOK, HolderInv, LoadInv, ArrivedInv, WorkingPhaseIsOwned,
      NameIsNotAnothers, ServedModelStays, Holding, Serving, Working, slotVars, barVars,
      requestVars, sessionVars
<1>2. ASSUME NEW r \in Requests, NEW b \in Backends, Fit(r, b) PROVE Safe'
  BY <1>2, ResidencyAssumption
  DEF Fit, Go, NotePlan, Safe, TypeOK, HolderInv, LoadInv, ArrivedInv, WorkingPhaseIsOwned,
      NameIsNotAnothers, ServedModelStays, Holding, Serving, Working, slotVars, barVars,
      requestVars, sessionVars
<1>3. ASSUME NEW r \in Requests, FitRefused(r) PROVE Safe'
  BY <1>3, ResidencyAssumption
  DEF FitRefused, Return, Safe, TypeOK, HolderInv, LoadInv, ArrivedInv, WorkingPhaseIsOwned,
      NameIsNotAnothers, ServedModelStays, Holding, Serving, Working, slotVars, barVars,
      requestVars, sessionVars
<1>4. ASSUME NEW r \in Requests, Join(r) PROVE Safe'
  BY <1>4, ResidencyAssumption
  DEF Join, Go, Safe, TypeOK, HolderInv, LoadInv, ArrivedInv, WorkingPhaseIsOwned,
      NameIsNotAnothers, ServedModelStays, Holding, Serving, Working, slotVars, barVars,
      requestVars, sessionVars
<1>5. ASSUME NEW r \in Requests, JoinEnds(r) PROVE Safe'
  BY <1>5, ResidencyAssumption
  DEF JoinEnds, Go, Return, Safe, TypeOK, HolderInv, LoadInv, ArrivedInv, WorkingPhaseIsOwned,
      NameIsNotAnothers, ServedModelStays, Holding, Serving, Working, slotVars, barVars,
      requestVars, sessionVars
<1>6. ASSUME NEW r \in Requests, HangUp(r) PROVE Safe'
  BY <1>6, ResidencyAssumption
  DEF HangUp, Go, Return, Safe, TypeOK, HolderInv, LoadInv, ArrivedInv, WorkingPhaseIsOwned,
      NameIsNotAnothers, ServedModelStays, Holding, Serving, Working, slotVars, barVars,
      requestVars, sessionVars
<1>7. ASSUME NEW r \in Requests, Look(r) PROVE Safe'
  BY <1>7, ResidencyAssumption
  DEF Look, Go, Safe, TypeOK, HolderInv, LoadInv, ArrivedInv, WorkingPhaseIsOwned,
      NameIsNotAnothers, ServedModelStays, Holding, Serving, Working, slotVars, barVars,
      requestVars, sessionVars
<1>8. ASSUME NEW r \in Requests, Forget(r) PROVE Safe'
  BY <1>8, ResidencyAssumption
  DEF Forget, Go, Return, Without, Safe, TypeOK, HolderInv, LoadInv, ArrivedInv,
      WorkingPhaseIsOwned, NameIsNotAnothers, ServedModelStays, Holding, Serving, Working,
      slotVars, barVars, requestVars, sessionVars
<1>9. ASSUME NEW r \in Requests, Acquire(r) PROVE Safe'
  BY <1>9, ResidencyAssumption
  DEF Acquire, Go, Safe, TypeOK, HolderInv, LoadInv, ArrivedInv, WorkingPhaseIsOwned,
      NameIsNotAnothers, ServedModelStays, Holding, Serving, Working, slotVars, barVars,
      requestVars, sessionVars
<1>10. ASSUME NEW r \in Requests, RefuseLoad(r) PROVE Safe'
  BY <1>10, ResidencyAssumption
  DEF RefuseLoad, Refuse, Go, Safe, TypeOK, HolderInv, LoadInv, ArrivedInv, WorkingPhaseIsOwned,
      NameIsNotAnothers, ServedModelStays, Holding, Serving, Working, slotVars, barVars,
      requestVars, sessionVars
<1>11. ASSUME NEW r \in Requests, NEW b \in Backends, Replan(r, b) PROVE Safe'
  BY <1>11, ResidencyAssumption
  DEF Replan, NotePlan, Safe, TypeOK, HolderInv, LoadInv, ArrivedInv, WorkingPhaseIsOwned,
      NameIsNotAnothers, ServedModelStays, Holding, Serving, Working, slotVars, barVars,
      requestVars, sessionVars
<1>12. ASSUME NEW r \in Requests, ReplanRefused(r) PROVE Safe'
  BY <1>12, ResidencyAssumption
  DEF ReplanRefused, Refuse, Go, Safe, TypeOK, HolderInv, LoadInv, ArrivedInv,
      WorkingPhaseIsOwned, NameIsNotAnothers, ServedModelStays, Holding, Serving, Working,
      slotVars, barVars, requestVars, sessionVars
<1>13. ASSUME NEW r \in Requests, BeginLoad(r) PROVE Safe'
  BY <1>13, ResidencyAssumption
  DEF BeginLoad, Go, Safe, TypeOK, HolderInv, LoadInv, ArrivedInv, WorkingPhaseIsOwned,
      NameIsNotAnothers, ServedModelStays, Holding, Serving, Working, slotVars, barVars,
      requestVars, sessionVars
<1>14. ASSUME NEW r \in Requests, LoaderReports(r) PROVE Safe'
  BY <1>14, ResidencyAssumption
  DEF LoaderReports, Safe, TypeOK, HolderInv, LoadInv, ArrivedInv, WorkingPhaseIsOwned,
      NameIsNotAnothers, ServedModelStays, Holding, Serving, Working, slotVars, barVars,
      requestVars, sessionVars
<1>15. ASSUME NEW r \in Requests, LoadLands(r) PROVE Safe'
  BY <1>15, ResidencyAssumption
  DEF LoadLands, Go, Safe, TypeOK, HolderInv, LoadInv, ArrivedInv, WorkingPhaseIsOwned,
      NameIsNotAnothers, ServedModelStays, Holding, Serving, Working, slotVars, barVars,
      requestVars, sessionVars
<1>16. ASSUME NEW r \in Requests, LoadFails(r) PROVE Safe'
  BY <1>16, ResidencyAssumption
  DEF LoadFails, Go, Decided, Safe, TypeOK, HolderInv, LoadInv, ArrivedInv, WorkingPhaseIsOwned,
      NameIsNotAnothers, ServedModelStays, Holding, Serving, Working, slotVars, barVars,
      requestVars, sessionVars
<1>17. ASSUME NEW r \in Requests, StartServing(r) PROVE Safe'
  BY <1>17, ResidencyAssumption
  DEF StartServing, Go, Current, Safe, TypeOK, HolderInv, LoadInv, ArrivedInv,
      WorkingPhaseIsOwned, NameIsNotAnothers, ServedModelStays, Holding, Serving, Working,
      slotVars, barVars, requestVars, sessionVars
<1>18. ASSUME NEW r \in Requests, FirstToken(r) PROVE Safe'
  BY <1>18, ResidencyAssumption
  DEF FirstToken, Current, Safe, TypeOK, HolderInv, LoadInv, ArrivedInv, WorkingPhaseIsOwned,
      NameIsNotAnothers, ServedModelStays, Holding, Serving, Working, slotVars, barVars,
      requestVars, sessionVars
<1>19. ASSUME NEW r \in Requests, ServingEnds(r) PROVE Safe'
  BY <1>19, ResidencyAssumption
  DEF ServingEnds, Go, Decided, Safe, TypeOK, HolderInv, LoadInv, ArrivedInv,
      WorkingPhaseIsOwned, NameIsNotAnothers, ServedModelStays, Holding, Serving, Working,
      slotVars, barVars, requestVars, sessionVars
<1>20. ASSUME NEW r \in Requests, Settle(r) PROVE Safe'
  BY <1>20, ResidencyAssumption
  DEF Settle, Go, Current, Safe, TypeOK, HolderInv, LoadInv, ArrivedInv, WorkingPhaseIsOwned,
      NameIsNotAnothers, ServedModelStays, Holding, Serving, Working, slotVars, barVars,
      requestVars, sessionVars
<1>21. ASSUME NEW r \in Requests, Leave(r) PROVE Safe'
  BY <1>21, ResidencyAssumption
  DEF Leave, Return, Safe, TypeOK, HolderInv, LoadInv, ArrivedInv, WorkingPhaseIsOwned,
      NameIsNotAnothers, ServedModelStays, Holding, Serving, Working, slotVars, barVars,
      requestVars, sessionVars
<1>22. ASSUME NEW r \in Requests, EvictForgets(r) PROVE Safe'
  BY <1>22, ResidencyAssumption
  DEF EvictForgets, Go, Without, Safe, TypeOK, HolderInv, LoadInv, ArrivedInv,
      WorkingPhaseIsOwned, NameIsNotAnothers, ServedModelStays, Holding, Serving, Working,
      slotVars, barVars, requestVars, sessionVars
<1>23. ASSUME NEW r \in Requests, EvictHeld(r) PROVE Safe'
  BY <1>23, ResidencyAssumption
  DEF EvictHeld, Go, Safe, TypeOK, HolderInv, LoadInv, ArrivedInv, WorkingPhaseIsOwned,
      NameIsNotAnothers, ServedModelStays, Holding, Serving, Working, slotVars, barVars,
      requestVars, sessionVars
<1>24. ASSUME NEW r \in Requests, EvictRetracts(r) PROVE Safe'
  BY <1>24, ResidencyAssumption
  DEF EvictRetracts, Return, Evicted, Safe, TypeOK, HolderInv, LoadInv, ArrivedInv,
      WorkingPhaseIsOwned, NameIsNotAnothers, ServedModelStays, Holding, Serving, Working,
      slotVars, barVars, requestVars, sessionVars
<1>25. ASSUME NEW r \in Requests, Batch(r) PROVE Safe'
  BY <1>25, ResidencyAssumption
  DEF Batch, Go, Safe, TypeOK, HolderInv, LoadInv, ArrivedInv, WorkingPhaseIsOwned,
      NameIsNotAnothers, ServedModelStays, Holding, Serving, Working, slotVars, barVars,
      requestVars, sessionVars
<1>26. ASSUME NEW r \in Requests, ReadFirstToken(r) PROVE Safe'
  BY <1>26, ResidencyAssumption
  DEF ReadFirstToken, Go, Current, Safe, TypeOK, HolderInv, LoadInv, ArrivedInv,
      WorkingPhaseIsOwned, NameIsNotAnothers, ServedModelStays, Holding, Serving, Working,
      slotVars, barVars, requestVars, sessionVars
<1>27. ASSUME NEW r \in Requests, Ready(r) PROVE Safe'
  BY <1>27, ResidencyAssumption
  DEF Ready, Go, Safe, TypeOK, HolderInv, LoadInv, ArrivedInv, WorkingPhaseIsOwned,
      NameIsNotAnothers, ServedModelStays, Holding, Serving, Working, slotVars, barVars,
      requestVars, sessionVars
<1>28. ASSUME NEW r \in Requests, BatchEnds(r) PROVE Safe'
  BY <1>28, ResidencyAssumption
  DEF BatchEnds, Go, Safe, TypeOK, HolderInv, LoadInv, ArrivedInv, WorkingPhaseIsOwned,
      NameIsNotAnothers, ServedModelStays, Holding, Serving, Working, slotVars, barVars,
      requestVars, sessionVars
<1>29. ASSUME NEW r \in Requests, BatchAbandoned(r) PROVE Safe'
  BY <1>29, ResidencyAssumption
  DEF BatchAbandoned, Go, Safe, TypeOK, HolderInv, LoadInv, ArrivedInv, WorkingPhaseIsOwned,
      NameIsNotAnothers, ServedModelStays, Holding, Serving, Working, slotVars, barVars,
      requestVars, sessionVars
<1>30. ASSUME NEW r \in Requests, DropGuard(r) PROVE Safe'
  BY <1>30, ResidencyAssumption
  DEF DropGuard, Go, Return, Current, Safe, TypeOK, HolderInv, LoadInv, ArrivedInv,
      WorkingPhaseIsOwned, NameIsNotAnothers, ServedModelStays, Holding, Serving, Working,
      slotVars, barVars, requestVars, sessionVars
<1>31. ASSUME NEW r \in Requests, Finish(r) PROVE Safe'
  BY <1>31, ResidencyAssumption
  DEF Finish, Return, Safe, TypeOK, HolderInv, LoadInv, ArrivedInv, WorkingPhaseIsOwned,
      NameIsNotAnothers, ServedModelStays, Holding, Serving, Working, slotVars, barVars,
      requestVars, sessionVars
<1>32. ASSUME NEW r \in Requests, Reset(r) PROVE Safe'
  BY <1>32, ResidencyAssumption
  DEF Reset, Go, Safe, TypeOK, HolderInv, LoadInv, ArrivedInv, WorkingPhaseIsOwned,
      NameIsNotAnothers, ServedModelStays, Holding, Serving, Working, slotVars, barVars,
      requestVars, sessionVars
<1>33. ASSUME NEW r \in Requests, Unname(r) PROVE Safe'
  BY <1>33, ResidencyAssumption
  DEF Unname, Return, Safe, TypeOK, HolderInv, LoadInv, ArrivedInv, WorkingPhaseIsOwned,
      NameIsNotAnothers, ServedModelStays, Holding, Serving, Working, slotVars, barVars,
      requestVars, sessionVars
<1>34. ASSUME SendFirstToken PROVE Safe'
  BY <1>34, ResidencyAssumption
  DEF SendFirstToken, Safe, TypeOK, HolderInv, LoadInv, ArrivedInv, WorkingPhaseIsOwned,
      NameIsNotAnothers, ServedModelStays, Holding, Serving, Working, slotVars, barVars,
      requestVars, sessionVars
<1>35. ASSUME SessionEnds PROVE Safe'
  BY <1>35, ResidencyAssumption
  DEF SessionEnds, Safe, TypeOK, HolderInv, LoadInv, ArrivedInv, WorkingPhaseIsOwned,
      NameIsNotAnothers, ServedModelStays, Holding, Serving, Working, slotVars, barVars,
      requestVars, sessionVars
<1>36. ASSUME SessionFails PROVE Safe'
  BY <1>36, ResidencyAssumption
  DEF SessionFails, Decided, Safe, TypeOK, HolderInv, LoadInv, ArrivedInv, WorkingPhaseIsOwned,
      NameIsNotAnothers, ServedModelStays, Holding, Serving, Working, slotVars, barVars,
      requestVars, sessionVars
<1>37. ASSUME ThreadForgets PROVE Safe'
  BY <1>37, ResidencyAssumption
  DEF ThreadForgets, Without, Safe, TypeOK, HolderInv, LoadInv, ArrivedInv, WorkingPhaseIsOwned,
      NameIsNotAnothers, ServedModelStays, Holding, Serving, Working, slotVars, barVars,
      requestVars, sessionVars
<1>38. ASSUME ThreadEvicts PROVE Safe'
  BY <1>38, ResidencyAssumption
  DEF ThreadEvicts, Safe, TypeOK, HolderInv, LoadInv, ArrivedInv, WorkingPhaseIsOwned,
      NameIsNotAnothers, ServedModelStays, Holding, Serving, Working, slotVars, barVars,
      requestVars, sessionVars
<1>39. ASSUME ThreadRetracts PROVE Safe'
  BY <1>39, ResidencyAssumption
  DEF ThreadRetracts, Evicted, Safe, TypeOK, HolderInv, LoadInv, ArrivedInv, WorkingPhaseIsOwned,
      NameIsNotAnothers, ServedModelStays, Holding, Serving, Working, slotVars, barVars,
      requestVars, sessionVars
<1>40. ASSUME ClearNotes PROVE Safe'
  BY <1>40, ResidencyAssumption
  DEF ClearNotes, Without, NoEviction, Safe, TypeOK, HolderInv, LoadInv, ArrivedInv,
      WorkingPhaseIsOwned, NameIsNotAnothers, ServedModelStays, Holding, Serving, Working,
      slotVars, barVars, requestVars, sessionVars
<1>41. ASSUME Retract PROVE Safe'
  BY <1>41, ResidencyAssumption
  DEF Retract, Evicted, NoEviction, Safe, TypeOK, HolderInv, LoadInv, ArrivedInv,
      WorkingPhaseIsOwned, NameIsNotAnothers, ServedModelStays, Holding, Serving, Working,
      slotVars, barVars, requestVars, sessionVars
<1>42. ASSUME NEW kind \in Evictions, Clear(kind) PROVE Safe'
  BY <1>42, ResidencyAssumption
  DEF Clear, Wanted, Decided, NoEviction, AfterFailure, Safe, TypeOK, HolderInv, LoadInv,
      ArrivedInv, WorkingPhaseIsOwned, NameIsNotAnothers, ServedModelStays, Holding, Serving,
      Working, slotVars, barVars, requestVars, sessionVars
<1>43. ASSUME NEW kind \in Evictions, ClearBusy(kind) PROVE Safe'
  BY <1>43, ResidencyAssumption
  DEF ClearBusy, Decided, AfterFailure, Safe, TypeOK, HolderInv, LoadInv, ArrivedInv,
      WorkingPhaseIsOwned, NameIsNotAnothers, ServedModelStays, Holding, Serving, Working,
      slotVars, barVars, requestVars, sessionVars
<1>44. CASE UNCHANGED vars
  BY <1>44, ResidencyAssumption
  DEF vars, Safe, TypeOK, HolderInv, LoadInv, ArrivedInv, WorkingPhaseIsOwned, NameIsNotAnothers,
      ServedModelStays, Holding, Serving, Working, slotVars, barVars, requestVars, sessionVars
<1>45. QED
  BY <1>1, <1>2, <1>3, <1>4, <1>5, <1>6, <1>7, <1>8, <1>9, <1>10, <1>11, <1>12, <1>13, <1>14,
     <1>15, <1>16, <1>17, <1>18, <1>19, <1>20, <1>21, <1>22, <1>23, <1>24, <1>25, <1>26, <1>27,
     <1>28, <1>29, <1>30, <1>31, <1>32, <1>33, <1>34, <1>35, <1>36, <1>37, <1>38, <1>39, <1>40,
     <1>41, <1>42, <1>43, <1>44
  DEF Next, RequestStep, ThreadStep

\* The inductive invariant holds in every reachable state.
THEOREM ResidencyInvariance == Spec => []IInv
<1>1. IInv /\ [Next]_vars => IInv'
  BY TypeStep, SafeStep DEF IInv, Safe
<1>2. QED  BY InitIInv, <1>1, PTL DEF Spec

\* Every variable keeps its type.
THEOREM ResidencyTypeCorrect == Spec => []TypeOK
  BY ResidencyInvariance, PTL DEF IInv

\* Whatever fails, hangs up or is evicted, a bar that moves has a guard that
\* will settle it.
THEOREM BarIsOwned == Spec => []WorkingPhaseIsOwned
  BY ResidencyInvariance, PTL DEF IInv

\* The bar never names another model than the one in the slot.
THEOREM BarIsNamed == Spec => []NameIsNotAnothers
  BY ResidencyInvariance, PTL DEF IInv

\* No eviction takes a model that is being served.
THEOREM ServedStays == Spec => []ServedModelStays
  BY ResidencyInvariance, PTL DEF IInv
============================================================================
