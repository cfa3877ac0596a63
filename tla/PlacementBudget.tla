---------------------------- MODULE PlacementBudget ----------------------------
(***************************************************************************)
(* The controller of the device budget of a tiered model (adapt.rs,        *)
(* Controller; engine.rs, observe_placement): additive increase while      *)
(* throughput improves, a cut when an allocation failed.                   *)
(*                                                                         *)
(* A failed allocation sets ALLOC_FAILED, one flag that two readers take:  *)
(* this controller after a generation, and the guard on the card at its    *)
(* next poll (feed_guard).  The failure also costs the model its slot, and *)
(* the load that follows arms a controller that knows nothing.  A plain    *)
(* caller has neither a guard nor a load.                                  *)
(*                                                                         *)
(* Bytes are counted in grow steps.  Two throughputs differ when they are  *)
(* further apart than the deadband.  Left out: which way a budget that     *)
(* moved is reported; the caller applies it either way.                    *)
(***************************************************************************)
EXTENDS Integers

CONSTANTS
    Floor, Ceiling,  \* policy.floor_bytes, policy.ceiling_bytes
    Speeds,          \* throughputs that differ
    Drivers,         \* what drives it: "caller", "server"
    MaxFailures,     \* bound: allocations that fail
    None             \* no best, nothing failed yet

\* Policy::for_device: a floor above nothing and below the ceiling.
ASSUME BudgetAssumption ==
    /\ Floor \in Nat /\ Ceiling \in Nat /\ Floor <= Ceiling
    /\ MaxFailures \in Nat
    /\ Speeds \subseteq Nat
    /\ None \notin 0..Ceiling \union [speed : Speeds, budget : Floor..Ceiling]

VARIABLES
    driver,       \* chosen once
    budget,       \* the device budget
    best,         \* the best throughput and the budget it was measured under
    failedAt,     \* failed_at
    dwelled,      \* the budget has stood for policy.dwell
    allocFailed,  \* ALLOC_FAILED
    loaded,       \* the tiered model is in its slot
    refused,      \* history: the least budget an allocation failed under
    failures      \* allocations that failed so far

budgetVars == <<driver, budget, best, failedAt, dwelled, allocFailed, loaded, refused,
          failures>>

AtMost(a, b)  == IF a <= b THEN a ELSE b
AtLeast(a, b) == IF a >= b THEN a ELSE b

\* policy.shrink_factor is 3/4, truncated, never below the floor.
Shrunk(b) == AtLeast((3 * b) \div 4, Floor)

Served == driver = "server"

BudgetInit ==
    /\ driver \in Drivers
    /\ budget \in Floor..Ceiling
    /\ best = None /\ failedAt = None /\ dwelled = FALSE
    /\ allocFailed = FALSE /\ loaded = TRUE /\ refused = None /\ failures = 0

\* note_device_failure: the device ran out under this budget.
AllocFails ==
    /\ loaded /\ failures < MaxFailures
    /\ failures' = failures + 1
    /\ allocFailed' = TRUE
    /\ loaded' = ~Served
    /\ refused' = IF refused = None THEN budget ELSE AtMost(refused, budget)
    /\ UNCHANGED <<driver, budget, best, failedAt, dwelled>>

\* feed_guard takes the flag for the guard.
GuardTakes ==
    /\ Served /\ allocFailed
    /\ allocFailed' = FALSE
    /\ UNCHANGED <<driver, budget, best, failedAt, dwelled, loaded, refused,
                   failures>>

\* arm_placement_controller: a new controller, with the budget the planner
\* found for it.
Reload(planned) ==
    /\ ~loaded /\ loaded' = TRUE
    /\ budget' = planned
    /\ best' = None /\ failedAt' = None /\ dwelled' = FALSE
    /\ UNCHANGED <<driver, allocFailed, refused, failures>>

Dwell ==
    /\ ~dwelled /\ dwelled' = TRUE
    /\ UNCHANGED <<driver, budget, best, failedAt, allocFailed, loaded,
                   refused, failures>>

-----------------------------------------------------------------------------
(* observe, after a generation.                                            *)

\* An allocation failed: cut, whatever the dwell.  `inUse` is what the tiers
\* hold by then.
Cut(inUse) ==
    /\ loaded /\ allocFailed
    /\ LET level == AtMost(inUse, budget) IN
        /\ failedAt' = IF failedAt = None THEN level ELSE AtMost(failedAt, level)
        /\ budget' = AtMost(Shrunk(level), budget)
    /\ best' = None /\ dwelled' = FALSE /\ allocFailed' = FALSE
    /\ UNCHANGED <<driver, loaded, refused, failures>>

Improved(speed)  == best = None \/ speed > best.speed
Regressed(speed) == best # None /\ speed < best.speed /\ budget # best.budget

\* The last move was wrong: back to the budget that measured best.
GoBack(speed) ==
    /\ loaded /\ ~allocFailed /\ dwelled /\ Regressed(speed)
    /\ budget' = best.budget /\ dwelled' = FALSE
    /\ UNCHANGED <<driver, best, failedAt, allocFailed, loaded, refused, failures>>

\* Mutant: the ceiling forgets what failed.
PolicyCeiling == Ceiling

HardCeiling == IF failedAt = None THEN Ceiling ELSE AtMost(Shrunk(failedAt), Ceiling)

MayGrow(speed, pressure) ==
    (Improved(speed) \/ pressure) /\ budget + 1 <= HardCeiling

\* A step upward, or none.  `pressure`: host memory is short.
Judge(speed, pressure) ==
    /\ loaded /\ ~allocFailed /\ dwelled /\ ~Regressed(speed)
    /\ best' = IF Improved(speed) THEN [speed |-> speed, budget |-> budget] ELSE best
    /\ IF MayGrow(speed, pressure)
       THEN budget' = budget + 1 /\ dwelled' = FALSE
       ELSE UNCHANGED <<driver, budget, dwelled>>
    /\ UNCHANGED <<driver, failedAt, allocFailed, loaded, refused, failures>>

BudgetNext ==
    \/ AllocFails \/ GuardTakes \/ Dwell
    \/ \E planned \in Floor..Ceiling : Reload(planned)
    \/ \E inUse \in 0..Ceiling : Cut(inUse)
    \/ \E speed \in Speeds :
          GoBack(speed) \/ \E pressure \in BOOLEAN : Judge(speed, pressure)

BudgetSpec == BudgetInit /\ [][BudgetNext]_budgetVars

-----------------------------------------------------------------------------
(* Properties.                                                             *)

BudgetTypeOK ==
    /\ driver \in Drivers
    /\ budget \in Floor..Ceiling
    /\ best \in [speed : Speeds, budget : Floor..Ceiling] \union {None}
    /\ failedAt \in 0..Ceiling \union {None}
    /\ refused \in Floor..Ceiling \union {None}
    /\ dwelled \in BOOLEAN /\ allocFailed \in BOOLEAN /\ loaded \in BOOLEAN
    /\ failures \in 0..MaxFailures

Refused(b) == refused # None /\ b >= refused

\* "It never grows back into a budget the machine refused" (adapt.rs's test;
\* failed_at's comment), by every path: the creep upward, the way back to the
\* best, the pressure of the host.  That is the controller by itself; in the
\* server the failure is lost on it, by the load or by the guard.
AloneItNeverDoes ==
    [][~Served /\ budget' > budget => ~Refused(budget')]_budgetVars
=============================================================================
