-------------------------------- MODULE MCParts --------------------------------
(***************************************************************************)
(* Instances of the parts that share no state with the serving path or     *)
(* with each other, for one run of TLC: `turn` is chosen at the start, and *)
(* only the part it names moves.  A part that does not move has one        *)
(* initial state, so the run is the union of the parts' state spaces.      *)
(***************************************************************************)
EXTENDS OverlayRing, RestartBudget, PackOnDisk, ModelDownload, DiskCache,
        PlacementBudget, WorkingSet, LogRing, ThinkFilter

VARIABLES
    turn,
    recent, guard, quiet, breaches

\* One quantized level and one float level; the first values of down are its
\* first neuron's, which stays first.
TwoLevels == <<"q8", "f32">>
DownIsBlind == {"down"}

\* The bodies a branch moves over: a longer one, then a shorter.
BodySizes == <<2, 3, 2>>

\* A Pack object that two threads read, another over the same pack, and one
\* over the pack loaded next; not all ranges fit, and one never does.
PackOfReader(p) == IF p = "next" THEN "other" ELSE "model"
ReaderOfThread(t) == IF t = "t3" THEN "next" ELSE "first"
BytesOf(r) == CASE r = "small" -> 1 [] r = "large" -> 2 [] r = "huge" -> 4

\* Texts of up to three pieces, and a block at the head of an answer.
Pieces == {<<"<", "t", ">">>, <<"<", "/", ">">>, <<" ">>, <<"a">>, <<"<">>}
HeadBlock(inner, answer) ==
    FlattenSeq(<<<<" ">>, <<"<", "t", ">">>, inner, <<"<", "/", ">">>,
                 <<" ">>, answer>>)
SomeTexts ==
    {FlattenSeq(p) : p \in UNION {[1..n -> Pieces] : n \in 0..3}}
        \union {HeadBlock(p, q) : p, q \in Pieces}
SomeSymbols == {"<", "t", "/", ">", " ", "a"}
TagThink == <<"<", "t", ">">>
TagEnd == <<"<", "/", ">">>
Spaces == {" "}

Guard == INSTANCE VramGuard WITH
    Samples <- {0, 1, 2, 5}, Window <- 3, Hysteresis <- 2, Floor <- 2,
    Slack <- 1, MaxBreaches <- 1

\* Passes of three layers over three units, of one or two units each.
LayerDemands == {s \in UNION {[1..n -> 1..3] : n \in 1..2} : IsInjective(s)}
SomePasses == [1..3 -> LayerDemands] \union {<<>>}

-----------------------------------------------------------------------------
Turns == {"ring", "fetch", "disk", "cache", "think", "log", "guard",
          "budget", "work", "restart"}

\* Where a part that is not the one to move starts.
StillFetch  == fetching = "config"
StillDisk   == folded = TRUE /\ pack = TRUE
StillCache  == blocks = [r \in Ranges |-> NoBytes]
StillThink  == text = <<>> /\ trim = TRUE
StillLog    == limit = 1
StillBudget == budget = 1 /\ driver = "caller"
StillWork   == demands = <<>> /\ capacity = 1 /\ window = 0

PartsInit ==
    /\ turn \in Turns
    /\ RingInit
    /\ (turn # "fetch" => StillFetch) /\ FetchInit
    /\ (turn # "disk" => StillDisk) /\ PackInit
    /\ (turn # "cache" => StillCache) /\ CacheInit
    /\ (turn # "think" => StillThink) /\ ThinkInit
    /\ (turn # "log" => StillLog) /\ LogInit
    /\ Guard!Init
    /\ (turn # "budget" => StillBudget) /\ BudgetInit
    /\ (turn # "work" => StillWork) /\ PassInit
    /\ Init

\* The variables of each part.
guardVars == <<recent, guard, quiet, breaches>>
allVars == <<turn, ringVars, fetchVars, packVars, cacheVars, thinkVars, logVars,
             guardVars, budgetVars, passVars, vars>>

\* The other parts stay as they are.
Stay(name) ==
    /\ UNCHANGED turn
    /\ (name # "ring" => UNCHANGED ringVars)
    /\ (name # "fetch" => UNCHANGED fetchVars)
    /\ (name # "disk" => UNCHANGED packVars)
    /\ (name # "cache" => UNCHANGED cacheVars)
    /\ (name # "think" => UNCHANGED thinkVars)
    /\ (name # "log" => UNCHANGED logVars)
    /\ (name # "guard" => UNCHANGED guardVars)
    /\ (name # "budget" => UNCHANGED budgetVars)
    /\ (name # "work" => UNCHANGED passVars)
    /\ (name # "restart" => UNCHANGED vars)

PartsNext ==
    \/ turn = "ring" /\ RingNext /\ Stay("ring")
    \/ turn = "fetch" /\ FetchNext /\ Stay("fetch")
    \/ turn = "disk" /\ PackNext /\ Stay("disk")
    \/ turn = "cache" /\ CacheNext /\ Stay("cache")
    \/ turn = "think" /\ ThinkNext /\ Stay("think")
    \/ turn = "log" /\ LogNext /\ Stay("log")
    \/ turn = "guard" /\ Guard!Next /\ Stay("guard")
    \/ turn = "budget" /\ BudgetNext /\ Stay("budget")
    \/ turn = "work" /\ PassNext /\ Stay("work")
    \/ turn = "restart" /\ Next /\ Stay("restart")

\* Each part's own fairness, for the part that moves.
PartsSpec ==
    /\ PartsInit /\ [][PartsNext]_allVars
    /\ WF_ringVars(turn = "ring" /\ Prefetch)
    /\ \A c \in Consumers : WF_ringVars(turn = "ring" /\ Consume(c))
    /\ WF_fetchVars(turn = "fetch" /\ FetchStep)
    /\ \A f \in Files :
          SF_fetchVars(turn = "fetch" /\ Begin(f))
    /\ WF_packVars(turn = "disk" /\ PackStep)
    /\ WF_guardVars(/\ turn = "guard"
                    /\ \E bytes \in {0, 1, 2, 5} : Guard!Feed(bytes))
    /\ WF_vars(turn = "restart" /\ BeginExit)
    /\ WF_vars(turn = "restart" /\ ExitStep)
    /\ WF_vars(turn = "restart" /\ WatchdogFires)

-----------------------------------------------------------------------------
(* Properties: those of the parts, by name.                                *)

\* Every part's variables have their types.
PartsTypeOK ==
    /\ RingTypeOK /\ TypeOK
    /\ FetchTypeOK /\ PackTypeOK /\ CacheTypeOK /\ ThinkTypeOK
    /\ LogTypeOK /\ Guard!TypeOK /\ BudgetTypeOK /\ PassTypeOK

\* A file is not lost to a kill, but for one whose .part outgrew the body (hub.rs).
FilesArrive == turn = "fetch" => FetchedUnlessOvergrown

\* A load is served in the end, but for a torn journal (engine.rs, ensure_pack).
PacksAreServed == turn = "disk" => ServedInTheEnd

\* The guard comes down after a peak (watermark.rs).
PeaksExpire == turn = "guard" => Guard!PeaksExpire
=============================================================================
