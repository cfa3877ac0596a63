------------------------------ MODULE WorkingSet ------------------------------
(***************************************************************************)
(* The schedule of one pass over the layers of a model whose units stream  *)
(* to the device (workingset.rs, schedule): which units are pinned, which  *)
(* are staged while the layer before computes, which are evicted for them, *)
(* and which the host computes because they came too late.                 *)
(*                                                                         *)
(* A tie between two victims goes either way.  Left out: how capacity and  *)
(* the units of a compute window follow from sizes and speeds.             *)
(***************************************************************************)
EXTENDS Integers, Sequences, FiniteSets, SequencesExt

CONSTANTS
    Demands,       \* passes: sequences of layers, each a sequence of units
    Capacities,    \* Budget::capacity
    Windows        \* Budget::stageable_per_layer

\* Units are numbered; a layer lists a unit once.
ASSUME PassAssumption ==
    /\ Demands \subseteq Seq(Seq(Int))
    /\ \A d \in Demands : \A l \in DOMAIN d : IsInjective(d[l])
    /\ Capacities \subseteq Nat /\ Windows \subseteq Nat

VARIABLES
    demands, capacity, window,   \* the arguments
    pinned,      \* units that never leave
    resident,    \* units on the device
    layer,       \* the layer that computes
    staged,  \* units this layer's round brought
    wanted,      \* units of the next layer it has not looked at yet
    overflow     \* units each layer left to the host

args == <<demands, capacity, window>>
passVars == <<args, pinned, resident, layer, staged, wanted, overflow>>

UnitsOf(d) == UNION {ToSet(d[l]) : l \in DOMAIN d}
Uses(d, u) == Cardinality({l \in DOMAIN d : u \in ToSet(d[l])})

\* Mutant: the whole device may be pinned.
PinAll(c, w) == c

\* The first units of more than one use, hottest first, that leave a window's
\* room for streaming.
PinRoom(c, w) ==
    LET streaming == IF w = 0 THEN 1 ELSE w
    IN  IF c > streaming THEN c - streaming ELSE 0

Hotter(d, u, v) ==
    Uses(d, u) > Uses(d, v) \/ (Uses(d, u) = Uses(d, v) /\ u < v)
Pinned(d, c, w) ==
    {u \in UnitsOf(d) :
        /\ Uses(d, u) > 1
        /\ Cardinality({v \in UnitsOf(d) : Hotter(d, v, u)}) < PinRoom(c, w)}

PassLayers == DOMAIN demands

PassInit ==
    /\ demands \in Demands /\ capacity \in Capacities /\ window \in Windows
    /\ pinned = Pinned(demands, capacity, window)
    /\ resident = pinned
    /\ layer = 0 /\ staged = {} /\ wanted = <<>>
    /\ overflow = [l \in DOMAIN demands |-> {}]

\* A layer begins: what is not there is the host's.  Its round looks at the
\* units of the next layer.
BeginLayer ==
    /\ wanted = <<>> /\ layer < Len(demands)
    /\ layer' = layer + 1
    /\ overflow' = [overflow EXCEPT ![layer + 1] =
                       ToSet(demands[layer + 1]) \ resident]
    /\ staged' = {}
    /\ wanted' = IF layer + 2 \in PassLayers THEN demands[layer + 2] ELSE <<>>
    /\ UNCHANGED <<args, pinned, resident>>

Room == Cardinality(staged) < window
Evictable == resident \ (pinned \union staged)

\* The first layer after this one that needs u, and u's place in it.
NextUse(u) ==
    LET after == {l \in PassLayers : l > layer /\ u \in ToSet(demands[l])}
    IN  IF after = {} THEN <<Len(demands) + 1, 0>>
        ELSE LET l == CHOOSE x \in after : \A y \in after : x <= y
             IN  <<l, CHOOSE i \in DOMAIN demands[l] : demands[l][i] = u>>
Sooner(u, v) ==
    \/ NextUse(u)[1] < NextUse(v)[1]
    \/ NextUse(u)[1] = NextUse(v)[1] /\ NextUse(u)[2] < NextUse(v)[2]

\* Plan::victim: the one whose next use is furthest.
Victims == {v \in Evictable : \A u \in Evictable : ~Sooner(v, u)}

SkipUnit ==
    /\ wanted # <<>> /\ Room /\ Head(wanted) \in resident
    /\ wanted' = Tail(wanted)
    /\ UNCHANGED <<args, pinned, resident, layer, staged, overflow>>

\* Staged into room there is, or that a victim makes.
StageUnit ==
    /\ wanted # <<>> /\ Room /\ Head(wanted) \notin resident
    /\ \/ Cardinality(resident) < capacity
          /\ resident' = resident \union {Head(wanted)}
       \/ Cardinality(resident) >= capacity
          /\ \E v \in Victims :
                resident' = (resident \ {v}) \union {Head(wanted)}
    /\ staged' = staged \union {Head(wanted)}
    /\ wanted' = Tail(wanted)
    /\ UNCHANGED <<args, pinned, layer, overflow>>

\* The rest cannot land in time, or nothing may make room.
EndRound ==
    /\ wanted # <<>>
    /\ \/ ~Room
       \/ /\ Head(wanted) \notin resident
          /\ Cardinality(resident) >= capacity /\ Victims = {}
    /\ wanted' = <<>>
    /\ UNCHANGED <<args, pinned, resident, layer, staged, overflow>>

PassNext == BeginLayer \/ SkipUnit \/ StageUnit \/ EndRound

PassSpec == PassInit /\ [][PassNext]_passVars

-----------------------------------------------------------------------------
(* Properties.                                                             *)

PassTypeOK ==
    /\ demands \in Demands /\ capacity \in Capacities /\ window \in Windows
    /\ resident \subseteq UnitsOf(demands) /\ pinned \subseteq resident
    /\ Cardinality(resident) <= capacity
    /\ layer \in 0..Len(demands) /\ staged \subseteq resident
    /\ overflow \in [PassLayers -> SUBSET UnitsOf(demands)]

\* "Reserve room for streaming": when a window can stage a whole layer, only
\* the first layer is computed on the host, however small the device; the
\* pinned units and the victims' order see to it together.
StagedInTime ==
    \A l \in PassLayers \ {1} :
        (\A m \in PassLayers : Len(demands[m]) <= window) /\ window <= capacity
            => overflow[l] = {}
=============================================================================
