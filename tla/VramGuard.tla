------------------------------- MODULE VramGuard -------------------------------
(***************************************************************************)
(* The guard on the card's memory (watermark.rs with a window, as          *)
(* placement.rs's guard configures it; feed_guard): how much is left to    *)
(* other processes.  It rises with the first sample that asks for it and   *)
(* falls after a quiet spell; an allocation that failed under it raises it *)
(* for good.                                                               *)
(*                                                                         *)
(* Bytes are small integers; alpha is so small that the window's quantile  *)
(* is its maximum.  Left out: polls closer together than GUARD_PERIOD,     *)
(* which read the guard and change nothing.                                *)
(***************************************************************************)
EXTENDS Integers, Sequences, SequencesExt

CONSTANTS
    Samples,      \* ambient bytes a poll may see
    Window,       \* cfg.window
    Hysteresis,   \* cfg.hysteresis_window
    Floor, Slack, \* cfg.floor_bytes, cfg.frag_slack_bytes
    MaxBreaches   \* bound: allocations that fail

VARIABLES
    recent,    \* the last Window samples
    guard,     \* the published guard
    quiet,     \* quiet samples counted
    breaches   \* allocation failures reported

vars == <<recent, guard, quiet, breaches>>

AtLeast(a, b) == IF a >= b THEN a ELSE b
Highest(s) == CHOOSE x \in ToSet(s) : \A y \in ToSet(s) : x >= y

\* BREACH_BOOST is 1.5; a guard rounds up.
Boosted(x, n) == (x * 3 ^ n + 2 ^ n - 1) \div 2 ^ n

\* settle_target, over a window whose highest sample is `top`.
Settled(top, n) == AtLeast(Boosted(top, n) + Slack, Floor)
\* Mutant: the guard that is published counts as a sample.
SettleAtTheGuard(s, n) == AtLeast(Settled(Highest(s), n), guard)

SettleTarget(s, n) == Settled(Highest(s), n)

Init ==
    /\ recent = <<>> /\ quiet = 0 /\ breaches = 0
    /\ guard = AtLeast(Floor, Slack)

Push(s, x) == Append(IF Len(s) = Window THEN Tail(s) ELSE s, x)

\* observe_ambient: up at once, down after a full spell of quiet.
Observed(bytes) ==
    LET target == SettleTarget(Push(recent, bytes), breaches)
        up     == AtLeast(target, bytes + Slack) IN
    CASE up > guard -> [guard |-> up, quiet |-> 0]
      [] up <= guard /\ bytes >= guard -> [guard |-> guard, quiet |-> 0]
      [] up <= guard /\ bytes < guard /\ quiet + 1 < Hysteresis ->
            [guard |-> guard, quiet |-> quiet + 1]
      [] OTHER -> [guard |-> target, quiet |-> 0]

\* breach: what the guard allowed did not fit after all.
Breached(g, s) ==
    AtLeast(AtLeast(g, SettleTarget(s, breaches + 1)), Boosted(g, 1))

Feed(bytes) ==
    /\ recent' = Push(recent, bytes)
    /\ guard' = Observed(bytes).guard
    /\ quiet' = Observed(bytes).quiet
    /\ UNCHANGED breaches

\* The same poll finds ALLOC_FAILED set, and takes it.
FeedAndBreach(bytes) ==
    /\ breaches < MaxBreaches
    /\ recent' = Push(recent, bytes)
    /\ guard' = Breached(Observed(bytes).guard, recent')
    /\ quiet' = 0
    /\ breaches' = breaches + 1

Next == \E bytes \in Samples : Feed(bytes) \/ FeedAndBreach(bytes)

Spec == Init /\ [][Next]_vars

\* The polls go on.
FairSpec == Spec /\ WF_vars(\E bytes \in Samples : Feed(bytes))

-----------------------------------------------------------------------------
(* Properties.                                                             *)

TypeOK ==
    /\ recent \in UNION {[1..n -> Samples] : n \in 0..Window}
    /\ guard \in Nat /\ guard >= Floor
    /\ quiet \in 0..Hysteresis - 1 /\ breaches \in 0..MaxBreaches

\* What a co-tenant took for a while is ours again: once no sample exceeds x,
\* the guard comes down to what x asks for, though rises, the window and the
\* quiet spells overlap; a breach's boost is all that stays.
PeaksExpire ==
    \A x \in Samples :
        <>[](recent # <<>> /\ Last(recent) <= x)
            => <>[](guard <= Settled(x, breaches))
=============================================================================
