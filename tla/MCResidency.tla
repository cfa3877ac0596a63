---------------------------- MODULE MCResidency ----------------------------
(* Instances of Residency for TLC. *)
EXTENDS Residency, TLC

CONSTANTS r1, r2, m1, m2, Card

TwoRequests == {r1, r2}
OneRequest == {r1}
BothModels == {m1, m2}
OneModel == {m1}
CardAndHost == {Card, Cpu}
HostOnly == {Cpu}
AllEvictions == {"unload", "pressure", "placement", "moved", "contained"}
UnloadOrContained == {"unload", "contained"}

Names == Permutations(TwoRequests)
============================================================================
