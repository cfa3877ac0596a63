------------------------------ MODULE LayerStream ------------------------------
(***************************************************************************)
(* What a ring of slots promises its users (the head of overlay.rs and the *)
(* contract of Ring): the layers of an endless schedule, handed over one   *)
(* after the other and each of them once, with never more than Slots of    *)
(* them on the device, however deep the model is.                          *)
(***************************************************************************)
EXTENDS Integers, FiniteSets

CONSTANT Slots

VARIABLES
    begun,      \* positions whose bytes have begun to come onto the device
    handed,     \* positions handed over
    onDevice,   \* positions with bytes on the device
    stopped     \* nothing more is brought

vars == <<begun, handed, onDevice, stopped>>

Init == begun = 0 /\ handed = 0 /\ onDevice = {} /\ stopped = FALSE

\* The next position is brought while there is room for one more.
Bring ==
    /\ ~stopped /\ Cardinality(onDevice) < Slots
    /\ onDevice' = onDevice \union {begun}
    /\ begun' = begun + 1
    /\ UNCHANGED <<handed, stopped>>

\* The oldest position not handed over yet goes to whoever asked for it.
HandOver ==
    /\ handed < begun /\ handed \in onDevice
    /\ handed' = handed + 1
    /\ UNCHANGED <<begun, onDevice, stopped>>

\* Only a position that was handed over leaves the device ...
Free(p) ==
    /\ p \in onDevice /\ p < handed
    /\ onDevice' = onDevice \ {p}
    /\ UNCHANGED <<begun, handed, stopped>>

\* ... or the last one, when bringing it failed; then no other comes.
Break ==
    /\ handed < begun
    /\ onDevice' = onDevice \ {begun - 1}
    /\ stopped' = TRUE
    /\ UNCHANGED <<begun, handed>>

Stop == stopped' = TRUE /\ UNCHANGED <<begun, handed, onDevice>>

Next == Bring \/ HandOver \/ (\E p \in onDevice : Free(p)) \/ Break \/ Stop

Spec == Init /\ [][Next]_vars
=============================================================================
