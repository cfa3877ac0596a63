-------------------------- MODULE MCModelServing --------------------------
(* Instances of ModelServing for TLC. *)
EXTENDS ModelServing

CONSTANTS gpu, host

\* A model on the card alone, and one split between the card and the host.
CardAndHost == {{gpu}, {gpu, host}}

\* The previous process left a failure of the card.
CardFailed == {{gpu}}

NoneFailed == {}
============================================================================
