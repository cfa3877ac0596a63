-------------------------- MODULE MCDecodeThread --------------------------
(* Instances of DecodeThread for TLC. *)
EXTENDS DecodeThread, TLC

CONSTANTS gpu

\* A model on one card.
OneCard == {gpu}

NoneFailed == {}

\* Requests and loads are names: any two of them may be exchanged.
Names == Permutations(Requests) \cup Permutations(LoadIds)

\* Bounds: failures or a release, not both; an outsider's failure is the only one, and
\* decided when that latches the exit; the last restart's cooldown is over before any.
FewEvents ==
  /\ releases' > 0 => raised' = 0
  /\ (\E c \in Outsiders : outside'[c] # "none") => raised' = 1
  /\ (\E c \in Outsiders : outside'[c] = "decided") => exiting'
  /\ raised' > 0 => ~coolingDown'
============================================================================
