---------------------------- MODULE MCPackOnDisk ----------------------------
(* Instances of PackOnDisk for TLC. *)
EXTENDS PackOnDisk

\* One quantized level and one float level.
TwoLevels == <<"q8", "f32">>

\* The first 4096 values of down are its first neuron's: hidden is at least
\* that, and the neuron stays first.
DownIsBlind == {"down"}

NoneBlind == {}
=============================================================================
