----------------------------- MODULE MCRecorder -----------------------------
(* An instance of Recorder for TLC. *)
EXTENDS Recorder, TLC

CONSTANTS a, b

TwoNames == {a, b}
TwoSlots == 1 .. 2
NameSymmetry == Permutations(TwoNames)
=============================================================================
