------------------------------ MODULE MCRunner ------------------------------
(* Instances of Runner for TLC. *)
EXTENDS Runner

CONSTANTS a, b, c, h1, h2

TwoNames == {a, b}
ThreeNames == {a, b, c}
OneHandler == {h1}
TwoHandlers == {h1, h2}
SlotSet2 == 1 .. 2
SlotSet3 == 1 .. 3
SlotSet4 == 1 .. 4
=============================================================================
