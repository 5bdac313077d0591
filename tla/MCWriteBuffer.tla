--------------------------- MODULE MCWriteBuffer ---------------------------
(* Instances of WriteBuffer for TLC. *)
EXTENDS WriteBuffer

CONSTANTS r1, r2, r3, p1, p2

ThreeRounds == {r1, r2, r3}
TwoProbers == {p1, p2}

\* r1 and r2 are rounds of one target in one second.
TwoKeys == {r1, r3}
SharedKey == [r \in Rounds |-> IF r = r2 THEN r1 ELSE r]
=============================================================================
