------------------------------ MODULE Detector ------------------------------
(***************************************************************************)
(* The loss-burst marks of detect.go, in the place they are made: probeLoop *)
(* takes a round, asks CheckBurst for a verdict against the target's recent *)
(* rounds, and only then appends the round to them.                         *)
(*                                                                         *)
(* Losses are integers, so the float arithmetic is exact here: the median   *)
(* is kept doubled and the median of the deviations from it quadrupled.     *)
(***************************************************************************)
EXTENDS Integers, Sequences, FiniteSets

CONSTANTS Packets,   \* packets sent per round
          Losses,    \* the numbers of lost packets considered
          Warm,      \* 30 in the code: rounds of history before the z-score is used
          Window     \* bound: rounds of history (four hours' worth in the code)

ASSUME DetectorAssumption ==
    /\ Packets \in Nat \ {0}
    /\ Losses \subseteq 0 .. Packets
    /\ Warm \in Nat \ {0} /\ Window \in Nat

VARIABLES hist,   \* losses of the recent rounds, oldest first
          mark    \* the last verdict: its loss, whether it is a burst, whether the z-score
                  \* decided, and (history variable) the rounds it was taken against

vars == << hist, mark >>

\* The k-th smallest element of s.
Rank(s, k) ==
    LET at == CHOOSE i \in DOMAIN s :
                 /\ Cardinality({j \in DOMAIN s : s[j] < s[i]}) < k
                 /\ k =< Cardinality({j \in DOMAIN s : s[j] =< s[i]})
    IN  s[at]

\* median, doubled.
Median2(s) ==
    LET n == Len(s)
    IN  IF n = 0 THEN 0
        ELSE IF n % 2 = 1 THEN 2 * Rank(s, n \div 2 + 1)
        ELSE Rank(s, n \div 2) + Rank(s, n \div 2 + 1)

\* dev in robustZ, doubled, and their median, quadrupled.
Deviations2(s) ==
    [i \in DOMAIN s |-> IF 2 * s[i] > Median2(s) THEN 2 * s[i] - Median2(s) ELSE Median2(s) - 2 * s[i]]

Mad4(s) == Median2(Deviations2(s))

\* The distance of x from the median, quadrupled.  (Mutated form: from zero.)
Excess4_FromZero(x, s) == 4 * x
Excess4(x, s) == 4 * x - 2 * Median2(s)

\* robustZ < 0: the caller's sign for MAD = 0, but also any x below the median.
Fallback(x, s) == Mad4(s) = 0 \/ Excess4(x, s) < 0

\* 0.6745 * (x - median) / MAD >= 3.5
Outlier(x, s) == 6745 * Excess4(x, s) >= 35000 * Mad4(s)

\* CheckBurst.
ZScored(loss) == loss >= 2 /\ Len(hist) >= Warm /\ ~Fallback(loss, hist)

Burst(loss) ==
    /\ loss >= 2
    /\ IF Len(hist) < Warm THEN 100 * loss >= 25 * Packets
       ELSE IF Fallback(loss, hist) THEN 100 * loss >= 10 * Packets
       ELSE Outlier(loss, hist)

Init == hist = << >> /\ mark = [loss |-> 0, burst |-> FALSE, zscored |-> FALSE, over |-> << >>]

\* One round: the verdict, then Append.
Round(loss) ==
    /\ mark' = [loss |-> loss, burst |-> Burst(loss), zscored |-> ZScored(loss), over |-> hist]
    /\ hist' = LET h == Append(hist, loss)
               IN  IF Len(h) > Window THEN Tail(h) ELSE h

Next == \E loss \in Losses : Round(loss)

Spec == Init /\ [][Next]_vars
-----------------------------------------------------------------------------
\* The rounds of the baseline (mark.over is the history the verdict was taken
\* against) that lost fewer packets than the marked one.
Below == {i \in DOMAIN mark.over : mark.over[i] < mark.loss}

\* A mark that carries a z value as its evidence is a loss worse than more than
\* half of the target's recent rounds: degraded as the recent past may be, it is
\* its own majority that a burst is measured against.
EvidenceMeansMajority ==
    mark.burst /\ mark.zscored => 2 * Cardinality(Below) > Len(mark.over)
=============================================================================
