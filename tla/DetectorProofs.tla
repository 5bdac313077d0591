--------------------------- MODULE DetectorProofs ---------------------------
(***************************************************************************)
(* What CheckBurst makes of the rounds that Recent hands it, for any number *)
(* of packets, any warm-up and any history.                                 *)
(*                                                                         *)
(* The median a loss is compared with is one element of the history or the  *)
(* mean of its two middle elements.  Above the upper one there is nothing   *)
(* to show.  Between the two, every element is at least half their distance *)
(* from the median, so that is the least the MAD can be, and the loss would *)
(* not be three and a half of them away.                                    *)
(***************************************************************************)
EXTENDS Detector, FiniteSetTheorems, SequenceTheorems, WellFoundedInduction, NaturalsInduction, TLAPS

\* The library's well-founded order, as a set of pairs.
LessThan == {ss \in Nat \X Nat : ss[1] < ss[2]}

LEMMA LessThanWellFounded == IsWellFoundedOn(LessThan, Nat)
BY NatLessThanWellFounded, Zenon DEF OpToRel, LessThan

\* A set of natural numbers that is not empty has a least element.
LEMMA LeastNatural ==
    ASSUME NEW S \in SUBSET Nat, S # {}
    PROVE  \E m \in S : \A k \in S : m =< k
<1>1. PICK m \in S : \A k \in S : ~(<< k, m >> \in LessThan)
  BY LessThanWellFounded, WFMin
<1>2. \A k \in S : ~(k < m)
  BY <1>1 DEF LessThan
<1> QED
  BY <1>2

\* The elements of s that are v at most, and those below v.
Upto(s, v) == {j \in DOMAIN s : s[j] =< v}
Under(s, v) == {j \in DOMAIN s : s[j] < v}

\* 1 to n are n numbers.
LEMMA IntervalSize ==
    ASSUME NEW n \in Nat
    PROVE  IsFiniteSet(1 .. n) /\ Cardinality(1 .. n) = n
<1>1. Cardinality(1 .. n) = IF 1 > n THEN 0 ELSE n - 1 + 1
  BY FS_Interval
<1> QED
  BY <1>1, FS_Interval

\* There are at most as many of them as s has elements.
LEMMA CountFacts ==
    ASSUME NEW B \in Nat, NEW s \in Seq(0 .. B), NEW v
    PROVE  /\ IsFiniteSet(Upto(s, v)) /\ Cardinality(Upto(s, v)) \in 0 .. Len(s)
           /\ IsFiniteSet(Under(s, v)) /\ Cardinality(Under(s, v)) \in 0 .. Len(s)
<1>1. Len(s) \in Nat /\ DOMAIN s = 1 .. Len(s)
  OBVIOUS
<1>2. IsFiniteSet(1 .. Len(s)) /\ Cardinality(1 .. Len(s)) = Len(s)
  BY <1>1, IntervalSize
<1>3. ASSUME NEW T \in SUBSET (1 .. Len(s))
      PROVE  IsFiniteSet(T) /\ Cardinality(T) \in 0 .. Len(s)
  <2>1. IsFiniteSet(T) /\ Cardinality(T) =< Len(s)
    BY <1>2, FS_Subset
  <2>2. Cardinality(T) \in Nat
    BY <2>1, FS_CardinalityType
  <2> QED
    BY <1>1, <2>1, <2>2
<1>4. Upto(s, v) \subseteq 1 .. Len(s) /\ Under(s, v) \subseteq 1 .. Len(s)
  BY <1>1 DEF Upto, Under
<1> QED
  BY <1>3, <1>4

\* More elements, a greater count.
LEMMA CountLess ==
    ASSUME NEW S, NEW T, IsFiniteSet(T), S \subseteq T
    PROVE  Cardinality(S) =< Cardinality(T)
BY FS_Subset

\* There is a k-th smallest: the least value that k elements do not exceed.
LEMMA RankFacts ==
    ASSUME NEW B \in Nat, NEW s \in Seq(0 .. B), NEW k \in 1 .. Len(s)
    PROVE  /\ \E i \in DOMAIN s : Rank(s, k) = s[i]
           /\ Rank(s, k) \in 0 .. B
           /\ Cardinality(Under(s, Rank(s, k))) < k
           /\ k =< Cardinality(Upto(s, Rank(s, k)))
<1> DEFINE Enough == {v \in Nat : k =< Cardinality(Upto(s, v))}
           P(i) == /\ Cardinality({j \in DOMAIN s : s[j] < s[i]}) < k
                   /\ k =< Cardinality({j \in DOMAIN s : s[j] =< s[i]})
           at == CHOOSE i \in DOMAIN s : P(i)
<1>1. Len(s) \in Nat /\ DOMAIN s = 1 .. Len(s) /\ \A j \in DOMAIN s : s[j] \in 0 .. B
  OBVIOUS
<1>2. B \in Enough
  <2>1. Upto(s, B) = 1 .. Len(s)
    BY <1>1 DEF Upto
  <2>2. Cardinality(Upto(s, B)) = Len(s)
    BY <1>1, <2>1, IntervalSize
  <2> QED
    BY <2>2
<1>3. PICK v \in Enough : \A w \in Enough : v =< w
  <2>1. Enough \in SUBSET Nat /\ Enough # {}
    BY <1>2
  <2> HIDE DEF Enough
  <2> QED
    BY <2>1, LeastNatural
<1>4. v \in Nat /\ k =< Cardinality(Upto(s, v))
  OBVIOUS
<1>5. Cardinality(Under(s, v)) < k
  <2>1. CASE v = 0
    <3>1. Under(s, v) = {}
      BY <1>1, <2>1 DEF Under
    <3> QED
      BY <3>1, FS_EmptySet
  <2>2. CASE v # 0
    <3>1. v - 1 \in Nat /\ v - 1 < v
      BY <1>4, <2>2
    <3>2. v - 1 \notin Enough
      BY <1>3, <3>1
    <3>3. Under(s, v) = Upto(s, v - 1)
      BY <1>1, <1>4 DEF Under, Upto
    <3>4. Cardinality(Upto(s, v - 1)) \in Nat
      BY CountFacts
    <3> QED
      BY <3>1, <3>2, <3>3, <3>4
  <2> QED
    BY <2>1, <2>2
<1> HIDE DEF Enough
<1>6. PICK i \in DOMAIN s : s[i] = v
  <2> SUFFICES ASSUME \A j \in DOMAIN s : s[j] # v
               PROVE  FALSE
    OBVIOUS
  <2>1. Upto(s, v) = Under(s, v)
    BY <1>1, <1>4 DEF Upto, Under
  <2>2. Cardinality(Under(s, v)) \in Nat
    BY CountFacts
  <2> QED
    BY <1>4, <1>5, <2>1, <2>2
<1>7. \A j \in DOMAIN s : P(j) <=> Cardinality(Under(s, s[j])) < k /\ k =< Cardinality(Upto(s, s[j]))
  BY DEF Under, Upto
<1>8. Rank(s, k) = s[at]
  BY DEF Rank
<1> HIDE DEF P
<1>9. P(i)
  BY <1>4, <1>5, <1>6, <1>7
<1>10. at \in DOMAIN s /\ P(at)
  BY <1>9
<1> HIDE DEF at
<1> QED
  BY <1>1, <1>7, <1>8, <1>10

\* The two ranks a median is made of.
LEMMA MedianRanks ==
    ASSUME NEW B \in Nat, NEW s \in Seq(0 .. B), Len(s) # 0
    PROVE  \E k, l \in 1 .. Len(s) : /\ Median2(s) = Rank(s, k) + Rank(s, l)
                                     /\ 2 * l > Len(s)
                                     /\ k = l \/ (l = k + 1 /\ 2 * k = Len(s))
<1> DEFINE n == Len(s)
<1>1. n \in Nat \ {0}
  OBVIOUS
<1>2. Median2(s) = IF n = 0 THEN 0
                     ELSE IF n % 2 = 1 THEN 2 * Rank(s, n \div 2 + 1)
                     ELSE Rank(s, n \div 2) + Rank(s, n \div 2 + 1)
  BY Zenon DEF Median2
<1> HIDE DEF n
<1> DEFINE h == n \div 2
<1>3. /\ h \in Nat /\ n = 2 * h + (n % 2) /\ n % 2 \in {0, 1}
  BY <1>1
<1>4. h = n \div 2
  OBVIOUS
<1> HIDE DEF h
<1>5. CASE n % 2 = 1
  <2>1. h + 1 \in 1 .. n /\ 2 * (h + 1) > n
    BY <1>3, <1>5
  <2>2. Rank(s, h + 1) \in 0 .. B
    BY <2>1, RankFacts DEF n
  <2>3. Median2(s) = Rank(s, h + 1) + Rank(s, h + 1)
    BY <1>1, <1>2, <1>4, <1>5, <2>2
  <2> QED
    BY <2>1, <2>3 DEF n
<1>6. CASE n % 2 = 0
  <2>1. h \in 1 .. n /\ h + 1 \in 1 .. n /\ 2 * (h + 1) > n /\ 2 * h = n
    BY <1>1, <1>3, <1>6
  <2>2. Median2(s) = Rank(s, h) + Rank(s, h + 1)
    BY <1>1, <1>2, <1>4, <1>6
  <2> QED
    BY <2>1, <2>2 DEF n
<1> QED
  BY <1>3, <1>5, <1>6

\* A median is no less than what every element is no less than, twice.
LEMMA MedianBounds ==
    ASSUME NEW B \in Nat, NEW s \in Seq(0 .. B), NEW c \in Int, \A i \in DOMAIN s : s[i] >= c
    PROVE  Median2(s) \in 0 .. 2 * B /\ (Len(s) # 0 => Median2(s) >= 2 * c)
<1>1. CASE Len(s) = 0
  <2>1. Median2(s) = 0
    BY <1>1, Zenon DEF Median2
  <2> QED
    BY <1>1, <2>1
<1>2. CASE Len(s) # 0
  <2>1. PICK k, l \in 1 .. Len(s) : Median2(s) = Rank(s, k) + Rank(s, l)
    BY <1>2, MedianRanks
  <2> DEFINE a == Rank(s, k)
             b == Rank(s, l)
  <2>2. a \in 0 .. B /\ b \in 0 .. B /\ a >= c /\ b >= c
    BY RankFacts
  <2>3. Median2(s) = a + b
    BY <2>1
  <2> HIDE DEF a, b
  <2> QED
    BY <2>2, <2>3
<1> QED
  BY <1>1, <1>2

\* An element's deviation, doubled, is its distance from the median on either side.
LEMMA DeviationFacts ==
    ASSUME NEW B \in Nat, NEW s \in Seq(0 .. B)
    PROVE  /\ Deviations2(s) \in Seq(0 .. 2 * B) /\ Len(Deviations2(s)) = Len(s)
           /\ Mad4(s) \in Nat
           /\ \A i \in DOMAIN s : /\ Deviations2(s)[i] >= 2 * s[i] - Median2(s)
                                  /\ Deviations2(s)[i] >= Median2(s) - 2 * s[i]
<1> DEFINE m == Median2(s)
           d == Deviations2(s)
           e == [i \in DOMAIN s |-> IF 2 * s[i] > m THEN 2 * s[i] - m ELSE m - 2 * s[i]]
<1>1. m \in 0 .. 2 * B
  <2>1. \A i \in DOMAIN s : s[i] >= 0
    OBVIOUS
  <2> QED
    BY <2>1, MedianBounds
<1>2. d = e
  BY Zenon DEF Deviations2
<1>3. Len(s) \in Nat /\ DOMAIN s = 1 .. Len(s) /\ \A i \in DOMAIN s : s[i] \in 0 .. B
  OBVIOUS
<1> HIDE DEF m, d
<1>4. /\ e \in [1 .. Len(s) -> 0 .. 2 * B]
      /\ \A i \in DOMAIN s : e[i] >= 2 * s[i] - m /\ e[i] >= m - 2 * s[i]
  BY <1>1, <1>3
<1> HIDE DEF e
<1>5. e \in Seq(0 .. 2 * B) /\ Len(e) = Len(s)
  <2> DEFINE S == 0 .. 2 * B
  <2>1. e \in [1 .. Len(s) -> S]
    BY <1>4
  <2> HIDE DEF S
  <2>2. e \in Seq(S) /\ Len(e) = Len(s)
    BY <1>3, <2>1
  <2> QED
    BY <2>2 DEF S
<1>6. Median2(e) \in 0 .. 2 * (2 * B)
  <2>1. 2 * B \in Nat /\ \A i \in DOMAIN e : e[i] >= 0
    BY <1>3, <1>4, <1>5
  <2> QED
    BY <1>5, <2>1, MedianBounds
<1>7. Mad4(s) = Median2(e)
  BY <1>2, Zenon DEF Mad4, d
<1> QED
  BY <1>2, <1>4, <1>5, <1>6, <1>7 DEF m, d

\* What the z-score calls an outlier lies above more than half of the rounds.
LEMMA OutliersAreMajority ==
    ASSUME NEW B \in Nat, NEW s \in Seq(0 .. B), NEW x \in Nat,
           Len(s) # 0, ~Fallback(x, s), Outlier(x, s)
    PROVE  2 * Cardinality(Under(s, x)) > Len(s)
<1> DEFINE n == Len(s)
           M == Mad4(s)
           E == Excess4(x, s)
<1>1. PICK k, l \in 1 .. Len(s) : /\ Median2(s) = Rank(s, k) + Rank(s, l)
                                  /\ 2 * l > Len(s)
                                  /\ k = l \/ (l = k + 1 /\ 2 * k = Len(s))
  BY MedianRanks
<1> DEFINE a == Rank(s, k)
           b == Rank(s, l)
<1>2. /\ a \in 0 .. B /\ b \in 0 .. B /\ k \in 1 .. n /\ l \in 1 .. n /\ n \in Nat
      /\ k =< Cardinality(Upto(s, a)) /\ l =< Cardinality(Upto(s, b))
      /\ Cardinality(Under(s, b)) < l
  BY RankFacts
<1>3. E = 4 * x - 2 * (a + b)
  <2>1. E = 4 * x - 2 * Median2(s)
    BY Zenon DEF Excess4
  <2> QED
    BY <1>1, <2>1, Zenon
<1>4. E > M /\ M >= 1
  <2>1. M \in Nat
    BY DeviationFacts
  <2>2. ~(M = 0 \/ E < 0) /\ 6745 * E >= 35000 * M
    BY DEF Fallback, Outlier
  <2>3. E \in Int
    BY <1>2, <1>3
  <2> HIDE DEF E, M
  <2> QED
    BY <2>1, <2>2, <2>3
<1>5. \A j \in DOMAIN s : s[j] \in 0 .. B
  OBVIOUS
<1>6. M \in Nat /\ (n # 0)
  BY DeviationFacts
<1>7. /\ Cardinality(Under(s, x)) \in Nat /\ IsFiniteSet(Under(s, x))
      /\ Cardinality(Upto(s, b)) \in Nat /\ Cardinality(Upto(s, a)) \in Nat
      /\ IsFiniteSet(Under(s, b)) /\ Cardinality(Under(s, b)) \in Nat /\ IsFiniteSet(Upto(s, a))
  BY CountFacts
<1>8. 2 * l > n /\ (k = l \/ (l = k + 1 /\ 2 * k = n))
  BY <1>1
<1>9. Median2(s) = a + b
  BY <1>1
<1>10. k = l => a = b
  OBVIOUS
<1> HIDE DEF n, E, a, b
<1>11. CASE b < x
  <2>1. Upto(s, b) \subseteq Under(s, x)
    BY <1>2, <1>5, <1>11 DEF Upto, Under
  <2>2. Cardinality(Upto(s, b)) =< Cardinality(Under(s, x))
    BY <1>7, <2>1, CountLess
  <2> QED
    BY <1>2, <1>7, <1>8, <2>2 DEF n
<1>12. CASE x =< b
  <2>1. l = k + 1
    <3>1. k # l
      BY <1>2, <1>3, <1>4, <1>6, <1>10, <1>12
    <3> QED
      BY <1>8, <3>1
  \* Nothing lies between the two middle elements.
  <2>2. ASSUME NEW j \in DOMAIN s, a < s[j], s[j] < b
        PROVE  FALSE
    <3>1. Upto(s, a) \cup {j} \subseteq Under(s, b) /\ j \notin Upto(s, a)
      BY <1>2, <1>5, <2>2 DEF Upto, Under
    <3>2. Cardinality(Upto(s, a) \cup {j}) = Cardinality(Upto(s, a)) + 1
      BY <1>7, <3>1, FS_AddElement
    <3>3. Cardinality(Upto(s, a) \cup {j}) =< Cardinality(Under(s, b))
      BY <1>7, <3>1, CountLess
    <3> QED
      BY <1>2, <1>7, <2>1, <3>2, <3>3
  <2> DEFINE d == Deviations2(s)
  <2>3. /\ d \in Seq(0 .. 2 * B) /\ Len(d) = n
        /\ \A i \in DOMAIN s : d[i] >= 2 * s[i] - (a + b) /\ d[i] >= (a + b) - 2 * s[i]
    <3>1. /\ d \in Seq(0 .. 2 * B) /\ Len(d) = Len(s)
          /\ \A i \in DOMAIN s : d[i] >= 2 * s[i] - Median2(s) /\ d[i] >= Median2(s) - 2 * s[i]
      BY DeviationFacts
    <3> QED
      BY <1>9, <3>1 DEF n
  <2>4. M = Median2(d)
    BY Zenon DEF Mad4
  <2> HIDE DEF d, M
  <2>5. \A i \in DOMAIN d : d[i] \in 0 .. 2 * B
    BY <2>3
  <2>6. DOMAIN d = DOMAIN s
    BY <2>3 DEF n
  <2>7. ASSUME NEW i \in DOMAIN d
        PROVE  d[i] >= b - a
    <3>1. s[i] =< a \/ s[i] >= b
      <4>1. i \in DOMAIN s /\ s[i] \in 0 .. B
        BY <1>5, <2>6
      <4>2. ~(a < s[i] /\ s[i] < b)
        BY <2>2, <4>1
      <4> QED
        BY <1>2, <4>1, <4>2
    <3>2. s[i] \in 0 .. B /\ d[i] \in 0 .. 2 * B
      BY <1>5, <2>5, <2>6
    <3>3. d[i] >= 2 * s[i] - (a + b) /\ d[i] >= (a + b) - 2 * s[i]
      BY <2>3, <2>6
    <3> DEFINE p == s[i]
               q == d[i]
    <3>4. /\ p =< a \/ p >= b
          /\ p \in 0 .. B /\ q \in 0 .. 2 * B
          /\ q >= 2 * p - (a + b) /\ q >= (a + b) - 2 * p
      BY <3>1, <3>2, <3>3
    <3> HIDE DEF p, q
    <3>5. q >= b - a
      BY <1>2, <3>4
    <3> QED
      BY <3>5 DEF q
  <2>8. Median2(d) >= 2 * (b - a)
    <3>1. 2 * B \in Nat /\ b - a \in Int /\ Len(d) # 0
      BY <1>2, <1>6, <2>3
    <3> QED
      BY <2>3, <2>7, <3>1, MedianBounds
  <2> QED
    BY <1>2, <1>3, <1>4, <1>6, <1>12, <2>4, <2>8
<1> QED
  BY <1>2, <1>11, <1>12

\* The detector's history is one of losses, and its last mark is as promised.
HInv ==
    /\ hist \in Seq(0 .. Packets)
    /\ mark.burst /\ mark.zscored => 2 * Cardinality(Below) > Len(mark.over)

\* detect.go:20-39 CheckBurst, for any number of packets, any warm-up and any history: a
\* mark that carries a z value is a loss worse than more than half of the rounds it was
\* measured against.
THEOREM MarksAreMajority == Spec => []EvidenceMeansMajority
<1>1. Init => HInv
  BY DEF Init, HInv
<1>2. HInv /\ [Next]_vars => HInv'
  <2> SUFFICES ASSUME HInv, Next PROVE HInv'
    BY DEF HInv, vars, Below
  <2>1. PICK loss \in Losses : Round(loss)
    BY DEF Next
  <2>2. loss \in 0 .. Packets /\ Packets \in Nat
    BY DetectorAssumption
  <2>3. hist \in Seq(0 .. Packets)
    BY DEF HInv
  <2> DEFINE h == Append(hist, loss)
  <2>4. h \in Seq(0 .. Packets) /\ Tail(h) \in Seq(0 .. Packets)
    <3> DEFINE S == 0 .. Packets
    <3>1. hist \in Seq(S) /\ loss \in S
      BY <2>2, <2>3
    <3> HIDE DEF S
    <3>2. h \in Seq(S) /\ h # << >>
      <4>1. h \in Seq(S) /\ Len(h) = Len(hist) + 1 /\ Len(hist) \in Nat
        BY <3>1
      <4> QED
        BY <4>1
    <3> HIDE DEF h
    <3>3. Tail(h) \in Seq(S)
      BY <3>2
    <3> QED
      BY <3>2, <3>3 DEF S
  <2>5. hist' = IF Len(h) > Window THEN Tail(h) ELSE h
    BY <2>1 DEF Round
  <2> HIDE DEF h
  <2>6. hist' \in Seq(0 .. Packets)
    BY <2>4, <2>5
  <2> DEFINE u == Burst(loss)
             z == ZScored(loss)
  <2>7. mark' = [loss |-> loss, burst |-> u, zscored |-> z, over |-> hist]
    BY <2>1 DEF Round
  <2> HIDE DEF u, z
  <2>8. mark'.loss = loss /\ mark'.burst = u /\ mark'.zscored = z /\ mark'.over = hist
    BY <2>7
  <2>9. Below' = Under(hist, loss)
    BY <2>8 DEF Below, Under
  <2>10. ASSUME u, z
         PROVE  2 * Cardinality(Under(hist, loss)) > Len(hist)
    <3>1. Len(hist) >= Warm /\ ~Fallback(loss, hist)
      BY <2>10 DEF z, ZScored
    <3>2. ~(Len(hist) < Warm) /\ Len(hist) # 0
      BY <2>3, <3>1, DetectorAssumption
    <3>3. Outlier(loss, hist)
      BY <2>10, <3>1, <3>2 DEF u, Burst
    <3> QED
      BY <2>2, <2>3, <3>1, <3>2, <3>3, OutliersAreMajority
  <2> QED
    BY <2>6, <2>8, <2>9, <2>10 DEF HInv
<1>3. HInv => EvidenceMeansMajority
  BY DEF HInv, EvidenceMeansMajority
<1> QED
  BY <1>1, <1>2, <1>3, PTL DEF Spec
=============================================================================
