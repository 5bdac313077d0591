---------------------------- MODULE RollupProofs ----------------------------
(***************************************************************************)
(* What a recompute may lose, for every bucket length, retention span and   *)
(* schedule of ticks, stops, faults and late rounds: only rounds the cut of *)
(* a clock-change night deleted too early, and nothing at all if retention  *)
(* cuts at now - HOT (Skew = 0).                                            *)
(***************************************************************************)
EXTENDS Rollup, TLAPS

\* What the retention cut has left alone: the core of the argument.
RawAboveCut == \A t \in probed : t >= cut => t \in raw

CutBehindHorizon == cut =< now - HOT + Skew /\ now >= Begin

\* What Rollup has read and not written yet covers, of every bucket it will
\* replace, all the rounds the stored bucket covers and the cut has left.
CutAway(t) == Horizon =< Floor(t) /\ t < cut

OutCovers ==
    \A u \in out : \A t \in hourly : Hour(t) = Hour(u) => t \in out \/ CutAway(t)

IInv == TypeOK /\ RawAboveCut /\ CutBehindHorizon /\ OutCovers

\* The start of a recompute is a bucket boundary that is not before the horizon.
LEMMA FloorFacts ==
    ASSUME NEW t \in Nat
    PROVE  /\ Hour(t) \in Nat /\ Floor(t) \in Nat
           /\ Floor(t) =< t /\ t < Floor(t) + B
BY RollupAssumption DEF Hour, Floor

LEMMA TimesMonotone ==
    ASSUME NEW x \in Nat, NEW y \in Nat, NEW b \in Nat, x =< y
    PROVE  x * b =< y * b
<1> DEFINE d == y - x
<1>1. d \in Nat /\ y = x + d
  OBVIOUS
<1>2. y * b = x * b + d * b
  BY <1>1
<1>3. d * b \in Nat /\ x * b \in Nat
  BY <1>1
<1> QED
  BY <1>2, <1>3

LEMMA BoundarySplits ==
    ASSUME NEW k \in Nat, NEW t \in Nat, NEW u \in Nat,
           u >= k * B, Hour(t) = Hour(u)
    PROVE  t >= k * B
<1> DEFINE q == Hour(u)
<1>1. q \in Nat /\ q * B \in Nat /\ u < q * B + B /\ q * B =< t
  BY FloorFacts DEF Floor, Hour
<1>2. k =< q
  <2> SUFFICES ASSUME q + 1 =< k PROVE FALSE
    BY <1>1
  <2>1. (q + 1) * B =< k * B
    BY TimesMonotone, <1>1, RollupAssumption
  <2>2. (q + 1) * B = q * B + B
    BY <1>1, RollupAssumption
  <2> QED
    BY <2>1, <2>2, <1>1, RollupAssumption
<1>3. k * B =< q * B
  BY <1>1, <1>2, TimesMonotone, RollupAssumption
<1> QED
  BY <1>1, <1>3, RollupAssumption

\* Rollup's start is a bucket boundary, and not older than the horizon.
LEMMA StartFacts ==
    ASSUME IInv
    PROVE  /\ Start \in Nat /\ Start >= Horizon
           /\ \E k \in Nat : Start = k * B
<1>1. /\ B \in Nat \ {0} /\ HOT \in Nat \ {0} /\ KEEP \in Nat /\ Skew \in Nat
      /\ now \in Nat /\ now >= HOT + KEEP + Skew + 2 * B
  BY RollupAssumption DEF IInv, TypeOK, CutBehindHorizon, Begin
<1>2. Horizon \in Nat /\ Since \in Nat
  BY <1>1 DEF Horizon, Since
<1>3. Floor(Since) \in Nat /\ \E k \in Nat : Floor(Since) = k * B
  BY <1>2, FloorFacts DEF Floor, Hour
<1>4. /\ Ceil(Horizon) \in Nat /\ Ceil(Horizon) >= Horizon
      /\ \E k \in Nat : Ceil(Horizon) = k * B
  <2> DEFINE x == Horizon + B - 1
  <2>1. x \in Nat /\ Ceil(Horizon) = Floor(x)
    BY <1>1, <1>2 DEF Ceil, Floor
  <2>2. /\ Hour(x) \in Nat /\ Floor(x) = Hour(x) * B
        /\ Floor(x) \in Nat /\ x < Floor(x) + B
    BY <2>1, FloorFacts DEF Hour, Floor
  <2> HIDE DEF x
  <2>3. x = Horizon + B - 1
    BY DEF x
  <2> QED
    BY <1>1, <1>2, <2>1, <2>2, <2>3
<1> QED
  BY <1>2, <1>3, <1>4 DEF Start

\* Nothing has been stored yet, and no cut has been made.
LEMMA InitEstablishes == Init => IInv
BY RollupAssumption
   DEF Init, IInv, TypeOK, RawAboveCut, CutBehindHorizon, OutCovers, Begin

\* The invariant survives every step: only
\* ReadRaw can disturb OutCovers, and Retention runs when nothing is in flight.
LEMMA StepPreserves ==
    ASSUME IInv, [Next]_vars
    PROVE  IInv'
<1> USE RollupAssumption
<1>1. CASE Advance
  <2>1. now \in Nat /\ cut \in Nat /\ now >= HOT /\ now' = now + 1 /\ cut' = cut
    BY <1>1 DEF Advance, IInv, TypeOK, CutBehindHorizon, Begin
  <2>2. CutBehindHorizon'
    BY <2>1 DEF IInv, CutBehindHorizon, Begin
  <2>3. TypeOK'
    BY <1>1, <2>1 DEF Advance, IInv, TypeOK
  <2>4. RawAboveCut'
    BY <1>1 DEF Advance, IInv, RawAboveCut
  <2>5. OutCovers'
    <3>1. out' = {}
      BY <1>1 DEF Advance, IInv, TypeOK
    <3> QED
      BY <3>1 DEF OutCovers
  <2> QED
    BY <2>2, <2>3, <2>4, <2>5 DEF IInv
<1>2. CASE Store
  <2>1. PICK t \in {now, now - 1} \ probed : raw' = raw \cup {t} /\ probed' = probed \cup {t}
    BY <1>2 DEF Store
  <2>2. t \in Nat
    BY DEF IInv, TypeOK, CutBehindHorizon, Begin
  <2>3. TypeOK'
    BY <1>2, <2>1, <2>2 DEF Store, IInv, TypeOK
  <2>4. RawAboveCut'
    BY <1>2, <2>1 DEF Store, IInv, RawAboveCut
  <2>5. OutCovers' /\ CutBehindHorizon'
    BY <1>2 DEF Store, IInv, CutBehindHorizon, OutCovers, CutAway, Hour, Floor, Horizon
  <2> QED
    BY <2>3, <2>4, <2>5 DEF IInv
<1>3. CASE ReadRaw
  <2>1. TypeOK' /\ RawAboveCut' /\ CutBehindHorizon'
    BY <1>3 DEF ReadRaw, IInv, TypeOK, RawAboveCut, CutBehindHorizon
  <2>2. ASSUME NEW u \in out', NEW t \in hourly, Hour(t) = Hour(u)
        PROVE  t \in out' \/ CutAway(t)
    <3>1. /\ u \in raw /\ u >= Start /\ u \in Nat
          /\ t \in probed /\ t \in Nat
      BY <1>3 DEF ReadRaw, IInv, TypeOK
    <3>2. PICK k \in Nat : Start = k * B /\ Start \in Nat /\ Start >= Horizon
      BY StartFacts
    <3>3. t >= Start
      BY <2>2, <3>1, <3>2, BoundarySplits
    <3>4. Horizon \in Nat /\ cut \in Nat
      BY DEF IInv, TypeOK, CutBehindHorizon, Begin, Horizon
    <3>5. CASE t >= cut
      <4>1. t \in raw
        BY <3>1, <3>5 DEF IInv, RawAboveCut
      <4> QED
        BY <1>3, <3>3, <4>1 DEF ReadRaw
    <3>6. CASE t < cut
      <4>1. Floor(t) >= Start
        <5>1. Hour(t) \in Nat /\ k =< Hour(t)
          <6>1. Hour(t) \in Nat /\ Floor(t) = Hour(t) * B /\ t < Floor(t) + B
            BY <3>1, FloorFacts DEF Floor, Hour
          <6> SUFFICES ASSUME Hour(t) + 1 =< k PROVE FALSE
            BY <6>1
          <6>2. (Hour(t) + 1) * B =< k * B
            BY <6>1, TimesMonotone
          <6>3. (Hour(t) + 1) * B = Hour(t) * B + B
            BY <6>1
          <6>4. Hour(t) * B \in Nat /\ k * B \in Nat
            BY <6>1
          <6> QED
            BY <6>1, <6>2, <6>3, <6>4, <3>1, <3>2, <3>3
        <5>2. k * B =< Hour(t) * B
          BY <5>1, TimesMonotone
        <5> QED
          BY <5>2, <3>2 DEF Floor, Hour
      <4>2. Floor(t) \in Nat
        BY <3>1, FloorFacts
      <4> QED
        BY <3>2, <3>4, <3>6, <4>1, <4>2 DEF CutAway
    <3> QED
      BY <3>1, <3>4, <3>5, <3>6
  <2>3. OutCovers'
    BY <1>3, <2>2 DEF ReadRaw, OutCovers, Hour, CutAway, Floor, Horizon
  <2> QED
    BY <2>1, <2>3 DEF IInv
<1>4. CASE WriteHourly
  BY <1>4 DEF WriteHourly, IInv, TypeOK, RawAboveCut, CutBehindHorizon, OutCovers
<1>5. CASE RollupFails
  BY <1>5 DEF RollupFails, IInv, TypeOK, RawAboveCut, CutBehindHorizon, OutCovers
<1>6. CASE Retention
  <2>1. /\ out = {} /\ out' = {} /\ pc' = pc /\ pc = "ticked" /\ now' = now
        /\ probed' = probed /\ rolled' = rolled /\ last' = last /\ idle' = idle
    BY <1>6 DEF Retention, IInv, TypeOK
  <2>2. now \in Nat /\ now >= HOT + Skew /\ now >= KEEP + Skew /\ cut \in Nat
    BY DEF IInv, TypeOK, CutBehindHorizon, Begin
  <2>3. PICK d \in Nat :
          /\ d =< now - HOT + Skew
          /\ \/ raw' = {t \in raw : t >= d} /\ cut' = IF d > cut THEN d ELSE cut
             \/ raw' = raw /\ cut' = cut
    <3>1. CASE \E d \in RawCuts : /\ raw' = {t \in raw : t >= d}
                                 /\ cut' = IF d > cut THEN d ELSE cut
      <4>1. \A d \in RawCuts : d \in Nat /\ d =< now - HOT + Skew
        BY <2>2 DEF RawCuts
      <4> QED
        BY <3>1, <4>1
    <3>2. CASE UNCHANGED << raw, cut >>
      BY <3>2, <2>2
    <3> QED
      BY <1>6, <3>1, <3>2 DEF Retention, DropRaw
  <2>4. raw' \subseteq raw /\ cut' \in Nat /\ cut' >= cut /\ cut' =< now - HOT + Skew
    BY <2>2, <2>3 DEF IInv, CutBehindHorizon
  <2>5. hourly' \subseteq hourly
    BY <1>6 DEF Retention, DropHourly
  <2>6. TypeOK'
    BY <2>1, <2>4, <2>5 DEF IInv, TypeOK
  <2>7. RawAboveCut'
    <3> SUFFICES ASSUME NEW t \in probed, t >= cut'
                 PROVE  t \in raw'
      BY <2>1 DEF RawAboveCut
    <3>1. t \in Nat
      BY DEF IInv, TypeOK
    <3>2. t \in raw
      BY <2>2, <2>4, <3>1 DEF IInv, RawAboveCut
    <3> QED
      BY <2>2, <2>3, <3>1, <3>2
  <2>8. CutBehindHorizon'
    BY <2>1, <2>4 DEF IInv, CutBehindHorizon, Begin
  <2>9. OutCovers'
    BY <2>1 DEF OutCovers
  <2> QED
    BY <2>6, <2>7, <2>8, <2>9 DEF IInv
<1>7. CASE Stop
  BY <1>7 DEF Stop, IInv, TypeOK, RawAboveCut, CutBehindHorizon, OutCovers
<1>8. CASE Restart
  BY <1>8 DEF Restart, IInv, TypeOK, RawAboveCut, CutBehindHorizon, OutCovers
<1>9. CASE UNCHANGED vars
  BY <1>9
  DEF vars, IInv, TypeOK, RawAboveCut, CutBehindHorizon, OutCovers, CutAway, Hour, Floor, Horizon
<1> QED
  BY <1>1, <1>2, <1>3, <1>4, <1>5, <1>6, <1>7, <1>8, <1>9 DEF Next

\* The inductive invariant holds in every state, and with it the types.
THEOREM Invariance == Spec => []IInv
<1>1. IInv /\ [Next]_vars => IInv'
  BY StepPreserves
<1> QED
  BY <1>1, InitEstablishes, PTL DEF Spec

\* store.go:430-434: whatever retention deletes, raw still holds every round
\* Rollup may read, at every moment and for every schedule of the ticks.
THEOREM HorizonHeld == Spec => []RawHoldsHorizon
<1>1. IInv => RawHoldsHorizon
  <2> SUFFICES ASSUME IInv, NEW t \in probed, t >= Horizon + Skew
               PROVE  t \in raw
    BY DEF RawHoldsHorizon
  <2>1. now \in Nat /\ now >= HOT /\ cut \in Nat /\ cut =< now - HOT + Skew /\ t \in Nat
    BY RollupAssumption DEF IInv, TypeOK, CutBehindHorizon, Begin
  <2>2. t >= cut
    BY <2>1, RollupAssumption DEF Horizon
  <2> QED
    BY <2>2 DEF IInv, RawAboveCut
<1> QED
  BY <1>1, Invariance, PTL

\* The types, and with them that both tiers hold only rounds that were stored.
THEOREM TypeCorrect == Spec => []TypeOK
BY Invariance, PTL DEF IInv

\* A step that loses rounds from a bucket and keeps the bucket is a recompute after
\* a cut above the horizon, and loses what the cut deleted.
LEMMA StepKeepsBuckets ==
    ASSUME IInv, [Next]_vars
    PROVE  \A t \in hourly \ hourly' : \A u \in hourly' : Hour(u) = Hour(t) => CutAway(t)
<1> SUFFICES ASSUME NEW t \in hourly \ hourly', NEW u \in hourly', Hour(u) = Hour(t)
             PROVE  CutAway(t)
  OBVIOUS
<1>1. CASE WriteHourly
  <2>1. t \notin out /\ \E v \in out : Hour(v) = Hour(t)
    BY <1>1 DEF WriteHourly
  <2> QED
    BY <2>1 DEF IInv, OutCovers
<1>2. CASE Retention
  <2>1. PICK d \in KeepCuts : hourly' = {v \in hourly : Floor(v) >= d}
    BY <1>2 DEF Retention, DropHourly
  <2>2. Floor(t) = Floor(u)
    BY DEF Floor, Hour
  <2> QED
    BY <2>1, <2>2
<1>3. hourly' = hourly \/ WriteHourly \/ Retention
  BY DEF Next, vars, Advance, Store, ReadRaw, RollupFails, Stop, Restart
<1> QED
  BY <1>1, <1>2, <1>3

\* store.go:430-434: the only rounds a recompute ever loses from a bucket are those
\* that a cut above the horizon deleted, for every bucket length, hot span,
\* retention and schedule of late ticks, stops, crashes and failed statements.
THEOREM BucketsLoseOnlyTheCut == Spec => TruncatedOnlyByCut
<1>1. IInv /\ [Next]_vars
        => [\A t \in hourly \ hourly' : \A u \in hourly' :
              Hour(u) = Hour(t) => Horizon =< Floor(t) /\ t < cut]_vars
  BY StepKeepsBuckets DEF CutAway
<1> QED
  BY <1>1, Invariance, PTL DEF Spec, TruncatedOnlyByCut

\* ... and without a clock change (Skew = 0) none: no bucket is ever replaced by a
\* truncated one.
THEOREM BucketsNeverTruncated == Skew = 0 /\ Spec => NoTruncation
<1> SUFFICES ASSUME Skew = 0
             PROVE  Spec => NoTruncation
  OBVIOUS
<1>1. IInv => \A t \in hourly : ~CutAway(t)
  <2> SUFFICES ASSUME IInv, NEW t \in hourly, CutAway(t)
               PROVE  FALSE
    OBVIOUS
  <2>1. t \in Nat /\ cut \in Nat /\ now \in Nat /\ cut =< now - HOT + Skew
    BY DEF IInv, TypeOK, CutBehindHorizon
  <2>2. now - HOT =< Floor(t) /\ t < cut
    BY DEF CutAway, Horizon
  <2>3. Floor(t) \in Nat /\ Floor(t) =< t
    BY <2>1, FloorFacts
  <2> QED
    BY <2>1, <2>2, <2>3, RollupAssumption
<1>2. IInv /\ [Next]_vars
        => \A t \in hourly \ hourly' : \A u \in hourly' : Hour(u) # Hour(t)
  <2> SUFFICES ASSUME IInv, [Next]_vars, NEW t \in hourly \ hourly',
                      NEW u \in hourly', Hour(u) = Hour(t)
               PROVE  FALSE
    OBVIOUS
  <2>1. CutAway(t)
    BY StepKeepsBuckets
  <2> QED
    BY <1>1, <2>1
<1>3. Spec => []IInv
  BY Invariance
<1> QED
  BY <1>2, <1>3, PTL DEF Spec, NoTruncation
-----------------------------------------------------------------------------
(***************************************************************************)
(* Rolled before dropped.  It needs ticks that come in time: a running      *)
(* process completes one within the two buckets it looks back, a restart    *)
(* within what the hot tier holds beyond a bucket, and neither so late that *)
(* Retention is there first.                                                *)
(***************************************************************************)
InTime ==
    /\ MaxLag < 2 * B
    /\ \A lag \in {MaxLag, MaxDown} : lag + B =< HOT /\ lag + Skew < HOT

\* How long ago the last completed tick may be; `last' is that tick, or zero in a
\* process that has not completed one.
Lag ==
    /\ idle =< now /\ now >= 1
    /\ now - idle =< MaxLag \/ now - idle =< MaxDown
    /\ last # 0 => last = idle /\ now - idle =< MaxLag
    /\ pc = "down" => last = 0

\* What is not rolled up is still in raw and not older than the last completed tick,
\* but for a round that was stored late; a running Rollup has all of it in hand.
Unrolled == probed \ rolled

NoneForgotten ==
    /\ Unrolled \subseteq raw
    /\ \A t \in Unrolled : t + 1 >= idle
    /\ pc = "write" => \A t \in Unrolled : t \in out \/ t + 1 >= now

Tended == IInv /\ Lag /\ NoneForgotten

\* Rollup starts early enough for every round that is not rolled up yet.
LEMMA StartsEarly ==
    ASSUME InTime, Tended
    PROVE  Start + 1 =< idle
<1>1. /\ B \in Nat \ {0} /\ HOT \in Nat \ {0} /\ MaxLag \in Nat /\ MaxDown \in Nat /\ Skew \in Nat
      /\ now \in Nat /\ idle \in Nat /\ idle =< now /\ now >= HOT /\ now >= 2 * B
      /\ Horizon = now - HOT /\ Horizon \in Nat
      /\ MaxLag < 2 * B /\ MaxLag + B =< HOT /\ MaxDown + B =< HOT
  BY RollupAssumption DEF Tended, Lag, InTime, IInv, TypeOK, CutBehindHorizon, Begin, Horizon
<1>2. Since \in Nat /\ (Since = Horizon \/ (last # 0 /\ Since = now - 2 * B))
  BY <1>1 DEF Since
<1>3. Floor(Since) =< Since /\ Floor(Since) \in Nat
  BY <1>2, FloorFacts
<1>4. Ceil(Horizon) \in Nat /\ Ceil(Horizon) =< Horizon + B - 1
  <2> DEFINE x == Horizon + B - 1
  <2>1. x \in Nat /\ Ceil(Horizon) = Floor(x)
    BY <1>1 DEF Ceil, Floor
  <2>2. Floor(x) \in Nat /\ Floor(x) =< x
    BY <2>1, FloorFacts
  <2> QED
    BY <2>1, <2>2
<1>5. now - idle =< MaxLag \/ now - idle =< MaxDown
  BY DEF Tended, Lag
<1>6. Horizon + B =< idle
  BY <1>1, <1>5
<1>7. CASE Floor(Since) < Horizon
  BY <1>1, <1>4, <1>6, <1>7 DEF Start
<1>8. CASE ~(Floor(Since) < Horizon)
  <2>1. Start = Floor(Since)
    BY <1>8 DEF Start
  <2>2. CASE Since = Horizon
    BY <2>1, <2>2, <1>1, <1>3, <1>6
  <2>3. CASE last # 0 /\ Since = now - 2 * B
    <3>1. now - idle =< MaxLag
      BY <2>3 DEF Tended, Lag
    <3> QED
      BY <2>1, <2>3, <3>1, <1>1, <1>3
  <2> QED
    BY <1>2, <2>2, <2>3
<1> QED
  BY <1>7, <1>8

LEMMA InitTended == Init => Tended
<1> SUFFICES ASSUME Init PROVE Tended
  OBVIOUS
<1>1. IInv
  BY InitEstablishes
<1>2. Lag /\ NoneForgotten
  BY RollupAssumption DEF Init, Lag, NoneForgotten, Unrolled, Begin
<1> QED
  BY <1>1, <1>2 DEF Tended

\* Retention's cut is behind the last completed tick.
LEMMA DropsOnlyRolled ==
    ASSUME InTime, Tended, Retention
    PROVE  Unrolled \subseteq raw'
<1>1. /\ HOT \in Nat \ {0} /\ MaxLag \in Nat /\ MaxDown \in Nat /\ Skew \in Nat
      /\ now \in Nat /\ idle \in Nat /\ idle =< now /\ now >= HOT + Skew
      /\ MaxLag + Skew < HOT /\ MaxDown + Skew < HOT
      /\ now - idle =< MaxLag \/ now - idle =< MaxDown
  BY RollupAssumption DEF Tended, Lag, InTime, IInv, TypeOK, CutBehindHorizon, Begin
<1>2. SUFFICES ASSUME NEW t \in Unrolled PROVE t \in raw'
  OBVIOUS
<1>3. t \in raw /\ t \in Nat /\ t + 1 >= idle
  BY DEF Tended, NoneForgotten, Unrolled, IInv, TypeOK
<1>4. \A d \in RawCuts : d \in Nat /\ t >= d
  BY <1>1, <1>3 DEF RawCuts
<1> QED
  BY <1>3, <1>4 DEF Retention, DropRaw

LEMMA TendedKeeps ==
    ASSUME InTime, Tended, [Next]_vars
    PROVE  Tended'
<1>1. IInv /\ Lag /\ NoneForgotten /\ IInv'
  BY StepPreserves DEF Tended
<1>2. /\ now \in Nat /\ idle \in Nat /\ last \in Nat /\ probed \subseteq Nat
      /\ MaxLag \in Nat /\ MaxDown \in Nat
      /\ \A t \in Unrolled : t \in Nat
  BY <1>1, RollupAssumption DEF IInv, TypeOK, Unrolled
<1>3. CASE Advance
  BY <1>1, <1>2, <1>3 DEF Advance, Tended, Lag, NoneForgotten, Unrolled
<1>4. CASE Store
  <2>1. PICK t \in {now, now - 1} \ probed : raw' = raw \cup {t} /\ probed' = probed \cup {t}
    BY <1>4 DEF Store
  <2>2. Unrolled' \subseteq Unrolled \cup {t} /\ t + 1 >= now /\ now >= idle
    BY <2>1, <1>1, <1>2, <1>4 DEF Store, Unrolled, Lag
  <2> QED
    BY <2>1, <2>2, <1>1, <1>2, <1>4 DEF Store, Tended, Lag, NoneForgotten
<1>5. CASE ReadRaw
  <2>1. Start + 1 =< idle /\ Start \in Nat
    BY StartsEarly, StartFacts, <1>1
  <2>2. Lag'
    BY <1>1, <1>5 DEF ReadRaw, Lag
  <2>3. \A t \in Unrolled : t \in out'
    BY <2>1, <1>1, <1>2, <1>5 DEF ReadRaw, NoneForgotten
  <2> QED
    BY <2>2, <2>3, <1>1, <1>5 DEF ReadRaw, Tended, NoneForgotten, Unrolled
<1>6. CASE WriteHourly
  BY <1>1, <1>2, <1>6 DEF WriteHourly, Tended, Lag, NoneForgotten, Unrolled
<1>7. CASE RollupFails
  BY <1>1, <1>7 DEF RollupFails, Tended, Lag, NoneForgotten, Unrolled
<1>8. CASE Retention
  <2>1. Unrolled \subseteq raw'
    BY <1>8, DropsOnlyRolled
  <2> QED
    BY <2>1, <1>1, <1>8 DEF Retention, Tended, Lag, NoneForgotten, Unrolled
<1>9. CASE Stop
  BY <1>1, <1>9 DEF Stop, Tended, Lag, NoneForgotten, Unrolled
<1>10. CASE Restart
  BY <1>1, <1>10 DEF Restart, Tended, Lag, NoneForgotten, Unrolled
<1>11. CASE UNCHANGED vars
  BY <1>1, <1>11 DEF vars, Tended, Lag, NoneForgotten, Unrolled
<1> QED
  BY <1>3, <1>4, <1>5, <1>6, <1>7, <1>8, <1>9, <1>10, <1>11 DEF Next

\* store.go:18-20: if ticks come in time, no round is dropped from raw before it was
\* rolled up into its bucket, whatever fails and whenever the process stops.
THEOREM NothingDroppedUnrolled ==
    ASSUME InTime
    PROVE  Spec => []RolledBeforeDropped
<1>1. Tended /\ [Next]_vars => Tended'
  BY TendedKeeps
<1>2. Tended => RolledBeforeDropped
  BY DEF Tended, NoneForgotten, Unrolled, RolledBeforeDropped
<1> QED
  BY <1>1, <1>2, InitTended, PTL DEF Spec
=============================================================================
