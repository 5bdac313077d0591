--------------------------- MODULE RecorderProofs ---------------------------
(***************************************************************************)
(* The flight recorder, for any number of names, loops and rounds, any      *)
(* capacity and any day.                                                    *)
(*                                                                         *)
(* What slips through a replay: only rounds of loops that had been told to  *)
(* stop.  Between close(stop) and the start of the next loop no running     *)
(* loop exists, so whatever a replay finds in the ring it is about to       *)
(* replace was put there by a stopped one.                                  *)
(*                                                                         *)
(* What the recorder shows: everything it lacks of the last day is          *)
(* accounted for, and Recent's binary search is exact but for pairs of      *)
(* rounds that a stopped loop put out of order.  The order of the ring      *)
(* (InOrder) carries both: a round goes behind the others with a greater    *)
(* number, and, unless its loop was told to stop, with a greater time,      *)
(* because at most one loop runs and the round it is in began after         *)
(* whatever running loops appended.                                         *)
(***************************************************************************)
EXTENDS Recorder, FiniteSetTheorems, SequenceTheorems, WellFoundedInduction, NaturalsInduction, TLAPS

ProbeLoop == [name : Names, t : Nat, due : BOOLEAN, stop : BOOLEAN]

Typed ==
    /\ now \in Nat
    /\ loops \in [Slots -> {NoLoop} \cup ProbeLoop]
    /\ reg \in Names \cup {"none"}
    /\ replay \in {"no", "query", "assign"}
    /\ IsFiniteSet(history)

\* A loop runs only for a target that is registered and replayed.
NoneRuns == \A k \in Slots : loops[k] # NoLoop => loops[k].stop

RunsWhenReplayed == reg = "none" \/ replay # "no" => NoneRuns

\* While a replay is under way the ring holds rounds of stopped loops only.
LateRound == [t : Nat, n : Nat, late : {TRUE}]

LateWhileReplayed == replay # "no" => reg # "none" /\ ring \in Seq(LateRound)

IInv == Typed /\ RunsWhenReplayed /\ LateWhileReplayed

\* A probe loop is not the absence of one.
LEMMA LoopFacts ==
    ASSUME NEW l \in ProbeLoop
    PROVE  l # NoLoop
BY RecorderAssumption DEF ProbeLoop, NoLoop

\* A loop on its way to its first round.
LEMMA NewLoop ==
    ASSUME NEW name \in Names
    PROVE  Loop(name) \in ProbeLoop
BY DEF Loop, ProbeLoop

\* Cutting a ring keeps what its rounds are.
LEMMA KeepFacts ==
    ASSUME NEW S, NEW s \in Seq(S)
    PROVE  Keep(s) \in Seq(S)
<1>1. CASE Len(s) > Cap
  <2>1. Len(s) \in Nat /\ Cap \in Nat /\ Len(s) - Cap + 1 \in 1 .. Len(s) + 1
    BY <1>1, RecorderAssumption
  <2>2. \A i \in Len(s) - Cap + 1 .. Len(s) : s[i] \in S
    BY <2>1
  <2>3. SubSeq(s, Len(s) - Cap + 1, Len(s)) \in Seq(S)
    BY <2>1, <2>2
  <2> QED
    BY <1>1, <2>3 DEF Keep
<1> QED
  BY <1>1 DEF Keep

\* Stop is told to every loop.
LEMMA StoppedFacts ==
    ASSUME Typed
    PROVE  /\ Stopped \in [Slots -> {NoLoop} \cup ProbeLoop]
           /\ \A k \in Slots : Stopped[k] # NoLoop => Stopped[k].stop
<1>1. ASSUME NEW k \in Slots
      PROVE  /\ Stopped[k] \in {NoLoop} \cup ProbeLoop
             /\ Stopped[k] # NoLoop => Stopped[k].stop
  <2>1. loops[k] \in {NoLoop} \cup ProbeLoop
    BY DEF Typed
  <2>2. CASE k \in Running
    <3>1. Stopped[k] = [loops[k] EXCEPT !.stop = TRUE]
      BY <2>2 DEF Stopped
    <3>2. loops[k] \in ProbeLoop
      BY <2>1, <2>2 DEF Running
    <3> QED
      BY <3>1, <3>2 DEF ProbeLoop
  <2>3. CASE k \notin Running
    <3>1. Stopped[k] = loops[k]
      BY <2>3 DEF Stopped
    <3> QED
      BY <2>1, <2>3, <3>1 DEF Running
  <2> QED
    BY <2>2, <2>3
<1> QED
  BY <1>1 DEF Stopped

\* Nothing is registered yet.
LEMMA InitIInv == Init => IInv
BY FS_EmptySet, RecorderAssumption
   DEF Init, IInv, Typed, RunsWhenReplayed, NoneRuns, LateWhileReplayed

\* Steps that leave the probe loops, the registration and the ring alone.
LEMMA RestKeeps ==
    ASSUME IInv, UNCHANGED << reg, ring, loops, history >>,
           now' = now,
           replay' \in {"no", "query", "assign"}, replay # "no" \/ replay' = replay,
           replay' = "no" => replay = "no"
    PROVE  IInv'
BY DEF IInv, Typed, RunsWhenReplayed, NoneRuns, LateWhileReplayed

\* The clock makes tickers due.
LEMMA AdvanceKeeps ==
    ASSUME IInv, Advance
    PROVE  IInv'
<1>1. ASSUME NEW k \in Slots
      PROVE  /\ loops'[k] \in {NoLoop} \cup ProbeLoop
             /\ loops'[k] # NoLoop => loops[k] # NoLoop /\ loops'[k].stop = loops[k].stop
  <2>1. loops[k] \in {NoLoop} \cup ProbeLoop
    BY DEF IInv, Typed
  <2>2. loops'[k] = IF loops[k] = NoLoop THEN NoLoop ELSE [loops[k] EXCEPT !.due = TRUE]
    BY DEF Advance
  <2> QED
    BY <2>1, <2>2 DEF ProbeLoop
<1>2. loops' \in [Slots -> {NoLoop} \cup ProbeLoop]
  BY <1>1 DEF Advance
<1>3. /\ now' \in Nat
      /\ UNCHANGED << reg, ring, replay, history >>
  BY DEF Advance, memory, IInv, Typed
<1>4. NoneRuns => NoneRuns'
  BY <1>1 DEF NoneRuns
<1> QED
  BY <1>2, <1>3, <1>4 DEF IInv, Typed, RunsWhenReplayed, LateWhileReplayed

\* EnsureTarget begins with an empty ring.
LEMMA EnsureTargetKeeps ==
    ASSUME IInv, NEW name \in Names, EnsureTarget(name)
    PROVE  IInv'
BY RecorderAssumption
   DEF EnsureTarget, IInv, Typed, RunsWhenReplayed, NoneRuns, LateWhileReplayed

\* The loop of a registered target starts when the replay is over.
LEMMA AssignKeeps ==
    ASSUME IInv, Assign
    PROVE  IInv'
<1>1. reg \in Names /\ reg' = reg /\ replay' = "no" /\ history' = history /\ now' = now
  BY DEF Assign, IInv, Typed, LateWhileReplayed
<1>2. PICK k \in FreeSlots : loops' = [loops EXCEPT ![k] = Loop(reg)]
  BY DEF Assign
<1>3. loops' \in [Slots -> {NoLoop} \cup ProbeLoop]
  BY <1>1, <1>2, NewLoop DEF IInv, Typed
<1> QED
  BY <1>1, <1>3, RecorderAssumption DEF IInv, Typed, RunsWhenReplayed, LateWhileReplayed

LEMMA RemoveTargetKeeps ==
    ASSUME IInv, RemoveTarget
    PROVE  IInv'
BY StoppedFacts DEF RemoveTarget, IInv, Typed, RunsWhenReplayed, NoneRuns, LateWhileReplayed

LEMMA EditTargetKeeps ==
    ASSUME IInv, NEW name \in Names, EditTarget(name)
    PROVE  IInv'
<1>1. /\ reg' = name /\ replay = "no" /\ replay' = "no" /\ history' = history /\ now' = now
  BY DEF EditTarget
<1>2. PICK k \in FreeSlots : loops' = [Stopped EXCEPT ![k] = Loop(name)]
  BY DEF EditTarget
<1>3. loops' \in [Slots -> {NoLoop} \cup ProbeLoop]
  BY <1>2, NewLoop, StoppedFacts DEF IInv
<1> QED
  BY <1>1, <1>3, RecorderAssumption DEF IInv, Typed, RunsWhenReplayed, LateWhileReplayed

\* A loop begins a round, or ends; it does not forget that it was told to stop.
LEMMA LoopStepKeeps ==
    ASSUME IInv, NEW k \in Slots, Begin(k) \/ Exit(k)
    PROVE  IInv'
<1>1. loops[k] \in ProbeLoop /\ now \in Nat
  BY DEF Begin, Exit, IInv, Typed
<1>2. PICK l \in {NoLoop} \cup ProbeLoop :
         loops' = [loops EXCEPT ![k] = l] /\ (l # NoLoop => l.stop = loops[k].stop)
  <2>1. CASE Begin(k)
    <3> DEFINE l == [loops[k] EXCEPT !.t = now, !.due = FALSE]
    <3>1. l \in ProbeLoop /\ l.stop = loops[k].stop
      BY <1>1 DEF ProbeLoop
    <3>2. loops' = [loops EXCEPT ![k] = l]
      BY <2>1 DEF Begin
    <3> QED
      BY <3>1, <3>2
  <2>2. CASE Exit(k)
    BY <2>2 DEF Exit
  <2> QED
    BY <2>1, <2>2
<1>3. /\ loops' \in [Slots -> {NoLoop} \cup ProbeLoop]
      /\ loops'[k] = l /\ \A j \in Slots \ {k} : loops'[j] = loops[j]
  BY <1>2 DEF IInv, Typed
<1>4. NoneRuns => NoneRuns'
  BY <1>1, <1>2, <1>3, LoopFacts DEF NoneRuns
<1>5. UNCHANGED << now, reg, ring, replay, history >>
  BY DEF Begin, Exit, memory
<1> QED
  BY <1>3, <1>4, <1>5 DEF IInv, Typed, RunsWhenReplayed, LateWhileReplayed

\* A round appended while a replay is under way is a stopped loop's.
LEMMA AppendKeeps ==
    ASSUME IInv, NEW k \in Slots, Append_(k)
    PROVE  IInv'
<1>1. /\ loops[k] \in ProbeLoop /\ loops[k] # NoLoop /\ now \in Nat /\ now' = now
      /\ reg' = reg /\ replay' = replay
      /\ loops' = [loops EXCEPT ![k].t = 0]
  BY DEF Append_, IInv, Typed
<1>2. PICK t \in {loops[k].t, now} :
        LET r == [t |-> t, n |-> Cardinality(history) + 1, late |-> loops[k].stop]
        IN  \/ ring' = Keep(Append(ring, r)) /\ history' = history \cup {r}
            \/ ring' = ring /\ history' = history
  <2>1. PICK t \in {loops[k].t, now} :
        LET r == [t |-> t, n |-> Cardinality(history) + 1, late |-> loops[k].stop]
        IN  IF loops[k].name = reg
           THEN /\ ring' = Keep(Append(ring, r))
                /\ open' = open \cup {r}
                /\ history' = history \cup {r}
                /\ missed' = IF replay = "assign" THEN missed \cup {r} ELSE missed
           ELSE UNCHANGED << ring, open, history, missed >>
    BY DEF Append_
  <2>2. CASE loops[k].name = reg
    BY <2>1, <2>2
  <2>3. CASE loops[k].name # reg
    BY <2>1, <2>3
  <2> QED
    BY <2>2, <2>3
<1> DEFINE r == [t |-> t, n |-> Cardinality(history) + 1, late |-> loops[k].stop]
           l == [loops[k] EXCEPT !.t = 0]
<1>3. l \in ProbeLoop /\ l.stop = loops[k].stop /\ loops' = [loops EXCEPT ![k] = l]
  BY <1>1 DEF ProbeLoop
<1> HIDE DEF l
<1>4. /\ loops' \in [Slots -> {NoLoop} \cup ProbeLoop]
      /\ loops'[k] = l /\ \A j \in Slots \ {k} : loops'[j] = loops[j]
  BY <1>3 DEF IInv, Typed
<1>5. NoneRuns => NoneRuns'
  BY <1>1, <1>3, <1>4 DEF NoneRuns
<1>6. IsFiniteSet(history')
  <2>1. IsFiniteSet(history)
    BY DEF IInv, Typed
  <2>2. IsFiniteSet(history \cup {r})
    BY <2>1, FS_AddElement
  <2> QED
    BY <1>2, <2>1, <2>2
<1>7. LateWhileReplayed'
  <2> SUFFICES ASSUME replay # "no"
               PROVE  ring' \in Seq(LateRound)
    BY <1>1 DEF IInv, LateWhileReplayed
  <2>1. ring \in Seq(LateRound) /\ NoneRuns
    BY DEF IInv, LateWhileReplayed, RunsWhenReplayed
  <2>2. loops[k].stop = TRUE
    BY <2>1, <1>1 DEF NoneRuns, ProbeLoop
  <2>3. Cardinality(history) + 1 \in Nat
    BY FS_CardinalityType DEF IInv, Typed
  <2>4. t \in Nat
    BY <1>1 DEF ProbeLoop
  <2>5. r \in LateRound
    BY <2>2, <2>3, <2>4 DEF LateRound
  <2> HIDE DEF r
  <2>6. Append(ring, r) \in Seq(LateRound)
    BY <2>1, <2>5
  <2>7. Keep(Append(ring, r)) \in Seq(LateRound)
    BY <2>6, KeepFacts
  <2>8. ring' = Keep(Append(ring, r)) \/ ring' = ring
    BY <1>2 DEF r
  <2> QED
    BY <2>1, <2>7, <2>8
<1> QED
  BY <1>1, <1>4, <1>5, <1>6, <1>7 DEF IInv, Typed, RunsWhenReplayed

\* A crash ends every loop.
LEMMA CrashKeeps ==
    ASSUME IInv, Crash
    PROVE  IInv'
BY DEF Crash, IInv, Typed, RunsWhenReplayed, NoneRuns, LateWhileReplayed

LEMMA StepKeeps ==
    ASSUME IInv, [Next]_vars
    PROVE  IInv'
<1>1. CASE Advance
  BY <1>1, AdvanceKeeps
<1>2. CASE \E name \in Names : EnsureTarget(name) \/ EditTarget(name)
  BY <1>2, EnsureTargetKeeps, EditTargetKeeps
<1>3. CASE Query \/ QueryFails
  BY <1>3, RestKeeps DEF Query, QueryFails
<1>4. CASE Assign \/ RemoveTarget
  BY <1>4, AssignKeeps, RemoveTargetKeeps
<1>5. CASE \E k \in Slots : Begin(k) \/ Append_(k) \/ Exit(k)
  BY <1>5, LoopStepKeeps, AppendKeeps
<1>6. CASE Persist \/ Lose
  <2>1. UNCHANGED << now, memory, loops, history >>
    BY <1>6 DEF Persist, Lose
  <2> QED
    BY <2>1, RestKeeps DEF memory, IInv, Typed
<1>7. CASE Crash
  BY <1>7, CrashKeeps
<1>8. CASE UNCHANGED vars
  BY <1>8, RestKeeps DEF vars, IInv, Typed
<1> QED
  BY <1>1, <1>2, <1>3, <1>4, <1>5, <1>6, <1>7, <1>8 DEF Next

\* A target that is not registered and replayed has no running loop, and what is in
\* the ring before a replay assigns it is stopped loops'.
THEOREM Invariant == Spec => []IInv
<1>1. IInv /\ [Next]_vars => IInv'
  BY StepKeeps
<1> QED
  BY InitIInv, <1>1, PTL DEF Spec

\* Only Assign ends a replay and leaves the target registered.
LEMMA StepSlips ==
    ASSUME IInv, [Next]_vars, replay = "assign", replay' = "no", reg' # "none"
    PROVE  \A r \in Shown : r.late
<1>1. ring \in Seq(LateRound)
  BY DEF IInv, LateWhileReplayed
<1>2. \A i \in DOMAIN ring : ring[i] \in LateRound
  BY <1>1
<1> QED
  BY <1>2 DEF Shown, LateRound

\* store.go:313 replay queries without the lock and replaces the ring: no round of a
\* running loop is ever lost by that.
THEOREM OnlyStoppedLoopsSlip == Spec => OnlyLateRoundsSlip
<1>1. IInv /\ [Next]_vars
        => [replay = "assign" /\ replay' = "no" /\ reg' # "none" => \A r \in Shown : r.late]_vars
  BY StepSlips
<1> QED
  BY <1>1, Invariant, PTL DEF Spec, OnlyLateRoundsSlip
-----------------------------------------------------------------------------
(***************************************************************************)
(* Induction over the natural numbers, stated about sets of numbers, and    *)
(* the listing of a finite set in the order of a key: what the rows of a    *)
(* query and the binary search rest on.                                     *)
(***************************************************************************)
\* The library's well-founded order, as a set of pairs.
LessThan == {ss \in Nat \X Nat : ss[1] < ss[2]}

LEMMA LessThanWellFounded == IsWellFoundedOn(LessThan, Nat)
BY NatLessThanWellFounded, Zenon DEF OpToRel, LessThan

\* A set of natural numbers that is not empty has a least element.
LEMMA LeastNatural ==
    ASSUME NEW S \in SUBSET Nat, S # {}
    PROVE  \E m \in S : \A k \in S : m =< k
<1>1. PICK m \in S : \A k \in S : ~(<< k, m >> \in LessThan)
  BY LessThanWellFounded, WFMin
<1>2. \A k \in S : ~(k < m)
  BY <1>1 DEF LessThan
<1> QED
  BY <1>2

\* A set that has 0 and with every number the next has them all.
LEMMA EveryNatural ==
    ASSUME NEW S, 0 \in S, \A n \in Nat : n \in S => n + 1 \in S
    PROVE  \A n \in Nat : n \in S
<1> SUFFICES ASSUME Nat \ S # {}
             PROVE  FALSE
  OBVIOUS
<1>1. PICK m \in Nat \ S : \A k \in Nat \ S : m =< k
  BY LeastNatural
<1>2. m # 0 /\ m - 1 \in Nat /\ m - 1 < m
  BY <1>1
<1>3. m - 1 \in S
  BY <1>1, <1>2
<1> QED
  BY <1>1, <1>2, <1>3

\* Elements with different keys can be listed in the order of their keys.
LEMMA SortByKey ==
    ASSUME NEW R, IsFiniteSet(R), NEW key \in [R -> Nat], NEW B \in Nat,
           \A r \in R : key[r] < B,
           \A r, s \in R : key[r] = key[s] => r = s
    PROVE  \E s \in [1 .. Cardinality(R) -> R] : \A i, j \in DOMAIN s : i < j => key[s[i]] < key[s[j]]
<1> DEFINE Below(T) == {r \in R : key[r] < T}
           Sorted(T) == {s \in [1 .. Cardinality(Below(T)) -> Below(T)] :
                            \A i, j \in DOMAIN s : i < j => key[s[i]] < key[s[j]]}
           S == {T \in Nat : Sorted(T) # {}}
<1>1. 0 \in S
  <2>1. Below(0) = {}
    OBVIOUS
  <2>2. Cardinality(Below(0)) = 0
    BY <2>1, FS_EmptySet
  <2>3. << >> \in [1 .. 0 -> Below(0)] /\ 1 .. 0 = {} /\ DOMAIN << >> = {}
    OBVIOUS
  <2>4. << >> \in Sorted(0)
    <3> HIDE DEF Below
    <3> QED
      BY <2>2, <2>3
  <2> QED
    BY <2>4
<1>2. ASSUME NEW T \in Nat, T \in S
      PROVE  T + 1 \in S
  <2> HIDE DEF Sorted
  <2> SUFFICES \E u : u \in Sorted(T + 1)
    OBVIOUS
  <2> USE DEF Sorted
  <2>1. PICK s \in Sorted(T) : TRUE
    BY <1>2
  <2>2. CASE \E r \in R : key[r] = T
    <3>1. PICK r \in R : key[r] = T
      BY <2>2
    <3>2. Below(T + 1) = Below(T) \cup {r} /\ r \notin Below(T) /\ \A x \in Below(T) : key[x] < key[r]
      BY <3>1
    <3> DEFINE m == Cardinality(Below(T))
               u == [i \in 1 .. m + 1 |-> IF i =< m THEN s[i] ELSE r]
    <3>3. IsFiniteSet(Below(T))
      BY FS_Subset
    <3>4. s \in [1 .. m -> Below(T)] /\ \A i, j \in 1 .. m : i < j => key[s[i]] < key[s[j]]
      BY <2>1
    <3>5. \A f \in [1 .. Cardinality(Below(T + 1)) -> Below(T + 1)] :
             (\A i, j \in DOMAIN f : i < j => key[f[i]] < key[f[j]]) => f \in Sorted(T + 1)
      OBVIOUS
    <3> HIDE DEF Below, Sorted
    <3>6. m \in Nat /\ Cardinality(Below(T + 1)) = m + 1
      BY <3>2, <3>3, FS_AddElement, FS_CardinalityType
    <3> HIDE DEF m
    <3>7. u \in [1 .. m + 1 -> Below(T + 1)]
      BY <3>2, <3>4, <3>6
    <3>8. u[m + 1] = r /\ \A i \in 1 .. m : u[i] = s[i] /\ s[i] \in Below(T)
      BY <3>4, <3>6
    <3>9. \A i \in 1 .. m + 1 : i \in 1 .. m \/ i = m + 1
      BY <3>6
    <3> HIDE DEF u
    <3>10. ASSUME NEW i \in 1 .. m + 1, NEW j \in 1 .. m + 1, i < j
           PROVE  key[u[i]] < key[u[j]]
      <4>1. i \in 1 .. m
        BY <3>6, <3>10
      <4>2. CASE j = m + 1
        BY <3>2, <3>8, <4>1, <4>2
      <4>3. CASE j \in 1 .. m
        BY <3>4, <3>8, <3>10, <4>1, <4>3
      <4> QED
        BY <3>9, <4>2, <4>3
    <3> QED
      BY <3>5, <3>6, <3>7, <3>10
  <2>3. CASE ~\E r \in R : key[r] = T
    <3>1. Below(T + 1) = Below(T)
      BY <2>3
    <3>2. s \in Sorted(T + 1)
      BY <2>1, <3>1
    <3> QED
      BY <3>2
  <2> QED
    BY <2>2, <2>3
<1> HIDE DEF S
<1>3. B \in S
  BY <1>1, <1>2, EveryNatural
<1>4. Below(B) = R
  OBVIOUS
<1>5. PICK s \in Sorted(B) : TRUE
  BY <1>3 DEF S
<1> QED
  BY <1>4, <1>5

\* Such a list leaves out none.
LEMMA SortedListsAll ==
    ASSUME NEW R, IsFiniteSet(R), NEW key \in [R -> Nat],
           NEW s \in [1 .. Cardinality(R) -> R],
           \A i, j \in DOMAIN s : i < j => key[s[i]] < key[s[j]]
    PROVE  \A r \in R : \E i \in DOMAIN s : s[i] = r
<1>1. Cardinality(R) \in Nat /\ DOMAIN s = 1 .. Cardinality(R)
  BY FS_CardinalityType
<1>2. \A i, j \in DOMAIN s : s[i] = s[j] => i = j
  <2> SUFFICES ASSUME NEW i \in DOMAIN s, NEW j \in DOMAIN s, i # j
               PROVE  key[s[i]] # key[s[j]]
    OBVIOUS
  <2>1. key[s[i]] \in Nat /\ key[s[j]] \in Nat
    BY <1>1
  <2>2. i < j \/ j < i
    BY <1>1
  <2> QED
    BY <2>1, <2>2
<1>3. s \in Injection(1 .. Cardinality(R), R)
  BY <1>2 DEF Injection, IsInjective
<1>4. Cardinality(1 .. Cardinality(R)) = Cardinality(R)
  BY <1>1, FS_Interval
<1>5. s \in Surjection(1 .. Cardinality(R), R)
  BY <1>3, <1>4, FS_Injection
<1> QED
  BY <1>1, <1>5 DEF Surjection

-----------------------------------------------------------------------------
(***************************************************************************)
(* The operators of the recorder: how a ring is cut and extended, the       *)
(* binary search of Recent, and the rows a replay is shown.                 *)
(***************************************************************************)
\* Of two rounds of a ring, the one behind is newer or was appended later; and it is
\* newer, or one of the two comes from a loop that had been told to stop.
InOrder(s) ==
    \A i, j \in DOMAIN s : i < j =>
        /\ s[i] # s[j]
        /\ s[j].t >= s[i].t \/ s[j].n > s[i].n
        /\ s[j].t >= s[i].t \/ s[i].late \/ s[j].late

\* A ring keeps its end, all of it or Cap rounds.
LEMMA KeepCuts ==
    ASSUME NEW S, NEW s \in Seq(S)
    PROVE  \E d \in 0 .. Len(s) :
              /\ Keep(s) \in Seq(S)
              /\ Len(Keep(s)) = Len(s) - d
              /\ \A i \in 1 .. Len(s) - d : Keep(s)[i] = s[i + d]
              /\ Len(Keep(s)) =< Cap
              /\ d # 0 => Len(Keep(s)) = Cap
<1>1. CASE Len(s) > Cap
  <2>1. Len(s) \in Nat /\ Cap \in Nat /\ Len(s) - Cap \in 1 .. Len(s)
    BY <1>1, RecorderAssumption
  <2>2. \A i \in Len(s) - Cap + 1 .. Len(s) : s[i] \in S
    BY <2>1
  <2>3. Keep(s) = SubSeq(s, Len(s) - Cap + 1, Len(s))
    BY <1>1 DEF Keep
  <2> DEFINE d == Len(s) - Cap
  <2>4. /\ Keep(s) \in Seq(S) /\ Len(Keep(s)) = Cap
        /\ \A i \in 1 .. Cap : Keep(s)[i] = s[i + d]
    BY <2>1, <2>2, <2>3
  <2>5. d \in 0 .. Len(s) /\ Len(s) - d = Cap
    BY <2>1
  <2>6. Len(Keep(s)) = Len(s) - d /\ Len(Keep(s)) =< Cap
    BY <2>1, <2>4, <2>5
  <2> HIDE DEF d
  <2> QED
    BY <2>4, <2>5, <2>6
<1>2. CASE ~(Len(s) > Cap)
  <2>1. Keep(s) = s /\ Len(s) \in Nat /\ Len(s) =< Cap
    BY <1>2, RecorderAssumption DEF Keep
  <2> QED
    BY <2>1
<1> QED
  BY <1>1, <1>2

LEMMA KeepInOrder ==
    ASSUME NEW S, NEW s \in Seq(S), InOrder(s)
    PROVE  InOrder(Keep(s))
<1>1. PICK d \in 0 .. Len(s) :
        /\ Keep(s) \in Seq(S)
        /\ Len(Keep(s)) = Len(s) - d
        /\ \A i \in 1 .. Len(s) - d : Keep(s)[i] = s[i + d]
  BY KeepCuts
<1> SUFFICES ASSUME NEW i \in DOMAIN Keep(s), NEW j \in DOMAIN Keep(s), i < j
             PROVE  /\ Keep(s)[i] # Keep(s)[j]
                    /\ Keep(s)[j].t >= Keep(s)[i].t \/ Keep(s)[j].n > Keep(s)[i].n
                    /\ Keep(s)[j].t >= Keep(s)[i].t \/ Keep(s)[i].late \/ Keep(s)[j].late
  BY DEF InOrder
<1>2. i \in 1 .. Len(s) - d /\ j \in 1 .. Len(s) - d
  BY <1>1
<1>3. i + d \in DOMAIN s /\ j + d \in DOMAIN s /\ i + d < j + d
  BY <1>2
<1>4. Keep(s)[i] = s[i + d] /\ Keep(s)[j] = s[j + d]
  BY <1>1, <1>2
<1> QED
  BY <1>3, <1>4 DEF InOrder

\* A round goes behind the others if it is a stopped loop's, or newer than those of loops
\* that run.
LEMMA AppendInOrder ==
    ASSUME NEW s \in Seq(Round), InOrder(s), NEW r \in Round,
           \A i \in DOMAIN s : s[i].n < r.n,
           r.late \/ \A i \in DOMAIN s : s[i].late \/ s[i].t =< r.t
    PROVE  InOrder(Append(s, r))
<1> DEFINE a == Append(s, r)
<1>1. /\ DOMAIN a = 1 .. Len(s) + 1 /\ DOMAIN s = 1 .. Len(s) /\ Len(s) \in Nat
      /\ a[Len(s) + 1] = r /\ \A i \in 1 .. Len(s) : a[i] = s[i]
  OBVIOUS
<1> HIDE DEF a
<1> SUFFICES ASSUME NEW i \in DOMAIN a, NEW j \in DOMAIN a, i < j
             PROVE  /\ a[i] # a[j]
                    /\ a[j].t >= a[i].t \/ a[j].n > a[i].n
                    /\ a[j].t >= a[i].t \/ a[i].late \/ a[j].late
  BY DEF InOrder, a
<1>2. i \in DOMAIN s /\ a[i] = s[i] /\ s[i] \in Round
  BY <1>1
<1>3. CASE j \in DOMAIN s
  BY <1>1, <1>2, <1>3 DEF InOrder
<1>4. CASE j = Len(s) + 1
  <2>1. a[j] = r /\ s[i].n < r.n /\ r.n \in Nat /\ s[i].n \in Nat
    BY <1>1, <1>2, <1>4 DEF Round
  <2>2. a[i] # a[j]
    BY <1>2, <2>1
  <2>3. a[j].t >= a[i].t \/ a[i].late \/ a[j].late
    BY <1>2, <2>1 DEF Round
  <2> QED
    BY <1>2, <2>1, <2>2, <2>3
<1> QED
  BY <1>1, <1>3, <1>4

\* What is sorted by time is in order.
LEMMA SortedInOrder ==
    ASSUME NEW s \in Seq(Round), \A i, j \in DOMAIN s : i < j => s[i].t < s[j].t
    PROVE  InOrder(s)
<1>1. \A i \in DOMAIN s : s[i] \in Round
  OBVIOUS
<1>2. \A i \in DOMAIN s : s[i].t \in Nat
  BY <1>1 DEF Round
<1> QED
  BY <1>2 DEF InOrder

\* A query returns all of its rows, in the order of their stamps.
LEMMA LastDayFacts ==
    ASSUME disk \subseteq Round, IsFiniteSet(disk), now \in Nat,
           \A r \in disk : r.t =< now,
           \A r, s \in disk : r.t = s.t => r = s
    PROVE  /\ LastDay \in Seq(disk)
           /\ \A i, j \in DOMAIN LastDay : i < j => LastDay[i].t < LastDay[j].t
           /\ \A r \in disk : r.t + Day >= now => \E i \in DOMAIN LastDay : LastDay[i] = r
<1> DEFINE rows == {r \in disk : r.t + Day >= now}
           Sorted(s) == \A i, j \in DOMAIN s : i < j => Older(s[i], s[j])
<1>1. IsFiniteSet(rows) /\ Cardinality(rows) \in Nat
  BY FS_Subset, FS_CardinalityType
<1> DEFINE stamp == [r \in rows |-> r.t]
<1>2. \E s \in [1 .. Cardinality(rows) -> rows] : Sorted(s)
  <2>1. \A r \in rows : r.t \in Nat /\ r.t < now + 1
    BY DEF Round
  <2>2. \A r, s \in rows : r.t = s.t => r = s
    OBVIOUS
  <2> HIDE DEF rows
  <2>3. now + 1 \in Nat /\ stamp \in [rows -> Nat] /\ \A r \in rows : stamp[r] = r.t
    BY <2>1
  <2> HIDE DEF stamp
  <2>4. PICK s \in [1 .. Cardinality(rows) -> rows] : \A i, j \in DOMAIN s : i < j => stamp[s[i]] < stamp[s[j]]
    BY <1>1, <2>1, <2>2, <2>3, SortByKey
  <2> QED
    BY <2>3, <2>4 DEF Older
<1>3. LastDay \in [1 .. Cardinality(rows) -> rows] /\ Sorted(LastDay)
  <2> HIDE DEF Sorted
  <2>1. LastDay = CHOOSE s \in [1 .. Cardinality(rows) -> rows] : Sorted(s)
    BY Zenon DEF LastDay, Sorted
  <2> QED
    BY <1>2, <2>1
<1>4. DOMAIN LastDay = 1 .. Cardinality(rows)
  BY <1>3
<1>5. \A i, j \in DOMAIN LastDay : i < j => LastDay[i].t < LastDay[j].t
  BY <1>3 DEF Older
<1>6. \A r \in rows : \E i \in DOMAIN LastDay : LastDay[i] = r
  <2>1. \A r \in rows : r.t \in Nat
    BY DEF Round
  <2> HIDE DEF rows
  <2>2. stamp \in [rows -> Nat] /\ \A r \in rows : stamp[r] = r.t
    BY <2>1
  <2>3. \A i, j \in DOMAIN LastDay : i < j => stamp[LastDay[i]] < stamp[LastDay[j]]
    BY <1>3, <1>5, <2>2
  <2> HIDE DEF stamp
  <2> QED
    BY <1>1, <1>3, <2>2, <2>3, SortedListsAll
<1>7. LastDay \in Seq(disk)
  BY <1>1, <1>3
<1> QED
  BY <1>5, <1>6, <1>7

\* The middle of a piece of the ring lies in it.
LEMMA MiddleFacts ==
    ASSUME NEW lo \in Nat, NEW hi \in Nat, lo < hi
    PROVE  /\ Middle(<< lo, hi >>) \in Nat
           /\ lo =< Middle(<< lo, hi >>) /\ Middle(<< lo, hi >>) < hi
BY DEF Middle

\* Where no round from before a time lies behind one that is not, the binary search
\* finds the first that is not from before it.
LEMMA SearchFinds ==
    ASSUME NEW since \in Nat, ring \in Seq(Round),
           \A i, j \in DOMAIN ring : i < j /\ ring[i].t >= since => ring[j].t >= since
    PROVE  /\ SearchFrom(since) \in 0 .. Len(ring)
           /\ \A i \in 1 .. Len(ring) : ring[i].t >= since <=> i > SearchFrom(since)
<1> DEFINE L == Len(ring)
           W == (0 .. L) \X (0 .. L)
           First == {q \in 0 .. L : \A i \in 1 .. L : i > q => ring[i].t >= since}
           Step(f) == [w \in W |->
                          IF w[1] >= w[2] THEN w[1]
                          ELSE IF ring[Middle(w) + 1].t >= since
                               THEN f[<< w[1], Middle(w) >>] ELSE f[<< Middle(w) + 1, w[2] >>]]
           search == CHOOSE f : f = Step(f)
<1>1. /\ L \in Nat /\ DOMAIN ring = 1 .. L
      /\ \A i \in 1 .. L : ring[i].t \in Nat
  <2>1. \A i \in 1 .. L : ring[i] \in Round
    OBVIOUS
  <2> QED
    BY <2>1 DEF Round
<1>2. SearchFrom(since) = search[<< 0, L >>]
  BY Zenon DEF SearchFrom
<1> HIDE DEF L
<1>3. PICK p \in First : \A q \in First : p =< q
  <2>1. L \in First /\ First \subseteq Nat
    BY <1>1
  <2> HIDE DEF First
  <2> QED
    BY <2>1, LeastNatural
<1>4. p \in 0 .. L /\ \A i \in 1 .. L : ring[i].t >= since <=> i > p
  <2>1. p \in 0 .. L /\ \A i \in 1 .. L : i > p => ring[i].t >= since
    OBVIOUS
  <2>2. ASSUME NEW i \in 1 .. L, ring[i].t >= since, i =< p
        PROVE  FALSE
    <3>1. i - 1 \in 0 .. L /\ i - 1 < p
      BY <1>1, <2>1, <2>2
    <3>2. ASSUME NEW j \in 1 .. L, j > i - 1
          PROVE  ring[j].t >= since
      <4>1. j = i \/ i < j
        BY <1>1, <3>2
      <4> QED
        BY <1>1, <2>2, <4>1
    <3>3. i - 1 \in First
      BY <3>1, <3>2
    <3> HIDE DEF First
    <3> QED
      BY <1>1, <1>3, <2>1, <3>1, <3>3
  <2> QED
    BY <1>1, <2>1, <2>2
<1> HIDE DEF First
\* What the search yields on a piece of the ring: p, or the end of the piece next to it.
<1> DEFINE g == [w \in W |-> IF w[1] >= w[2] \/ p < w[1] THEN w[1] ELSE IF p > w[2] THEN w[2] ELSE p]
<1>5. ASSUME NEW lo \in 0 .. L, NEW hi \in 0 .. L, lo < hi
      PROVE  /\ Middle(<< lo, hi >>) \in lo .. hi - 1
             /\ << lo, Middle(<< lo, hi >>) >> \in W /\ << Middle(<< lo, hi >>) + 1, hi >> \in W
             /\ ring[Middle(<< lo, hi >>) + 1].t >= since <=> Middle(<< lo, hi >>) >= p
  <2>1. lo \in Nat /\ hi \in Nat
    BY <1>1
  <2>2. Middle(<< lo, hi >>) \in lo .. hi - 1
    BY <1>5, <2>1, MiddleFacts
  <2>3. Middle(<< lo, hi >>) \in 0 .. L /\ Middle(<< lo, hi >>) + 1 \in 1 .. L
    BY <1>1, <2>1, <2>2
  <2>4. Middle(<< lo, hi >>) + 1 > p <=> Middle(<< lo, hi >>) >= p
    BY <1>1, <1>4, <2>3
  <2> QED
    BY <1>1, <1>4, <2>2, <2>3, <2>4
<1>6. g = Step(g)
  <2>1. ASSUME NEW lo \in 0 .. L, NEW hi \in 0 .. L, lo < hi
        PROVE  g[<< lo, hi >>] = IF ring[Middle(<< lo, hi >>) + 1].t >= since
                                 THEN g[<< lo, Middle(<< lo, hi >>) >>] ELSE g[<< Middle(<< lo, hi >>) + 1, hi >>]
    <3> DEFINE h == Middle(<< lo, hi >>)
    <3>1. /\ h \in lo .. hi - 1
          /\ << lo, h >> \in W /\ << h + 1, hi >> \in W
          /\ ring[h + 1].t >= since <=> h >= p
      BY <1>5, <2>1
    <3> HIDE DEF h
    <3>2. << lo, hi >> \in W
      OBVIOUS
    <3>3. g[<< lo, hi >>] = IF p < lo THEN lo ELSE IF p > hi THEN hi ELSE p
      BY <2>1, <3>2
    <3>4. g[<< lo, h >>] = IF lo >= h \/ p < lo THEN lo ELSE IF p > h THEN h ELSE p
      BY <3>1
    <3>5. g[<< h + 1, hi >>] = IF h + 1 >= hi \/ p < h + 1 THEN h + 1 ELSE IF p > hi THEN hi ELSE p
      BY <3>1
    <3>6. p \in Nat /\ lo \in Nat /\ hi \in Nat /\ h \in Nat /\ lo =< h /\ h < hi
      BY <1>1, <1>4, <3>1
    <3> HIDE DEF g
    <3>7. h >= p => g[<< lo, hi >>] = g[<< lo, h >>]
      BY <3>3, <3>4, <3>6
    <3>8. ~(h >= p) => g[<< lo, hi >>] = g[<< h + 1, hi >>]
      BY <3>3, <3>5, <3>6
    <3> QED
      BY <3>1, <3>7, <3>8 DEF h
  <2>2. ASSUME NEW w \in W
        PROVE  g[w] = Step(g)[w]
    <3>1. PICK lo \in 0 .. L, hi \in 0 .. L : w = << lo, hi >>
      OBVIOUS
    <3>2. w[1] = lo /\ w[2] = hi
      BY <3>1
    <3>3. Step(g)[w] = IF lo >= hi THEN lo
                       ELSE IF ring[Middle(w) + 1].t >= since
                            THEN g[<< lo, Middle(w) >>] ELSE g[<< Middle(w) + 1, hi >>]
      <4> HIDE DEF g, W
      <4> QED
        BY <3>2
    <3>4. CASE lo >= hi
      <4>1. g[w] = lo
        BY <3>2, <3>4
      <4> QED
        BY <3>3, <3>4, <4>1
    <3>5. CASE ~(lo >= hi)
      <4>1. lo < hi
        BY <1>1, <3>5
      <4> HIDE DEF g, Step
      <4> QED
        BY <2>1, <3>1, <3>3, <3>5, <4>1
    <3> QED
      BY <3>4, <3>5
  <2>3. g = [w \in W |-> g[w]] /\ Step(g) = [w \in W |-> Step(g)[w]]
    OBVIOUS
  <2> HIDE DEF g, Step
  <2> QED
    BY <2>2, <2>3
<1>7. search = Step(search)
  <2> HIDE DEF g, Step
  <2> QED
    BY <1>6, Zenon
<1>8. \A lo, hi \in 0 .. L :
         search[<< lo, hi >>] =
            IF lo >= hi THEN lo
            ELSE IF ring[Middle(<< lo, hi >>) + 1].t >= since
                 THEN search[<< lo, Middle(<< lo, hi >>) >>] ELSE search[<< Middle(<< lo, hi >>) + 1, hi >>]
  <2> HIDE DEF search
  <2>1. \A w \in W : search[w] = IF w[1] >= w[2] THEN w[1]
                          ELSE IF ring[Middle(w) + 1].t >= since
                               THEN search[<< w[1], Middle(w) >>] ELSE search[<< Middle(w) + 1, w[2] >>]
    BY <1>7
  <2> QED
    BY <2>1
<1>9. \A lo, hi \in 0 .. L :
         g[<< lo, hi >>] =
            IF lo >= hi THEN lo
            ELSE IF ring[Middle(<< lo, hi >>) + 1].t >= since
                 THEN g[<< lo, Middle(<< lo, hi >>) >>] ELSE g[<< Middle(<< lo, hi >>) + 1, hi >>]
  <2> HIDE DEF g
  <2>1. \A w \in W : g[w] = IF w[1] >= w[2] THEN w[1]
                          ELSE IF ring[Middle(w) + 1].t >= since
                               THEN g[<< w[1], Middle(w) >>] ELSE g[<< Middle(w) + 1, w[2] >>]
    BY <1>6
  <2> QED
    BY <2>1
<1>10. g[<< 0, L >>] = p
  BY <1>1, <1>4
<1> HIDE DEF g, search, Step
\* By the least length of a piece on which the two would differ.
<1>11. \A lo, hi \in 0 .. L : search[<< lo, hi >>] = g[<< lo, hi >>]
  <2> DEFINE Bad == {d \in 1 .. L : \E lo, hi \in 0 .. L : hi - lo = d /\ search[<< lo, hi >>] # g[<< lo, hi >>]}
  <2>1. ASSUME NEW lo \in 0 .. L, NEW hi \in 0 .. L, search[<< lo, hi >>] # g[<< lo, hi >>]
        PROVE  lo < hi /\ hi - lo \in Bad
    <3>1. ~(lo >= hi)
      BY <1>8, <1>9, <2>1
    <3>2. lo < hi /\ hi - lo \in 1 .. L
      BY <1>1, <3>1
    <3> QED
      BY <2>1, <3>2
  <2>2. ASSUME Bad # {}
        PROVE  FALSE
    <3>1. PICK d \in Bad : \A e \in Bad : d =< e
      <4>1. Bad \subseteq Nat
        BY <1>1
      <4> HIDE DEF Bad
      <4> QED
        BY <2>2, <4>1, LeastNatural
    <3>2. PICK lo \in 0 .. L, hi \in 0 .. L : hi - lo = d /\ search[<< lo, hi >>] # g[<< lo, hi >>]
      BY <3>1
    <3>3. lo < hi
      BY <2>1, <3>2
    <3> DEFINE h == Middle(<< lo, hi >>)
    <3>4. h \in lo .. hi - 1 /\ h \in 0 .. L /\ h + 1 \in 0 .. L
      BY <1>1, <1>5, <3>3
    <3>5. search[<< lo, h >>] # g[<< lo, h >>] \/ search[<< h + 1, hi >>] # g[<< h + 1, hi >>]
      BY <1>8, <1>9, <3>2, <3>4
    <3> HIDE DEF h
    <3>6. h - lo \in Bad \/ hi - (h + 1) \in Bad
      BY <2>1, <3>4, <3>5
    <3>7. h - lo < d /\ hi - (h + 1) < d
      BY <1>1, <3>2, <3>4
    <3> HIDE DEF Bad
    <3>8. h - lo \in Int /\ hi - (h + 1) \in Int /\ d \in Int
      BY <1>1, <3>2, <3>4
    <3> QED
      BY <3>1, <3>6, <3>7, <3>8
  <2> QED
    BY <2>1, <2>2
<1>12. SearchFrom(since) = p
  BY <1>1, <1>2, <1>10, <1>11
<1> QED
  BY <1>4, <1>12 DEF L
-----------------------------------------------------------------------------
(***************************************************************************)
(* What the recorder shows.                                                 *)
(***************************************************************************)
\* A round was accepted once, under its own number, no later than now.
Accepted ==
    /\ history \subseteq Round
    /\ \A r \in history : r.n =< Cardinality(history) /\ r.t =< now
    /\ \A r, s \in history : r.n = s.n => r = s

\* Everything that is shown, on its way, stored or missed was accepted.
Kept ==
    /\ ring \in Seq(history) /\ found \in Seq(history)
    /\ open \subseteq history /\ disk \subseteq history /\ missed \subseteq history

OneRowPerStamp == \A r, s \in disk : r.t = s.t => r = s

\* No round of a probe loop began after now.
ClocksBehind ==
    /\ now > 0
    /\ \A k \in Slots : loops[k] # NoLoop => loops[k].t =< now

OneRuns == \A j, k \in Running : j = k

\* The round that is being measured for the registered target began after whatever
\* running loops have appended.
RunningIsNewest ==
    \A k \in Running : loops[k].t # 0 => \A i \in DOMAIN ring : ring[i].late \/ ring[i].t =< loops[k].t

RingInOrder == Len(ring) =< Cap /\ InOrder(ring)

NoneUnregistered == reg = "none" => ring = << >> /\ replay = "no"

FoundInOrder == \A i, j \in DOMAIN found : i < j => found[i].t < found[j].t

\* A round that the replay's result lacks is older than a day, or is counted as missed.
FoundAll ==
    replay = "assign" =>
        \A r \in history \ missed : r.t + Day < now \/ \E i \in DOMAIN found : found[i] = r

RoundsInv == Accepted /\ Kept /\ OneRowPerStamp
LoopsInv == ClocksBehind /\ OneRuns /\ RunningIsNewest
OrderInv == RingInOrder /\ NoneUnregistered /\ FoundInOrder /\ FoundAll /\ Intact

RInv == IInv /\ RoundsInv /\ LoopsInv /\ OrderInv

LEMMA RingFacts ==
    ASSUME RoundsInv
    PROVE  /\ Len(ring) \in Nat /\ DOMAIN ring = 1 .. Len(ring)
           /\ \A i \in DOMAIN ring : ring[i] \in history /\ ring[i] \in Round
           /\ ring \in Seq(Round)
<1>1. ring \in Seq(history) /\ history \subseteq Round
  BY DEF RoundsInv, Kept, Accepted
<1>2. ring \in Seq(Round)
  BY <1>1, SeqMonotonic
<1> QED
  BY <1>1, <1>2

LEMMA InitRInv == Init => RInv
<1> SUFFICES ASSUME Init
             PROVE  RInv
  OBVIOUS
<1>1. RoundsInv
  BY FS_EmptySet DEF Init, RoundsInv, Accepted, Kept, OneRowPerStamp
<1>2. LoopsInv
  BY DEF Init, LoopsInv, ClocksBehind, OneRuns, Running, RunningIsNewest
<1>3. OrderInv
  BY RecorderAssumption
     DEF Init, OrderInv, RingInOrder, InOrder, NoneUnregistered, FoundInOrder, FoundAll, Intact
<1> QED
  BY InitIInv, <1>1, <1>2, <1>3 DEF RInv

\* Steps that accept no round.
LEMMA RoundsKept ==
    ASSUME RInv, UNCHANGED history, now' \in Nat, now' >= now,
           ring' \in Seq(history), found' \in Seq(history),
           open' \subseteq history, missed' \subseteq history, UNCHANGED disk
    PROVE  RoundsInv'
<1>1. Accepted'
  <2>1. now \in Nat /\ \A r \in history : r.t \in Nat
    BY DEF RInv, IInv, Typed, RoundsInv, Accepted, Round
  <2> QED
    BY <2>1 DEF RInv, RoundsInv, Accepted
<1> QED
  BY <1>1 DEF RInv, RoundsInv, Kept, OneRowPerStamp

\* Steps that leave the probe loops and the ring alone.
LEMMA LoopsKept ==
    ASSUME RInv, UNCHANGED << now, ring, loops >>
    PROVE  LoopsInv'
BY DEF RInv, LoopsInv, ClocksBehind, OneRuns, Running, RunningIsNewest

\* Steps that leave all but the write path alone.
LEMMA MemoryKept ==
    ASSUME RInv, UNCHANGED << now, memory, history >>
    PROVE  OrderInv'
BY DEF memory, RInv, OrderInv, RingInOrder, InOrder, NoneUnregistered, FoundInOrder, FoundAll, Intact, Shown

LEMMA AdvanceKeepsR ==
    ASSUME RInv, Advance, IInv'
    PROVE  RInv'
<1>1. /\ now' = now + 1 /\ now \in Nat /\ now' \in Nat /\ Day \in Nat
      /\ UNCHANGED << reg, ring, replay, found, missed, open, disk, history >>
  BY RecorderAssumption DEF Advance, memory, RInv, IInv, Typed
<1>2. RoundsInv'
  BY <1>1, RoundsKept DEF RInv, RoundsInv, Kept
<1>3. ASSUME NEW k \in Slots
      PROVE  /\ loops[k] = NoLoop <=> loops'[k] = NoLoop
             /\ loops[k] # NoLoop => /\ loops'[k].stop = loops[k].stop
                                     /\ loops'[k].t = loops[k].t /\ loops[k].t \in Nat
  <2>1. loops[k] \in {NoLoop} \cup ProbeLoop
    BY DEF RInv, IInv, Typed
  <2>2. loops'[k] = IF loops[k] = NoLoop THEN NoLoop ELSE [loops[k] EXCEPT !.due = TRUE]
    BY DEF Advance
  <2>3. CASE loops[k] = NoLoop
    BY <2>2, <2>3
  <2>4. CASE loops[k] \in ProbeLoop
    <3>1. [loops[k] EXCEPT !.due = TRUE] \in ProbeLoop
      BY <2>4 DEF ProbeLoop
    <3> QED
      BY <2>2, <2>4, <3>1, LoopFacts DEF ProbeLoop
  <2> QED
    BY <2>1, <2>3, <2>4
<1>4. LoopsInv'
  BY <1>1, <1>3 DEF RInv, LoopsInv, ClocksBehind, OneRuns, Running, RunningIsNewest
<1>5. OrderInv'
  <2>1. \A r \in history : r.t \in Nat
    BY DEF RInv, RoundsInv, Accepted, Round
  <2>2. \A r \in history : r.t + Day < now => r.t + Day < now'
    BY <1>1, <2>1
  <2> QED
    BY <1>1, <2>2
       DEF RInv, OrderInv, RingInOrder, InOrder, NoneUnregistered, FoundInOrder, FoundAll, Intact, Shown
<1> QED
  BY <1>2, <1>4, <1>5 DEF RInv

LEMMA EnsureTargetKeepsR ==
    ASSUME RInv, NEW name \in Names, EnsureTarget(name), IInv'
    PROVE  RInv'
<1>1. /\ ring' = << >> /\ reg' = name /\ replay' = "query"
      /\ UNCHANGED << now, found, loops, open, disk, history, missed >>
  BY DEF EnsureTarget
<1>2. RoundsInv'
  BY <1>1, RoundsKept DEF RInv, IInv, Typed, RoundsInv, Kept
<1>3. LoopsInv'
  BY <1>1 DEF RInv, LoopsInv, ClocksBehind, OneRuns, Running, RunningIsNewest
<1>4. OrderInv'
  BY <1>1, RecorderAssumption
     DEF RInv, OrderInv, RingInOrder, InOrder, NoneUnregistered, FoundInOrder, FoundAll, Intact
<1> QED
  BY <1>2, <1>3, <1>4 DEF RInv

\* The query is shown the last day's rows.
LEMMA LastDayKept ==
    ASSUME RInv
    PROVE  /\ LastDay \in Seq(history) /\ Len(LastDay) \in Nat /\ DOMAIN LastDay = 1 .. Len(LastDay)
           /\ \A i \in DOMAIN LastDay : LastDay[i] \in history /\ LastDay[i].t \in Nat
           /\ \A i, j \in DOMAIN LastDay : i < j => LastDay[i].t < LastDay[j].t
           /\ \A r \in disk : r.t + Day >= now => \E i \in DOMAIN LastDay : LastDay[i] = r
<1>1. /\ disk \subseteq history /\ history \subseteq Round /\ IsFiniteSet(history) /\ now \in Nat
      /\ \A r \in history : r.t =< now
      /\ \A r, s \in disk : r.t = s.t => r = s
  BY DEF RInv, IInv, Typed, RoundsInv, Accepted, Kept, OneRowPerStamp
<1>2. IsFiniteSet(disk)
  BY <1>1, FS_Subset
<1>3. /\ LastDay \in Seq(disk)
      /\ \A i, j \in DOMAIN LastDay : i < j => LastDay[i].t < LastDay[j].t
      /\ \A r \in disk : r.t + Day >= now => \E i \in DOMAIN LastDay : LastDay[i] = r
  <2>1. disk \subseteq Round /\ \A r \in disk : r.t =< now
    BY <1>1
  <2> QED
    BY <1>1, <1>2, <2>1, LastDayFacts
<1>4. LastDay \in Seq(history)
  BY <1>1, <1>3, SeqMonotonic
<1>5. \A i \in DOMAIN LastDay : LastDay[i] \in history
  BY <1>4
<1> QED
  BY <1>1, <1>3, <1>4, <1>5 DEF Round

\* What a replay has read, and what it cannot show.
LEMMA ReadKeeps ==
    ASSUME RInv, IInv', NEW read \in 0 .. Len(LastDay),
           replay' = "assign", reg' # "none",
           found' = SubSeq(LastDay, 1, read),
           missed' \subseteq history,
           \A r \in history \ missed' : r.t + Day < now \/ \E i \in 1 .. read : LastDay[i] = r,
           UNCHANGED << now, reg, ring, loops, open, disk, history >>
    PROVE  RInv'
<1>1. read \in Nat /\ read =< Len(LastDay)
  BY LastDayKept
<1>2. /\ found' \in Seq(history) /\ DOMAIN found' = 1 .. read
      /\ \A i \in 1 .. read : found'[i] = LastDay[i]
  BY <1>1, LastDayKept
<1>3. RoundsInv'
  BY <1>2, RoundsKept DEF RInv, IInv, Typed, RoundsInv, Kept
<1>4. LoopsInv'
  BY LoopsKept
<1>5. RingInOrder' /\ NoneUnregistered' /\ Intact'
  BY DEF RInv, OrderInv, RingInOrder, InOrder, NoneUnregistered, Intact
<1>6. FoundInOrder'
  BY <1>1, <1>2, LastDayKept DEF FoundInOrder
<1>7. FoundAll'
  <2> SUFFICES ASSUME NEW r \in history \ missed'
               PROVE  r.t + Day < now \/ \E i \in DOMAIN found' : found'[i] = r
    BY DEF FoundAll
  <2> QED
    BY <1>2
<1> QED
  BY <1>3, <1>4, <1>5, <1>6, <1>7 DEF RInv, OrderInv

\* The query returns.
LEMMA QueryKeepsR ==
    ASSUME RInv, Query, IInv'
    PROVE  RInv'
<1>1. /\ replay' = "assign" /\ found' = LastDay /\ missed' = history \ disk
      /\ UNCHANGED << now, reg, ring, loops, open, disk, history >>
      /\ reg # "none"
  BY DEF Query, RInv, OrderInv, NoneUnregistered
<1>2. SubSeq(LastDay, 1, Len(LastDay)) = LastDay
  BY LastDayKept, SubSeqFull
<1>3. ASSUME NEW r \in history \ missed'
      PROVE  r.t + Day < now \/ \E i \in 1 .. Len(LastDay) : LastDay[i] = r
  <2>1. r \in disk /\ r.t \in Nat /\ now \in Nat /\ Day \in Nat
    BY <1>1, <1>3, RecorderAssumption DEF RInv, IInv, Typed, RoundsInv, Accepted, Round
  <2> QED
    BY <2>1, LastDayKept
<1>4. Len(LastDay) \in 0 .. Len(LastDay)
  BY LastDayKept
<1> QED
  BY <1>1, <1>2, <1>3, <1>4, ReadKeeps

\* It fails: what has been read is the result.
LEMMA QueryFailsKeepsR ==
    ASSUME RInv, QueryFails, IInv'
    PROVE  RInv'
<1>1. /\ replay' = "assign"
      /\ UNCHANGED << now, reg, ring, loops, open, disk, history >>
      /\ reg # "none"
  BY DEF QueryFails, RInv, OrderInv, NoneUnregistered
<1>2. PICK read \in 0 .. Len(LastDay) :
         /\ found' = SubSeq(LastDay, 1, read)
         /\ missed' = history \ {LastDay[i] : i \in 1 .. read}
  BY DEF QueryFails
<1>3. \A r \in history \ missed' : r.t + Day < now \/ \E i \in 1 .. read : LastDay[i] = r
  BY <1>2
<1> QED
  BY <1>1, <1>2, <1>3, ReadKeeps
\* Assign: the result's last Cap rounds become the ring.  What of the last day it
\* lacks is missed, or pushed out by rounds that are newer.
LEMMA AssignKeepsR ==
    ASSUME RInv, Assign, IInv'
    PROVE  RInv'
<1>1. /\ ring' = Keep(found) /\ found' = << >> /\ replay = "assign" /\ replay' = "no" /\ reg # "none"
      /\ UNCHANGED << now, reg, open, disk, history, missed >>
  BY DEF Assign, Refill, RInv, OrderInv, NoneUnregistered
<1>2. /\ found \in Seq(history) /\ history \subseteq Round
      /\ \A i, j \in DOMAIN found : i < j => found[i].t < found[j].t
      /\ now \in Nat /\ reg \in Names /\ NoneRuns
  BY <1>1 DEF RInv, IInv, Typed, RunsWhenReplayed, RoundsInv, Accepted, Kept, OrderInv, FoundInOrder
<1>3. /\ found \in Seq(Round) /\ Len(found) \in Nat /\ DOMAIN found = 1 .. Len(found)
      /\ \A i \in DOMAIN found : found[i].t \in Nat
  <2>1. found \in Seq(Round)
    BY <1>2, SeqMonotonic
  <2>2. \A i \in DOMAIN found : found[i] \in Round
    BY <2>1
  <2> QED
    BY <2>1, <2>2 DEF Round
<1>4. PICK d \in 0 .. Len(found) :
        /\ Keep(found) \in Seq(history)
        /\ Len(Keep(found)) = Len(found) - d
        /\ \A i \in 1 .. Len(found) - d : Keep(found)[i] = found[i + d]
        /\ Len(Keep(found)) =< Cap
        /\ d # 0 => Len(Keep(found)) = Cap
  BY <1>2, KeepCuts
<1>5. RoundsInv'
  BY <1>1, <1>2, <1>4, RoundsKept DEF RInv, RoundsInv, Kept
<1>6. RingInOrder'
  <2>1. InOrder(found)
    BY <1>2, <1>3, SortedInOrder
  <2> QED
    BY <1>1, <1>2, <1>4, <2>1, KeepInOrder DEF RingInOrder
<1>7. LoopsInv'
  <2>1. PICK k \in FreeSlots : loops' = [loops EXCEPT ![k] = Loop(reg)]
    BY DEF Assign
  <2>2. k \in Slots /\ loops'[k] = Loop(reg) /\ \A j \in Slots \ {k} : loops'[j] = loops[j]
    BY <2>1 DEF FreeSlots, RInv, IInv, Typed
  <2>3. Loop(reg).t = 0
    BY DEF Loop
  <2>4. \A j \in Slots : j \in Running' => j = k
    BY <1>2, <2>2 DEF Running, NoneRuns
  <2>5. Running' \subseteq Slots
    BY DEF Running
  <2> QED
    BY <1>1, <1>2, <2>2, <2>3, <2>4, <2>5 DEF RInv, LoopsInv, ClocksBehind, OneRuns, RunningIsNewest
<1>8. NoneUnregistered' /\ FoundInOrder' /\ FoundAll'
  BY <1>1 DEF NoneUnregistered, FoundInOrder, FoundAll
<1>9. Intact'
  <2> SUFFICES ASSUME NEW r \in history, r \notin Shown', r \notin missed
               PROVE  \/ r.t + Day < now
                      \/ /\ Len(ring') = Cap
                         /\ \A s \in Shown' : s.t >= r.t \/ s.n > r.n
    BY <1>1 DEF Intact
  <2>1. CASE r.t + Day < now
    BY <2>1
  <2>2. CASE ~(r.t + Day < now)
    <3>1. PICK i \in DOMAIN found : found[i] = r
      BY <1>1, <2>2 DEF RInv, OrderInv, FoundAll
    <3>2. Shown' = {ring'[j] : j \in 1 .. Len(found) - d}
      <4>1. DOMAIN ring' = 1 .. Len(found) - d
        BY <1>1, <1>3, <1>4
      <4> QED
        BY <4>1 DEF Shown
    <3>3. ~(i > d)
      <4> SUFFICES ASSUME i > d
                   PROVE  FALSE
        OBVIOUS
      <4>1. i - d \in 1 .. Len(found) - d /\ (i - d) + d = i
        BY <1>3
      <4>2. ring'[i - d] = r
        BY <1>1, <1>4, <3>1, <4>1
      <4> QED
        BY <3>2, <4>1, <4>2
    <3>4. d # 0 /\ i =< d
      BY <1>3, <3>3
    <3>5. ASSUME NEW s \in Shown'
          PROVE  s.t >= r.t
      <4>1. PICK j \in 1 .. Len(found) - d : s = found[j + d]
        BY <1>1, <1>4, <3>2
      <4>2. j + d \in DOMAIN found /\ i < j + d
        BY <1>3, <3>4
      <4> QED
        BY <1>2, <1>3, <3>1, <4>1, <4>2
    <3> QED
      BY <1>1, <1>4, <3>4, <3>5
  <2> QED
    BY <2>1, <2>2
<1> QED
  BY <1>5, <1>6, <1>7, <1>8, <1>9 DEF RInv, OrderInv

\* Telling every loop to stop leaves their clocks alone.
LEMMA StoppedClocks ==
    ASSUME RInv
    PROVE  \A k \in Slots : Stopped[k] # NoLoop => loops[k] # NoLoop /\ Stopped[k].t = loops[k].t
<1> SUFFICES ASSUME NEW k \in Slots, Stopped[k] # NoLoop
             PROVE  loops[k] # NoLoop /\ Stopped[k].t = loops[k].t
  OBVIOUS
<1>1. loops[k] \in {NoLoop} \cup ProbeLoop
  BY DEF RInv, IInv, Typed
<1>2. CASE k \in Running
  <2>1. Stopped[k] = [loops[k] EXCEPT !.stop = TRUE] /\ loops[k] \in ProbeLoop
    BY <1>1, <1>2 DEF Stopped, Running
  <2> QED
    BY <2>1, LoopFacts DEF ProbeLoop
<1>3. CASE k \notin Running
  BY <1>3 DEF Stopped
<1> QED
  BY <1>2, <1>3

LEMMA RemoveTargetKeepsR ==
    ASSUME RInv, RemoveTarget, IInv'
    PROVE  RInv'
<1>1. /\ loops' = Stopped /\ reg' = "none" /\ ring' = << >> /\ missed' = {}
      /\ replay = "no" /\ UNCHANGED << now, replay, found, open, disk, history >>
  BY DEF RemoveTarget
<1>2. RoundsInv'
  BY <1>1, RoundsKept DEF RInv, IInv, Typed, RoundsInv, Kept
<1>3. LoopsInv'
  <2>1. Running' = {}
    BY <1>1, StoppedFacts DEF RInv, IInv, Running
  <2> QED
    BY <1>1, <2>1, StoppedClocks DEF RInv, LoopsInv, ClocksBehind, OneRuns, RunningIsNewest
<1>4. OrderInv'
  BY <1>1, RecorderAssumption
     DEF RInv, OrderInv, RingInOrder, InOrder, NoneUnregistered, FoundInOrder, FoundAll, Intact
<1> QED
  BY <1>2, <1>3, <1>4 DEF RInv

LEMMA EditTargetKeepsR ==
    ASSUME RInv, NEW name \in Names, EditTarget(name), IInv'
    PROVE  RInv'
<1>1. /\ reg' = name /\ reg # "none" /\ name # "none" /\ replay = "no"
      /\ UNCHANGED << now, ring, replay, found, open, disk, history, missed >>
  BY RecorderAssumption DEF EditTarget
<1>2. RoundsInv'
  BY <1>1, RoundsKept DEF RInv, IInv, Typed, RoundsInv, Kept
<1>3. LoopsInv'
  <2>1. PICK k \in FreeSlots : loops' = [Stopped EXCEPT ![k] = Loop(name)]
    BY DEF EditTarget
  <2>2. k \in Slots /\ loops'[k] = Loop(name) /\ \A j \in Slots \ {k} : loops'[j] = Stopped[j]
    BY <2>1, StoppedFacts DEF FreeSlots, RInv, IInv
  <2>3. Loop(name).t = 0
    BY DEF Loop
  <2>4. \A j \in Running' : j = k
    BY <2>2, StoppedFacts DEF Running, RInv, IInv
  <2>5. \A j \in Slots : loops'[j] # NoLoop => loops'[j].t =< now
    BY <2>2, <2>3, StoppedClocks DEF RInv, IInv, Typed, LoopsInv, ClocksBehind
  <2> QED
    BY <1>1, <2>2, <2>3, <2>4, <2>5 DEF RInv, LoopsInv, ClocksBehind, OneRuns, RunningIsNewest
<1>4. OrderInv'
  BY <1>1
     DEF RInv, OrderInv, RingInOrder, InOrder, NoneUnregistered, FoundInOrder, FoundAll, Intact, Shown
<1> QED
  BY <1>2, <1>3, <1>4 DEF RInv

\* A round that begins now begins after all that were accepted.
LEMMA BeginKeepsR ==
    ASSUME RInv, NEW k \in Slots, Begin(k), IInv'
    PROVE  RInv'
<1>1. /\ loops[k] \in ProbeLoop /\ now \in Nat
      /\ loops' = [loops EXCEPT ![k].t = now, ![k].due = FALSE]
      /\ UNCHANGED << now, reg, ring, replay, found, missed, open, disk, history >>
  BY DEF Begin, memory, RInv, IInv, Typed
<1> DEFINE l == [loops[k] EXCEPT !.t = now, !.due = FALSE]
<1>2. l \in ProbeLoop /\ l # NoLoop /\ l.t = now /\ l.stop = loops[k].stop
  BY <1>1, LoopFacts DEF ProbeLoop
<1>3. loops' = [loops EXCEPT ![k] = l]
  BY DEF Begin
<1> HIDE DEF l
<1>4. loops'[k] = l /\ \A j \in Slots \ {k} : loops'[j] = loops[j]
  BY <1>3 DEF RInv, IInv, Typed
<1>5. Running' = Running
  BY <1>1, <1>2, <1>4, LoopFacts DEF Running
<1>6. \A i \in DOMAIN ring : ring[i].t =< now
  BY RingFacts DEF RInv, RoundsInv, Accepted
<1>7. LoopsInv'
  <2>1. ClocksBehind'
    <3>1. \A j \in Slots \ {k} : loops'[j] # NoLoop => loops'[j].t =< now
      BY <1>4 DEF RInv, LoopsInv, ClocksBehind
    <3>2. loops'[k].t =< now
      BY <1>2, <1>4 DEF RInv, IInv, Typed
    <3>3. \A j \in Slots : loops'[j] # NoLoop => loops'[j].t =< now
      BY <3>1, <3>2
    <3> QED
      BY <1>1, <3>3 DEF RInv, LoopsInv, ClocksBehind
  <2>2. OneRuns'
    BY <1>5 DEF RInv, LoopsInv, OneRuns
  <2>3. RunningIsNewest'
    BY <1>1, <1>2, <1>4, <1>5, <1>6 DEF RInv, LoopsInv, RunningIsNewest, Running
  <2> QED
    BY <2>1, <2>2, <2>3 DEF LoopsInv
<1>8. RoundsInv'
  BY <1>1, RoundsKept DEF RInv, RoundsInv, Kept
<1>9. OrderInv'
  BY <1>1, MemoryKept DEF memory
<1> QED
  BY <1>7, <1>8, <1>9 DEF RInv

LEMMA ExitKeepsR ==
    ASSUME RInv, NEW k \in Slots, Exit(k), IInv'
    PROVE  RInv'
<1>1. /\ now \in Nat /\ loops' = [loops EXCEPT ![k] = NoLoop]
      /\ UNCHANGED << now, reg, ring, replay, found, missed, open, disk, history >>
  BY DEF Exit, memory, RInv, IInv, Typed
<1>2. loops'[k] = NoLoop /\ \A j \in Slots \ {k} : loops'[j] = loops[j]
  BY <1>1 DEF RInv, IInv, Typed
<1>3. LoopsInv'
  BY <1>1, <1>2 DEF RInv, LoopsInv, ClocksBehind, OneRuns, Running, RunningIsNewest
<1>4. RoundsInv'
  BY <1>1, RoundsKept DEF RInv, RoundsInv, Kept
<1>5. OrderInv'
  BY <1>1, MemoryKept DEF memory
<1> QED
  BY <1>3, <1>4, <1>5 DEF RInv

\* Rows are replaced by stamp.
LEMMA WritePathKeepsR ==
    ASSUME RInv, Persist \/ Lose, IInv'
    PROVE  RInv'
<1>1. /\ UNCHANGED << now, memory, loops, history >>
      /\ open' \subseteq open
  BY DEF Persist, Lose
<1>2. /\ disk' \subseteq history
      /\ OneRowPerStamp'
  <2>1. CASE Lose
    BY <2>1 DEF Lose, RInv, RoundsInv, Kept, OneRowPerStamp
  <2>2. CASE Persist
    <3>1. PICK batch \in SUBSET open : \E kept \in Remaining(batch) : disk' = Written(kept)
      BY <2>2 DEF Persist
    <3>2. PICK kept \in Remaining(batch) : disk' = Written(kept)
      BY <3>1
    <3>3. /\ disk \subseteq history /\ kept \subseteq history
          /\ \A r, s \in disk : r.t = s.t => r = s
          /\ \A r, s \in kept : r.t = s.t => r = s
      BY <3>1, <3>2 DEF RInv, RoundsInv, Kept, OneRowPerStamp, Remaining
    <3>4. disk' \subseteq history
      BY <3>2, <3>3 DEF Written
    <3>5. \A r, s \in disk' : r.t = s.t => r = s
      BY <3>2, <3>3 DEF Written
    <3> QED
      BY <3>4, <3>5 DEF OneRowPerStamp
  <2> QED
    BY <2>1, <2>2
<1>3. RoundsInv'
  BY <1>1, <1>2 DEF memory, RInv, RoundsInv, Accepted, Kept
<1>4. LoopsInv'
  BY <1>1, LoopsKept DEF memory
<1>5. OrderInv'
  BY <1>1, MemoryKept
<1> QED
  BY <1>3, <1>4, <1>5 DEF RInv

LEMMA CrashKeepsR ==
    ASSUME RInv, Crash, IInv'
    PROVE  RInv'
<1>1. /\ reg' = "none" /\ ring' = << >> /\ replay' = "no" /\ found' = << >>
      /\ loops' = [k \in Slots |-> NoLoop] /\ open' = {} /\ missed' = {}
      /\ UNCHANGED << now, disk, history >>
  BY DEF Crash
<1>2. RoundsInv'
  BY <1>1, RoundsKept DEF RInv, IInv, Typed
<1>3. LoopsInv'
  BY <1>1 DEF RInv, LoopsInv, ClocksBehind, OneRuns, Running, RunningIsNewest
<1>4. OrderInv'
  BY <1>1, RecorderAssumption
     DEF RInv, OrderInv, RingInOrder, InOrder, NoneUnregistered, FoundInOrder, FoundAll, Intact
<1> QED
  BY <1>2, <1>3, <1>4 DEF RInv
\* A round is accepted, or its loop's name is not registered.
LEMMA AppendKeepsR ==
    ASSUME RInv, NEW k \in Slots, Append_(k), IInv'
    PROVE  RInv'
<1>1. /\ loops[k] \in ProbeLoop /\ loops[k] # NoLoop /\ loops[k].t # 0 /\ loops[k].t \in Nat
      /\ loops[k].stop \in BOOLEAN /\ loops[k].t =< now /\ now \in Nat
      /\ UNCHANGED << now, reg, replay, found, disk >>
  BY DEF Append_, RInv, IInv, Typed, ProbeLoop, LoopsInv, ClocksBehind
<1> DEFINE l == [loops[k] EXCEPT !.t = 0]
<1>2. l \in ProbeLoop /\ l # NoLoop /\ l.t = 0 /\ l.stop = loops[k].stop
  BY <1>1, LoopFacts DEF ProbeLoop
<1>3. loops' = [loops EXCEPT ![k] = l]
  BY DEF Append_
<1> HIDE DEF l
<1>4. loops'[k] = l /\ \A j \in Slots \ {k} : loops'[j] = loops[j]
  BY <1>3 DEF RInv, IInv, Typed
<1>5. Running' = Running
  BY <1>1, <1>2, <1>4 DEF Running
<1>6. ClocksBehind' /\ OneRuns'
  <2>1. \A j \in Slots : loops'[j] # NoLoop => loops'[j].t =< now
    BY <1>1, <1>2, <1>4 DEF RInv, LoopsInv, ClocksBehind
  <2> QED
    BY <1>1, <1>5, <2>1 DEF RInv, LoopsInv, ClocksBehind, OneRuns
\* The round of the name that is registered.
<1> DEFINE Filed(t) == [t |-> t, n |-> Cardinality(history) + 1, late |-> loops[k].stop]
<1>7. PICK t \in {loops[k].t, now} :
         \/ /\ ring' = Keep(Append(ring, Filed(t)))
            /\ open' = open \cup {Filed(t)}
            /\ history' = history \cup {Filed(t)}
            /\ missed' = IF replay = "assign" THEN missed \cup {Filed(t)} ELSE missed
            /\ loops[k].name = reg
         \/ UNCHANGED << ring, open, history, missed >>
  <2>1. CASE loops[k].name = reg
    BY <2>1 DEF Append_
  <2>2. CASE loops[k].name # reg
    BY <2>2 DEF Append_
  <2> QED
    BY <2>1, <2>2
<1>8. CASE UNCHANGED << ring, open, history, missed >>
  <2>1. RoundsInv'
    BY <1>1, <1>8, RoundsKept DEF RInv, RoundsInv, Kept
  <2>2. OrderInv'
    BY <1>1, <1>8, MemoryKept DEF memory
  <2>3. RunningIsNewest'
    BY <1>2, <1>4, <1>5, <1>8 DEF RInv, LoopsInv, RunningIsNewest, Running
  <2> QED
    BY <1>6, <2>1, <2>2, <2>3 DEF RInv, LoopsInv
<1>9. CASE /\ ring' = Keep(Append(ring, Filed(t)))
           /\ open' = open \cup {Filed(t)}
           /\ history' = history \cup {Filed(t)}
           /\ missed' = IF replay = "assign" THEN missed \cup {Filed(t)} ELSE missed
           /\ loops[k].name = reg
  <2> DEFINE r == Filed(t)
  <2>1. Cardinality(history) \in Nat /\ IsFiniteSet(history)
    BY FS_CardinalityType DEF RInv, IInv, Typed
  <2>2. /\ r \in Round /\ r.n = Cardinality(history) + 1 /\ r.t =< now /\ r.t >= loops[k].t
        /\ r.late = loops[k].stop
    BY <1>1, <2>1 DEF Round
  <2>3. /\ history \subseteq Round
        /\ \A s \in history : s.n \in Nat /\ s.n =< Cardinality(history) /\ s.n < r.n /\ s.t \in Nat /\ s.t =< now
    BY <2>1, <2>2 DEF RInv, RoundsInv, Accepted, Round
  <2>4. /\ ring' = Keep(Append(ring, r)) /\ open' = open \cup {r} /\ history' = history \cup {r}
        /\ missed' = IF replay = "assign" THEN missed \cup {r} ELSE missed
    BY <1>9
  <2> HIDE DEF r
  <2>5. r \notin history /\ Cardinality(history') = Cardinality(history) + 1
    <3>1. r \notin history
      BY <2>2, <2>3
    <3> QED
      BY <2>1, <2>4, <3>1, FS_AddElement
  <2> DEFINE a == Append(ring, r)
  <2>6. /\ Len(ring) \in Nat /\ DOMAIN ring = 1 .. Len(ring)
        /\ ring \in Seq(history) /\ ring \in Seq(Round)
        /\ \A i \in DOMAIN ring : ring[i] \in history
    BY RingFacts DEF RInv, RoundsInv, Kept
  <2>7. /\ a \in Seq(history') /\ Len(a) = Len(ring) + 1
        /\ a[Len(ring) + 1] = r /\ \A i \in 1 .. Len(ring) : a[i] = ring[i]
    <3>1. ring \in Seq(history') /\ r \in history'
      BY <2>4, <2>6, SeqMonotonic
    <3> QED
      BY <2>6, <3>1
  <2> HIDE DEF a
  <2>8. PICK d \in 0 .. Len(ring) + 1 :
          /\ ring' \in Seq(history')
          /\ Len(ring') = Len(ring) + 1 - d
          /\ \A i \in 1 .. Len(ring) + 1 - d : ring'[i] = a[i + d]
          /\ Len(ring') =< Cap
          /\ d # 0 => Len(ring') = Cap
    <3>1. ring' = Keep(a)
      BY <2>4 DEF a
    <3> QED
      BY <2>7, <3>1, KeepCuts
  <2>9. /\ d \in Nat /\ DOMAIN ring' = 1 .. Len(ring) + 1 - d
        /\ \A i \in 1 .. Len(ring) + 1 - d : i + d \in 1 .. Len(ring) + 1
    BY <2>6, <2>8
  <2>10. RoundsInv'
    <3>1. Accepted'
      <4>1. history' \subseteq Round
        BY <2>2, <2>3, <2>4
      <4>2. \A s \in history' : s.n =< Cardinality(history') /\ s.t =< now'
        BY <1>1, <2>1, <2>2, <2>3, <2>4, <2>5
      <4>3. \A s, u \in history' : s.n = u.n => s = u
        BY <2>2, <2>3, <2>4 DEF RInv, RoundsInv, Accepted
      <4> QED
        BY <4>1, <4>2, <4>3 DEF Accepted
    <3>2. found' \in Seq(history')
      BY <1>1, <2>4, SeqMonotonic DEF RInv, RoundsInv, Kept
    <3>3. Kept'
      BY <1>1, <2>4, <2>8, <3>2 DEF RInv, RoundsInv, Kept
    <3>4. OneRowPerStamp'
      BY <1>1 DEF RInv, RoundsInv, OneRowPerStamp
    <3> QED
      BY <3>1, <3>3, <3>4 DEF RoundsInv
  <2>11. ASSUME ~loops[k].stop
         PROVE  \A i \in DOMAIN ring : ring[i].late \/ ring[i].t =< r.t
    <3>1. k \in Running
      BY <1>1, <2>11 DEF Running
    <3>2. \A i \in DOMAIN ring : ring[i].late \/ ring[i].t =< loops[k].t
      BY <1>1, <3>1 DEF RInv, LoopsInv, RunningIsNewest
    <3>3. \A i \in DOMAIN ring : ring[i].t \in Nat
      BY <2>3, <2>6
    <3>4. r.t \in Nat
      BY <2>2 DEF Round
    <3> QED
      BY <1>1, <2>2, <3>2, <3>3, <3>4
  <2>12. RingInOrder'
    <3>1. InOrder(a)
      <4>1. \A i \in DOMAIN ring : ring[i].n < r.n
        BY <2>3, <2>6
      <4>2. r.late \/ \A i \in DOMAIN ring : ring[i].late \/ ring[i].t =< r.t
        BY <2>2, <2>11
      <4>3. InOrder(ring)
        BY DEF RInv, OrderInv, RingInOrder
      <4> QED
        BY <2>2, <2>6, <4>1, <4>2, <4>3, AppendInOrder DEF a
    <3>2. InOrder(Keep(a))
      BY <2>7, <3>1, KeepInOrder
    <3> QED
      BY <2>4, <2>8, <3>2 DEF RingInOrder, a
  <2>13. RunningIsNewest'
    <3> SUFFICES ASSUME NEW j \in Running, loops'[j].t # 0, NEW i \in DOMAIN ring'
                 PROVE  ring'[i].late \/ ring'[i].t =< loops'[j].t
      BY <1>5 DEF RunningIsNewest
    <3>1. j # k /\ j \in Slots /\ loops'[j] = loops[j]
      BY <1>2, <1>4 DEF Running
    <3>2. k \notin Running
      BY <3>1 DEF RInv, LoopsInv, OneRuns
    <3>3. r.late
      BY <1>1, <2>2, <3>2 DEF Running
    <3>4. \A m \in DOMAIN ring : ring[m].late \/ ring[m].t =< loops[j].t
      BY <3>1 DEF RInv, LoopsInv, RunningIsNewest
    <3>5. ring'[i] = r \/ \E m \in DOMAIN ring : ring'[i] = ring[m]
      <4>1. i + d \in 1 .. Len(ring) + 1 /\ ring'[i] = a[i + d]
        BY <2>8, <2>9
      <4> QED
        BY <2>6, <2>7, <4>1
    <3> QED
      BY <3>1, <3>3, <3>4, <3>5
  <2>14. NoneUnregistered'
    <3>1. reg # "none"
      BY <1>1, <1>9, RecorderAssumption DEF ProbeLoop
    <3> QED
      BY <1>1, <3>1 DEF NoneUnregistered
  <2>15. FoundInOrder' /\ FoundAll'
    BY <1>1, <2>4 DEF RInv, OrderInv, FoundInOrder, FoundAll
  <2>16. Intact'
    <3> SUFFICES ASSUME replay = "no", NEW x \in history', x \notin Shown', x \notin missed'
                 PROVE  \/ x.t + Day < now
                        \/ /\ Len(ring') = Cap
                           /\ \A s \in Shown' : s.t >= x.t \/ s.n > x.n
      BY <1>1 DEF Intact
    <3>1. /\ Shown' = {ring'[i] : i \in 1 .. Len(ring) + 1 - d}
          /\ Len(ring) + 1 - d \in Nat /\ Len(ring) + 1 - d >= 1
      BY <2>6, <2>8, <2>9, RecorderAssumption DEF Shown
    <3>2. \A i \in 1 .. Len(ring) + 1 - d : ring'[i] = r \/ \E m \in DOMAIN ring : m = i + d /\ ring'[i] = ring[m]
      BY <2>6, <2>7, <2>8, <2>9
    <3>3. x # r
      <4>1. Len(ring) + 1 - d \in 1 .. Len(ring) + 1 - d /\ (Len(ring) + 1 - d) + d = Len(ring) + 1
        BY <2>6, <2>9, <3>1
      <4>2. ring'[Len(ring) + 1 - d] = r
        BY <2>7, <2>8, <4>1
      <4> QED
        BY <3>1, <4>1, <4>2
    <3>4. x \in history /\ x \notin missed /\ missed' = missed
      BY <2>4, <3>3
    <3>5. reg # "none"
      BY <1>1, <1>9, RecorderAssumption DEF ProbeLoop
    <3>6. CASE x \in Shown
      <4>1. PICK m \in DOMAIN ring : ring[m] = x
        BY <3>6 DEF Shown
      <4>2. m =< d
        <5> SUFFICES ASSUME m > d
                     PROVE  FALSE
          BY <2>6, <2>9
        <5>1. m - d \in 1 .. Len(ring) + 1 - d /\ (m - d) + d = m
          BY <2>6, <2>9
        <5>2. ring'[m - d] = x
          BY <2>6, <2>7, <2>8, <4>1, <5>1
        <5> QED
          BY <3>1, <5>1, <5>2
      <4>3. Len(ring') = Cap
        BY <2>6, <2>8, <4>2
      <4>4. ASSUME NEW s \in Shown'
            PROVE  s.t >= x.t \/ s.n > x.n
        <5>1. PICK i \in 1 .. Len(ring) + 1 - d : s = ring'[i]
          BY <3>1
        <5>2. CASE s = r
          BY <2>3, <3>4, <5>2
        <5>3. CASE s # r
          <6>1. PICK j \in DOMAIN ring : j = i + d /\ s = ring[j]
            BY <3>2, <5>1, <5>3
          <6>2. m < j
            BY <2>6, <2>9, <4>2, <6>1
          <6> QED
            BY <4>1, <6>1, <6>2 DEF RInv, OrderInv, RingInOrder, InOrder
        <5> QED
          BY <5>2, <5>3
      <4> QED
        BY <4>3, <4>4
    <3>7. CASE x \notin Shown
      <4>1. \/ x.t + Day < now
            \/ /\ Len(ring) = Cap
               /\ \A s \in Shown : s.t >= x.t \/ s.n > x.n
        BY <3>4, <3>5, <3>7 DEF RInv, OrderInv, Intact
      <4>2. ASSUME Len(ring) = Cap, \A s \in Shown : s.t >= x.t \/ s.n > x.n
            PROVE  /\ Len(ring') = Cap
                   /\ \A s \in Shown' : s.t >= x.t \/ s.n > x.n
        <5>1. Len(ring') = Cap
          BY <2>6, <2>8, <4>2
        <5>2. ASSUME NEW s \in Shown'
              PROVE  s.t >= x.t \/ s.n > x.n
          <6>1. PICK i \in 1 .. Len(ring) + 1 - d : s = ring'[i]
            BY <3>1
          <6>2. s = r \/ s \in Shown
            BY <3>2, <6>1 DEF Shown
          <6> QED
            BY <2>3, <3>4, <4>2, <6>2
        <5> QED
          BY <5>1, <5>2
      <4> QED
        BY <4>1, <4>2
    <3> QED
      BY <3>6, <3>7
  <2> QED
    BY <1>6, <2>10, <2>12, <2>13, <2>14, <2>15, <2>16 DEF RInv, LoopsInv, OrderInv
<1> QED
  BY <1>7, <1>8, <1>9

LEMMA StepKeepsR ==
    ASSUME RInv, [Next]_vars
    PROVE  RInv'
<1>1. IInv'
  BY StepKeeps DEF RInv
<1>2. CASE Advance
  BY <1>1, <1>2, AdvanceKeepsR
<1>3. CASE \E name \in Names : EnsureTarget(name) \/ EditTarget(name)
  BY <1>1, <1>3, EnsureTargetKeepsR, EditTargetKeepsR
<1>4. CASE Query \/ QueryFails \/ Assign \/ RemoveTarget
  BY <1>1, <1>4, QueryKeepsR, QueryFailsKeepsR, AssignKeepsR, RemoveTargetKeepsR
<1>5. CASE \E k \in Slots : Begin(k) \/ Append_(k) \/ Exit(k)
  BY <1>1, <1>5, BeginKeepsR, AppendKeepsR, ExitKeepsR
<1>6. CASE Persist \/ Lose \/ Crash
  BY <1>1, <1>6, WritePathKeepsR, CrashKeepsR
<1>7. CASE UNCHANGED vars
  <2>1. RoundsInv'
    BY <1>7 DEF vars, RInv, RoundsInv, Accepted, Kept, OneRowPerStamp
  <2> QED
    BY <1>1, <1>7, <2>1, LoopsKept, MemoryKept DEF vars, memory, RInv
<1> QED
  BY <1>2, <1>3, <1>4, <1>5, <1>6, <1>7 DEF Next

\* What the recorder shows, reads and stores is what was accepted, in an order that only
\* stopped loops disturb; what it lacks is accounted for.
THEOREM RecorderInvariant == Spec => []RInv
<1>1. RInv /\ [Next]_vars => RInv'
  BY StepKeepsR
<1> QED
  BY InitRInv, <1>1, PTL DEF Spec

LEMMA InvTypeOK ==
    ASSUME RInv
    PROVE  TypeOK
<1>1. /\ now \in Nat /\ reg \in Names \cup {"none"} /\ replay \in {"no", "query", "assign"}
      /\ \A k \in Slots : loops[k] \in {NoLoop} \cup ProbeLoop
  BY DEF RInv, IInv, Typed
<1>2. ring \in Seq(Round) /\ found \in Seq(Round)
  <2>1. history \subseteq Round /\ ring \in Seq(history) /\ found \in Seq(history)
    BY DEF RInv, RoundsInv, Accepted, Kept
  <2> QED
    BY <2>1, SeqMonotonic
<1>3. Len(ring) =< Cap /\ IsInjective(ring)
  <2>1. InOrder(ring) /\ Len(ring) =< Cap /\ DOMAIN ring \subseteq Nat
    BY RingFacts DEF RInv, OrderInv, RingInOrder
  <2>2. \A i, j \in DOMAIN ring : ring[i] = ring[j] => i = j
    <3> SUFFICES ASSUME NEW i \in DOMAIN ring, NEW j \in DOMAIN ring, i # j
                 PROVE  ring[i] # ring[j]
      OBVIOUS
    <3>1. i < j \/ j < i
      BY <2>1
    <3> QED
      BY <2>1, <3>1 DEF InOrder
  <2> QED
    BY <2>1, <2>2 DEF IsInjective
<1>4. /\ reg = "none" => ring = << >> /\ replay = "no"
      /\ open \subseteq history /\ disk \subseteq history /\ missed \subseteq history
  BY DEF RInv, OrderInv, NoneUnregistered, RoundsInv, Kept
<1>5. \A k \in Slots \ FreeSlots : loops[k].name \in Names /\ loops[k].stop \in BOOLEAN
  BY <1>1 DEF FreeSlots, ProbeLoop
<1> QED
  BY <1>1, <1>2, <1>3, <1>4, <1>5 DEF TypeOK

\* Every variable has its type; the ring is bounded, shows no round twice, and is empty
\* for a target that is not registered.
THEOREM TypeCorrect == Spec => []TypeOK
<1>1. RInv => TypeOK
  BY InvTypeOK
<1> QED
  BY <1>1, RecorderInvariant, PTL

\* store.go:138-139 "comes back with its flight recorder intact": what a registered
\* target's recorder lacks of the last day was not committed when replay asked, or not
\* read, or appended before its result was assigned, or pushed out of a full ring by
\* rounds that are newer or were appended later.
THEOREM RecorderIntact == Spec => []Intact
<1>1. RInv => Intact
  BY DEF RInv, OrderInv
<1> QED
  BY <1>1, RecorderInvariant, PTL

LEMMA InvRecentExact ==
    ASSUME RInv
    PROVE  RecentExact
<1> SUFFICES ASSUME NEW since \in 0 .. now, ~Straddles(since)
             PROVE  {Recent(since)[i] : i \in DOMAIN Recent(since)} = {r \in Shown : r.t >= since}
  BY DEF RecentExact
<1>1. /\ since \in Nat /\ Len(ring) \in Nat /\ DOMAIN ring = 1 .. Len(ring) /\ ring \in Seq(Round)
      /\ \A i \in DOMAIN ring : ring[i] \in Round
  BY RingFacts DEF RInv, IInv, Typed
<1>2. ASSUME NEW i \in DOMAIN ring, NEW j \in DOMAIN ring, i < j, ring[i].t >= since
      PROVE  ring[j].t >= since
  <2>1. ring[i].t \in Nat /\ ring[j].t \in Nat
    BY <1>1 DEF Round
  <2>2. ring[j].t >= ring[i].t \/ ring[i].late \/ ring[j].late
    BY <1>2 DEF RInv, OrderInv, RingInOrder, InOrder
  <2> QED
    BY <1>1, <1>2, <2>1, <2>2 DEF Straddles
<1> DEFINE p == SearchFrom(since)
<1>3. p \in 0 .. Len(ring) /\ \A i \in 1 .. Len(ring) : ring[i].t >= since <=> i > p
  BY <1>1, <1>2, SearchFinds
<1>4. Recent(since) = SubSeq(ring, p + 1, Len(ring))
  BY DEF Recent
<1> HIDE DEF p
<1>5. DOMAIN Recent(since) = 1 .. Len(ring) - p /\ \A i \in 1 .. Len(ring) - p : Recent(since)[i] = ring[i + p]
  <2>1. p \in Nat /\ p =< Len(ring) /\ \A i \in p + 1 .. Len(ring) : ring[i] \in Round
    BY <1>1, <1>3
  <2> QED
    BY <1>1, <1>4, <2>1
<1>6. ASSUME NEW i \in 1 .. Len(ring) - p
      PROVE  Recent(since)[i] \in {r \in Shown : r.t >= since}
  <2>1. i + p \in 1 .. Len(ring) /\ i + p > p
    BY <1>1, <1>3
  <2> QED
    BY <1>1, <1>3, <1>5, <2>1 DEF Shown
<1>7. ASSUME NEW r \in Shown, r.t >= since
      PROVE  \E i \in 1 .. Len(ring) - p : Recent(since)[i] = r
  <2>1. PICK i \in DOMAIN ring : ring[i] = r
    BY DEF Shown
  <2>2. i - p \in 1 .. Len(ring) - p /\ (i - p) + p = i
    BY <1>1, <1>3, <1>7, <2>1
  <2> QED
    BY <1>5, <2>1, <2>2
<1> QED
  BY <1>5, <1>6, <1>7

\* store.go:332 sort.Search over a ring that stopped loops may have put out of order:
\* Recent returns the rounds since then and no other, unless such a pair lies across
\* the boundary.
THEOREM RecentIsExact == Spec => []RecentExact
<1>1. RInv => RecentExact
  BY InvRecentExact
<1> QED
  BY <1>1, RecorderInvariant, PTL
-----------------------------------------------------------------------------
(***************************************************************************)
(* The recorder's write path is the one of module RoundLog, which module    *)
(* WriteBuffer implements: the two modules speak of the same path.          *)
(***************************************************************************)
Stamp == [r \in Round |-> r.t]

Log == INSTANCE RoundLog WITH Rounds <- Round, Key <- Stamp, accepted <- history,
                              stored <- disk, gone <- history \ (open \cup disk)

RoundLogSpec == Log!Spec

\* A round on its way to the disk is not there yet.
OpenNotStored == open \cap disk = {}

LEMMA StepLogs ==
    ASSUME RInv, OpenNotStored, Next
    PROVE  /\ OpenNotStored'
           /\ Log!Next \/ UNCHANGED << history, disk, history \ (open \cup disk) >>
<1>1. open \subseteq history /\ disk \subseteq history /\ history \subseteq Round
  BY DEF RInv, RoundsInv, Accepted, Kept
<1>2. open \in SUBSET Log!Open
  BY <1>1 DEF Log!Open, OpenNotStored
<1>3. ASSUME NEW batch \in SUBSET open, open' = open \ batch, UNCHANGED << disk, history >>
      PROVE  OpenNotStored' /\ Log!Next
  <2>1. history' \ (open' \cup disk') = (history \ (open \cup disk)) \cup batch
    BY <1>1, <1>3 DEF OpenNotStored
  <2>2. Log!Lose(batch)
    BY <1>3, <2>1 DEF Log!Lose
  <2>3. Log!Next
    BY <1>2, <2>2 DEF Log!Next
  <2> QED
    BY <1>3, <2>3 DEF OpenNotStored
<1>4. CASE Persist
  <2>1. PICK batch \in SUBSET open : \E kept \in Remaining(batch) :
            /\ disk' = Written(kept)
            /\ open' = open \ batch
            /\ UNCHANGED history
    BY <1>4 DEF Persist
  <2>2. PICK kept \in Remaining(batch) :
            disk' = Written(kept) /\ open' = open \ batch /\ UNCHANGED history
    BY <2>1
  <2>3. /\ kept \in SUBSET batch /\ batch \subseteq history /\ batch \cap disk = {}
        /\ \A r \in batch : \E s \in kept : s.t = r.t
        /\ \A r, s \in kept : r.t = s.t => r = s
        /\ disk' = {r \in disk : \A s \in kept : s.t # r.t} \cup kept
    BY <1>1, <2>2 DEF Remaining, Written, OpenNotStored
  <2>4. \A r \in history : Stamp[r] = r.t
    BY <1>1 DEF Stamp
  <2>5. history' \ (open' \cup disk') = (history \ (open \cup disk)) \cup ((disk \cup batch) \ disk')
    BY <1>1, <2>2, <2>3 DEF OpenNotStored
  <2>6. disk' = kept \cup {r \in disk : \A s \in kept : Stamp[s] # Stamp[r]}
    BY <1>1, <2>3, <2>4
  <2>7. /\ \A r \in batch : \E s \in kept : Stamp[s] = Stamp[r]
        /\ \A r, s \in kept : Stamp[r] = Stamp[s] => r = s
    BY <1>1, <2>3, <2>4
  <2>8. Log!Persist(batch)
    BY <2>2, <2>3, <2>5, <2>6, <2>7 DEF Log!Persist
  <2>9. Log!Next
    BY <1>2, <2>8 DEF Log!Next
  <2>10. OpenNotStored'
    BY <2>2, <2>3 DEF OpenNotStored
  <2> QED
    BY <2>9, <2>10
<1>5. CASE Lose
  BY <1>3, <1>5 DEF Lose
<1>6. CASE Crash
  BY <1>3, <1>6 DEF Crash
<1>7. ASSUME NEW k \in Slots, Append_(k)
      PROVE  OpenNotStored' /\ (Log!Next \/ UNCHANGED << history, disk, history \ (open \cup disk) >>)
  <2>1. PICK t \in {loops[k].t, now} :
           LET r == [t |-> t, n |-> Cardinality(history) + 1, late |-> loops[k].stop]
           IN  IF loops[k].name = reg
               THEN /\ ring' = Keep(Append(ring, r))
                    /\ open' = open \cup {r}
                    /\ history' = history \cup {r}
                    /\ missed' = IF replay = "assign" THEN missed \cup {r} ELSE missed
               ELSE UNCHANGED << ring, open, history, missed >>
    BY <1>7 DEF Append_
  <2> DEFINE r == [t |-> t, n |-> Cardinality(history) + 1, late |-> loops[k].stop]
  <2>2. disk' = disk
    BY <1>7 DEF Append_
  <2>3. CASE UNCHANGED << open, history >>
    BY <2>2, <2>3 DEF OpenNotStored
  <2>4. CASE open' = open \cup {r} /\ history' = history \cup {r}
    <3>1. r \in Round /\ r \notin history
      <4>1. loops[k] \in ProbeLoop /\ now \in Nat /\ Cardinality(history) \in Nat
        BY <1>7, FS_CardinalityType DEF Append_, RInv, IInv, Typed
      <4>2. t \in Nat /\ loops[k].stop \in BOOLEAN
        BY <4>1 DEF ProbeLoop
      <4>3. r \in Round
        BY <4>1, <4>2 DEF Round
      <4>4. \A s \in history : s.n # r.n
        BY <1>1, <4>1 DEF RInv, RoundsInv, Accepted, Round
      <4> QED
        BY <4>3, <4>4
    <3> HIDE DEF r
    <3>2. history' \ (open' \cup disk') = history \ (open \cup disk)
      BY <2>2, <2>4, <3>1
    <3>3. Log!Accept(r)
      BY <2>2, <2>4, <3>1, <3>2 DEF Log!Accept
    <3>4. OpenNotStored'
      BY <1>1, <2>2, <2>4, <3>1 DEF OpenNotStored
    <3> QED
      BY <3>1, <3>3, <3>4 DEF Log!Next
  <2> QED
    BY <2>1, <2>3, <2>4
<1>8. ASSUME UNCHANGED << open, disk, history >>
      PROVE  OpenNotStored' /\ UNCHANGED << history, disk, history \ (open \cup disk) >>
  BY <1>8 DEF OpenNotStored
<1>9. CASE Advance \/ Query \/ QueryFails \/ Assign \/ RemoveTarget
  BY <1>8, <1>9 DEF Advance, Query, QueryFails, Assign, RemoveTarget
<1>10. CASE \E name \in Names : EnsureTarget(name) \/ EditTarget(name)
  BY <1>8, <1>10 DEF EnsureTarget, EditTarget
<1>11. CASE \E k \in Slots : Begin(k) \/ Exit(k)
  BY <1>8, <1>11 DEF Begin, Exit
<1> QED
  BY <1>4, <1>5, <1>6, <1>7, <1>9, <1>10, <1>11 DEF Next

\* store.go:287-291: the rows that replay reads and the recorder's rounds on their way to
\* them implement module RoundLog, with a round's second for its primary key.
THEOREM ImplementsRoundLog == Spec => RoundLogSpec
<1>1. Init => Log!Init /\ OpenNotStored
  BY DEF Init, Log!Init, OpenNotStored
<1>2. RInv /\ OpenNotStored /\ [Next]_vars => OpenNotStored'
  <2>1. UNCHANGED vars /\ OpenNotStored => OpenNotStored'
    BY DEF vars, OpenNotStored
  <2> QED
    BY <2>1, StepLogs
<1>3. RInv /\ OpenNotStored /\ [Next]_vars => [Log!Next]_<< history, disk, history \ (open \cup disk) >>
  <2>1. UNCHANGED vars => UNCHANGED << history, disk, history \ (open \cup disk) >>
    BY DEF vars
  <2> QED
    BY <2>1, StepLogs
<1> QED
  BY <1>1, <1>2, <1>3, RecorderInvariant, PTL DEF Spec, RoundLogSpec, Log!Spec
=============================================================================
