---------------------------- MODULE ImportProofs ----------------------------
(***************************************************************************)
(* What an import leaves behind, for any files, any table, any number of    *)
(* imports and of edits around them, and whatever fails: its plan puts each *)
(* row where it belongs, it changes no active target, it puts all of its    *)
(* targets into the table or none, its answer is true, and an export comes  *)
(* back as it was.                                                          *)
(*                                                                         *)
(* The transaction's copy of the table keeps what is active, because an     *)
(* upsert refuses an active name; and what it has upserted is active, so a  *)
(* later upsert of the batch cannot overwrite it either.  What the plan     *)
(* says of the rows goes by induction over them (PlanFacts); the tables     *)
(* hold accepted targets, and inactive rows EnsureTarget has put there,     *)
(* which is why an export of the active ones is a file all of whose rows    *)
(* are accepted.                                                            *)
(***************************************************************************)
EXTENDS Import, FiniteSetTheorems, SequenceTheorems, WellFoundedInduction, NaturalsInduction, TLAPS

\* A sequence, of whatever it consists of.
List(s) == s \in Seq({s[i] : i \in DOMAIN s})

IsRow(r) == r.active \in BOOLEAN /\ \E n, c, a : r = NewRow(n, c, a)

Good(tb) == List(tb) /\ UniqueIn(tb) /\ \A i \in DOMAIN tb : IsRow(tb[i])

\* An active row with this name and configuration.
Has(tb, n, c) == \E i \in DOMAIN tb : tb[i] = NewRow(n, c, TRUE)

KeepsActive(tb, tb2) ==
    /\ DOMAIN tb \subseteq DOMAIN tb2
    /\ \A i \in DOMAIN tb : tb[i].active => tb2[i] = tb[i]
-----------------------------------------------------------------------------
(***************************************************************************)
(* Induction over the natural numbers, stated about sets of numbers.        *)
(***************************************************************************)
\* The library's well-founded order, as a set of pairs.
LessThan == {ss \in Nat \X Nat : ss[1] < ss[2]}

LEMMA LessThanWellFounded == IsWellFoundedOn(LessThan, Nat)
BY NatLessThanWellFounded, Zenon DEF OpToRel, LessThan

\* A set of natural numbers that is not empty has a least element.
LEMMA LeastNatural ==
    ASSUME NEW S \in SUBSET Nat, S # {}
    PROVE  \E m \in S : \A k \in S : m =< k
<1>1. PICK m \in S : \A k \in S : ~(<< k, m >> \in LessThan)
  BY LessThanWellFounded, WFMin
<1>2. \A k \in S : ~(k < m)
  BY <1>1 DEF LessThan
<1> QED
  BY <1>2

\* A set that has 0 and with every number the next has them all.
LEMMA EveryNatural ==
    ASSUME NEW S, 0 \in S, \A n \in Nat : n \in S => n + 1 \in S
    PROVE  \A n \in Nat : n \in S
<1> SUFFICES ASSUME Nat \ S # {}
             PROVE  FALSE
  OBVIOUS
<1>1. PICK m \in Nat \ S : \A k \in Nat \ S : m =< k
  BY LeastNatural
<1>2. m # 0 /\ m - 1 \in Nat /\ m - 1 < m
  BY <1>1
<1>3. m - 1 \in S
  BY <1>1, <1>2
<1> QED
  BY <1>1, <1>2, <1>3

\* Numbers from 1 to n can be listed in their order.
LEMMA InOrderOf ==
    ASSUME NEW n \in Nat, NEW A \in SUBSET (1 .. n)
    PROVE  \E s \in [1 .. Cardinality(A) -> A] : \A j, k \in DOMAIN s : j < k => s[j] < s[k]
<1> DEFINE First(m) == A \cap (1 .. m)
           Sorted(m) == {s \in [1 .. Cardinality(First(m)) -> First(m)] :
                            \A j, k \in DOMAIN s : j < k => s[j] < s[k]}
           S == {m \in Nat : Sorted(m) # {}}
<1>1. \A m \in Nat : IsFiniteSet(First(m)) /\ Cardinality(First(m)) \in Nat
  <2> TAKE m \in Nat
  <2>1. IsFiniteSet(1 .. m)
    BY FS_Interval
  <2>2. IsFiniteSet(First(m))
    BY <2>1, FS_Subset
  <2> QED
    BY <2>2, FS_CardinalityType
<1>2. 0 \in S
  <2>1. First(0) = {}
    OBVIOUS
  <2>2. Cardinality(First(0)) = 0
    BY <2>1, FS_EmptySet
  <2>3. << >> \in [1 .. 0 -> First(0)] /\ 1 .. 0 = {} /\ DOMAIN << >> = {}
    OBVIOUS
  <2>4. << >> \in Sorted(0)
    <3> HIDE DEF First
    <3> QED
      BY <2>2, <2>3
  <2> QED
    BY <2>4
<1>3. ASSUME NEW m \in Nat, m \in S
      PROVE  m + 1 \in S
  <2> HIDE DEF Sorted
  <2> SUFFICES \E u : u \in Sorted(m + 1)
    OBVIOUS
  <2> USE DEF Sorted
  <2>1. PICK s \in Sorted(m) : TRUE
    BY <1>3
  <2>2. CASE m + 1 \notin A
    <3>1. First(m + 1) = First(m)
      BY <2>2
    <3>2. s \in Sorted(m + 1)
      BY <2>1, <3>1
    <3> QED
      BY <3>2
  <2>3. CASE m + 1 \in A
    <3> DEFINE c == Cardinality(First(m))
               u == [i \in 1 .. c + 1 |-> IF i =< c THEN s[i] ELSE m + 1]
    <3>1. /\ First(m + 1) = First(m) \cup {m + 1} /\ m + 1 \notin First(m)
          /\ \A x \in First(m) : x < m + 1
      BY <2>3
    <3>2. s \in [1 .. c -> First(m)] /\ \A j, k \in 1 .. c : j < k => s[j] < s[k]
      BY <2>1
    <3>3. \A f \in [1 .. Cardinality(First(m + 1)) -> First(m + 1)] :
             (\A j, k \in DOMAIN f : j < k => f[j] < f[k]) => f \in Sorted(m + 1)
      OBVIOUS
    <3> HIDE DEF First, Sorted
    <3>4. c \in Nat /\ Cardinality(First(m + 1)) = c + 1
      BY <1>1, <3>1, FS_AddElement
    <3> HIDE DEF c
    <3>5. u \in [1 .. c + 1 -> First(m + 1)]
      BY <3>1, <3>2, <3>4
    <3>6. u[c + 1] = m + 1 /\ \A i \in 1 .. c : u[i] = s[i] /\ s[i] \in First(m)
      BY <3>2, <3>4
    <3>7. \A i \in 1 .. c + 1 : i \in 1 .. c \/ i = c + 1
      BY <3>4
    <3> HIDE DEF u
    <3>8. ASSUME NEW j \in 1 .. c + 1, NEW k \in 1 .. c + 1, j < k
          PROVE  u[j] < u[k]
      <4>1. j \in 1 .. c
        BY <3>4, <3>8
      <4>2. CASE k = c + 1
        BY <3>1, <3>6, <4>1, <4>2
      <4>3. CASE k \in 1 .. c
        BY <3>2, <3>6, <3>8, <4>1, <4>3
      <4> QED
        BY <3>7, <4>2, <4>3
    <3> QED
      BY <3>3, <3>4, <3>5, <3>8
  <2> QED
    BY <2>2, <2>3
<1> HIDE DEF S
<1>4. n \in S
  BY <1>2, <1>3, EveryNatural
<1>5. First(n) = A
  OBVIOUS
<1>6. PICK s \in Sorted(n) : TRUE
  BY <1>4 DEF S
<1> QED
  BY <1>5, <1>6

\* Numbers that increase within 1 .. n keep their places.
LEMMA IncreasingKeeps ==
    ASSUME NEW n \in Nat, NEW f \in [1 .. n -> 1 .. n],
           \A i, j \in 1 .. n : i < j => f[i] < f[j]
    PROVE  \A i \in 1 .. n : f[i] = i
<1> DEFINE Up == {i \in Nat : i \in 1 .. n => f[i] >= i}
           Down == {d \in Nat : n - d \in 1 .. n => f[n - d] =< n - d}
<1>1. \A i \in Nat : i \in Up
  <2>1. 0 \in Up
    OBVIOUS
  <2>2. ASSUME NEW i \in Nat, i \in Up
        PROVE  i + 1 \in Up
    <3> SUFFICES ASSUME i + 1 \in 1 .. n
                 PROVE  f[i + 1] >= i + 1
      OBVIOUS
    <3>1. f[i + 1] \in 1 .. n
      OBVIOUS
    <3>2. CASE i = 0
      BY <3>1, <3>2
    <3>3. CASE i # 0
      <4>1. i \in 1 .. n /\ i < i + 1 /\ f[i] \in 1 .. n
        BY <3>3
      <4>2. f[i] < f[i + 1] /\ f[i] >= i
        BY <2>2, <4>1
      <4> QED
        BY <3>1, <4>1, <4>2
    <3> QED
      BY <3>2, <3>3
  <2> HIDE DEF Up
  <2> QED
    BY <2>1, <2>2, EveryNatural
<1>2. \A d \in Nat : d \in Down
  <2>1. 0 \in Down
    OBVIOUS
  <2>2. ASSUME NEW d \in Nat, d \in Down
        PROVE  d + 1 \in Down
    <3> SUFFICES ASSUME n - (d + 1) \in 1 .. n
                 PROVE  f[n - (d + 1)] =< n - (d + 1)
      OBVIOUS
    <3> DEFINE i == n - (d + 1)
    <3>1. i \in 1 .. n /\ n - d = i + 1 /\ i + 1 \in 1 .. n
      OBVIOUS
    <3>2. f[i + 1] =< i + 1
      BY <2>2, <3>1
    <3> HIDE DEF i
    <3>3. f[i] < f[i + 1] /\ f[i] \in 1 .. n /\ f[i + 1] \in 1 .. n
      BY <3>1
    <3>4. f[i] =< i
      BY <3>1, <3>2, <3>3
    <3> QED
      BY <3>4 DEF i
  <2> HIDE DEF Down
  <2> QED
    BY <2>1, <2>2, EveryNatural
<1> SUFFICES ASSUME NEW i \in 1 .. n
             PROVE  f[i] = i
  OBVIOUS
<1>3. f[i] >= i
  BY <1>1
<1>4. n - i \in Nat /\ n - (n - i) = i
  OBVIOUS
<1>5. f[i] =< i
  BY <1>2, <1>4
<1> QED
  BY <1>3, <1>5
-----------------------------------------------------------------------------
(***************************************************************************)
(* Statements on a table whose names and configurations may be anything.    *)
(***************************************************************************)
LEMMA ListIntro ==
    ASSUME NEW S, NEW s \in Seq(S)
    PROVE  List(s)
<1> DEFINE E == {s[i] : i \in DOMAIN s}
<1>1. Len(s) \in Nat /\ DOMAIN s = 1 .. Len(s) /\ s \in [1 .. Len(s) -> S]
  OBVIOUS
<1>2. \A i \in 1 .. Len(s) : s[i] \in E
  BY <1>1
<1> HIDE DEF E
<1>3. s \in [1 .. Len(s) -> E]
  BY <1>1, <1>2
<1>4. s \in Seq(E)
  BY <1>1, <1>3
<1> QED
  BY <1>4 DEF List, E

LEMMA ListAppend ==
    ASSUME NEW s, List(s), NEW r
    PROVE  /\ List(Append(s, r))
           /\ Len(s) \in Nat /\ DOMAIN s = 1 .. Len(s)
           /\ DOMAIN Append(s, r) = 1 .. Len(s) + 1
           /\ \A i \in DOMAIN s : Append(s, r)[i] = s[i]
           /\ Append(s, r)[Len(s) + 1] = r
<1> DEFINE E == {s[i] : i \in DOMAIN s}
           S == E \cup {r}
<1>1. s \in Seq(E)
  BY DEF List
<1> HIDE DEF E
<1>2. s \in Seq(S) /\ r \in S
  BY <1>1
<1> HIDE DEF S
<1>3. Append(s, r) \in Seq(S)
  BY <1>2
<1>4. List(Append(s, r))
  BY <1>3, ListIntro
<1> QED
  BY <1>2, <1>4

LEMMA ListExcept ==
    ASSUME NEW s, List(s), NEW i \in DOMAIN s, NEW r
    PROVE  /\ List([s EXCEPT ![i] = r])
           /\ DOMAIN [s EXCEPT ![i] = r] = DOMAIN s
           /\ [s EXCEPT ![i] = r][i] = r
           /\ \A j \in DOMAIN s \ {i} : [s EXCEPT ![i] = r][j] = s[j]
<1> DEFINE E == {s[k] : k \in DOMAIN s}
           S == E \cup {r}
           s2 == [s EXCEPT ![i] = r]
<1>1. s \in Seq(E)
  BY DEF List
<1> HIDE DEF E
<1>2. s \in Seq(S) /\ r \in S
  BY <1>1
<1> HIDE DEF S
<1>3. /\ s2 \in Seq(S) /\ DOMAIN s2 = DOMAIN s /\ s2[i] = r
      /\ \A j \in DOMAIN s \ {i} : s2[j] = s[j]
  BY <1>2
<1> HIDE DEF s2
<1>4. List(s2)
  BY <1>3, ListIntro
<1> QED
  BY <1>3, <1>4 DEF s2

LEMMA EmptyIsGood == Good(<< >>)
<1>1. << >> \in Seq({}) /\ DOMAIN << >> = {}
  OBVIOUS
<1> QED
  BY <1>1, ListIntro DEF Good, UniqueIn

\* One row replaced by a row whose name no other row has.
LEMMA ReplaceGood ==
    ASSUME NEW tb, Good(tb), NEW i \in DOMAIN tb, NEW r, IsRow(r),
           \A j \in DOMAIN tb \ {i} : tb[j].name # r.name
    PROVE  Good([tb EXCEPT ![i] = r])
<1> DEFINE tb2 == [tb EXCEPT ![i] = r]
<1>1. /\ List(tb2) /\ DOMAIN tb2 = DOMAIN tb /\ tb2[i] = r
      /\ \A j \in DOMAIN tb \ {i} : tb2[j] = tb[j]
  BY ListExcept DEF Good
<1> HIDE DEF tb2
<1>2. UniqueIn(tb2)
  BY <1>1 DEF Good, UniqueIn
<1>3. \A j \in DOMAIN tb2 : IsRow(tb2[j])
  BY <1>1 DEF Good
<1> QED
  BY <1>1, <1>2, <1>3 DEF Good, tb2

LEMMA NewRowFacts ==
    ASSUME NEW n, NEW c, NEW a \in BOOLEAN
    PROVE  /\ IsRow(NewRow(n, c, a))
           /\ NewRow(n, c, a).name = n /\ NewRow(n, c, a).active = a
BY DEF IsRow, NewRow

\* upsertTarget leaves a table with unique names and a row for the target; and if it
\* does not refuse the name, it leaves active rows alone.
LEMMA UpsertFacts ==
    ASSUME NEW tb, Good(tb), NEW n, NEW c
    PROVE  /\ Good(Upsert(tb, n, c))
           /\ Has(Upsert(tb, n, c), n, c)
           /\ ~Taken(tb, n) => KeepsActive(tb, Upsert(tb, n, c))
<1> DEFINE r == NewRow(n, c, TRUE)
           tb2 == Upsert(tb, n, c)
<1>1. IsRow(r) /\ r.name = n
  BY NewRowFacts
<1>2. CASE Known(tb, n)
  <2> DEFINE i == IdOf(tb, n)
  <2>1. i \in DOMAIN tb /\ tb[i].name = n
    BY <1>2 DEF Known, IdOf
  <2>2. tb2 = [tb EXCEPT ![i] = r]
    BY <1>2 DEF Upsert
  <2>3. \A j \in DOMAIN tb \ {i} : tb[j].name # n
    BY <2>1 DEF Good, UniqueIn
  <2> HIDE DEF i, r, tb2
  <2>4. Good(tb2)
    BY <1>1, <2>1, <2>2, <2>3, ReplaceGood
  <2>5. /\ DOMAIN tb2 = DOMAIN tb /\ tb2[i] = r
        /\ \A j \in DOMAIN tb \ {i} : tb2[j] = tb[j]
    BY <2>1, <2>2, ListExcept DEF Good
  <2>6. ~Taken(tb, n) => KeepsActive(tb, tb2)
    BY <2>1, <2>5 DEF Taken, KeepsActive
  <2>7. Has(tb2, n, c)
    BY <2>1, <2>5 DEF Has, r
  <2> QED
    BY <2>4, <2>6, <2>7 DEF tb2
<1>3. CASE ~Known(tb, n)
  <2>1. tb2 = Append(tb, r)
    BY <1>3 DEF Upsert
  <2> HIDE DEF r, tb2
  <2>2. /\ List(tb2) /\ Len(tb) \in Nat /\ DOMAIN tb = 1 .. Len(tb)
        /\ DOMAIN tb2 = 1 .. Len(tb) + 1
        /\ \A i \in DOMAIN tb : tb2[i] = tb[i]
        /\ tb2[Len(tb) + 1] = r
    BY <2>1, ListAppend DEF Good
  <2>3. DOMAIN tb2 = DOMAIN tb \cup {Len(tb) + 1}
    BY <2>2
  <2>4. \A i \in DOMAIN tb : tb[i].name # n
    BY <1>3 DEF Known
  <2>5. Good(tb2)
    BY <1>1, <2>2, <2>3, <2>4 DEF Good, UniqueIn
  <2>6. KeepsActive(tb, tb2)
    BY <2>2, <2>3 DEF KeepsActive
  <2>7. Has(tb2, n, c)
    BY <2>2, <2>3 DEF Has, r
  <2> QED
    BY <2>5, <2>6, <2>7 DEF tb2
<1> QED
  BY <1>2, <1>3

\* EnsureTarget's insert.
LEMMA BareRowFacts ==
    ASSUME NEW tb, Good(tb), NEW n, ~Known(tb, n)
    PROVE  /\ Good(BareRow(tb, n))
           /\ Len(tb) \in Nat /\ DOMAIN BareRow(tb, n) = DOMAIN tb \cup {Len(tb) + 1}
           /\ \A i \in DOMAIN tb : i # Len(tb) + 1 /\ BareRow(tb, n)[i] = tb[i]
           /\ BareRow(tb, n)[Len(tb) + 1] = NewRow(n, NoCfg, FALSE)
<1> DEFINE r == NewRow(n, NoCfg, FALSE)
           tb2 == BareRow(tb, n)
<1>1. IsRow(r) /\ r.name = n
  BY DEF NewRow, IsRow
<1>2. tb2 = Append(tb, r)
  BY DEF BareRow
<1> HIDE DEF r, tb2
<1>3. /\ Len(tb) \in Nat /\ DOMAIN tb = 1 .. Len(tb) /\ DOMAIN tb2 = 1 .. Len(tb) + 1
      /\ \A i \in DOMAIN tb : tb2[i] = tb[i]
      /\ tb2[Len(tb) + 1] = r /\ List(tb2)
  BY <1>2, ListAppend DEF Good
<1>4. \A i \in DOMAIN tb : tb[i].name # n
  BY DEF Known
<1>5. Good(tb2)
  BY <1>1, <1>3, <1>4 DEF Good, UniqueIn
<1>6. DOMAIN tb2 = DOMAIN tb \cup {Len(tb) + 1} /\ \A i \in DOMAIN tb : i # Len(tb) + 1
  BY <1>3
<1> QED
  BY <1>3, <1>5, <1>6 DEF r, tb2

\* UpdateTarget and DeactivateTarget.
LEMMA UpdateGood ==
    ASSUME NEW tb, Good(tb), NEW i, NEW n, NEW c, Updatable(tb, i, n)
    PROVE  Good(Update(tb, i, n, c))
<1> DEFINE r == NewRow(n, c, TRUE)
<1>1. IsRow(r) /\ r.name = n
  BY DEF NewRow, IsRow
<1>2. /\ i \in DOMAIN tb /\ \A j \in DOMAIN tb \ {i} : tb[j].name # r.name
      /\ Update(tb, i, n, c) = [tb EXCEPT ![i] = r]
  BY <1>1 DEF Updatable, Update
<1> HIDE DEF r
<1>3. Good([tb EXCEPT ![i] = r])
  BY <1>1, <1>2, ReplaceGood
<1> QED
  BY <1>2, <1>3, Zenon

LEMMA DeactivateGood ==
    ASSUME NEW tb, Good(tb), NEW i \in DOMAIN tb
    PROVE  Good(Deactivate(tb, i))
<1> DEFINE r == [tb[i] EXCEPT !.active = FALSE]
<1>1. PICK n, c, a : tb[i] = NewRow(n, c, a)
  BY DEF Good, IsRow
<1>2. r = NewRow(n, c, FALSE)
  <2>1. tb[i] \in [name : {n}, cfg : {c}, active : {a}]
    BY <1>1 DEF NewRow
  <2>2. r \in [name : {n}, cfg : {c}, active : {FALSE}]
    BY <2>1
  <2> HIDE DEF r
  <2>3. r.name = n /\ r.cfg = c /\ r.active = FALSE
    BY <2>2
  <2>4. r = [name |-> r.name, cfg |-> r.cfg, active |-> r.active]
    BY <2>2
  <2> QED
    BY <2>3, <2>4, Zenon DEF NewRow
<1>3. IsRow(r) /\ r.name = tb[i].name
  <2>1. IsRow(r)
    BY <1>2, NewRowFacts
  <2>2. r.name = n /\ tb[i].name = n
    BY <1>1, <1>2 DEF NewRow
  <2> QED
    BY <2>1, <2>2
<1>4. \A j \in DOMAIN tb \ {i} : tb[j].name # r.name
  BY <1>3 DEF Good, UniqueIn
<1>5. Deactivate(tb, i) = [tb EXCEPT ![i] = r]
  BY DEF Deactivate
<1> HIDE DEF r
<1>6. Good([tb EXCEPT ![i] = r])
  BY <1>3, <1>4, ReplaceGood
<1> QED
  BY <1>5, <1>6, Zenon

\* The row an upsert wrote is there, and the name leads to it.
LEMMA HasFacts ==
    ASSUME NEW tb, Good(tb), NEW n, NEW c, Has(tb, n, c)
    PROVE  tb[IdOf(tb, n)] = NewRow(n, c, TRUE)
<1>1. PICK i \in DOMAIN tb : tb[i] = NewRow(n, c, TRUE)
  BY DEF Has
<1>2. tb[i].name = n
  BY <1>1 DEF NewRow
<1>3. IdOf(tb, n) \in DOMAIN tb /\ tb[IdOf(tb, n)].name = n
  BY <1>2 DEF IdOf
<1>4. IdOf(tb, n) = i
  BY <1>2, <1>3 DEF Good, UniqueIn
<1> QED
  BY <1>1, <1>4

\* An active row stays in what keeps active rows.
LEMMA HasKept ==
    ASSUME NEW tb, NEW tb2, KeepsActive(tb, tb2), NEW n, NEW c, Has(tb, n, c)
    PROVE  Has(tb2, n, c)
<1>1. PICK i \in DOMAIN tb : tb[i] = NewRow(n, c, TRUE)
  BY DEF Has
<1>2. tb[i].active
  BY <1>1 DEF NewRow
<1> QED
  BY <1>1, <1>2 DEF KeepsActive, Has
-----------------------------------------------------------------------------
(***************************************************************************)
(* The table and the transaction's copy of it.                              *)
(***************************************************************************)
TInv ==
    /\ Good(table) /\ Good(tx)
    /\ pc = "exec" => KeepsActive(table, tx)

LEMMA InitTInv == Init => TInv
BY EmptyIsGood DEF Init, TInv

\* Other handlers' statements, none while the transaction holds the write lock.
LEMMA EditsKeepTable ==
    ASSUME TInv, Others
    PROVE  TInv' /\ pc # "exec"
<1>1. SUFFICES Good(table') /\ pc # "exec" /\ UNCHANGED << pc, tx >>
  BY DEF TInv
<1>2. CASE \E t \in Requests : Create(t)
  BY <1>2, UpsertFacts DEF Create, Edit, TInv
<1>3. CASE \E t \in Requests : \E i \in DOMAIN table : UpdateTarget(i, t)
  BY <1>3, UpdateGood DEF UpdateTarget, Edit, TInv
<1>4. CASE \E i \in DOMAIN table : Delete(i)
  BY <1>4, DeactivateGood DEF Delete, Edit, TInv
<1>5. CASE \E n \in renamed : EnsureTarget(n)
  BY <1>5, BareRowFacts DEF EnsureTarget, Edit, TInv
<1> QED
  BY <1>2, <1>3, <1>4, <1>5 DEF Others

LEMMA ExecKeepsTable ==
    ASSUME TInv, Exec
    PROVE  TInv'
<1> DEFINE t == plan.add[next].target
<1>1. pc = "exec" /\ table' = table /\ KeepsActive(table, tx) /\ Good(tx) /\ Good(table)
  BY DEF Exec, TInv
<1>2. CASE Taken(tx, t.name)
  BY <1>1, <1>2 DEF Exec, Answer, TInv
<1>3. CASE ~Taken(tx, t.name)
  <2>1. tx' = Upsert(tx, t.name, t.cfg) /\ pc' = pc
    BY <1>3 DEF Exec
  <2>2. Good(tx') /\ KeepsActive(tx, tx')
    BY <1>1, <1>3, <2>1, UpsertFacts
  <2>3. KeepsActive(table, tx')
    BY <1>1, <2>2 DEF KeepsActive
  <2> QED
    BY <1>1, <2>1, <2>2, <2>3 DEF TInv
<1> QED
  BY <1>2, <1>3

LEMMA StepKeepsTable ==
    ASSUME TInv, [Next]_vars
    PROVE  TInv'
<1>1. CASE Others
  BY <1>1, EditsKeepTable
<1>2. CASE Upload \/ ReadNames
  BY <1>2 DEF Upload, ReadNames, TInv
<1>3. CASE PlanFile
  BY <1>3 DEF PlanFile, Answer, TInv
<1>4. CASE Begin
  BY <1>4 DEF Begin, TInv, KeepsActive
<1>5. CASE Exec
  BY <1>5, ExecKeepsTable
<1>6. CASE Commit \/ Fail \/ Crash
  BY <1>6 DEF Commit, Fail, Crash, Answer, TInv
<1>7. CASE UNCHANGED vars
  BY <1>7 DEF vars, TInv
<1> QED
  BY <1>1, <1>2, <1>3, <1>4, <1>5, <1>6, <1>7 DEF Next

\* The table's names stay unique and its rows rows, and the transaction's copy has
\* every active target as it was.
THEOREM TableKept == Spec => []TInv
<1>1. TInv /\ [Next]_vars => TInv'
  BY StepKeepsTable
<1> QED
  BY InitTInv, <1>1, PTL DEF Spec

LEMMA CommitAddsOnly ==
    ASSUME TInv, [Next]_vars, pc = "exec"
    PROVE  \A i \in DOMAIN table : table[i].active => table'[i] = table[i]
<1>1. table' = table \/ table' = tx
  BY EditsKeepTable
     DEF Next, vars, Upload, ReadNames, PlanFile, Begin, Exec, Commit, Fail, Crash
<1> QED
  BY <1>1 DEF TInv, KeepsActive

\* targetsio.go:9: whatever is in the file, and whatever was edited since the names
\* were read, an import leaves every active target as it was.
THEOREM ImportsOnlyAdd == Spec => AddOnly
<1>1. TInv /\ [Next]_vars
        => [pc = "exec" => \A i \in DOMAIN table : table[i].active => table'[i] = table[i]]_table
  BY CommitAddsOnly
<1> QED
  BY <1>1, TableKept, PTL DEF Spec, AddOnly
-----------------------------------------------------------------------------
(***************************************************************************)
(* planImport, row by row.                                                  *)
(***************************************************************************)
LEMMA SeqSetAppend ==
    ASSUME NEW s, List(s), NEW r
    PROVE  SeqSet(Append(s, r)) = SeqSet(s) \cup {r}
<1> DEFINE u == Append(s, r)
<1>1. /\ Len(s) \in Nat /\ DOMAIN s = 1 .. Len(s) /\ DOMAIN u = 1 .. Len(s) + 1
      /\ \A i \in DOMAIN s : u[i] = s[i]
      /\ u[Len(s) + 1] = r
  BY ListAppend
<1>2. DOMAIN u = DOMAIN s \cup {Len(s) + 1}
  BY <1>1
<1> HIDE DEF u
<1>3. SeqSet(u) = SeqSet(s) \cup {r}
  BY <1>1, <1>2 DEF SeqSet
<1> QED
  BY <1>3 DEF u

LEMMA LenAppend ==
    ASSUME NEW s, List(s), NEW r
    PROVE  Len(Append(s, r)) = Len(s) + 1
<1>1. /\ List(Append(s, r)) /\ Len(s) \in Nat /\ DOMAIN Append(s, r) = 1 .. Len(s) + 1
  BY ListAppend
<1>2. DOMAIN Append(s, r) = 1 .. Len(Append(s, r)) /\ Len(Append(s, r)) \in Nat
  BY <1>1, ListAppend
<1> QED
  BY <1>1, <1>2

\* A plan, by its four parts.
Parts(add, skip, invalid, seen) == [add |-> add, skip |-> skip, invalid |-> invalid, seen |-> seen]

LEMMA PartsFacts ==
    ASSUME NEW a, NEW s, NEW v, NEW q
    PROVE  /\ Parts(a, s, v, q).add = a /\ Parts(a, s, v, q).skip = s
           /\ Parts(a, s, v, q).invalid = v /\ Parts(a, s, v, q).seen = q
BY DEF Parts

LEMMA PartsOf ==
    ASSUME NEW p, NEW a, NEW s, NEW v, NEW q, p = Parts(a, s, v, q)
    PROVE  /\ p.add = a /\ p.skip = s /\ p.invalid = v /\ p.seen = q
           /\ p = Parts(p.add, p.skip, p.invalid, p.seen)
<1>1. p.add = a /\ p.skip = s /\ p.invalid = v /\ p.seen = q
  BY DEF Parts
<1> QED
  BY <1>1

\* One row, as parts.
ByRow(a, s, v, q, f, k, E) ==
    IF ~RowValid(f) THEN Parts(a, s, Append(v, k), q)
    ELSE IF RowTarget(f).name \in q
         THEN Parts(a, Append(s, [row |-> k, code |-> "duplicate"]), v, q)
    ELSE IF RowTarget(f).name \in DOMAIN E /\ E[RowTarget(f).name]
         THEN Parts(a, Append(s, [row |-> k, code |-> "exists"]), v, q \cup {RowTarget(f).name})
    ELSE Parts(Append(a, [row |-> k, target |-> RowTarget(f), restores |-> RowTarget(f).name \in DOMAIN E]),
               s, v, q \cup {RowTarget(f).name})

LEMMA PlannedParts ==
    ASSUME NEW a, NEW s, NEW v, NEW q, NEW f, NEW k, NEW E
    PROVE  Planned(Parts(a, s, v, q), f, k, E) = ByRow(a, s, v, q, f, k, E)
<1> DEFINE p == Parts(a, s, v, q)
           t == RowTarget(f)
           known == t.name \in DOMAIN E
           r == [p EXCEPT !.seen = p.seen \cup {t.name}]
           duplicate == [row |-> k, code |-> "duplicate"]
           exists == [row |-> k, code |-> "exists"]
           adds == [row |-> k, target |-> t, restores |-> known]
<1>8. Planned(p, f, k, E) =
        IF ~RowValid(f) THEN [p EXCEPT !.invalid = Append(p.invalid, k)]
        ELSE IF t.name \in p.seen THEN [p EXCEPT !.skip = Append(p.skip, duplicate)]
        ELSE IF known /\ E[t.name] THEN [r EXCEPT !.skip = Append(r.skip, exists)]
        ELSE [r EXCEPT !.add = Append(r.add, adds)]
  BY Zenon DEF Planned
<1> DEFINE q2 == q \cup {t.name}
<1>9. p = Parts(a, s, v, q)
  OBVIOUS
<1>10. r = [p EXCEPT !.seen = p.seen \cup {t.name}]
  OBVIOUS
<1>11. q2 = q \cup {t.name}
  OBVIOUS
<1> HIDE DEF p, r, t, duplicate, exists, adds, q2
<1>1. p.add = a /\ p.skip = s /\ p.invalid = v /\ p.seen = q
  BY <1>9, PartsFacts
<1>2. r = Parts(a, s, v, q2)
  <2>1. [p EXCEPT !.seen = q2] = Parts(a, s, v, q2)
    BY <1>9 DEF Parts
  <2> QED
    BY <1>1, <1>10, <1>11, <2>1, Zenon
<1>3. r.add = a /\ r.skip = s
  BY <1>2, PartsFacts
<1>4. [p EXCEPT !.invalid = Append(p.invalid, k)] = Parts(a, s, Append(v, k), q)
  <2> DEFINE x == Append(v, k)
  <2>1. x = Append(v, k)
    OBVIOUS
  <2> HIDE DEF x
  <2>2. [p EXCEPT !.invalid = x] = Parts(a, s, x, q)
    BY <1>9 DEF Parts
  <2> QED
    BY <1>1, <1>3, <2>1, <2>2, Zenon
<1>5. [p EXCEPT !.skip = Append(p.skip, duplicate)] = Parts(a, Append(s, duplicate), v, q)
  <2> DEFINE x == Append(s, duplicate)
  <2>1. x = Append(s, duplicate)
    OBVIOUS
  <2> HIDE DEF x
  <2>2. [p EXCEPT !.skip = x] = Parts(a, x, v, q)
    BY <1>9 DEF Parts
  <2> QED
    BY <1>1, <1>3, <2>1, <2>2, Zenon
<1>6. [r EXCEPT !.skip = Append(r.skip, exists)] = Parts(a, Append(s, exists), v, q2)
  <2> DEFINE x == Append(s, exists)
  <2>1. x = Append(s, exists)
    OBVIOUS
  <2> HIDE DEF x
  <2>2. [r EXCEPT !.skip = x] = Parts(a, x, v, q2)
    BY <1>2 DEF Parts
  <2> QED
    BY <1>1, <1>3, <2>1, <2>2, Zenon
<1>7. [r EXCEPT !.add = Append(r.add, adds)] = Parts(Append(a, adds), s, v, q2)
  <2> DEFINE x == Append(a, adds)
  <2>1. x = Append(a, adds)
    OBVIOUS
  <2> HIDE DEF x
  <2>2. [r EXCEPT !.add = x] = Parts(x, s, v, q2)
    BY <1>2 DEF Parts
  <2> QED
    BY <1>1, <1>3, <2>1, <2>2, Zenon
<1> QED
  BY <1>1, <1>4, <1>5, <1>6, <1>7, <1>8, <1>11, Zenon DEF ByRow, p, t, duplicate, exists, adds

\* The rows R[1 .. n] that are valid; the first of each name among them; those whose
\* name is active.
NameAt(R, k) == RowTarget(R[k]).name
FirstAt(R, k) == \A j \in 1 .. k - 1 : RowValid(R[j]) => NameAt(R, j) # NameAt(R, k)
ActiveAt(R, E, k) == NameAt(R, k) \in DOMAIN E /\ E[NameAt(R, k)]
Valids(R, n) == {k \in 1 .. n : RowValid(R[k])}
Firsts(R, n) == {k \in Valids(R, n) : FirstAt(R, k)}
Actives(R, E, n) == {k \in Firsts(R, n) : ActiveAt(R, E, k)}

Duplicate(k) == [row |-> k, code |-> "duplicate"]
Exists(k) == [row |-> k, code |-> "exists"]
Added(R, E, k) == [row |-> k, target |-> RowTarget(R[k]), restores |-> NameAt(R, k) \in DOMAIN E]

\* The plan for the rows R[1 .. n].
Classified(R, E, p, n) ==
    /\ p = Parts(p.add, p.skip, p.invalid, p.seen)
    /\ List(p.add) /\ List(p.skip) /\ List(p.invalid)
    /\ p.seen = {NameAt(R, k) : k \in Valids(R, n)}
    /\ SeqSet(p.invalid) = (1 .. n) \ Valids(R, n)
    /\ SeqSet(p.skip) = {Duplicate(k) : k \in Valids(R, n) \ Firsts(R, n)} \cup {Exists(k) : k \in Actives(R, E, n)}
    /\ SeqSet(p.add) = {Added(R, E, k) : k \in Firsts(R, n) \ Actives(R, E, n)}
    /\ \A i, j \in DOMAIN p.add : i # j => p.add[i].target.name # p.add[j].target.name
    /\ \A i, j \in DOMAIN p.add : i < j => p.add[i].row < p.add[j].row
    /\ Len(p.add) + Len(p.skip) + Len(p.invalid) = n

LEMMA EmptyList == List(<< >>) /\ SeqSet(<< >>) = {} /\ Len(<< >>) = 0 /\ DOMAIN << >> = {}
<1>1. << >> \in Seq({}) /\ DOMAIN << >> = {}
  OBVIOUS
<1>2. List(<< >>) /\ SeqSet(<< >>) = {}
  BY <1>1, ListIntro DEF SeqSet
<1> QED
  BY <1>1, <1>2

\* Nothing is planned before the first row.
LEMMA NothingPlanned ==
    ASSUME NEW R, NEW E
    PROVE  Classified(R, E, NoPlan, 0)
<1>1. 1 .. 0 = {}
  OBVIOUS
<1>2. Valids(R, 0) = {} /\ Firsts(R, 0) = {} /\ Actives(R, E, 0) = {}
  BY <1>1 DEF Valids, Firsts, Actives
<1>3. NoPlan = Parts(<< >>, << >>, << >>, {})
  BY DEF NoPlan, Parts
<1>4. NoPlan.add = << >> /\ NoPlan.skip = << >> /\ NoPlan.invalid = << >> /\ NoPlan.seen = {}
  BY <1>3, PartsFacts
<1>5. NoPlan = Parts(NoPlan.add, NoPlan.skip, NoPlan.invalid, NoPlan.seen)
  BY <1>3, <1>4, Zenon
<1> HIDE DEF NoPlan
<1> QED
  BY <1>1, <1>2, <1>4, <1>5, EmptyList DEF Classified

\* Which sets row n + 1 joins.
LEMMA NextRow ==
    ASSUME NEW R, NEW E, NEW n \in Nat, NEW k, k = n + 1
    PROVE  /\ Valids(R, k) = IF RowValid(R[k]) THEN Valids(R, n) \cup {k} ELSE Valids(R, n)
           /\ Firsts(R, k) = IF RowValid(R[k]) /\ FirstAt(R, k) THEN Firsts(R, n) \cup {k} ELSE Firsts(R, n)
           /\ Actives(R, E, k) = IF RowValid(R[k]) /\ FirstAt(R, k) /\ ActiveAt(R, E, k)
                                 THEN Actives(R, E, n) \cup {k} ELSE Actives(R, E, n)
           /\ k \notin Valids(R, n)
           /\ 1 .. k = (1 .. n) \cup {k} /\ k \notin 1 .. n
           /\ FirstAt(R, k) <=> NameAt(R, k) \notin {NameAt(R, j) : j \in Valids(R, n)}
<1>1. 1 .. k = (1 .. n) \cup {k} /\ k \notin 1 .. n /\ k - 1 = n
  OBVIOUS
<1>2. /\ Valids(R, k) = IF RowValid(R[k]) THEN Valids(R, n) \cup {k} ELSE Valids(R, n)
      /\ k \notin Valids(R, n)
  BY <1>1 DEF Valids
<1>3. Firsts(R, k) = IF RowValid(R[k]) /\ FirstAt(R, k) THEN Firsts(R, n) \cup {k} ELSE Firsts(R, n)
  BY <1>2 DEF Firsts
<1>4. Actives(R, E, k) = IF RowValid(R[k]) /\ FirstAt(R, k) /\ ActiveAt(R, E, k)
                         THEN Actives(R, E, n) \cup {k} ELSE Actives(R, E, n)
  BY <1>3 DEF Actives
<1>5. FirstAt(R, k) <=> NameAt(R, k) \notin {NameAt(R, j) : j \in Valids(R, n)}
  BY <1>1 DEF FirstAt, Valids
<1> QED
  BY <1>1, <1>2, <1>3, <1>4, <1>5

\* The plan for one row more.
LEMMA NextPlanned ==
    ASSUME NEW R, NEW E, NEW n \in Nat, NEW p, Classified(R, E, p, n)
    PROVE  Classified(R, E, Planned(p, R[n + 1], n + 1, E), n + 1)
<1> DEFINE k == n + 1
           name == NameAt(R, k)
           a == p.add
           s == p.skip
           v == p.invalid
           q == p.seen
           p2 == Planned(p, R[k], k, E)
<1> SUFFICES Classified(R, E, p2, k)
  OBVIOUS
<1>1. p2 = IF ~RowValid(R[k]) THEN Parts(a, s, Append(v, k), q)
           ELSE IF ~FirstAt(R, k) THEN Parts(a, Append(s, Duplicate(k)), v, q)
           ELSE IF ActiveAt(R, E, k) THEN Parts(a, Append(s, Exists(k)), v, q \cup {name})
           ELSE Parts(Append(a, Added(R, E, k)), s, v, q \cup {name})
  <2>1. p = Parts(a, s, v, q)
    BY DEF Classified
  <2>2. k = n + 1 /\ (FirstAt(R, k) <=> name \notin q)
    <3>1. FirstAt(R, k) <=> NameAt(R, k) \notin {NameAt(R, j) : j \in Valids(R, n)}
      BY NextRow, Zenon
    <3>2. q = {NameAt(R, j) : j \in Valids(R, n)}
      BY DEF Classified
    <3> QED
      BY <3>1, <3>2, Zenon
  <2> DEFINE f == R[k]
  <2>3. f = R[k]
    OBVIOUS
  <2> HIDE DEF k, a, s, v, q, p2, name, f
  <2>4. Planned(Parts(a, s, v, q), f, k, E) = ByRow(a, s, v, q, f, k, E)
    BY PlannedParts
  <2>5. RowTarget(f).name = name /\ p2 = Planned(Parts(a, s, v, q), f, k, E)
    BY <2>1, <2>3, Zenon DEF name, NameAt, p2
  <2>6. /\ Duplicate(k) = [row |-> k, code |-> "duplicate"] /\ Exists(k) = [row |-> k, code |-> "exists"]
        /\ Added(R, E, k) = [row |-> k, target |-> RowTarget(f), restores |-> RowTarget(f).name \in DOMAIN E]
        /\ ActiveAt(R, E, k) <=> RowTarget(f).name \in DOMAIN E /\ E[RowTarget(f).name]
    BY <2>3, Zenon DEF Duplicate, Exists, Added, NameAt, ActiveAt
  <2> DEFINE d == [row |-> k, code |-> "duplicate"]
             e == [row |-> k, code |-> "exists"]
             r == [row |-> k, target |-> RowTarget(f), restores |-> RowTarget(f).name \in DOMAIN E]
  <2> HIDE DEF d, e, r
  <2> QED
    BY <2>2, <2>3, <2>4, <2>5, <2>6, Zenon DEF ByRow
<1>2. /\ List(a) /\ List(s) /\ List(v)
      /\ q = {NameAt(R, j) : j \in Valids(R, n)}
      /\ SeqSet(v) = (1 .. n) \ Valids(R, n)
      /\ SeqSet(s) = {Duplicate(j) : j \in Valids(R, n) \ Firsts(R, n)} \cup {Exists(j) : j \in Actives(R, E, n)}
      /\ SeqSet(a) = {Added(R, E, j) : j \in Firsts(R, n) \ Actives(R, E, n)}
      /\ \A i, j \in DOMAIN a : i # j => a[i].target.name # a[j].target.name
      /\ \A i, j \in DOMAIN a : i < j => a[i].row < a[j].row
      /\ Len(a) + Len(s) + Len(v) = n
  BY DEF Classified
<1>3. Len(a) \in Nat /\ Len(s) \in Nat /\ Len(v) \in Nat
  BY <1>2, ListAppend
<1>4. /\ Valids(R, k) = IF RowValid(R[k]) THEN Valids(R, n) \cup {k} ELSE Valids(R, n)
      /\ Firsts(R, k) = IF RowValid(R[k]) /\ FirstAt(R, k) THEN Firsts(R, n) \cup {k} ELSE Firsts(R, n)
      /\ Actives(R, E, k) = IF RowValid(R[k]) /\ FirstAt(R, k) /\ ActiveAt(R, E, k)
                            THEN Actives(R, E, n) \cup {k} ELSE Actives(R, E, n)
      /\ k \notin Valids(R, n)
      /\ 1 .. k = (1 .. n) \cup {k} /\ k \notin 1 .. n
      /\ FirstAt(R, k) <=> name \notin {NameAt(R, j) : j \in Valids(R, n)}
  BY NextRow, Zenon
<1>5. /\ Firsts(R, n) \subseteq Valids(R, n) /\ Actives(R, E, n) \subseteq Firsts(R, n)
      /\ Valids(R, n) \subseteq 1 .. n
  BY DEF Valids, Firsts, Actives
<1>6. k = n + 1 /\ name = NameAt(R, k)
  OBVIOUS
<1> HIDE DEF k, name, a, s, v, q, p2
<1>7. CASE ~RowValid(R[k])
  <2>1. p2 = Parts(a, s, Append(v, k), q)
    BY <1>1, <1>7
  <2>2. p2.add = a /\ p2.skip = s /\ p2.invalid = Append(v, k) /\ p2.seen = q
    <3> DEFINE x == Append(v, k)
    <3>1. p2 = Parts(a, s, x, q)
      BY <2>1
    <3> HIDE DEF x
    <3>2. p2.add = a /\ p2.skip = s /\ p2.invalid = x /\ p2.seen = q
      BY <3>1, PartsOf
    <3> QED
      BY <3>2 DEF x
  <2>3. p2 = Parts(p2.add, p2.skip, p2.invalid, p2.seen)
    BY <2>1, PartsOf, Zenon
  <2>4. /\ List(Append(v, k)) /\ Len(Append(v, k)) = Len(v) + 1
        /\ SeqSet(Append(v, k)) = SeqSet(v) \cup {k}
    BY <1>2, ListAppend, LenAppend, SeqSetAppend
  <2>5. /\ Valids(R, k) = Valids(R, n) /\ Firsts(R, k) = Firsts(R, n) /\ Actives(R, E, k) = Actives(R, E, n)
    BY <1>4, <1>7
  <2>6. SeqSet(Append(v, k)) = (1 .. k) \ Valids(R, k)
    BY <1>2, <1>4, <2>4, <2>5
  <2>7. Len(p2.add) + Len(p2.skip) + Len(p2.invalid) = k
    BY <1>2, <1>3, <1>6, <2>2, <2>4
  <2> QED
    BY <1>2, <2>2, <2>3, <2>4, <2>5, <2>6, <2>7 DEF Classified
<1>8. CASE RowValid(R[k]) /\ ~FirstAt(R, k)
  <2>1. p2 = Parts(a, Append(s, Duplicate(k)), v, q)
    BY <1>1, <1>8
  <2>2. p2.add = a /\ p2.skip = Append(s, Duplicate(k)) /\ p2.invalid = v /\ p2.seen = q
    <3> DEFINE x == Append(s, Duplicate(k))
    <3>1. p2 = Parts(a, x, v, q)
      BY <2>1
    <3> HIDE DEF x
    <3>2. p2.add = a /\ p2.skip = x /\ p2.invalid = v /\ p2.seen = q
      BY <3>1, PartsOf
    <3> QED
      BY <3>2 DEF x
  <2>3. p2 = Parts(p2.add, p2.skip, p2.invalid, p2.seen)
    BY <2>1, PartsOf, Zenon
  <2>4. /\ List(p2.skip) /\ Len(p2.skip) = Len(s) + 1
        /\ SeqSet(p2.skip) = SeqSet(s) \cup {Duplicate(k)}
    BY <1>2, <2>2, ListAppend, LenAppend, SeqSetAppend
  <2>5. /\ Valids(R, k) = Valids(R, n) \cup {k} /\ Firsts(R, k) = Firsts(R, n) /\ Actives(R, E, k) = Actives(R, E, n)
        /\ Valids(R, k) \ Firsts(R, k) = (Valids(R, n) \ Firsts(R, n)) \cup {k}
    BY <1>4, <1>5, <1>8
  <2>6. SeqSet(p2.invalid) = (1 .. k) \ Valids(R, k)
    BY <1>2, <1>4, <1>5, <2>2, <2>5
  <2>7. p2.seen = {NameAt(R, j) : j \in Valids(R, k)}
    <3>1. name \in {NameAt(R, j) : j \in Valids(R, n)}
      BY <1>4, <1>8
    <3> QED
      BY <1>2, <1>6, <2>2, <2>5, <3>1
  <2>8. SeqSet(p2.skip) = {Duplicate(j) : j \in Valids(R, k) \ Firsts(R, k)} \cup {Exists(j) : j \in Actives(R, E, k)}
    BY <1>2, <2>4, <2>5
  <2>9. Len(p2.add) + Len(p2.skip) + Len(p2.invalid) = k
    BY <1>2, <1>3, <1>6, <2>2, <2>4
  <2>10. /\ SeqSet(p2.add) = {Added(R, E, j) : j \in Firsts(R, k) \ Actives(R, E, k)}
         /\ List(p2.add) /\ List(p2.invalid)
         /\ \A i, j \in DOMAIN p2.add : i # j => p2.add[i].target.name # p2.add[j].target.name
         /\ \A i, j \in DOMAIN p2.add : i < j => p2.add[i].row < p2.add[j].row
    BY <1>2, <2>2, <2>5
  <2> QED
    BY <2>3, <2>4, <2>6, <2>7, <2>8, <2>9, <2>10 DEF Classified
<1>9. CASE RowValid(R[k]) /\ FirstAt(R, k) /\ ActiveAt(R, E, k)
  <2>1. p2 = Parts(a, Append(s, Exists(k)), v, q \cup {name})
    BY <1>1, <1>9
  <2>2. p2.add = a /\ p2.skip = Append(s, Exists(k)) /\ p2.invalid = v /\ p2.seen = q \cup {name}
    <3> DEFINE x == Append(s, Exists(k))
               y == q \cup {name}
    <3>1. p2 = Parts(a, x, v, y)
      BY <2>1
    <3> HIDE DEF x, y
    <3>2. p2.add = a /\ p2.skip = x /\ p2.invalid = v /\ p2.seen = y
      BY <3>1, PartsOf
    <3> QED
      BY <3>2 DEF x, y
  <2>3. p2 = Parts(p2.add, p2.skip, p2.invalid, p2.seen)
    BY <2>1, PartsOf, Zenon
  <2>4. /\ List(p2.skip) /\ Len(p2.skip) = Len(s) + 1
        /\ SeqSet(p2.skip) = SeqSet(s) \cup {Exists(k)}
    BY <1>2, <2>2, ListAppend, LenAppend, SeqSetAppend
  <2>5. /\ Valids(R, k) = Valids(R, n) \cup {k} /\ Firsts(R, k) = Firsts(R, n) \cup {k}
        /\ Actives(R, E, k) = Actives(R, E, n) \cup {k}
        /\ Valids(R, k) \ Firsts(R, k) = Valids(R, n) \ Firsts(R, n)
        /\ Firsts(R, k) \ Actives(R, E, k) = Firsts(R, n) \ Actives(R, E, n)
    BY <1>4, <1>5, <1>9
  <2>6. SeqSet(p2.invalid) = (1 .. k) \ Valids(R, k)
    BY <1>2, <1>4, <1>5, <2>2, <2>5
  <2>7. p2.seen = {NameAt(R, j) : j \in Valids(R, k)}
    BY <1>2, <1>6, <2>2, <2>5
  <2>8. SeqSet(p2.skip) = {Duplicate(j) : j \in Valids(R, k) \ Firsts(R, k)} \cup {Exists(j) : j \in Actives(R, E, k)}
    BY <1>2, <2>4, <2>5
  <2>9. Len(p2.add) + Len(p2.skip) + Len(p2.invalid) = k
    BY <1>2, <1>3, <1>6, <2>2, <2>4
  <2>10. /\ SeqSet(p2.add) = {Added(R, E, j) : j \in Firsts(R, k) \ Actives(R, E, k)}
         /\ List(p2.add) /\ List(p2.invalid)
         /\ \A i, j \in DOMAIN p2.add : i # j => p2.add[i].target.name # p2.add[j].target.name
         /\ \A i, j \in DOMAIN p2.add : i < j => p2.add[i].row < p2.add[j].row
    BY <1>2, <2>2, <2>5
  <2> QED
    BY <2>3, <2>4, <2>6, <2>7, <2>8, <2>9, <2>10 DEF Classified
<1>10. CASE RowValid(R[k]) /\ FirstAt(R, k) /\ ~ActiveAt(R, E, k)
  <2>1. p2 = Parts(Append(a, Added(R, E, k)), s, v, q \cup {name})
    BY <1>1, <1>10
  <2>2. p2.add = Append(a, Added(R, E, k)) /\ p2.skip = s /\ p2.invalid = v /\ p2.seen = q \cup {name}
    <3> DEFINE x == Append(a, Added(R, E, k))
               y == q \cup {name}
    <3>1. p2 = Parts(x, s, v, y)
      BY <2>1
    <3> HIDE DEF x, y
    <3>2. p2.add = x /\ p2.skip = s /\ p2.invalid = v /\ p2.seen = y
      BY <3>1, PartsOf
    <3> QED
      BY <3>2 DEF x, y
  <2>3. p2 = Parts(p2.add, p2.skip, p2.invalid, p2.seen)
    BY <2>1, PartsOf, Zenon
  <2>4. /\ List(p2.add) /\ Len(p2.add) = Len(a) + 1
        /\ SeqSet(p2.add) = SeqSet(a) \cup {Added(R, E, k)}
    BY <1>2, <2>2, ListAppend, LenAppend, SeqSetAppend
  <2>5. /\ Valids(R, k) = Valids(R, n) \cup {k} /\ Firsts(R, k) = Firsts(R, n) \cup {k}
        /\ Actives(R, E, k) = Actives(R, E, n)
        /\ Valids(R, k) \ Firsts(R, k) = Valids(R, n) \ Firsts(R, n)
        /\ Firsts(R, k) \ Actives(R, E, k) = (Firsts(R, n) \ Actives(R, E, n)) \cup {k}
    BY <1>4, <1>5, <1>10
  <2>6. SeqSet(p2.invalid) = (1 .. k) \ Valids(R, k)
    BY <1>2, <1>4, <1>5, <2>2, <2>5
  <2>7. p2.seen = {NameAt(R, j) : j \in Valids(R, k)}
    BY <1>2, <1>6, <2>2, <2>5
  <2>8. SeqSet(p2.add) = {Added(R, E, j) : j \in Firsts(R, k) \ Actives(R, E, k)}
    BY <1>2, <2>4, <2>5
  <2>9. Len(p2.add) + Len(p2.skip) + Len(p2.invalid) = k
    BY <1>2, <1>3, <1>6, <2>2, <2>4
  <2>10. /\ SeqSet(p2.skip) = {Duplicate(j) : j \in Valids(R, k) \ Firsts(R, k)} \cup {Exists(j) : j \in Actives(R, E, k)}
         /\ List(p2.skip) /\ List(p2.invalid)
    BY <1>2, <2>2, <2>5
  <2>11. /\ DOMAIN p2.add = DOMAIN a \cup {Len(a) + 1} /\ p2.add[Len(a) + 1] = Added(R, E, k)
         /\ \A i \in DOMAIN a : p2.add[i] = a[i]
         /\ DOMAIN a = 1 .. Len(a)
    <3>1. /\ Len(a) \in Nat /\ DOMAIN a = 1 .. Len(a) /\ DOMAIN p2.add = 1 .. Len(a) + 1
          /\ \A i \in DOMAIN a : p2.add[i] = a[i]
          /\ p2.add[Len(a) + 1] = Added(R, E, k)
      BY <1>2, <2>2, ListAppend
    <3> QED
      BY <3>1
  <2>12. \A i \in DOMAIN a : \E j \in Firsts(R, n) : a[i] = Added(R, E, j)
    <3> SUFFICES ASSUME NEW i \in DOMAIN a
                 PROVE  \E j \in Firsts(R, n) : a[i] = Added(R, E, j)
      OBVIOUS
    <3>1. a[i] \in SeqSet(a)
      BY DEF SeqSet
    <3> QED
      BY <1>2, <3>1
  <2>13. \A i, j \in DOMAIN p2.add : i # j => p2.add[i].target.name # p2.add[j].target.name
    <3>1. ASSUME NEW i \in DOMAIN a
          PROVE  a[i].target.name # name
      <4>1. PICK j \in Firsts(R, n) : a[i] = Added(R, E, j)
        BY <2>12
      <4>2. a[i].target.name = NameAt(R, j)
        BY <4>1 DEF Added, NameAt
      <4> QED
        BY <1>4, <1>5, <1>10, <4>2
    <3>2. Added(R, E, k).target.name = name
      BY <1>6 DEF Added, NameAt
    <3> QED
      BY <1>2, <2>11, <3>1, <3>2
  <2>14. \A i, j \in DOMAIN p2.add : i < j => p2.add[i].row < p2.add[j].row
    <3>1. ASSUME NEW i \in DOMAIN a
          PROVE  a[i].row < k
      <4>1. PICK j \in Firsts(R, n) : a[i] = Added(R, E, j)
        BY <2>12
      <4>2. a[i].row = j
        BY <4>1 DEF Added
      <4> QED
        BY <1>5, <1>6, <4>2
    <3>2. Added(R, E, k).row = k
      BY DEF Added
    <3> SUFFICES ASSUME NEW i \in DOMAIN p2.add, NEW j \in DOMAIN p2.add, i < j
                 PROVE  p2.add[i].row < p2.add[j].row
      OBVIOUS
    <3>3. i \in DOMAIN a
      BY <1>3, <2>11
    <3>4. CASE j \in DOMAIN a
      BY <1>2, <2>11, <3>3, <3>4
    <3>5. CASE j = Len(a) + 1
      BY <2>11, <3>1, <3>2, <3>3, <3>5
    <3> QED
      BY <2>11, <3>4, <3>5
  <2> QED
    BY <2>3, <2>4, <2>6, <2>7, <2>8, <2>9, <2>10, <2>13, <2>14 DEF Classified
<1> QED
  BY <1>7, <1>8, <1>9, <1>10

\* A plan grows row by row.
LEMMA PlanUnfolds ==
    ASSUME NEW R, NEW E, Len(R) \in Nat
    PROVE  \E f : /\ f[0] = NoPlan
                  /\ \A k \in 1 .. Len(R) : f[k] = Planned(f[k - 1], R[k], k, E)
                  /\ Plan(R, E) = f[Len(R)]
<1> DEFINE L == Len(R)
           Step(f, m) == [k \in 0 .. m |-> IF k = 0 THEN NoPlan ELSE Planned(f[k - 1], R[k], k, E)]
           S == {m \in Nat : \E f : f = Step(f, m)}
           planned == CHOOSE f : f = Step(f, L)
<1>1. Plan(R, E) = planned[L]
  BY Zenon DEF Plan
<1>2. 0 \in S
  <2> DEFINE f == [k \in 0 .. 0 |-> NoPlan]
  <2>1. f = Step(f, 0)
    OBVIOUS
  <2> HIDE DEF f
  <2> QED
    BY <2>1
<1>3. ASSUME NEW m \in Nat, m \in S
      PROVE  m + 1 \in S
  <2> HIDE DEF Step
  <2>1. PICK f : f = Step(f, m)
    BY <1>3
  <2> USE DEF Step
  <2> DEFINE x == Planned(f[m], R[m + 1], m + 1, E)
             g == [k \in 0 .. m + 1 |-> IF k = m + 1 THEN x ELSE f[k]]
  <2>2. /\ f[0] = NoPlan
        /\ \A k \in 1 .. m : f[k] = Planned(f[k - 1], R[k], k, E)
    BY <2>1
  <2>3. x = Planned(f[m], R[m + 1], m + 1, E)
    OBVIOUS
  <2> HIDE DEF x
  <2>4. ASSUME NEW k \in 0 .. m + 1
        PROVE  g[k] = IF k = 0 THEN NoPlan ELSE Planned(g[k - 1], R[k], k, E)
    <3>1. CASE k = 0
      BY <2>2, <3>1
    <3>2. CASE k \in 1 .. m
      <4>1. g[k] = f[k] /\ g[k - 1] = f[k - 1] /\ k # 0
        BY <3>2
      <4> HIDE DEF g
      <4> QED
        BY <2>2, <3>2, <4>1
    <3>3. CASE k = m + 1
      <4>1. g[k] = x /\ g[k - 1] = f[m] /\ k # 0
        BY <3>3
      <4> HIDE DEF g
      <4> QED
        BY <2>3, <3>3, <4>1
    <3> QED
      BY <3>1, <3>2, <3>3
  <2>5. g = [k \in 0 .. m + 1 |-> g[k]]
    OBVIOUS
  <2> HIDE DEF g
  <2>6. g = Step(g, m + 1)
    BY <2>4, <2>5
  <2> HIDE DEF Step
  <2> QED
    BY <2>6
<1> HIDE DEF S
<1>4. L \in S
  BY <1>2, <1>3, EveryNatural
<1>5. planned = Step(planned, L)
  <2> HIDE DEF Step
  <2> QED
    BY <1>4 DEF S
<1>6. /\ planned[0] = NoPlan
      /\ \A k \in 1 .. L : planned[k] = Planned(planned[k - 1], R[k], k, E)
  <2> HIDE DEF planned
  <2> QED
    BY <1>5
<1> QED
  BY <1>1, <1>6

\* planImport: each row is in the one part it belongs to.
LEMMA PlanFacts ==
    ASSUME NEW R, NEW E, Len(R) \in Nat
    PROVE  Classified(R, E, Plan(R, E), Len(R))
<1>1. PICK f : /\ f[0] = NoPlan
               /\ \A k \in 1 .. Len(R) : f[k] = Planned(f[k - 1], R[k], k, E)
               /\ Plan(R, E) = f[Len(R)]
  BY PlanUnfolds
<1> DEFINE S == {m \in Nat : m =< Len(R) => Classified(R, E, f[m], m)}
<1>2. 0 \in S
  BY <1>1, NothingPlanned
<1>3. ASSUME NEW m \in Nat, m \in S
      PROVE  m + 1 \in S
  <2> SUFFICES ASSUME m + 1 =< Len(R)
               PROVE  Classified(R, E, f[m + 1], m + 1)
    OBVIOUS
  <2>1. m + 1 \in 1 .. Len(R) /\ (m + 1) - 1 = m /\ m =< Len(R)
    OBVIOUS
  <2>2. f[m + 1] = Planned(f[m], R[m + 1], m + 1, E)
    BY <1>1, <2>1
  <2>3. Classified(R, E, f[m], m)
    BY <1>3, <2>1
  <2> QED
    BY <2>2, <2>3, NextPlanned
<1> HIDE DEF S
<1>4. Len(R) \in S
  BY <1>2, <1>3, EveryNatural
<1> QED
  BY <1>1, <1>4 DEF S
-----------------------------------------------------------------------------
(***************************************************************************)
(* What is stored of an accepted target, and what a file's row of it comes  *)
(* to.                                                                      *)
(***************************************************************************)
\* What an accepted request or row comes to.
Stored(t) == \E x : Valid(x) /\ Fits(x) /\ t = Normal(x)

\* A row of the table as a target.
TargetOf(r) == [name |-> r.name, cfg |-> r.cfg]

LEMMA NewRowTarget ==
    ASSUME NEW n, NEW c, NEW a
    PROVE  TargetOf(NewRow(n, c, a)) = [name |-> n, cfg |-> c]
BY DEF TargetOf, NewRow

\* Its fields, and how it is made of them.
LEMMA StoredShape ==
    ASSUME NEW t, Stored(t)
    PROVE  /\ t = [name |-> t.name, cfg |-> t.cfg]
           /\ t.cfg = [type |-> t.cfg.type, host |-> t.cfg.host, port |-> t.cfg.port,
                       pace |-> t.cfg.pace, interval |-> t.cfg.interval]
<1>1. PICK x : t = Normal(x)
  BY DEF Stored
<1> DEFINE nm == NameOf(x)
           ty == Typed(x).type
           ho == x.host
           po == IF Typed(x).type = "tcp" THEN x.port ELSE 0
           pa == IF x.pace = "normal" THEN "" ELSE x.pace
           iv == x.interval
           c == [type |-> ty, host |-> ho, port |-> po, pace |-> pa, interval |-> iv]
<1>2. t = [name |-> nm, cfg |-> c]
  BY <1>1, Zenon DEF Normal
<1>3. c = [type |-> ty, host |-> ho, port |-> po, pace |-> pa, interval |-> iv]
  OBVIOUS
<1> HIDE DEF nm, ty, ho, po, pa, iv, c
<1>4. t.name = nm /\ t.cfg = c
  BY <1>2
<1>5. c.type = ty /\ c.host = ho /\ c.port = po /\ c.pace = pa /\ c.interval = iv
  BY <1>3
<1> QED
  BY <1>2, <1>3, <1>4, <1>5, Zenon

LEMMA NormalFields ==
    ASSUME NEW x
    PROVE  /\ Normal(x).name = NameOf(x)
           /\ Normal(x).cfg.type = Typed(x).type
           /\ Normal(x).cfg.host = x.host
           /\ Normal(x).cfg.port = IF Typed(x).type = "tcp" THEN x.port ELSE 0
           /\ Normal(x).cfg.pace = IF x.pace = "normal" THEN "" ELSE x.pace
           /\ Normal(x).cfg.interval = x.interval
BY DEF Normal

\* What accepted targets keep to.
LEMMA StoredFacts ==
    ASSUME NEW t, Stored(t)
    PROVE  /\ t \in [name : Names, cfg : Cfgs]
           /\ t.name # << >> /\ Trim(t.name) = t.name /\ t.name \notin BadNames
           /\ t.cfg.type \in {"icmp", "tcp"} /\ t.cfg.host \notin BadHosts
           /\ t.cfg.type # "tcp" => t.cfg.port = 0
           /\ t.cfg.type = "tcp" => t.cfg.port \in Ports
           /\ t.cfg.pace \in {"", "fast", "slow"} /\ t.cfg.interval \in Intervals
<1>1. PICK x : Valid(x) /\ Fits(x) /\ t = Normal(x)
  BY DEF Stored
<1>2. t \in [name : Names, cfg : Cfgs] /\ Trim(NameOf(x)) = NameOf(x)
  BY <1>1, Zenon DEF Fits
<1>3. /\ Typed(x).type \in {"icmp", "tcp"}
      /\ Typed(x).type = "tcp" => x.port \in Ports
      /\ x.host \notin BadHosts
      /\ x.pace \in {"", "normal", "fast", "slow"}
      /\ x.interval \in Intervals
      /\ NameOf(x) \notin BadNames
  BY <1>1, Zenon DEF Valid
<1>4. NameOf(x) # << >>
  BY DEF NameOf, Addr
<1> DEFINE ty == Typed(x).type
           pa == x.pace
<1>5. /\ t.name = NameOf(x) /\ t.cfg.type = ty /\ t.cfg.host = x.host
      /\ t.cfg.port = IF ty = "tcp" THEN x.port ELSE 0
      /\ t.cfg.pace = IF pa = "normal" THEN "" ELSE pa
      /\ t.cfg.interval = x.interval
  BY <1>1, NormalFields, Zenon
<1>6. /\ ty \in {"icmp", "tcp"}
      /\ ty = "tcp" => x.port \in Ports
      /\ pa \in {"", "normal", "fast", "slow"}
  BY <1>3, Zenon
<1> HIDE DEF ty, pa
<1>7. t.cfg.pace \in {"", "fast", "slow"}
  BY <1>5, <1>6
<1>8. ty # "tcp" => t.cfg.port = 0
  BY <1>5
<1>9. ty = "tcp" => t.cfg.port \in Ports
  BY <1>5, <1>6
<1> QED
  BY <1>2, <1>3, <1>4, <1>5, <1>6, <1>7, <1>8, <1>9, Zenon

\* toFileTarget and back.
LEMMA ThereAndBack ==
    ASSUME NEW t, Stored(t)
    PROVE  RowValid(ToRow(t)) /\ RowTarget(ToRow(t)) = t
<1> DEFINE f == ToRow(t)
           g == FromRow(f)
           rty == IF t.cfg.type = "tcp" THEN "tcp" ELSE "ping"
           rpo == IF t.cfg.type = "tcp" THEN t.cfg.port ELSE 0
           rpa == IF t.cfg.pace = "" THEN "normal" ELSE t.cfg.pace
           nm == t.name
           ty == t.cfg.type
           ho == t.cfg.host
           po == t.cfg.port
           pa == t.cfg.pace
           iv == t.cfg.interval
           c == t.cfg
<1>1. f = [name |-> nm, type |-> rty, host |-> ho, port |-> rpo, pace |-> rpa, interval |-> iv]
  BY Zenon DEF ToRow
<1>2. t = [name |-> nm, cfg |-> c] /\ c = [type |-> ty, host |-> ho, port |-> po, pace |-> pa, interval |-> iv]
  BY StoredShape, Zenon
<1>3. /\ nm # << >> /\ Trim(nm) = nm /\ nm \notin BadNames
      /\ ty \in {"icmp", "tcp"} /\ ho \notin BadHosts
      /\ ty # "tcp" => po = 0
      /\ ty = "tcp" => po \in Ports
      /\ pa \in {"", "fast", "slow"} /\ iv \in Intervals
  BY StoredFacts, Zenon
<1>4. /\ rty = IF ty = "tcp" THEN "tcp" ELSE "ping"
      /\ rpo = IF ty = "tcp" THEN po ELSE 0
      /\ rpa = IF pa = "" THEN "normal" ELSE pa
  OBVIOUS
<1>5. g = [f EXCEPT !.type = IF f.type = "ping" THEN "icmp" ELSE f.type]
  BY Zenon DEF FromRow
<1> HIDE DEF nm, ty, ho, po, pa, iv, c, rty, rpo, rpa, f, g
<1>6. /\ f.type = rty
      /\ rty \in {"ping", "tcp"}
      /\ (IF f.type = "ping" THEN "icmp" ELSE f.type) = ty
  <2>1. f.type = rty
    BY <1>1
  <2>2. rty \in {"ping", "tcp"} /\ (IF rty = "ping" THEN "icmp" ELSE rty) = ty
    BY <1>3, <1>4
  <2> QED
    BY <2>1, <2>2, Zenon
<1>7. rpo = po /\ rpa \in {"", "normal", "fast", "slow"} /\ (IF rpa = "normal" THEN "" ELSE rpa) = pa
  <2>1. rpo = po
    BY <1>3, <1>4
  <2>2. pa \in {"", "fast", "slow"} /\ rpa = IF pa = "" THEN "normal" ELSE pa
    BY <1>3, <1>4, Zenon
  <2> QED
    BY <2>1, <2>2
<1>8. g = [f EXCEPT !.type = ty]
  BY <1>5, <1>6, Zenon
<1>9. g = [name |-> nm, type |-> ty, host |-> ho, port |-> rpo, pace |-> rpa, interval |-> iv]
  BY <1>1, <1>8
<1>10. g.name = nm /\ g.type = ty /\ g.host = ho /\ g.port = rpo /\ g.pace = rpa /\ g.interval = iv
  BY <1>9
<1>11. Typed(g).type = ty
  <2>1. ty # ""
    BY <1>3
  <2>2. (IF g.type = "" THEN "icmp" ELSE g.type) = ty
    BY <1>10, <2>1, Zenon
  <2>3. Typed(g) = [g EXCEPT !.type = ty]
    BY <2>2, Zenon DEF Typed
  <2> QED
    BY <1>9, <2>3
<1>12. NameOf(g) = nm
  BY <1>3, <1>10, Zenon DEF NameOf
<1>13. Valid(g)
  BY <1>3, <1>7, <1>10, <1>11, <1>12, Zenon DEF Valid
<1>14. RowValid(f)
  <2>1. rty \in {"ping", "icmp", "tcp"}
    BY <1>6
  <2> QED
    BY <1>6, <1>13, <2>1, Zenon DEF RowValid, g
<1>15. Normal(g) = t
  <2>1. (IF ty = "tcp" THEN rpo ELSE 0) = po
    BY <1>3, <1>7
  <2> QED
    BY <1>2, <1>7, <1>10, <1>11, <1>12, <2>1, Zenon DEF Normal
<1> QED
  BY <1>14, <1>15, Zenon DEF RowTarget, f, g
-----------------------------------------------------------------------------
(***************************************************************************)
(* The active targets, listed.                                              *)
(***************************************************************************)
\* A row without configuration, as EnsureTarget inserts it.
Bare(r) == r.name \in Names /\ r.cfg = NoCfg /\ ~r.active

FineRow(r) == Stored(TargetOf(r)) \/ Bare(r)

Fine(tb) == \A i \in DOMAIN tb : FineRow(tb[i])

ActiveIds(tb) == {i \in DOMAIN tb : tb[i].active}

LEMMA ListedFacts ==
    ASSUME NEW tb, Good(tb)
    PROVE  \E ids : /\ DOMAIN ids = 1 .. Len(ids) /\ Len(ids) \in Nat
                    /\ \A k \in DOMAIN ids : ids[k] \in ActiveIds(tb)
                    /\ \A j, k \in DOMAIN ids : j < k => ids[j] < ids[k]
                    /\ Listed(tb) = [k \in 1 .. Len(ids) |-> TargetOf(tb[ids[k]])]
                    /\ DOMAIN Listed(tb) = 1 .. Len(ids) /\ Len(Listed(tb)) = Len(ids)
<1> DEFINE A == ActiveIds(tb)
           n == Cardinality(A)
           ids == CHOOSE s \in [1 .. n -> A] : \A j, k \in DOMAIN s : j < k => s[j] < s[k]
<1>1. Len(tb) \in Nat /\ DOMAIN tb = 1 .. Len(tb)
  BY ListAppend DEF Good
<1>2. A \in SUBSET (1 .. Len(tb))
  BY <1>1 DEF ActiveIds
<1>3. n \in Nat
  <2>1. IsFiniteSet(1 .. Len(tb))
    BY <1>1, FS_Interval
  <2> HIDE DEF A
  <2> QED
    BY <1>2, <2>1, FS_Subset, FS_CardinalityType
<1>4. Listed(tb) = [k \in DOMAIN ids |-> TargetOf(tb[ids[k]])]
  BY Zenon DEF Listed, TargetOf, ActiveIds
<1> HIDE DEF A
<1>5. \E s \in [1 .. n -> A] : \A j, k \in DOMAIN s : j < k => s[j] < s[k]
  BY <1>1, <1>2, InOrderOf
<1> HIDE DEF n
<1>6. ids \in [1 .. n -> A] /\ \A j, k \in DOMAIN ids : j < k => ids[j] < ids[k]
  BY <1>5 DEF n
<1> HIDE DEF ids
<1>7. ids \in Seq(A) /\ Len(ids) = n /\ DOMAIN ids = 1 .. n
  BY <1>3, <1>6
<1> DEFINE l == [k \in 1 .. n |-> TargetOf(tb[ids[k]])]
           X == {TargetOf(tb[ids[k]]) : k \in 1 .. n}
<1>8. l \in Seq(X)
  BY <1>3
<1>9. DOMAIN l = 1 .. n /\ Len(l) = n
  BY <1>3, <1>8
<1>10. Listed(tb) = l
  BY <1>4, <1>7
<1> QED
  BY <1>3, <1>6, <1>7, <1>9, <1>10 DEF A
-----------------------------------------------------------------------------
(***************************************************************************)
(* Statements of accepted targets, and what they leave alone.               *)
(***************************************************************************)
SameFor(tb, tb2, n) == (Known(tb2, n) <=> Known(tb, n)) /\ (Taken(tb2, n) <=> Taken(tb, n))

LEMMA AcceptedStored ==
    ASSUME NEW x, Valid(x), Fits(x)
    PROVE  /\ Stored(Normal(x))
           /\ Normal(x) = [name |-> Normal(x).name, cfg |-> Normal(x).cfg]
           /\ Normal(x).name \in Names
<1>1. Stored(Normal(x))
  BY DEF Stored
<1> DEFINE t == Normal(x)
<1> HIDE DEF t
<1>2. Stored(t)
  BY <1>1 DEF t
<1>3. t = [name |-> t.name, cfg |-> t.cfg]
  BY <1>2, StoredShape, Zenon
<1>4. t \in [name : Names, cfg : Cfgs]
  BY <1>2, StoredFacts, Zenon
<1>5. t.name \in Names
  BY <1>4
<1> QED
  BY <1>2, <1>3, <1>5 DEF t

LEMMA ReplaceFacts ==
    ASSUME NEW tb, Good(tb), NEW i \in DOMAIN tb, NEW r
    PROVE  /\ Fine(tb) /\ FineRow(r) => Fine([tb EXCEPT ![i] = r])
           /\ \A n : n # tb[i].name /\ n # r.name => SameFor(tb, [tb EXCEPT ![i] = r], n)
<1> DEFINE tb2 == [tb EXCEPT ![i] = r]
<1>1. /\ DOMAIN tb2 = DOMAIN tb /\ tb2[i] = r
      /\ \A j \in DOMAIN tb \ {i} : tb2[j] = tb[j]
  BY ListExcept DEF Good
<1> HIDE DEF tb2
<1>2. Fine(tb) /\ FineRow(r) => Fine(tb2)
  <2> SUFFICES ASSUME Fine(tb), FineRow(r), NEW j \in DOMAIN tb2
               PROVE  FineRow(tb2[j])
    BY DEF Fine
  <2>1. CASE j = i
    BY <1>1, <2>1
  <2>2. CASE j # i
    <3>1. j \in DOMAIN tb /\ tb2[j] = tb[j]
      BY <1>1, <2>2
    <3> QED
      BY <3>1, Zenon DEF Fine
  <2> QED
    BY <2>1, <2>2
<1>3. ASSUME NEW n, n # tb[i].name, n # r.name
      PROVE  SameFor(tb, tb2, n)
  BY <1>1, <1>3 DEF SameFor, Known, Taken
<1> QED
  BY <1>2, <1>3 DEF tb2

LEMMA UpsertLeaves ==
    ASSUME NEW tb, Good(tb), NEW n, NEW c
    PROVE  /\ Fine(tb) /\ Stored([name |-> n, cfg |-> c]) => Fine(Upsert(tb, n, c))
           /\ \A m : m # n => SameFor(tb, Upsert(tb, n, c), m)
<1> DEFINE r == NewRow(n, c, TRUE)
           tb2 == Upsert(tb, n, c)
           s == [name |-> n, cfg |-> c]
<1>1. r.name = n /\ (Stored(s) => FineRow(r))
  <2>1. r.name = n /\ TargetOf(r) = s
    BY NewRowFacts, NewRowTarget
  <2> HIDE DEF r, s
  <2> QED
    BY <2>1, Zenon DEF FineRow
<1>2. CASE Known(tb, n)
  <2> DEFINE i == IdOf(tb, n)
  <2>1. i \in DOMAIN tb /\ tb[i].name = n
    BY <1>2 DEF Known, IdOf
  <2>2. tb2 = [tb EXCEPT ![i] = r]
    BY <1>2 DEF Upsert
  <2> HIDE DEF i, r, s, tb2
  <2>3. /\ Fine(tb) /\ FineRow(r) => Fine([tb EXCEPT ![i] = r])
        /\ \A m : m # tb[i].name /\ m # r.name => SameFor(tb, [tb EXCEPT ![i] = r], m)
    BY <2>1, ReplaceFacts, Zenon
  <2>4. /\ Fine(tb) /\ Stored(s) => Fine(tb2)
        /\ \A m : m # n => SameFor(tb, tb2, m)
    BY <1>1, <2>1, <2>2, <2>3, Zenon
  <2> QED
    BY <2>4, Zenon DEF s, tb2
<1>3. CASE ~Known(tb, n)
  <2>1. tb2 = Append(tb, r)
    BY <1>3 DEF Upsert
  <2> HIDE DEF r, s, tb2
  <2>2. /\ Len(tb) \in Nat /\ DOMAIN tb = 1 .. Len(tb)
        /\ DOMAIN tb2 = 1 .. Len(tb) + 1
        /\ \A i \in DOMAIN tb : tb2[i] = tb[i]
        /\ tb2[Len(tb) + 1] = r
    BY <2>1, ListAppend DEF Good
  <2>3. DOMAIN tb2 = DOMAIN tb \cup {Len(tb) + 1}
    BY <2>2
  <2>4. Fine(tb) /\ Stored(s) => Fine(tb2)
    BY <1>1, <2>2, <2>3, Zenon DEF Fine
  <2>5. ASSUME NEW m, m # n
        PROVE  SameFor(tb, tb2, m)
    BY <1>1, <2>2, <2>3, <2>5, Zenon DEF SameFor, Known, Taken
  <2> QED
    BY <2>4, <2>5, Zenon DEF s, tb2
<1> QED
  BY <1>2, <1>3

LEMMA UpdateLeaves ==
    ASSUME NEW tb, Good(tb), NEW i \in DOMAIN tb, NEW n, NEW c
    PROVE  /\ Fine(tb) /\ Stored([name |-> n, cfg |-> c]) => Fine(Update(tb, i, n, c))
           /\ \A m : m # n /\ m # tb[i].name => SameFor(tb, Update(tb, i, n, c), m)
<1> DEFINE r == NewRow(n, c, TRUE)
           s == [name |-> n, cfg |-> c]
<1>1. r.name = n /\ (Stored(s) => FineRow(r))
  <2>1. r.name = n /\ TargetOf(r) = s
    BY NewRowFacts, NewRowTarget
  <2> HIDE DEF r, s
  <2> QED
    BY <2>1, Zenon DEF FineRow
<1>2. Update(tb, i, n, c) = [tb EXCEPT ![i] = r]
  BY Zenon DEF Update
<1> HIDE DEF r, s
<1>3. /\ Fine(tb) /\ FineRow(r) => Fine([tb EXCEPT ![i] = r])
      /\ \A m : m # tb[i].name /\ m # r.name => SameFor(tb, [tb EXCEPT ![i] = r], m)
  BY ReplaceFacts, Zenon
<1>4. /\ Fine(tb) /\ Stored(s) => Fine(Update(tb, i, n, c))
      /\ \A m : m # n /\ m # tb[i].name => SameFor(tb, Update(tb, i, n, c), m)
  BY <1>1, <1>2, <1>3, Zenon
<1> QED
  BY <1>4, Zenon DEF s

LEMMA DeactivateLeaves ==
    ASSUME NEW tb, Good(tb), NEW i \in DOMAIN tb
    PROVE  /\ Fine(tb) => Fine(Deactivate(tb, i))
           /\ \A m : m # tb[i].name => SameFor(tb, Deactivate(tb, i), m)
<1> DEFINE r == [tb[i] EXCEPT !.active = FALSE]
<1>1. PICK n, c, a : tb[i] = NewRow(n, c, a)
  BY DEF Good, IsRow
<1>2. r.name = tb[i].name /\ r.cfg = tb[i].cfg
  BY <1>1 DEF NewRow
<1>3. TargetOf(r) = TargetOf(tb[i])
  BY <1>2, Zenon DEF TargetOf
<1>4. Deactivate(tb, i) = [tb EXCEPT ![i] = r]
  BY DEF Deactivate
<1>7. ~r.active
  BY <1>1 DEF NewRow
<1> HIDE DEF r
<1>5. /\ Fine(tb) /\ FineRow(r) => Fine([tb EXCEPT ![i] = r])
      /\ \A m : m # tb[i].name /\ m # r.name => SameFor(tb, [tb EXCEPT ![i] = r], m)
  BY ReplaceFacts, Zenon
<1>6. Fine(tb) => FineRow(r)
  BY <1>2, <1>3, <1>7, Zenon DEF Fine, FineRow, Bare
<1> QED
  BY <1>2, <1>4, <1>5, <1>6, Zenon
LEMMA BareRowLeaves ==
    ASSUME NEW tb, Good(tb), NEW n, ~Known(tb, n)
    PROVE  /\ Fine(tb) /\ n \in Names => Fine(BareRow(tb, n))
           /\ \A m : m # n => SameFor(tb, BareRow(tb, n), m)
<1> DEFINE r == NewRow(n, NoCfg, FALSE)
           tb2 == BareRow(tb, n)
<1>1. r.name = n /\ r.cfg = NoCfg /\ ~r.active
  BY DEF NewRow
<1>2. /\ DOMAIN tb2 = DOMAIN tb \cup {Len(tb) + 1}
      /\ \A i \in DOMAIN tb : tb2[i] = tb[i]
      /\ tb2[Len(tb) + 1] = r
  BY BareRowFacts, Zenon
<1> HIDE DEF r, tb2
<1>3. Fine(tb) /\ n \in Names => Fine(tb2)
  BY <1>1, <1>2, Zenon DEF Fine, FineRow, Bare
<1>4. ASSUME NEW m, m # n
      PROVE  SameFor(tb, tb2, m)
  BY <1>1, <1>2, <1>4, Zenon DEF SameFor, Known, Taken
<1> QED
  BY <1>3, <1>4 DEF tb2
-----------------------------------------------------------------------------
(***************************************************************************)
(* The file and its plan.                                                   *)
(***************************************************************************)
ProperRows(R) ==
    /\ Len(R) \in Nat /\ DOMAIN R = 1 .. Len(R)
    /\ \A k \in DOMAIN R : RowValid(R[k]) => Fits(FromRow(R[k]))

\* An export is a file like any other.
LEMMA ExportFacts ==
    ASSUME NEW tb, Good(tb), Fine(tb)
    PROVE  /\ ProperRows(Export(Listed(tb)).rows)
           /\ Len(Export(Listed(tb)).rows) = Len(Listed(tb))
           /\ DOMAIN Listed(tb) = 1 .. Len(Listed(tb))
           /\ Listed(tb) = [k \in DOMAIN Listed(tb) |-> Listed(tb)[k]]
           /\ \A k \in DOMAIN Listed(tb) :
                 /\ RowValid(Export(Listed(tb)).rows[k])
                 /\ RowTarget(Export(Listed(tb)).rows[k]) = Listed(tb)[k]
                 /\ Taken(tb, Listed(tb)[k].name)
           /\ \A j, k \in DOMAIN Listed(tb) : j # k => Listed(tb)[j].name # Listed(tb)[k].name
<1>1. PICK ids : /\ DOMAIN ids = 1 .. Len(ids) /\ Len(ids) \in Nat
                 /\ \A k \in DOMAIN ids : ids[k] \in ActiveIds(tb)
                 /\ \A j, k \in DOMAIN ids : j < k => ids[j] < ids[k]
                 /\ Listed(tb) = [k \in 1 .. Len(ids) |-> TargetOf(tb[ids[k]])]
                 /\ DOMAIN Listed(tb) = 1 .. Len(ids) /\ Len(Listed(tb)) = Len(ids)
  BY ListedFacts, Zenon
<1> DEFINE n == Len(ids)
           l == Listed(tb)
           R == [k \in DOMAIN l |-> ToRow(l[k])]
<1>2. Export(l).rows = R
  BY DEF Export
<1>3. /\ n \in Nat /\ DOMAIN l = 1 .. n /\ Len(l) = n
      /\ \A k \in 1 .. n : l[k] = TargetOf(tb[ids[k]])
  BY <1>1
<1> HIDE DEF n, l
<1>4. \A k \in 1 .. n : ids[k] \in DOMAIN tb /\ tb[ids[k]].active
  BY <1>1 DEF ActiveIds, n
<1>13. \A k \in 1 .. n : Stored(TargetOf(tb[ids[k]]))
  BY <1>4, Zenon DEF Fine, FineRow, Bare
<1>5. \A k \in 1 .. n : Stored(l[k])
  BY <1>3, <1>13
<1>6. R \in Seq({ToRow(l[k]) : k \in 1 .. n})
  BY <1>3
<1>7. DOMAIN R = 1 .. n /\ Len(R) = n /\ \A k \in 1 .. n : R[k] = ToRow(l[k])
  BY <1>3, <1>6
<1> HIDE DEF R
<1>8. ASSUME NEW k \in 1 .. n
      PROVE  RowValid(R[k]) /\ RowTarget(R[k]) = l[k] /\ Fits(FromRow(R[k]))
  <2>1. RowValid(R[k]) /\ RowTarget(R[k]) = l[k]
    BY <1>5, <1>7, ThereAndBack
  <2>2. Normal(FromRow(R[k])) = l[k]
    BY <2>1 DEF RowTarget
  <2>3. l[k] \in [name : Names, cfg : Cfgs] /\ Trim(l[k].name) = l[k].name
    BY <1>5, StoredFacts, Zenon
  <2>4. NameOf(FromRow(R[k])) = l[k].name
    BY <2>2, NormalFields, Zenon
  <2> QED
    BY <2>1, <2>2, <2>3, <2>4, Zenon DEF Fits
<1>9. ASSUME NEW k \in 1 .. n
      PROVE  Taken(tb, l[k].name) /\ l[k].name = tb[ids[k]].name
  <2>1. l[k].name = tb[ids[k]].name
    BY <1>3 DEF TargetOf
  <2> QED
    BY <1>4, <2>1 DEF Taken
<1>10. ASSUME NEW j \in 1 .. n, NEW k \in 1 .. n, j # k
       PROVE  l[j].name # l[k].name
  <2>1. ids[j] # ids[k]
    <3>1. j \in Int /\ k \in Int /\ (j < k \/ k < j)
      BY <1>3, <1>10
    <3>2. ids[j] \in Nat /\ ids[k] \in Nat
      <4>1. DOMAIN tb = 1 .. Len(tb) /\ Len(tb) \in Nat
        BY ListAppend DEF Good
      <4> QED
        BY <1>4, <4>1
    <3>3. ids[j] < ids[k] \/ ids[k] < ids[j]
      BY <1>1, <3>1 DEF n
    <3> QED
      BY <3>2, <3>3
  <2> QED
    BY <1>4, <1>9, <2>1 DEF Good, UniqueIn
<1>12. l = [k \in DOMAIN l |-> l[k]]
  BY <1>1 DEF l
<1>11. ProperRows(R)
  BY <1>3, <1>7, <1>8 DEF ProperRows
<1> QED
  BY <1>2, <1>3, <1>7, <1>8, <1>9, <1>10, <1>11, <1>12 DEF l

FInv ==
    /\ Fine(table) /\ Fine(tx) /\ renamed \subseteq Names
    /\ ProperRows(Rows)
    /\ plan = NoPlan \/ plan = Plan(Rows, existing)
    /\ pc \in {"names", "plan"} => plan = NoPlan
    /\ pc = "exec" => next \in 1 .. Len(plan.add) + 1
    /\ pc \in {"idle", "names", "plan", "begin", "exec"}
    /\ answer \in {"none", "refused", "preview", "conflict", "failed", "imported"}
    /\ wrote \subseteq Names /\ touched \subseteq Names

\* What the rows to add are.
LEMMA AddFacts ==
    ASSUME FInv
    PROVE  /\ PlanIsList
           /\ \A k \in DOMAIN plan.add :
                 /\ \E j \in DOMAIN Rows : /\ RowValid(Rows[j]) /\ ~ActiveAt(Rows, existing, j)
                                           /\ plan.add[k] = Added(Rows, existing, j)
                 /\ Stored(plan.add[k].target)
                 /\ plan.add[k].target = [name |-> plan.add[k].target.name, cfg |-> plan.add[k].target.cfg]
                 /\ plan.add[k].target.name \in Names
           /\ \A j, k \in DOMAIN plan.add : j # k => plan.add[j].target.name # plan.add[k].target.name
<1>1. \E n \in 0 .. Len(Rows) : Classified(Rows, existing, plan, n)
  <2>1. Len(Rows) \in Nat
    BY DEF FInv, ProperRows
  <2>2. CASE plan = NoPlan
    BY <2>1, <2>2, NothingPlanned
  <2>3. CASE plan = Plan(Rows, existing)
    BY <2>1, <2>3, PlanFacts
  <2> QED
    BY <2>2, <2>3 DEF FInv
<1>2. PICK n \in 0 .. Len(Rows) : Classified(Rows, existing, plan, n)
  BY <1>1
<1>3. /\ List(plan.add)
      /\ SeqSet(plan.add) = {Added(Rows, existing, j) : j \in Firsts(Rows, n) \ Actives(Rows, existing, n)}
      /\ \A j, k \in DOMAIN plan.add : j # k => plan.add[j].target.name # plan.add[k].target.name
  BY <1>2 DEF Classified
<1>4. PlanIsList
  BY <1>3, ListAppend DEF PlanIsList
<1>5. ASSUME NEW k \in DOMAIN plan.add
      PROVE  /\ \E j \in DOMAIN Rows : /\ RowValid(Rows[j]) /\ ~ActiveAt(Rows, existing, j)
                                       /\ plan.add[k] = Added(Rows, existing, j)
             /\ Stored(plan.add[k].target)
             /\ plan.add[k].target = [name |-> plan.add[k].target.name, cfg |-> plan.add[k].target.cfg]
             /\ plan.add[k].target.name \in Names
  <2>1. plan.add[k] \in SeqSet(plan.add)
    BY DEF SeqSet
  <2>2. PICK j \in Firsts(Rows, n) \ Actives(Rows, existing, n) : plan.add[k] = Added(Rows, existing, j)
    BY <1>3, <2>1
  <2>3. j \in 1 .. n /\ RowValid(Rows[j]) /\ ~ActiveAt(Rows, existing, j)
    BY <2>2 DEF Firsts, Valids, Actives
  <2>4. j \in DOMAIN Rows
    BY <2>3 DEF FInv, ProperRows
  <2> DEFINE x == FromRow(Rows[j])
  <2>5. Valid(x) /\ Fits(x)
    BY <2>3, <2>4, Zenon DEF FInv, ProperRows, RowValid
  <2>6. plan.add[k].target = Normal(x)
    BY <2>2 DEF Added, RowTarget
  <2> HIDE DEF x
  <2>7. /\ Stored(Normal(x))
        /\ Normal(x) = [name |-> Normal(x).name, cfg |-> Normal(x).cfg]
        /\ Normal(x).name \in Names
    BY <2>5, AcceptedStored, Zenon
  <2> QED
    BY <2>2, <2>3, <2>4, <2>6, <2>7, Zenon
<1> QED
  BY <1>3, <1>4, <1>5

LEMMA EmptyAdds ==
    ASSUME PlanIsList, plan.add = << >>
    PROVE  Adds = {}
BY EmptyList DEF Adds

LEMMA AddsAreNames == FInv => Adds \subseteq Names
BY AddFacts DEF Adds

LEMMA InitFInv == Init => FInv
<1> SUFFICES ASSUME Init PROVE FInv
  OBVIOUS
<1>1. ProperRows(<< >>)
  BY EmptyList DEF ProperRows
<1>2. Rows = << >>
  BY DEF Init, NoFile, Rows
<1>3. Fine(<< >>)
  BY EmptyList DEF Fine
<1> QED
  BY <1>1, <1>2, <1>3 DEF Init, FInv

\* Other handlers' statements: what they do to the table, and to whom.
LEMMA EditsFacts ==
    ASSUME TInv, FInv,
           Others
    PROVE  /\ Fine(table') /\ touched \subseteq touched' /\ touched' \subseteq Names
           /\ renamed' \subseteq Names
           /\ \A n : n \notin touched' => SameFor(table, table', n)
           /\ pc # "exec" /\ UNCHANGED << pc, work, tx, next, answer, wrote, before >>
<1>1. ASSUME NEW t \in Requests, Valid(t)
      PROVE  /\ Stored([name |-> Normal(t).name, cfg |-> Normal(t).cfg])
             /\ Normal(t).name \in Names
  <2>1. Fits(t)
    BY <1>1, InputAssumption
  <2> QED
    BY <1>1, <2>1, AcceptedStored, Zenon
<1>2. \A i \in DOMAIN table : table[i].name \in Names
  <2> SUFFICES ASSUME NEW i \in DOMAIN table
               PROVE  table[i].name \in Names
    OBVIOUS
  <2>1. CASE Stored(TargetOf(table[i]))
    <3>1. TargetOf(table[i]) \in [name : Names, cfg : Cfgs]
      BY <2>1, StoredFacts, Zenon
    <3> QED
      BY <3>1 DEF TargetOf
  <2>2. CASE Bare(table[i])
    BY <2>2 DEF Bare
  <2> QED
    BY <2>1, <2>2 DEF FInv, Fine, FineRow
<1>3. Good(table) /\ Fine(table) /\ touched \subseteq Names /\ renamed \subseteq Names
  BY DEF TInv, FInv
<1>4. ASSUME NEW t \in Requests, Create(t)
      PROVE  /\ Fine(table') /\ touched' = touched \cup {Normal(t).name} /\ Normal(t).name \in Names
             /\ renamed' = renamed
             /\ \A n : n # Normal(t).name => SameFor(table, table', n)
             /\ pc # "exec" /\ UNCHANGED << pc, work, tx, next, answer, wrote, before >>
  <2>1. /\ Valid(t) /\ table' = Upsert(table, Normal(t).name, Normal(t).cfg)
        /\ touched' = touched \cup {Normal(t).name} /\ renamed' = renamed
        /\ pc # "exec" /\ UNCHANGED << pc, work, tx, next, answer, wrote, before >>
    BY <1>4 DEF Create, Edit
  <2> QED
    BY <1>1, <1>3, <2>1, UpsertLeaves, Zenon
<1>5. ASSUME NEW t \in Requests, NEW i \in DOMAIN table, UpdateTarget(i, t)
      PROVE  /\ Fine(table') /\ touched' = touched \cup {table[i].name, Normal(t).name}
             /\ Normal(t).name \in Names /\ renamed' \subseteq renamed \cup {table[i].name}
             /\ \A n : n # Normal(t).name /\ n # table[i].name => SameFor(table, table', n)
             /\ pc # "exec" /\ UNCHANGED << pc, work, tx, next, answer, wrote, before >>
  <2>1. /\ Valid(t) /\ table' = Update(table, i, Normal(t).name, Normal(t).cfg)
        /\ touched' = touched \cup {table[i].name, Normal(t).name}
        /\ renamed' \subseteq renamed \cup {table[i].name}
        /\ pc # "exec" /\ UNCHANGED << pc, work, tx, next, answer, wrote, before >>
    BY <1>5 DEF UpdateTarget, Edit
  <2> QED
    BY <1>1, <1>3, <2>1, UpdateLeaves, Zenon
<1>6. ASSUME NEW i \in DOMAIN table, Delete(i)
      PROVE  /\ Fine(table') /\ touched' = touched \cup {table[i].name} /\ renamed' = renamed
             /\ \A n : n # table[i].name => SameFor(table, table', n)
             /\ pc # "exec" /\ UNCHANGED << pc, work, tx, next, answer, wrote, before >>
  <2>1. /\ table' = Deactivate(table, i) /\ touched' = touched \cup {table[i].name} /\ renamed' = renamed
        /\ pc # "exec" /\ UNCHANGED << pc, work, tx, next, answer, wrote, before >>
    BY <1>6 DEF Delete, Edit
  <2> QED
    BY <1>3, <2>1, DeactivateLeaves, Zenon
<1>7. CASE \E t \in Requests : Create(t)
  BY <1>3, <1>4, <1>7
<1>8. CASE \E t \in Requests : \E i \in DOMAIN table : UpdateTarget(i, t)
  BY <1>2, <1>3, <1>5, <1>8
<1>9. CASE \E i \in DOMAIN table : Delete(i)
  BY <1>2, <1>3, <1>6, <1>9
<1>10. ASSUME NEW n \in renamed, EnsureTarget(n)
       PROVE  /\ Fine(table') /\ touched' = touched \cup {n} /\ renamed' = renamed
              /\ \A m : m # n => SameFor(table, table', m)
              /\ pc # "exec" /\ UNCHANGED << pc, work, tx, next, answer, wrote, before >>
  <2>1. /\ ~Known(table, n) /\ table' = BareRow(table, n)
        /\ touched' = touched \cup {n} /\ renamed' = renamed
        /\ pc # "exec" /\ UNCHANGED << pc, work, tx, next, answer, wrote, before >>
    BY <1>10 DEF EnsureTarget, Edit
  <2>2. n \in Names
    BY <1>3
  <2> QED
    BY <1>3, <2>1, <2>2, BareRowLeaves, Zenon
<1>11. CASE \E n \in renamed : EnsureTarget(n)
  BY <1>3, <1>10, <1>11
<1> QED
  BY <1>7, <1>8, <1>9, <1>11 DEF Others

LEMMA UploadFacts ==
    ASSUME TInv, FInv, Upload
    PROVE  ProperRows(Rows')
<1>1. CASE file' \in Files
  BY <1>1, InputAssumption DEF ProperRows, Rows
<1>2. CASE file' = Export(Listed(table))
  BY <1>2, ExportFacts DEF TInv, FInv, Rows
<1> QED
  BY <1>1, <1>2 DEF Upload

LEMMA ExecKeepsFiles ==
    ASSUME TInv, FInv, Exec
    PROVE  FInv'
<1> DEFINE t == plan.add[next].target
<1>1. /\ pc = "exec" /\ table' = table /\ UNCHANGED work /\ wrote' = wrote /\ touched' = touched /\ renamed' = renamed
      /\ next \in 1 .. Len(plan.add) + 1 /\ next =< Len(plan.add)
      /\ Len(plan.add) \in Nat /\ DOMAIN plan.add = 1 .. Len(plan.add)
  BY AddFacts DEF Exec, FInv, PlanIsList
<1>2. Rows' = Rows /\ plan' = plan /\ existing' = existing
  BY <1>1 DEF work, Rows
<1>3. CASE Taken(tx, t.name)
  <2>1. tx' = tx /\ pc' = "idle" /\ answer' = "conflict"
    BY <1>3 DEF Exec, Answer
  <2> QED
    BY <1>1, <1>2, <2>1 DEF FInv
<1>4. CASE ~Taken(tx, t.name)
  <2>1. tx' = Upsert(tx, t.name, t.cfg) /\ pc' = pc /\ next' = next + 1 /\ answer' = answer
    BY <1>4 DEF Exec
  <2>2. next \in DOMAIN plan.add /\ next + 1 \in 1 .. Len(plan.add) + 1
    BY <1>1
  <2>3. Stored([name |-> t.name, cfg |-> t.cfg])
    BY <2>2, AddFacts, Zenon
  <2> HIDE DEF t
  <2>4. Fine(tx')
    BY <2>1, <2>3, UpsertLeaves, Zenon DEF TInv, FInv
  <2> QED
    BY <1>1, <1>2, <2>1, <2>2, <2>4 DEF FInv
<1> QED
  BY <1>3, <1>4

LEMMA StepKeepsFiles ==
    ASSUME TInv, FInv, [Next]_vars
    PROVE  FInv'
<1>1. CASE Others
  <2>1. /\ Fine(table') /\ touched' \subseteq Names /\ renamed' \subseteq Names
        /\ UNCHANGED << pc, work, tx, next, answer, wrote >>
    BY <1>1, EditsFacts
  <2> QED
    BY <2>1 DEF FInv, Rows, work
<1>2. CASE Upload
  <2>1. ProperRows(Rows')
    BY <1>2, UploadFacts
  <2> QED
    BY <1>2, <2>1 DEF Upload, FInv
<1>3. CASE ReadNames
  BY <1>3 DEF ReadNames, FInv, Rows
<1>4. CASE PlanFile
  <2>1. /\ pc = "plan" /\ UNCHANGED << table, renamed, tx, file, existing, wrote, touched >> /\ Rows' = Rows
        /\ plan' = plan \/ plan' = Plan(Rows, existing)
        /\ \/ pc' = "idle" /\ answer' \in {"refused", "preview", "imported"}
           \/ pc' = "begin" /\ answer' = answer
    BY <1>4 DEF PlanFile, Answer, Rows
  <2> QED
    BY <2>1 DEF FInv
<1>5. CASE Begin
  <2>1. Len(plan.add) \in Nat
    BY AddFacts DEF PlanIsList
  <2>2. 1 \in 1 .. Len(plan.add) + 1
    BY <2>1
  <2> QED
    BY <1>5, <2>2 DEF Begin, FInv, Rows, work
<1>6. CASE Exec
  BY <1>6, ExecKeepsFiles
<1>7. CASE Commit
  <2>1. Adds \subseteq Names
    BY AddsAreNames
  <2> QED
    BY <1>7, <2>1 DEF Commit, Answer, FInv, Rows, work
<1>8. CASE Fail \/ Crash
  BY <1>8 DEF Fail, Crash, Answer, FInv, Rows, work
<1>9. CASE UNCHANGED vars
  BY <1>9 DEF vars, FInv, Rows, work
<1> QED
  BY <1>1, <1>2, <1>3, <1>4, <1>5, <1>6, <1>7, <1>8, <1>9 DEF Next

\* The tables hold accepted targets and bare inactive rows only, a file's accepted rows fit, and the plan is
\* that of the file and the names read.
THEOREM FilesKept == Spec => []FInv
<1>1. TInv /\ FInv /\ [Next]_vars => FInv'
  BY StepKeepsFiles
<1> QED
  BY InitFInv, <1>1, TableKept, PTL DEF Spec
-----------------------------------------------------------------------------
(***************************************************************************)
(* All or nothing.                                                          *)
(***************************************************************************)
Target_(k) == plan.add[k].target

Upserted == \A k \in DOMAIN plan.add : Has(tx, Target_(k).name, Target_(k).cfg)

AInv ==
    /\ pc # "idle" => wrote = {} /\ answer = "none"
    /\ pc = "exec" =>
         /\ next \in Nat
         /\ \A k \in DOMAIN plan.add : k < next => Has(tx, Target_(k).name, Target_(k).cfg)
    /\ wrote \in {{}, Adds}
    /\ answer \in {"refused", "preview", "conflict", "failed"} => wrote = {}
    /\ answer = "imported" /\ Adds # {} => wrote = Adds /\ Upserted

LEMMA InitAInv == Init => AInv
BY DEF Init, AInv, Upserted

LEMMA ExecKeepsAll ==
    ASSUME TInv, PlanIsList, AInv, Exec
    PROVE  AInv'
<1> DEFINE t == plan.add[next].target
<1>1. /\ pc = "exec" /\ plan' = plan /\ wrote' = wrote /\ wrote = {} /\ answer = "none"
      /\ next \in Nat /\ Adds' = Adds
  BY DEF Exec, AInv, work, Adds
<1>2. CASE Taken(tx, t.name)
  BY <1>1, <1>2 DEF Exec, Answer, AInv
<1>3. CASE ~Taken(tx, t.name)
  <2>1. tx' = Upsert(tx, t.name, t.cfg) /\ pc' = pc /\ next' = next + 1 /\ answer' = answer
    BY <1>3 DEF Exec
  <2>2. KeepsActive(tx, tx') /\ Has(tx', t.name, t.cfg)
    BY <1>3, <2>1, UpsertFacts DEF TInv
  <2>3. ASSUME NEW k \in DOMAIN plan.add, k < next'
        PROVE  Has(tx', Target_(k).name, Target_(k).cfg)
    <3>1. k < next \/ k = next
      BY <1>1, <2>1, <2>3 DEF PlanIsList
    <3>2. CASE k < next
      <4>1. Has(tx, Target_(k).name, Target_(k).cfg)
        BY <1>1, <3>2 DEF AInv
      <4> QED
        BY <2>2, <4>1, HasKept
    <3>3. CASE k = next
      BY <2>2, <3>3 DEF Target_
    <3> QED
      BY <3>1, <3>2, <3>3
  <2> QED
    BY <1>1, <2>1, <2>3 DEF AInv, Target_
<1> QED
  BY <1>2, <1>3

LEMMA CommitKeepsAll ==
    ASSUME TInv, PlanIsList, AInv, Commit
    PROVE  AInv'
<1>1. /\ pc = "exec" /\ next > Len(plan.add) /\ next \in Nat
      /\ wrote' = Adds /\ pc' = "idle" /\ answer' = "imported"
      /\ plan' = plan /\ tx' = tx /\ Adds' = Adds
  BY DEF Commit, Answer, work, Adds, AInv
<1>2. Upserted
  BY <1>1 DEF AInv, Upserted, PlanIsList
<1> QED
  BY <1>1, <1>2 DEF AInv, Upserted, Target_

LEMMA PlanKeepsAll ==
    ASSUME AInv, PlanFile
    PROVE  AInv'
<1>1. /\ pc = "plan" /\ wrote = {} /\ wrote' = {} /\ answer = "none"
      /\ \/ pc' = "idle" /\ answer' \in {"refused", "preview"}
         \/ pc' = "idle" /\ answer' = "imported" /\ plan'.add = << >>
         \/ pc' = "begin" /\ answer' = answer
  BY DEF PlanFile, Answer, AInv
<1>2. plan'.add = << >> => Adds' = {}
  BY DEF Adds
<1> QED
  BY <1>1, <1>2 DEF AInv

LEMMA StepKeepsAll ==
    ASSUME TInv, PlanIsList, AInv, [Next]_vars
    PROVE  AInv'
<1>1. CASE Others
  <2>1. UNCHANGED << pc, work, tx, next, answer, wrote >>
    BY <1>1 DEF Others, Create, UpdateTarget, Delete, EnsureTarget, Edit
  <2> QED
    BY <2>1 DEF AInv, Adds, Upserted, Target_, work
<1>2. CASE Upload
  BY <1>2 DEF Upload, AInv
<1>3. CASE ReadNames
  BY <1>3 DEF ReadNames, AInv
<1>4. CASE PlanFile
  BY <1>4, PlanKeepsAll
<1>5. CASE Begin
  <2>1. \A k \in DOMAIN plan.add : ~(k < 1)
    BY DEF PlanIsList
  <2> QED
    BY <1>5, <2>1 DEF Begin, AInv, work
<1>6. CASE Exec
  BY <1>6, ExecKeepsAll
<1>7. CASE Commit
  BY <1>7, CommitKeepsAll
<1>8. CASE Fail \/ Crash
  BY <1>8 DEF Fail, Crash, Answer, AInv
<1>9. CASE UNCHANGED vars
  BY <1>9 DEF vars, AInv, Adds, Upserted, Target_, work
<1> QED
  BY <1>1, <1>2, <1>3, <1>4, <1>5, <1>6, <1>7, <1>8, <1>9 DEF Next

\* What has been upserted stays so until the transaction ends.
THEOREM BatchKept == Spec => []AInv
<1>1. TInv /\ FInv /\ AInv /\ [Next]_vars => AInv'
  BY AddFacts, StepKeepsAll
<1> QED
  BY <1>1, InitAInv, TableKept, FilesKept, PTL DEF Spec

\* targetsio.go:12-13: an import has put all of its targets into the table as planned,
\* or none, and says which; whatever fails, and whatever others edited before its
\* first upsert.
THEOREM WholeOrNotAtAll == Spec => []AllOrNothing
<1>1. TInv /\ AInv => AllOrNothing
  <2> SUFFICES ASSUME TInv, AInv PROVE AllOrNothing
    OBVIOUS
  <2>1. ASSUME answer = "imported", Adds # {}
        PROVE  /\ wrote = Adds
               /\ \A a \in SeqSet(plan.add) :
                     tx[IdOf(tx, a.target.name)] = NewRow(a.target.name, a.target.cfg, TRUE)
    <3>1. wrote = Adds /\ Upserted
      BY <2>1 DEF AInv
    <3>2. ASSUME NEW k \in DOMAIN plan.add
          PROVE  tx[IdOf(tx, Target_(k).name)] = NewRow(Target_(k).name, Target_(k).cfg, TRUE)
      BY <3>1, HasFacts DEF Upserted, TInv
    <3> QED
      BY <3>1, <3>2 DEF SeqSet, Target_
  <2> QED
    BY <2>1 DEF AInv, AllOrNothing
<1> QED
  BY <1>1, TableKept, BatchKept, PTL
-----------------------------------------------------------------------------
(***************************************************************************)
(* What follows of the types, the plan and the answers.                     *)
(***************************************************************************)
LEMMA FineRows ==
    ASSUME NEW tb, Good(tb), Fine(tb)
    PROVE  tb \in Seq(Row) /\ UniqueIn(tb)
<1>1. ASSUME NEW i \in DOMAIN tb
      PROVE  tb[i] \in Row
  <2>1. PICK n, c, a : tb[i] = NewRow(n, c, a)
    BY DEF Good, IsRow
  <2>2. a \in BOOLEAN
    BY <2>1 DEF Good, IsRow, NewRow
  <2>3. n \in Names /\ c \in Cfgs \cup {NoCfg}
    <3> DEFINE s == [name |-> n, cfg |-> c]
    <3>1. CASE Stored(TargetOf(tb[i]))
      <4>1. TargetOf(tb[i]) = s
        BY <2>1, NewRowTarget
      <4>2. s \in [name : Names, cfg : Cfgs]
        BY <3>1, <4>1, StoredFacts, Zenon
      <4> QED
        BY <4>2
    <3>2. CASE Bare(tb[i])
      BY <2>1, <3>2 DEF Bare, NewRow
    <3> QED
      BY <3>1, <3>2 DEF Fine, FineRow
  <2> QED
    BY <2>1, <2>2, <2>3 DEF Row, NewRow
<1> DEFINE E == {tb[i] : i \in DOMAIN tb}
<1>2. tb \in Seq(E)
  BY DEF Good, List
<1>3. E \subseteq Row
  BY <1>1
<1> HIDE DEF E
<1>4. tb \in Seq(Row)
  BY <1>2, <1>3
<1> QED
  BY <1>4 DEF Good

\* Every variable keeps its type, and names stay unique, deleted ones included.
THEOREM TypeCorrect == Spec => []TypeOK
<1>1. TInv /\ FInv => TypeOK
  <2> SUFFICES ASSUME TInv, FInv
               PROVE  TypeOK
    OBVIOUS
  <2>1. table \in Seq(Row) /\ UniqueIn(table) /\ tx \in Seq(Row) /\ UniqueIn(tx)
    BY FineRows DEF TInv, FInv
  <2>2. PlanIsList
    BY AddFacts
  <2> QED
    BY <2>1, <2>2 DEF FInv, TypeOK
<1> QED
  BY <1>1, TableKept, FilesKept, PTL

\* targetsio.go:156-157: whatever the file and the names, each row ends in the one part
\* of the plan it belongs to.
THEOREM PlansAreRight == Spec => []PlanRight
<1>1. FInv => PlanRight
  <2> SUFFICES ASSUME FInv, plan # NoPlan
               PROVE  PlanRight
    BY DEF PlanRight
  <2> DEFINE n == Len(Rows)
  <2>1. n \in Nat /\ DOMAIN Rows = 1 .. n
    BY DEF FInv, ProperRows
  <2>2. Classified(Rows, existing, plan, n)
    BY <2>1, PlanFacts DEF FInv
  <2> DEFINE valid == {k \in DOMAIN Rows : RowValid(Rows[k])}
             firsts == {k \in valid : FirstOfName(k)}
             active == {k \in firsts : LET m == RowTarget(Rows[k]).name
                                       IN  m \in DOMAIN existing /\ existing[m]}
  <2>3. valid = Valids(Rows, n)
    BY <2>1 DEF Valids
  <2>4. firsts = Firsts(Rows, n)
    BY <2>3 DEF Firsts, FirstOfName, FirstAt, NameAt
  <2>5. active = Actives(Rows, existing, n)
    BY <2>4 DEF Actives, ActiveAt, NameAt
  <2> HIDE DEF n, valid, firsts, active
  <2>6. /\ SeqSet(plan.invalid) = DOMAIN Rows \ valid
        /\ SeqSet(plan.skip) =
             {Duplicate(k) : k \in valid \ firsts} \cup {Exists(k) : k \in active}
        /\ SeqSet(plan.add) = {Added(Rows, existing, k) : k \in firsts \ active}
        /\ Len(plan.add) + Len(plan.skip) + Len(plan.invalid) = n
    BY <2>1, <2>2, <2>3, <2>4, <2>5, Zenon DEF Classified
  <2>7. {a.row : a \in SeqSet(plan.add)} = firsts \ active
    <3>1. \A k : Added(Rows, existing, k).row = k
      BY DEF Added
    <3>2. ASSUME NEW A, NEW S, A = {Added(Rows, existing, k) : k \in S}
          PROVE  {a.row : a \in A} = S
      BY <3>1, <3>2
    <3> QED
      BY <2>6, <3>2
  <2> QED
    BY <2>6, <2>7, Zenon DEF PlanRight, Duplicate, Exists, n, valid, firsts, active
<1> QED
  BY <1>1, FilesKept, PTL
-----------------------------------------------------------------------------
(***************************************************************************)
(* The answer.  What the plan took from the names read still holds of every *)
(* name no other handler has touched; and the transaction has made taken    *)
(* only names of earlier rows, all different from the next one's.           *)
(***************************************************************************)
Agree(tb) ==
    \A n : n \notin touched =>
        /\ n \in DOMAIN existing <=> Known(tb, n)
        /\ n \in DOMAIN existing => (existing[n] <=> Taken(tb, n))

TakenByTx ==
    \A n : Taken(tx, n) =>
        Taken(table, n) \/ \E k \in DOMAIN plan.add : k < next /\ plan.add[k].target.name = n

NInv ==
    /\ pc \in {"plan", "begin", "exec"} => Agree(table)
    /\ pc = "exec" => before = table /\ TakenByTx
    /\ answer = "imported" /\ Adds # {} =>
           \A n : n \notin touched => (n \in DOMAIN existing <=> Known(before, n))
    /\ answer = "conflict" => Adds \cap touched # {}

LEMMA InitNInv == Init => NInv
BY DEF Init, NInv

LEMMA EditsKeepAnswer ==
    ASSUME TInv, FInv, NInv,
           Others
    PROVE  NInv'
<1>1. /\ touched \subseteq touched'
      /\ \A n : n \notin touched' => SameFor(table, table', n)
      /\ pc # "exec" /\ UNCHANGED << pc, work, tx, next, answer, wrote, before >>
  BY EditsFacts
<1>2. Adds' = Adds /\ existing' = existing
  BY <1>1 DEF work, Adds
<1>3. Agree(table) => Agree(table)'
  BY <1>1, <1>2 DEF Agree, SameFor
<1> QED
  BY <1>1, <1>2, <1>3 DEF NInv

LEMMA ReadKeepsAnswer ==
    ASSUME AInv, NInv, ReadNames
    PROVE  NInv'
<1>1. existing' = TargetNames /\ table' = table /\ pc' = "plan" /\ answer' = answer /\ answer = "none"
  BY DEF ReadNames, AInv
<1>2. \A n : n \in DOMAIN TargetNames <=> Known(table, n)
  BY DEF TargetNames, Known
<1>3. \A n \in DOMAIN TargetNames : TargetNames[n] <=> Taken(table, n)
  BY DEF TargetNames
<1>4. Agree(table)'
  BY <1>1, <1>2, <1>3 DEF Agree
<1> QED
  BY <1>1, <1>4 DEF NInv

LEMMA ExecKeepsAnswer ==
    ASSUME TInv, FInv, AInv, NInv, Exec
    PROVE  NInv'
<1> DEFINE t == plan.add[next].target
<1>1. /\ pc = "exec" /\ next \in DOMAIN plan.add /\ answer = "none"
      /\ UNCHANGED << table, file, existing, plan, wrote, before, touched >>
      /\ Agree(table) /\ before = table /\ TakenByTx
      /\ DOMAIN plan.add = 1 .. Len(plan.add) /\ Len(plan.add) \in Nat /\ next \in Nat
  <2>1. PlanIsList
    BY AddFacts
  <2> QED
    BY <2>1 DEF Exec, work, FInv, AInv, NInv, PlanIsList
<1>2. Agree(table)' /\ Adds' = Adds
  BY <1>1 DEF Agree, Adds
<1>3. CASE Taken(tx, t.name)
  <2>1. tx' = tx /\ pc' = "idle" /\ answer' = "conflict"
    BY <1>3 DEF Exec, Answer
  <2>2. \A k \in DOMAIN plan.add : k < next => plan.add[k].target.name # t.name
    BY <1>1, AddFacts
  <2>3. Taken(table, t.name)
    BY <1>1, <1>3, <2>2 DEF TakenByTx
  <2>4. PICK j \in DOMAIN Rows : ~ActiveAt(Rows, existing, j) /\ plan.add[next] = Added(Rows, existing, j)
    BY <1>1, AddFacts, Zenon
  <2>5. t.name = NameAt(Rows, j)
    BY <2>4 DEF Added, NameAt
  <2>6. Known(table, t.name)
    BY <2>3 DEF Known, Taken
  <2> HIDE DEF t
  <2>7. t.name \in touched
    BY <1>1, <2>3, <2>4, <2>5, <2>6 DEF Agree, ActiveAt
  <2>8. t.name \in Adds
    BY <1>1 DEF Adds, t
  <2>9. Adds' \cap touched' # {}
    BY <1>1, <1>2, <2>7, <2>8
  <2> QED
    BY <2>1, <2>9 DEF NInv
<1>4. CASE ~Taken(tx, t.name)
  <2>1. tx' = Upsert(tx, t.name, t.cfg) /\ pc' = pc /\ next' = next + 1 /\ answer' = answer
    BY <1>4 DEF Exec
  <2>2. \A n : n # t.name => SameFor(tx, tx', n)
    <3> DEFINE m == t.name
               c == t.cfg
    <3>1. tx' = Upsert(tx, m, c) /\ Good(tx)
      BY <2>1 DEF TInv
    <3> HIDE DEF m, c
    <3>2. \A n : n # m => SameFor(tx, tx', n)
      BY <3>1, UpsertLeaves, Zenon
    <3> QED
      BY <3>2 DEF m
  <2>3. ASSUME NEW n, Taken(tx', n)
        PROVE  Taken(table, n) \/ \E k \in DOMAIN plan.add : k < next + 1 /\ plan.add[k].target.name = n
    <3>1. CASE n = t.name
      BY <1>1, <3>1
    <3>2. CASE n # t.name
      <4>1. Taken(tx, n)
        BY <2>2, <2>3, <3>2 DEF SameFor
      <4>2. Taken(table, n) \/ \E k \in DOMAIN plan.add : k < next /\ plan.add[k].target.name = n
        BY <1>1, <4>1 DEF TakenByTx
      <4> QED
        BY <1>1, <4>2
    <3> QED
      BY <3>1, <3>2
  <2> HIDE DEF t
  <2>4. TakenByTx'
    BY <1>1, <2>1, <2>3 DEF TakenByTx
  <2> QED
    BY <1>1, <1>2, <2>1, <2>4 DEF NInv
<1> QED
  BY <1>3, <1>4

LEMMA StepKeepsAnswer ==
    ASSUME TInv, FInv, AInv, NInv, [Next]_vars
    PROVE  NInv'
<1>1. CASE Others
  BY <1>1, EditsKeepAnswer
<1>2. CASE Upload
  BY <1>2 DEF Upload, NInv
<1>3. CASE ReadNames
  BY <1>3, ReadKeepsAnswer
<1>4. CASE PlanFile
  <2>1. /\ pc = "plan" /\ UNCHANGED << table, existing, touched >>
        /\ \/ pc' = "idle" /\ answer' \in {"refused", "preview"}
           \/ pc' = "idle" /\ answer' = "imported" /\ plan'.add = << >>
           \/ pc' = "begin" /\ answer' = answer /\ answer = "none"
    BY <1>4 DEF PlanFile, Answer, AInv
  <2>2. plan'.add = << >> => Adds' = {}
    BY EmptyList DEF Adds
  <2>3. Agree(table)'
    BY <2>1 DEF NInv, Agree
  <2> QED
    BY <2>1, <2>2, <2>3 DEF NInv
<1>5. CASE Begin
  <2>1. /\ pc = "begin" /\ UNCHANGED << table, existing, touched >> /\ pc' = "exec"
        /\ tx' = table /\ before' = table /\ answer' = answer /\ answer = "none"
    BY <1>5 DEF Begin, work, AInv
  <2>2. Agree(table)'
    BY <2>1 DEF NInv, Agree
  <2>3. TakenByTx'
    BY <2>1 DEF TakenByTx
  <2> QED
    BY <2>1, <2>2, <2>3 DEF NInv
<1>6. CASE Exec
  BY <1>6, ExecKeepsAnswer
<1>7. CASE Commit
  <2>1. /\ pc = "exec" /\ UNCHANGED << existing, plan, touched, before >>
        /\ pc' = "idle" /\ answer' = "imported"
    BY <1>7 DEF Commit, Answer, work
  <2> QED
    BY <2>1 DEF NInv, Agree
<1>8. CASE Fail \/ Crash
  BY <1>8 DEF Fail, Crash, Answer, NInv
<1>9. CASE UNCHANGED vars
  <2>1. /\ UNCHANGED << table, pc, existing, plan, tx, next, answer, before, touched >>
    BY <1>9 DEF vars, work
  <2>2. Agree(table)' <=> Agree(table)
    BY <2>1 DEF Agree
  <2>3. TakenByTx' <=> TakenByTx
    BY <2>1 DEF TakenByTx
  <2>4. Adds' = Adds
    BY <2>1 DEF Adds
  <2> QED
    BY <2>1, <2>2, <2>3, <2>4 DEF NInv
<1> QED
  BY <1>1, <1>2, <1>3, <1>4, <1>5, <1>6, <1>7, <1>8, <1>9 DEF Next

\* targetsio.go:126-127 and 287: of a name no other handler touched, the answer says
\* what happened to it; and a batch is refused only for a name another has touched.
THEOREM AnswersAreTrue == Spec => []AnswerTrue
<1>1. TInv /\ FInv /\ AInv /\ NInv /\ [Next]_vars => NInv'
  BY StepKeepsAnswer
<1>2. FInv /\ NInv => AnswerTrue
  <2> SUFFICES ASSUME FInv, NInv, answer = "imported", NEW k \in DOMAIN plan.add,
                      plan.add[k].target.name \notin touched
               PROVE  plan.add[k].restores <=> Known(before, plan.add[k].target.name)
    BY DEF NInv, AnswerTrue, SeqSet
  <2>1. PICK j \in DOMAIN Rows : plan.add[k] = Added(Rows, existing, j)
    BY AddFacts, Zenon
  <2>2. /\ plan.add[k].target.name = NameAt(Rows, j)
        /\ plan.add[k].restores = (NameAt(Rows, j) \in DOMAIN existing)
    BY <2>1 DEF Added, NameAt
  <2>3. Adds # {}
    BY DEF Adds
  <2> QED
    BY <2>2, <2>3 DEF NInv
<1> QED
  BY <1>1, <1>2, InitNInv, TableKept, FilesKept, BatchKept, PTL DEF Spec
-----------------------------------------------------------------------------
(***************************************************************************)
(* Export and import.                                                       *)
(***************************************************************************)
LEMMA EmptyBySet ==
    ASSUME NEW s, List(s), SeqSet(s) = {}
    PROVE  s = << >> /\ Len(s) = 0
<1>1. s \in Seq({s[i] : i \in DOMAIN s}) /\ Len(s) \in Nat /\ DOMAIN s = 1 .. Len(s)
  BY ListAppend DEF List
<1>2. DOMAIN s = {}
  BY DEF SeqSet
<1>3. Len(s) = 0
  BY <1>1, <1>2
<1> DEFINE E == {s[i] : i \in DOMAIN s}
<1> HIDE DEF E
<1>4. s \in Seq(E)
  BY <1>1 DEF E
<1> QED
  BY <1>3, <1>4

\* Rows of different names, all valid and none of them known, are added in their order.
LEMMA AllAdded ==
    ASSUME NEW R, NEW E, NEW p, Len(R) \in Nat, Classified(R, E, p, Len(R)),
           Firsts(R, Len(R)) = 1 .. Len(R), Actives(R, E, Len(R)) = {}
    PROVE  DOMAIN p.add = 1 .. Len(R) /\ \A k \in 1 .. Len(R) : p.add[k].target = RowTarget(R[k])
<1> DEFINE n == Len(R)
           a == p.add
<1>1. Valids(R, n) = 1 .. n
  BY DEF Firsts, Valids
<1> HIDE DEF n, a
<1>2. /\ List(a) /\ List(p.skip) /\ List(p.invalid)
      /\ SeqSet(p.invalid) = (1 .. n) \ Valids(R, n)
      /\ SeqSet(p.skip) = {Duplicate(k) : k \in Valids(R, n) \ Firsts(R, n)} \cup {Exists(k) : k \in Actives(R, E, n)}
      /\ SeqSet(a) = {Added(R, E, k) : k \in Firsts(R, n) \ Actives(R, E, n)}
      /\ \A i, j \in DOMAIN a : i < j => a[i].row < a[j].row
      /\ Len(a) + Len(p.skip) + Len(p.invalid) = n
  BY Zenon DEF Classified, n, a
<1>3. Firsts(R, n) = 1 .. n /\ Actives(R, E, n) = {} /\ n \in Nat
  BY DEF n
<1>4. SeqSet(p.invalid) = {} /\ SeqSet(p.skip) = {}
  BY <1>1, <1>2, <1>3
<1>5. Len(p.skip) = 0 /\ Len(p.invalid) = 0
  BY <1>2, <1>4, EmptyBySet
<1>6. Len(a) \in Nat /\ DOMAIN a = 1 .. Len(a)
  BY <1>2, ListAppend
<1>7. Len(a) = n
  BY <1>2, <1>5, <1>6
<1>8. ASSUME NEW i \in 1 .. n
      PROVE  \E j \in 1 .. n : a[i] = Added(R, E, j) /\ a[i].row = j /\ a[i].target = RowTarget(R[j])
  <2>1. a[i] \in SeqSet(a)
    BY <1>6, <1>7 DEF SeqSet
  <2>2. PICK j \in 1 .. n : a[i] = Added(R, E, j)
    BY <1>2, <1>3, <2>1
  <2>3. a[i].row = j /\ a[i].target = RowTarget(R[j])
    BY <2>2 DEF Added
  <2> QED
    BY <2>2, <2>3
<1> DEFINE f == [i \in 1 .. n |-> a[i].row]
<1>9. f \in [1 .. n -> 1 .. n] /\ \A i \in 1 .. n : f[i] = a[i].row
  BY <1>8
<1> HIDE DEF f
<1>10. \A i, j \in 1 .. n : i < j => f[i] < f[j]
  BY <1>2, <1>6, <1>7, <1>9
<1>11. \A i \in 1 .. n : f[i] = i
  BY <1>3, <1>9, <1>10, IncreasingKeeps
<1>12. ASSUME NEW i \in 1 .. n
       PROVE  a[i].target = RowTarget(R[i])
  <2>1. PICK j \in 1 .. n : a[i] = Added(R, E, j) /\ a[i].row = j /\ a[i].target = RowTarget(R[j])
    BY <1>8
  <2>2. j = i
    BY <1>9, <1>11, <2>1
  <2> QED
    BY <2>1, <2>2
<1>13. DOMAIN a = 1 .. n
  BY <1>6, <1>7
<1> QED
  BY <1>12, <1>13, Zenon DEF n, a

\* targetsio.go:5-6: every target of an export is accepted where it is not known, as it
\* was and in its place, and none is added where it came from.
THEOREM ExportsComeBack == Spec => []RoundTrip
<1>1. TInv /\ FInv => RoundTrip
  <2> SUFFICES ASSUME TInv, FInv
               PROVE  RoundTrip
    OBVIOUS
  <2> DEFINE l == Listed(table)
             R == Export(l).rows
             n == Len(l)
             there == Plan(R, << >>)
             here == Plan(R, TargetNames)
  <2>1. /\ ProperRows(R) /\ Len(R) = n /\ DOMAIN l = 1 .. n
        /\ l = [k \in DOMAIN l |-> l[k]]
        /\ \A k \in DOMAIN l : RowValid(R[k]) /\ RowTarget(R[k]) = l[k] /\ Taken(table, l[k].name)
        /\ \A j, k \in DOMAIN l : j # k => l[j].name # l[k].name
    BY ExportFacts, Zenon DEF TInv, FInv
  <2>2. RoundTrip <=> /\ [k \in DOMAIN there.add |-> there.add[k].target] = l
                      /\ here.add = << >> /\ here.invalid = << >>
    BY Zenon DEF RoundTrip
  <2> HIDE DEF l, R, n
  <2>3. n \in Nat
    BY <2>1 DEF ProperRows
  <2>4. Classified(R, << >>, there, n) /\ Classified(R, TargetNames, here, n)
    BY <2>1, <2>3, PlanFacts
  <2> HIDE DEF there, here
  <2>5. \A k \in 1 .. n : NameAt(R, k) = l[k].name
    BY <2>1 DEF NameAt
  <2>6. Valids(R, n) = 1 .. n
    BY <2>1 DEF Valids
  <2>7. Firsts(R, n) = 1 .. n
    <3>1. ASSUME NEW k \in 1 .. n
          PROVE  FirstAt(R, k)
      <4>1. ASSUME NEW j \in 1 .. k - 1
            PROVE  NameAt(R, j) # NameAt(R, k)
        <5>1. j \in 1 .. n /\ j # k
          BY <2>3
        <5> QED
          BY <2>1, <2>5, <5>1
      <4> QED
        BY <4>1 DEF FirstAt
    <3> QED
      BY <2>6, <3>1 DEF Firsts
  <2>8. [k \in DOMAIN there.add |-> there.add[k].target] = l
    <3>1. Actives(R, << >>, n) = {}
      BY EmptyList DEF Actives, ActiveAt
    <3>2. DOMAIN there.add = 1 .. n /\ \A k \in 1 .. n : there.add[k].target = RowTarget(R[k])
      <4>1. Len(R) \in Nat /\ Classified(R, << >>, there, Len(R))
            /\ Firsts(R, Len(R)) = 1 .. Len(R) /\ Actives(R, << >>, Len(R)) = {}
        BY <2>1, <2>3, <2>4, <2>7, <3>1
      <4> QED
        BY <2>1, <4>1, AllAdded
    <3> QED
      BY <2>1, <3>2
  <2>9. here.add = << >> /\ here.invalid = << >>
    <3>1. ASSUME NEW k \in 1 .. n
          PROVE  ActiveAt(R, TargetNames, k)
      <4>1. Taken(table, NameAt(R, k))
        BY <2>1, <2>5
      <4>2. NameAt(R, k) \in {table[i].name : i \in DOMAIN table}
        BY <4>1 DEF Taken
      <4> QED
        BY <4>1, <4>2 DEF ActiveAt, TargetNames
    <3>2. Actives(R, TargetNames, n) = 1 .. n
      BY <2>7, <3>1 DEF Actives
    <3>3. SeqSet(here.add) = {} /\ SeqSet(here.invalid) = {} /\ List(here.add) /\ List(here.invalid)
      BY <2>4, <2>6, <2>7, <3>2 DEF Classified
    <3> QED
      BY <3>3, EmptyBySet
  <2> QED
    BY <2>2, <2>8, <2>9
<1> QED
  BY <1>1, TableKept, FilesKept, PTL
-----------------------------------------------------------------------------
(***************************************************************************)
(* The import, too, changes the table only as module Registry allows: the   *)
(* rows it commits are new, or were deleted targets under their own names,  *)
(* although the table it started from is the one of its first upsert and    *)
(* not the one its plan was made for.                                       *)
(***************************************************************************)
Reg == INSTANCE Registry

RegistrySpec == Reg!Spec

\* Rows are added, and inactive ones become active under their names.
Reactivates(tb, tb2) ==
    /\ DOMAIN tb \subseteq DOMAIN tb2
    /\ \A i \in DOMAIN tb :
          \/ tb2[i] = tb[i]
          \/ ~tb[i].active /\ tb2[i].active /\ tb2[i].name = tb[i].name

\* What the transaction has done to its copy of the table.
GInv == pc = "exec" => Reactivates(table, tx)

\* A row that was reactivated is not touched again.
LEMMA ReactivatesOn ==
    ASSUME NEW tb, NEW tb2, NEW tb3, Reactivates(tb, tb2), Reactivates(tb2, tb3)
    PROVE  Reactivates(tb, tb3)
BY DEF Reactivates

\* An upsert that does not refuse the name.
LEMMA UpsertReactivates ==
    ASSUME NEW tb, Good(tb), NEW n, NEW c, ~Taken(tb, n)
    PROVE  Reactivates(tb, Upsert(tb, n, c))
<1> DEFINE r == NewRow(n, c, TRUE)
           tb2 == Upsert(tb, n, c)
<1>1. r.name = n /\ r.active
  BY NewRowFacts
<1>2. CASE Known(tb, n)
  <2> DEFINE i == IdOf(tb, n)
  <2>1. i \in DOMAIN tb /\ tb[i].name = n
    BY <1>2 DEF Known, IdOf
  <2>2. tb2 = [tb EXCEPT ![i] = r]
    BY <1>2 DEF Upsert
  <2> HIDE DEF i, r, tb2
  <2>3. /\ DOMAIN tb2 = DOMAIN tb /\ tb2[i] = r
        /\ \A j \in DOMAIN tb \ {i} : tb2[j] = tb[j]
    BY <2>1, <2>2, ListExcept DEF Good
  <2>4. ~tb[i].active
    BY <2>1 DEF Taken
  <2>5. Reactivates(tb, tb2)
    BY <1>1, <2>1, <2>3, <2>4 DEF Reactivates
  <2> QED
    BY <2>5 DEF tb2
<1>3. CASE ~Known(tb, n)
  <2>1. tb2 = Append(tb, r)
    BY <1>3 DEF Upsert
  <2> HIDE DEF r, tb2
  <2>2. /\ Len(tb) \in Nat /\ DOMAIN tb = 1 .. Len(tb) /\ DOMAIN tb2 = 1 .. Len(tb) + 1
        /\ \A i \in DOMAIN tb : tb2[i] = tb[i]
    BY <2>1, ListAppend DEF Good
  <2>3. Reactivates(tb, tb2)
    BY <2>2 DEF Reactivates
  <2> QED
    BY <2>3 DEF tb2
<1> QED
  BY <1>2, <1>3

\* One row replaced as an edit or a deletion does it.
LEMMA ReplaceEvolves ==
    ASSUME NEW tb, Good(tb), NEW i \in DOMAIN tb, NEW r, Evolves(tb[i], r)
    PROVE  /\ DOMAIN [tb EXCEPT ![i] = r] = DOMAIN tb
           /\ \A j \in DOMAIN tb : Evolves(tb[j], [tb EXCEPT ![i] = r][j])
<1> DEFINE tb2 == [tb EXCEPT ![i] = r]
<1>1. /\ DOMAIN tb2 = DOMAIN tb /\ tb2[i] = r
      /\ \A j \in DOMAIN tb \ {i} : tb2[j] = tb[j]
  BY ListExcept DEF Good
<1> HIDE DEF tb2
<1>2. \A j \in DOMAIN tb : Evolves(tb[j], tb2[j])
  BY <1>1 DEF Evolves
<1> QED
  BY <1>1, <1>2 DEF tb2

\* UpdateTarget and DeactivateTarget.
LEMMA EditEvolves ==
    ASSUME NEW tb, Good(tb), NEW i, NEW n, NEW c, NEW tb2,
           \/ Updatable(tb, i, n) /\ tb2 = Update(tb, i, n, c)
           \/ i \in DOMAIN tb /\ tb[i].active /\ tb2 = Deactivate(tb, i)
    PROVE  DOMAIN tb \subseteq DOMAIN tb2 /\ \A j \in DOMAIN tb : Evolves(tb[j], tb2[j])
<1>1. CASE Updatable(tb, i, n) /\ tb2 = Update(tb, i, n, c)
  <2> DEFINE r == NewRow(n, c, TRUE)
  <2>1. i \in DOMAIN tb /\ tb[i].active /\ r.active
    BY <1>1, NewRowFacts DEF Updatable
  <2>2. tb2 = [tb EXCEPT ![i] = r]
    BY <1>1 DEF Update
  <2> HIDE DEF r
  <2>3. Evolves(tb[i], r)
    BY <2>1 DEF Evolves
  <2> QED
    BY <2>1, <2>2, <2>3, ReplaceEvolves
<1>2. CASE i \in DOMAIN tb /\ tb[i].active /\ tb2 = Deactivate(tb, i)
  <2> DEFINE r == [tb[i] EXCEPT !.active = FALSE]
  <2>1. tb2 = [tb EXCEPT ![i] = r]
    BY <1>2 DEF Deactivate
  <2>2. PICK m, d, a : tb[i] = NewRow(m, d, a)
    BY <1>2 DEF Good, IsRow
  <2>3. r.name = tb[i].name /\ r.cfg = tb[i].cfg /\ ~r.active
    BY <2>2 DEF NewRow
  <2> HIDE DEF r
  <2>4. Evolves(tb[i], r)
    BY <1>2, <2>3 DEF Evolves
  <2> QED
    BY <1>2, <2>1, <2>4, ReplaceEvolves
<1> QED
  BY <1>1, <1>2

LEMMA StepReactivates ==
    ASSUME TInv, GInv, [Next]_vars
    PROVE  GInv'
<1>1. CASE Others
  <2>1. pc' = pc /\ pc # "exec"
    BY <1>1 DEF Others, Create, UpdateTarget, Delete, EnsureTarget, Edit
  <2> QED
    BY <2>1 DEF GInv
<1>2. CASE Upload \/ ReadNames \/ PlanFile \/ Commit \/ Fail \/ Crash
  BY <1>2 DEF Upload, ReadNames, PlanFile, Commit, Fail, Crash, Answer, GInv
<1>3. CASE Begin
  BY <1>3 DEF Begin, GInv, Reactivates
<1>4. CASE Exec
  <2> DEFINE t == plan.add[next].target
  <2>1. CASE Taken(tx, t.name)
    BY <1>4, <2>1 DEF Exec, Answer, GInv
  <2>2. CASE ~Taken(tx, t.name)
    <3>1. tx' = Upsert(tx, t.name, t.cfg) /\ pc = "exec" /\ table' = table
      BY <1>4, <2>2 DEF Exec
    <3>2. Reactivates(tx, tx')
      BY <2>2, <3>1, UpsertReactivates DEF TInv
    <3> QED
      BY <3>1, <3>2, ReactivatesOn DEF GInv
  <2> QED
    BY <2>1, <2>2
<1>5. CASE UNCHANGED vars
  BY <1>5 DEF vars, GInv
<1> QED
  BY <1>1, <1>2, <1>3, <1>4, <1>5 DEF Next

\* A table of accepted targets that evolved from another has grown.
LEMMA EvolvedGrows ==
    ASSUME NEW tb, NEW tb2, Good(tb), Good(tb2), Fine(tb2), DOMAIN tb \subseteq DOMAIN tb2,
           \A i \in DOMAIN tb : Evolves(tb[i], tb2[i])
    PROVE  Grows(tb, tb2)
<1>1. tb2 \in Seq(Row) /\ UniqueIn(tb2)
  BY FineRows
<1>2. /\ Len(tb) \in Nat /\ DOMAIN tb = 1 .. Len(tb)
      /\ Len(tb2) \in Nat /\ DOMAIN tb2 = 1 .. Len(tb2)
  BY ListAppend DEF Good
<1>3. Len(tb) =< Len(tb2)
  BY <1>2
<1> QED
  BY <1>1, <1>3 DEF Grows

LEMMA ReactivatesGrows ==
    ASSUME NEW tb, NEW tb2, Good(tb), Good(tb2), Fine(tb2), Reactivates(tb, tb2)
    PROVE  Grows(tb, tb2)
<1>1. \A i \in DOMAIN tb : Evolves(tb[i], tb2[i])
  BY DEF Reactivates, Evolves
<1> QED
  BY <1>1, EvolvedGrows DEF Reactivates

LEMMA StepGrows ==
    ASSUME TInv, TInv', FInv, FInv', GInv, Next
    PROVE  Grows(table, table') \/ table' = table
<1>1. Good(table) /\ Good(table') /\ Fine(table')
  BY DEF TInv, FInv
<1>2. ASSUME NEW t \in Requests, Create(t)
      PROVE  Grows(table, table')
  <2>1. table' = Upsert(table, Normal(t).name, Normal(t).cfg) /\ ~Taken(table, Normal(t).name)
    BY <1>2 DEF Create, Edit
  <2>2. Reactivates(table, table')
    BY <1>1, <2>1, UpsertReactivates
  <2> QED
    BY <1>1, <2>2, ReactivatesGrows
<1>3. ASSUME NEW t \in Requests, NEW i \in DOMAIN table, UpdateTarget(i, t)
      PROVE  Grows(table, table')
  <2>1. /\ Updatable(table, i, Normal(t).name)
        /\ table' = Update(table, i, Normal(t).name, Normal(t).cfg)
    BY <1>3 DEF UpdateTarget, Edit
  <2>2. DOMAIN table \subseteq DOMAIN table' /\ \A j \in DOMAIN table : Evolves(table[j], table'[j])
    BY <1>1, <2>1, EditEvolves
  <2> QED
    BY <1>1, <2>2, EvolvedGrows
<1>4. ASSUME NEW i \in DOMAIN table, Delete(i)
      PROVE  Grows(table, table')
  <2>1. i \in DOMAIN table /\ table[i].active /\ table' = Deactivate(table, i)
    BY <1>4 DEF Delete, Edit
  <2>2. DOMAIN table \subseteq DOMAIN table' /\ \A j \in DOMAIN table : Evolves(table[j], table'[j])
    BY <1>1, <2>1, EditEvolves
  <2> QED
    BY <1>1, <2>2, EvolvedGrows
<1>7. ASSUME NEW n \in renamed, EnsureTarget(n)
      PROVE  Grows(table, table')
  <2>1. ~Known(table, n) /\ table' = BareRow(table, n)
    BY <1>7 DEF EnsureTarget, Edit
  <2>2. DOMAIN table \subseteq DOMAIN table' /\ \A j \in DOMAIN table : table'[j] = table[j]
    BY <1>1, <2>1, BareRowFacts
  <2>3. \A j \in DOMAIN table : Evolves(table[j], table'[j])
    BY <2>2 DEF Evolves
  <2> QED
    BY <1>1, <2>2, <2>3, EvolvedGrows
<1>5. CASE Commit
  <2>1. table' = tx /\ Reactivates(table, tx)
    BY <1>5 DEF Commit, GInv
  <2> QED
    BY <1>1, <2>1, ReactivatesGrows
<1>6. CASE Upload \/ ReadNames \/ PlanFile \/ Begin \/ Exec \/ Fail \/ Crash
  BY <1>6 DEF Upload, ReadNames, PlanFile, Begin, Exec, Fail, Crash
<1> QED
  BY <1>2, <1>3, <1>4, <1>5, <1>6, <1>7 DEF Next, Others

\* targets.go:11-14, 19-21 and 162-165: an import among other handlers'
\* statements implements module Registry.
THEOREM ImplementsRegistry == Spec => RegistrySpec
<1>1. Init => Reg!Init /\ GInv
  BY DEF Init, Reg!Init, GInv
<1>2. TInv /\ GInv /\ [Next]_vars => GInv'
  BY StepReactivates
<1>3. TInv /\ TInv' /\ FInv /\ FInv' /\ GInv /\ [Next]_vars => [Reg!Change]_table
  <2> SUFFICES ASSUME TInv, TInv', FInv, FInv', GInv, [Next]_vars
               PROVE  Reg!Change \/ table' = table
    OBVIOUS
  <2>1. Grows(table, table') => Reg!Grows(table, table')
    BY DEF Grows, Reg!Grows, Row, Reg!Row, Evolves, Reg!Evolves, UniqueIn, Reg!UniqueIn
  <2>2. CASE Next
    BY <2>1, <2>2, StepGrows DEF Reg!Change
  <2>3. CASE UNCHANGED vars
    BY <2>3 DEF vars
  <2> QED
    BY <2>2, <2>3
<1> QED
  BY <1>1, <1>2, <1>3, TableKept, FilesKept, PTL DEF Spec, RegistrySpec, Reg!Spec
=============================================================================
