---------------------------- MODULE RunnerProofs ----------------------------
(***************************************************************************)
(* For any number of handlers, targets, requests, crashes and failing       *)
(* statements: the types, one running loop per target, the registrations,   *)
(* the recorder, and that the table only grows as module Registry allows.   *)
(*                                                                         *)
(* Between two critical sections the registered names are the live names.   *)
(* Inside one, apply passes through states where neither holds; what does   *)
(* hold is that every live name is registered and that every registered     *)
(* name is live or wanted by the goroutine that holds r.mu.                 *)
(*                                                                         *)
(* The last part is about requests that do not overlap: then an edit is in  *)
(* effect when it is answered, and no history goes under another's name.    *)
(***************************************************************************)
EXTENDS Runner, FiniteSetTheorems, SequenceTheorems, TLAPS

(***************************************************************************)
(* The table: every statement the program runs on it makes it grow as       *)
(* module TargetTable allows.  Ids are stable, deleted rows keep their      *)
(* name, and names stay unique.                                             *)
(***************************************************************************)
Good(tb) == tb \in Seq(Row) /\ UniqueIn(tb)

\* A row with its columns given is a row.
LEMMA NewRowType ==
    ASSUME NEW n \in Names, NEW c \in Cfgs \cup {NoCfg}, NEW a \in BOOLEAN
    PROVE  NewRow(n, c, a) \in Row
BY DEF NewRow, Row

\* SELECT id FROM targets WHERE name = ? finds a row of that name.
LEMMA IdOfFacts ==
    ASSUME NEW tb \in Seq(Row), NEW n \in Names, Known(tb, n)
    PROVE  /\ IdOf(tb, n) \in DOMAIN tb /\ tb[IdOf(tb, n)].name = n
           /\ IdOf(tb, n) \in 1 .. Len(tb)
BY DEF Known, IdOf

\* Replacing one row keeps names unique if no other row has the new name.
LEMMA ReplaceGrows ==
    ASSUME NEW tb, Good(tb), NEW i \in DOMAIN tb, NEW r \in Row,
           Evolves(tb[i], r),
           \A j \in DOMAIN tb \ {i} : tb[j].name # r.name
    PROVE  Grows(tb, [tb EXCEPT ![i] = r])
<1> DEFINE tb2 == [tb EXCEPT ![i] = r]
<1>1. /\ tb2 \in Seq(Row) /\ Len(tb2) = Len(tb) /\ Len(tb) \in Nat
      /\ DOMAIN tb2 = DOMAIN tb
      /\ tb2[i] = r /\ \A j \in DOMAIN tb \ {i} : tb2[j] = tb[j]
  BY DEF Good
<1> HIDE DEF tb2
<1>2. UniqueIn(tb2)
  BY <1>1 DEF Good, UniqueIn
<1>3. \A j \in DOMAIN tb : Evolves(tb[j], tb2[j])
  BY <1>1 DEF Evolves
<1> QED
  BY <1>1, <1>2, <1>3 DEF Grows, tb2

\* So does adding one row with a name the table does not have.
LEMMA AppendGrows ==
    ASSUME NEW tb, Good(tb), NEW r \in Row, ~Known(tb, r.name)
    PROVE  Grows(tb, Append(tb, r))
<1> DEFINE tb2 == Append(tb, r)
<1>1. /\ tb2 \in Seq(Row) /\ Len(tb2) = Len(tb) + 1 /\ Len(tb) \in Nat
      /\ DOMAIN tb = 1 .. Len(tb) /\ DOMAIN tb2 = 1 .. Len(tb) + 1
      /\ tb2[Len(tb) + 1] = r /\ \A j \in DOMAIN tb : tb2[j] = tb[j]
  BY DEF Good
<1> HIDE DEF tb2
<1>2. UniqueIn(tb2)
  BY <1>1 DEF Good, UniqueIn, Known
<1>3. \A j \in DOMAIN tb : Evolves(tb[j], tb2[j])
  BY <1>1 DEF Evolves
<1> QED
  BY <1>1, <1>2, <1>3 DEF Grows, tb2

\* upsertTarget, with or without a row of that name.
LEMMA UpsertGrows ==
    ASSUME NEW tb, Good(tb), NEW n \in Names, NEW c \in Cfgs
    PROVE  Grows(tb, Upsert(tb, n, c))
<1> DEFINE r == NewRow(n, c, TRUE)
<1>1. r \in Row /\ r.name = n /\ r.active
  BY NewRowType DEF NewRow
<1>2. CASE Known(tb, n)
  <2>1. IdOf(tb, n) \in DOMAIN tb /\ tb[IdOf(tb, n)].name = n
    BY <1>2, IdOfFacts DEF Good
  <2>2. tb[IdOf(tb, n)].active \/ ~tb[IdOf(tb, n)].active
    OBVIOUS
  <2>3. Evolves(tb[IdOf(tb, n)], r)
    BY <1>1, <2>1, <2>2, Zenon DEF Evolves
  <2>4. \A j \in DOMAIN tb \ {IdOf(tb, n)} : tb[j].name # r.name
    BY <1>1, <2>1 DEF Good, UniqueIn
  <2> QED
    BY <1>1, <1>2, <2>1, <2>3, <2>4, ReplaceGrows DEF Upsert
<1>3. CASE ~Known(tb, n)
  BY <1>1, <1>3, AppendGrows DEF Upsert
<1> QED
  BY <1>2, <1>3

\* UpdateTarget, when no other row, deleted ones included, has the new name.
LEMMA UpdateGrows ==
    ASSUME NEW tb, Good(tb), NEW i, NEW n \in Names, NEW c \in Cfgs,
           Updatable(tb, i, n)
    PROVE  Grows(tb, Update(tb, i, n, c))
<1> DEFINE r == NewRow(n, c, TRUE)
<1>1. r \in Row /\ r.name = n /\ r.active
  BY NewRowType DEF NewRow
<1>2. i \in DOMAIN tb /\ Evolves(tb[i], r)
  BY <1>1 DEF Updatable, Evolves
<1> QED
  BY <1>1, <1>2, ReplaceGrows DEF Updatable, Update

\* DeactivateTarget.
LEMMA DeactivateGrows ==
    ASSUME NEW tb, Good(tb), NEW i \in DOMAIN tb, tb[i].active
    PROVE  Grows(tb, Deactivate(tb, i))
<1> DEFINE r == [tb[i] EXCEPT !.active = FALSE]
<1>1. tb[i] \in Row
  BY DEF Good
<1>2. r \in Row /\ r.name = tb[i].name /\ r.cfg = tb[i].cfg /\ ~r.active
  BY <1>1 DEF Row
<1>3. Evolves(tb[i], r)
  BY <1>2 DEF Evolves
<1>4. \A j \in DOMAIN tb \ {i} : tb[j].name # r.name
  BY <1>2 DEF Good, UniqueIn
<1>5. Grows(tb, [tb EXCEPT ![i] = r])
  BY <1>2, <1>3, <1>4, ReplaceGrows
<1> QED
  BY <1>5 DEF Deactivate

\* EnsureTarget's bare row.
LEMMA BareRowGrows ==
    ASSUME NEW tb, Good(tb), NEW n \in Names, ~Known(tb, n)
    PROVE  Grows(tb, BareRow(tb, n))
<1>1. NewRow(n, NoCfg, FALSE) \in Row /\ NewRow(n, NoCfg, FALSE).name = n
  BY NewRowType DEF NewRow
<1> QED
  BY <1>1, AppendGrows DEF BareRow

\* ImportTargets: known names get the new configuration, the others are added in
\* some order, all in one transaction.
LEMMA ImportedGrows ==
    ASSUME NEW tb, Good(tb), NEW X \in SUBSET Names, IsFiniteSet(Names), NEW c \in Cfgs,
           NEW order \in Orders(FreshNames(tb, X))
    PROVE  /\ Grows(tb, Imported(tb, X, c, order))
           /\ \A i \in DOMAIN tb : Imported(tb, X, c, order)[i].name = tb[i].name
<1> DEFINE F == FreshNames(tb, X)
           m == Cardinality(F)
           new == [k \in 1 .. Len(order) |-> NewRow(order[k], c, TRUE)]
           old == Restored(tb, X, c)
           tb2 == Imported(tb, X, c, order)
<1>1. m \in Nat
  <2>1. F \in SUBSET Names
    BY DEF FreshNames
  <2> QED
    BY <2>1, FS_Subset, FS_CardinalityType
<1>2. /\ order \in [1 .. m -> F] /\ Len(order) = m
      /\ \A j, k \in 1 .. m : order[j] = order[k] => j = k
  <2>1. order \in [1 .. m -> F] /\ IsInjective(order)
    BY DEF Orders
  <2>2. DOMAIN order = 1 .. m
    BY <2>1
  <2>3. Len(order) = m
    BY <1>1, <2>1, <2>2
  <2> QED
    BY <2>1, <2>2, <2>3 DEF IsInjective
<1>3. \A n \in F : n \in Names /\ ~Known(tb, n)
  BY DEF FreshNames
<1>4. /\ new \in Seq(Row) /\ Len(new) = m
      /\ \A k \in 1 .. m : new[k].name = order[k]
  <2>1. \A k \in 1 .. m : NewRow(order[k], c, TRUE) \in Row
    BY <1>2, <1>3, NewRowType
  <2>2. new \in [1 .. m -> Row]
    BY <1>2, <2>1
  <2>3. \A k \in 1 .. m : new[k] = NewRow(order[k], c, TRUE)
    BY <1>2
  <2> HIDE DEF new
  <2> QED
    BY <1>1, <2>2, <2>3 DEF NewRow
<1>5. /\ old \in Seq(Row) /\ Len(old) = Len(tb) /\ Len(tb) \in Nat
      /\ DOMAIN tb = 1 .. Len(tb)
      /\ \A i \in DOMAIN tb : old[i].name = tb[i].name /\ Evolves(tb[i], old[i])
  <2>1. tb \in [1 .. Len(tb) -> Row] /\ Len(tb) \in Nat /\ DOMAIN tb = 1 .. Len(tb)
    BY DEF Good
  <2>2. ASSUME NEW i \in DOMAIN tb
        PROVE  old[i] \in Row /\ old[i].name = tb[i].name /\ Evolves(tb[i], old[i])
    <3>1. CASE tb[i].name \in X
      <4> DEFINE r == NewRow(tb[i].name, c, TRUE)
      <4>1. old[i] = r
        BY <3>1 DEF Restored
      <4>2. r \in Row /\ r.name = tb[i].name /\ r.active
        BY <2>1, <3>1, NewRowType DEF NewRow
      <4>3. Evolves(tb[i], r)
        BY <4>2, Zenon DEF Evolves
      <4> QED
        BY <4>1, <4>2, <4>3
    <3>2. CASE tb[i].name \notin X
      BY <2>1, <3>2 DEF Restored, Evolves
    <3> QED
      BY <3>1, <3>2
  <2>3. old \in [1 .. Len(tb) -> Row]
    BY <2>1, <2>2 DEF Restored
  <2> HIDE DEF old
  <2> QED
    BY <2>1, <2>2, <2>3
<1> HIDE DEF new, old, m, F
<1>6. tb2 = old \o new
  BY DEF tb2, Imported, old, new
<1> HIDE DEF tb2
<1>7. /\ tb2 \in Seq(Row) /\ Len(tb2) = Len(tb) + m
      /\ DOMAIN tb2 = 1 .. Len(tb) + m
      /\ \A i \in 1 .. Len(tb) : tb2[i] = old[i]
      /\ \A i \in 1 .. Len(tb) + m : i > Len(tb) => i - Len(tb) \in 1 .. m /\ tb2[i] = new[i - Len(tb)]
  <2>1. /\ old \o new \in Seq(Row) /\ Len(old \o new) = Len(tb) + m
        /\ \A i \in 1 .. Len(tb) + m :
              (old \o new)[i] = IF i =< Len(tb) THEN old[i] ELSE new[i - Len(tb)]
    <3>1. old \in Seq(Row) /\ new \in Seq(Row)
      BY <1>4, <1>5
    <3>2. /\ old \o new \in Seq(Row) /\ Len(old \o new) = Len(old) + Len(new)
          /\ \A i \in 1 .. Len(old) + Len(new) :
                (old \o new)[i] = IF i <= Len(old) THEN old[i] ELSE new[i - Len(old)]
      BY <3>1, ConcatProperties, Zenon
    <3>3. Len(old) = Len(tb) /\ Len(new) = m
      BY <1>4, <1>5
    <3> QED
      BY <3>2, <3>3
  <2>2. tb2 \in Seq(Row) /\ Len(tb2) = Len(tb) + m /\ DOMAIN tb2 = 1 .. Len(tb) + m
    BY <1>1, <1>5, <1>6, <2>1
  <2>3. ASSUME NEW i \in 1 .. Len(tb) + m
        PROVE  /\ i =< Len(tb) => tb2[i] = old[i]
               /\ i > Len(tb) => i - Len(tb) \in 1 .. m /\ tb2[i] = new[i - Len(tb)]
    BY <1>1, <1>5, <1>6, <2>1
  <2>4. \A i \in 1 .. Len(tb) : i \in 1 .. Len(tb) + m /\ i =< Len(tb)
    BY <1>1, <1>5
  <2> QED
    BY <2>2, <2>3, <2>4
<1>8. UniqueIn(tb2)
  <2>1. ASSUME NEW i \in 1 .. Len(tb), NEW j \in 1 .. Len(tb), tb2[i].name = tb2[j].name
        PROVE  i = j
    BY <2>1, <1>5, <1>7 DEF Good, UniqueIn
  <2>2. ASSUME NEW i \in 1 .. Len(tb), NEW j \in 1 .. Len(tb) + m, j > Len(tb)
        PROVE  tb2[i].name # tb2[j].name
    <3>1. tb2[i].name = tb[i].name
      BY <1>5, <1>7
    <3>2. tb2[j].name \in F
      <4>1. j - Len(tb) \in 1 .. m /\ tb2[j] = new[j - Len(tb)]
        BY <1>7, <2>2
      <4> QED
        BY <1>2, <1>4, <4>1
    <3> QED
      BY <1>3, <1>5, <3>1, <3>2 DEF Known
  <2>3. ASSUME NEW i \in 1 .. Len(tb) + m, NEW j \in 1 .. Len(tb) + m,
               i > Len(tb), j > Len(tb), tb2[i].name = tb2[j].name
        PROVE  i = j
    <3>1. i - Len(tb) = j - Len(tb)
      BY <1>2, <1>4, <1>7, <2>3
    <3> QED
      BY <1>1, <1>5, <3>1
  <2>4. SUFFICES ASSUME NEW i \in 1 .. Len(tb) + m, NEW j \in 1 .. Len(tb) + m,
                        tb2[i].name = tb2[j].name
                 PROVE  i = j
    BY <1>7 DEF UniqueIn
  <2>5. /\ i > Len(tb) \/ i \in 1 .. Len(tb)
        /\ j > Len(tb) \/ j \in 1 .. Len(tb)
    BY <1>1, <1>5
  <2> QED
    BY <2>1, <2>2, <2>3, <2>4, <2>5
<1> QED
  BY <1>1, <1>5, <1>7, <1>8 DEF Grows, tb2

-----------------------------------------------------------------------------
(***************************************************************************)
(* The program.                                                             *)
(***************************************************************************)
\* No two targets of a map share a name.
DistinctNames(f) == \A i, j \in DOMAIN f : f[i].name = f[j].name => i = j

\* What a request relies on between its steps.
JobsInPlace ==
    \A p \in Procs : /\ pc[p] = "plan" => job[p].op = "import"
                     /\ job[p].op = "delete" => job[p].id \in DOMAIN table

WantDistinct == \A p \in Procs : DistinctNames(want[p])

LiveRegistered == \A i \in DOMAIN live : ids[live[i].name] # 0

RegisteredWanted ==
    \A n \in Names :
        ids[n] # 0 => \/ \E i \in DOMAIN live : live[i].name = n
                      \/ lock # NoProc /\ \E i \in DOMAIN want[lock] : want[lock][i].name = n

\* While EnsureTarget is between its SELECT and its INSERT, nothing it decided
\* on has changed: the store and the runner's map are the mutex holder's.
BareAbsent ==
    bare # 0 => /\ lock # NoProc
                /\ bare \in Absent(lock) /\ Stale(lock) = {}
                /\ ids[want[lock][bare].name] = 0

\* Between registering a name and starting its loop, the registration is there and
\* the target is still absent.
ReplayAbsent ==
    replay # 0 => /\ lock # NoProc
                  /\ replay \in Absent(lock) /\ Stale(lock) = {}
                  /\ ids[want[lock][replay].name] # 0
                  /\ bare = 0

RequestInv == TypeOK /\ UniqueIn(table) /\ JobsInPlace /\ WantDistinct
StoreInv == DistinctNames(live) /\ OneRunningLoop /\ RecorderBacked /\ LiveRegistered
ApplyInv == RegisteredWanted /\ BareAbsent /\ ReplayAbsent

IInv == RequestInv /\ StoreInv /\ ApplyInv

\* The fields of a request, by its kind.
LEMMA JobFields ==
    ASSUME NEW j \in Jobs \cup {NoJob}
    PROVE  /\ j.op \in {"create", "update"} => j.name \in Names /\ j.cfg \in Cfgs
           /\ j.op = "import" => j.names \in SUBSET Names /\ j.cfg \in Cfgs
           /\ j.op \in {"create", "update", "delete", "import", "none"}
BY DEF Jobs, NoJob

\* The rows Reload reads are typed and their names distinct.
LEMMA ActiveTargetsFacts ==
    ASSUME NEW tb, Good(tb)
    PROVE  /\ DOMAIN ActiveTargets(tb) \subseteq Id
           /\ \A i \in DOMAIN ActiveTargets(tb) : ActiveTargets(tb)[i] \in Target
           /\ DistinctNames(ActiveTargets(tb))
<1>1. \A i \in DOMAIN tb : tb[i] \in Row /\ i \in Id
  BY DEF Good, Id
<1>2. \A i \in DOMAIN ActiveTargets(tb) :
         i \in DOMAIN tb /\ ActiveTargets(tb)[i] = [name |-> tb[i].name, cfg |-> tb[i].cfg]
  BY DEF ActiveTargets
<1>3. \A i \in DOMAIN ActiveTargets(tb) : ActiveTargets(tb)[i] \in Target
  BY <1>1, <1>2 DEF Row, Target
<1>4. DistinctNames(ActiveTargets(tb))
  BY <1>2 DEF DistinctNames, Good, UniqueIn
<1> QED
  BY <1>1, <1>2, <1>3, <1>4

\* A goroutine holds r.mu exactly while it applies.
LEMMA HolderApplies ==
    ASSUME TypeOK, NEW p \in Procs
    PROVE  /\ p # NoProc
           /\ pc[p] = "apply" <=> lock = p
BY RunnerAssumption DEF TypeOK, NoProc

\* Launch starts one loop, in a free slot, for a target that had none.
LEMMA LaunchKeeps ==
    ASSUME TypeOK, OneRunningLoop, FreeSlots # {},
           NEW i \in Id, i \notin DOMAIN live, NEW t \in Target, Launch(i, t)
    PROVE  /\ DOMAIN live' = DOMAIN live \cup {i}
           /\ live'[i].name = t.name /\ live'[i].cfg = t.cfg
           /\ \A j \in DOMAIN live : live'[j] = live[j]
           /\ \A j \in DOMAIN live' : live'[j] \in [name : Names, cfg : Cfgs \cup {NoCfg}, loop : Slots]
           /\ loops' \in [Slots -> Loop \cup {NoLoop}]
           /\ OneRunningLoop'
<1> DEFINE k == CHOOSE s \in FreeSlots : TRUE
           l == [id |-> i, name |-> t.name, stop |-> FALSE, pc |-> "probe"]
           e == [name |-> t.name, cfg |-> t.cfg, loop |-> k]
<1>1. k \in Slots /\ loops[k] = NoLoop
  BY DEF FreeSlots
<1>2. live' = [j \in DOMAIN live \cup {i} |-> IF j = i THEN e ELSE live[j]] /\ loops' = [loops EXCEPT ![k] = l]
  BY DEF Launch
<1>3. l \in Loop /\ l # NoLoop /\ ~l.stop /\ l.id = i /\ l.name = t.name
  BY DEF Target, Loop, NoLoop, Id
<1>4. e \in [name : Names, cfg : Cfgs \cup {NoCfg}, loop : Slots]
      /\ e.name = t.name /\ e.cfg = t.cfg /\ e.loop = k
  BY <1>1 DEF Target
<1> HIDE DEF k, l, e
<1>5. /\ DOMAIN live' = DOMAIN live \cup {i}
      /\ live'[i] = e
      /\ \A j \in DOMAIN live : live'[j] = live[j]
  BY <1>2, i \notin DOMAIN live
<1>6. /\ loops' \in [Slots -> Loop \cup {NoLoop}]
      /\ loops'[k] = l /\ \A s \in Slots \ {k} : loops'[s] = loops[s]
  BY <1>1, <1>2, <1>3 DEF TypeOK
<1>7. \A j \in DOMAIN live : live[j].loop # k /\ live[j].loop \in Slots
  BY <1>1 DEF OneRunningLoop, TypeOK
<1>8. OneRunningLoop'
  <2>1. ASSUME NEW j \in DOMAIN live'
        PROVE  LET m == loops'[live'[j].loop]
               IN  m # NoLoop /\ ~m.stop /\ m.id = j /\ m.name = live'[j].name
    <3>1. CASE j = i
      BY <1>3, <1>4, <1>5, <1>6, <3>1
    <3>2. CASE j # i
      BY <1>5, <1>6, <1>7, <2>1, <3>2 DEF OneRunningLoop
    <3> QED
      BY <3>1, <3>2
  <2>2. ASSUME NEW s \in Slots, loops'[s] # NoLoop, ~loops'[s].stop
        PROVE  loops'[s].id \in DOMAIN live' /\ live'[loops'[s].id].loop = s
    <3>1. CASE s = k
      BY <1>3, <1>4, <1>5, <1>6, <3>1
    <3>2. CASE s # k
      BY <1>5, <1>6, <2>2, <3>2 DEF OneRunningLoop
    <3> QED
      BY <3>1, <3>2
  <2> QED
    BY <2>1, <2>2 DEF OneRunningLoop
<1>9. \A j \in DOMAIN live' : live'[j] \in [name : Names, cfg : Cfgs \cup {NoCfg}, loop : Slots]
  BY <1>4, <1>5 DEF TypeOK
<1> QED
  BY <1>4, <1>5, <1>6, <1>8, <1>9

\* Whatever a goroutine outside apply does to its own request and rows leaves
\* the mutex holder's business alone.
LEMMA OthersKeepApplyInv ==
    ASSUME IInv, NEW p \in Procs, pc[p] # "apply",
           UNCHANGED << live, ids, bare, replay, lock >>,
           \A q \in Procs \ {p} : want'[q] = want[q]
    PROVE  ApplyInv'
<1>1. lock # NoProc => lock \in Procs \ {p} /\ want'[lock] = want[lock]
  BY HolderApplies DEF IInv, RequestInv, TypeOK
<1>2. RegisteredWanted'
  BY <1>1 DEF IInv, ApplyInv, RegisteredWanted
<1>3. BareAbsent' /\ ReplayAbsent'
  BY <1>1 DEF IInv, ApplyInv, BareAbsent, ReplayAbsent, Absent, Stale
<1> QED
  BY <1>2, <1>3 DEF ApplyInv

\* Every step changes the table by one statement or not at all.
LEMMA TableStep ==
    ASSUME IInv, [Next]_vars
    PROVE  table' = table \/ Grows(table, table')
<1>1. Good(table)
  BY DEF IInv, RequestInv, TypeOK, Good
<1>2. ASSUME NEW p \in Handlers, Commit(p)
      PROVE  table' = table \/ Grows(table, table')
  <2>0. p \in Procs /\ job[p] \in Jobs \cup {NoJob}
    BY DEF Procs, IInv, RequestInv, TypeOK
  <2>1. CASE CreateTarget(p)
    <3>1. table' = table \/ table' = Upsert(table, job[p].name, job[p].cfg)
      BY <2>1 DEF CreateTarget, Refused, Committed
    <3> QED
      BY <1>1, <2>0, <2>1, <3>1, JobFields, UpsertGrows DEF CreateTarget
  <2>2. CASE UpdateTarget(p)
    <3>1. \/ table' = table
          \/ /\ table' = Update(table, job[p].id, job[p].name, job[p].cfg)
             /\ Updatable(table, job[p].id, job[p].name)
      BY <2>2 DEF UpdateTarget, Refused, Committed
    <3> QED
      BY <1>1, <2>0, <2>2, <3>1, JobFields, UpdateGrows DEF UpdateTarget
  <2>3. CASE DeactivateTarget(p)
    <3>1. \/ table' = table
          \/ table' = Deactivate(table, job[p].id) /\ table[job[p].id].active
      BY <2>3 DEF DeactivateTarget, Refused, Committed
    <3>2. job[p].id \in DOMAIN table
      BY <2>0, <2>3 DEF DeactivateTarget, IInv, RequestInv, JobsInPlace
    <3> QED
      BY <1>1, <3>1, <3>2, DeactivateGrows
  <2>4. CASE ImportTargets(p)
    <3>1. \/ table' = table
          \/ \E order \in Orders(FreshNames(table, job[p].names)) :
                table' = Imported(table, job[p].names, job[p].cfg, order)
      BY <2>4 DEF ImportTargets, Refused, Committed
    <3>2. job[p].names \in SUBSET Names /\ job[p].cfg \in Cfgs
      BY <2>0, <2>4, JobFields DEF ImportTargets
    <3> QED
      BY <1>1, <3>1, <3>2, ImportedGrows, RunnerAssumption
  <2>5. CASE Refused(p)
    BY <2>5 DEF Refused
  <2> QED
    BY <1>2, <2>1, <2>2, <2>3, <2>4, <2>5 DEF Commit
<1>3. ASSUME NEW p \in Procs, InsertBare(p)
      PROVE  table' = table \/ Grows(table, table')
  <2>1. want[p][bare].name \in Names
    <3>1. bare # 0 /\ p = lock
      BY <1>3, HolderApplies DEF InsertBare, IInv, RequestInv
    <3>2. bare \in DOMAIN want[p]
      BY <3>1 DEF IInv, ApplyInv, BareAbsent, Absent
    <3> QED
      BY <3>2 DEF IInv, RequestInv, TypeOK, Target
  <2>2. \/ table' = table
        \/ ~Known(table, want[p][bare].name) /\ table' = BareRow(table, want[p][bare].name)
    BY <1>3 DEF InsertBare
  <2> QED
    BY <1>1, <2>1, <2>2, BareRowGrows
<1>4. ASSUME Seed
      PROVE  table' = table \/ Grows(table, table')
  <2>1. table' = table \/ \E c \in Cfgs : table' = Upsert(table, Demo, c)
    BY <1>4 DEF Seed
  <2> QED
    BY <1>1, <2>1, UpsertGrows, RunnerAssumption
<1>5. \/ table' = table
      \/ \E p \in Handlers : Commit(p)
      \/ \E p \in Procs : InsertBare(p)
      \/ Seed
  BY DEF Next, vars, filed, Receive, Handle, Targets, Plan, SelectId, Reload, ReadActive, ReadFails,
         Acquire, StopOne, StartOne, Replay, Release, Round, Tick, Exit, Crash
<1> QED
  BY <1>2, <1>3, <1>4, <1>5

\* What growth of the table means for the requests in flight.
LEMMA GrowthFacts ==
    ASSUME IInv, [Next]_vars
    PROVE  /\ table' \in Seq(Row) /\ UniqueIn(table')
           /\ \A i \in DOMAIN table : i \in DOMAIN table'
<1>1. table \in Seq(Row) /\ UniqueIn(table)
  BY DEF IInv, RequestInv, TypeOK
<1>2. CASE table' = table
  BY <1>1, <1>2
<1>3. CASE Grows(table, table')
  <2>1. /\ Len(table) \in Nat /\ DOMAIN table = 1 .. Len(table)
        /\ Len(table') \in Nat /\ DOMAIN table' = 1 .. Len(table')
        /\ Len(table) =< Len(table')
    BY <1>1, <1>3 DEF Grows
  <2> QED
    BY <1>3, <2>1 DEF Grows
<1> QED
  BY <1>2, <1>3, TableStep

Outside == {"idle", "seed", "targets", "plan", "commit", "select", "read", "lock"}

\* A step of a goroutine that is not applying: it moves on with another request
\* or other rows, and touches neither the store, nor the loops, nor the mutex.
MovesOnly(p) ==
    /\ pc[p] # "apply"
    /\ \E l \in Outside, j \in Jobs \cup {NoJob} :
          /\ pc' = [pc EXCEPT ![p] = l] /\ job' = [job EXCEPT ![p] = j]
          /\ l = "plan" => j.op = "import"
          /\ j.op = "delete" => j.id \in DOMAIN table
    /\ \/ want' = want
       \/ \E w : /\ want' = [want EXCEPT ![p] = w]
                 /\ DOMAIN w \subseteq Id /\ \A i \in DOMAIN w : w[i] \in Target
                 /\ DistinctNames(w)
    /\ UNCHANGED << hist, live, store, loops, lock, bare, replay >>
    /\ up' \in BOOLEAN /\ asked' \in Nat /\ crashes' \in Nat

LEMMA MoveKeepsIInv ==
    ASSUME IInv, [Next]_vars, NEW p \in Procs, MovesOnly(p)
    PROVE  IInv'
<1> USE DEF MovesOnly
<1>1. PICK l \in Outside, j \in Jobs \cup {NoJob} :
          /\ pc' = [pc EXCEPT ![p] = l] /\ job' = [job EXCEPT ![p] = j]
          /\ l = "plan" => j.op = "import"
          /\ j.op = "delete" => j.id \in DOMAIN table
  OBVIOUS
<1>2. /\ DOMAIN want' = Procs
      /\ \A q \in Procs \ {p} : want'[q] = want[q]
      /\ \A q \in Procs : /\ DOMAIN want'[q] \subseteq Id
                          /\ \A i \in DOMAIN want'[q] : want'[q][i] \in Target
                          /\ DistinctNames(want'[q])
  <2>1. /\ DOMAIN want = Procs
        /\ \A q \in Procs : /\ DOMAIN want[q] \subseteq Id
                            /\ \A i \in DOMAIN want[q] : want[q][i] \in Target
                            /\ DistinctNames(want[q])
    BY DEF IInv, RequestInv, TypeOK, WantDistinct
  <2>2. CASE want' = want
    BY <2>1, <2>2
  <2>3. CASE want' # want
    <3>1. PICK w : /\ want' = [want EXCEPT ![p] = w]
                   /\ DOMAIN w \subseteq Id /\ \A i \in DOMAIN w : w[i] \in Target
                   /\ DistinctNames(w)
      BY <2>3
    <3>2. DOMAIN want' = Procs /\ want'[p] = w /\ \A q \in Procs \ {p} : want'[q] = want[q]
      BY <2>1, <3>1
    <3> QED
      BY <2>1, <3>1, <3>2
  <2> QED
    BY <2>2, <2>3
<1>3. /\ pc' \in [Procs -> Outside \cup {"apply"}]
      /\ \A q \in Procs : pc'[q] = "apply" <=> lock' = q
      /\ job' \in [Procs -> Jobs \cup {NoJob}]
  BY <1>1 DEF IInv, RequestInv, TypeOK, Outside
<1>4. TypeOK'
  BY <1>2, <1>3, GrowthFacts DEF IInv, RequestInv, TypeOK, store, Outside
<1>5. JobsInPlace'
  <2>1. ASSUME NEW q \in Procs
        PROVE  /\ pc'[q] = "plan" => job'[q].op = "import"
               /\ job'[q].op = "delete" => job'[q].id \in DOMAIN table'
    <3>1. CASE q = p
      BY <1>1, <3>1, GrowthFacts DEF IInv, RequestInv, TypeOK
    <3>2. CASE q # p
      BY <1>1, <3>2, GrowthFacts DEF IInv, RequestInv, TypeOK, JobsInPlace
    <3> QED
      BY <3>1, <3>2
  <2> QED
    BY <2>1 DEF JobsInPlace
<1>6. WantDistinct'
  BY <1>2 DEF WantDistinct
<1>7. RequestInv'
  BY <1>4, <1>5, <1>6, GrowthFacts DEF RequestInv
<1>8. StoreInv'
  BY DEF IInv, StoreInv, OneRunningLoop, RecorderBacked, LiveRegistered, DistinctNames, store
<1>9. ApplyInv'
  BY <1>2, OthersKeepApplyInv DEF store
<1> QED
  BY <1>7, <1>8, <1>9 DEF IInv

\* A reply ends the request.
LEMMA ReplyMoves ==
    ASSUME IInv, NEW p \in Procs, pc[p] # "apply", Reply(p),
           UNCHANGED << hist, live, store, loops, lock, bare, replay >>,
           up' \in BOOLEAN, asked' \in Nat, crashes' \in Nat
    PROVE  MovesOnly(p)
<1>1. DOMAIN Nothing = {} /\ DistinctNames(Nothing)
  BY DEF Nothing, DistinctNames
<1>2. NoJob.op = "none"
  BY DEF NoJob
<1> QED
  BY <1>1, <1>2 DEF MovesOnly, Outside, Reply, Goto

\* A step that leaves the request and the rows as they are only moves on.
LEMMA GotoMoves ==
    ASSUME IInv, NEW p \in Procs, pc[p] # "apply", NEW l \in Outside \ {"plan"}, Goto(p, l),
           UNCHANGED << job, want, hist, live, store, loops, lock, bare, replay >>,
           up' \in BOOLEAN, asked' \in Nat, crashes' \in Nat
    PROVE  MovesOnly(p)
<1>1. job' = [job EXCEPT ![p] = job[p]] /\ job[p] \in Jobs \cup {NoJob}
  BY DEF IInv, RequestInv, TypeOK
<1>2. job[p].op = "delete" => job[p].id \in DOMAIN table
  BY DEF IInv, RequestInv, JobsInPlace
<1> QED
  BY <1>1, <1>2 DEF MovesOnly, Goto

\* What every handler step may rely on.
LEMMA HandlerFacts ==
    ASSUME IInv, NEW p \in Handlers
    PROVE  /\ p \in Procs /\ job[p] \in Jobs \cup {NoJob} /\ pc[p] \in Outside \cup {"apply"}
           /\ up \in BOOLEAN /\ asked \in Nat /\ crashes \in Nat
           /\ job[p].op = "delete" => job[p].id \in DOMAIN table
           /\ pc[p] = "plan" => job[p].op = "import"
BY DEF Procs, Outside, IInv, RequestInv, TypeOK, JobsInPlace

LEMMA ReceiveMoves ==
    ASSUME IInv, NEW p \in Handlers, Receive(p)
    PROVE  MovesOnly(p)
<1>1. PICK j \in Jobs :
         /\ j.op \in {"update", "delete"} => j.id \in DOMAIN table
         /\ job' = [job EXCEPT ![p] = j]
         /\ Goto(p, CASE j.op = "import" -> "plan"
                      [] j.op = "delete" -> "targets"
                      [] OTHER -> "commit")
  BY DEF Receive
<1>2. PICK l \in Outside : Goto(p, l) /\ (l = "plan" => j.op = "import")
  <2>1. CASE j.op = "import"
    BY <1>1, <2>1 DEF Outside
  <2>2. CASE j.op = "delete"
    BY <1>1, <2>2 DEF Outside
  <2>3. CASE j.op \notin {"import", "delete"}
    BY <1>1, <2>3 DEF Outside
  <2> QED
    BY <2>1, <2>2, <2>3
<1>3. /\ pc[p] # "apply" /\ pc' = [pc EXCEPT ![p] = l] /\ want' = want
      /\ UNCHANGED << hist, live, store, loops, lock, bare, replay >>
      /\ up' \in BOOLEAN /\ asked' \in Nat /\ crashes' \in Nat
  <2>1. asked \in Nat /\ crashes \in Nat /\ up \in BOOLEAN
    BY HandlerFacts
  <2>2. /\ asked' = asked + 1 /\ crashes' = crashes /\ up' = up /\ want' = want
        /\ pc[p] = "idle"
        /\ UNCHANGED << hist, live, store, loops, lock, bare, replay >>
    BY DEF Receive, filed
  <2> QED
    BY <1>2, <2>1, <2>2 DEF Goto
<1>4. j.op = "delete" => j.id \in DOMAIN table
  BY <1>1
<1> QED
  BY <1>1, <1>2, <1>3, <1>4 DEF MovesOnly

LEMMA PlanMoves ==
    ASSUME IInv, NEW p \in Handlers, Plan(p)
    PROVE  MovesOnly(p)
<1> DEFINE batch == {n \in job[p].names : ~Taken(table, n)}
<1>1. CASE batch = {}
  <2>1. Reply(p)
    BY <1>1 DEF Plan
  <2> QED
    BY <2>1, ReplyMoves, HandlerFacts DEF Plan, filed
<1>2. CASE Reply(p)
  BY <1>2, ReplyMoves, HandlerFacts DEF Plan, filed
<1>3. CASE batch # {} /\ ~Reply(p)
  <2> DEFINE j == [job[p] EXCEPT !.names = batch]
  <2>1. job[p] \in [op : {"import"}, names : SUBSET Names, cfg : Cfgs]
    BY HandlerFacts DEF Plan, Jobs, NoJob
  <2>2. j \in Jobs /\ j.op = "import"
    BY <2>1 DEF Jobs
  <2>3. job' = [job EXCEPT ![p] = j] /\ Goto(p, "commit") /\ want' = want
    BY <1>3 DEF Plan
  <2> HIDE DEF j
  <2> QED
    BY <2>2, <2>3, HandlerFacts DEF Plan, MovesOnly, Goto, filed, Outside
<1> QED
  BY <1>1, <1>2, <1>3

LEMMA TargetsMoves ==
    ASSUME IInv, NEW p \in Handlers, Targets(p)
    PROVE  MovesOnly(p)
<1>1. /\ pc[p] # "apply" /\ Goto(p, "commit")
      /\ UNCHANGED << job, want, hist, live, store, loops, lock, bare, replay, up, asked, crashes >>
  BY DEF Targets, filed
<1> QED
  BY <1>1, GotoMoves, HandlerFacts DEF Outside

LEMMA CommitMoves ==
    ASSUME IInv, NEW p \in Handlers, Commit(p)
    PROVE  MovesOnly(p)
<1> DEFINE Moved == \/ Reply(p)
                    \/ \E l \in {"select", "read"} : Goto(p, l) /\ UNCHANGED << job, want >>
<1>1. Moved
  <2>1. CASE CreateTarget(p)
    BY <2>1 DEF CreateTarget, Refused, Committed
  <2>2. CASE UpdateTarget(p)
    BY <2>2 DEF UpdateTarget, Refused, Committed
  <2>3. CASE DeactivateTarget(p)
    BY <2>3 DEF DeactivateTarget, Refused, Committed
  <2>4. CASE ImportTargets(p)
    BY <2>4 DEF ImportTargets, Refused, Committed
  <2>5. CASE Refused(p)
    BY <2>5 DEF Refused
  <2> QED
    BY <2>1, <2>2, <2>3, <2>4, <2>5 DEF Commit
<1>2. /\ pc[p] # "apply"
      /\ UNCHANGED << hist, live, store, loops, lock, bare, replay, up, asked, crashes >>
  BY DEF Commit
<1> QED
  BY <1>1, <1>2, ReplyMoves, GotoMoves, HandlerFacts DEF Outside

LEMMA SelectIdMoves ==
    ASSUME IInv, NEW p \in Handlers, SelectId(p)
    PROVE  MovesOnly(p)
<1>1. Reply(p) \/ (Goto(p, "read") /\ UNCHANGED << job, want >>)
  BY DEF SelectId
<1>2. /\ pc[p] # "apply"
      /\ UNCHANGED << hist, live, store, loops, lock, bare, replay, up, asked, crashes >>
  BY DEF SelectId, filed
<1> QED
  BY <1>1, <1>2, ReplyMoves, GotoMoves, HandlerFacts DEF Outside

LEMMA SeedMoves ==
    ASSUME IInv, Seed
    PROVE  MovesOnly(Main)
<1>1. /\ Main \in Procs /\ pc[Main] # "apply" /\ Goto(Main, "read")
      /\ UNCHANGED << job, want, hist, live, store, loops, lock, bare, replay, up, asked, crashes >>
  BY DEF Seed, Procs
<1>2. up \in BOOLEAN /\ asked \in Nat /\ crashes \in Nat
  BY DEF IInv, RequestInv, TypeOK
<1> QED
  BY <1>1, <1>2, GotoMoves DEF Outside

LEMMA ReadActiveMoves ==
    ASSUME IInv, NEW p \in Procs, ReadActive(p)
    PROVE  MovesOnly(p)
<1>1. Good(table) /\ job \in [Procs -> Jobs \cup {NoJob}]
  BY DEF IInv, RequestInv, TypeOK, Good
<1>2. job' = [job EXCEPT ![p] = job[p]] /\ job[p] \in Jobs \cup {NoJob}
  BY <1>1 DEF ReadActive
<1>3. /\ job[p].op = "delete" => job[p].id \in DOMAIN table
      /\ up' \in BOOLEAN /\ asked' \in Nat /\ crashes' \in Nat
  BY DEF ReadActive, IInv, RequestInv, TypeOK, JobsInPlace
<1>4. want' = [want EXCEPT ![p] = ActiveTargets(table)]
  BY DEF ReadActive
<1>5. \E w : /\ want' = [want EXCEPT ![p] = w]
             /\ DOMAIN w \subseteq Id /\ \A i \in DOMAIN w : w[i] \in Target
             /\ DistinctNames(w)
  BY <1>1, <1>4, ActiveTargetsFacts
<1>6. /\ pc[p] # "apply" /\ pc' = [pc EXCEPT ![p] = "lock"]
      /\ UNCHANGED << hist, live, store, loops, lock, bare, replay >>
  BY DEF ReadActive, Goto, filed
<1> QED
  BY <1>2, <1>3, <1>5, <1>6 DEF MovesOnly, Outside

LEMMA ReadFailsMoves ==
    ASSUME IInv, NEW p \in Procs, ReadFails(p)
    PROVE  MovesOnly(p)
<1>1. up' \in BOOLEAN /\ asked' \in Nat /\ crashes' \in Nat
  BY DEF ReadFails, IInv, RequestInv, TypeOK
<1> QED
  BY <1>1, ReplyMoves DEF ReadFails, filed

-----------------------------------------------------------------------------
(***************************************************************************)
(* Inside r.mu.                                                             *)
(***************************************************************************)
\* What the goroutine that applies may rely on.
LEMMA ApplierFacts ==
    ASSUME IInv, NEW p \in Procs, pc[p] = "apply"
    PROVE  /\ p = lock /\ lock # NoProc
           /\ DistinctNames(want[p]) /\ DOMAIN want[p] \subseteq Id
           /\ \A i \in DOMAIN want[p] : want[p][i] \in Target
           /\ \A n \in Names : ids[n] # 0 => \/ \E i \in DOMAIN live : live[i].name = n
                                             \/ \E i \in DOMAIN want[p] : want[p][i].name = n
           /\ \A i \in DOMAIN live \ Stale(p) :
                 i \in DOMAIN want[p] /\ want[p][i].name = live[i].name
           /\ ids \in [Names -> Nat] /\ rings \in [Names -> SUBSET Id]
           /\ \A i \in DOMAIN live : live[i].name \in Names /\ live[i].loop \in Slots
<1>1. p = lock /\ lock # NoProc
  BY HolderApplies DEF IInv, RequestInv
<1>2. \A i \in DOMAIN live \ Stale(p) :
         i \in DOMAIN want[p] /\ want[p][i].name = live[i].name
  BY DEF Stale
<1>3. /\ DistinctNames(want[p]) /\ DOMAIN want[p] \subseteq Id
      /\ \A i \in DOMAIN want[p] : want[p][i] \in Target
      /\ ids \in [Names -> Nat] /\ rings \in [Names -> SUBSET Id]
      /\ \A i \in DOMAIN live : live[i].name \in Names /\ live[i].loop \in Slots
  BY DEF IInv, RequestInv, WantDistinct, TypeOK
<1>4. \A n \in Names : ids[n] # 0 => \/ \E i \in DOMAIN live : live[i].name = n
                                     \/ \E i \in DOMAIN want[p] : want[p][i].name = n
  BY <1>1 DEF IInv, ApplyInv, RegisteredWanted
<1> QED
  BY <1>1, <1>2, <1>3, <1>4

LEMMA AcquireKeeps ==
    ASSUME IInv, NEW p \in Procs, Acquire(p)
    PROVE  IInv'
<1>1. /\ lock = NoProc /\ lock' = p /\ pc' = [pc EXCEPT ![p] = "apply"]
      /\ UNCHANGED << table, hist, live, ids, rings, loops, bare, replay, job, want, up, asked, crashes >>
  BY DEF Acquire, Goto, filed, store
<1>2. TypeOK'
  <2>1. \A q \in Procs : pc[q] # "apply"
    BY <1>1, HolderApplies DEF IInv, RequestInv
  <2>2. \A q \in Procs : pc'[q] = "apply" <=> lock' = q
    BY <1>1, <2>1 DEF IInv, RequestInv, TypeOK
  <2>3. /\ lock' \in Procs \cup {NoProc}
        /\ pc' \in [Procs -> {"idle", "seed", "targets", "plan", "commit", "select", "read", "lock", "apply"}]
    BY <1>1 DEF IInv, RequestInv, TypeOK
  <2> QED
    BY <1>1, <2>2, <2>3 DEF IInv, RequestInv, TypeOK
<1>3. JobsInPlace'
  BY <1>1 DEF IInv, RequestInv, TypeOK, JobsInPlace
<1>4. bare = 0 /\ replay = 0
  BY <1>1 DEF IInv, ApplyInv, BareAbsent, ReplayAbsent
<1>5. ApplyInv'
  BY <1>1, <1>4 DEF IInv, ApplyInv, RegisteredWanted, BareAbsent, ReplayAbsent
<1> QED
  BY <1>1, <1>2, <1>3, <1>5
     DEF IInv, RequestInv, WantDistinct, StoreInv, OneRunningLoop, RecorderBacked, LiveRegistered

\* apply returns when nothing is stale and nothing is absent: what is wanted is live.
LEMMA ReleaseKeeps ==
    ASSUME IInv, NEW p \in Procs, Release(p)
    PROVE  IInv'
<1>1. /\ pc[p] = "apply" /\ bare = 0 /\ replay = 0 /\ Stale(p) = {} /\ Absent(p) = {}
      /\ lock' = NoProc /\ up' = (up \/ p = Main)
      /\ pc' = [pc EXCEPT ![p] = "idle"] /\ job' = [job EXCEPT ![p] = NoJob]
      /\ want' = [want EXCEPT ![p] = Nothing]
      /\ UNCHANGED << table, hist, live, ids, rings, loops, bare, replay, asked, crashes >>
  BY DEF Release, Reply, Goto, filed, store
<1>2. up' \in BOOLEAN
  <2>1. CASE up' = TRUE
    BY <2>1
  <2>2. CASE up' # TRUE
    BY <1>1, <2>2 DEF IInv, RequestInv, TypeOK
  <2> QED
    BY <2>1, <2>2
<1>3. TypeOK'
  <2>1. \A q \in Procs : pc'[q] = "apply" <=> lock' = q
    BY <1>1, HolderApplies DEF IInv, RequestInv, TypeOK
  <2>2. pc' \in [Procs -> {"idle", "seed", "targets", "plan", "commit", "select", "read", "lock", "apply"}]
    BY <1>1 DEF IInv, RequestInv, TypeOK
  <2>3. job' \in [Procs -> Jobs \cup {NoJob}] /\ DOMAIN want' = Procs
    BY <1>1 DEF IInv, RequestInv, TypeOK
  <2>4. \A q \in Procs : DOMAIN want'[q] \subseteq Id /\ \A i \in DOMAIN want'[q] : want'[q][i] \in Target
    BY <1>1 DEF IInv, RequestInv, TypeOK, Nothing
  <2> QED
    BY <1>1, <1>2, <2>1, <2>2, <2>3, <2>4 DEF IInv, RequestInv, TypeOK
<1>4. JobsInPlace'
  <2>1. NoJob.op = "none"
    BY DEF NoJob
  <2> QED
    BY <1>1, <2>1 DEF IInv, RequestInv, TypeOK, JobsInPlace
<1>5. WantDistinct'
  BY <1>1 DEF IInv, RequestInv, TypeOK, WantDistinct, DistinctNames, Nothing
<1>6. ApplyInv'
  <2>1. \A n \in Names : ids[n] # 0 => \E i \in DOMAIN live : live[i].name = n
    <3> SUFFICES ASSUME NEW n \in Names, ids[n] # 0, NEW i \in DOMAIN want[p], want[p][i].name = n
                 PROVE  \E j \in DOMAIN live : live[j].name = n
      BY <1>1, ApplierFacts
    <3>1. i \in DOMAIN live
      BY <1>1 DEF Absent
    <3> QED
      BY <1>1, <3>1, ApplierFacts
  <2> QED
    BY <1>1, <2>1 DEF ApplyInv, RegisteredWanted, BareAbsent, ReplayAbsent
<1> QED
  BY <1>1, <1>3, <1>4, <1>5, <1>6
     DEF IInv, RequestInv, StoreInv, OneRunningLoop, RecorderBacked, LiveRegistered

\* Frame: a step that touches only the runner's map, the loops, the store and the
\* filed rounds leaves the requests alone.
LEMMA RequestFrame ==
    ASSUME IInv,
           UNCHANGED << lock, pc, job, want, up, asked, crashes >>,
           table' \in Seq(Row), UniqueIn(table'), \A i \in DOMAIN table : i \in DOMAIN table',
           hist' \subseteq Id \X Id,
           DOMAIN live' \subseteq Id,
           \A i \in DOMAIN live' : live'[i] \in [name : Names, cfg : Cfgs \cup {NoCfg}, loop : Slots],
           ids' \in [Names -> Nat], rings' \in [Names -> SUBSET Id],
           loops' \in [Slots -> Loop \cup {NoLoop}], bare' \in Nat, replay' \in Nat
    PROVE  RequestInv'
<1>1. TypeOK'
  BY DEF IInv, RequestInv, TypeOK
<1> QED
  BY <1>1 DEF IInv, RequestInv, JobsInPlace, WantDistinct

\* Telling one loop to stop and forgetting its entry leaves one running loop for
\* every other entry.
LEMMA StopKeepsLoops ==
    ASSUME TypeOK, OneRunningLoop, NEW i \in DOMAIN live,
           CloseStop(live[i].loop), live' = Without(live, i)
    PROVE  /\ DOMAIN live' = DOMAIN live \ {i}
           /\ \A j \in DOMAIN live' : live'[j] = live[j]
           /\ loops' \in [Slots -> Loop \cup {NoLoop}]
           /\ OneRunningLoop'
<1> DEFINE k == live[i].loop
           l == [loops[k] EXCEPT !.stop = TRUE]
<1>1. k \in Slots /\ loops[k] # NoLoop /\ ~loops[k].stop /\ loops[k].id = i
  BY DEF TypeOK, OneRunningLoop
<1>2. loops[k] \in Loop
  BY <1>1 DEF TypeOK
<1>3. l \in Loop /\ l.stop
  BY <1>2 DEF Loop
<1>4. /\ loops' \in [Slots -> Loop \cup {NoLoop}]
      /\ loops'[k] = l /\ \A s \in Slots \ {k} : loops'[s] = loops[s]
  <2>1. loops' = [loops EXCEPT ![k] = l]
    BY DEF CloseStop
  <2> HIDE DEF l, k
  <2> QED
    BY <2>1, <1>1, <1>3 DEF TypeOK
<1>5. DOMAIN live' = DOMAIN live \ {i} /\ \A j \in DOMAIN live' : live'[j] = live[j]
  BY DEF Without, Restrict
<1> HIDE DEF l
<1>6. OneRunningLoop'
  <2>1. ASSUME NEW j \in DOMAIN live'
        PROVE  LET m == loops'[live'[j].loop]
               IN  m # NoLoop /\ ~m.stop /\ m.id = j /\ m.name = live'[j].name
    <3>1. live[j].loop \in Slots \ {k}
      BY <1>1, <1>5, <2>1 DEF OneRunningLoop, TypeOK
    <3> QED
      BY <1>4, <1>5, <2>1, <3>1 DEF OneRunningLoop
  <2>2. ASSUME NEW s \in Slots, loops'[s] # NoLoop, ~loops'[s].stop
        PROVE  loops'[s].id \in DOMAIN live' /\ live'[loops'[s].id].loop = s
    <3>1. s # k
      BY <1>3, <1>4, <2>2
    <3> QED
      BY <1>1, <1>4, <1>5, <2>2, <3>1 DEF OneRunningLoop
  <2> QED
    BY <2>1, <2>2 DEF OneRunningLoop
<1> QED
  BY <1>4, <1>5, <1>6

\* First loop of apply: whatever order the map is visited in, no other live name
\* loses its registration and no registration is left behind.
LEMMA StopOneKeeps ==
    ASSUME IInv, NEW p \in Procs, StopOne(p)
    PROVE  IInv'
<1>1. /\ pc[p] = "apply" /\ bare = 0 /\ replay = 0
      /\ UNCHANGED << table, hist, lock, bare, replay, pc, job, want, up, asked, crashes >>
  BY DEF StopOne, filed
<1>2. PICK i \in Stale(p) :
         /\ CloseStop(live[i].loop)
         /\ live' = Without(live, i)
         /\ IF i \notin DOMAIN want[p] THEN RemoveTarget(live[i].name)
            ELSE IF want[p][i].name # live[i].name THEN RenameTarget(live[i].name, want[p][i].name)
            ELSE UNCHANGED store
  BY DEF StopOne
<1> DEFINE old == live[i].name
<1>3. i \in DOMAIN live /\ old \in Names /\ ids[old] # 0
  BY <1>1, ApplierFacts DEF Stale, IInv, StoreInv, LiveRegistered
<1>4. /\ DOMAIN live' = DOMAIN live \ {i}
      /\ \A j \in DOMAIN live' : live'[j] = live[j]
      /\ loops' \in [Slots -> Loop \cup {NoLoop}]
      /\ OneRunningLoop'
  BY <1>2, <1>3, StopKeepsLoops DEF IInv, RequestInv, StoreInv
<1>5. \A j \in DOMAIN live' : live[j].name # old /\ live[j].name \in Names /\ ids[live[j].name] # 0
  BY <1>1, <1>3, <1>4, ApplierFacts DEF IInv, StoreInv, DistinctNames, LiveRegistered
<1>6. /\ ids' \in [Names -> Nat] /\ rings' \in [Names -> SUBSET Id]
      /\ RecorderBacked'
      /\ \A n \in Names \ {old} : ids[n] # 0 => ids'[n] # 0
      /\ \A n \in Names : ids'[n] # 0 =>
            \/ n # old /\ ids[n] # 0
            \/ i \in DOMAIN want[p] /\ want[p][i].name = n
  <2>0. ids \in [Names -> Nat] /\ rings \in [Names -> SUBSET Id] /\ RecorderBacked
    BY <1>1, ApplierFacts DEF IInv, StoreInv
  <2>1. CASE i \notin DOMAIN want[p]
    <3>1. ids' = [ids EXCEPT ![old] = 0] /\ rings' = [rings EXCEPT ![old] = {}]
      BY <1>2, <2>1 DEF RemoveTarget
    <3> QED
      BY <1>1, <1>3, <2>0, <3>1 DEF RecorderBacked
  <2>2. CASE i \in DOMAIN want[p] /\ want[p][i].name # old
    <3> DEFINE new == want[p][i].name
    <3>1. new \in Names
      BY <1>1, <2>2, ApplierFacts DEF Target
    <3>2. /\ ids' = [ids EXCEPT ![new] = ids[old], ![old] = 0]
          /\ rings' = [rings EXCEPT ![new] = rings[old], ![old] = {}]
      BY <1>2, <1>3, <2>2 DEF RenameTarget
    <3>3. /\ ids' \in [Names -> Nat] /\ rings' \in [Names -> SUBSET Id]
          /\ ids'[new] = ids[old] /\ ids'[old] = 0
          /\ rings'[new] = rings[old] /\ rings'[old] = {}
          /\ \A n \in Names \ {old, new} : ids'[n] = ids[n] /\ rings'[n] = rings[n]
      BY <1>3, <2>0, <2>2, <3>1, <3>2
    <3> HIDE DEF new, old
    <3>4. RecorderBacked'
      BY <1>1, <1>3, <2>0, <3>1, <3>3 DEF RecorderBacked
    <3>5. \A n \in Names : ids'[n] # 0 => n = new \/ (n # old /\ ids[n] # 0)
      BY <3>3
    <3> QED
      BY <1>3, <2>2, <3>3, <3>4, <3>5 DEF new
  <2>3. CASE i \in DOMAIN want[p] /\ want[p][i].name = old
    <3>1. ids' = ids /\ rings' = rings
      BY <1>2, <2>3 DEF store
    <3> QED
      BY <1>1, <2>0, <2>3, <3>1 DEF RecorderBacked
  <2> QED
    BY <2>1, <2>2, <2>3
<1> HIDE DEF old
<1>7. RequestInv'
  <2>1. /\ hist' \subseteq Id \X Id /\ DOMAIN live' \subseteq Id /\ bare' \in Nat /\ replay' \in Nat
        /\ \A j \in DOMAIN live' : live'[j] \in [name : Names, cfg : Cfgs \cup {NoCfg}, loop : Slots]
    BY <1>1, <1>4 DEF IInv, RequestInv, TypeOK
  <2>2. table' \in Seq(Row) /\ UniqueIn(table') /\ \A j \in DOMAIN table : j \in DOMAIN table'
    BY <1>1 DEF IInv, RequestInv, TypeOK
  <2> QED
    BY <1>1, <1>4, <1>6, <2>1, <2>2, RequestFrame
<1>8. StoreInv'
  <2>1. DistinctNames(live)'
    BY <1>4 DEF IInv, StoreInv, DistinctNames
  <2>2. LiveRegistered'
    BY <1>4, <1>5, <1>6 DEF LiveRegistered
  <2> QED
    BY <1>4, <1>6, <2>1, <2>2 DEF StoreInv
<1>9. ApplyInv'
  <2>1. RegisteredWanted'
    <3> SUFFICES ASSUME NEW n \in Names, ids'[n] # 0
                 PROVE  \/ \E j \in DOMAIN live' : live'[j].name = n
                        \/ \E j \in DOMAIN want[p] : want[p][j].name = n
      BY <1>1, ApplierFacts DEF RegisteredWanted
    <3>1. CASE n # old /\ ids[n] # 0
      <4>1. CASE \E j \in DOMAIN live : live[j].name = n
        BY <1>4, <3>1, <4>1 DEF old
      <4>2. CASE \E j \in DOMAIN want[p] : want[p][j].name = n
        BY <4>2
      <4> QED
        BY <1>1, <3>1, <4>1, <4>2, ApplierFacts
    <3> QED
      BY <1>6, <3>1
  <2> QED
    BY <1>1, <2>1 DEF ApplyInv, BareAbsent, ReplayAbsent
<1> QED
  BY <1>7, <1>8, <1>9 DEF IInv

\* Second loop of apply: a target that was absent, its name registered, is launched,
\* with its recorder as it was or replayed from its row.
LEMMA StartKeeps ==
    ASSUME IInv, NEW p \in Procs, pc[p] = "apply", Stale(p) = {}, FreeSlots # {},
           NEW i \in Absent(p), Launch(i, want[p][i]),
           ids[want[p][i].name] # 0,
           \/ rings' = rings
           \/ \E found \in SUBSET {h[2] : h \in {x \in hist : x[1] = ids[want[p][i].name]}} :
                 rings' = [rings EXCEPT ![want[p][i].name] = found],
           bare' = 0, replay' = 0,
           UNCHANGED << table, hist, ids, lock, pc, job, want, up, asked, crashes >>
    PROVE  IInv'
<1> DEFINE t == want[p][i]
<1>1. /\ i \in DOMAIN want[p] /\ i \notin DOMAIN live /\ i \in Id
      /\ t \in Target /\ t.name \in Names
  BY ApplierFacts DEF Absent, Target
<1>2. /\ DOMAIN live' = DOMAIN live \cup {i}
      /\ live'[i].name = t.name
      /\ \A j \in DOMAIN live : live'[j] = live[j]
      /\ \A j \in DOMAIN live' : live'[j] \in [name : Names, cfg : Cfgs \cup {NoCfg}, loop : Slots]
      /\ loops' \in [Slots -> Loop \cup {NoLoop}]
      /\ OneRunningLoop'
  BY <1>1, LaunchKeeps DEF IInv, RequestInv, StoreInv
<1>3. \A j \in DOMAIN live : live[j].name # t.name /\ live[j].name \in Names
  BY <1>1, ApplierFacts DEF DistinctNames
<1> HIDE DEF t
<1>4. rings' \in [Names -> SUBSET Id] /\ RecorderBacked'
  <2>0. /\ ids \in [Names -> Nat] /\ rings \in [Names -> SUBSET Id] /\ RecorderBacked
        /\ hist \subseteq Id \X Id /\ ids[t.name] # 0
    BY ApplierFacts DEF IInv, RequestInv, StoreInv, TypeOK, t
  <2>1. CASE rings' = rings
    BY <2>0, <2>1 DEF RecorderBacked
  <2>2. CASE rings' # rings
    <3>1. PICK found \in SUBSET {h[2] : h \in {x \in hist : x[1] = ids[t.name]}} :
             rings' = [rings EXCEPT ![t.name] = found]
      BY <2>2 DEF t
    <3>2. \A s \in found : s \in Id /\ << ids[t.name], s >> \in hist
      <4> SUFFICES ASSUME NEW s \in found PROVE s \in Id /\ << ids[t.name], s >> \in hist
        OBVIOUS
      <4>1. PICK h \in hist : h[1] = ids[t.name] /\ s = h[2]
        BY <3>1
      <4>2. h = << h[1], h[2] >> /\ h[2] \in Id
        BY <2>0
      <4> QED
        BY <4>1, <4>2
    <3>3. /\ rings' \in [Names -> SUBSET Id] /\ rings'[t.name] = found
          /\ \A n \in Names \ {t.name} : rings'[n] = rings[n]
      BY <1>1, <2>0, <3>1, <3>2
    <3> QED
      BY <2>0, <3>2, <3>3 DEF RecorderBacked
  <2> QED
    BY <2>1, <2>2
<1>5. RequestInv'
  <2>1. /\ hist' \subseteq Id \X Id /\ DOMAIN live' \subseteq Id
        /\ ids' \in [Names -> Nat] /\ bare' \in Nat /\ replay' \in Nat
        /\ table' \in Seq(Row) /\ UniqueIn(table') /\ \A j \in DOMAIN table : j \in DOMAIN table'
    BY <1>1, <1>2 DEF IInv, RequestInv, TypeOK
  <2> QED
    BY <1>2, <1>4, <2>1, RequestFrame
<1>6. StoreInv'
  <2>1. DistinctNames(live)'
    BY <1>1, <1>2, <1>3 DEF IInv, StoreInv, DistinctNames
  <2>2. LiveRegistered'
    <3>1. ids[t.name] # 0
      BY DEF t
    <3> QED
      BY <3>1, <1>1, <1>2, <1>3 DEF IInv, StoreInv, LiveRegistered
  <2> QED
    BY <1>2, <1>4, <2>1, <2>2 DEF StoreInv
<1>7. RegisteredWanted'
  BY <1>2 DEF IInv, ApplyInv, RegisteredWanted
<1> QED
  BY <1>5, <1>6, <1>7 DEF IInv, ApplyInv, BareAbsent, ReplayAbsent

\* Before that, a name that was not registered is, with an empty recorder.
LEMMA RegisterKeeps ==
    ASSUME IInv, [Next]_vars, NEW p \in Procs, pc[p] = "apply", Stale(p) = {},
           NEW i \in Absent(p), NEW id \in Id, Register(want[p][i].name, id),
           bare' = 0, replay' = i,
           UNCHANGED << hist, live, loops, lock, pc, job, want, up, asked, crashes >>
    PROVE  IInv'
<1> DEFINE t == want[p][i]
<1>1. /\ i \in DOMAIN want[p] /\ i \in Id /\ t.name \in Names
      /\ ids \in [Names -> Nat] /\ rings \in [Names -> SUBSET Id]
      /\ p = lock /\ lock # NoProc
  BY ApplierFacts DEF Absent, Target
<1>2. ids' = [ids EXCEPT ![t.name] = id] /\ rings' = [rings EXCEPT ![t.name] = {}]
  BY DEF Register
<1> HIDE DEF t
<1>3. /\ ids' \in [Names -> Nat] /\ rings' \in [Names -> SUBSET Id]
      /\ ids'[t.name] = id /\ id # 0 /\ rings'[t.name] = {}
      /\ \A n \in Names \ {t.name} : ids'[n] = ids[n] /\ rings'[n] = rings[n]
  BY <1>1, <1>2 DEF Id
<1>4. RequestInv'
  <2>1. /\ hist' \subseteq Id \X Id /\ DOMAIN live' \subseteq Id
        /\ bare' \in Nat /\ replay' \in Nat
        /\ \A j \in DOMAIN live' : live'[j] \in [name : Names, cfg : Cfgs \cup {NoCfg}, loop : Slots]
        /\ loops' \in [Slots -> Loop \cup {NoLoop}]
    BY <1>1 DEF IInv, RequestInv, TypeOK, Id
  <2> QED
    BY <1>3, <2>1, GrowthFacts, RequestFrame
<1>5. StoreInv'
  <2>1. \A n \in Names : ids[n] # 0 => ids'[n] # 0
    BY <1>3
  <2>2. LiveRegistered'
    BY <2>1 DEF IInv, RequestInv, TypeOK, StoreInv, LiveRegistered
  <2>3. RecorderBacked'
    BY <1>3 DEF IInv, StoreInv, RecorderBacked
  <2> QED
    BY <2>2, <2>3 DEF IInv, StoreInv, OneRunningLoop, DistinctNames
<1>6. RegisteredWanted'
  <2> SUFFICES ASSUME NEW n \in Names, ids'[n] # 0
               PROVE  \/ \E j \in DOMAIN live : live[j].name = n
                      \/ \E j \in DOMAIN want[p] : want[p][j].name = n
    BY <1>1 DEF RegisteredWanted
  <2>1. CASE n = t.name
    BY <1>1, <2>1 DEF t
  <2>2. CASE n # t.name
    <3>1. ids[n] # 0
      BY <1>3, <2>2
    <3> QED
      BY <3>1, ApplierFacts
  <2> QED
    BY <2>1, <2>2
<1>7. ReplayAbsent'
  <2>1. ids'[want[p][i].name] # 0
    BY <1>3 DEF t
  <2> QED
    BY <1>1, <2>1 DEF ReplayAbsent, Absent, Stale
<1> QED
  BY <1>4, <1>5, <1>6, <1>7 DEF IInv, ApplyInv, BareAbsent

\* A target whose registration failed is left out: it had none to lose.
LEMMA GiveUpKeeps ==
    ASSUME IInv, NEW p \in Procs, pc[p] = "apply",
           NEW i \in DOMAIN want[p], ids[want[p][i].name] = 0, GiveUp(p, i),
           bare' = 0, replay' = 0,
           UNCHANGED << table, hist, live, store, loops, lock, pc, job, up, asked, crashes >>
    PROVE  IInv'
<1> DEFINE w == Without(want[p], i)
<1>1. DOMAIN w = DOMAIN want[p] \ {i} /\ \A j \in DOMAIN w : w[j] = want[p][j]
  BY DEF Without, Restrict
<1>2. want' = [want EXCEPT ![p] = w] /\ DOMAIN want = Procs
  BY DEF GiveUp, IInv, RequestInv, TypeOK
<1> HIDE DEF w
<1>3. /\ DOMAIN want' = Procs /\ want'[p] = w
      /\ \A q \in Procs \ {p} : want'[q] = want[q]
  BY <1>2
<1>4. /\ DOMAIN w \subseteq Id /\ \A j \in DOMAIN w : w[j] \in Target
      /\ DistinctNames(w)
  BY <1>1, ApplierFacts DEF DistinctNames
<1>5. TypeOK'
  <2>1. \A q \in Procs : DOMAIN want'[q] \subseteq Id /\ \A j \in DOMAIN want'[q] : want'[q][j] \in Target
    BY <1>3, <1>4 DEF IInv, RequestInv, TypeOK
  <2> QED
    BY <1>3, <2>1 DEF IInv, RequestInv, TypeOK, store
<1>6. RequestInv'
  BY <1>3, <1>4, <1>5 DEF IInv, RequestInv, JobsInPlace, WantDistinct
<1>7. StoreInv'
  BY DEF IInv, StoreInv, OneRunningLoop, RecorderBacked, LiveRegistered, DistinctNames, store
<1>8. RegisteredWanted'
  <2> SUFFICES ASSUME NEW n \in Names, ids[n] # 0
               PROVE  \/ \E j \in DOMAIN live : live[j].name = n
                      \/ \E j \in DOMAIN w : w[j].name = n
    BY <1>3, ApplierFacts DEF RegisteredWanted, store
  <2> QED
    BY <1>1, ApplierFacts
<1> QED
  BY <1>6, <1>7, <1>8 DEF IInv, ApplyInv, BareAbsent, ReplayAbsent

LEMMA StartOneKeeps ==
    ASSUME IInv, [Next]_vars, NEW p \in Procs, StartOne(p)
    PROVE  IInv'
<1>1. /\ pc[p] = "apply" /\ bare = 0 /\ replay = 0 /\ Stale(p) = {}
      /\ UNCHANGED << table, hist, lock, pc, job, up, asked, crashes >>
  BY DEF StartOne, filed
<1>2. PICK i \in Absent(p) :
         \/ /\ ids[want[p][i].name] # 0
            /\ FreeSlots # {} /\ Launch(i, want[p][i])
            /\ UNCHANGED << store, bare, replay, want >>
         \/ /\ Known(table, want[p][i].name)
            /\ Register(want[p][i].name, IdOf(table, want[p][i].name))
            /\ replay' = i
            /\ UNCHANGED << live, loops, bare, want >>
         \/ /\ ids[want[p][i].name] = 0
            /\ bare' = i
            /\ UNCHANGED << live, loops, store, replay, want >>
         \/ /\ ids[want[p][i].name] = 0
            /\ GiveUp(p, i)
            /\ UNCHANGED << live, loops, store, bare, replay >>
  BY DEF StartOne
<1>3. i \in DOMAIN want[p] /\ i \in Id /\ want[p][i].name \in Names
  BY <1>1, ApplierFacts DEF Absent, Target
<1>4. CASE /\ ids[want[p][i].name] # 0
           /\ FreeSlots # {} /\ Launch(i, want[p][i])
           /\ UNCHANGED << store, bare, replay, want >>
  BY <1>1, <1>4, StartKeeps DEF store
<1>5. CASE /\ Known(table, want[p][i].name)
           /\ Register(want[p][i].name, IdOf(table, want[p][i].name))
           /\ replay' = i
           /\ UNCHANGED << live, loops, bare, want >>
  <2>1. IdOf(table, want[p][i].name) \in Id
    BY <1>3, <1>5, IdOfFacts DEF IInv, RequestInv, TypeOK, Id
  <2> QED
    BY <1>1, <1>5, <2>1, RegisterKeeps
<1>6. CASE /\ ids[want[p][i].name] = 0
           /\ bare' = i
           /\ UNCHANGED << live, loops, store, replay, want >>
  <2>1. RequestInv'
    BY <1>1, <1>3, <1>6 DEF IInv, RequestInv, TypeOK, JobsInPlace, WantDistinct, Id, store
  <2>2. StoreInv'
    BY <1>1, <1>6 DEF IInv, StoreInv, OneRunningLoop, RecorderBacked, LiveRegistered, store
  <2>3. p = lock /\ lock # NoProc
    BY <1>1, ApplierFacts
  <2>4. RegisteredWanted'
    BY <1>1, <1>6 DEF IInv, ApplyInv, RegisteredWanted, store
  <2>5. BareAbsent' /\ ReplayAbsent'
    BY <1>1, <1>2, <1>6, <2>3 DEF BareAbsent, ReplayAbsent, Absent, Stale, store
  <2> QED
    BY <2>1, <2>2, <2>4, <2>5 DEF IInv, ApplyInv
<1>7. CASE /\ ids[want[p][i].name] = 0
           /\ GiveUp(p, i)
           /\ UNCHANGED << live, loops, store, bare, replay >>
  BY <1>1, <1>3, <1>7, GiveUpKeeps
<1> QED
  BY <1>2, <1>4, <1>5, <1>6, <1>7

LEMMA InsertBareKeeps ==
    ASSUME IInv, [Next]_vars, NEW p \in Procs, InsertBare(p)
    PROVE  IInv'
<1>1. /\ pc[p] = "apply" /\ bare # 0 /\ bare' = 0
      /\ UNCHANGED << hist, live, loops, lock, pc, job, up, asked, crashes >>
  BY DEF InsertBare
<1>2. /\ Stale(p) = {} /\ bare \in Absent(p) /\ bare \in DOMAIN want[p]
      /\ ids[want[p][bare].name] = 0 /\ replay = 0
  BY <1>1, ApplierFacts DEF IInv, ApplyInv, BareAbsent, ReplayAbsent, Absent
<1>3. CASE /\ Register(want[p][bare].name, Len(table) + 1)
           /\ replay' = bare
           /\ UNCHANGED want
  <2>1. Len(table) + 1 \in Id
    BY DEF IInv, RequestInv, TypeOK, Id
  <2> QED
    BY <1>1, <1>2, <1>3, <2>1, RegisterKeeps
<1>4. CASE GiveUp(p, bare) /\ UNCHANGED << table, store, replay >>
  BY <1>1, <1>2, <1>4, GiveUpKeeps
<1> QED
  BY <1>3, <1>4 DEF InsertBare

LEMMA ReplayKeeps ==
    ASSUME IInv, NEW p \in Procs, Replay(p)
    PROVE  IInv'
<1>1. /\ pc[p] = "apply" /\ replay # 0 /\ replay' = 0
      /\ FreeSlots # {} /\ Launch(replay, want[p][replay])
      /\ \E found \in SUBSET {h[2] : h \in {x \in hist : x[1] = ids[want[p][replay].name]}} :
            rings' = [rings EXCEPT ![want[p][replay].name] = found]
      /\ UNCHANGED << table, hist, ids, lock, bare, pc, job, want, up, asked, crashes >>
  BY DEF Replay, filed
<1>2. /\ Stale(p) = {} /\ replay \in Absent(p)
      /\ ids[want[p][replay].name] # 0 /\ bare = 0
  BY <1>1, ApplierFacts DEF IInv, ApplyInv, ReplayAbsent
<1> QED
  BY <1>1, <1>2, StartKeeps

\* A probe loop files rounds and comes and goes without touching the runner's
\* map; only a loop that was told to stop ends.
LEMMA ProbeKeeps ==
    ASSUME IInv, NEW k \in Slots, Round(k) \/ Tick(k) \/ Exit(k)
    PROVE  IInv'
<1>1. /\ loops[k] # NoLoop /\ loops[k] \in Loop
      /\ UNCHANGED << table, live, ids, lock, bare, replay, pc, job, want, up, asked, crashes >>
  BY DEF Round, Tick, Exit, filed, store, IInv, RequestInv, TypeOK
<1>2. /\ loops' \in [Slots -> Loop \cup {NoLoop}]
      /\ \A s \in Slots \ {k} : loops'[s] = loops[s]
      /\ \/ /\ loops'[k] # NoLoop /\ loops'[k].id = loops[k].id
            /\ loops'[k].name = loops[k].name /\ loops'[k].stop = loops[k].stop
         \/ loops'[k] = NoLoop /\ loops[k].stop
  <2>1. ASSUME NEW x \in {"probe", "wait"}, loops' = [loops EXCEPT ![k].pc = x]
        PROVE  /\ loops' \in [Slots -> Loop \cup {NoLoop}]
               /\ \A s \in Slots \ {k} : loops'[s] = loops[s]
               /\ loops'[k] # NoLoop /\ loops'[k].id = loops[k].id
               /\ loops'[k].name = loops[k].name /\ loops'[k].stop = loops[k].stop
    <3> DEFINE l == [loops[k] EXCEPT !.pc = x]
    <3>1. /\ l \in Loop /\ l # NoLoop /\ l.id = loops[k].id
          /\ l.name = loops[k].name /\ l.stop = loops[k].stop
      BY <1>1 DEF Loop, NoLoop
    <3>2. loops' = [loops EXCEPT ![k] = l]
      BY <2>1
    <3> HIDE DEF l
    <3> QED
      BY <3>1, <3>2 DEF IInv, RequestInv, TypeOK
  <2>2. CASE Round(k) \/ Tick(k)
    BY <2>1, <2>2 DEF Round, Tick
  <2>3. CASE Exit(k)
    BY <2>3 DEF Exit, IInv, RequestInv, TypeOK
  <2> QED
    BY <2>2, <2>3
<1>3. OneRunningLoop'
  <2>1. ASSUME NEW i \in DOMAIN live
        PROVE  LET m == loops'[live[i].loop]
               IN  m # NoLoop /\ ~m.stop /\ m.id = i /\ m.name = live[i].name
    <3>1. live[i].loop \in Slots
      BY DEF IInv, RequestInv, TypeOK
    <3>2. LET m == loops[live[i].loop]
          IN  m # NoLoop /\ ~m.stop /\ m.id = i /\ m.name = live[i].name
      BY DEF IInv, StoreInv, OneRunningLoop
    <3>3. CASE live[i].loop = k
      BY <1>2, <3>2, <3>3
    <3>4. CASE live[i].loop # k
      BY <1>2, <3>1, <3>2, <3>4
    <3> QED
      BY <3>3, <3>4
  <2>2. ASSUME NEW s \in Slots, loops'[s] # NoLoop, ~loops'[s].stop
        PROVE  loops'[s].id \in DOMAIN live /\ live[loops'[s].id].loop = s
    <3>1. loops[s] # NoLoop /\ ~loops[s].stop /\ loops'[s].id = loops[s].id
      BY <1>1, <1>2, <2>2
    <3> QED
      BY <3>1 DEF IInv, StoreInv, OneRunningLoop
  <2> QED
    BY <1>1, <2>1, <2>2 DEF OneRunningLoop
<1>4. /\ hist' \subseteq Id \X Id /\ hist \subseteq hist'
      /\ rings' \in [Names -> SUBSET Id] /\ RecorderBacked'
  <2>0. /\ hist \subseteq Id \X Id /\ rings \in [Names -> SUBSET Id]
        /\ ids \in [Names -> Nat] /\ RecorderBacked
    BY DEF IInv, RequestInv, StoreInv, TypeOK
  <2>1. CASE hist' = hist /\ rings' = rings
    BY <1>1, <2>0, <2>1 DEF RecorderBacked
  <2>2. CASE Round(k) /\ ids[loops[k].name] # 0
    <3> DEFINE n == loops[k].name
               s == loops[k].id
    <3>1. /\ n \in Names /\ s \in Id /\ ids[n] \in Id
          /\ hist' = hist \cup {<< ids[n], s >>}
          /\ rings' = [rings EXCEPT ![n] = @ \cup {s}]
      BY <1>1, <2>0, <2>2 DEF Round, Loop, Id
    <3> HIDE DEF n, s
    <3>2. rings' \in [Names -> SUBSET Id] /\ hist' \subseteq Id \X Id
      BY <2>0, <3>1
    <3>3. RecorderBacked'
      BY <1>1, <2>0, <3>1 DEF RecorderBacked, Id
    <3> QED
      BY <3>1, <3>2, <3>3
  <2>3. (hist' = hist /\ rings' = rings) \/ (Round(k) /\ ids[loops[k].name] # 0)
    BY DEF Round, Tick, Exit, filed, store
  <2> QED
    BY <2>1, <2>2, <2>3
<1>5. RequestInv'
  <2>1. /\ DOMAIN live' \subseteq Id /\ bare' \in Nat /\ replay' \in Nat /\ ids' \in [Names -> Nat]
        /\ \A j \in DOMAIN live' : live'[j] \in [name : Names, cfg : Cfgs \cup {NoCfg}, loop : Slots]
        /\ table' \in Seq(Row) /\ UniqueIn(table') /\ \A j \in DOMAIN table : j \in DOMAIN table'
    BY <1>1 DEF IInv, RequestInv, TypeOK
  <2> QED
    BY <1>1, <1>2, <1>4, <2>1, RequestFrame
<1>6. StoreInv'
  BY <1>1, <1>3, <1>4 DEF IInv, StoreInv, DistinctNames, LiveRegistered
<1>7. ApplyInv'
  BY <1>1 DEF IInv, ApplyInv, RegisteredWanted, BareAbsent, ReplayAbsent, Absent, Stale
<1> QED
  BY <1>5, <1>6, <1>7 DEF IInv

\* A process that has just started has no loops, no registrations, no requests.
Fresh ==
    /\ live = Nothing /\ ids = NoIds /\ rings = NoRings /\ loops = NoLoops
    /\ lock = NoProc /\ bare = 0 /\ replay = 0 /\ up = FALSE
    /\ pc = StartPC /\ job = NoJobs /\ want = NoWant
    /\ table \in Seq(Row) /\ UniqueIn(table) /\ hist \subseteq Id \X Id
    /\ asked \in Nat /\ crashes \in Nat

LEMMA FreshProcess == Fresh => IInv
<1> SUFFICES ASSUME Fresh PROVE IInv
  OBVIOUS
<1> USE DEF Fresh
<1>1. DOMAIN live = {} /\ \A n \in Names : ids[n] = 0 /\ rings[n] = {}
  BY DEF Nothing, NoIds, NoRings
<1>2. \A s \in Slots : loops[s] = NoLoop
  BY DEF NoLoops
<1>3. \A p \in Procs : /\ pc[p] \in {"seed", "idle"} /\ job[p] = NoJob /\ DOMAIN want[p] = {}
                       /\ p # NoProc
  BY RunnerAssumption DEF StartPC, NoJobs, NoWant, Nothing, NoProc
<1>4. /\ ids \in [Names -> Nat] /\ rings \in [Names -> SUBSET Id]
      /\ loops \in [Slots -> Loop \cup {NoLoop}]
      /\ job \in [Procs -> Jobs \cup {NoJob}] /\ DOMAIN want = Procs
      /\ pc \in [Procs -> {"idle", "seed", "targets", "plan", "commit", "select", "read", "lock", "apply"}]
  BY DEF NoIds, NoRings, NoLoops, NoJobs, NoWant, StartPC
<1>5. TypeOK
  BY <1>1, <1>3, <1>4 DEF TypeOK
<1>6. NoJob.op = "none"
  BY DEF NoJob
<1>7. RequestInv
  BY <1>3, <1>5, <1>6 DEF RequestInv, JobsInPlace, WantDistinct, DistinctNames
<1>8. StoreInv
  BY <1>1, <1>2 DEF StoreInv, DistinctNames, OneRunningLoop, RecorderBacked, LiveRegistered
<1>9. ApplyInv
  BY <1>1 DEF ApplyInv, RegisteredWanted, BareAbsent, ReplayAbsent
<1> QED
  BY <1>7, <1>8, <1>9 DEF IInv

LEMMA FreshProcessNext == Fresh' => IInv'
BY FreshProcess, PTL

LEMMA CrashKeeps ==
    ASSUME IInv, Crash
    PROVE  IInv'
<1>1. Fresh'
  BY DEF Crash, Fresh, IInv, RequestInv, TypeOK
<1> QED
  BY <1>1, FreshProcessNext

LEMMA InitEstablishes == Init => IInv
<1>1. Init => Fresh
  BY DEF Init, Fresh, UniqueIn
<1> QED
  BY <1>1, FreshProcess

\* Every step of every goroutine, and a crash, preserves the invariant.
LEMMA StepPreserves == IInv /\ [Next]_vars => IInv'
<1> SUFFICES ASSUME IInv, [Next]_vars
             PROVE  IInv'
  OBVIOUS
<1>1. ASSUME NEW p \in Handlers, Receive(p) \/ Handle(p)
      PROVE  IInv'
  <2>1. p \in Procs
    BY DEF Procs
  <2>2. MovesOnly(p)
    BY <1>1, ReceiveMoves, TargetsMoves, PlanMoves, CommitMoves, SelectIdMoves DEF Handle
  <2> QED
    BY <2>1, <2>2, MoveKeepsIInv
<1>2. ASSUME NEW p \in Procs, Reload(p)
      PROVE  IInv'
  BY <1>2, ReadActiveMoves, ReadFailsMoves, MoveKeepsIInv, AcquireKeeps,
     StopOneKeeps, StartOneKeeps, InsertBareKeeps, ReplayKeeps, ReleaseKeeps DEF Reload
<1>3. ASSUME NEW k \in Slots, Round(k) \/ Tick(k) \/ Exit(k)
      PROVE  IInv'
  BY <1>3, ProbeKeeps
<1>4. CASE Seed
  <2>1. Main \in Procs
    BY DEF Procs
  <2> QED
    BY <1>4, <2>1, SeedMoves, MoveKeepsIInv
<1>5. CASE Crash
  BY <1>5, CrashKeeps
<1>6. CASE UNCHANGED vars
  <2>1. RequestInv'
    BY <1>6 DEF vars, IInv, RequestInv, TypeOK, JobsInPlace, WantDistinct
  <2>2. StoreInv'
    BY <1>6 DEF vars, IInv, StoreInv, DistinctNames, OneRunningLoop, RecorderBacked, LiveRegistered
  <2>3. ApplyInv'
    BY <1>6 DEF vars, IInv, ApplyInv, RegisteredWanted, BareAbsent, ReplayAbsent, Absent, Stale
  <2> QED
    BY <2>1, <2>2, <2>3 DEF IInv
<1> QED
  BY <1>1, <1>2, <1>3, <1>4, <1>5, <1>6 DEF Next

\* The inductive invariant, for any number of handlers, targets and requests.
THEOREM Invariance == Spec => []IInv
BY InitEstablishes, StepPreserves, PTL DEF Spec

\* Every variable has its type, and r.mu excludes.
THEOREM TypeCorrect == Spec => []TypeOK
<1>1. IInv => TypeOK
  BY DEF IInv, RequestInv
<1> QED
  BY <1>1, Invariance, PTL

\* runner.go: a target that is live has exactly one running loop, and no running
\* loop is without a live target, whatever Reloads, stops and crashes interleave.
THEOREM LoopsMatchLive == Spec => []OneRunningLoop
<1>1. IInv => OneRunningLoop
  BY DEF IInv, StoreInv
<1> QED
  BY <1>1, Invariance, PTL

\* store.go, outside apply: the registered names are exactly the live ones.
THEOREM RegistrationsMatchLive == Spec => []RegisteredAreLive
<1>1. IInv => RegisteredAreLive
  <2> SUFFICES ASSUME IInv, lock = NoProc
               PROVE  {n \in Names : ids[n] # 0} = {live[i].name : i \in DOMAIN live}
    BY DEF RegisteredAreLive
  <2>1. \A n \in Names : ids[n] # 0 => \E i \in DOMAIN live : live[i].name = n
    BY DEF IInv, ApplyInv, RegisteredWanted
  <2>2. \A i \in DOMAIN live : live[i].name \in Names /\ ids[live[i].name] # 0
    BY DEF IInv, StoreInv, LiveRegistered, RequestInv, TypeOK
  <2> QED
    BY <2>1, <2>2
<1> QED
  BY <1>1, Invariance, PTL

\* store.go: a flight recorder shows only rounds filed under its name's row.
THEOREM RecorderNeverStrays == Spec => []RecorderBacked
<1>1. IInv => RecorderBacked
  BY DEF IInv, StoreInv
<1> QED
  BY <1>1, Invariance, PTL

\* targets.go: the concurrent program implements module Registry, so an id is one
\* target for ever, a deleted row keeps its name, and names stay unique.
THEOREM ImplementsRegistry == Spec => RegistrySpec
<1>1. Init => Reg!Init
  BY DEF Init, Reg!Init
<1>2. IInv /\ [Next]_vars => [Reg!Change]_table
  <2>1. Grows(table, table') => Reg!Grows(table, table')
    BY DEF Grows, Reg!Grows, Row, Reg!Row, Evolves, Reg!Evolves, UniqueIn, Reg!UniqueIn
  <2> QED
    BY <2>1, TableStep DEF Reg!Change
<1> QED
  BY <1>1, <1>2, Invariance, PTL DEF Spec, RegistrySpec, Reg!Spec
-----------------------------------------------------------------------------
(***************************************************************************)
(* Requests that do not overlap: an operator who waits for each answer      *)
(* before the next edit, and a database that answers.  Then every Reload    *)
(* applies the difference of one statement, no two names of which are one   *)
(* target's old and another's new name.                                     *)
(***************************************************************************)
NoOverlap == \A g, h \in Handlers : pc[g] # "idle" /\ pc[h] # "idle" => g = h

\* Until the first Reload returns no request is served, and nothing runs before it.
Booting ==
    /\ pc[Main] \in {"idle", "seed", "read", "lock", "apply"}
    /\ up <=> pc[Main] = "idle"
    /\ ~up => \A p \in Handlers : pc[p] = "idle"
    /\ pc[Main] = "seed" => DOMAIN live = {}

\* No edit is under way.
AtRest == \A p \in Procs : pc[p] \in {"idle", "targets", "plan", "commit"}

\* While no edit is under way, what runs is what the table says.
Settled == AtRest => LiveTargets = ActiveTargets(table)

\* The rows that are about to be applied are the rows there are now.
ReadIsCurrent == \A p \in Procs : pc[p] \in {"lock", "apply"} => want[p] = ActiveTargets(table)

CreatedKnown == \A p \in Procs : pc[p] = "select" => Known(table, job[p].name)

\* No row has taken the name another live target still runs under.
LiveInPlace ==
    \A i \in DOMAIN live, j \in DOMAIN table : table[j].name = live[i].name => i = j

\* A name is registered for the row of the target that has it or is about to.
RegisteredInPlace ==
    \A n \in Names :
        ids[n] # 0 => \/ ids[n] \in DOMAIN live /\ live[ids[n]].name = n
                      \/ lock # NoProc /\ ids[n] \in DOMAIN want[lock] /\ want[lock][ids[n]].name = n

SeqInv ==
    /\ IInv /\ Booting /\ Settled /\ ReadIsCurrent /\ CreatedKnown
    /\ LiveInPlace /\ RegisteredInPlace /\ bare = 0

\* One goroutine at a time is doing anything but waiting for a request.
LEMMA OneBusy ==
    ASSUME SeqInv, NoOverlap, NEW p \in Procs, pc[p] # "idle"
    PROVE  \A q \in Procs \ {p} : pc[q] = "idle"
BY DEF SeqInv, Booting, NoOverlap, Procs

\* The rows read are the active rows, one by one.
LEMMA ActiveFields ==
    ASSUME NEW tb
    PROVE  /\ DOMAIN ActiveTargets(tb) = {j \in DOMAIN tb : tb[j].active}
           /\ \A i \in DOMAIN tb : tb[i].active => ActiveTargets(tb)[i].name = tb[i].name
BY DEF ActiveTargets

\* How a statement may move names between rows: one row at most gets another
\* name, and it is a name no row had.
NamesStay(tb, tb2) ==
    \A i \in DOMAIN tb, j \in DOMAIN tb2 : tb2[j].name = tb[i].name => i = j

LEMMA RowsKeepNames ==
    ASSUME NEW tb, NEW tb2, Good(tb), Grows(tb, tb2),
           \A i \in DOMAIN tb : tb2[i].name = tb[i].name
    PROVE  NamesStay(tb, tb2)
<1>1. DOMAIN tb = 1 .. Len(tb) /\ Len(tb) \in Nat /\ DOMAIN tb2 = 1 .. Len(tb2)
      /\ Len(tb2) \in Nat /\ Len(tb) =< Len(tb2) /\ UniqueIn(tb2)
  BY DEF Good, Grows
<1>2. \A i \in DOMAIN tb : i \in DOMAIN tb2
  BY <1>1
<1> QED
  BY <1>1, <1>2 DEF NamesStay, UniqueIn

LEMMA UpsertNamesStay ==
    ASSUME NEW tb, Good(tb), NEW n \in Names, NEW c \in Cfgs
    PROVE  NamesStay(tb, Upsert(tb, n, c)) /\ Known(Upsert(tb, n, c), n)
<1> DEFINE r == NewRow(n, c, TRUE)
           tb2 == Upsert(tb, n, c)
<1>1. r.name = n /\ r \in Row
  BY NewRowType DEF NewRow
<1>2. CASE Known(tb, n)
  <2>1. IdOf(tb, n) \in DOMAIN tb /\ tb[IdOf(tb, n)].name = n
    BY <1>2, IdOfFacts DEF Good
  <2>2. tb2 = [tb EXCEPT ![IdOf(tb, n)] = r]
    BY <1>2 DEF Upsert
  <2> HIDE DEF r, tb2
  <2>3. \A i \in DOMAIN tb : tb2[i].name = tb[i].name
    BY <1>1, <2>1, <2>2 DEF Good
  <2>4. Known(tb2, n)
    BY <1>1, <2>1, <2>2 DEF Known, Good
  <2> QED
    BY <2>3, <2>4, RowsKeepNames, UpsertGrows DEF tb2
<1>3. CASE ~Known(tb, n)
  <2>1. tb2 = Append(tb, r)
    BY <1>3 DEF Upsert
  <2> HIDE DEF r, tb2
  <2>2. /\ \A i \in DOMAIN tb : tb2[i].name = tb[i].name
        /\ Len(tb) + 1 \in DOMAIN tb2 /\ tb2[Len(tb) + 1] = r
    BY <1>1, <2>1 DEF Good
  <2>3. Known(tb2, n)
    BY <1>1, <2>2 DEF Known
  <2> QED
    BY <2>2, <2>3, RowsKeepNames, UpsertGrows DEF tb2
<1> QED
  BY <1>2, <1>3

LEMMA UpdateNamesStay ==
    ASSUME NEW tb, Good(tb), NEW i, NEW n \in Names, NEW c \in Cfgs, Updatable(tb, i, n)
    PROVE  NamesStay(tb, Update(tb, i, n, c))
<1> DEFINE r == NewRow(n, c, TRUE)
           tb2 == Update(tb, i, n, c)
<1>1. r.name = n
  BY DEF NewRow
<1>2. tb2 = [tb EXCEPT ![i] = r]
  BY DEF Update
<1>3. i \in DOMAIN tb /\ \A j \in DOMAIN tb \ {i} : tb[j].name # n
  BY DEF Updatable
<1> HIDE DEF r, tb2
<1>4. DOMAIN tb2 = DOMAIN tb /\ tb2[i].name = n /\ \A j \in DOMAIN tb \ {i} : tb2[j] = tb[j]
  BY <1>1, <1>2, <1>3 DEF Good
<1>5. NamesStay(tb, tb2)
  BY <1>3, <1>4 DEF NamesStay, Good, UniqueIn
<1> QED
  BY <1>5 DEF tb2

LEMMA DeactivateNamesStay ==
    ASSUME NEW tb, Good(tb), NEW i \in DOMAIN tb, tb[i].active
    PROVE  NamesStay(tb, Deactivate(tb, i))
<1> DEFINE r == [tb[i] EXCEPT !.active = FALSE]
           tb2 == Deactivate(tb, i)
<1>1. tb[i] \in Row
  BY DEF Good
<1>2. r.name = tb[i].name
  BY <1>1 DEF Row
<1>3. tb2 = [tb EXCEPT ![i] = r]
  BY DEF Deactivate
<1> HIDE DEF r, tb2
<1>4. \A j \in DOMAIN tb : tb2[j].name = tb[j].name
  BY <1>2, <1>3 DEF Good
<1> QED
  BY <1>4, RowsKeepNames, DeactivateGrows DEF tb2

\* A committed statement moves no name onto a row that had another.
LEMMA CommitNamesStay ==
    ASSUME IInv, NEW p \in Handlers, Commit(p)
    PROVE  \/ Reply(p) /\ table' = table
           \/ /\ NamesStay(table, table')
              /\ UNCHANGED << job, want >>
              /\ \/ Goto(p, "read")
                 \/ Goto(p, "select") /\ Known(table', job[p].name)
<1>1. Good(table)
  BY DEF IInv, RequestInv, TypeOK, Good
<1>2. /\ job[p] \in Jobs \cup {NoJob}
      /\ job[p].op = "delete" => job[p].id \in DOMAIN table
  BY HandlerFacts
<1>3. CASE CreateTarget(p)
  BY <1>1, <1>2, <1>3, JobFields, UpsertNamesStay DEF CreateTarget, Refused, Committed
<1>4. CASE UpdateTarget(p)
  BY <1>1, <1>2, <1>4, JobFields, UpdateNamesStay DEF UpdateTarget, Refused, Committed
<1>5. CASE DeactivateTarget(p)
  BY <1>1, <1>2, <1>5, DeactivateNamesStay DEF DeactivateTarget, Refused, Committed
<1>6. CASE ImportTargets(p)
  <2>1. CASE Refused(p)
    BY <2>1 DEF Refused
  <2>2. CASE ~Refused(p)
    <3>1. PICK order \in Orders(FreshNames(table, job[p].names)) :
             Committed(p, Imported(table, job[p].names, job[p].cfg, order), "read")
      BY <1>6, <2>2 DEF ImportTargets
    <3>2. job[p].names \in SUBSET Names /\ job[p].cfg \in Cfgs
      BY <1>2, <1>6, JobFields DEF ImportTargets
    <3>3. NamesStay(table, Imported(table, job[p].names, job[p].cfg, order))
      BY <1>1, <3>2, ImportedGrows, RowsKeepNames, RunnerAssumption
    <3> QED
      BY <3>1, <3>3 DEF Committed
  <2> QED
    BY <2>1, <2>2
<1>7. CASE Refused(p)
  BY <1>7 DEF Refused
<1> QED
  BY <1>3, <1>4, <1>5, <1>6, <1>7 DEF Commit

\* A goroutine that is not applying moves on, and the table and the store stay.
LEMMA QuietMoveKeeps ==
    ASSUME SeqInv, IInv', Booting', NEW p \in Procs,
           UNCHANGED << table, live, ids, lock, bare, replay >>,
           NEW l \in {"idle", "targets", "plan", "commit", "read"}, Goto(p, l),
           l = "read" \/ pc[p] \in {"idle", "targets", "plan", "commit"},
           \A q \in Procs \ {p} : job'[q] = job[q] /\ want'[q] = want[q],
           pc[p] # "apply"
    PROVE  SeqInv'
<1>1. /\ pc'[p] = l /\ \A q \in Procs \ {p} : pc'[q] = pc[q]
      /\ lock # p
  BY HolderApplies DEF Goto, SeqInv, IInv, RequestInv, TypeOK
<1>2. Settled'
  <2> SUFFICES ASSUME AtRest'
               PROVE  LiveTargets' = ActiveTargets(table)'
    BY DEF Settled
  <2>1. AtRest
    BY <1>1 DEF AtRest
  <2> QED
    BY <2>1 DEF SeqInv, Settled, LiveTargets, ActiveTargets
<1>3. ReadIsCurrent'
  BY <1>1 DEF SeqInv, ReadIsCurrent, ActiveTargets
<1>4. CreatedKnown'
  BY <1>1 DEF SeqInv, CreatedKnown, Known
<1>5. LiveInPlace'
  BY DEF SeqInv, LiveInPlace
<1>6. RegisteredInPlace'
  <2>1. lock # NoProc => lock \in Procs \ {p} /\ want'[lock] = want[lock]
    BY <1>1 DEF SeqInv, IInv, RequestInv, TypeOK
  <2> QED
    BY <2>1 DEF SeqInv, RegisteredInPlace
<1> QED
  BY <1>2, <1>3, <1>4, <1>5, <1>6 DEF SeqInv

\* A statement of a request that has the program to itself.
LEMMA EditKeeps ==
    ASSUME SeqInv, NoOverlap, IInv', Booting', NEW p \in Procs, pc[p] \in {"commit", "seed"},
           UNCHANGED << live, ids, lock, bare, replay, job, want >>,
           \/ pc[p] = "commit" /\ NamesStay(table, table')
           \/ DOMAIN live = {},
           \/ Goto(p, "read")
           \/ Goto(p, "select") /\ Known(table', job[p].name)
    PROVE  SeqInv'
<1>1. /\ pc'[p] \in {"read", "select"} /\ \A q \in Procs \ {p} : pc'[q] = pc[q] /\ pc[q] = "idle"
      /\ pc'[p] = "select" => Known(table', job[p].name)
  BY OneBusy DEF Goto, SeqInv, IInv, RequestInv, TypeOK
<1>2. Settled' /\ ReadIsCurrent' /\ CreatedKnown'
  BY <1>1 DEF Settled, AtRest, ReadIsCurrent, CreatedKnown
<1>3. LiveInPlace'
  <2>1. CASE DOMAIN live = {}
    BY <2>1 DEF LiveInPlace
  <2>2. CASE pc[p] = "commit" /\ NamesStay(table, table')
    <3>1. AtRest
      BY <1>1, <2>2 DEF AtRest
    <3>2. LiveTargets = ActiveTargets(table)
      BY <3>1 DEF SeqInv, Settled
    <3>3. \A i \in DOMAIN live : i \in DOMAIN table /\ live[i].name = table[i].name
      <4> SUFFICES ASSUME NEW i \in DOMAIN live
                   PROVE  i \in DOMAIN table /\ live[i].name = table[i].name
        OBVIOUS
      <4>1. i \in DOMAIN LiveTargets /\ LiveTargets[i].name = live[i].name
        BY DEF LiveTargets
      <4> QED
        BY <3>2, <4>1, ActiveFields
    <3> QED
      BY <2>2, <3>3 DEF NamesStay, LiveInPlace
  <2> QED
    BY <2>1, <2>2
<1>4. RegisteredInPlace'
  BY DEF SeqInv, RegisteredInPlace
<1> QED
  BY <1>2, <1>3, <1>4 DEF SeqInv

\* What the goroutine that applies has before it.
LEMMA SeqApplier ==
    ASSUME SeqInv, NoOverlap, NEW p \in Procs, pc[p] = "apply"
    PROVE  /\ p = lock /\ lock # NoProc
           /\ \A q \in Procs \ {p} : pc[q] = "idle"
           /\ want[p] = ActiveTargets(table)
           /\ \A i \in DOMAIN want[p] : i \in DOMAIN table /\ want[p][i].name = table[i].name
           /\ \A i \in DOMAIN live : ids[live[i].name] = i
<1>1. p = lock /\ lock # NoProc /\ DistinctNames(live) /\ LiveRegistered
  BY ApplierFacts DEF SeqInv, IInv, StoreInv
<1>2. want[p] = ActiveTargets(table)
  BY DEF SeqInv, ReadIsCurrent
<1>3. \A i \in DOMAIN want[p] : i \in DOMAIN table /\ want[p][i].name = table[i].name
  BY <1>2, ActiveFields
<1>4. \A i \in DOMAIN live : live[i].name \in Names
  BY DEF SeqInv, IInv, RequestInv, TypeOK
<1>5. \A i \in DOMAIN live : ids[live[i].name] = i
  BY <1>1, <1>3, <1>4 DEF SeqInv, RegisteredInPlace, LiveInPlace, LiveRegistered, DistinctNames
<1> QED
  BY <1>1, <1>2, <1>3, <1>5, OneBusy

LEMMA SeqAcquire ==
    ASSUME SeqInv, NoOverlap, IInv', Booting', NEW p \in Procs, Acquire(p)
    PROVE  SeqInv'
<1>1. /\ pc[p] = "lock" /\ lock = NoProc
      /\ pc' = [pc EXCEPT ![p] = "apply"]
      /\ UNCHANGED << table, live, ids, bare, replay, job, want >>
  BY DEF Acquire, Goto, filed, store
<1>2. pc'[p] = "apply" /\ \A q \in Procs \ {p} : pc'[q] = pc[q]
  BY <1>1 DEF SeqInv, IInv, RequestInv, TypeOK
<1>3. Settled' /\ CreatedKnown'
  BY <1>1, <1>2 DEF SeqInv, Settled, AtRest, CreatedKnown, Known
<1>4. ReadIsCurrent'
  BY <1>1, <1>2 DEF SeqInv, ReadIsCurrent, ActiveTargets
<1>5. LiveInPlace'
  BY <1>1 DEF SeqInv, LiveInPlace
<1>6. RegisteredInPlace'
  BY <1>1 DEF SeqInv, RegisteredInPlace
<1> QED
  BY <1>1, <1>3, <1>4, <1>5, <1>6 DEF SeqInv

\* First loop of apply: the registration of a renamed target goes with it.
LEMMA SeqStopOne ==
    ASSUME SeqInv, NoOverlap, IInv', Booting', NEW p \in Procs, StopOne(p)
    PROVE  SeqInv'
<1>1. /\ pc[p] = "apply" /\ bare = 0
      /\ UNCHANGED << table, lock, bare, replay, pc, job, want >>
  BY DEF StopOne, filed
<1>2. PICK i \in Stale(p) :
         /\ live' = Without(live, i)
         /\ IF i \notin DOMAIN want[p] THEN RemoveTarget(live[i].name)
            ELSE IF want[p][i].name # live[i].name THEN RenameTarget(live[i].name, want[p][i].name)
            ELSE UNCHANGED store
  BY DEF StopOne
<1> DEFINE old == live[i].name
<1>3. /\ i \in DOMAIN live /\ old \in Names /\ ids[old] = i /\ i # 0
      /\ ids \in [Names -> Nat]
      /\ \A j \in DOMAIN want[p] : want[p][j].name \in Names
  BY <1>1, SeqApplier, ApplierFacts
     DEF Stale, SeqInv, IInv, RequestInv, TypeOK, StoreInv, LiveRegistered, Target, Id
<1>4. DOMAIN live' = DOMAIN live \ {i} /\ \A j \in DOMAIN live' : live'[j] = live[j]
  BY <1>2 DEF Without, Restrict
<1>5. Settled' /\ CreatedKnown'
  BY <1>1 DEF SeqInv, Settled, AtRest, CreatedKnown, Known
<1>6. ReadIsCurrent'
  BY <1>1 DEF SeqInv, ReadIsCurrent, ActiveTargets
<1>7. LiveInPlace'
  BY <1>1, <1>4 DEF SeqInv, LiveInPlace
<1>8. \A n \in Names :
         ids'[n] # 0 => \/ n # old /\ ids'[n] = ids[n]
                        \/ ids'[n] = i /\ i \in DOMAIN want[p] /\ want[p][i].name = n
  <2>1. CASE i \notin DOMAIN want[p]
    <3>1. ids' = [ids EXCEPT ![old] = 0]
      BY <1>2, <2>1 DEF RemoveTarget
    <3> QED
      BY <1>3, <3>1
  <2>2. CASE i \in DOMAIN want[p] /\ want[p][i].name # old
    <3> DEFINE new == want[p][i].name
    <3>1. ids' = [ids EXCEPT ![new] = ids[old], ![old] = 0] /\ new \in Names
      BY <1>2, <1>3, <2>2 DEF RenameTarget
    <3> QED
      BY <1>3, <2>2, <3>1
  <2>3. CASE i \in DOMAIN want[p] /\ want[p][i].name = old
    <3>1. ids' = ids
      BY <1>2, <2>3 DEF store
    <3> QED
      BY <1>3, <2>3, <3>1
  <2> QED
    BY <2>1, <2>2, <2>3
<1>9. RegisteredInPlace'
  <2> SUFFICES ASSUME NEW n \in Names, ids'[n] # 0
               PROVE  \/ ids'[n] \in DOMAIN live' /\ live'[ids'[n]].name = n
                      \/ ids'[n] \in DOMAIN want[p] /\ want[p][ids'[n]].name = n
    BY <1>1, SeqApplier DEF RegisteredInPlace
  <2>1. CASE n # old /\ ids'[n] = ids[n]
    <3>1. CASE ids[n] \in DOMAIN live /\ live[ids[n]].name = n
      BY <1>4, <2>1, <3>1
    <3>2. CASE ids[n] \in DOMAIN want[p] /\ want[p][ids[n]].name = n
      BY <2>1, <3>2
    <3> QED
      BY <1>1, <2>1, <3>1, <3>2, SeqApplier DEF SeqInv, RegisteredInPlace
  <2> QED
    BY <1>8, <2>1
<1> QED
  BY <1>1, <1>5, <1>6, <1>7, <1>9 DEF SeqInv

\* Second loop of apply: a target is launched that its row's name is registered for.
LEMMA SeqLaunch ==
    ASSUME SeqInv, NoOverlap, IInv', Booting', NEW p \in Procs, pc[p] = "apply",
           NEW i \in Absent(p), FreeSlots # {}, Launch(i, want[p][i]),
           UNCHANGED << table, ids, lock, bare, pc, job, want >>
    PROVE  SeqInv'
<1> DEFINE t == want[p][i]
<1>1. /\ i \in DOMAIN want[p] /\ i \notin DOMAIN live /\ i \in Id /\ t \in Target
      /\ Good(table)
  BY ApplierFacts DEF Absent, SeqInv, IInv, RequestInv, TypeOK, Good
<1>2. /\ DOMAIN live' = DOMAIN live \cup {i}
      /\ live'[i].name = t.name
      /\ \A j \in DOMAIN live : live'[j] = live[j]
  BY <1>1, LaunchKeeps DEF SeqInv, IInv, RequestInv, StoreInv
<1>3. Settled' /\ CreatedKnown' /\ ReadIsCurrent'
  BY DEF SeqInv, Settled, AtRest, CreatedKnown, Known, ReadIsCurrent, ActiveTargets
<1>4. LiveInPlace'
  BY <1>1, <1>2, SeqApplier DEF SeqInv, LiveInPlace, Good, UniqueIn
<1>5. RegisteredInPlace'
  BY <1>2 DEF SeqInv, RegisteredInPlace
<1> QED
  BY <1>3, <1>4, <1>5 DEF SeqInv

LEMMA SeqReplay ==
    ASSUME SeqInv, NoOverlap, IInv', Booting', NEW p \in Procs, Replay(p)
    PROVE  SeqInv'
<1>1. /\ pc[p] = "apply" /\ replay # 0 /\ FreeSlots # {} /\ Launch(replay, want[p][replay])
      /\ UNCHANGED << table, ids, lock, bare, pc, job, want >>
  BY DEF Replay, filed
<1>2. replay \in Absent(p)
  BY <1>1, SeqApplier DEF SeqInv, IInv, ApplyInv, ReplayAbsent
<1> QED
  BY <1>1, <1>2, SeqLaunch

\* Or its name is registered first: the row of every target to start is there.
LEMMA SeqStartOne ==
    ASSUME ~DBFaults, SeqInv, NoOverlap, IInv', Booting', NEW p \in Procs, StartOne(p)
    PROVE  SeqInv'
<1>1. /\ pc[p] = "apply" /\ bare = 0
      /\ UNCHANGED << table, lock, pc, job >>
  BY DEF StartOne, filed
<1>2. /\ Good(table)
      /\ \A i \in DOMAIN want[p] : i \in Id /\ want[p][i].name \in Names
  BY <1>1, ApplierFacts DEF SeqInv, IInv, RequestInv, TypeOK, Good, Target
<1>3. \A i \in DOMAIN want[p] :
         Known(table, want[p][i].name) /\ IdOf(table, want[p][i].name) = i
  <2> SUFFICES ASSUME NEW i \in DOMAIN want[p]
               PROVE  Known(table, want[p][i].name) /\ IdOf(table, want[p][i].name) = i
    OBVIOUS
  <2>1. i \in DOMAIN table /\ table[i].name = want[p][i].name
    BY <1>1, SeqApplier
  <2>2. Known(table, want[p][i].name)
    BY <2>1 DEF Known
  <2> QED
    BY <1>2, <2>1, <2>2, IdOfFacts DEF Good, UniqueIn
<1>4. PICK i \in Absent(p) :
          LET t == want[p][i]
          IN  \/ /\ FreeSlots # {} /\ Launch(i, t)
                 /\ UNCHANGED << store, bare, want >>
              \/ /\ Register(t.name, IdOf(table, t.name))
                 /\ UNCHANGED << live, bare, want >>
              \/ ~Known(table, t.name)
  BY DEF StartOne
<1>5. i \in DOMAIN want[p]
  BY <1>4 DEF Absent
<1> DEFINE t == want[p][i]
<1>6. CASE FreeSlots # {} /\ Launch(i, t) /\ UNCHANGED << store, bare, want >>
  BY <1>1, <1>6, SeqLaunch DEF store
<1>7. CASE /\ Register(t.name, IdOf(table, t.name))
           /\ UNCHANGED << live, bare, want >>
  <2>1. ids' = [ids EXCEPT ![t.name] = i]
    BY <1>3, <1>5, <1>7 DEF Register
  <2>2. Settled' /\ CreatedKnown' /\ ReadIsCurrent' /\ LiveInPlace'
    BY <1>1, <1>7
       DEF SeqInv, Settled, AtRest, CreatedKnown, Known, ReadIsCurrent, ActiveTargets, LiveInPlace
  <2>3. ids \in [Names -> Nat] /\ t.name \in Names
    BY <1>2, <1>5 DEF SeqInv, IInv, RequestInv, TypeOK
  <2>4. RegisteredInPlace'
    <3> SUFFICES ASSUME NEW n \in Names, ids'[n] # 0
                 PROVE  \/ ids'[n] \in DOMAIN live /\ live[ids'[n]].name = n
                        \/ ids'[n] \in DOMAIN want[p] /\ want[p][ids'[n]].name = n
      BY <1>1, <1>7, SeqApplier DEF RegisteredInPlace
    <3>1. CASE n = t.name
      BY <1>5, <2>1, <2>3, <3>1
    <3>2. CASE n # t.name
      <4>1. ids'[n] = ids[n]
        BY <2>1, <2>3, <3>2
      <4> QED
        BY <1>1, <4>1, SeqApplier DEF SeqInv, RegisteredInPlace
    <3> QED
      BY <3>1, <3>2
  <2> QED
    BY <1>1, <1>7, <2>2, <2>4 DEF SeqInv
<1> QED
  BY <1>3, <1>4, <1>5, <1>6, <1>7

\* apply returns: nothing stale, nothing absent, so what is wanted is what runs.
LEMMA SeqRelease ==
    ASSUME SeqInv, NoOverlap, IInv', Booting', NEW p \in Procs, Release(p)
    PROVE  SeqInv'
<1>1. /\ pc[p] = "apply" /\ Stale(p) = {} /\ Absent(p) = {}
      /\ lock' = NoProc /\ pc' = [pc EXCEPT ![p] = "idle"]
      /\ UNCHANGED << table, live, ids, bare, replay >>
  BY DEF Release, Reply, Goto, filed, store
<1>2. \A q \in Procs : pc'[q] = "idle"
  BY <1>1, SeqApplier DEF SeqInv, IInv, RequestInv, TypeOK
<1>3. ReadIsCurrent' /\ CreatedKnown'
  BY <1>2 DEF ReadIsCurrent, CreatedKnown
<1>4. /\ DOMAIN live = DOMAIN want[p]
      /\ \A i \in DOMAIN live : want[p][i] = [name |-> live[i].name, cfg |-> live[i].cfg]
      /\ \A i \in DOMAIN live : want[p][i].name = live[i].name
  <2>1. \A i \in DOMAIN live : /\ i \in DOMAIN want[p]
                              /\ want[p][i] = [name |-> live[i].name, cfg |-> live[i].cfg]
    BY <1>1 DEF Stale
  <2>2. \A i \in DOMAIN want[p] : i \in DOMAIN live
    BY <1>1 DEF Absent
  <2>3. DOMAIN live = DOMAIN want[p]
    BY <2>1, <2>2, Zenon
  <2>4. \A i \in DOMAIN live : want[p][i].name = live[i].name
    <3> SUFFICES ASSUME NEW i \in DOMAIN live
                 PROVE  want[p][i].name = live[i].name
      OBVIOUS
    <3>1. want[p][i] = [name |-> live[i].name, cfg |-> live[i].cfg]
      BY <2>1
    <3> QED
      BY <3>1
  <2> QED
    BY <2>1, <2>3, <2>4
<1>5. LiveTargets = ActiveTargets(table)
  <2>1. want[p] = [i \in DOMAIN want[p] |-> want[p][i]]
    BY <1>1, SeqApplier DEF ActiveTargets
  <2> QED
    BY <1>1, <1>4, <2>1, SeqApplier DEF LiveTargets
<1>6. Settled'
  BY <1>1, <1>5 DEF Settled, LiveTargets, ActiveTargets
<1>7. LiveInPlace'
  BY <1>1 DEF SeqInv, LiveInPlace
<1>8. RegisteredInPlace'
  <2> SUFFICES ASSUME NEW n \in Names, ids[n] # 0
               PROVE  ids[n] \in DOMAIN live /\ live[ids[n]].name = n
    BY <1>1 DEF RegisteredInPlace
  <2>1. \/ ids[n] \in DOMAIN live /\ live[ids[n]].name = n
        \/ ids[n] \in DOMAIN want[p] /\ want[p][ids[n]].name = n
    BY <1>1, SeqApplier DEF SeqInv, RegisteredInPlace
  <2> QED
    BY <1>4, <2>1
<1> QED
  BY <1>1, <1>3, <1>6, <1>7, <1>8 DEF SeqInv

\* The boot sequence, by every step.
LEMMA BootingKept ==
    ASSUME SeqInv, IInv', [Next]_vars
    PROVE  Booting'
<1>1. /\ TypeOK /\ Main \in Procs /\ Main \notin Handlers /\ Handlers \subseteq Procs
      /\ \A p \in Procs : p = Main \/ p \in Handlers
  BY RunnerAssumption DEF Procs, SeqInv, IInv, RequestInv
<1>2. ASSUME NEW p \in Handlers, Receive(p) \/ Handle(p)
      PROVE  Booting'
  <2>1. /\ pc[p] # "apply" /\ up' = up /\ live' = live
        /\ pc'[Main] = pc[Main]
        /\ up \/ pc[p] # "idle"
        /\ \A q \in Handlers \ {p} : pc'[q] = pc[q]
    <3>1. \E l : pc' = [pc EXCEPT ![p] = l]
      BY <1>2 DEF Receive, Handle, Targets, Plan, Commit, SelectId, CreateTarget, UpdateTarget,
                  DeactivateTarget, ImportTargets, Refused, Committed, Reply, Goto
    <3>2. p # Main /\ p \in Procs
      BY <1>1
    <3>3. pc'[Main] = pc[Main] /\ \A q \in Handlers \ {p} : pc'[q] = pc[q]
      BY <1>1, <3>1, <3>2 DEF TypeOK
    <3> QED
      BY <1>2, <3>3 DEF Receive, Handle, Targets, Plan, Commit, SelectId
  <2> QED
    BY <2>1 DEF SeqInv, Booting
<1>3. ASSUME NEW p \in Procs, Reload(p), p # Main
      PROVE  Booting'
  <2>1. pc[p] # "idle" /\ up' = up /\ \E l : pc' = [pc EXCEPT ![p] = l]
    <3>1. ReadActive(p) \/ ReadFails(p) \/ Acquire(p) \/ Release(p) => \E l : pc' = [pc EXCEPT ![p] = l]
      BY DEF ReadActive, ReadFails, Acquire, Release, Reply, Goto
    <3>2. StopOne(p) \/ StartOne(p) \/ InsertBare(p) \/ Replay(p) => pc' = [pc EXCEPT ![p] = pc[p]]
      BY <1>1 DEF StopOne, StartOne, InsertBare, Replay, TypeOK
    <3>3. up' = up
      BY <1>1, <1>3, Zenon DEF Reload, ReadActive, ReadFails, Acquire, Release, StopOne, StartOne, InsertBare, Replay, TypeOK
    <3> QED
      BY <1>3, <3>1, <3>2, <3>3 DEF Reload, ReadActive, ReadFails, Acquire, Release, StopOne, StartOne, InsertBare, Replay
  <2>2. pc'[Main] = pc[Main] /\ up
    BY <1>1, <1>3, <2>1 DEF TypeOK, SeqInv, Booting
  <2> QED
    BY <2>1, <2>2 DEF SeqInv, Booting
<1>4. ASSUME Reload(Main)
      PROVE  Booting'
  <2>1. pc[Main] \in {"read", "lock", "apply"}
    BY <1>4 DEF Reload, ReadActive, ReadFails, Acquire, Release, StopOne, StartOne, InsertBare, Replay
  <2>2. \A q \in Handlers : pc'[q] = pc[q] /\ pc[q] = "idle"
    BY <1>1, <1>4, <2>1 DEF TypeOK, SeqInv, Booting, Reload, ReadActive, ReadFails, Acquire, Release, Reply, Goto,
                       StopOne, StartOne, InsertBare, Replay
  <2>3. CASE Release(Main)
    BY <1>1, <2>2, <2>3 DEF Release, Reply, Goto, TypeOK, Booting
  <2>4. CASE ~Release(Main)
    <3>1. up' = up /\ pc'[Main] \in {"lock", "apply"}
      BY <1>1, <1>4, <2>4 DEF TypeOK, Reload, ReadActive, ReadFails, Acquire, Goto,
                         StopOne, StartOne, InsertBare, Replay
    <3> QED
      BY <2>1, <2>2, <3>1 DEF SeqInv, Booting
  <2> QED
    BY <2>3, <2>4
<1>5. ASSUME NEW k \in Slots, Round(k) \/ Tick(k) \/ Exit(k)
      PROVE  Booting'
  BY <1>5 DEF Round, Tick, Exit, SeqInv, Booting
<1>6. CASE Seed
  BY <1>1, <1>6 DEF Seed, Goto, TypeOK, SeqInv, Booting
<1>7. CASE Crash
  BY <1>1, <1>7 DEF Crash, StartPC, Nothing, Booting
<1>8. CASE UNCHANGED vars
  BY <1>8 DEF vars, SeqInv, Booting
<1> QED
  BY <1>1, <1>2, <1>3, <1>4, <1>5, <1>6, <1>7, <1>8 DEF Next

\* A process that has just started.
LEMMA FreshSequential == Fresh => SeqInv
<1> SUFFICES ASSUME Fresh PROVE SeqInv
  OBVIOUS
<1>1. /\ Main \in Procs /\ Main \notin Handlers /\ Handlers \subseteq Procs
  BY RunnerAssumption DEF Procs
<1>2. Booting
  BY <1>1 DEF Fresh, StartPC, Booting, Nothing
<1>3. Settled /\ ReadIsCurrent /\ CreatedKnown
  BY <1>1 DEF Fresh, StartPC, Settled, AtRest, ReadIsCurrent, CreatedKnown
<1>4. LiveInPlace /\ RegisteredInPlace /\ bare = 0
  BY DEF Fresh, Nothing, NoIds, LiveInPlace, RegisteredInPlace
<1> QED
  BY <1>2, <1>3, <1>4, FreshProcess DEF SeqInv

LEMMA FreshSequentialNext == Fresh' => SeqInv'
BY FreshSequential, PTL

\* Every step of a program whose requests do not overlap and whose statements
\* do not fail.
LEMMA SeqStep ==
    ASSUME ~DBFaults, SeqInv, NoOverlap, [Next]_vars
    PROVE  SeqInv'
<1>1. IInv'
  BY StepPreserves DEF SeqInv
<1>2. Booting'
  BY <1>1, BootingKept
<1>3. ASSUME NEW p \in Handlers, Receive(p)
      PROVE  SeqInv'
  <2>1. PICK l \in {"targets", "plan", "commit"} : Goto(p, l)
    <3>1. PICK j \in Jobs : Goto(p, CASE j.op = "import" -> "plan"
                                    [] j.op = "delete" -> "targets"
                                    [] OTHER -> "commit")
      BY <1>3 DEF Receive
    <3>2. CASE j.op = "import"
      BY <3>1, <3>2
    <3>3. CASE j.op = "delete"
      BY <3>1, <3>3
    <3>4. CASE j.op \notin {"import", "delete"}
      BY <3>1, <3>4
    <3> QED
      BY <3>2, <3>3, <3>4
  <2>2. p \in Procs /\ pc[p] = "idle" /\ UNCHANGED << table, live, ids, lock, bare, replay, want >>
    BY <1>3 DEF Receive, filed, store, Procs
  <2>3. \A q \in Procs \ {p} : job'[q] = job[q]
    BY <1>3 DEF Receive, SeqInv, IInv, RequestInv, TypeOK
  <2> QED
    BY <1>1, <1>2, <2>1, <2>2, <2>3, QuietMoveKeeps
<1>4. ASSUME NEW p \in Handlers, Plan(p)
      PROVE  SeqInv'
  <2>1. \E l \in {"idle", "commit"} : Goto(p, l)
    BY <1>4 DEF Plan, Reply
  <2>2. p \in Procs /\ pc[p] = "plan" /\ UNCHANGED << table, live, ids, lock, bare, replay >>
    BY <1>4 DEF Plan, filed, store, Procs
  <2>3. \A q \in Procs \ {p} : job'[q] = job[q] /\ want'[q] = want[q]
    BY <1>4 DEF Plan, Reply, SeqInv, IInv, RequestInv, TypeOK
  <2> QED
    BY <1>1, <1>2, <2>1, <2>2, <2>3, QuietMoveKeeps
<1>5. ASSUME NEW p \in Handlers, Commit(p)
      PROVE  SeqInv'
  <2>1. p \in Procs /\ pc[p] = "commit" /\ UNCHANGED << live, ids, lock, bare, replay >>
    BY <1>5 DEF Commit, store, Procs
  <2>2. CASE Reply(p) /\ table' = table
    <3>1. \A q \in Procs \ {p} : job'[q] = job[q] /\ want'[q] = want[q]
      BY <2>2 DEF Reply, SeqInv, IInv, RequestInv, TypeOK
    <3> QED
      BY <1>1, <1>2, <2>1, <2>2, <3>1, QuietMoveKeeps DEF Reply
  <2>3. CASE /\ NamesStay(table, table')
             /\ UNCHANGED << job, want >>
             /\ \/ Goto(p, "read")
                \/ Goto(p, "select") /\ Known(table', job[p].name)
    BY <1>1, <1>2, <2>1, <2>3, EditKeeps
  <2> QED
    BY <1>5, <2>2, <2>3, CommitNamesStay DEF SeqInv
<1>6. ASSUME NEW p \in Handlers, SelectId(p)
      PROVE  SeqInv'
  <2>1. p \in Procs /\ pc[p] = "select" /\ UNCHANGED << table, live, ids, lock, bare, replay >>
    BY <1>6 DEF SelectId, filed, store, Procs
  <2>2. Known(table, job[p].name)
    BY <2>1 DEF SeqInv, CreatedKnown
  <2>3. Goto(p, "read") /\ UNCHANGED << job, want >>
    BY <1>6, <2>2 DEF SelectId
  <2> QED
    BY <1>1, <1>2, <2>1, <2>3, QuietMoveKeeps
<1>7. ASSUME NEW p \in Procs, ReadActive(p)
      PROVE  SeqInv'
  <2>1. /\ pc[p] = "read" /\ pc' = [pc EXCEPT ![p] = "lock"]
        /\ want' = [want EXCEPT ![p] = ActiveTargets(table)]
        /\ UNCHANGED << table, live, ids, lock, bare, replay, job >>
    BY <1>7 DEF ReadActive, Goto, filed, store
  <2>2. /\ pc'[p] = "lock" /\ want'[p] = ActiveTargets(table)
        /\ \A q \in Procs \ {p} : pc'[q] = "idle" /\ want'[q] = want[q]
    BY <2>1, OneBusy DEF SeqInv, IInv, RequestInv, TypeOK
  <2>3. Settled' /\ CreatedKnown'
    BY <2>2 DEF Settled, AtRest, CreatedKnown
  <2>4. ReadIsCurrent'
    BY <2>1, <2>2 DEF ReadIsCurrent, ActiveTargets
  <2>5. LiveInPlace'
    BY <2>1 DEF SeqInv, LiveInPlace
  <2>6. RegisteredInPlace'
    <3>1. lock # NoProc => lock \in Procs \ {p}
      BY <2>1, HolderApplies DEF SeqInv, IInv, RequestInv, TypeOK
    <3> QED
      BY <2>1, <2>2, <3>1 DEF SeqInv, RegisteredInPlace
  <2> QED
    BY <1>1, <1>2, <2>1, <2>3, <2>4, <2>5, <2>6 DEF SeqInv
<1>8. ASSUME NEW p \in Procs, Reload(p)
      PROVE  SeqInv'
  <2>1. ~ReadFails(p) /\ ~InsertBare(p)
    BY DEF ReadFails, InsertBare, SeqInv
  <2> QED
    BY <1>1, <1>2, <1>7, <1>8, <2>1, SeqAcquire, SeqStopOne, SeqStartOne, SeqReplay, SeqRelease DEF Reload
<1>9. ASSUME NEW k \in Slots, Round(k) \/ Tick(k) \/ Exit(k)
      PROVE  SeqInv'
  <2>1. UNCHANGED << table, live, ids, lock, bare, replay, pc, job, want >>
    BY <1>9 DEF Round, Tick, Exit, filed, store
  <2>2. Settled' /\ ReadIsCurrent' /\ CreatedKnown'
    BY <2>1 DEF SeqInv, Settled, AtRest, LiveTargets, ActiveTargets, ReadIsCurrent, CreatedKnown, Known
  <2>3. LiveInPlace' /\ RegisteredInPlace'
    BY <2>1 DEF SeqInv, LiveInPlace, RegisteredInPlace
  <2> QED
    BY <1>1, <1>2, <2>1, <2>2, <2>3 DEF SeqInv
<1>10. CASE Seed
  <2>1. /\ Main \in Procs /\ pc[Main] = "seed" /\ Goto(Main, "read")
        /\ UNCHANGED << live, ids, lock, bare, replay, job, want >>
    BY <1>10 DEF Seed, store, Procs
  <2>2. DOMAIN live = {}
    BY <2>1 DEF SeqInv, Booting
  <2> QED
    BY <1>1, <1>2, <2>1, <2>2, EditKeeps
<1>11. CASE Crash
  <2>1. Fresh'
    BY <1>11 DEF Crash, Fresh, SeqInv, IInv, RequestInv, TypeOK
  <2> QED
    BY <2>1, FreshSequentialNext
<1>12. CASE UNCHANGED vars
  <2>1. UNCHANGED << table, live, ids, lock, bare, replay, pc, job, want >>
    BY <1>12 DEF vars
  <2>2. Settled' /\ ReadIsCurrent' /\ CreatedKnown'
    BY <2>1 DEF SeqInv, Settled, AtRest, LiveTargets, ActiveTargets, ReadIsCurrent, CreatedKnown, Known
  <2>3. LiveInPlace' /\ RegisteredInPlace'
    BY <2>1 DEF SeqInv, LiveInPlace, RegisteredInPlace
  <2> QED
    BY <1>1, <1>2, <2>1, <2>2, <2>3 DEF SeqInv
<1>13. ASSUME NEW p \in Handlers, Targets(p)
       PROVE  SeqInv'
  <2>1. /\ p \in Procs /\ pc[p] = "targets" /\ Goto(p, "commit")
        /\ UNCHANGED << table, live, ids, lock, bare, replay, job, want >>
    BY <1>13 DEF Targets, filed, store, Procs
  <2> QED
    BY <1>1, <1>2, <2>1, QuietMoveKeeps
<1> QED
  BY <1>3, <1>4, <1>5, <1>6, <1>8, <1>9, <1>10, <1>11, <1>12, <1>13 DEF Next, Handle

LEMMA SequentialInvariance ==
    ASSUME ~DBFaults
    PROVE  Spec /\ []NoOverlap => []SeqInv
<1>1. Init => SeqInv
  BY FreshSequential DEF Init, Fresh, UniqueIn
<1>2. SeqInv /\ NoOverlap /\ [Next]_vars => SeqInv'
  BY SeqStep
<1> QED
  BY <1>1, <1>2, PTL DEF Spec

\* docs/GUIDE.md, "Changes take effect immediately, without a restart": so they
\* do, for any number of targets, edits and crashes, as long as each edit waits
\* for the answer to the one before and the database answers.
THEOREM EditsTakeEffect ==
    ASSUME ~DBFaults
    PROVE  Spec /\ []NoOverlap => []Applied
<1>1. SeqInv => Applied
  BY DEF SeqInv, Settled, AtRest, Applied, Quiet
<1> QED
  BY <1>1, SequentialInvariance, PTL

\* docs/GUIDE.md, names kept apart "so two histories are never merged": outside
\* apply no two names are registered for one row.
THEOREM NamesKeptApart ==
    ASSUME ~DBFaults
    PROVE  Spec /\ []NoOverlap => []OneNamePerRow
<1>1. SeqInv => OneNamePerRow
  BY DEF SeqInv, RegisteredInPlace, OneNamePerRow
<1> QED
  BY <1>1, SequentialInvariance, PTL

\* probe.go, store.go: a loop that is meant to run files under its own row.
LEMMA RunningLoopsFile ==
    ASSUME SeqInv, NEW k \in Slots, Round(k), ~loops[k].stop, ids[loops[k].name] # 0
    PROVE  ids[loops[k].name] = loops[k].id
<1> DEFINE n == loops[k].name
           i == loops[k].id
<1>1. /\ loops[k] # NoLoop /\ n \in Names
  BY DEF Round, SeqInv, IInv, RequestInv, TypeOK, Loop
<1>2. i \in DOMAIN live /\ live[i].name = n
  BY <1>1 DEF SeqInv, IInv, StoreInv, OneRunningLoop
<1>3. CASE ids[n] \in DOMAIN live /\ live[ids[n]].name = n
  BY <1>2, <1>3 DEF SeqInv, IInv, StoreInv, DistinctNames
<1>4. CASE lock # NoProc /\ ids[n] \in DOMAIN want[lock] /\ want[lock][ids[n]].name = n
  <2>1. lock \in Procs /\ pc[lock] = "apply"
    BY <1>4 DEF SeqInv, IInv, RequestInv, TypeOK
  <2>2. want[lock] = ActiveTargets(table)
    BY <2>1 DEF SeqInv, ReadIsCurrent
  <2>3. \A j \in DOMAIN want[lock] : j \in DOMAIN table /\ want[lock][j].name = table[j].name
    BY <2>2, ActiveFields
  <2>4. ids[n] \in DOMAIN table /\ table[ids[n]].name = n
    BY <1>4, <2>3
  <2> QED
    BY <1>2, <2>4 DEF SeqInv, LiveInPlace
<1> QED
  BY <1>1, <1>3, <1>4 DEF SeqInv, RegisteredInPlace

\* A round is misfiled only by a loop that was told to stop while measuring.
THEOREM RunningLoopsNeverMisfile ==
    ASSUME ~DBFaults
    PROVE  Spec /\ []NoOverlap => OnlyStoppedLoopsMisfile
<1> DEFINE Filed == \A h \in hist' \ hist :
              h[1] = h[2] \/ \E k \in Slots : /\ loops[k] # NoLoop /\ loops[k].stop
                                            /\ loops[k].id = h[2] /\ loops'[k] # loops[k]
<1>1. SeqInv /\ [Next]_vars => Filed
  <2> SUFFICES ASSUME SeqInv, [Next]_vars, NEW h \in hist', h \notin hist
               PROVE  h[1] = h[2] \/ \E k \in Slots : /\ loops[k] # NoLoop /\ loops[k].stop
                                                    /\ loops[k].id = h[2] /\ loops'[k] # loops[k]
    OBVIOUS
  <2>1. PICK k \in Slots : Round(k)
    BY DEF Next, vars, filed, Receive, Handle, Targets, Plan, Commit, SelectId, Reload, ReadActive,
           ReadFails, Acquire, StopOne, StartOne, InsertBare, Replay, Release, Tick, Exit, Seed, Crash
  <2>2. h = << ids[loops[k].name], loops[k].id >> /\ ids[loops[k].name] # 0
    BY <2>1 DEF Round
  <2>3. loops[k] # NoLoop /\ loops'[k] # loops[k]
    <3>1. loops[k] # NoLoop /\ loops[k].pc = "probe" /\ loops[k] \in Loop
      BY <2>1 DEF Round, SeqInv, IInv, RequestInv, TypeOK
    <3>2. loops' = [loops EXCEPT ![k].pc = "wait"]
      BY <2>1 DEF Round
    <3>3. loops'[k].pc = "wait"
      BY <3>1, <3>2 DEF SeqInv, IInv, RequestInv, TypeOK, Loop
    <3> QED
      BY <3>1, <3>3
  <2>4. CASE loops[k].stop
    BY <2>2, <2>3, <2>4
  <2>5. CASE ~loops[k].stop
    BY <2>1, <2>2, <2>5, RunningLoopsFile
  <2> QED
    BY <2>4, <2>5
<1>2. Spec /\ []NoOverlap => [][Filed]_vars
  BY <1>1, SequentialInvariance, PTL DEF Spec
<1> QED
  BY <1>2 DEF OnlyStoppedLoopsMisfile

\* In particular, with a single goroutine serving write requests.
COROLLARY OneOperator ==
    ASSUME ~DBFaults, \A g, h \in Handlers : g = h
    PROVE  Spec => [](Applied /\ OneNamePerRow)
<1>1. NoOverlap
  BY DEF NoOverlap
<1> QED
  BY <1>1, EditsTakeEffect, NamesKeptApart, PTL
=============================================================================
