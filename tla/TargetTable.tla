---------------------------- MODULE TargetTable ----------------------------
(***************************************************************************)
(* The `targets' table of targets.go and store.go as a value: a sequence    *)
(* of rows whose position is the row id (AUTOINCREMENT ids only grow and a  *)
(* row is never deleted).  A row holds the target's unique name, its        *)
(* configuration (type, host, port, pace and interval as one value) and     *)
(* whether it is active.  A deleted target stays as an inactive row.        *)
(*                                                                         *)
(* Each SQL statement the program runs on the table is one operator; the    *)
(* modules that EXTEND this one say who runs which statement when.          *)
(***************************************************************************)
EXTENDS Naturals, Sequences, FiniteSets, Functions

CONSTANTS Names,    \* target names
          Cfgs,     \* type, host, port, pace, interval: one value per combination
          NoCfg     \* the column defaults a bare `INSERT INTO targets(name)' leaves

ASSUME TableAssumption == NoCfg \notin Cfgs

Row == [name : Names, cfg : Cfgs \cup {NoCfg}, active : BOOLEAN]

\* What ActiveTargets returns of a row, and what the runner keeps of a target.
Target == [name : Names, cfg : Cfgs \cup {NoCfg}]

Known(tb, n) == \E i \in DOMAIN tb : tb[i].name = n

\* SELECT id FROM targets WHERE name = ?
IdOf(tb, n) == CHOOSE i \in DOMAIN tb : tb[i].name = n

\* The name belongs to an active target: the case an upsert refuses.
Taken(tb, n) == \E i \in DOMAIN tb : tb[i].name = n /\ tb[i].active

\* The UNIQUE constraint on the name column.
UniqueIn(tb) == \A i, j \in DOMAIN tb : tb[i].name = tb[j].name => i = j

ActiveTargets(tb) ==
    [i \in {j \in DOMAIN tb : tb[j].active} |-> [name |-> tb[i].name, cfg |-> tb[i].cfg]]

NewRow(n, c, a) == [name |-> n, cfg |-> c, active |-> a]

\* upsertTarget: a new name is inserted, a known one gets the new configuration
\* and becomes active again, so its history resumes under the same id.  (Mutated
\* form: without ON CONFLICT, in a table without UNIQUE.)
Upsert_Insert(tb, n, c) == Append(tb, NewRow(n, c, TRUE))
Upsert(tb, n, c) ==
    IF Known(tb, n)
    THEN [tb EXCEPT ![IdOf(tb, n)] = NewRow(n, c, TRUE)]
    ELSE Append(tb, NewRow(n, c, TRUE))

\* UPDATE ... WHERE id=? AND active=1 changes a row, and the new name breaks no
\* UNIQUE constraint (an active holder is errNameTaken, an inactive one
\* errNameDeleted; no row matched is errNotFound).  (Mutated form: without active=1.)
Updatable_Inactive(tb, i, n) ==
    i \in DOMAIN tb /\ \A j \in DOMAIN tb \ {i} : tb[j].name # n
Updatable(tb, i, n) ==
    i \in DOMAIN tb /\ tb[i].active /\ \A j \in DOMAIN tb \ {i} : tb[j].name # n

Update(tb, i, n, c) == [tb EXCEPT ![i] = NewRow(n, c, TRUE)]

\* DeactivateTarget: the row and its name stay.
Deactivate(tb, i) == [tb EXCEPT ![i].active = FALSE]

\* ImportTargets: the upsert for every name of a batch in one transaction.  The
\* order of the file decides only the ids of the new rows: any order of them.
FreshNames(tb, B) == {n \in B : ~Known(tb, n)}

Orders(S) == {o \in [1 .. Cardinality(S) -> S] : IsInjective(o)}

Restored(tb, B, c) ==
    [i \in DOMAIN tb |-> IF tb[i].name \in B THEN NewRow(tb[i].name, c, TRUE) ELSE tb[i]]

Imported(tb, B, c, order) ==
    Restored(tb, B, c) \o [k \in 1 .. Len(order) |-> NewRow(order[k], c, TRUE)]

\* EnsureTarget's INSERT INTO targets(name): an inactive row without configuration.
BareRow(tb, n) == Append(tb, NewRow(n, NoCfg, FALSE))
-----------------------------------------------------------------------------
\* How one row may change: not at all, edited while active, deleted, or
\* reactivated.  Only an edit changes the name; a deleted row keeps it.
Evolves(old, new) ==
    \/ new = old
    \/ old.active /\ new.active
    \/ old.active /\ ~new.active /\ new.name = old.name /\ new.cfg = old.cfg
    \/ ~old.active /\ new.active /\ new.name = old.name

\* How the table may change: rows evolve, rows are added, and no two rows,
\* deleted ones included, share a name.
Grows(tb, tb2) ==
    /\ tb2 \in Seq(Row)
    /\ Len(tb) =< Len(tb2)
    /\ \A i \in DOMAIN tb : Evolves(tb[i], tb2[i])
    /\ UniqueIn(tb2)
=============================================================================
