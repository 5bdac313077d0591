------------------------------- MODULE Import -------------------------------
(***************************************************************************)
(* The import of a target list (targetsio.go, targets.go) while other       *)
(* handlers edit the table: read of the names, plan, one transaction with   *)
(* an upsert per accepted row, answer.  Module Runner has the Reload that   *)
(* follows.                                                                 *)
(*                                                                         *)
(* The transaction takes SQLite's write lock with its first upsert, works   *)
(* on a copy until it commits, and no other statement writes meanwhile.     *)
(***************************************************************************)
EXTENDS TargetTable, TargetFile

CONSTANTS Requests,    \* targets as the editor sends them
          Files,       \* uploaded files
          MaxEdits,    \* bound: statements of other handlers
          MaxImports,  \* bound: files uploaded
          DBFaults     \* whether a statement of the import may fail

ASSUME ImportAssumption ==
    MaxEdits \in Nat /\ MaxImports \in Nat /\ DBFaults \in BOOLEAN

\* Names and Cfgs hold what accepted requests and rows come to; a name that has been
\* trimmed has no blank in front.
Fits(t) == Normal(t) \in [name : Names, cfg : Cfgs] /\ Trim(NameOf(t)) = NameOf(t)

ASSUME InputAssumption ==
    /\ \A t \in Requests : Valid(t) => Fits(t)
    /\ \A f \in Files :
          /\ Len(f.rows) \in Nat /\ DOMAIN f.rows = 1 .. Len(f.rows)
          /\ \A k \in DOMAIN f.rows : RowValid(f.rows[k]) => Fits(FromRow(f.rows[k]))

VARIABLES
    table,
    renamed,   \* names renames have freed: a Reload that read a row before still holds them
    pc,        \* the import: no request, file received, rows planned, transaction begun
    file, existing, plan,
    tx,        \* the transaction's copy of the table
    next,      \* the row of the plan to upsert next
    answer,    \* to the last request
    wrote,     \* history: names this import has put into the table
    before,    \* history: the table when the transaction began
    touched,   \* history: names other handlers have touched since the names were read
    edits, imports

work == << file, existing, plan >>
vars == << table, renamed, pc, work, tx, next, answer, wrote, before, touched, edits, imports >>

NoFile == [format |-> FALSE, version |-> 0, rows |-> << >>]

Init ==
    /\ table = << >> /\ renamed = {} /\ pc = "idle"
    /\ file = NoFile /\ existing = << >> /\ plan = NoPlan
    /\ tx = << >> /\ next = 1 /\ answer = "none"
    /\ wrote = {} /\ before = << >> /\ touched = {}
    /\ edits = 0 /\ imports = 0
-----------------------------------------------------------------------------
(***************************************************************************)
(* Other handlers: their statements, of which module Runner has the rest.   *)
(***************************************************************************)
Edit(names, tb) ==
    /\ pc # "exec" /\ edits < MaxEdits
    /\ edits' = edits + 1
    /\ table' = tb
    /\ touched' = touched \cup names
    /\ UNCHANGED << pc, work, tx, next, answer, wrote, before, imports >>

Create(t) ==
    /\ Valid(t) /\ ~Taken(table, Normal(t).name)
    /\ Edit({Normal(t).name}, Upsert(table, Normal(t).name, Normal(t).cfg))
    /\ UNCHANGED renamed

UpdateTarget(i, t) ==
    /\ Valid(t) /\ Updatable(table, i, Normal(t).name)
    /\ Edit({table[i].name, Normal(t).name}, Update(table, i, Normal(t).name, Normal(t).cfg))
    /\ renamed' = renamed \cup ({table[i].name} \ {Normal(t).name})

Delete(i) ==
    /\ table[i].active
    /\ Edit({table[i].name}, Deactivate(table, i))
    /\ UNCHANGED renamed

\* EnsureTarget in a Reload that read the row before it was renamed: the old name,
\* which no row has any more, gets a bare inactive row.
EnsureTarget(n) ==
    /\ ~Known(table, n)
    /\ Edit({n}, BareRow(table, n))
    /\ UNCHANGED renamed

Others ==
    \/ \E t \in Requests : Create(t) \/ \E i \in DOMAIN table : UpdateTarget(i, t)
    \/ \E i \in DOMAIN table : Delete(i)
    \/ \E n \in renamed : EnsureTarget(n)
-----------------------------------------------------------------------------
(***************************************************************************)
(* The import.                                                              *)
(***************************************************************************)
\* The active targets in the order of their ids.
Listed(tb) ==
    LET active == {i \in DOMAIN tb : tb[i].active}
        ids == CHOOSE s \in [1 .. Cardinality(active) -> active] : \A j, k \in DOMAIN s : j < k => s[j] < s[k]
    IN  [k \in DOMAIN ids |-> [name |-> tb[ids[k]].name, cfg |-> tb[ids[k]].cfg]]

\* A file is uploaded: any of Files, or what the export of the present list was.
Upload ==
    /\ pc = "idle" /\ imports < MaxImports
    /\ imports' = imports + 1
    /\ file' \in Files \cup {Export(Listed(table))}
    /\ pc' = "names" /\ answer' = "none"
    /\ wrote' = {} /\ plan' = NoPlan
    /\ UNCHANGED << table, renamed, existing, tx, next, before, touched, edits >>

\* Every known name, and whether it is active.
TargetNames == [n \in {table[i].name : i \in DOMAIN table} |-> Taken(table, n)]

ReadNames ==
    /\ pc = "names"
    /\ existing' = TargetNames /\ touched' = {}
    /\ pc' = "plan"
    /\ UNCHANGED << table, renamed, file, plan, tx, next, answer, wrote, before, edits, imports >>

Answer(a) == pc' = "idle" /\ answer' = a

\* planImport; a refused file, a dry run and a file that adds nothing end here.
PlanFile ==
    /\ pc = "plan"
    /\ IF FileRefused(file) THEN Answer("refused") /\ UNCHANGED plan
       ELSE /\ plan' = Plan(file.rows, existing)
            /\ \/ Answer("preview")
               \/ IF plan'.add = << >> THEN Answer("imported") ELSE pc' = "begin" /\ UNCHANGED answer
    /\ UNCHANGED << table, renamed, file, existing, tx, next, wrote, before, touched, edits, imports >>

\* Another request takes the table's place at any time until the first upsert.
Begin ==
    /\ pc = "begin"
    /\ pc' = "exec" /\ tx' = table /\ before' = table /\ next' = 1
    /\ UNCHANGED << table, renamed, work, answer, wrote, touched, edits, imports >>

\* One upsert; it refuses an active name, and with it the batch.  (Mutated forms:
\* it overwrites the active target; each upsert commits for itself.)
Exec_Overwrite ==
    /\ pc = "exec" /\ next =< Len(plan.add)
    /\ LET t == plan.add[next].target
       IN  /\ tx' = Upsert(tx, t.name, t.cfg)
           /\ next' = next + 1
    /\ UNCHANGED << table, renamed, pc, work, answer, wrote, before, touched, edits, imports >>
Exec_Autocommit ==
    /\ pc = "exec" /\ next =< Len(plan.add)
    /\ LET t == plan.add[next].target
       IN  IF Taken(tx, t.name) THEN Answer("conflict") /\ UNCHANGED << table, tx, next, wrote >>
           ELSE /\ tx' = Upsert(tx, t.name, t.cfg) /\ table' = tx' /\ wrote' = wrote \cup {t.name}
                /\ next' = next + 1
                /\ UNCHANGED << pc, answer >>
    /\ UNCHANGED << renamed, work, before, touched, edits, imports >>
Exec ==
    /\ pc = "exec" /\ next =< Len(plan.add)
    /\ LET t == plan.add[next].target
       IN  IF Taken(tx, t.name) THEN Answer("conflict") /\ UNCHANGED << tx, next >>
           ELSE /\ tx' = Upsert(tx, t.name, t.cfg)
                /\ next' = next + 1
                /\ UNCHANGED << pc, answer >>
    /\ UNCHANGED << table, renamed, work, wrote, before, touched, edits, imports >>

Adds == {plan.add[k].target.name : k \in DOMAIN plan.add}

Commit ==
    /\ pc = "exec" /\ next > Len(plan.add)
    /\ table' = tx /\ wrote' = Adds
    /\ Answer("imported")
    /\ UNCHANGED << renamed, work, tx, next, before, touched, edits, imports >>

\* A statement or the commit fails: the deferred Rollback undoes the transaction.
Fail ==
    /\ DBFaults /\ pc \in {"names", "begin", "exec"}
    /\ Answer("failed")
    /\ UNCHANGED << table, renamed, work, tx, next, wrote, before, touched, edits, imports >>

\* The process is killed; SQLite rolls back.
Crash ==
    /\ DBFaults /\ pc # "idle"
    /\ Answer("none") /\ renamed' = {}
    /\ UNCHANGED << table, work, tx, next, wrote, before, touched, edits, imports >>

Next ==
    \/ Others
    \/ Upload \/ ReadNames \/ PlanFile \/ Begin \/ Exec \/ Commit \/ Fail \/ Crash

Spec == Init /\ [][Next]_vars
-----------------------------------------------------------------------------
(***************************************************************************)
(* Properties.                                                              *)
(***************************************************************************)
Rows == file.rows
SeqSet(s) == {s[k] : k \in DOMAIN s}

\* planImport's result lists the rows to add.
PlanIsList == Len(plan.add) \in Nat /\ DOMAIN plan.add = 1 .. Len(plan.add)

\* Every variable has its type, and names stay unique.
TypeOK ==
    /\ PlanIsList
    /\ table \in Seq(Row) /\ UniqueIn(table)
    /\ tx \in Seq(Row) /\ UniqueIn(tx)
    /\ pc \in {"idle", "names", "plan", "begin", "exec"}
    /\ answer \in {"none", "refused", "preview", "conflict", "failed", "imported"}
    /\ next \in 1 .. Len(plan.add) + 1 \/ pc # "exec"
    /\ wrote \subseteq Names /\ touched \subseteq Names

\* targetsio.go:156-157: planImport "sorts every row into add, skip or invalid".
\* Said without an order of reading: a row is invalid for itself; of the valid rows
\* of a name the first is added, unless that name is active; and the others are
\* duplicates, whatever lies between them.
FirstOfName(k) ==
    \A j \in 1 .. k - 1 : RowValid(Rows[j]) => RowTarget(Rows[j]).name # RowTarget(Rows[k]).name

PlanRight ==
    plan # NoPlan =>
        LET valid == {k \in DOMAIN Rows : RowValid(Rows[k])}
            firsts == {k \in valid : FirstOfName(k)}
            active == {k \in firsts : LET n == RowTarget(Rows[k]).name
                                      IN  n \in DOMAIN existing /\ existing[n]}
        IN  /\ SeqSet(plan.invalid) = DOMAIN Rows \ valid
            /\ SeqSet(plan.skip) =
                 {[row |-> k, code |-> "duplicate"] : k \in valid \ firsts}
                 \cup {[row |-> k, code |-> "exists"] : k \in active}
            /\ {a.row : a \in SeqSet(plan.add)} = firsts \ active
            /\ Len(plan.add) + Len(plan.skip) + Len(plan.invalid) = Len(Rows)

\* targetsio.go:9 "It never edits or removes an existing target": what is committed
\* leaves every target that was active at that moment as it was.
AddOnly ==
    [][pc = "exec" => \A i \in DOMAIN table : table[i].active => table'[i] = table[i]]_table

\* targetsio.go:12-13 "either the whole batch is probing, or none of it exists": an
\* import has put all of its targets into the table as planned, or has put none and
\* did not answer that it had.
AllOrNothing ==
    /\ wrote \in {{}, Adds}
    /\ answer \in {"refused", "preview", "conflict", "failed"} => wrote = {}
    /\ answer = "imported" /\ Adds # {} =>
           /\ wrote = Adds
           /\ \A a \in SeqSet(plan.add) :
                 tx[IdOf(tx, a.target.name)] = NewRow(a.target.name, a.target.cfg, TRUE)

\* targetsio.go:126-127 on restores_history: the row of a deleted target "comes back";
\* and 287 "the target list changed while importing".  Unless another handler has
\* touched a name since the names were read, what the answer says of it is so, and the
\* batch is not refused for it: never because of its own rows.
AnswerTrue ==
    /\ answer = "imported" =>
           \A a \in SeqSet(plan.add) :
               a.target.name \in touched \/ (a.restores <=> Known(before, a.target.name))
    /\ answer = "conflict" => Adds \cap touched # {}

\* targetsio.go:5-6 "a list exported from one imports into the other": every target
\* of an export is accepted as it was, and none is added where it came from.
RoundTrip ==
    LET list == Listed(table)
        there == Plan(Export(list).rows, << >>)
        here == Plan(Export(list).rows, TargetNames)
    IN  /\ [k \in DOMAIN there.add |-> there.add[k].target] = list
        /\ here.add = << >> /\ here.invalid = << >>
=============================================================================
