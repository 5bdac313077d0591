----------------------------- MODULE TargetFile -----------------------------
(***************************************************************************)
(* Target lists as files: the validation every target goes through          *)
(* (config.go), the rows of a "netping-targets" file, and the sorting of a  *)
(* file's rows into add, skip and invalid (targetsio.go).                   *)
(*                                                                         *)
(* A name is a sequence of tokens, <<" ", ...>> with a blank in front.      *)
(* Hosts are tokens, of which BadHosts are refused; BadNames are names that *)
(* are too long or not printable.  A row that is no JSON object, or has a   *)
(* field of the wrong type, is a row of type "garbage".                     *)
(***************************************************************************)
EXTENDS Integers, Sequences

CONSTANTS BadHosts, BadNames,
          MaxTargets    \* maxImportTargets

Trim(name) == IF name # << >> /\ Head(name) = " " THEN Tail(name) ELSE name

\* targetAddr: the name of a target without one.
Addr(t) == IF t.type = "tcp" THEN << t.host, t.port >> ELSE << t.host >>
-----------------------------------------------------------------------------
(***************************************************************************)
(* normalizeTarget, on a request t with the fields name, type, host, port,  *)
(* pace and interval.                                                       *)
(***************************************************************************)
Ports == 1 .. 65535
Intervals == 0 .. 86400    \* in seconds; 0 leaves it to the pace

Typed(t) == [t EXCEPT !.type = IF t.type = "" THEN "icmp" ELSE t.type]

NameOf(t) == IF Trim(t.name) = << >> THEN Addr(Typed(t)) ELSE Trim(t.name)

Valid(t) ==
    /\ Typed(t).type \in {"icmp", "tcp"}
    /\ Typed(t).type = "tcp" => t.port \in Ports
    /\ t.host \notin BadHosts
    /\ t.pace \in {"", "normal", "fast", "slow"}
    /\ t.interval \in Intervals
    /\ NameOf(t) \notin BadNames

\* What is stored of a valid target.
Normal(t) ==
    [name |-> NameOf(t),
     cfg  |-> [type |-> Typed(t).type, host |-> t.host,
               port |-> IF Typed(t).type = "tcp" THEN t.port ELSE 0,
               pace |-> IF t.pace = "normal" THEN "" ELSE t.pace,
               interval |-> t.interval]]
-----------------------------------------------------------------------------
(***************************************************************************)
(* Rows of a file.                                                          *)
(***************************************************************************)
\* fromFileRow: a file says "ping" where the program says "icmp", and has to say it.
FromRow(f) == [f EXCEPT !.type = IF f.type = "ping" THEN "icmp" ELSE f.type]

RowValid(f) == f.type \in {"ping", "icmp", "tcp"} /\ Valid(FromRow(f))
RowTarget(f) == Normal(FromRow(f))

\* toFileTarget.  (Mutated form: without the port.)
ToRow_PortLost(t) ==
    [name |-> t.name, type |-> IF t.cfg.type = "tcp" THEN "tcp" ELSE "ping", host |-> t.cfg.host,
     port |-> 0, pace |-> IF t.cfg.pace = "" THEN "normal" ELSE t.cfg.pace, interval |-> t.cfg.interval]
ToRow(t) ==
    [name |-> t.name, type |-> IF t.cfg.type = "tcp" THEN "tcp" ELSE "ping", host |-> t.cfg.host,
     port |-> IF t.cfg.type = "tcp" THEN t.cfg.port ELSE 0,
     pace |-> IF t.cfg.pace = "" THEN "normal" ELSE t.cfg.pace, interval |-> t.cfg.interval]

\* exportTargets, of targets in the order of their ids.
Export(targets) ==
    [format |-> TRUE, version |-> 1, rows |-> [k \in DOMAIN targets |-> ToRow(targets[k])]]
-----------------------------------------------------------------------------
(***************************************************************************)
(* planImport against the known names (name -> active).                     *)
(***************************************************************************)
\* The whole file is refused.
FileRefused(file) ==
    ~file.format \/ file.version # 1 \/ Len(file.rows) > MaxTargets

NoPlan == [add |-> << >>, skip |-> << >>, invalid |-> << >>, seen |-> {}]

\* What becomes of row k: invalid, a duplicate of an earlier row, there already, or
\* to be added.  (Mutated forms: a duplicate is added again; the name of an invalid
\* row counts as seen.)
Planned_Again(p, f, k, existing) ==
    LET t == RowTarget(f)
        known == t.name \in DOMAIN existing
    IN  IF ~RowValid(f) THEN [p EXCEPT !.invalid = Append(@, k)]
        ELSE IF known /\ existing[t.name]
             THEN [p EXCEPT !.skip = Append(@, [row |-> k, code |-> "exists"])]
        ELSE [p EXCEPT !.add = Append(@, [row |-> k, target |-> t, restores |-> known])]
Planned_SeenInvalid(p, f, k, existing) ==
    LET t == RowTarget(f)
        known == t.name \in DOMAIN existing
        q == [p EXCEPT !.seen = @ \cup {t.name}]
    IN  IF ~RowValid(f) THEN [q EXCEPT !.invalid = Append(@, k)]
        ELSE IF t.name \in p.seen THEN [p EXCEPT !.skip = Append(@, [row |-> k, code |-> "duplicate"])]
        ELSE IF known /\ existing[t.name]
             THEN [q EXCEPT !.skip = Append(@, [row |-> k, code |-> "exists"])]
        ELSE [q EXCEPT !.add = Append(@, [row |-> k, target |-> t, restores |-> known])]
Planned(p, f, k, existing) ==
    LET t == RowTarget(f)
        known == t.name \in DOMAIN existing
        q == [p EXCEPT !.seen = @ \cup {t.name}]
    IN  IF ~RowValid(f) THEN [p EXCEPT !.invalid = Append(@, k)]
        ELSE IF t.name \in p.seen THEN [p EXCEPT !.skip = Append(@, [row |-> k, code |-> "duplicate"])]
        ELSE IF known /\ existing[t.name]
             THEN [q EXCEPT !.skip = Append(@, [row |-> k, code |-> "exists"])]
        ELSE [q EXCEPT !.add = Append(@, [row |-> k, target |-> t, restores |-> known])]

\* Row by row, from the first.
Plan(rows, existing) ==
    LET planned[k \in 0 .. Len(rows)] ==
            IF k = 0 THEN NoPlan ELSE Planned(planned[k - 1], rows[k], k, existing)
    IN  planned[Len(rows)]
=============================================================================
