------------------------------- MODULE Runner -------------------------------
(***************************************************************************)
(* How an edit of the target list reaches the probe loops: the web handlers *)
(* of web.go and targetsio.go, the statements of targets.go they run, the   *)
(* Runner of runner.go that turns the active rows into running probe loops, *)
(* the name-keyed registration in store.go, and the probe loops of probe.go *)
(* that file each round under a NAME.                                       *)
(*                                                                         *)
(* Every HTTP request runs in a goroutine of its own.  Its database         *)
(* statement commits first; then Reload reads the active rows, takes r.mu,  *)
(* and applies the difference entry by entry.  Nothing orders one request's *)
(* read of the rows against another's turn at the mutex, and a loop that is *)
(* told to stop still finishes the round it is in.                          *)
(*                                                                         *)
(* Rounds are abstracted to pairs <<id, src>>: some round measured by the   *)
(* loop of row `src' is filed under row `id', in the database or still in   *)
(* the write buffer (module WriteBuffer), of which a crash takes some away  *)
(* and a query sees nothing.                                                *)
(***************************************************************************)
EXTENDS TargetTable

CONSTANTS Handlers,   \* goroutines serving write requests
          Main,       \* the goroutine of main, which does the first Reload
          Demo,       \* demoTarget's name; its configuration is any of Cfgs
          Slots,      \* bound: probe-loop goroutines alive at once
          MaxReqs,    \* bound: write requests received
          MaxBatch,   \* bound: names in one imported file
          MaxCrashes, \* bound: crashes of the process
          DBFaults    \* whether a database statement may fail

Procs == Handlers \cup {Main}
Ids == 1 .. Cardinality(Names)

ASSUME RunnerAssumption ==
    /\ IsFiniteSet(Names)
    /\ Demo \in Names
    /\ Main \notin Handlers /\ "none" \notin Procs
    /\ MaxReqs \in Nat /\ MaxBatch \in Nat /\ MaxCrashes \in Nat
    /\ DBFaults \in BOOLEAN

VARIABLES
    table,   \* the targets table
    hist,    \* filed rounds as pairs <<row id, id of the loop that measured>>
    live,    \* Runner.live: id -> target and the loop its stop channel belongs to
    ids,     \* Store.ids: name -> row id, 0 when absent
    rings,   \* Store.rings: name -> loops whose rounds the flight recorder holds
    loops,   \* slot -> the probeLoop goroutine in it
    lock,    \* the goroutine holding r.mu, or NoProc
    bare,    \* the id EnsureTarget is about to insert a bare row for, 0 if none
    replay,  \* the id whose name is registered and whose rounds are still to be replayed, 0 if none
    pc, job, want,   \* per goroutine: where it is, its request, the rows it read
    up,      \* the web server is serving
    asked, crashes

filed == << table, hist >>
store == << ids, rings >>
vars == << table, hist, live, ids, rings, loops, lock, bare, replay, pc, job, want, up, asked, crashes >>

NoProc == "none"
NoLoop == [id |-> 0]
NoJob == [op |-> "none"]
Nothing == [i \in {} |-> 0]

\* A request as its handler decoded and normalised it.
Jobs ==
    [op : {"create"}, name : Names, cfg : Cfgs]
    \cup [op : {"update"}, id : Ids, name : Names, cfg : Cfgs]
    \cup [op : {"delete"}, id : Ids]
    \cup [op : {"import"}, names : SUBSET Names, cfg : Cfgs]

Loop == [id : Nat \ {0}, name : Names, stop : BOOLEAN, pc : {"probe", "wait"}]

Without(f, x) == Restrict(f, DOMAIN f \ {x})
-----------------------------------------------------------------------------
(***************************************************************************)
(* Write requests.  A reply, whatever its status, ends the request.         *)
(***************************************************************************)
Goto(p, l) == pc' = [pc EXCEPT ![p] = l]

Reply(p) ==
    /\ Goto(p, "idle")
    /\ job' = [job EXCEPT ![p] = NoJob]
    /\ want' = [want EXCEPT ![p] = Nothing]

Receive(p) ==
    /\ up /\ pc[p] = "idle" /\ asked < MaxReqs
    /\ asked' = asked + 1
    /\ \E j \in Jobs :
          /\ j.op = "import" => Cardinality(j.names) \in 1 .. MaxBatch
          /\ j.op \in {"update", "delete"} => j.id \in DOMAIN table  \* ids come from GET /api/targets
          /\ job' = [job EXCEPT ![p] = j]
          /\ Goto(p, CASE j.op = "import" -> "plan"
                       [] j.op = "delete" -> "targets"
                       [] OTHER -> "commit")
    /\ UNCHANGED << filed, live, store, loops, lock, bare, replay, want, up, crashes >>

\* run.Targets(): a delete first reads what is running, for its answer, under r.mu.
Targets(p) ==
    /\ pc[p] = "targets" /\ lock = NoProc
    /\ Goto(p, "commit")
    /\ UNCHANGED << filed, live, store, loops, lock, bare, replay, job, want, up, asked, crashes >>

\* planImport against TargetNames: names that are active now are skipped, and a
\* file that adds nothing, or a query that fails, is answered without a Reload.
Plan(p) ==
    /\ pc[p] = "plan"
    /\ \/ LET batch == {n \in job[p].names : ~Taken(table, n)}
          IN  IF batch = {} THEN Reply(p)
              ELSE /\ job' = [job EXCEPT ![p].names = batch]
                   /\ Goto(p, "commit")
                   /\ UNCHANGED want
       \/ DBFaults /\ Reply(p)
    /\ UNCHANGED << filed, live, store, loops, lock, bare, replay, up, asked, crashes >>

\* The statement was accepted: on to Reload, or first to CreateTarget's second query.
Committed(p, tb, l) ==
    /\ table' = tb
    /\ Goto(p, l)
    /\ UNCHANGED << job, want >>

Refused(p) == Reply(p) /\ UNCHANGED table

CreateTarget(p) ==
    /\ job[p].op = "create"
    /\ IF Taken(table, job[p].name) THEN Refused(p)
       ELSE Committed(p, Upsert(table, job[p].name, job[p].cfg), "select")

UpdateTarget(p) ==
    /\ job[p].op = "update"
    /\ LET j == job[p]
       IN  IF Updatable(table, j.id, j.name)
           THEN Committed(p, Update(table, j.id, j.name, j.cfg), "read")
           ELSE Refused(p)

\* (Mutated form: the handler answers without Reload.)
DeactivateTarget_NoReload(p) ==
    /\ job[p].op = "delete"
    /\ IF table[job[p].id].active
       THEN Committed(p, Deactivate(table, job[p].id), "idle")
       ELSE Refused(p)
DeactivateTarget(p) ==
    /\ job[p].op = "delete"
    /\ IF table[job[p].id].active
       THEN Committed(p, Deactivate(table, job[p].id), "read")
       ELSE Refused(p)

\* One transaction; an active name refuses the whole batch.
ImportTargets(p) ==
    /\ job[p].op = "import"
    /\ LET j == job[p]
       IN  IF \E n \in j.names : Taken(table, n) THEN Refused(p)
           ELSE \E order \in Orders(FreshNames(table, j.names)) :
                   Committed(p, Imported(table, j.names, j.cfg, order), "read")

Commit(p) ==
    /\ pc[p] = "commit"
    /\ \/ CreateTarget(p) \/ UpdateTarget(p) \/ DeactivateTarget(p) \/ ImportTargets(p)
       \/ DBFaults /\ Refused(p)
    /\ UNCHANGED << hist, live, store, loops, lock, bare, replay, up, asked, crashes >>

\* CreateTarget's SELECT id ... WHERE name: a rename in between leaves no such
\* row, the handler answers 500 and never calls Reload.
SelectId(p) ==
    /\ pc[p] = "select"
    /\ \/ Known(table, job[p].name) /\ Goto(p, "read") /\ UNCHANGED << job, want >>
       \/ (~Known(table, job[p].name) \/ DBFaults) /\ Reply(p)
    /\ UNCHANGED << filed, live, store, loops, lock, bare, replay, up, asked, crashes >>
-----------------------------------------------------------------------------
(***************************************************************************)
(* Reload: read the active rows, then apply the difference under r.mu.      *)
(***************************************************************************)
ReadActive(p) ==
    /\ pc[p] = "read"
    /\ want' = [want EXCEPT ![p] = ActiveTargets(table)]
    /\ Goto(p, "lock")
    /\ UNCHANGED << filed, live, store, loops, lock, bare, replay, job, up, asked, crashes >>

\* The read fails: done() and serveTargetsImport log it and answer success.
\* (In main it is fatal, which is a Crash.)
ReadFails(p) ==
    /\ DBFaults /\ p # Main
    /\ pc[p] = "read"
    /\ Reply(p)
    /\ UNCHANGED << filed, live, store, loops, lock, bare, replay, up, asked, crashes >>

\* r.mu.Lock(), and a mutated form that does without.
Acquire_NoMutex(p) ==
    /\ pc[p] = "lock"
    /\ lock' = p
    /\ Goto(p, "apply")
    /\ UNCHANGED << filed, live, store, loops, bare, replay, job, want, up, asked, crashes >>
Acquire(p) ==
    /\ pc[p] = "lock" /\ lock = NoProc
    /\ lock' = p
    /\ Goto(p, "apply")
    /\ UNCHANGED << filed, live, store, loops, bare, replay, job, want, up, asked, crashes >>

\* Mutated form: a target is restarted for a new name only.
Stale_NameOnly(p) ==
    {i \in DOMAIN live : i \notin DOMAIN want[p] \/ want[p][i].name # live[i].name}
Stale(p) ==
    {i \in DOMAIN live : i \notin DOMAIN want[p] \/ want[p][i] # [name |-> live[i].name, cfg |-> live[i].cfg]}
Absent(p) == DOMAIN want[p] \ DOMAIN live

RemoveTarget(n) ==
    /\ ids' = [ids EXCEPT ![n] = 0]
    /\ rings' = [rings EXCEPT ![n] = {}]

\* Mutated forms: the old name stays registered; the recorder stays behind.
RenameTarget_Copy(old, new) ==
    IF ids[old] = 0 THEN UNCHANGED store
    ELSE /\ ids' = [ids EXCEPT ![new] = ids[old]]
         /\ rings' = [rings EXCEPT ![new] = rings[old]]
RenameTarget_IdOnly(old, new) ==
    IF ids[old] = 0 THEN UNCHANGED store
    ELSE /\ ids' = [ids EXCEPT ![new] = ids[old], ![old] = 0]
         /\ UNCHANGED rings
RenameTarget(old, new) ==
    IF ids[old] = 0 THEN UNCHANGED store
    ELSE /\ ids' = [ids EXCEPT ![new] = ids[old], ![old] = 0]
         /\ rings' = [rings EXCEPT ![new] = rings[old], ![old] = {}]

\* close(lt.stop), and a mutated form that forgets it.
CloseStop_Forgotten(k) == UNCHANGED loops
CloseStop(k) == loops' = [loops EXCEPT ![k].stop = TRUE]

\* First loop of apply, one entry, in the random order of a Go map: a target
\* that is gone or differs has its loop told to stop and its name released.
StopOne(p) ==
    /\ pc[p] = "apply" /\ bare = 0 /\ replay = 0
    /\ \E i \in Stale(p) :
          /\ CloseStop(live[i].loop)
          /\ live' = Without(live, i)
          /\ IF i \notin DOMAIN want[p] THEN RemoveTarget(live[i].name)
             ELSE IF want[p][i].name # live[i].name THEN RenameTarget(live[i].name, want[p][i].name)
             ELSE UNCHANGED store
    /\ UNCHANGED << filed, lock, bare, replay, pc, job, want, up, asked, crashes >>

FreeSlots == {k \in Slots : loops[k] = NoLoop}

\* r.live[id] = ...; go probeLoop(...)
Launch(i, t) ==
    LET k == CHOOSE s \in FreeSlots : TRUE
        entry == [name |-> t.name, cfg |-> t.cfg, loop |-> k]
    IN  /\ live' = [j \in DOMAIN live \cup {i} |-> IF j = i THEN entry ELSE live[j]]
        /\ loops' = [loops EXCEPT ![k] = [id |-> i, name |-> t.name, stop |-> FALSE, pc |-> "probe"]]

\* EnsureTarget registers the name, with an empty flight recorder.
Register(n, id) ==
    /\ ids' = [ids EXCEPT ![n] = id]
    /\ rings' = [rings EXCEPT ![n] = {}]

\* `init failed': the target is left out, as if it were not wanted.
GiveUp(p, i) == want' = [want EXCEPT ![p] = Without(want[p], i)]

\* Second loop of apply, one entry in random order: EnsureTarget, then the loop
\* is started.  A name the store already has keeps its registration; any other is
\* registered for the row of that name, and its rounds are replayed.
StartOne(p) ==
    /\ pc[p] = "apply" /\ bare = 0 /\ replay = 0 /\ Stale(p) = {}
    /\ \E i \in Absent(p) :
          LET t == want[p][i]
          IN  \/ /\ ids[t.name] # 0
                 /\ FreeSlots # {} /\ Launch(i, t)
                 /\ UNCHANGED << store, bare, replay, want >>
              \/ /\ ids[t.name] = 0 /\ Known(table, t.name)
                 /\ Register(t.name, IdOf(table, t.name))
                 /\ replay' = i
                 /\ UNCHANGED << live, loops, bare, want >>
              \/ /\ ids[t.name] = 0 /\ ~Known(table, t.name)
                 /\ bare' = i
                 /\ UNCHANGED << live, loops, store, replay, want >>
              \/ /\ DBFaults /\ ids[t.name] = 0
                 /\ GiveUp(p, i)
                 /\ UNCHANGED << live, loops, store, bare, replay >>
    /\ UNCHANGED << filed, lock, pc, job, up, asked, crashes >>

\* EnsureTarget found no row of that name and inserts one.  The insert fails if
\* the name was taken in the meantime.
InsertBare(p) ==
    /\ pc[p] = "apply" /\ bare # 0
    /\ bare' = 0
    /\ LET t == want[p][bare]
       IN  \/ /\ ~Known(table, t.name)
              /\ table' = BareRow(table, t.name)
              /\ Register(t.name, Len(table) + 1)
              /\ replay' = bare
              /\ UNCHANGED want
           \/ /\ Known(table, t.name) \/ DBFaults
              /\ GiveUp(p, bare)
              /\ UNCHANGED << table, store, replay >>
    /\ UNCHANGED << hist, live, loops, lock, pc, job, up, asked, crashes >>

\* The rounds that the query found, of those filed under the row, become the
\* recorder, in place of what a loop told to stop has put there since Register.
Replay(p) ==
    /\ pc[p] = "apply" /\ replay # 0
    /\ LET t == want[p][replay]
       IN  /\ FreeSlots # {} /\ Launch(replay, t)
           /\ \E found \in SUBSET {h[2] : h \in {x \in hist : x[1] = ids[t.name]}} :
                 rings' = [rings EXCEPT ![t.name] = found]
    /\ replay' = 0
    /\ UNCHANGED << filed, ids, lock, bare, pc, job, want, up, asked, crashes >>

\* apply returns.  In main the web server starts; a handler answers.
\* (Mutated form: the mutex is not released.)
Release_Locked(p) ==
    /\ pc[p] = "apply" /\ bare = 0 /\ replay = 0
    /\ Stale(p) = {} /\ Absent(p) = {}
    /\ up' = (up \/ p = Main)
    /\ Reply(p)
    /\ UNCHANGED << filed, live, store, loops, lock, bare, replay, asked, crashes >>
Release(p) ==
    /\ pc[p] = "apply" /\ bare = 0 /\ replay = 0
    /\ Stale(p) = {} /\ Absent(p) = {}
    /\ lock' = NoProc
    /\ up' = (up \/ p = Main)
    /\ Reply(p)
    /\ UNCHANGED << filed, live, store, loops, bare, replay, asked, crashes >>
-----------------------------------------------------------------------------
(***************************************************************************)
(* Probe loops.  CheckBurst and Append look the target up by the name the   *)
(* loop was started with.                                                   *)
(***************************************************************************)
\* The round ends and Append files it: nowhere if the name is not registered.
Round(k) ==
    /\ loops[k] # NoLoop /\ loops[k].pc = "probe"
    /\ loops' = [loops EXCEPT ![k].pc = "wait"]
    /\ LET n == loops[k].name
       IN  IF ids[n] = 0 THEN UNCHANGED << hist, rings >>
           ELSE /\ hist' = hist \cup {<< ids[n], loops[k].id >>}
                /\ rings' = [rings EXCEPT ![n] = @ \cup {loops[k].id}]
    /\ UNCHANGED << table, live, ids, lock, bare, replay, pc, job, want, up, asked, crashes >>

\* The select picks the ticker: it may do so although stop is closed.
Tick(k) ==
    /\ loops[k] # NoLoop /\ loops[k].pc = "wait"
    /\ loops' = [loops EXCEPT ![k].pc = "probe"]
    /\ UNCHANGED << filed, live, store, lock, bare, replay, pc, job, want, up, asked, crashes >>

\* The select picks the closed stop channel.
Exit(k) ==
    /\ loops[k] # NoLoop /\ loops[k].pc = "wait" /\ loops[k].stop
    /\ loops' = [loops EXCEPT ![k] = NoLoop]
    /\ UNCHANGED << filed, live, store, lock, bare, replay, pc, job, want, up, asked, crashes >>
-----------------------------------------------------------------------------
(***************************************************************************)
(* Start and crash of the process.                                          *)
(***************************************************************************)
NoIds == [n \in Names |-> 0]
NoRings == [n \in Names |-> {}]
NoLoops == [k \in Slots |-> NoLoop]
StartPC == [p \in Procs |-> IF p = Main THEN "seed" ELSE "idle"]
NoJobs == [p \in Procs |-> NoJob]
NoWant == [p \in Procs |-> Nothing]

\* main: a brand-new database gets the demo target (an error leaves it empty).
Seed ==
    /\ pc[Main] = "seed"
    /\ \/ /\ Len(table) = 0
          /\ \E c \in Cfgs : table' = Upsert(table, Demo, c)
       \/ (Len(table) > 0 \/ DBFaults) /\ UNCHANGED table
    /\ Goto(Main, "read")
    /\ UNCHANGED << hist, live, store, loops, lock, bare, replay, job, want, up, asked, crashes >>

Crash ==
    /\ crashes < MaxCrashes
    /\ crashes' = crashes + 1
    /\ live' = Nothing /\ ids' = NoIds /\ rings' = NoRings /\ loops' = NoLoops
    /\ lock' = NoProc /\ bare' = 0 /\ replay' = 0 /\ up' = FALSE
    /\ pc' = StartPC /\ job' = NoJobs /\ want' = NoWant
    /\ hist' \in SUBSET hist
    /\ UNCHANGED << table, asked >>

Init ==
    /\ table = << >> /\ hist = {}
    /\ live = Nothing /\ ids = NoIds /\ rings = NoRings /\ loops = NoLoops
    /\ lock = NoProc /\ bare = 0 /\ replay = 0 /\ up = FALSE
    /\ pc = StartPC /\ job = NoJobs /\ want = NoWant
    /\ asked = 0 /\ crashes = 0

Reload(p) ==
    \/ ReadActive(p) \/ ReadFails(p) \/ Acquire(p)
    \/ StopOne(p) \/ StartOne(p) \/ InsertBare(p) \/ Replay(p) \/ Release(p)

Handle(p) == Targets(p) \/ Plan(p) \/ Commit(p) \/ SelectId(p)

Next ==
    \/ \E p \in Handlers : Receive(p) \/ Handle(p)
    \/ \E p \in Procs : Reload(p)
    \/ \E k \in Slots : Round(k) \/ Tick(k) \/ Exit(k)
    \/ Seed
    \/ Crash

Spec == Init /\ [][Next]_vars

(***************************************************************************)
(* Goroutines are scheduled; sync.Mutex hands itself to a waiter that has   *)
(* waited 1ms, so a goroutine that keeps finding it free gets it; select    *)
(* picks uniformly among its ready cases, so a closed channel that is ready *)
(* again and again is picked.                                               *)
(***************************************************************************)
Fairness ==
    /\ \A p \in Procs : /\ WF_vars(Handle(p) \/ Reload(p))
                        /\ SF_vars(Targets(p) \/ Acquire(p))
    /\ WF_vars(Seed)
    /\ \A k \in Slots : WF_vars(Round(k) \/ Tick(k)) /\ SF_vars(Exit(k))

FairSpec == Spec /\ Fairness

-----------------------------------------------------------------------------
(***************************************************************************)
(* Properties.                                                              *)
(***************************************************************************)
Id == Nat \ {0}

\* Every variable has its type; r.mu is held exactly by the goroutine applying.
TypeOK ==
    /\ table \in Seq(Row)
    /\ hist \subseteq Id \X Id
    /\ DOMAIN live \subseteq Id
    /\ \A i \in DOMAIN live : live[i] \in [name : Names, cfg : Cfgs \cup {NoCfg}, loop : Slots]
    /\ ids \in [Names -> Nat]
    /\ rings \in [Names -> SUBSET Id]
    /\ loops \in [Slots -> Loop \cup {NoLoop}]
    /\ lock \in Procs \cup {NoProc}
    /\ bare \in Nat /\ replay \in Nat
    /\ pc \in [Procs -> {"idle", "seed", "targets", "plan", "commit", "select", "read", "lock", "apply"}]
    /\ \A p \in Procs : pc[p] = "apply" <=> lock = p
    /\ job \in [Procs -> Jobs \cup {NoJob}]
    /\ DOMAIN want = Procs
    /\ \A p \in Procs : /\ DOMAIN want[p] \subseteq Id
                        /\ \A i \in DOMAIN want[p] : want[p][i] \in Target
    /\ up \in BOOLEAN
    /\ asked \in Nat /\ crashes \in Nat

\* However Reloads interleave, a target is probed by exactly one running loop:
\* every live entry owns a loop that has not been told to stop and runs under
\* the entry's name, and every such loop belongs to a live entry.  (Two loops
\* would double a target's rounds; an orphan would probe a deleted target for
\* ever.)
OneRunningLoop ==
    /\ \A i \in DOMAIN live :
          LET l == loops[live[i].loop]
          IN  l # NoLoop /\ ~l.stop /\ l.id = i /\ l.name = live[i].name
    /\ \A k \in Slots :
          loops[k] # NoLoop /\ ~loops[k].stop
            => loops[k].id \in DOMAIN live /\ live[loops[k].id].loop = k

\* Whenever no Reload is in its critical section, the names registered in the
\* store are the names of the live targets: no live target's rounds are dropped
\* by Append for want of a registration, and a removed or renamed-away name
\* leaks no recorder, in whatever order apply visited the Go maps.
RegisteredAreLive ==
    lock = NoProc => {n \in Names : ids[n] # 0} = {live[i].name : i \in DOMAIN live}

\* The flight recorder a name shows holds only rounds filed under the row that
\* name is registered for: Recent, which reads the recorder by name, and queryRaw,
\* which reads the database by id, never tell the stories of two targets.
RecorderBacked ==
    \A n \in Names :
        /\ ids[n] = 0 => rings[n] = {}
        /\ \A s \in rings[n] : << ids[n], s >> \in hist

Reg == INSTANCE Registry

\* The concurrent handlers, the boot sequence and EnsureTarget's bare row only
\* ever change the table in the ways module Registry allows.
RegistrySpec == Reg!Spec

Quiet == up /\ \A p \in Procs : pc[p] = "idle"

LiveTargets == [i \in DOMAIN live |-> [name |-> live[i].name, cfg |-> live[i].cfg]]

\* docs/GUIDE.md: "Changes take effect immediately, without a restart".  When
\* every request has been answered, what runs is what the table says.
Applied == Quiet => LiveTargets = ActiveTargets(table)

\* docs/GUIDE.md: names are kept apart "so two histories are never merged by
\* accident": outside apply, no two names are registered for one row.
OneNamePerRow ==
    lock = NoProc => \A m, n \in Names : ids[m] # 0 /\ ids[m] = ids[n] => m = n

\* A round lands in another target's history only through a loop that was told
\* to stop while it was still measuring: a running loop never misfiles.
OnlyStoppedLoopsMisfile ==
    [][\A h \in hist' \ hist :
          h[1] = h[2] \/ \E k \in Slots : /\ loops[k] # NoLoop /\ loops[k].stop
                                        /\ loops[k].id = h[2] /\ loops'[k] # loops[k]]_vars

\* Every request is answered, although r.mu is held across database calls.
Answered == \A p \in Handlers : up /\ pc[p] # "idle" ~> pc[p] = "idle"

\* The program comes up, and each edit is eventually what is being probed.
EventuallyApplied == <>[](up /\ LiveTargets = ActiveTargets(table))
=============================================================================
