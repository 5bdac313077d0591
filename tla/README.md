# A TLA+ model of fogping

fogping is one Go process: it probes a list of targets, keeps every round in SQLite
and in memory, rolls raw rounds up into hourly buckets, and serves a chart and a
small REST interface with which the list of targets is edited while it runs.  This
directory models its stateful parts, model-checks them with TLC and proves the main
safety results with TLAPS.  File names and line numbers refer to the repository's
root.

## 1. Inventory

| Component | State | Operations | Talks to |
|---|---|---|---|
| Target table (`targets.go`, schema in `store.go`) | rows `(id, name UNIQUE, config, active)`; never deleted | `CreateTarget`/`upsertTarget`, `UpdateTarget`, `DeactivateTarget`, `ImportTargets`, `ActiveTargets`, `TargetNames`, the bare insert of `EnsureTarget` | called by the handlers, `main`, the Runner |
| Web write handlers (`web.go`, `targetsio.go`) | one goroutine per request | decode, one statement, then `Reload`, then the answer | table, Runner |
| Runner (`runner.go`) | `live`: id -> target and stop channel; `mu` | `Reload`, `apply`, `Targets` | reads the table, calls `EnsureTarget`, `RemoveTarget`, `RenameTarget`, starts and stops probe loops |
| Store registration, flight recorder (`store.go`) | `ids`, `rings`, `names`, by target *name* | `EnsureTarget`, `RemoveTarget`, `RenameTarget`, `replay`, `Recent`, `Append` | the Runner registers, probe loops look up |
| Probe loop (`probe.go`) | one goroutine per live target | round, `CheckBurst`, `Append`, select on ticker and stop | Store, Detector |
| ICMP and TCP rounds (`probe.go`) | send times, which replies came | send, `collect` | the network |
| Write buffer (`store.go`, `main.go`) | `pending`, `wmu`, one batch per running `Flush` | `Append`, `Flush`, `flushLoop`, `Close` | SQLite |
| Rollup and retention (`store.go`, `main.go`) | tables `rounds`, `rounds_hourly`; `rollupSched.last` | `tick`, `Rollup`, `Retention`, `reclaim` | SQLite, the clock |
| Detector (`detect.go`) | none (reads the recorder) | `CheckBurst` | Store |
| Sessions and gates (`web.go`) | token -> expiry | login, `valid`, logout | handlers |
| Read path (`store.go`) | none | `ReadRange`, `queryRaw`, `queryHourly`, `calcStats` | SQLite |
| Migration (`targets.go`, `store.go`) | the schema | `migrateTargets`, drop of `rounds_daily` | SQLite |
| Import and export (`targetsio.go`, validation in `config.go`) | none (one request's plan) | `planImport`, `serveTargetsImport`, `exportTargets`, `normalizeTarget` | table, Runner |
| Web page (`static/index.html`) | `renderSeq`, `rendering`, `inflight`, `cmpInflight`, the selection, the chart | `render`, `loadTargets`, `fetchCompare`, the editor | the REST interface |

What makes it correct, and what is hard about it:

* **Edits against running loops.** A handler commits its statement, then `Reload`
  reads the active rows *before* it takes `r.mu`, and `apply` walks two Go maps in
  random order while names move between targets.  A loop that is told to stop still
  finishes its round and files it by name.  Correct means: one running loop per
  live target, registrations that match, rounds filed under the target that
  measured them, and what runs is what the table says.
* **The table.** Ids are handed out for ever; histories are keyed by id.  Correct
  means: no operation, in any interleaving, merges or loses an id or a name.
* **Durability.** `Flush` runs in probe loops, in `flushLoop` and in `Close` at
  once, and gives the mutex back before it writes.  Correct means: every accepted
  round ends up stored, once, unless a write failed or the process died.
* **Two tiers.** `Rollup` replaces buckets computed from raw rounds that
  `Retention` deletes.  Correct means: a bucket is never replaced by a truncated
  one, and no round leaves raw before its bucket has it.  Late ticks, long stops,
  failures, and clock changes all bear on it.
* **Verdicts.** A mark means a loss above the target's own baseline.
* **The recorder.** `Append` extends a ring that `replay` replaces and `Recent`
  searches, while a stopped loop may still be in a round.  Correct means: nothing of
  the last day is missing that need not be, and the search finds what it should.
* **A round.** Packets overlap their replies; a socket gets other people's traffic.
  Correct means: a packet counts once, with its own RTT, and the round ends in time.
* **Files.** A list of targets is validated and sorted row by row, then applied in one
  transaction against a table others edit.  Correct means: all or nothing, nothing
  that was active changes, and the answer says what was done.
* **The page.** Every click starts another overlapping chain of requests.  Correct
  means: what is drawn is what is chosen, label, chart and compare line together.

The hazards, each at its line with the properties that cover it, are listed in
`PROJECT.json`.  Five have no property, for what they describe is what the code does, or
is not modelled: a `Reload` that fails after its statement is only logged
(`web.go:217`), `EnsureTarget` may insert a bare row (`store.go:149`), a create may be
answered with an error after it has inserted (`targets.go:103`), the migration, and the
growth of the session map.

## 2. Modules

| Module | Models | Extends |
|---|---|---|
| `TargetTable` | the table as a value; one operator per SQL statement; `Grows`, what no statement may break | – |
| `Registry` | abstract specification of the table: it only grows | `TargetTable` |
| `Runner` | handlers, `Reload`/`apply`, registration, probe loops, start, crash; implements `Registry` | `TargetTable` |
| `Recorder` | one target's ring: `Append`, `replay`, `Recent`, stopped loops, the rounds table behind it; implements `RoundLog` (proved, no run) | – |
| `RoundLog` | abstract specification of the write path: a round is stored or gone, a stored one goes only for another of its primary key | – |
| `WriteBuffer` | `Append`, `Flush`, `flushLoop`, `Close`, exit; implements `RoundLog` | – |
| `Rollup` | the two tiers, `tick`, `Rollup`, `Retention`, restarts | – |
| `ProbeRound` | `icmpRound`, `collect`, `tcpRound` against a clock and a network | – |
| `TargetFile` | validation, file rows, `planImport`, export, as operators | – |
| `Import` | import and export among other handlers' statements; implements `Registry` (proved, no run) | `TargetTable`, `TargetFile` |
| `Render` | the page's overlapping renders | – |
| `Detector` | `CheckBurst` over every short history | – |
| `XProofs` for X each of `Runner`, `Rollup`, `WriteBuffer`, `Recorder`, `ProbeRound`, `Render`, `Import`, `Detector` | theorems and proofs; `RunnerProofs` has the table's too | the module they are about |
| `MCRunner`, `MCRecorder`, `MCWriteBuffer`, `MCRollup`, `MCImport` | instances for TLC | the module |

The composition follows the program: `Runner` is the composition of table,
handlers, Runner, registration and loops, which share state and cannot be taken
apart without losing the interleavings that matter.  `Import` composes the table with
the file format; `Runner` has the `Reload` that follows an import.  The recorder's
contents, the write path, the tiers and the detector meet the rest only through
`Append`, `Recent` and the registration, a round only through its result, and the page
only through requests; they are modules of their own.

### Runner

`table` is the `targets` table, `live` is `Runner.live`, `ids` and `rings` are
the maps of `Store`, `lock` is `r.mu`, `loops` are the probe-loop goroutines, and
`pc`, `job` and `want` are each goroutine's place, request and rows read; `replay` is
the target whose name has been registered and whose recorder is being rebuilt.  A
configuration (type, host, port, pace, interval) is one value; ids are positions in
the table.  A request is a member of `Jobs`, decoded and normalised.  Rounds are
abstracted to pairs `<<row they are filed under, row whose loop measured them>>`.
The steps are the points where the code gives up atomicity: one statement, the
second query of `CreateTarget`, a delete's look at what is running (`Targets`, which
waits for `r.mu`), the read of the rows, taking `r.mu`, each entry of the two loops of
`apply`, `EnsureTarget`'s `SELECT`, its `INSERT` and its replay, giving `r.mu` back, the
end of a round, the select.  Statements that can fail do so when
`DBFaults` is set, with the effect the code gives the error: a refused request,
a `Reload` that is only logged, a target left out, a fatal error at start (a crash).

Inside `apply` an entry to be stopped is one step.  `RemoveTarget` and `RenameTarget`
take `s.mu` for themselves, and between `close(lt.stop)` and them only a probe loop can
act on what they change; that step commutes with the entry, or is the same as the loop
acting just before or after it.  An entry to be started is one step if its name is
registered, and else two or three: `Register` (an empty recorder), after the bare insert
if there is no row, then `Replay`, between which a loop that was told to stop may file a
round.  `Replay` finds any part of what is filed under the row, as some of it may still
be in the write buffer.  The four database connections (`SetMaxOpenConns(4)`) are not
modelled: a statement waits for none.

### Recorder

`ring` is `Store.rings` of the target, `reg` the name it is registered under,
`disk` its rows of `rounds`; `open` are the rounds between `Append` and a commit,
which module `RoundLog` says become stored in batches or are lost.  `EnsureTarget`
registers an empty ring, queries, and assigns: three steps, under `r.mu` but not under
the store's lock.  A round carries its stamp `t`, its turn `n` among the Appends, and
whether its loop had been told to stop.  `missed` remembers what a replay could not
have seen: what was not committed when it asked, what its query failed to read, and
what was appended before it assigned.  `Append` puts a round into the ring under `s.mu`
and into the buffer under `wmu`, in two sections, so two loops' rounds may come to the
buffer in another order than to the ring: of a batch's rounds of one second any may be
the one that stays (`Remaining`).

### WriteBuffer

`pending` is `Store.pending`; `batch` and `pc` belong to the goroutines that
run `Flush`; `writer` is SQLite's write lock.  `Key` gives each round its primary
key `(target_id, t)`.  Deferred transactions take no lock in `Begin`; the first
`INSERT` does.  The last round of a batch with a given key stays (`INSERT OR
REPLACE`), so a round can be written and not be on disk: `written` remembers every
round a transaction has committed, `OnePlace` and the liveness property speak of it, and
`OnePlace` adds that one of the second's written rounds is on disk.  Which one is not
promised: two Flushes may commit in either order.

### Rollup

Time is counted in units.  `hourly` is the union of the stored buckets, each
abstracted to the set of rounds it was computed from.  `Rollup` reads outside its
write transaction, so it is two steps.  `Skew` is the hour by which `AddDate` and a
multiple of 24 hours can differ when the clocks change.  `MaxLag` and `MaxDown`
bound how late a successful tick can be while running and across a restart.

### ProbeRound

`now` counts units; receiving, sending and the lookup take none, so a window ends
exactly at its deadline and a reply that has come is read before time goes on.  `inbox`
is the socket's queue; the network puts into it replies to any packet ever sent, as
often and as late as it likes, requests when the target is this host, and strangers'
replies.  The nonce of a round is its number.  The 50 ms step of `collect` only makes
it look at the deadline again, and is left out.

### TargetFile and Import

A name is a sequence of tokens, so that a leading blank, an empty name and the default
name `host:port` can be told apart; hosts and the remaining fields are values of small
sets with valid and invalid members.  JSON syntax and wrong field types are a row of
type "garbage", byte limits and wrong formats a refused file.  `Import` takes the
steps of `serveTargetsImport`: read the names, plan, begin, one upsert each, commit.
SQLite's deferred transaction takes the write lock with its first statement; other
handlers' statements stop then and not before.  They are creates, edits and deletes, and
the bare insert of a `Reload` that read a row before it was renamed (`EnsureTarget`, for
the names in `renamed`).

### Render

The page has one thread: an answer, and the code that awaits it up to its next
`await`, are one step.  `r` holds each render's place, the list the server has read
for it, what it asked for, and its comparison; `targets`, `pills`, `current`, `win`,
`filter`, `cmpMode`, `inflight`, `cmpInflight`, `rendering` and `cmpData` are the page's
variables.  `drawn` is the chart: target, window and mode of the data, and the window of
the label, which the code reads from the page when it draws.  Presets and custom ranges
are members of `Windows`; `Beyond` are those whose comparison is older than retention.
Every control that changes the selection starts a render in the same step, as in the
code.  A double click on the editor's button while its request is on the way is not
modelled.

### Detector

Losses are integers, so `robustZ` is computed exactly: medians doubled, deviations
quadrupled, and the cut-off 3.5 cleared of its fraction.

## 3. Runs

| Run | Shows |
|---|---|
| `RunnerConcurrent` | two write requests at a time, a crash, failing statements, with fairness: one running loop per live target, registrations, recorder, the table implements `Registry`, each request is answered |
| `RunnerSequential` | one request at a time, three in all, two configurations, a crash, with fairness: what runs is what the table says, only stopped loops misfile, a restart ends up where it should |
| `RunnerStaleReload` | **violation**: two Reloads, the older read is applied last |
| `RunnerMisrouted` | **violation**: two renames applied in the wrong map order register two names for one row |
| `Recorder` | what the recorder lacks of the last day, only stopped loops' rounds slip through a replay, `Recent` is exact but across a pair that stands out of order, which has a stopped loop's round in it |
| `WriteBuffer` | nothing forgotten, nothing carried twice, a replaced round has one of its second on disk, bounded, implements `RoundLog`; with fairness nothing sits in the buffer |
| `WriteBufferShutdown` | **violation**: `Close` does not wait for a batch another goroutine's `Flush` is writing (in the trace a probe loop's, whose `Append` reached the threshold; `flushLoop`'s is as exposed) |
| `Rollup` | horizon, truncation only where the calendar cut ran ahead of it, rolled before dropped, with failing statements and a clock change |
| `ProbeRound` | only the round's own replies count, once, with their own RTT, none that came in time is missed; how late a reply and how long a round may be |
| `Import` | the sorting of the rows against a definition without an order of reading, all or nothing, nothing active changes, the answer's flags, export and import undo each other |
| `Render` | the newest render is never cut off; chart, label and compare line belong together; the page shows what is chosen, leaves a target only if it is gone, and the automatic refresh resumes |
| `Detector` | a mark with a z value lost more than most recent rounds |

Bounds.  Two names are enough for every conflict of two targets (swap, take-over,
delete and re-add, refusal by an active or a deleted name); the chained rename
needs a third and has it in its run.  Two handlers are the least that race; the safety
properties of `RunnerConcurrent` are theorems for any number of requests, and the run
needs no more than two for its liveness.  `RunnerSequential` has a third request, which
meets what two have left.  Slots bound the
loops that have been told to stop and not ended; a Launch waits for a free one.  The
third slot is there for a successor of a successor.  Three rounds and a threshold of
two (16 in the code) fill the buffer, overflow it by a concurrent Append and leave a
remainder for the final flush; two of them share a primary key, so that each may replace
the other, in one batch or from two.  Buckets of two units, a hot span of three buckets and
nights every three units put retention at every phase of a bucket and leave time for
two restarts.  A ring of two and three rounds overflow it, let a stopped loop's round
stand before, behind and between its successor's, and leave one to be replayed; two
slots are the loop and the one it succeeds.  Two rounds of two packets let a reply
belong to the other packet, the other round or nobody, and three arrivals one to each
or a duplicate.  Files of two rows have every pair of kinds (three rows exceed
`MaxTargets`), and two imports let the second meet what the first and three edits have
left.  Three renders are the least with one drawn, one waiting for its compare line and
one that supersedes it; the first always starts with no comparison.  One edit, of a
table that may begin in any state, makes a list outdated.  The runs with `CHECK_DEADLOCK FALSE` end when their bound (requests,
clock) is reached or the process has stopped.

Observations met on the way, which the runs' properties are stated around:

* A `Reload` that applies rows read before a rename makes `EnsureTarget` insert a bare,
  inactive row (`store.go:151`), although the comment at 137-138 says only tests
  create those.
* A loop that was told to stop files its last round by name (`probe.go:62`).  If the
  name has been given to another target meanwhile, the round lands in that target's
  history, although `docs/GUIDE.md:229-230` says "two histories are never merged by
  accident".  `OnlyStoppedLoopsMisfile` is what does hold.
* `MaxLag` and `MaxDown` in run `Rollup` are needed: with a running process that
  completes no tick for more than two buckets, or a stop longer than the hot span, a
  round can be deleted before it was rolled up, because `rollupSched.tick` looks back
  two buckets (`store.go:529`) or to the horizon, whatever `last` says.
* In the night the clocks go forward `AddDate(0,0,-n)` (`store.go:546`) is an hour later
  than the horizon of `n*24h`, which 430-434 calls "the oldest instant raw is guaranteed
  to hold": a restart then replaces a bucket by what the cut has left of it.
  `TruncatedOnlyByCut` allows that and nothing else.
* A round no worse than the median of a lossy baseline is marked without a z value
  (`detect.go:34`), although `docs/GUIDE.md:403-404` says a mark is "loss far above the
  target's own recent baseline".  `EvidenceMeansMajority` is about marks with one.
* A stopped loop's `select` may pick its ticker, so its newer round can come *before*
  its successor's older one in the ring; `Recent` on such a ring may leave out rounds
  inside the window, which `RecentExact` allows for that case only.
* A round that failed as a whole is stamped when it ends (`probe.go:59`), so after a slow
  lookup it can share its second with the next round, which replaces it on disk.
* `docs/GUIDE.md:240` says "replies later than 1 s count as lost".  A reply counts up to
  the end of the tail window: `Lateness` has the true bound, the timeout and a gap for
  each packet from its own to the last, so that even the last one's reply may come a
  gap after the timeout.  A TCP dial has the timeout alone (`probe.go:235`).  A hard receive error ends its window at once,
  so on a broken socket a round's packets leave in one burst.
* Export has no limit and import takes 500 rows (`targetsio.go:32`), so a longer list
  exported from one instance cannot be imported into another, which 5-6 promise;
  `RoundTrip` is about the rows.
* `loadTargets` writes `targets` and `current` before its render finds out that it is
  superseded.  A list read before a target was added, and answered after the editor has
  selected it, moves the selection to the first target; `LeavesOnlyTheGone` and
  `ShowsTheChoice` exempt that case by `late`.
* If a newer render fails before it draws, the older one's compare line is dropped and
  the legend goes on promising it until the next refresh; `ShowsTheChoice` speaks of a
  newest render that is through.

Fairness.  Goroutines are scheduled (weak fairness of their next step).
`sync.Mutex` hands itself to a waiter of more than a millisecond, and `select`
picks uniformly among ready cases: strong fairness of what waits for `r.mu` (`Acquire`
and a delete's `Targets`) and of a stopped loop's `Exit`.  A transaction retries SQLite's write lock for five seconds, and gives
up with an error after that, which is `Fail`: strong fairness of `Insert`.  In `Render` a request for a list or a series is
answered or fails, as the browser sees to (the code sets no timeout for them), and the
comparison's 15 s timer fires if no answer comes first.  Nothing is assumed about
requests arriving, clicks, or crashes.

## 4. Proofs

`RunnerProofs` proves, for every number of handlers, targets, requests, crashes and
failing statements: `TypeOK`, `OneRunningLoop`, `RegisteredAreLive`,
`RecorderBacked`, and that the specification implements `Registry`
(`ImplementsRegistry`).  `RegisteredAreLive` is not inductive, because inside
`apply` it does not hold.  The invariant that is says: every live name is registered;
every registered name is live or wanted by the goroutine that holds `r.mu`; live
names, and the names each goroutine has read, are distinct (because names in the
table are unique at the moment of the read); while `EnsureTarget` is between its
`SELECT` and its `INSERT`, the target is still absent and unregistered, and while it
replays, absent and registered.  A step of a
goroutine outside `apply` changes only its own request (`MovesOnly`), which disposes
of the handlers; the steps of `apply` get a lemma each.  Each statement makes the table
grow (`TableStep`), which is the step of the refinement.

For requests that do not overlap (`NoOverlap`: at most one handler is at work) and a
database that answers, `RunnerProofs` also proves `Applied` (`EditsTakeEffect`),
`OneNamePerRow` and `OnlyStoppedLoopsMisfile`, for any number of requests, targets and
crashes and in whatever order `apply` walks its maps; with one handler that is the whole
specification (`OneOperator`).  The two premises are the ones the code needs: run
`RunnerStaleReload` refutes `Applied` and run `RunnerMisrouted` refutes `OneNamePerRow`
where requests overlap, and a `Reload` that fails is only logged.  The
strengthening (`SeqInv`): the rows `apply` works with are the active rows there are
now; at rest what is live is what is active; no row of the table has the name another
live target still runs under; and a name is registered for the row of the target that
has it or, inside `apply`, is about to.  The last two are why the map order does not
matter: an edit renames at most one target.

`RollupProofs` proves `TypeOK`, `RawHoldsHorizon` and `TruncatedOnlyByCut` for every
bucket length, hot span, retention, clock change and schedule, and that a bucket is
never truncated at all if `Skew = 0`.  The invariant: raw is complete above the latest
cut, and what `Rollup` has read and not yet written covers, of every bucket it touches,
all that the stored bucket covers, unless the cut has run into that bucket.  The last
part is where the alignment of the start matters: a bucket boundary at or after the
horizon has each bucket on one side.  `RolledBeforeDropped` needs ticks in time
(`InTime`: `MaxLag` less than two buckets, both bounds at most the hot span less a
bucket, and less than it without the hour of a clock change); run `Rollup` has the
largest bounds this allows.  Then what is not rolled up is never older than the last
completed tick, but for a round stored late, and `Rollup`'s start is.

`WriteBufferProofs` proves `TypeOK`, `OnePlace`, `Bounded` and the refinement of
`RoundLog` for any number of goroutines and rounds, whichever of them share a primary
key.  The invariant: a batch is held only between `Take` and the end of its transaction,
no two places hold the same round, no batch repeats one, and a written round is on disk
or another written one of its key is.  The last part needs `Replaced` to keep what the
batch has no key of (`DiskKept`) and of each of its keys the last round (`LastOf`).  In
the refinement a round replaced on disk joins the dropped ones: `gone` is what was lost
and what was written and is not stored.

`ProbeRoundProofs` proves `TypeOK`, `SamplesTrue`, `CollectsAll`, `Lateness` and
`RoundLength` for any number of packets, gap and timeout.  The invariant: the socket is
drained before time goes on; packets that have had their turn keep their send time; each
stage of a round has the latest moment at which it can be; and a reply that has arrived
is counted, dropped for a reason, or too late.

`RenderProofs` proves `TypeOK`, `LockedWhileNewestRuns`, `OneChart`, `ShowsTheChoice` and
`LeavesOnlyTheGone` for any number of renders, names, windows and filters.  The invariant:
the newest render asks for what is chosen, the controllers the page keeps are those of
requests in flight, and a list on its way to the newest render lacks only what is gone.

`RecorderProofs` proves `TypeOK`, `Intact`, `RecentExact` and `OnlyLateRoundsSlip` for any
number of names, loops and rounds, any capacity and any day.  The first invariant
(`IInv`): a target that is not both registered and replayed has no running loop, so what
a replay overwrites are stopped loops' rounds.  The second (`RInv`): at most one
loop runs, and its round began after whatever running loops have appended
(`RunningIsNewest`); hence the ring is in the order of the Appends, and of two rounds out
of order in time one is a stopped loop's (`RingInOrder`); what a replay has found is in the
order of time and lacks only what `missed` has or what is older than a day.  A full ring
drops its front, which is older or was appended earlier: `Intact`.  `Recent`'s search finds
the first round since a moment in a ring that is sorted across that moment
(`SearchFinds`, by induction over the width of the window); a ring that is not has a
pair that `Straddles`.

The same module proves that the recorder's side of the write path is the one of `RoundLog`, with a
round's second for its primary key (`ImplementsRoundLog`): `open` is what was
appended and not yet committed, `disk` what is stored, and everything else of `history`
is gone.  This needs that no open round is on disk (`OpenNotStored`).  So what replay
reads is what module `WriteBuffer`, which implements `RoundLog` too, may have left there.

`DetectorProofs` proves `EvidenceMeansMajority` for any packets, warm-up and history.  The
invariant is the property and that the history is one of losses; the work is in
`OutliersAreMajority`.  The median is one element or the mean of the two middle ones.  A
loss above the upper one is above more than half of the rounds.  Between the two, each
round is at least half their distance from the median; so is the MAD then, and a loss
between them is not 3.5 MADs (scaled by 0.6745) away.

`ImportProofs` proves `TypeOK`, `PlanRight`, `AllOrNothing`, `AnswerTrue`, `RoundTrip` and
`AddOnly` for any files, any edits around them, failures and crashes.  Four invariants,
each using those before it: the transaction's copy keeps every active row of the table
(`TInv`); tables hold accepted targets, and inactive rows without a configuration, and the
plan is the one of the file and the names read (`FInv`); what the batch has upserted stays active in the copy, as an upsert
refuses an active name (`AInv`); and of names nobody else has touched, what was read
still holds, and the batch itself has taken only names of its own earlier rows
(`NInv`).  What `Plan` computes is by induction over the rows (`PlanFacts`); `RoundTrip`
rests on `ThereAndBack`, that an accepted target's row is accepted and comes back
the same.

`ImportProofs` also proves that `Import` implements `Registry` (`ImplementsRegistry`), as
`Runner` does: the commit of a batch is one step of the table, which adds rows and
reactivates deleted ones.  The invariant (`GInv`) compares the transaction's copy with the
table, which stands still while the transaction has the write lock: a row of the copy
is the table's, or was inactive there and is active now under the same name.

Induction.  The library's induction theorems are stated with operators, which the
provers cannot instantiate.  `LeastNatural` (a set of numbers that is not empty has a least
one) and `EveryNatural` (a set with 0 and each successor has all of them) follow from the
library's facts about minimal elements, and a set can be given where an operator
cannot.  `RecorderProofs`, `ImportProofs` and `DetectorProofs` each state those they use.  Recursion in the
models is by functions of one argument or a pair, so that these apply: `Plan`, `SearchFrom`.

Assumptions: `TableAssumption`, `RunnerAssumption`, `RollupAssumption`,
`WriteBufferAssumption`, `ProbeRoundAssumption`, `RenderAssumption`,
`RecorderAssumption`, `ImportAssumption`, `DetectorAssumption` (types of the constants,
finiteness of `Names`) and `InputAssumption` (a file is a list of rows, and `Names` and
`Cfgs` have what accepted requests and rows come to), each evaluated by TLC in the runs of
its module.

Only model-checked: the liveness properties (`Answered`, `EventuallyApplied`,
`NeverSitsOnData`, `RefreshResumes`), which rest on fairness and ENABLED.  Every
invariant and action property that a run checks is a theorem, with these premises: one
request at a time and a database that answers for `Applied`, `OneNamePerRow` and
`OnlyStoppedLoopsMisfile`; ticks in time for `RolledBeforeDropped`.

## 5. Plan

Done, in this order: `TargetTable`, `Registry`, `Runner` (the program's core and its
hardest interleavings), `WriteBuffer` and `RoundLog`, `Rollup`, `Detector`, the proofs of
`Rollup` and `Runner`; then `Recorder`, `ProbeRound`, `TargetFile` and `Import`, `Render`,
and their proofs; then the remaining invariants of the runs as theorems: `Runner` for
requests that do not overlap, the contents and the search of the recorder, the plan, the
batch, the answer and the round trip of files, the detector; then `WriteBuffer` for rounds
that share a primary key, and the refinements no run has, `Import` of `Registry` and
`Recorder` of `RoundLog`.  Left: the migration of a half migrated table
(`migrateTargets`), and the growth of the map of session tokens.

## 6. Not modelled

* Sessions, login and the HTTP gates (`web.go`): a token map under one mutex and pure
  checks of a request in front of the handlers.
* Schema creation and migration: idempotent DDL that runs before everything else.
* The rest of the read path (`ReadRange`, `queryHourly`, `calcStats`): it reads and
  formats; which tier and which rows there are is in `Rollup` and `Recorder`.
* Flags, environment, help: parsed before the program starts; their results are the
  constants.  Vacuum (`reclaim`) changes no row.
* The page's import dialog, themes, tooltip and axes, and the login form.
* Packaging.
