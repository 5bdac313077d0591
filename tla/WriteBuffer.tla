----------------------------- MODULE WriteBuffer -----------------------------
(***************************************************************************)
(* How a round becomes durable (store.go): Append buffers it under wmu, and *)
(* Flush, called by Append when the buffer is long, by flushLoop every two  *)
(* seconds and by Close at shutdown, swaps the buffer out under wmu and     *)
(* writes it in one transaction WITHOUT wmu.  SQLite admits one writing     *)
(* transaction at a time and makes the others wait, up to busy_timeout.     *)
(*                                                                         *)
(* main closes `stop', which flushLoop watches, calls Close and returns; it *)
(* stops no probe loop and waits for no other Flush.                        *)
(***************************************************************************)
EXTENDS Naturals, Sequences, FiniteSets

CONSTANTS Rounds,     \* the rounds the probe loops will hand to Append
          Keys,       \* primary keys (target_id, t) of the rounds table
          Key,        \* the key of each round
          Probers,    \* probe loops
          FlushLoop, Main,   \* the goroutines of flushLoop and main
          Threshold,  \* 16 in the code
          DBFaults,   \* whether a statement of Flush's transaction may fail
          Crashes     \* whether the process may crash

Flushers == Probers \cup {FlushLoop, Main}

None == "none"

ASSUME WriteBufferAssumption ==
    /\ Key \in [Rounds -> Keys]
    /\ Threshold \in Nat \ {0}
    /\ FlushLoop \notin Probers /\ Main \notin Probers /\ FlushLoop # Main
    /\ IsFiniteSet(Probers)
    /\ None \notin Rounds \cup Flushers
    /\ DBFaults \in BOOLEAN /\ Crashes \in BOOLEAN

VARIABLES
    pending,   \* Store.pending
    batch,     \* per goroutine: the batch its Flush holds
    pc,        \* per goroutine: where it is in Append, Flush or Close
    writer,    \* the transaction SQLite has given the write lock to
    rows,      \* the rounds table: key -> the round stored last
    stopping,  \* main closed `stop'
    closed,    \* db.Close was called
    down,      \* the process has ended
    accepted,  \* history: rounds handed to Append
    written,   \* history: rounds some transaction has committed
    lost,      \* history: rounds dropped by a failed Flush or the end of the process
    atStop     \* history: rounds accepted when `stop' was closed

vars == << pending, batch, pc, writer, rows, stopping, closed, down, accepted, written, lost, atStop >>

Elems(s) == {s[i] : i \in DOMAIN s}

Stored == {r \in Rounds : rows[Key[r]] = r}
InBatch == UNION {Elems(batch[f]) : f \in Flushers}

Init ==
    /\ pending = << >>
    /\ batch = [f \in Flushers |-> << >>]
    /\ pc = [f \in Flushers |-> "idle"]
    /\ writer = None
    /\ rows = [k \in Keys |-> None]
    /\ stopping = FALSE /\ closed = FALSE /\ down = FALSE
    /\ accepted = {} /\ written = {} /\ lost = {} /\ atStop = {}

Goto(f, l) == pc' = [pc EXCEPT ![f] = l]
-----------------------------------------------------------------------------
\* Mutated form: the threshold is off by one.
Append_Late(p, r) ==
    /\ ~down /\ pc[p] = "idle" /\ r \notin accepted
    /\ pending' = Append(pending, r)
    /\ accepted' = accepted \cup {r}
    /\ Goto(p, IF Len(pending') > Threshold THEN "take" ELSE "idle")
    /\ UNCHANGED << batch, writer, rows, stopping, closed, down, written, lost, atStop >>

\* Append's wmu section; the sixteenth round makes the caller flush.  (The name
\* lookup before it is module Runner's.)
Append_(p, r) ==
    /\ ~down /\ pc[p] = "idle" /\ r \notin accepted
    /\ pending' = Append(pending, r)
    /\ accepted' = accepted \cup {r}
    /\ Goto(p, IF Len(pending') >= Threshold THEN "take" ELSE "idle")
    /\ UNCHANGED << batch, writer, rows, stopping, closed, down, written, lost, atStop >>

\* flushLoop: the ticker (mutated: only when the buffer is long), or the closed stop channel.  When both are ready the
\* select may pick either.
Tick_WhenFull ==
    /\ ~down /\ pc[FlushLoop] = "idle" /\ Len(pending) >= Threshold
    /\ Goto(FlushLoop, "take")
    /\ UNCHANGED << pending, batch, writer, rows, stopping, closed, down, accepted, written, lost, atStop >>
Tick ==
    /\ ~down /\ pc[FlushLoop] = "idle"
    /\ Goto(FlushLoop, "take")
    /\ UNCHANGED << pending, batch, writer, rows, stopping, closed, down, accepted, written, lost, atStop >>

LoopReturns ==
    /\ ~down /\ pc[FlushLoop] = "idle" /\ stopping
    /\ Goto(FlushLoop, "returned")
    /\ UNCHANGED << pending, batch, writer, rows, stopping, closed, down, accepted, written, lost, atStop >>
-----------------------------------------------------------------------------
(***************************************************************************)
(* Flush.                                                                   *)
(***************************************************************************)
\* After Flush: Close goes on to db.Close, everybody else to where it was.
Returned(f) == Goto(f, IF f = Main THEN "close" ELSE "idle")

\* The wmu section swaps the buffer out.  (Mutated form: the
\* buffer is not reset.)
Take_NoReset(f) ==
    /\ ~down /\ pc[f] = "take"
    /\ batch' = [batch EXCEPT ![f] = pending]
    /\ IF pending = << >> THEN Returned(f) ELSE Goto(f, "begin")
    /\ UNCHANGED << pending, writer, rows, stopping, closed, down, accepted, written, lost, atStop >>
Take(f) ==
    /\ ~down /\ pc[f] = "take"
    /\ batch' = [batch EXCEPT ![f] = pending]
    /\ pending' = << >>
    /\ IF pending = << >> THEN Returned(f) ELSE Goto(f, "begin")
    /\ UNCHANGED << writer, rows, stopping, closed, down, accepted, written, lost, atStop >>

\* db.Begin on an open database, and Prepare: no lock is taken yet.
Begin(f) ==
    /\ ~down /\ pc[f] = "begin" /\ ~closed
    /\ Goto(f, "insert")
    /\ UNCHANGED << pending, batch, writer, rows, stopping, closed, down, accepted, written, lost, atStop >>

\* The first INSERT waits for the write lock; the rest follow in the same
\* transaction.  (Mutated form: it does not wait.)
Insert_NoWait(f) ==
    /\ ~down /\ pc[f] = "insert"
    /\ writer' = f
    /\ Goto(f, "commit")
    /\ UNCHANGED << pending, batch, rows, stopping, closed, down, accepted, written, lost, atStop >>
Insert(f) ==
    /\ ~down /\ pc[f] = "insert" /\ writer = None
    /\ writer' = f
    /\ Goto(f, "commit")
    /\ UNCHANGED << pending, batch, rows, stopping, closed, down, accepted, written, lost, atStop >>

\* INSERT OR REPLACE in batch order: the last round of a key stays.
Replaced(b) ==
    [k \in Keys |->
        LET at == {i \in DOMAIN b : Key[b[i]] = k}
        IN  IF at = {} THEN rows[k] ELSE b[CHOOSE i \in at : \A j \in at : j =< i]]

Commit(f) ==
    /\ ~down /\ pc[f] = "commit"
    /\ rows' = Replaced(batch[f])
    /\ written' = written \cup Elems(batch[f])
    /\ batch' = [batch EXCEPT ![f] = << >>]
    /\ writer' = None
    /\ Returned(f)
    /\ UNCHANGED << pending, stopping, closed, down, accepted, lost, atStop >>

\* Mutated form: an error after the inserts is returned without Rollback.
Fail_NoRollback(f) ==
    /\ ~down /\ pc[f] = "commit" /\ DBFaults
    /\ rows' = Replaced(batch[f])
    /\ lost' = lost \cup Elems(batch[f])
    /\ batch' = [batch EXCEPT ![f] = << >>]
    /\ writer' = None
    /\ Returned(f)
    /\ UNCHANGED << pending, stopping, closed, down, accepted, written, atStop >>

\* Begin, Prepare, an INSERT (a disk error, or the busy timeout while another
\* transaction holds the lock) or Commit fails: the batch is gone.
Fail(f) ==
    /\ ~down /\ pc[f] \in {"begin", "insert", "commit"}
    /\ DBFaults \/ (pc[f] = "begin" /\ closed)
    /\ lost' = lost \cup Elems(batch[f])
    /\ batch' = [batch EXCEPT ![f] = << >>]
    /\ writer' = IF writer = f THEN None ELSE writer
    /\ Returned(f)
    /\ UNCHANGED << pending, rows, stopping, closed, down, accepted, written, atStop >>

Flush(f) == Take(f) \/ Begin(f) \/ Insert(f) \/ Commit(f) \/ Fail(f)
-----------------------------------------------------------------------------
(***************************************************************************)
(* Shutdown: close(stop); store.Close() = Flush, then db.Close; return.     *)
(***************************************************************************)
Signal ==
    /\ ~down /\ pc[Main] = "idle" /\ ~stopping
    /\ stopping' = TRUE
    /\ atStop' = accepted
    /\ Goto(Main, "take")
    /\ UNCHANGED << pending, batch, writer, rows, closed, down, accepted, written, lost >>

\* db.Close lets no new transaction begin; it does not wait for one in progress.
CloseDB ==
    /\ ~down /\ pc[Main] = "close"
    /\ closed' = TRUE
    /\ Goto(Main, "exit")
    /\ UNCHANGED << pending, batch, writer, rows, stopping, down, accepted, written, lost, atStop >>

\* The process ends: what is in memory is gone, and SQLite rolls an uncommitted
\* transaction back when the database is next opened.
GoDown ==
    /\ ~down
    /\ down' = TRUE
    /\ lost' = lost \cup Elems(pending) \cup InBatch
    /\ pending' = << >>
    /\ batch' = [f \in Flushers |-> << >>]
    /\ writer' = None
    /\ UNCHANGED << pc, rows, stopping, closed, accepted, written, atStop >>

Exit == pc[Main] = "exit" /\ GoDown      \* main returns
Crash == Crashes /\ GoDown

Next ==
    \/ \E p \in Probers, r \in Rounds : Append_(p, r)
    \/ Tick \/ LoopReturns
    \/ \E f \in Flushers : Flush(f)
    \/ Signal \/ CloseDB \/ Exit \/ Crash

Spec == Init /\ [][Next]_vars

(***************************************************************************)
(* The ticker fires, goroutines are scheduled, and SQLite's write lock is   *)
(* retried until the busy timeout: a transaction waiting for it while it    *)
(* becomes free again and again gets it.                                    *)
(***************************************************************************)
Fairness ==
    /\ WF_vars(Tick) /\ WF_vars(CloseDB) /\ WF_vars(Exit)
    /\ \A f \in Flushers : WF_vars(Flush(f)) /\ SF_vars(Insert(f))

FairSpec == Spec /\ Fairness
-----------------------------------------------------------------------------
(***************************************************************************)
(* Properties.                                                              *)
(***************************************************************************)
\* Every variable has its type, and the write lock belongs to the transaction
\* that is about to commit.
TypeOK ==
    /\ pending \in Seq(Rounds)
    /\ batch \in [Flushers -> Seq(Rounds)]
    /\ pc \in [Flushers -> {"idle", "take", "begin", "insert", "commit", "close", "exit", "returned"}]
    /\ writer \in Flushers \cup {None}
    /\ \A f \in Flushers : writer = f <=> pc[f] = "commit" /\ ~down
    /\ rows \in [Keys -> Rounds \cup {None}]
    /\ stopping \in BOOLEAN /\ closed \in BOOLEAN /\ down \in BOOLEAN
    /\ accepted \subseteq Rounds /\ written \subseteq Rounds
    /\ lost \subseteq Rounds /\ atStop \subseteq Rounds

\* A round that was accepted is in one place, whichever goroutines flush at the
\* same time: in the buffer, in a batch, written, or in a batch that failed.
\* None is forgotten, and no two Flushes carry it.  A written round is on disk, or
\* another written one of its second is.
OnePlace ==
    /\ accepted = Elems(pending) \cup InBatch \cup written \cup lost
    /\ \A i, j \in DOMAIN pending : pending[i] = pending[j] => i = j
    /\ \A f, g \in Flushers : f # g => Elems(batch[f]) \cap Elems(batch[g]) = {}
    /\ (Elems(pending) \cup InBatch) \cap (written \cup lost) = {}
    /\ Elems(pending) \cap InBatch = {}
    /\ written \cap lost = {}
    /\ Stored \subseteq written
    /\ \A r \in written : \E s \in Stored : Key[s] = Key[r]

\* The buffer is bounded although Append and Flush take wmu separately: beyond
\* the threshold, every extra round has a caller on its way to flush it.
Bounded ==
    Len(pending) < Threshold + Cardinality({p \in Probers : pc[p] = "take"})

Log == INSTANCE RoundLog WITH stored <- Stored, gone <- lost \cup (written \ Stored)

\* Append and Flush implement the promise of module RoundLog.
RoundLogSpec == Log!Spec

\* store.go:252-254 "never sit on data": an accepted round is written, or its
\* batch failed, or the process ended; a short buffer does not wait for company.
NeverSitsOnData == \A r \in Rounds : r \in accepted ~> (r \in written \cup lost \/ down)

\* docs/GUIDE.md:125 "Stop with Ctrl-C - pending data is flushed before exit":
\* what had been accepted when main closed `stop' is written when main returns.  It is
\* not when a probe loop or flushLoop has swapped it out and not committed by then.
FlushedBeforeExit == down => atStop \subseteq written
=============================================================================
