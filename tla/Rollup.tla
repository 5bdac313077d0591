------------------------------- MODULE Rollup -------------------------------
(***************************************************************************)
(* The two storage tiers of store.go and the housekeeping goroutine of      *)
(* main.go: raw rounds, the hourly buckets Rollup recomputes from them, and *)
(* the nightly Retention that deletes from both.                            *)
(*                                                                         *)
(* Time is counted in units.  Targets do not interact here, so the model    *)
(* has one: a round is its second t.  A bucket is abstracted to the set of  *)
(* rounds its percentiles were computed from, and `hourly' is the union of  *)
(* all stored buckets; the bucket of t is Hour(t).                          *)
(***************************************************************************)
EXTENDS Naturals, FiniteSets

CONSTANTS B,          \* bucketSec
          HOT,        \* HotDays, as a duration
          KEEP,       \* RetentionDays, as a duration
          DAY,        \* one day: retention runs at night
          Skew,       \* how far `now.AddDate(0,0,-n)' can be from now - n*24h (DST)
          MaxLag,     \* bound: how long a running process may go without a completed tick
          MaxDown,    \* bound: the same for a stopped process
          Faults,     \* whether a rollup or a DELETE may fail
          MaxTime, MaxRounds   \* bounds: the clock, and rounds measured

ASSUME RollupAssumption ==
    /\ B \in Nat \ {0} /\ DAY \in Nat \ {0}
    /\ HOT \in Nat \ {0} /\ KEEP \in Nat
    /\ Skew \in Nat /\ MaxLag \in Nat /\ MaxDown \in Nat
    /\ Faults \in BOOLEAN /\ MaxTime \in Nat /\ MaxRounds \in Nat

VARIABLES
    now,
    raw,       \* rounds
    hourly,    \* rounds_hourly: the rounds covered by the stored buckets
    pc,        \* housekeeping: before its first tick, inside Rollup, after a tick in
               \* this unit, waiting for the next one, or no process
    last,      \* rollupSched.last, 0 when zero
    out,       \* what Rollup has read from raw and not written yet
    probed,    \* history: every round ever stored
    rolled,    \* history: every round a stored bucket was ever computed from
    cut,       \* history: the latest cut of Retention in raw
    idle       \* history: when housekeeping last completed a tick

vars == << now, raw, hourly, pc, last, out, probed, rolled, cut, idle >>

Hour(t) == t \div B
Floor(t) == (t \div B) * B
Ceil(t) == ((t + B - 1) \div B) * B

Begin == HOT + KEEP + Skew + 2 * B    \* the clock starts late enough for every subtraction

Init ==
    /\ now = Begin
    /\ raw = {} /\ hourly = {} /\ probed = {}
    /\ pc = "start" /\ last = 0 /\ out = {}
    /\ rolled = {} /\ cut = 0 /\ idle = now

\* The clock.  MaxLag and MaxDown bound how late a tick and a restart may
\* be, counted from the last tick that succeeded.  The first
\* tick of a process comes at once, and one Rollup takes less than a unit.
Advance ==
    /\ now < MaxTime
    /\ pc \in {"ticked", "waiting", "down"}
    /\ now - idle < IF pc = "down" THEN MaxDown ELSE MaxLag
    /\ now' = now + 1
    /\ pc' = IF pc = "down" THEN pc ELSE "waiting"
    /\ UNCHANGED << raw, hourly, last, out, probed, rolled, cut, idle >>

\* A round is stamped when it starts and stored when its batch commits, which
\* may be in the next unit.
Store ==
    /\ pc # "down" /\ Cardinality(probed) < MaxRounds
    /\ \E t \in {now, now - 1} \ probed :
          /\ raw' = raw \cup {t}
          /\ probed' = probed \cup {t}
    /\ UNCHANGED << now, hourly, pc, last, out, rolled, cut, idle >>

\* rollupSched.tick decides what Rollup covers: everything back to the horizon
\* on the first tick of the process, two buckets later on.
Horizon == now - HOT
Since == IF last = 0 THEN Horizon ELSE now - 2 * B

\* Rollup's rule: the start is aligned down to a bucket, or up from the horizon
\* when it would lie before it.  Mutated forms: no alignment; no full first tick.
Start_Unaligned == IF Since < Horizon THEN Horizon ELSE Since
Start_NoCatchUp ==
    IF Floor(now - 2 * B) < Horizon THEN Ceil(Horizon) ELSE Floor(now - 2 * B)
Start == IF Floor(Since) < Horizon THEN Ceil(Horizon) ELSE Floor(Since)

\* tick, first half: Rollup's streaming pass over raw.
ReadRaw ==
    /\ pc \in {"start", "waiting", "ticked"} /\ last # now
    /\ pc' = "write"
    /\ out' = {t \in raw : t >= Start}
    /\ UNCHANGED << now, raw, hourly, last, probed, rolled, cut, idle >>

\* Second half: every bucket that got a row is replaced, in one transaction;
\* tick remembers when it succeeded.
WriteHourly ==
    /\ pc = "write"
    /\ hourly' = {t \in hourly : \A u \in out : Hour(u) # Hour(t)} \cup out
    /\ pc' = "ticked" /\ out' = {}
    /\ last' = now /\ idle' = now
    /\ rolled' = rolled \cup out
    /\ UNCHANGED << now, raw, probed, cut >>

\* Rollup fails: tick logs it and leaves `last' alone.
\* (Mutated form: what was read is kept for the next tick.)
RollupFails_Keep ==
    /\ Faults /\ pc = "write"
    /\ pc' = "ticked"
    /\ UNCHANGED << now, raw, hourly, last, out, probed, rolled, cut, idle >>
RollupFails ==
    /\ Faults /\ pc = "write"
    /\ pc' = "ticked" /\ out' = {}
    /\ UNCHANGED << now, raw, hourly, last, probed, rolled, cut, idle >>

\* Retention at 00:05.  It is skipped on a night without a tick in that minute.
\* The two DELETEs fail independently.
Night == now % DAY = 0

RawCuts == (now - HOT - Skew) .. (now - HOT + Skew)
KeepCuts == (now - KEEP - Skew) .. (now - KEEP + Skew)

\* DELETE FROM rounds WHERE t < cut.  (Mutated form: <= cut.)
DropRaw_Inclusive ==
    \/ \E d \in RawCuts : /\ raw' = {t \in raw : t > d}
                          /\ cut' = IF d > cut THEN d ELSE cut
    \/ Faults /\ UNCHANGED << raw, cut >>
DropRaw ==
    \/ \E d \in RawCuts : /\ raw' = {t \in raw : t >= d}
                          /\ cut' = IF d > cut THEN d ELSE cut
    \/ Faults /\ UNCHANGED << raw, cut >>

DropHourly ==
    \/ \E d \in KeepCuts : hourly' = {t \in hourly : Floor(t) >= d}
    \/ Faults /\ UNCHANGED hourly

\* The housekeeping loop ticks, or finds the last tick recent, before it
\* looks at the clock for Retention.
Retention ==
    /\ pc = "ticked" /\ Night
    /\ DropRaw /\ DropHourly
    /\ UNCHANGED << now, pc, last, out, probed, rolled, idle >>

\* The process stops or crashes, and is started again.
Stop ==
    /\ pc # "down"
    /\ pc' = "down" /\ last' = 0 /\ out' = {}
    /\ UNCHANGED << now, raw, hourly, probed, rolled, cut, idle >>

Restart ==
    /\ pc = "down"
    /\ pc' = "start"
    /\ UNCHANGED << now, raw, hourly, last, out, probed, rolled, cut, idle >>

Next ==
    \/ Advance \/ Store
    \/ ReadRaw \/ WriteHourly \/ RollupFails
    \/ Retention
    \/ Stop \/ Restart

Spec == Init /\ [][Next]_vars
-----------------------------------------------------------------------------
(***************************************************************************)
(* Properties.                                                              *)
(***************************************************************************)
\* Every variable has its type; both tiers hold only rounds that were stored, and
\* a tick carries nothing over to the next one.
TypeOK ==
    /\ now \in Nat /\ last \in Nat /\ cut \in Nat /\ idle \in Nat
    /\ pc \in {"start", "write", "ticked", "waiting", "down"}
    /\ probed \subseteq Nat
    /\ raw \subseteq probed /\ rolled \subseteq probed /\ hourly \subseteq rolled /\ out \subseteq raw
    /\ pc # "write" => out = {}

\* store.go:430-434: a recompute never replaces a bucket by a truncated one.  A
\* bucket loses rounds only by being dropped as a whole.
NoTruncation ==
    [][\A t \in hourly \ hourly' : \A u \in hourly' : Hour(u) # Hour(t)]_vars

\* The exception to NoTruncation: in the night of a clock change retention's cut may
\* lie Skew units above the horizon, and a bucket that starts between the two may
\* lose what the cut deleted, and nothing else.
TruncatedOnlyByCut ==
    [][\A t \in hourly \ hourly' : \A u \in hourly' :
          Hour(u) = Hour(t) => Horizon =< Floor(t) /\ t < cut]_vars

\* What a recompute may rely on: raw still holds every round that is not older
\* than the horizon, but for the hour of a clock change.
RawHoldsHorizon == \A t \in probed : t >= Horizon + Skew => t \in raw

\* store.go:18-20: the hourly rollup keeps the shape "for the whole retention
\* window".  No round is dropped from raw that was not rolled up into its bucket.
RolledBeforeDropped == probed \ raw \subseteq rolled
=============================================================================
