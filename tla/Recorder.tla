------------------------------ MODULE Recorder ------------------------------
(***************************************************************************)
(* One target's flight recorder (store.go), round by round: the ring that   *)
(* Append extends and Recent searches, the replay that rebuilds it from the *)
(* rounds table when the target is registered, and the probe loops, among   *)
(* them those that were told to stop and are still in a round.              *)
(*                                                                         *)
(* The write path between Append and the table is the one module RoundLog   *)
(* promises: rounds become stored in batches, or are lost.  Modules Runner  *)
(* and WriteBuffer have the rest of the story: which names there are, and   *)
(* how the batches come about.                                              *)
(***************************************************************************)
EXTENDS Naturals, FiniteSets, SequencesExt

CONSTANTS Names,    \* names the target has in turn
          Slots,    \* bound: probe-loop goroutines alive at once
          Cap,      \* ringCap
          Day,      \* replay's 24 hours
          MaxTime,  \* bound: the clock
          MaxRounds \* bound: rounds appended

ASSUME RecorderAssumption ==
    /\ "none" \notin Names
    /\ Cap \in Nat \ {0} /\ Day \in Nat /\ MaxTime \in Nat /\ MaxRounds \in Nat

VARIABLES
    now,
    reg,     \* the name the target is registered under, or "none"
    ring,    \* Store.rings[reg]
    replay,  \* what EnsureTarget is at: "no", "query", or "assign" its result
    found,   \* what replay's query returned
    loops,   \* slot -> a probeLoop: its name, when its round began (0 between rounds), stop, and whether its ticker is due
    open,    \* accepted rounds that no transaction has committed yet
    disk,    \* this target's rows of `rounds'
    history, \* history: every round accepted
    missed   \* history: rounds this registration's replay could not have shown

memory == << reg, ring, replay, found, missed >>
vars == << now, reg, ring, replay, found, loops, open, disk, history, missed >>

NoLoop == [name |-> "none"]
FreeSlots == {k \in Slots : loops[k] = NoLoop}
Running == {k \in Slots : loops[k] # NoLoop /\ ~loops[k].stop}

\* A probe loop on its way to its first round.
Loop(name) == [name |-> name, t |-> 0, due |-> TRUE, stop |-> FALSE]

\* T (when the round began, or failed), its turn among the rounds appended, and
\* whether the loop that measured it had been told to stop.
Round == [t : Nat, n : Nat \ {0}, late : BOOLEAN]

Older(r, s) == r.t < s.t

\* The last Cap rounds.  (Mutated form: the first Cap.)
Keep_Oldest(s) == SubSeq(s, 1, IF Len(s) > Cap THEN Cap ELSE Len(s))
Keep(s) == IF Len(s) > Cap THEN SubSeq(s, Len(s) - Cap + 1, Len(s)) ELSE s

Init ==
    /\ now = 1
    /\ reg = "none" /\ ring = << >> /\ replay = "no" /\ found = << >>
    /\ loops = [k \in Slots |-> NoLoop]
    /\ open = {} /\ disk = {} /\ history = {} /\ missed = {}

Advance ==
    /\ now < MaxTime
    /\ now' = now + 1
    /\ loops' = [k \in Slots |-> IF loops[k] = NoLoop THEN NoLoop ELSE [loops[k] EXCEPT !.due = TRUE]]
    /\ UNCHANGED << memory, open, disk, history >>
-----------------------------------------------------------------------------
(***************************************************************************)
(* Registration, under r.mu: one of these at a time.                        *)
(***************************************************************************)
\* EnsureTarget: the name is registered with an empty ring, then replay.
\* (Mutated form: the probe loop is started first.)
EnsureTarget_LoopFirst(name) ==
    /\ reg = "none"
    /\ reg' = name /\ ring' = << >> /\ replay' = "query"
    /\ \E k \in FreeSlots : loops' = [loops EXCEPT ![k] = Loop(name)]
    /\ UNCHANGED << now, found, open, disk, history, missed >>
EnsureTarget(name) ==
    /\ reg = "none"
    /\ reg' = name /\ ring' = << >> /\ replay' = "query"
    /\ UNCHANGED << now, found, loops, open, disk, history, missed >>

\* queryRaw(now-24h, now) ORDER BY t.
LastDay ==
    LET rows == {r \in disk : r.t + Day >= now}
    IN  CHOOSE s \in [1 .. Cardinality(rows) -> rows] : \A i, j \in DOMAIN s : i < j => Older(s[i], s[j])

Query ==
    /\ replay = "query"
    /\ replay' = "assign"
    /\ found' = LastDay
    /\ missed' = history \ disk
    /\ UNCHANGED << now, reg, ring, loops, open, disk, history >>

\* The query fails, at once or between two rows: what it has read is the result.
QueryFails ==
    /\ replay = "query"
    /\ replay' = "assign"
    /\ \E read \in 0 .. Len(LastDay) :
          /\ found' = SubSeq(LastDay, 1, read)
          /\ missed' = history \ {LastDay[i] : i \in 1 .. read}
    /\ UNCHANGED << now, reg, ring, loops, open, disk, history >>

\* The ring is replaced by the result, and apply starts the loop.
\* (Mutated form: what was appended meanwhile is put behind the result.)
Refill_Merge == Keep(found \o ring)
Refill == Keep(found)

Assign ==
    /\ replay = "assign"
    /\ ring' = Refill
    /\ replay' = "no" /\ found' = << >>
    /\ \E k \in FreeSlots : loops' = [loops EXCEPT ![k] = Loop(reg)]
    /\ UNCHANGED << now, reg, open, disk, history, missed >>

Stopped == [k \in Slots |-> IF k \in Running THEN [loops[k] EXCEPT !.stop = TRUE] ELSE loops[k]]

\* The target is deleted: close(stop), RemoveTarget.
RemoveTarget ==
    /\ reg # "none" /\ replay = "no"
    /\ loops' = Stopped
    /\ reg' = "none" /\ ring' = << >> /\ missed' = {}
    /\ UNCHANGED << now, replay, found, open, disk, history >>

\* It is edited: close(stop), RenameTarget if its name changes, and a new loop;
\* EnsureTarget finds it registered.
EditTarget(name) ==
    /\ reg # "none" /\ replay = "no"
    /\ \E k \in FreeSlots : loops' = [Stopped EXCEPT ![k] = Loop(name)]
    /\ reg' = name
    /\ UNCHANGED << now, ring, replay, found, open, disk, history, missed >>
-----------------------------------------------------------------------------
(***************************************************************************)
(* Probe loops and the write path.                                          *)
(***************************************************************************)
\* A round begins and is stamped; the interval is at least one second.
Begin(k) ==
    /\ loops[k] # NoLoop /\ loops[k].t = 0 /\ loops[k].due
    /\ loops' = [loops EXCEPT ![k].t = now, ![k].due = FALSE]
    /\ UNCHANGED << now, memory, open, disk, history >>

\* It ends, stamped anew if it failed as a whole (no address, no socket): Append
\* drops it if its loop's name is not registered.
Append_(k) ==
    /\ loops[k] # NoLoop /\ loops[k].t # 0
    /\ Cardinality(history) < MaxRounds
    /\ loops' = [loops EXCEPT ![k].t = 0]
    /\ \E t \in {loops[k].t, now} :
       LET r == [t |-> t, n |-> Cardinality(history) + 1, late |-> loops[k].stop]
       IN  IF loops[k].name = reg
           THEN /\ ring' = Keep(Append(ring, r))
                /\ open' = open \cup {r}
                /\ history' = history \cup {r}
                /\ missed' = IF replay = "assign" THEN missed \cup {r} ELSE missed
           ELSE UNCHANGED << ring, open, history, missed >>
    /\ UNCHANGED << now, reg, replay, found, disk >>

Exit(k) ==
    /\ loops[k] # NoLoop /\ loops[k].t = 0 /\ loops[k].stop
    /\ loops' = [loops EXCEPT ![k] = NoLoop]
    /\ UNCHANGED << now, memory, open, disk, history >>

\* INSERT OR REPLACE: of rounds with one stamp the last one written stays.  Which one of
\* a batch that is, is open: Append adds a round to the ring (under s.mu) and to the
\* buffer (under wmu) in two sections, so the orders of two loops' rounds may differ.
Remaining(batch) ==
    {kept \in SUBSET batch :
        /\ \A r \in batch : \E s \in kept : s.t = r.t
        /\ \A r, s \in kept : r.t = s.t => r = s}

Written(kept) == {r \in disk : \A s \in kept : s.t # r.t} \cup kept

Persist ==
    \E batch \in SUBSET open \ {{}} : \E kept \in Remaining(batch) :
        /\ disk' = Written(kept)
        /\ open' = open \ batch
        /\ UNCHANGED << now, memory, loops, history >>

Lose ==
    \E batch \in SUBSET open \ {{}} :
        /\ open' = open \ batch
        /\ UNCHANGED << now, memory, loops, disk, history >>

Crash ==
    /\ reg' = "none" /\ ring' = << >> /\ replay' = "no" /\ found' = << >>
    /\ loops' = [k \in Slots |-> NoLoop]
    /\ open' = {} /\ missed' = {}
    /\ UNCHANGED << now, disk, history >>

Next ==
    \/ Advance
    \/ \E name \in Names : EnsureTarget(name) \/ EditTarget(name)
    \/ Query \/ QueryFails \/ Assign \/ RemoveTarget
    \/ \E k \in Slots : Begin(k) \/ Append_(k) \/ Exit(k)
    \/ Persist \/ Lose \/ Crash

Spec == Init /\ [][Next]_vars
-----------------------------------------------------------------------------
(***************************************************************************)
(* Recent: sort.Search for the first round with T >= since.                 *)
(***************************************************************************)
Middle(w) == (w[1] + w[2]) \div 2

\* search[<< lo, hi >>]: the binary search over ring[lo + 1 .. hi].  (Mutated form: T > since.)
SearchFrom_After(since) ==
    LET search[w \in (0 .. Len(ring)) \X (0 .. Len(ring))] ==
            IF w[1] >= w[2] THEN w[1]
            ELSE IF ring[Middle(w) + 1].t > since
                 THEN search[<< w[1], Middle(w) >>] ELSE search[<< Middle(w) + 1, w[2] >>]
    IN  search[<< 0, Len(ring) >>]
SearchFrom(since) ==
    LET search[w \in (0 .. Len(ring)) \X (0 .. Len(ring))] ==
            IF w[1] >= w[2] THEN w[1]
            ELSE IF ring[Middle(w) + 1].t >= since
                 THEN search[<< w[1], Middle(w) >>] ELSE search[<< Middle(w) + 1, w[2] >>]
    IN  search[<< 0, Len(ring) >>]

Recent(since) == SubSeq(ring, SearchFrom(since) + 1, Len(ring))
-----------------------------------------------------------------------------
(***************************************************************************)
(* Properties.                                                              *)
(***************************************************************************)
Shown == {ring[i] : i \in DOMAIN ring}

\* Every variable has its type; the ring is bounded and holds no round twice, and a
\* target that is not registered has none.
TypeOK ==
    /\ now \in Nat
    /\ reg \in Names \cup {"none"} /\ replay \in {"no", "query", "assign"}
    /\ ring \in Seq(Round) /\ found \in Seq(Round)
    /\ Len(ring) =< Cap /\ IsInjective(ring)
    /\ reg = "none" => ring = << >> /\ replay = "no"
    /\ open \subseteq history /\ disk \subseteq history /\ missed \subseteq history
    /\ \A k \in Slots \ FreeSlots : loops[k].name \in Names /\ loops[k].stop \in BOOLEAN

\* store.go:138-139 "a target re-added with an old name comes back with its flight
\* recorder intact".  What a registered target's recorder lacks of the last day
\* is: what no transaction had committed when replay asked (or its query failed to
\* read), what was Appended
\* before replay assigned its result, and what a full ring has pushed out by
\* rounds that are newer or were appended later.
Intact ==
    reg # "none" /\ replay = "no" =>
        \A r \in history \ (Shown \cup missed) :
            \/ r.t + Day < now
            \/ /\ Len(ring) = Cap
               /\ \A s \in Shown : s.t >= r.t \/ s.n > r.n

\* What slips through while replay is under way was measured by a loop that had
\* been told to stop: a round of the running loop is never missing.
OnlyLateRoundsSlip ==
    [][replay = "assign" /\ replay' = "no" /\ reg' # "none" => \A r \in Shown : r.late]_vars

\* Recent's binary search needs rounds in order of T, and a loop that was told to stop
\* breaks it: it ends its round behind its successor's first, or goes on for another
\* round while that one lasts.  Recent, which cuts a piece off the ring, returns the
\* rounds since then and no other, unless a pair that is out of order for that reason
\* lies across the boundary.
Straddles(since) ==
    \E i, j \in DOMAIN ring :
        /\ i < j /\ ring[j].t < since /\ since =< ring[i].t
        /\ ring[i].late \/ ring[j].late

RecentExact ==
    \A since \in 0 .. now :
        \/ Straddles(since)
        \/ {Recent(since)[i] : i \in DOMAIN Recent(since)} = {r \in Shown : r.t >= since}
=============================================================================
