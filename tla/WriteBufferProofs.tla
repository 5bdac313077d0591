-------------------------- MODULE WriteBufferProofs --------------------------
(***************************************************************************)
(* Every accepted round is in one place, and the write path implements      *)
(* RoundLog, for any number of probe loops and rounds, any threshold,       *)
(* failing statements and a crash at any time.  Rounds may share a primary   *)
(* key: those of one target in one second replace each other on disk, and   *)
(* one of them is always there once one was written.                        *)
(***************************************************************************)
EXTENDS WriteBuffer, FiniteSetTheorems, WellFoundedInduction, NaturalsInduction, TLAPS

Distinct(s) == \A i, j \in DOMAIN s : s[i] = s[j] => i = j

Writing == {"begin", "insert", "commit"}

\* Only a Flush past its Take holds a batch; no batch has a round twice.
BatchesHeld ==
    \A f \in Flushers : /\ Distinct(batch[f])
                        /\ batch[f] # << >> => pc[f] \in Writing

IInv == TypeOK /\ OnePlace /\ BatchesHeld
-----------------------------------------------------------------------------
(***************************************************************************)
(* Sequences and batches.                                                   *)
(***************************************************************************)
LEMMA ElemsFacts ==
    ASSUME NEW s \in Seq(Rounds)
    PROVE  /\ Elems(s) \subseteq Rounds
           /\ s = << >> <=> Elems(s) = {}
           /\ \A r \in Rounds : Append(s, r) \in Seq(Rounds) /\ Elems(Append(s, r)) = Elems(s) \cup {r}
<1>1. Elems(s) \subseteq Rounds
  BY DEF Elems
<1>2. s = << >> <=> Elems(s) = {}
  <2>1. s = << >> => Elems(s) = {}
    BY DEF Elems
  <2>2. s # << >> => 1 \in DOMAIN s
    OBVIOUS
  <2> QED
    BY <2>1, <2>2 DEF Elems
<1>3. ASSUME NEW r \in Rounds
      PROVE  Append(s, r) \in Seq(Rounds) /\ Elems(Append(s, r)) = Elems(s) \cup {r}
  <2>1. /\ Append(s, r) \in Seq(Rounds) /\ Len(Append(s, r)) = Len(s) + 1
        /\ Append(s, r)[Len(s) + 1] = r
        /\ \A i \in 1 .. Len(s) : Append(s, r)[i] = s[i]
    OBVIOUS
  <2>2. DOMAIN s = 1 .. Len(s) /\ DOMAIN Append(s, r) = 1 .. Len(s) + 1 /\ Len(s) \in Nat
    BY <2>1
  <2>3. Elems(Append(s, r)) \subseteq Elems(s) \cup {r}
    BY <2>1, <2>2 DEF Elems
  <2>4. Elems(s) \subseteq Elems(Append(s, r))
    BY <2>1, <2>2 DEF Elems
  <2>5. r \in Elems(Append(s, r))
    BY <2>1, <2>2 DEF Elems
  <2> QED
    BY <2>1, <2>3, <2>4, <2>5
<1> QED
  BY <1>1, <1>2, <1>3

\* A Flush gives up its batch: committed, failed, or lost with the process.
LEMMA BatchGone ==
    ASSUME IInv, NEW f \in Flushers, batch' = [batch EXCEPT ![f] = << >>]
    PROVE  InBatch' = InBatch \ Elems(batch[f])
<1>1. \A g \in Flushers : batch'[g] = IF g = f THEN << >> ELSE batch[g]
  BY DEF IInv, TypeOK
<1>2. Elems(batch'[f]) = {}
  BY <1>1 DEF Elems
<1>3. \A g \in Flushers : g # f => Elems(batch[g]) \cap Elems(batch[f]) = {}
  BY DEF IInv, OnePlace
<1>4. InBatch' = UNION {Elems(batch'[g]) : g \in Flushers}
  BY DEF InBatch, Elems
<1>5. \A r : r \in InBatch' <=> \E g \in Flushers : r \in Elems(batch'[g])
  BY <1>4
<1>6. \A r : r \in InBatch <=> \E g \in Flushers : r \in Elems(batch[g])
  BY DEF InBatch
<1>7. \A g \in Flushers : g # f => Elems(batch'[g]) = Elems(batch[g])
  BY <1>1
<1> QED
  BY <1>2, <1>3, <1>5, <1>6, <1>7

\* The library's well-founded order, as a set of pairs.
LessThan == {ss \in Nat \X Nat : ss[1] < ss[2]}

\* Some place in a batch is the last of those that are looked for.
LEMMA LastOf ==
    ASSUME NEW n \in Nat, NEW S \in SUBSET (1 .. n), S # {}
    PROVE  \E i \in S : \A j \in S : j =< i
<1> DEFINE Behind == {n - i : i \in S}
<1>1. Behind \subseteq Nat /\ Behind # {}
  <2>1. \A i \in S : i \in 1 .. n /\ n - i \in Nat
    OBVIOUS
  <2> QED
    BY <2>1
<1>2. IsWellFoundedOn(LessThan, Nat)
  BY NatLessThanWellFounded, Zenon DEF OpToRel, LessThan
<1> HIDE DEF Behind
<1>3. PICK m \in Behind : \A k \in Behind : ~(<< k, m >> \in LessThan)
  BY <1>1, <1>2, WFMin
<1>4. \A k \in Behind : ~(k < m)
  BY <1>1, <1>3 DEF LessThan
<1> USE DEF Behind
<1>5. PICK i \in S : m = n - i
  OBVIOUS
<1>6. ASSUME NEW j \in S
      PROVE  j =< i
  <2>1. ~(n - j < n - i)
    BY <1>4, <1>5
  <2> QED
    BY <2>1
<1> QED
  BY <1>6

\* The table is left alone.
LEMMA DiskKept ==
    ASSUME IInv, UNCHANGED << rows, written >>
    PROVE  /\ Stored' = Stored /\ Stored' \subseteq written'
           /\ \A r \in written' : \E s \in Stored' : Key[s] = Key[r]
<1>1. Stored' = Stored
  BY DEF Stored
<1> QED
  BY <1>1 DEF IInv, OnePlace

\* One round of a key is on disk.
LEMMA OneStored ==
    /\ \A r, s \in Stored : Key[r] = Key[s] => r = s
    /\ \A r, s \in Stored' : Key[r] = Key[s] => r = s
BY DEF Stored

\* What a commit stores: rounds of the batch, for each of its keys one, and what it
\* takes from the table it replaces by one of the same key.
LEMMA CommitStores ==
    ASSUME IInv, NEW f \in Flushers, rows' = Replaced(batch[f])
    PROVE  /\ rows' \in [Keys -> Rounds \cup {None}]
           /\ Stored' \subseteq Stored \cup Elems(batch[f])
           /\ \A r \in Stored \cup Elems(batch[f]) :
                 r \in Stored' \/ \E s \in Elems(batch[f]) \cap Stored' : Key[s] = Key[r]
<1> DEFINE b == batch[f]
           at(k) == {i \in DOMAIN b : Key[b[i]] = k}
           last(k) == CHOOSE i \in at(k) : \A j \in at(k) : j =< i
<1>1. /\ b \in Seq(Rounds) /\ \A i \in DOMAIN b : b[i] \in Rounds /\ Key[b[i]] \in Keys
      /\ DOMAIN b = 1 .. Len(b) /\ Len(b) \in Nat
      /\ rows \in [Keys -> Rounds \cup {None}] /\ Key \in [Rounds -> Keys]
      /\ \A r \in Rounds : r # None
  BY WriteBufferAssumption DEF IInv, TypeOK
<1>2. ASSUME NEW k \in Keys, at(k) # {}
      PROVE  last(k) \in at(k)
  <2>1. at(k) \in SUBSET (1 .. Len(b))
    BY <1>1
  <2> HIDE DEF at
  <2>2. \E i \in at(k) : \A j \in at(k) : j =< i
    BY <1>1, <1>2, <2>1, LastOf
  <2> QED
    BY <2>2
<1>3. rows' = [k \in Keys |-> IF at(k) = {} THEN rows[k] ELSE b[last(k)]]
  BY DEF Replaced
<1> HIDE DEF last
<1>4. ASSUME NEW k \in Keys, at(k) # {}
      PROVE  rows'[k] \in Elems(b) /\ rows'[k] \in Rounds /\ Key[rows'[k]] = k
  <2>1. rows'[k] = b[last(k)]
    BY <1>3, <1>4
  <2>2. last(k) \in DOMAIN b /\ Key[b[last(k)]] = k
    BY <1>2, <1>4
  <2> QED
    BY <1>1, <2>1, <2>2 DEF Elems
<1>5. ASSUME NEW k \in Keys, at(k) = {}
      PROVE  rows'[k] = rows[k]
  BY <1>3, <1>5
<1>6. rows' \in [Keys -> Rounds \cup {None}]
  <2>1. \A k \in Keys : rows'[k] \in Rounds \cup {None}
    BY <1>1, <1>4, <1>5
  <2>2. rows' = [k \in Keys |-> rows'[k]]
    BY <1>3
  <2> QED
    BY <2>1, <2>2
<1>7. Stored' \subseteq Stored \cup Elems(b)
  <2> SUFFICES ASSUME NEW r \in Rounds, rows'[Key[r]] = r
               PROVE  rows[Key[r]] = r \/ r \in Elems(b)
    BY DEF Stored
  <2>1. Key[r] \in Keys
    BY <1>1
  <2> QED
    BY <1>4, <1>5, <2>1
<1>8. ASSUME NEW r \in Rounds, at(Key[r]) # {}
      PROVE  \E s \in Elems(b) \cap Stored' : Key[s] = Key[r]
  <2>1. Key[r] \in Keys
    BY <1>1
  <2>2. /\ rows'[Key[r]] \in Elems(b) /\ rows'[Key[r]] \in Rounds
        /\ Key[rows'[Key[r]]] = Key[r]
    BY <1>4, <1>8, <2>1
  <2>3. rows'[Key[r]] \in Stored'
    BY <2>2 DEF Stored
  <2> QED
    BY <2>2, <2>3
<1>9. ASSUME NEW r \in Elems(b)
      PROVE  \E s \in Elems(b) \cap Stored' : Key[s] = Key[r]
  <2>1. PICK i \in DOMAIN b : b[i] = r
    BY DEF Elems
  <2>2. r \in Rounds /\ i \in at(Key[r])
    BY <1>1, <2>1
  <2> QED
    BY <1>8, <2>2
<1>10. ASSUME NEW r \in Stored, r \notin Stored'
       PROVE  \E s \in Elems(b) \cap Stored' : Key[s] = Key[r]
  <2>1. r \in Rounds /\ rows[Key[r]] = r /\ rows'[Key[r]] # r /\ Key[r] \in Keys
    BY <1>1, <1>10 DEF Stored
  <2>2. at(Key[r]) # {}
    BY <1>5, <2>1
  <2> QED
    BY <1>8, <2>1, <2>2
<1> QED
  BY <1>6, <1>7, <1>9, <1>10
-----------------------------------------------------------------------------
(***************************************************************************)
(* The inductive invariant.                                                 *)
(***************************************************************************)
LEMMA InitIInv == Init => IInv
<1> SUFFICES ASSUME Init PROVE IInv
  OBVIOUS
<1>1. /\ pending = << >> /\ \A f \in Flushers : batch[f] = << >> /\ pc[f] = "idle"
      /\ writer = None /\ \A f \in Flushers : f # None
      /\ \A r \in Rounds : r # None
  BY WriteBufferAssumption DEF Init
<1>2. Elems(<< >>) = {}
  BY DEF Elems
<1>3. InBatch = {}
  BY <1>1, <1>2 DEF InBatch
<1>4. Stored = {}
  BY <1>1, WriteBufferAssumption DEF Stored, Init
<1>5. TypeOK
  <2>1. << >> \in Seq(Rounds) /\ Flushers # {}
    BY DEF Flushers
  <2>2. /\ batch \in [Flushers -> Seq(Rounds)] /\ rows \in [Keys -> Rounds \cup {None}]
        /\ pc \in [Flushers -> {"idle", "take", "begin", "insert", "commit", "close", "exit", "returned"}]
    BY <2>1 DEF Init
  <2>3. \A f \in Flushers : writer = f <=> pc[f] = "commit" /\ ~down
    BY <1>1
  <2> QED
    BY <1>1, <2>1, <2>2, <2>3 DEF Init, TypeOK
<1>6. OnePlace
  BY <1>1, <1>2, <1>3, <1>4 DEF Init, OnePlace
<1>7. BatchesHeld
  BY <1>1 DEF BatchesHeld, Distinct
<1> QED
  BY <1>5, <1>6, <1>7 DEF IInv

LEMMA AppendKeeps ==
    ASSUME IInv, NEW p \in Probers, NEW r \in Rounds, Append_(p, r)
    PROVE  IInv'
<1>1. /\ p \in Flushers /\ pc[p] = "idle" /\ ~down /\ r \notin accepted
      /\ pending' = Append(pending, r) /\ accepted' = accepted \cup {r}
      /\ pc' = [pc EXCEPT ![p] = IF Len(pending') >= Threshold THEN "take" ELSE "idle"]
      /\ UNCHANGED << batch, writer, rows, stopping, closed, down, written, lost, atStop >>
  BY DEF Append_, Goto, Flushers
<1>2. /\ pending \in Seq(Rounds) /\ pending' \in Seq(Rounds)
      /\ Elems(pending') = Elems(pending) \cup {r}
  BY <1>1, ElemsFacts DEF IInv, TypeOK
<1>3. r \notin Elems(pending) \cup InBatch \cup written \cup lost
  BY <1>1 DEF IInv, OnePlace
<1>4. InBatch' = InBatch /\ \A f \in Flushers : Elems(batch'[f]) = Elems(batch[f])
  BY <1>1 DEF InBatch
<1>5. TypeOK'
  BY <1>1, <1>2 DEF IInv, TypeOK
<1>6. Distinct(pending')
  <2>1. \A i \in DOMAIN pending : pending[i] # r
    BY <1>3 DEF Elems
  <2>2. Distinct(pending)
    BY DEF IInv, OnePlace, Distinct
  <2>3. /\ DOMAIN pending = 1 .. Len(pending) /\ DOMAIN pending' = 1 .. Len(pending) + 1
        /\ Len(pending) \in Nat /\ pending'[Len(pending) + 1] = r
        /\ \A i \in 1 .. Len(pending) : pending'[i] = pending[i]
    BY <1>1, <1>2
  <2> QED
    BY <2>1, <2>2, <2>3 DEF Distinct
<1>7. OnePlace'
  <2>1. \A f, g \in Flushers : f # g => Elems(batch'[f]) \cap Elems(batch'[g]) = {}
    BY <1>4 DEF IInv, OnePlace
  <2>2. accepted' = Elems(pending') \cup InBatch' \cup written' \cup lost'
    BY <1>1, <1>2, <1>4 DEF IInv, OnePlace
  <2>3. /\ (Elems(pending') \cup InBatch') \cap (written' \cup lost') = {}
        /\ Elems(pending') \cap InBatch' = {} /\ written' \cap lost' = {}
    BY <1>1, <1>2, <1>3, <1>4 DEF IInv, OnePlace
  <2> QED
    BY <1>1, <1>6, <2>1, <2>2, <2>3, DiskKept DEF OnePlace, Distinct
<1>8. BatchesHeld'
  <2>1. \A f \in Flushers : pc[f] \in Writing => pc'[f] = pc[f]
    BY <1>1 DEF IInv, TypeOK, Writing
  <2> QED
    BY <1>1, <2>1 DEF IInv, BatchesHeld, Distinct
<1> QED
  BY <1>5, <1>7, <1>8 DEF IInv

LEMMA TakeKeeps ==
    ASSUME IInv, NEW f \in Flushers, Take(f)
    PROVE  IInv'
<1>1. /\ pc[f] = "take" /\ ~down /\ pending' = << >>
      /\ batch' = [batch EXCEPT ![f] = pending]
      /\ pc' = [pc EXCEPT ![f] = IF pending = << >> THEN IF f = Main THEN "close" ELSE "idle" ELSE "begin"]
      /\ UNCHANGED << writer, rows, stopping, closed, down, accepted, written, lost, atStop >>
  BY DEF Take, Returned, Goto
<1>2. batch[f] = << >>
  BY <1>1 DEF IInv, BatchesHeld, Writing
<1>3. \A g \in Flushers : batch'[g] = IF g = f THEN pending ELSE batch[g]
  BY <1>1 DEF IInv, TypeOK
<1>4. Elems(<< >>) = {}
  BY DEF Elems
<1>5. InBatch' = InBatch \cup Elems(pending)
  <2>1. InBatch' = UNION {Elems(batch'[g]) : g \in Flushers}
    BY DEF InBatch, Elems
  <2>2. \A r : r \in InBatch' <=> \E g \in Flushers : r \in Elems(batch'[g])
    BY <2>1
  <2>3. \A r : r \in InBatch <=> \E g \in Flushers : r \in Elems(batch[g])
    BY DEF InBatch
  <2>4. \A g \in Flushers : Elems(batch'[g]) = IF g = f THEN Elems(pending) ELSE Elems(batch[g])
    BY <1>3
  <2> QED
    BY <2>2, <2>3, <2>4, <1>2, <1>4
<1>6. /\ Stored' = Stored /\ Stored' \subseteq written'
      /\ \A r \in written' : \E s \in Stored' : Key[s] = Key[r]
  BY <1>1, DiskKept
<1>7. TypeOK'
  BY <1>1 DEF IInv, TypeOK
<1>8. Distinct(pending)
  BY DEF IInv, OnePlace, Distinct
<1>9. \A g \in Flushers : Elems(batch[g]) \subseteq InBatch
  BY DEF InBatch
<1>10. OnePlace'
  <2>1. \A g, h \in Flushers : g # h => Elems(batch'[g]) \cap Elems(batch'[h]) = {}
    <3>1. \A g, h \in Flushers : g # h => Elems(batch[g]) \cap Elems(batch[h]) = {}
      BY DEF IInv, OnePlace
    <3>2. Elems(pending) \cap InBatch = {}
      BY DEF IInv, OnePlace
    <3>3. \A g \in Flushers : Elems(batch'[g]) = IF g = f THEN Elems(pending) ELSE Elems(batch[g])
      BY <1>3
    <3> QED
      BY <3>1, <3>2, <3>3, <1>9
  <2>2. accepted' = Elems(pending') \cup InBatch' \cup written' \cup lost'
    BY <1>1, <1>4, <1>5, <1>6 DEF IInv, OnePlace
  <2>3. /\ (Elems(pending') \cup InBatch') \cap (written' \cup lost') = {}
        /\ Elems(pending') \cap InBatch' = {} /\ written' \cap lost' = {}
    BY <1>1, <1>4, <1>5, <1>6 DEF IInv, OnePlace
  <2>4. \A i, j \in DOMAIN pending' : pending'[i] = pending'[j] => i = j
    BY <1>1
  <2> QED
    BY <1>6, <2>1, <2>2, <2>3, <2>4 DEF OnePlace
<1>11. BatchesHeld'
  BY <1>1, <1>3, <1>8 DEF IInv, BatchesHeld, Distinct, Writing, TypeOK
<1> QED
  BY <1>7, <1>10, <1>11 DEF IInv

\* A step that moves goroutines and the write lock only.
LEMMA MovesKeep ==
    ASSUME IInv, TypeOK', UNCHANGED << pending, batch, rows, accepted, written, lost >>,
           \A f \in Flushers : pc[f] \in Writing => pc'[f] \in Writing
    PROVE  IInv'
<1>1. InBatch' = InBatch /\ Stored' = Stored /\ Elems(pending') = Elems(pending)
  BY DEF InBatch, Stored
<1>2. OnePlace'
  BY <1>1 DEF IInv, OnePlace
<1>3. BatchesHeld'
  BY DEF IInv, BatchesHeld, Distinct
<1> QED
  BY <1>2, <1>3 DEF IInv

\* A step of a goroutine outside a transaction.
LEMMA GotoKeeps ==
    ASSUME IInv, NEW f \in Flushers, NEW l \in {"take", "close", "exit", "returned"},
           pc[f] \notin Writing, Goto(f, l),
           UNCHANGED << pending, batch, writer, rows, down, accepted, written, lost >>,
           stopping' \in BOOLEAN, closed' \in BOOLEAN, atStop' \subseteq Rounds
    PROVE  IInv'
<1>1. \A g \in Flushers : pc'[g] = IF g = f THEN l ELSE pc[g]
  BY DEF Goto, IInv, TypeOK
<1>2. \A g \in Flushers : writer' = g <=> pc'[g] = "commit" /\ ~down'
  BY <1>1 DEF Writing, IInv, TypeOK
<1>3. pc' \in [Flushers -> {"idle", "take", "begin", "insert", "commit", "close", "exit", "returned"}]
  BY DEF Goto, IInv, TypeOK
<1>4. TypeOK'
  BY <1>2, <1>3 DEF IInv, TypeOK
<1> QED
  BY <1>1, <1>4, MovesKeep

LEMMA CommitKeeps ==
    ASSUME IInv, NEW f \in Flushers, Commit(f)
    PROVE  IInv'
<1>1. /\ pc[f] = "commit" /\ ~down /\ writer' = None
      /\ batch' = [batch EXCEPT ![f] = << >>]
      /\ rows' = Replaced(batch[f])
      /\ pc' = [pc EXCEPT ![f] = IF f = Main THEN "close" ELSE "idle"]
      /\ written' = written \cup Elems(batch[f])
      /\ UNCHANGED << pending, stopping, closed, down, accepted, lost, atStop >>
  BY DEF Commit, Returned, Goto
<1>2. InBatch' = InBatch \ Elems(batch[f])
  BY <1>1, BatchGone
<1>3. /\ rows' \in [Keys -> Rounds \cup {None}]
      /\ Stored' \subseteq Stored \cup Elems(batch[f])
      /\ \A r \in Stored \cup Elems(batch[f]) :
            r \in Stored' \/ \E s \in Elems(batch[f]) \cap Stored' : Key[s] = Key[r]
  BY <1>1, CommitStores
<1>4. Elems(batch[f]) \subseteq InBatch /\ Elems(batch[f]) \subseteq Rounds
  BY ElemsFacts DEF InBatch, IInv, TypeOK
<1>5. \A g \in Flushers : batch'[g] = IF g = f THEN << >> ELSE batch[g]
  BY <1>1 DEF IInv, TypeOK
<1>6. TypeOK'
  <2>1. writer = f /\ \A g \in Flushers : pc[g] = "commit" => g = f
    BY <1>1 DEF IInv, TypeOK
  <2>2. \A g \in Flushers : pc'[g] # "commit" /\ g # None
    BY <1>1, <2>1, WriteBufferAssumption DEF IInv, TypeOK
  <2> QED
    BY <1>1, <1>3, <1>4, <2>2 DEF IInv, TypeOK
<1>7. OnePlace'
  <2>1. Elems(<< >>) = {}
    BY DEF Elems
  <2>2. \A g, h \in Flushers : g # h => Elems(batch'[g]) \cap Elems(batch'[h]) = {}
    BY <1>5, <2>1 DEF IInv, OnePlace
  <2>3. Stored' \subseteq written'
    BY <1>1, <1>3 DEF IInv, OnePlace
  <2>4. ASSUME NEW r \in written'
        PROVE  \E s \in Stored' : Key[s] = Key[r]
    <3>1. PICK q \in Stored \cup Elems(batch[f]) : Key[q] = Key[r]
      BY <1>1, <2>4 DEF IInv, OnePlace
    <3> QED
      BY <1>3, <3>1
  <2>5. /\ accepted' = Elems(pending') \cup InBatch' \cup written' \cup lost'
        /\ (Elems(pending') \cup InBatch') \cap (written' \cup lost') = {}
        /\ Elems(pending') \cap InBatch' = {} /\ written' \cap lost' = {}
    BY <1>1, <1>2, <1>4 DEF IInv, OnePlace
  <2>6. \A i, j \in DOMAIN pending' : pending'[i] = pending'[j] => i = j
    BY <1>1 DEF IInv, OnePlace
  <2> QED
    BY <2>2, <2>3, <2>4, <2>5, <2>6 DEF OnePlace
<1>8. BatchesHeld'
  BY <1>1, <1>5 DEF IInv, BatchesHeld, Distinct, TypeOK
<1> QED
  BY <1>6, <1>7, <1>8 DEF IInv

LEMMA FailKeeps ==
    ASSUME IInv, NEW f \in Flushers, Fail(f)
    PROVE  IInv'
<1>1. /\ pc[f] \in Writing /\ ~down
      /\ batch' = [batch EXCEPT ![f] = << >>]
      /\ lost' = lost \cup Elems(batch[f])
      /\ writer' = IF writer = f THEN None ELSE writer
      /\ pc' = [pc EXCEPT ![f] = IF f = Main THEN "close" ELSE "idle"]
      /\ UNCHANGED << pending, rows, stopping, closed, down, accepted, written, atStop >>
  BY DEF Fail, Returned, Goto, Writing
<1>2. InBatch' = InBatch \ Elems(batch[f])
  BY <1>1, BatchGone
<1>3. /\ Stored' = Stored /\ Stored' \subseteq written'
      /\ \A r \in written' : \E s \in Stored' : Key[s] = Key[r]
  BY <1>1, DiskKept
<1>4. Elems(batch[f]) \subseteq InBatch /\ Elems(batch[f]) \subseteq Rounds
  BY ElemsFacts DEF InBatch, IInv, TypeOK
<1>5. \A g \in Flushers : batch'[g] = IF g = f THEN << >> ELSE batch[g]
  BY <1>1 DEF IInv, TypeOK
<1>6. TypeOK'
  <2>1. \A g \in Flushers : writer' = g <=> pc'[g] = "commit" /\ ~down'
    BY <1>1, WriteBufferAssumption DEF IInv, TypeOK
  <2> QED
    BY <1>1, <1>4, <2>1 DEF IInv, TypeOK
<1>7. OnePlace'
  <2>1. Elems(<< >>) = {}
    BY DEF Elems
  <2>2. \A g, h \in Flushers : g # h => Elems(batch'[g]) \cap Elems(batch'[h]) = {}
    BY <1>5, <2>1 DEF IInv, OnePlace
  <2> QED
    BY <1>1, <1>2, <1>3, <1>4, <2>2 DEF IInv, OnePlace
<1>8. BatchesHeld'
  BY <1>1, <1>5 DEF IInv, BatchesHeld, Distinct, TypeOK
<1> QED
  BY <1>6, <1>7, <1>8 DEF IInv

LEMMA GoDownKeeps ==
    ASSUME IInv, GoDown
    PROVE  IInv'
<1>1. /\ down' = TRUE /\ lost' = lost \cup Elems(pending) \cup InBatch
      /\ pending' = << >> /\ writer' = None
      /\ batch' = [f \in Flushers |-> << >>]
      /\ UNCHANGED << pc, rows, stopping, closed, accepted, written, atStop >>
  BY DEF GoDown
<1>2. /\ Elems(<< >>) = {} /\ Stored' \subseteq written'
      /\ \A r \in written' : \E s \in Stored' : Key[s] = Key[r]
  BY <1>1, DiskKept DEF Elems
<1>3. \A f \in Flushers : batch'[f] = << >>
  BY <1>1
<1>4. InBatch' = {}
  <2>1. InBatch' = UNION {Elems(batch'[g]) : g \in Flushers}
    BY DEF InBatch, Elems
  <2> QED
    BY <2>1, <1>2, <1>3
<1>5. InBatch \subseteq Rounds /\ Elems(pending) \subseteq Rounds
  BY ElemsFacts DEF InBatch, IInv, TypeOK
<1>6. TypeOK'
  BY <1>1, <1>5, WriteBufferAssumption DEF IInv, TypeOK
<1>7. OnePlace'
  BY <1>1, <1>2, <1>3, <1>4 DEF IInv, OnePlace
<1>8. BatchesHeld'
  BY <1>3 DEF BatchesHeld, Distinct
<1> QED
  BY <1>6, <1>7, <1>8 DEF IInv

LEMMA StepKeeps ==
    ASSUME IInv, Next
    PROVE  IInv'
<1>1. ASSUME NEW p \in Probers, NEW r \in Rounds, Append_(p, r)
      PROVE  IInv'
  BY <1>1, AppendKeeps
<1>2. CASE Tick \/ LoopReturns
  <2>1. FlushLoop \in Flushers
    BY DEF Flushers
  <2>2. CASE Tick
    BY <2>1, <2>2, GotoKeeps DEF Tick, IInv, TypeOK, Writing
  <2>3. CASE LoopReturns
    BY <2>1, <2>3, GotoKeeps DEF LoopReturns, IInv, TypeOK, Writing
  <2> QED
    BY <1>2, <2>2, <2>3
<1>3. ASSUME NEW f \in Flushers, Begin(f) \/ Insert(f)
      PROVE  IInv'
  <2>1. CASE Begin(f)
    <3>1. TypeOK'
      BY <2>1 DEF Begin, Goto, IInv, TypeOK
    <3> QED
      BY <2>1, <3>1, MovesKeep DEF Begin, Goto, Writing, IInv, TypeOK
  <2>2. CASE Insert(f)
    <3>1. /\ ~down /\ writer = None /\ writer' = f
          /\ pc' = [pc EXCEPT ![f] = "commit"]
          /\ UNCHANGED << pending, batch, rows, stopping, closed, down, accepted, written, lost, atStop >>
      BY <2>2 DEF Insert, Goto
    <3>2. \A g \in Flushers : pc'[g] = IF g = f THEN "commit" ELSE pc[g]
      BY <3>1 DEF IInv, TypeOK
    <3>3. \A g \in Flushers : pc[g] # "commit"
      BY <3>1, WriteBufferAssumption DEF IInv, TypeOK
    <3>4. \A g \in Flushers : writer' = g <=> pc'[g] = "commit" /\ ~down'
      BY <3>1, <3>2, <3>3
    <3>5. TypeOK'
      BY <3>1, <3>4 DEF IInv, TypeOK
    <3> QED
      BY <3>1, <3>2, <3>5, MovesKeep DEF Writing
  <2> QED
    BY <1>3, <2>1, <2>2
<1>4. ASSUME NEW f \in Flushers, Take(f) \/ Commit(f) \/ Fail(f)
      PROVE  IInv'
  BY <1>4, TakeKeeps, CommitKeeps, FailKeeps
<1>5. CASE Signal
  <2>1. Main \in Flushers
    BY DEF Flushers
  <2> QED
    BY <1>5, <2>1, GotoKeeps DEF Signal, IInv, TypeOK, Writing
<1>6. CASE CloseDB
  <2>1. Main \in Flushers
    BY DEF Flushers
  <2> QED
    BY <1>6, <2>1, GotoKeeps DEF CloseDB, IInv, TypeOK, Writing
<1>7. CASE Exit \/ Crash
  BY <1>7, GoDownKeeps DEF Exit, Crash
<1> QED
  BY <1>1, <1>2, <1>3, <1>4, <1>5, <1>6, <1>7 DEF Next, Flush

LEMMA StutterKeeps ==
    ASSUME IInv, UNCHANGED vars
    PROVE  IInv'
<1>1. TypeOK'
  BY DEF vars, IInv, TypeOK
<1> QED
  BY <1>1, MovesKeep DEF vars

\* The invariant of every behaviour.
THEOREM Invariant == Spec => []IInv
<1>1. ASSUME IInv, [Next]_vars
      PROVE  IInv'
  BY <1>1, StepKeeps, StutterKeeps
<1> QED
  BY InitIInv, <1>1, PTL DEF Spec
-----------------------------------------------------------------------------
(***************************************************************************)
(* What follows.                                                            *)
(***************************************************************************)
\* Every variable has its type, and SQLite's write lock belongs to the transaction
\* that is about to commit.
THEOREM TypeCorrect == Spec => []TypeOK
BY Invariant, PTL DEF IInv

\* store.go's Append, Flush and Close in any interleaving: no accepted round is
\* forgotten, and no two Flushes carry the same one.
THEOREM RoundsInOnePlace == Spec => []OnePlace
BY Invariant, PTL DEF IInv

Takers == {p \in Probers : pc[p] = "take"}

LEMMA TakersFinite == IsFiniteSet(Takers) /\ Cardinality(Takers) \in Nat
BY WriteBufferAssumption, FS_Subset, FS_CardinalityType DEF Takers

LEMMA StepBounded ==
    ASSUME IInv, Bounded, Next
    PROVE  Bounded'
<1>1. Bounded <=> Len(pending) < Threshold + Cardinality(Takers)
  BY DEF Bounded, Takers
<1>2. Bounded' <=> Len(pending') < Threshold + Cardinality(Takers')
  BY DEF Bounded, Takers
<1>3. Threshold \in Nat /\ Threshold > 0 /\ pending \in Seq(Rounds)
  BY WriteBufferAssumption DEF IInv, TypeOK
<1>4. IsFiniteSet(Takers') /\ Cardinality(Takers') \in Nat
  BY WriteBufferAssumption, FS_Subset, FS_CardinalityType DEF Takers
<1>5. ASSUME pending' = << >>
      PROVE  Bounded'
  BY <1>2, <1>3, <1>4, <1>5
<1>6. ASSUME pending' = pending, Takers' = Takers
      PROVE  Bounded'
  BY <1>1, <1>2, <1>6
<1>7. ASSUME NEW p \in Probers, NEW r \in Rounds, Append_(p, r)
      PROVE  Bounded'
  <2>1. /\ pc[p] = "idle" /\ p \in Flushers /\ pending' = Append(pending, r)
        /\ pc' = [pc EXCEPT ![p] = IF Len(pending') >= Threshold THEN "take" ELSE "idle"]
    BY <1>7 DEF Append_, Goto, Flushers
  <2>2. Len(pending') = Len(pending) + 1 /\ Len(pending) \in Nat
    BY <2>1, <1>3
  <2>3. CASE Len(pending') >= Threshold
    <3>1. Takers' = Takers \cup {p} /\ p \notin Takers
      BY <2>1, <2>3 DEF Takers, IInv, TypeOK
    <3>2. Cardinality(Takers') = Cardinality(Takers) + 1
      BY <3>1, TakersFinite, FS_AddElement
    <3> QED
      BY <1>1, <1>2, <2>2, <3>2, <1>3, TakersFinite
  <2>4. CASE ~(Len(pending') >= Threshold)
    BY <1>2, <1>3, <1>4, <2>2, <2>4
  <2> QED
    BY <2>3, <2>4
<1>8. ASSUME NEW f \in Flushers, Take(f)
      PROVE  Bounded'
  BY <1>5, <1>8 DEF Take
<1>9. ASSUME NEW f \in Flushers, Begin(f) \/ Insert(f) \/ Commit(f) \/ Fail(f)
      PROVE  Bounded'
  <2>1. pending' = pending
    BY <1>9 DEF Begin, Insert, Commit, Fail
  <2>2. pc[f] # "take" /\ \E l \in {"insert", "commit", "close", "idle"} : pc' = [pc EXCEPT ![f] = l]
    BY <1>9 DEF Begin, Insert, Commit, Fail, Returned, Goto
  <2>3. Takers' = Takers
    BY <2>2 DEF Takers, Flushers, IInv, TypeOK
  <2> QED
    BY <1>6, <2>1, <2>3
<1>10. CASE Tick \/ LoopReturns
  BY <1>6, <1>10, WriteBufferAssumption DEF Tick, LoopReturns, Goto, Takers, Flushers, IInv, TypeOK
<1>11. CASE Signal \/ CloseDB
  BY <1>6, <1>11, WriteBufferAssumption DEF Signal, CloseDB, Goto, Takers, Flushers, IInv, TypeOK
<1>12. CASE Exit \/ Crash
  BY <1>5, <1>12 DEF Exit, Crash, GoDown
<1> QED
  BY <1>7, <1>8, <1>9, <1>10, <1>11, <1>12 DEF Next, Flush

\* The buffer is bounded, however many probe loops append while a flush is on its
\* way (store.go:237-262).
THEOREM BufferBounded == Spec => []Bounded
<1>1. Init => Bounded
  <2> SUFFICES ASSUME Init PROVE Bounded
    OBVIOUS
  <2> QED
    BY TakersFinite, WriteBufferAssumption DEF Init, Bounded, Takers
<1>2. ASSUME IInv, Bounded, [Next]_vars
      PROVE  Bounded'
  <2>1. CASE UNCHANGED vars
    BY <1>2, <2>1 DEF vars, Bounded
  <2> QED
    BY <1>2, <2>1, StepBounded
<1> QED
  BY Invariant, <1>1, <1>2, PTL DEF Spec

Gone == lost \cup (written \ Stored)

LEMMA StepRefines ==
    ASSUME IInv, Next
    PROVE  Log!Next \/ UNCHANGED << accepted, Stored, Gone >>
<1>1. ASSUME UNCHANGED << rows, written >>
      PROVE  Stored' = Stored /\ (lost' = lost => Gone' = Gone)
  BY <1>1 DEF Stored, Gone
<1>2. Elems(pending) \cup InBatch \in SUBSET Log!Open
  BY DEF IInv, OnePlace, Log!Open
<1>3. ASSUME NEW E, E \subseteq Elems(pending) \cup InBatch, lost' = lost \cup E,
             UNCHANGED << accepted, rows, written >>
      PROVE  Log!Next
  <2>1. Stored' = Stored
    BY <1>1, <1>3
  <2>2. Log!Lose(E)
    BY <1>3, <2>1 DEF Log!Lose
  <2> QED
    BY <1>2, <1>3, <2>2 DEF Log!Next
<1>4. ASSUME NEW p \in Probers, NEW r \in Rounds, Append_(p, r)
      PROVE  Log!Next
  <2>1. Stored' = Stored
    BY <1>4 DEF Append_, Stored
  <2> QED
    BY <1>4, <2>1 DEF Append_, Log!Next, Log!Accept
<1>5. ASSUME NEW f \in Flushers, Commit(f)
      PROVE  Log!Next
  <2> DEFINE E == Elems(batch[f])
             kept == E \cap Stored'
  <2>1. written' = written \cup E /\ lost' = lost /\ accepted' = accepted
    BY <1>5 DEF Commit
  <2>2. /\ Stored' \subseteq Stored \cup E
        /\ \A r \in Stored \cup E : r \in Stored' \/ \E s \in kept : Key[s] = Key[r]
    BY <1>5, CommitStores DEF Commit
  <2>3. Stored \subseteq written /\ written \cap E = {} /\ E \in SUBSET Log!Open
    BY <1>2 DEF IInv, OnePlace, InBatch
  <2> HIDE DEF E
  <2>4. \A r \in E : \E s \in kept : Key[s] = Key[r]
    BY <2>2
  <2>5. \A r, s \in kept : Key[r] = Key[s] => r = s
    BY OneStored
  <2>6. Stored' = kept \cup {r \in Stored : \A s \in kept : Key[s] # Key[r]}
    <3>1. \A r \in Stored' : r \in kept \/ (r \in Stored /\ \A s \in kept : Key[s] # Key[r])
      BY <2>2, OneStored
    <3> QED
      BY <2>2, <3>1
  <2>7. lost' \cup (written' \ Stored') = (lost \cup (written \ Stored)) \cup ((Stored \cup E) \ Stored')
    BY <2>1, <2>2, <2>3
  <2>8. Log!Persist(E)
    <3>1. kept \in SUBSET E
      OBVIOUS
    <3> HIDE DEF kept
    <3> QED
      BY <2>1, <2>4, <2>5, <2>6, <2>7, <3>1 DEF Log!Persist
  <2> QED
    BY <2>3, <2>8 DEF Log!Next
<1>6. ASSUME NEW f \in Flushers, Fail(f)
      PROVE  Log!Next
  <2>1. Elems(batch[f]) \subseteq InBatch
    BY DEF InBatch
  <2> QED
    BY <1>3, <1>6, <2>1 DEF Fail
<1>7. CASE Exit \/ Crash
  BY <1>3, <1>7 DEF Exit, Crash, GoDown
<1>8. ASSUME NEW f \in Flushers, Take(f) \/ Begin(f) \/ Insert(f)
      PROVE  UNCHANGED << accepted, Stored, Gone >>
  BY <1>1, <1>8 DEF Take, Begin, Insert
<1>9. CASE Tick \/ LoopReturns \/ Signal \/ CloseDB
  BY <1>1, <1>9 DEF Tick, LoopReturns, Signal, CloseDB
<1> QED
  BY <1>4, <1>5, <1>6, <1>7, <1>8, <1>9 DEF Next, Flush

\* Append and Flush implement RoundLog: a round is accepted once, then stored or
\* gone, and a stored one goes only when another of its second is stored over it.
THEOREM ImplementsRoundLog == Spec => RoundLogSpec
<1>1. Init => Log!Init
  <2> SUFFICES ASSUME Init PROVE Log!Init
    OBVIOUS
  <2>1. \A r \in Rounds : rows[Key[r]] = None /\ r # None
    BY WriteBufferAssumption DEF Init
  <2> QED
    BY <2>1 DEF Init, Stored, Log!Init
<1>2. ASSUME IInv, [Next]_vars
      PROVE  Log!Next \/ UNCHANGED << accepted, Stored, lost \cup (written \ Stored) >>
  <2>1. CASE UNCHANGED vars
    BY <2>1 DEF vars, Stored
  <2> QED
    BY <1>2, <2>1, StepRefines DEF Gone
<1>3. ASSUME IInv, [Next]_vars
      PROVE  [Log!Next]_<< accepted, Stored, lost \cup (written \ Stored) >>
  BY <1>2, <1>3
<1> QED
  BY Invariant, <1>1, <1>3, PTL DEF Spec, RoundLogSpec, Log!Spec
=============================================================================
