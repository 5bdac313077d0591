------------------------------ MODULE RoundLog ------------------------------
(***************************************************************************)
(* What the write path promises of the rounds handed to Append, without     *)
(* saying how they are buffered: a round is accepted once and afterwards    *)
(* stored or gone, never both; a round that is gone stays gone, and a       *)
(* stored one goes only when another of its primary key is stored over it.  *)
(***************************************************************************)
CONSTANTS Rounds, Key

VARIABLES accepted, stored,
          gone      \* dropped before it was stored, or replaced

Open == accepted \ (stored \cup gone)

Init == accepted = {} /\ stored = {} /\ gone = {}

Accept(r) ==
    /\ r \notin accepted
    /\ accepted' = accepted \cup {r}
    /\ UNCHANGED << stored, gone >>

\* One transaction commits a batch: one round of each of its keys stays.
Persist(batch) ==
    \E kept \in SUBSET batch :
        /\ \A r \in batch : \E s \in kept : Key[s] = Key[r]
        /\ \A r, s \in kept : Key[r] = Key[s] => r = s
        /\ stored' = kept \cup {r \in stored : \A s \in kept : Key[s] # Key[r]}
        /\ gone' = gone \cup ((stored \cup batch) \ stored')
        /\ UNCHANGED accepted

\* A transaction fails, or the process ends.
Lose(batch) ==
    /\ gone' = gone \cup batch
    /\ UNCHANGED << accepted, stored >>

Next ==
    \/ \E r \in Rounds : Accept(r)
    \/ \E batch \in SUBSET Open : Persist(batch) \/ Lose(batch)

Spec == Init /\ [][Next]_<< accepted, stored, gone >>
=============================================================================
