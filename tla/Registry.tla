------------------------------ MODULE Registry ------------------------------
(***************************************************************************)
(* What the list of targets promises, whatever interleaving of web requests *)
(* produced it: an id stands for one target for ever, and stored rounds,    *)
(* which are keyed by id, can neither lose their target nor be claimed by   *)
(* another one.                                                             *)
(*                                                                         *)
(* targets.go:11-14 a deleted target keeps its row, "re-adding the same     *)
(* name reactivates the row, so its history resumes"; targets.go:19-21      *)
(* "renaming onto one would silently merge two histories, so that path is   *)
(* refused"; targets.go:107 "renames keep the id, so they keep history".    *)
(***************************************************************************)
EXTENDS TargetTable

VARIABLE table

Init == table = << >>

Change == Grows(table, table')

Spec == Init /\ [][Change]_table
=============================================================================
