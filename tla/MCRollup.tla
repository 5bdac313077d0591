------------------------------ MODULE MCRollup ------------------------------
(* Instances of Rollup for TLC: two units to the hour bucket. *)
EXTENDS Rollup

\* Four nights.
MCMaxTime == Begin + 4 * DAY
=============================================================================
