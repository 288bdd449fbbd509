------------------------- MODULE MCSelectedTimeLive -------------------------
(***************************************************************************)
(* Instances of SelectedTimeLive for TLC.                                  *)
(***************************************************************************)
EXTENDS SelectedTimeLive, TLC

\* Hours asked for: the last of day 0 in local time, and one of day 1.
MCTarget == [k \in Key |-> IF k = "phoenix" THEN 1 ELSE 2]

Threads == Permutations(Thread)
=============================================================================
