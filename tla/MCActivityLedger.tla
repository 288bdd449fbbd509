-------------------------- MODULE MCActivityLedger --------------------------
(* Instances of ActivityLedger for TLC.                                    *)
EXTENDS ActivityLedger, TLC

\* Workers and requests are interchangeable.
Symmetry == Permutations(Worker) \cup Permutations(Fingerprint)
=============================================================================
