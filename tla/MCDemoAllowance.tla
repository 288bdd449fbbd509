-------------------------- MODULE MCDemoAllowance --------------------------
(* An instance of DemoAllowance for TLC.                                   *)
EXTENDS DemoAllowance, TLC

\* Two plans of one fingerprint, and a second fingerprint.
MCRequest == {[fp |-> "f1", geo |-> "g1", units |-> 1],
              [fp |-> "f1", geo |-> "g1", units |-> 2],
              [fp |-> "f2", geo |-> "g1", units |-> 2]}
MCShift == -1
Callers == Permutations(Caller)
=============================================================================
