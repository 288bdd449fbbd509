--------------------------- MODULE MCDurableJobs ---------------------------
\* Replaced contracts for TLC: one per stage that the store's tests replace by.
EXTENDS DurableJobs, TLC

CONSTANTS a1, a2, v1

MCReplacement ==
  {[NewContract EXCEPT !.state = "SUBMITTING", !.attempted = TRUE, !.reservation = v1],
   [NewContract EXCEPT !.state = "PROCESSING", !.activity = a1, !.reservation = v1]}

Symmetric == Permutations(Job)
=============================================================================
