------------------------- MODULE MCSharedAcquisition -------------------------
(* The TLC instance of SharedAcquisition. *)
EXTENDS SharedAcquisition

CONSTANTS Claimant, OtherDocument

\* "today" asks for the first day of the run, "past" for a day before it.
MCPayloadDay == [f \in Fingerprint |-> IF f = "today" THEN 0 ELSE -1]

\* Only one process claims the second document, and only for "today".  Processes
\* and documents are interchangeable, so this leaves out the runs where both
\* processes disagree with themselves.
OneClaimant ==
  \A p \in Process : call[p].doc = OtherDocument => p = Claimant /\ call[p].fp = "today"

MCSpec ==
  /\ Init /\ [][Next /\ OneClaimant']_vars
  /\ \A p \in Process : WF_vars(Step(p))
=============================================================================
