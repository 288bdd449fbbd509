--------------------------- MODULE ActivityLedger ---------------------------
(***************************************************************************)
(* The ledger that binds a request's fingerprint to the vendor's activity  *)
(* id, and the reconciler that resumes from it                             *)
(* (services/activity_reconciliation.py, domain/activity_reconciliation.py *)
(* of apps/api/app).  Workers submit, resume and restart concurrently;     *)
(* every ledger call is one critical section, what a worker read before it *)
(* may be stale.  The ledger commits to its sink before it publishes, so   *)
(* its bindings survive the process; what a worker holds does not.         *)
(*                                                                         *)
(* Left out: job_id and geometry, which can only refuse open_or_join,      *)
(* notes, timestamps and poll counts.                                      *)
(***************************************************************************)
EXTENDS Naturals, FiniteSets

CONSTANTS
  Worker,        \* threads that call the ledger
  Fingerprint,   \* the requests
  ActivityId,    \* the ids that the vendor may answer with
  NoId,          \* stands where there is no activity id
  MaxPosts       \* bound: so many submits of one request are followed

ASSUME ConstantsAssumption == NoId \notin ActivityId /\ MaxPosts \in Nat

VARIABLES
  bindings,   \* _records, by fingerprint: the phase, the attempt and the id
  pc,         \* the step that a worker is about to take
  aim,        \* the fingerprint it works for
  hand,       \* the id that the vendor gave it, or that it polls
  posts,      \* history: how many submits left for a fingerprint
  given       \* history: the ids that the vendor gave for a fingerprint

local == <<pc, aim, hand>>
vars == <<bindings, local, posts, given>>

PreSubmit == {"REQUESTED", "VALIDATED", "ALLOWANCE_RESERVED"}
InWindow == {"SUBMITTING", "SUBMITTED"}
Resumable == {"ACTIVITY_ID_PERSISTED", "PROCESSING"}
Phase == PreSubmit \cup InWindow \cup Resumable
           \cup {"RESULT_RECEIVED", "FAILED_POST_SUBMIT", "RECOVERY_REQUIRED", "NONE"}
Step == {"idle", "mark", "submit", "note", "persist", "begin", "look", "poll",
         "succeed", "fail", "park", "resume"}

Binding == [phase : Phase, attempted : BOOLEAN, id : ActivityId \cup {NoId}]
Absent == [phase |-> "NONE", attempted |-> FALSE, id |-> NoId]

\* decide_recovery, for the phases that the ledger can write.
Decide(b) ==
  IF b.phase = "RECOVERY_REQUIRED" THEN "REQUIRE_OPERATOR_RECOVERY"
  ELSE IF b.id # NoId THEN
         IF b.phase = "FAILED_POST_SUBMIT" THEN "FAIL_CLOSED"
         ELSE IF b.phase = "RESULT_RECEIVED" THEN "FETCH_RESULT" ELSE "RESUME_POLL"
  ELSE IF b.attempted \/ b.phase \in InWindow \cup {"FAILED_POST_SUBMIT"} THEN "HOLD_UNKNOWN"
  ELSE IF b.phase \in PreSubmit THEN "SUBMIT_ALLOWED" ELSE "FAIL_CLOSED"

\* Fault: the attempt flag is not looked at.
DecideByPhase(b) ==
  IF b.phase = "RECOVERY_REQUIRED" THEN "REQUIRE_OPERATOR_RECOVERY"
  ELSE IF b.id # NoId THEN "RESUME_POLL"
  ELSE IF b.phase = "SUBMITTED" THEN "HOLD_UNKNOWN" ELSE "SUBMIT_ALLOWED"

\* spend_risk_for.
Risk(b) ==
  IF b.phase = "FAILED_POST_SUBMIT" THEN "FAILED_POST_SUBMIT"
  ELSE IF b.id # NoId
       THEN IF b.phase = "RESULT_RECEIVED" THEN "SPENT_RESULT_IN_HAND" ELSE "SPENT_KNOWN_ACTIVITY"
  ELSE IF b.phase = "RECOVERY_REQUIRED" \/ b.attempted \/ b.phase \in InWindow
       THEN "UNKNOWN_MAY_HAVE_SPENT"
  ELSE IF b.phase = "ALLOWANCE_RESERVED" THEN "RESERVED_NOT_SUBMITTED" ELSE "NONE"

Init ==
  /\ bindings = [f \in Fingerprint |-> Absent]
  /\ pc = [w \in Worker |-> "idle"]
  /\ aim \in {[w \in Worker |-> f] : f \in Fingerprint}
  /\ hand = [w \in Worker |-> NoId]
  /\ posts = [f \in Fingerprint |-> 0]
  /\ given = [f \in Fingerprint |-> {}]

At(w, step) == pc[w] = step
Goto(w, step) == pc' = [pc EXCEPT ![w] = step]
Aim(w, f) == aim' = [aim EXCEPT ![w] = f]
Mine(w) == bindings[aim[w]]
Publish(w, binding) == bindings' = [bindings EXCEPT ![aim[w]] = binding]
Raise(w) == Goto(w, "idle") /\ UNCHANGED bindings

-----------------------------------------------------------------------------
(* The submit path.                                                        *)

\* open_or_join: whether it opened or joined, the caller goes on alike.
OpenOrJoin(w, f) ==
  /\ At(w, "idle")
  /\ Goto(w, "mark") /\ Aim(w, f)
  /\ IF bindings[f] # Absent THEN UNCHANGED bindings
     ELSE \E phase \in PreSubmit :
            bindings' = [bindings EXCEPT ![f] = [Absent EXCEPT !.phase = phase]]
  /\ UNCHANGED <<hand, posts, given>>

\* Fault: the intent is written without the attempt.
MarkSubmittingUnrecorded(w) ==
  /\ At(w, "mark")
  /\ IF Mine(w).phase \notin PreSubmit THEN Raise(w)
     ELSE Goto(w, "submit") /\ UNCHANGED bindings
  /\ UNCHANGED <<aim, hand, posts, given>>

\* mark_submitting: a binding that is SUBMITTING already is returned as it is.
MarkSubmitting(w) ==
  LET b == Mine(w)
  IN /\ At(w, "mark")
     /\ IF b.phase = "SUBMITTING" /\ b.id = NoId THEN Goto(w, "submit") /\ UNCHANGED bindings
        ELSE IF b.phase \notin PreSubmit \/ b.id # NoId THEN Raise(w)
        ELSE Goto(w, "submit") /\ Publish(w, [b EXCEPT !.phase = "SUBMITTING", !.attempted = TRUE])
     /\ UNCHANGED <<aim, hand, posts, given>>

\* The vendor's submit: it answers with an id, not always a new one, or the
\* answer is lost.
Submit(w) ==
  /\ At(w, "submit")
  /\ posts[aim[w]] < MaxPosts
  /\ posts' = [posts EXCEPT ![aim[w]] = @ + 1]
  /\ \/ \E id \in ActivityId : /\ hand' = [hand EXCEPT ![w] = id]
                               /\ given' = [given EXCEPT ![aim[w]] = @ \cup {id}]
                               /\ Goto(w, "note")
     \/ Goto(w, "idle") /\ UNCHANGED <<hand, given>>
  /\ UNCHANGED <<bindings, aim>>

NoteSubmitted(w) ==
  LET b == Mine(w)
  IN /\ At(w, "note")
     /\ IF b.phase = "SUBMITTED" /\ b.id = NoId THEN Goto(w, "persist") /\ UNCHANGED bindings
        ELSE IF b.phase # "SUBMITTING" \/ b.id # NoId THEN Raise(w)
        ELSE Goto(w, "persist") /\ Publish(w, [b EXCEPT !.phase = "SUBMITTED"])
     /\ UNCHANGED <<aim, hand, posts, given>>

\* Fault: whose id it is already is not looked at.
PersistActivityIdOfAny(w) ==
  LET b == Mine(w)
  IN /\ At(w, "persist")
     /\ IF b.phase \notin InWindow \/ b.id # NoId THEN Raise(w)
        ELSE /\ Goto(w, "begin")
             /\ Publish(w, [phase |-> "ACTIVITY_ID_PERSISTED", attempted |-> TRUE, id |-> hand[w]])
     /\ UNCHANGED <<aim, hand, posts, given>>

\* Fault: the last id that comes is the one that stays.
PersistLastActivityId(w) ==
  LET b == Mine(w)
  IN /\ At(w, "persist")
     /\ Goto(w, "begin")
     /\ Publish(w, [phase |-> "ACTIVITY_ID_PERSISTED", attempted |-> TRUE, id |-> hand[w]])
     /\ UNCHANGED <<aim, hand, posts, given>>

\* persist_activity_id: the id, the phase and the map in one step.
PersistActivityId(w) ==
  LET b == Mine(w)
      taken == \E f \in Fingerprint \ {aim[w]} : bindings[f].id = hand[w]
  IN /\ At(w, "persist")
     /\ IF b.id # NoId THEN
          IF b.id # hand[w] THEN Raise(w) ELSE Goto(w, "begin") /\ UNCHANGED bindings
        ELSE IF b.phase \notin InWindow \/ taken THEN Raise(w)
        ELSE /\ Goto(w, "begin")
             /\ Publish(w, [phase |-> "ACTIVITY_ID_PERSISTED", attempted |-> TRUE, id |-> hand[w]])
     /\ UNCHANGED <<aim, hand, posts, given>>

\* mark_processing, then on to next; it raises when the binding moved on.
MarkProcessing(w, next) ==
  /\ IF Mine(w).id = NoId \/ Mine(w).phase \notin Resumable THEN Raise(w)
     ELSE Goto(w, next) /\ Publish(w, [Mine(w) EXCEPT !.phase = "PROCESSING"])
  /\ UNCHANGED <<aim, hand, posts, given>>

BeginProcessing(w) == At(w, "begin") /\ MarkProcessing(w, "idle")

-----------------------------------------------------------------------------
(* resume_processing: poll what has an id, never submit.                   *)

\* The decision names the id to poll.
Inspect(w, f) ==
  /\ At(w, "idle")
  /\ Decide(bindings[f]) = "RESUME_POLL"
  /\ Goto(w, "look") /\ Aim(w, f)
  /\ hand' = [hand EXCEPT ![w] = bindings[f].id]
  /\ UNCHANGED <<bindings, posts, given>>

\* The binding is read again, outside the decision.
Look(w) ==
  /\ At(w, "look")
  /\ Goto(w, IF Mine(w).phase = "ACTIVITY_ID_PERSISTED" THEN "resume" ELSE "poll")
  /\ UNCHANGED <<bindings, aim, hand, posts, given>>

Resume(w) == At(w, "resume") /\ MarkProcessing(w, "poll")

\* poll_status; PROCESSING changes no more than a poll count. An answer may be
\* NOT_FOUND before the activity is visible, whatever other polls said.
Poll(w) ==
  /\ At(w, "poll")
  /\ \E next \in {"idle", "succeed", "fail"} : Goto(w, next)
  /\ UNCHANGED <<bindings, aim, hand, posts, given>>

MarkResultReceived(w) ==
  /\ At(w, "succeed")
  /\ IF Mine(w).id = NoId \/ Mine(w).phase \notin Resumable \cup {"RESULT_RECEIVED"} THEN Raise(w)
     ELSE Goto(w, "idle") /\ Publish(w, [Mine(w) EXCEPT !.phase = "RESULT_RECEIVED"])
  /\ UNCHANGED <<aim, hand, posts, given>>

\* Fault: a failure releases the id.
MarkFailedAndForget(w) ==
  /\ At(w, "fail")
  /\ Goto(w, "idle") /\ Publish(w, [Mine(w) EXCEPT !.phase = "FAILED_POST_SUBMIT", !.id = NoId])
  /\ UNCHANGED <<aim, hand, posts, given>>

\* mark_failed_post_submit looks at no phase.
MarkFailedPostSubmit(w) ==
  /\ At(w, "fail")
  /\ IF Mine(w).id = NoId /\ ~Mine(w).attempted THEN Raise(w)
     ELSE Goto(w, "idle") /\ Publish(w, [Mine(w) EXCEPT !.phase = "FAILED_POST_SUBMIT"])
  /\ UNCHANGED <<aim, hand, posts, given>>

-----------------------------------------------------------------------------
(* apply_restart: it decides on a binding that it read, and acts later.    *)

Assess(w, f) ==
  /\ At(w, "idle")
  /\ \/ Decide(bindings[f]) \in {"HOLD_UNKNOWN", "REQUIRE_OPERATOR_RECOVERY"} /\ Goto(w, "park")
     \/ /\ Decide(bindings[f]) = "RESUME_POLL"
        /\ bindings[f].phase = "ACTIVITY_ID_PERSISTED"
        /\ Goto(w, "begin")
  /\ Aim(w, f)
  /\ UNCHANGED <<bindings, hand, posts, given>>

\* park_unknown_for_recovery.
Park(w) ==
  /\ At(w, "park")
  /\ IF Mine(w).id # NoId THEN Raise(w)
     ELSE Goto(w, "idle") /\ Publish(w, [Mine(w) EXCEPT !.phase = "RECOVERY_REQUIRED"])
  /\ UNCHANGED <<aim, hand, posts, given>>

\* The process dies and reloads what the sink committed.
Restart ==
  /\ pc' = [w \in Worker |-> "idle"]
  /\ hand' = [w \in Worker |-> NoId]
  /\ UNCHANGED <<bindings, aim, posts, given>>

Next ==
  \/ \E w \in Worker :
       \/ \E f \in Fingerprint : OpenOrJoin(w, f) \/ Inspect(w, f) \/ Assess(w, f)
       \/ MarkSubmitting(w) \/ Submit(w) \/ NoteSubmitted(w) \/ PersistActivityId(w)
       \/ BeginProcessing(w) \/ Look(w) \/ Resume(w) \/ Poll(w)
       \/ MarkResultReceived(w) \/ MarkFailedPostSubmit(w) \/ Park(w)
  \/ Restart

Spec == Init /\ [][Next]_vars

-----------------------------------------------------------------------------
(* Properties.                                                             *)

\* A binding has an id exactly in the phases past persist_activity_id.
TypeOK ==
  /\ bindings \in [Fingerprint -> Binding]
  /\ pc \in [Worker -> Step]
  /\ aim \in [Worker -> Fingerprint]
  /\ hand \in [Worker -> ActivityId \cup {NoId}]
  /\ posts \in [Fingerprint -> Nat]
  /\ given \in [Fingerprint -> SUBSET ActivityId]
  /\ \A f \in Fingerprint :
       LET b == bindings[f]
       IN /\ b.phase \in Resumable \cup {"RESULT_RECEIVED", "FAILED_POST_SUBMIT"} <=> b.id # NoId
          /\ b.attempted <=> b.phase \notin PreSubmit \cup {"NONE"}

\* ACTIVITY_RECOVERY.md:69: no order of submits, lost answers, restarts and late
\* polls makes the reconciler offer a submit once one has left, and the risk it
\* reports is never that of an unspent request.
NoSubmitIsOfferedAgain ==
  \A f \in Fingerprint : posts[f] > 0 =>
    /\ Decide(bindings[f]) # "SUBMIT_ALLOWED"
    /\ Risk(bindings[f]) \notin {"NONE", "RESERVED_NOT_SUBMITTED"}

\* ACTIVITY_RECOVERY.md:69-70: the map is one to one, and an id is bound only to
\* a request that the vendor gave it for, even when the vendor repeats an id.
IdsMapOneToOne ==
  \A f \in Fingerprint : bindings[f].id # NoId =>
    /\ bindings[f].id \in given[f]
    /\ \A g \in Fingerprint \ {f} : bindings[g].id # bindings[f].id

\* What one binding may become.
Keeps(old, new) ==
  /\ old.id # NoId => new.id = old.id
  /\ old.phase \in {"RECOVERY_REQUIRED", "FAILED_POST_SUBMIT"} => new.phase = old.phase
\* The resume token is never changed or dropped, and a parked or failed binding
\* stays so: no late caller moves it on or back to a submit.
VerdictsAndIdsAreKept == [][\A f \in Fingerprint : Keeps(bindings[f], bindings'[f])]_vars

-----------------------------------------------------------------------------
(* What the documentation says and the ledger does not keep.               *)

\* ACTIVITY_RECOVERY.md:32: a request is submitted once, whoever joins it.
AtMostOneSubmit == \A f \in Fingerprint : posts[f] <= 1
=============================================================================
