----------------------------- MODULE LiveWorker -----------------------------
(***************************************************************************)
(* The durable worker state machine: domain/live_worker_state.py and       *)
(* services/live_worker_machine.py of apps/api/app.  One record, one       *)
(* DurableWorkerMachine, and every event in every order a driver, a        *)
(* restart or an operator may raise it.  The machine raises on an illegal  *)
(* event: before it has changed the record (a guard below), or inside      *)
(* _move, after it has changed some flags (Move below).                    *)
(*                                                                         *)
(* The machine calls no vendor; its callers do, and tell it what happened. *)
(* They are assumed truthful: sent counts the POSTs that really left, and  *)
(* a caller reports an acknowledgement, an activity id or a result only    *)
(* when a POST left, and proof that nothing left only when none did.       *)
(*                                                                         *)
(* No name here is one of DurableJobs, whose rows these machines drive: a  *)
(* module may extend both.                                                 *)
(***************************************************************************)
EXTENDS Naturals

VARIABLES
  rec,      \* the LiveWorkerRecord
  sent      \* the POSTs of this record that left for the vendor

workerVars == <<rec, sent>>

\* AUTOMATIC_TRANSITIONS.
Automatic == [
  REQUESTED |-> {"VALIDATED", "FAILED_PRE_SUBMIT"},
  VALIDATED |-> {"CACHE_HIT", "JOINED", "ALLOWANCE_RESERVED", "FAILED_PRE_SUBMIT"},
  CACHE_HIT |-> {},
  JOINED |-> {"CACHE_HIT", "CONSUMED", "FAILED_PRE_SUBMIT", "FAILED_POST_SUBMIT",
              "UNKNOWN_VENDOR_STATE", "RECOVERY_REQUIRED"},
  ALLOWANCE_RESERVED |-> {"SUBMITTING", "CACHE_HIT", "FAILED_PRE_SUBMIT", "RECOVERY_REQUIRED"},
  SUBMITTING |-> {"SUBMITTED", "FAILED_PRE_SUBMIT", "UNKNOWN_VENDOR_STATE", "RECOVERY_REQUIRED"},
  SUBMITTED |-> {"ACTIVITY_ID_PERSISTED", "UNKNOWN_VENDOR_STATE", "RECOVERY_REQUIRED",
                 "FAILED_POST_SUBMIT"},
  ACTIVITY_ID_PERSISTED |-> {"PROCESSING", "FAILED_POST_SUBMIT", "RECOVERY_REQUIRED"},
  PROCESSING |-> {"RESULT_RECEIVED", "FAILED_POST_SUBMIT", "RECOVERY_REQUIRED"},
  RESULT_RECEIVED |-> {"NORMALIZED", "FAILED_POST_SUBMIT", "RECOVERY_REQUIRED"},
  NORMALIZED |-> {"CACHED", "FAILED_POST_SUBMIT", "RECOVERY_REQUIRED"},
  CACHED |-> {"CONSUMED", "RECOVERY_REQUIRED"},
  CONSUMED |-> {},
  FAILED_PRE_SUBMIT |-> {},
  FAILED_POST_SUBMIT |-> {},
  UNKNOWN_VENDOR_STATE |-> {"RECOVERY_REQUIRED"},
  RECOVERY_REQUIRED |-> {"UNKNOWN_VENDOR_STATE", "ALLOWANCE_RESERVED", "CACHE_HIT", "CACHED",
                         "CONSUMED", "ACTIVITY_ID_PERSISTED", "PROCESSING", "RESULT_RECEIVED",
                         "NORMALIZED", "FAILED_PRE_SUBMIT", "FAILED_POST_SUBMIT"}]

States == DOMAIN Automatic
TerminalStates == {"CACHE_HIT", "CONSUMED", "FAILED_PRE_SUBMIT", "FAILED_POST_SUBMIT"}
ResubmitStates == {"SUBMITTING", "SUBMITTED"}
Paid == {"ACTIVITY_ID_PERSISTED", "PROCESSING", "RESULT_RECEIVED", "NORMALIZED", "CACHED"}

NeverResubmitFrom ==
  Paid \cup {"UNKNOWN_VENDOR_STATE", "FAILED_POST_SUBMIT", "CONSUMED", "CACHE_HIT", "JOINED",
             "SUBMITTED"}

\* OPERATOR_RECONCILE_TRANSITIONS, added to the automatic edges.
Operator(state) ==
  CASE state = "UNKNOWN_VENDOR_STATE" ->
         {"RECOVERY_REQUIRED"} \cup
           (Automatic["RECOVERY_REQUIRED"] \ {"UNKNOWN_VENDOR_STATE", "ALLOWANCE_RESERVED"})
    [] state = "RECOVERY_REQUIRED" -> Automatic[state]
    [] OTHER -> {}

Targets(state, mode) == Automatic[state] \cup IF mode = "OPERATOR" THEN Operator(state) ELSE {}

Uncertain(r) == r.attempted /\ ~r.neverLeft

\* Fault: only the state is looked at, and RECOVERY_REQUIRED resets the state.
RetryByStateOnly(r) == r.state \in NeverResubmitFrom

\* assert_no_blind_paid_retry: a second POST would be a blind paid retry.
BlindRetry(r) == r.state \in NeverResubmitFrom \/ Uncertain(r)

\* The checks of _move and assert_legal_transition.
Legal(r, to, mode) ==
  /\ r.state \notin TerminalStates
  /\ to = "SUBMITTING" => ~BlindRetry(r)
  /\ to \in ResubmitStates => r.state \notin NeverResubmitFrom
  /\ to \in Targets(r.state, mode)

\* What an event leaves: the changed record r, in its new state unless _move raises.
Moved(r, to, mode) == IF Legal(r, to, mode) THEN [r EXCEPT !.state = to] ELSE r

Become(r) == rec' = r /\ UNCHANGED sent
Move(r, to) == Become(Moved(r, to, "AUTOMATIC"))

\* LiveWorkerRecord: ids are present or not; error texts and times are left out.
Record == [state : States, reserved : BOOLEAN, activity : BOOLEAN, durable : BOOLEAN,
           checked : BOOLEAN, rechecked : BOOLEAN, attempted : BOOLEAN, neverLeft : BOOLEAN,
           submitted : BOOLEAN, cached : BOOLEAN, release : BOOLEAN, consume : BOOLEAN]
Fresh == [state |-> "REQUESTED", reserved |-> FALSE, activity |-> FALSE, durable |-> FALSE,
          checked |-> FALSE, rechecked |-> FALSE, attempted |-> FALSE, neverLeft |-> FALSE,
          submitted |-> FALSE, cached |-> FALSE, release |-> FALSE, consume |-> FALSE]

WorkerInit == rec = Fresh /\ sent = 0

-----------------------------------------------------------------------------
(* Before the POST.                                                        *)

Validate == Move(rec, "VALIDATED")

NoteCacheHit ==
  \/ rec.state = "VALIDATED" /\ Move([rec EXCEPT !.checked = TRUE], "CACHE_HIT")
  \/ /\ rec.state = "ALLOWANCE_RESERVED"
     /\ Move([rec EXCEPT !.checked = TRUE, !.rechecked = TRUE, !.release = TRUE], "CACHE_HIT")

Join == Move([rec EXCEPT !.checked = TRUE], "JOINED")

NoteCacheMiss ==
  /\ rec.state \in {"VALIDATED", "ALLOWANCE_RESERVED"}
  /\ Become([rec EXCEPT !.checked = TRUE,
                        !.rechecked = @ \/ rec.state = "ALLOWANCE_RESERVED"])

Reserve ==
  /\ rec.checked
  /\ rec.state \notin {"JOINED", "CACHE_HIT"}
  /\ Move([rec EXCEPT !.reserved = TRUE], "ALLOWANCE_RESERVED")

\* Fault: the attempt is not recorded before the POST leaves.
BeginSubmitUnrecorded ==
  /\ rec.state = "ALLOWANCE_RESERVED"
  /\ rec.reserved /\ rec.checked /\ rec.rechecked
  /\ ~BlindRetry(rec)
  /\ rec' = Moved(rec, "SUBMITTING", "AUTOMATIC")
  /\ sent' \in {sent, sent + 1}

\* begin_submit, and whether the POST its caller then makes really leaves.
BeginSubmit ==
  /\ rec.state = "ALLOWANCE_RESERVED"
  /\ rec.reserved /\ rec.checked /\ rec.rechecked
  /\ ~BlindRetry(rec)
  /\ rec' = [Moved(rec, "SUBMITTING", "AUTOMATIC") EXCEPT !.attempted = TRUE, !.neverLeft = FALSE]
  /\ sent' \in {sent, sent + 1}

\* Fault: only an acknowledgement, not an attempt, forbids a pre-submit failure.
FailPreSubmitUnlessAcked(proof) ==
  /\ proof => sent = 0
  /\ ~rec.submitted /\ ~rec.durable
  /\ Move([rec EXCEPT !.neverLeft = TRUE, !.release = @ \/ rec.reserved], "FAILED_PRE_SUBMIT")

\* fail_pre_submit, with (proof) or without the proof that the request never left.
FailPreSubmit(proof) ==
  /\ proof => sent = 0
  /\ ~rec.submitted /\ ~rec.durable
  /\ rec.state = "SUBMITTING" => proof
  /\ rec.attempted => proof
  /\ Move([rec EXCEPT !.neverLeft = proof \/ ~rec.attempted, !.release = @ \/ rec.reserved],
          "FAILED_PRE_SUBMIT")

-----------------------------------------------------------------------------
(* After the POST.                                                         *)

\* Fault: an acknowledgement delivered twice is taken in any state.
AckSubmitAgain(withId) ==
  /\ sent > 0
  /\ Move([rec EXCEPT !.submitted = TRUE, !.activity = @ \/ withId, !.durable = FALSE], "SUBMITTED")

AckSubmit(withId) ==
  /\ sent > 0
  /\ rec.state = "SUBMITTING"
  /\ Move([rec EXCEPT !.submitted = TRUE, !.activity = @ \/ withId, !.durable = FALSE], "SUBMITTED")

PersistId ==
  /\ rec.state = "SUBMITTED"
  /\ Move([rec EXCEPT !.activity = TRUE, !.durable = TRUE, !.submitted = TRUE],
          "ACTIVITY_ID_PERSISTED")

BeginProcessing == rec.durable /\ rec.activity /\ Move(rec, "PROCESSING")

ReceiveResult == sent > 0 /\ Move(rec, "RESULT_RECEIVED")

Normalize == sent > 0 /\ Move(rec, "NORMALIZED")

CacheResult == sent > 0 /\ Move([rec EXCEPT !.cached = TRUE, !.consume = TRUE], "CACHED")

Consume == rec.cached /\ Move([rec EXCEPT !.consume = FALSE], "CONSUMED")

FailPostSubmit ==
  /\ rec.state \notin {"REQUESTED", "VALIDATED", "CACHE_HIT", "ALLOWANCE_RESERVED"}
  /\ rec.state = "SUBMITTING" => rec.submitted
  /\ Move(rec, "FAILED_POST_SUBMIT")

MarkUnknown ==
  /\ rec.state \in {"SUBMITTING", "SUBMITTED", "JOINED", "RECOVERY_REQUIRED"}
  /\ Move(rec, "UNKNOWN_VENDOR_STATE")

RequireRecovery == Move(rec, "RECOVERY_REQUIRED")

-----------------------------------------------------------------------------
(* Restart, operator and leader.                                           *)

\* classify_restart: the state to resume in, and whether a first submit is offered.
Classify(r) ==
  LET hold(state) == [next |-> state, mayFirst |-> FALSE]
      first == [next |-> "ALLOWANCE_RESERVED", mayFirst |-> TRUE]
      unspent == r.reserved /\ ~r.attempted
  IN IF r.state \in TerminalStates \cup {"JOINED"} THEN hold(r.state)
     ELSE IF r.durable /\ r.activity THEN hold("RECOVERY_REQUIRED")
     ELSE IF Uncertain(r) \/ (r.state = "SUBMITTED" /\ ~r.durable) THEN hold("UNKNOWN_VENDOR_STATE")
     ELSE IF r.state = "UNKNOWN_VENDOR_STATE" THEN hold(r.state)
     ELSE IF r.state = "ALLOWANCE_RESERVED" \/ unspent THEN first
     ELSE IF r.state \in {"REQUESTED", "VALIDATED"} THEN hold(r.state)
     ELSE hold("RECOVERY_REQUIRED")

ApplyRestart ==
  LET next == Classify(rec).next
  IN IF next = rec.state THEN Become(rec) ELSE next \notin ResubmitStates /\ Move(rec, next)

\* reconcile: the operator's verdict and the facts given with it.
Reconcile(to, id, resultCached, noSubmit) ==
  LET facts == [rec EXCEPT !.activity = @ \/ id, !.durable = @ \/ id, !.submitted = @ \/ id,
                           !.cached = @ \/ resultCached]
      told == IF noSubmit
              THEN [facts EXCEPT !.neverLeft = TRUE, !.submitted = FALSE, !.durable = FALSE,
                                 !.release = @ \/ rec.reserved]
              ELSE facts
      refused == \/ noSubmit /\ to \notin {"FAILED_PRE_SUBMIT", "CACHE_HIT"}
                 \/ ~noSubmit /\ to = "FAILED_PRE_SUBMIT"
                 \/ to = "ALLOWANCE_RESERVED" /\ (Uncertain(told) \/ ~told.reserved)
  IN /\ to \notin ResubmitStates
     /\ rec.state \in {"UNKNOWN_VENDOR_STATE", "RECOVERY_REQUIRED"}
     /\ id => sent > 0
     /\ noSubmit => sent = 0
     /\ Become(IF refused THEN facts ELSE Moved(told, to, "OPERATOR"))

\* inherit_leader: the leader is another job's record, in any state one may be in.
InheritLeader(leader) ==
  /\ rec.state = "JOINED"
  /\ leader \in Automatic["JOINED"]
  /\ Move([rec EXCEPT !.cached = @ \/ leader = "CONSUMED", !.checked = @ \/ leader = "CACHE_HIT"],
          leader)

WorkerNext ==
  \/ Validate \/ NoteCacheHit \/ Join \/ NoteCacheMiss \/ Reserve \/ BeginSubmit
  \/ \E proof \in BOOLEAN : FailPreSubmit(proof)
  \/ \E withId \in BOOLEAN : AckSubmit(withId)
  \/ PersistId \/ BeginProcessing \/ ReceiveResult \/ Normalize \/ CacheResult \/ Consume
  \/ FailPostSubmit \/ MarkUnknown \/ RequireRecovery \/ ApplyRestart
  \/ \E to \in States, id, resultCached, noSubmit \in BOOLEAN :
       Reconcile(to, id, resultCached, noSubmit)
  \/ \E leader \in States : InheritLeader(leader)

WorkerSpec == WorkerInit /\ [][WorkerNext]_workerVars

-----------------------------------------------------------------------------
(* Properties.                                                             *)

\* Types; a durable activity id is an id, of an acknowledged submit.
WorkerTypeOK ==
  /\ rec \in Record
  /\ rec.durable => rec.activity /\ rec.submitted
  /\ sent \in Nat

\* begin_submit, restart, recovery and reconcile, in any order and however often,
\* let one POST of a record leave at most: there is no blind paid retry.
AtMostOnePostLeaves == sent <= 1

\* A record that ends in FAILED_PRE_SUBMIT, whose reservation its caller
\* releases, bought nothing: fail_pre_submit and reconcile see to the proof.
PreSubmitFailureIsFree == rec.state = "FAILED_PRE_SUBMIT" => sent = 0

\* A restart offers a first submit only for a record whose POST never left.
FirstSubmitOfferIsSafe == Classify(rec).mayFirst => sent = 0

\* A durable id stays durable.
IdKept == rec.durable => rec'.durable /\ rec'.activity
\* A durable activity id, all that recovery has of a paid activity, is never
\* dropped: no late acknowledgement, reconcile or failed event clears it.
DurableIdIsKept == [][IdKept]_workerVars
=============================================================================
