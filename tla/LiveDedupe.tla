---------------------------- MODULE LiveDedupe ----------------------------
(***************************************************************************)
(* LiveDedupeCoordinator (services/live_dedupe.py): requests of one        *)
(* fingerprint share a join record, whose leader reserves, submits, caches *)
(* and consumes while the joiners wait for its event.                      *)
(*                                                                         *)
(* The coordinator's lock makes the claim and each change of a record a    *)
(* step; between them the leader calls the ledger, the vendor, the cache   *)
(* and the job store, each of which may fail or be used by others.  The    *)
(* ledger is InMemoryDemoAllowanceLedger, whose other clients are the      *)
(* pipelines of services/live_cache_recheck.py: they join a reservation    *)
(* and release or consume it as if it were their own.                      *)
(*                                                                         *)
(* Left out: the request's fields behind the fingerprint, the activity id, *)
(* the texts of the errors, counters, the planned units (one for every     *)
(* request), ALLOWANCE_RESERVED, which lasts within one hold of the lock,  *)
(* and the branch for a submit slot that is taken already, which needs a   *)
(* second leader of one record.                                            *)
(***************************************************************************)
EXTENDS Naturals, Sequences, FiniteSets

CONSTANTS
  Caller, Fingerprint,
  Units,         \* DemoAllowancePolicy.max_total_acquisition_units
  MaxAttempts,   \* bound: the join records of one fingerprint
  None           \* no reservation, fingerprint or phase

ASSUME ConstantsAssumption ==
  /\ Units \in Nat /\ MaxAttempts \in Nat \ {0}
  /\ None \notin Fingerprint \cup Nat

Lost == {"FAILED_POST_SUBMIT", "UNKNOWN_VENDOR_STATE"}
Phase == Lost \cup {"OPEN", "SUBMITTING", "ACTIVITY_ID_PERSISTED", "SUCCEEDED",
                    "FAILED_PRE_SUBMIT"}
Attempt == 1 .. MaxAttempts
Other == 0   \* the reservation of another client of the ledger

\* _JoinRecord
Record == [phase : Phase, result : BOOLEAN, done : BOOLEAN]
NewRecord == [phase |-> "OPEN", result |-> FALSE, done |-> FALSE]

Leading == {"reserve", "give up", "fail job", "take slot", "submit", "uncertain",
            "interrupt", "acknowledged", "fetch", "cache", "consume", "succeed",
            "complete", "lost", "done"}
Step == Leading \cup {"idle", "join", "await", "returned"}

\* One execute() call: its step, its record, and what it returned.
Call == [step : Step, fp : Fingerprint \cup {None}, attempt : Attempt \cup {Other},
         phase : Phase \cup {None}, result : BOOLEAN, waited : BOOLEAN]
Idle == [step |-> "idle", fp |-> None, attempt |-> Other, phase |-> None,
         result |-> FALSE, waited |-> FALSE]

VARIABLES
  records,    \* records[f]: the _JoinRecords of f, the last one in _records
  call,       \* call[c]: the running execute() of caller c
  cached,     \* the fingerprints in the result cache
  jobs,       \* jobs[f]: the status of the store's job of dedupe_key f
  active,     \* active[f]: whose reservation of f is RESERVED
  consumed,   \* the units of CONSUMED reservations
  expired,    \* policy.valid_until has passed
  posts       \* history: posts[f], the attempts that submitted, in order

vars == <<records, call, cached, jobs, active, consumed, expired, posts>>
ledger == <<active, consumed, expired>>

Init ==
  /\ records = [f \in Fingerprint |-> <<>>]
  /\ call = [c \in Caller |-> Idle]
  /\ cached = {}
  /\ jobs = [f \in Fingerprint |-> None]
  /\ active = [f \in Fingerprint |-> None]
  /\ consumed = 0
  /\ expired = FALSE
  /\ posts = [f \in Fingerprint |-> <<>>]

last(f) == records[f][Len(records[f])]
mine(c) == records[call[c].fp][call[c].attempt]

GoTo(c, step) == call' = [call EXCEPT ![c].step = step]

At(c, step, next) ==
  /\ call[c].step = step
  /\ GoTo(c, next)

SetRecord(c, r) == records' = [records EXCEPT ![call[c].fp][call[c].attempt] = r]

Answered(f, n, phase, result, waited) ==
  [step |-> "returned", fp |-> f, attempt |-> n, phase |-> phase,
   result |-> result, waited |-> waited]

-----------------------------------------------------------------------------
\* The claim.

\* Fault: any record that failed may be led again.
FailedAtAll(f) == last(f).phase \in Lost \cup {"FAILED_PRE_SUBMIT"} /\ last(f).done

Reopens(f) == last(f).phase = "FAILED_PRE_SUBMIT" /\ last(f).done

\* _create_leader_job: the store's job of this key is taken as it is.
CreateLeaderJob(f) == jobs' = [jobs EXCEPT ![f] = IF @ = None THEN "IN_FLIGHT" ELSE @]

Lead(c, f, allowReopen) ==
  /\ f \notin cached
  /\ records[f] # <<>> => allowReopen /\ Reopens(f)
  /\ Len(records[f]) < MaxAttempts
  /\ records' = [records EXCEPT ![f] = Append(@, NewRecord)]
  /\ CreateLeaderJob(f)
  /\ call' = [call EXCEPT ![c] = [Idle EXCEPT !.step = "reserve", !.fp = f,
                                              !.attempt = Len(records[f]) + 1]]

\* In flight or FAILED_PRE_SUBMIT: a ticket to wait with.
Join(c, f, allowReopen) ==
  /\ f \notin cached
  /\ records[f] # <<>>
  /\ ~(allowReopen /\ Reopens(f))
  /\ last(f).phase \notin Lost \cup {"SUCCEEDED"}
  /\ call' = [call EXCEPT ![c] = [Idle EXCEPT !.step = "join", !.fp = f]]
  /\ UNCHANGED <<records, jobs>>

\* CACHE_HIT from the cache or from a record that succeeded.
Hit(c, f) ==
  /\ f \in cached \/ (records[f] # <<>> /\ last(f).phase = "SUCCEEDED")
  /\ call' = [call EXCEPT ![c] = Answered(f, Other, "SUCCEEDED", TRUE, FALSE)]
  /\ UNCHANGED <<records, jobs>>

\* RECOVERY_REQUIRED: nothing is submitted again.
Recover(c, f) ==
  /\ f \notin cached
  /\ records[f] # <<>>
  /\ last(f).phase \in Lost
  /\ call' = [call EXCEPT ![c] = Answered(f, Len(records[f]), last(f).phase, last(f).result, FALSE)]
  /\ UNCHANGED <<records, jobs>>

Claim(c, f) ==
  /\ call[c].step = "idle"
  /\ \/ \E allowReopen \in BOOLEAN : Lead(c, f, allowReopen) \/ Join(c, f, allowReopen)
     \/ Hit(c, f)
     \/ Recover(c, f)
  /\ UNCHANGED <<cached, ledger, posts>>

-----------------------------------------------------------------------------
\* The joiner.

\* _await_leader reads _records again: it may find a record that was reopened.
LookUp(c) ==
  /\ call[c].step = "join"
  /\ call' = [call EXCEPT ![c].step = "await", ![c].attempt = Len(records[call[c].fp])]
  /\ UNCHANGED <<records, cached, jobs, ledger, posts>>

\* Fault: the event is not waited for.
AwakeEarly(c) ==
  /\ call[c].step = "await"
  /\ call' = [call EXCEPT ![c] =
       Answered(@.fp, @.attempt, mine(c).phase, mine(c).result, TRUE)]
  /\ UNCHANGED <<records, cached, jobs, ledger, posts>>

Awake(c) ==
  /\ call[c].step = "await"
  /\ mine(c).done
  /\ call' = [call EXCEPT ![c] =
       Answered(@.fp, @.attempt, mine(c).phase, mine(c).result, TRUE)]
  /\ UNCHANGED <<records, cached, jobs, ledger, posts>>

\* join_wait_timeout: the phase of the moment, and no verdict.
WaitTimesOut(c) ==
  /\ call[c].step = "await"
  /\ call' = [call EXCEPT ![c] = Answered(@.fp, @.attempt, mine(c).phase, FALSE, FALSE)]
  /\ UNCHANGED <<records, cached, jobs, ledger, posts>>

-----------------------------------------------------------------------------
\* The leader.

room == consumed + Cardinality({f \in Fingerprint : active[f] # None}) < Units

\* try_reserve: ELIGIBLE
Reserve(c) ==
  /\ At(c, "reserve", "take slot")
  /\ ~expired /\ active[call[c].fp] = None /\ room
  /\ active' = [active EXCEPT ![call[c].fp] = call[c].attempt]
  /\ UNCHANGED <<records, cached, jobs, consumed, expired, posts>>

\* try_reserve: a blocked policy, another reservation, or no units left.
ReserveRefused(c) ==
  /\ At(c, "reserve", "give up")
  /\ expired \/ active[call[c].fp] # None \/ ~room
  /\ UNCHANGED <<records, cached, jobs, ledger, posts>>

\* _finish_pre_submit, its record and then its job.
GiveUp(c) ==
  /\ At(c, "give up", "fail job")
  /\ SetRecord(c, [mine(c) EXCEPT !.phase = "FAILED_PRE_SUBMIT"])
  /\ UNCHANGED <<cached, jobs, ledger, posts>>

\* A store that raises here changes nothing else.
FailJob(c) ==
  /\ At(c, "fail job", "done")
  /\ jobs' \in {jobs, [jobs EXCEPT ![call[c].fp] = "FAILED"]}
  /\ UNCHANGED <<records, cached, ledger, posts>>

TakeSlot(c) ==
  /\ At(c, "take slot", "submit")
  /\ SetRecord(c, [mine(c) EXCEPT !.phase = "SUBMITTING"])
  /\ UNCHANGED <<cached, jobs, ledger, posts>>

\* vendor.submit returns, or raises after the POST may have left.
Submit(c) ==
  /\ At(c, "submit", "acknowledged") \/ At(c, "submit", "uncertain")
  /\ posts' = [posts EXCEPT ![call[c].fp] = Append(@, call[c].attempt)]
  /\ UNCHANGED <<records, cached, jobs, ledger>>

MarkUncertain(c) ==
  /\ At(c, "uncertain", "interrupt")
  /\ SetRecord(c, [mine(c) EXCEPT !.phase = "UNKNOWN_VENDOR_STATE"])
  /\ UNCHANGED <<cached, jobs, ledger, posts>>

\* mark_interrupted leaves a terminal job alone; it may raise.
Interrupt(c) ==
  /\ \/ /\ At(c, "interrupt", "done")
        /\ jobs' = [jobs EXCEPT ![call[c].fp] = IF @ = "COMPLETE" THEN @ ELSE "FAILED"]
     \/ /\ At(c, "interrupt", "lost")
        /\ UNCHANGED jobs
  /\ UNCHANGED <<records, cached, ledger, posts>>

PersistActivity(c) ==
  /\ At(c, "acknowledged", "fetch")
  /\ SetRecord(c, [mine(c) EXCEPT !.phase = "ACTIVITY_ID_PERSISTED"])
  /\ UNCHANGED <<cached, jobs, ledger, posts>>

Fetch(c) ==
  /\ At(c, "fetch", "cache") \/ At(c, "fetch", "lost")
  /\ UNCHANGED <<records, cached, jobs, ledger, posts>>

CachePut(c) ==
  /\ At(c, "cache", "consume")
  /\ cached' = cached \cup {call[c].fp}
  /\ UNCHANGED <<records, jobs, ledger, posts>>

MayConsume(c) == ~expired /\ active[call[c].fp] = call[c].attempt

Consume(c) ==
  /\ At(c, "consume", "succeed")
  /\ MayConsume(c)
  /\ active' = [active EXCEPT ![call[c].fp] = None]
  /\ consumed' = consumed + 1
  /\ UNCHANGED <<records, cached, jobs, expired, posts>>

\* The reservation ran out or another client settled it.
ConsumeRaises(c) ==
  /\ At(c, "consume", "lost")
  /\ ~MayConsume(c)
  /\ UNCHANGED <<records, cached, jobs, ledger, posts>>

Succeed(c) ==
  /\ At(c, "succeed", "complete")
  /\ SetRecord(c, [mine(c) EXCEPT !.phase = "SUCCEEDED", !.result = TRUE])
  /\ UNCHANGED <<cached, jobs, ledger, posts>>

\* set_result, which may raise when everything else is done.
Complete(c) ==
  /\ \/ /\ At(c, "complete", "done")
        /\ jobs' = [jobs EXCEPT ![call[c].fp] = "COMPLETE"]
     \/ /\ At(c, "complete", "lost")
        /\ UNCHANGED jobs
  /\ UNCHANGED <<records, cached, ledger, posts>>

\* The outer handler after a submit.
Lose(c) ==
  /\ At(c, "lost", "done")
  /\ SetRecord(c, [mine(c) EXCEPT !.phase = "FAILED_POST_SUBMIT"])
  /\ UNCHANGED <<cached, jobs, ledger, posts>>

\* Fault: the event is set for success alone.
DoneIfSucceeded(c) ==
  /\ call[c].step = "done"
  /\ SetRecord(c, [mine(c) EXCEPT !.done = @ \/ mine(c).phase = "SUCCEEDED"])
  /\ call' = [call EXCEPT ![c] =
       Answered(@.fp, @.attempt, mine(c).phase, mine(c).result, TRUE)]
  /\ UNCHANGED <<cached, jobs, ledger, posts>>

\* finally: done.set(); the call returns.
Done(c) ==
  /\ call[c].step = "done"
  /\ SetRecord(c, [mine(c) EXCEPT !.done = TRUE])
  /\ call' = [call EXCEPT ![c] =
       Answered(@.fp, @.attempt, mine(c).phase, mine(c).result, TRUE)]
  /\ UNCHANGED <<cached, jobs, ledger, posts>>

\* The caller takes the answer and may ask again.
Leave(c) ==
  /\ call[c].step = "returned"
  /\ call' = [call EXCEPT ![c] = Idle]
  /\ UNCHANGED <<records, cached, jobs, ledger, posts>>

-----------------------------------------------------------------------------
\* The ledger's other clients (gate_reserve, gate_submit, consume_after_cache).

OtherReserves(f) ==
  /\ ~expired /\ active[f] = None /\ room
  /\ active' = [active EXCEPT ![f] = Other]
  /\ UNCHANGED <<records, call, cached, jobs, consumed, expired, posts>>

\* A pipeline that hits releases the reservation it made or joined.
OtherReleases(f) ==
  /\ active[f] # None
  /\ active' = [active EXCEPT ![f] = None]
  /\ UNCHANGED <<records, call, cached, jobs, consumed, expired, posts>>

OtherConsumes(f) ==
  /\ ~expired /\ active[f] # None
  /\ active' = [active EXCEPT ![f] = None]
  /\ consumed' = consumed + 1
  /\ UNCHANGED <<records, call, cached, jobs, expired, posts>>

PolicyEnds ==
  /\ ~expired
  /\ expired' = TRUE
  /\ UNCHANGED <<records, call, cached, jobs, active, consumed, posts>>

-----------------------------------------------------------------------------
\* The steps of a thread inside execute(), waits that end by themselves apart.
Run(c) ==
  \/ LookUp(c) \/ Awake(c)
  \/ Reserve(c) \/ ReserveRefused(c) \/ GiveUp(c) \/ FailJob(c) \/ TakeSlot(c)
  \/ Submit(c) \/ MarkUncertain(c) \/ Interrupt(c) \/ PersistActivity(c)
  \/ Fetch(c) \/ CachePut(c) \/ Consume(c) \/ ConsumeRaises(c) \/ Succeed(c)
  \/ Complete(c) \/ Lose(c) \/ Done(c)

Next ==
  \/ \E c \in Caller :
       \/ \E f \in Fingerprint : Claim(c, f)
       \/ Run(c) \/ WaitTimesOut(c) \/ Leave(c)
  \/ \E f \in Fingerprint : OtherReserves(f) \/ OtherReleases(f) \/ OtherConsumes(f)
  \/ PolicyEnds

Spec == Init /\ [][Next]_vars

\* Threads are scheduled and the vendor answers or raises; no joiner is
\* assumed to time out.
FairSpec == Spec /\ \A c \in Caller : WF_vars(Run(c))

-----------------------------------------------------------------------------
\* Every variable holds a value the coordinator can hold, and a call beyond
\* its claim names one of its fingerprint's records.
TypeOK ==
  /\ records \in [Fingerprint -> Seq(Record)]
  /\ call \in [Caller -> Call]
  /\ cached \subseteq Fingerprint
  /\ jobs \in [Fingerprint -> {None, "IN_FLIGHT", "COMPLETE", "FAILED"}]
  /\ active \in [Fingerprint -> Attempt \cup {Other, None}]
  /\ consumed \in Nat
  /\ expired \in BOOLEAN
  /\ posts \in [Fingerprint -> Seq(Attempt)]
  /\ \A f \in Fingerprint : Len(records[f]) <= MaxAttempts
  /\ \A c \in Caller : call[c].attempt # Other =>
       call[c].fp # None /\ call[c].attempt <= Len(records[call[c].fp])

\* Whatever fails and however often its record is reopened, a fingerprint is
\* submitted once (AtMostOneSubmitContract).
AtMostOneSubmit == \A f \in Fingerprint : Len(posts[f]) <= 1

\* Leader and joiners that waited for it report the same verdict of one
\* record, the one the record keeps; FAILED_PRE_SUBMIT is only reported of a
\* record that submitted nothing, and a result only when the cache has it.
AnswersAgree ==
  \A c \in Caller : call[c].step = "returned" =>
    LET n == call[c].attempt
        f == call[c].fp
    IN /\ call[c].waited => call[c].phase = records[f][n].phase
       /\ call[c].waited /\ call[c].phase = "FAILED_PRE_SUBMIT" =>
            \A i \in DOMAIN posts[f] : posts[f][i] # n
       /\ call[c].result => f \in cached

\* Every call that began returns: no joiner waits for a leader that is gone.
CallsEnd ==
  \A c \in Caller : call[c].step # "idle" ~> call[c].step \in {"returned", "idle"}

-----------------------------------------------------------------------------
\* A join record is an attempt, settled when its event is set; a caller is told
\* of it when execute() returns after the event.
Joined == INSTANCE JoinedSubmit WITH
  verdict <- [f \in Fingerprint |->
                [n \in DOMAIN records[f] |->
                   IF records[f][n].done THEN records[f][n].phase ELSE "OPEN"]],
  submitted <- posts,
  told <- [c \in Caller |->
             IF call[c].step = "returned" /\ call[c].waited
             THEN <<call[c].fp, call[c].attempt, call[c].phase>> ELSE <<>>]

\* The coordinator implements JoinedSubmit: whatever fails, however often a record
\* is reopened and whoever joins, a fingerprint is submitted once, each attempt
\* has one verdict, and leader and joiners are told the same.
JoinedSpec == Joined!Spec
=============================================================================
