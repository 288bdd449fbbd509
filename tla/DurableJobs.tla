---------------------------- MODULE DurableJobs ----------------------------
(***************************************************************************)
(* The analysis_jobs table of SQLiteJobStore (core/sqlite_job_store.py)    *)
(* with the restart classification of core/durable_live.py and the         *)
(* durable contract of domain/job_durability.py and core/job_store.py.     *)
(*                                                                         *)
(* A row says twice how far the job's acquisition is: in its columns, that *)
(* the worker's writes (_commit_worker_write) and a restart change, and in *)
(* the contract inside its payload, from which every other write (_put)    *)
(* derives the columns anew.  The store's lock and one transaction per     *)
(* call make each operation a step; a call that raises changes nothing.    *)
(* The process may die between any two of them.                            *)
(*                                                                         *)
(* Left out: the job's request, result, messages and time stamps; the      *)
(* contract's recovery flags but submit_attempted: activity_id_durable is  *)
(* set when there is an id, auto_resubmit only makes a call fail, and the  *)
(* rest is not read; dedupe_key and fingerprint are one key, as every      *)
(* caller has them; public_status, which is always written together with   *)
(* the payload's status.                                                   *)
(***************************************************************************)
EXTENDS Naturals, FiniteSets

CONSTANTS
  Job, Key, Activity, Reservation,
  None,          \* NULL: no state, key or id
  Replacement,   \* the contracts that callers pass to replace_durability
  MaxLives       \* bound: the file is opened this often

PreSubmit == {"REQUESTED", "VALIDATED"}
Submitting == {"SUBMITTING", "SUBMITTED"}
ActivityBound == {"SUBMITTED", "ACTIVITY_ID_PERSISTED", "PROCESSING",
                  "RESULT_RECEIVED", "NORMALIZED", "CACHED"}
KeepAsIs == {"CACHE_HIT", "JOINED", "CONSUMED", "FAILED_PRE_SUBMIT",
             "FAILED_POST_SUBMIT", "UNKNOWN_VENDOR_STATE", "RECOVERY_REQUIRED"}
State == PreSubmit \cup Submitting \cup ActivityBound \cup KeepAsIs
           \cup {"ALLOWANCE_RESERVED"}
TerminalDurability == {"CACHE_HIT", "CONSUMED", "FAILED_PRE_SUBMIT", "FAILED_POST_SUBMIT"}
NeverAutoResubmit == (ActivityBound \cup KeepAsIs) \ {"FAILED_PRE_SUBMIT"}

\* The states a reader takes for: no POST left for this job.
Hidden == PreSubmit \cup {"ALLOWANCE_RESERVED", "FAILED_PRE_SUBMIT", "CACHE_HIT", "JOINED"}

\* PARTIAL is treated as COMPLETE is, and the in-flight statuses alike.
Terminal == {"COMPLETE", "FAILED"}
Status == Terminal \cup {"IN_FLIGHT"}

OrNone(S) == S \cup {None}
Coalesce(a, b) == IF a # None THEN a ELSE b

\* DurableJobContract; a payload from before the contract has state None.
Contract == [state : OrNone(State), activity : OrNone(Activity),
             reservation : OrNone(Reservation), attempted : BOOLEAN]
NoContract == [state |-> None, activity |-> None, reservation |-> None, attempted |-> FALSE]
NewContract == [NoContract EXCEPT !.state = "REQUESTED"]

Row == [key : OrNone(Key), state : OrNone(State), activity : OrNone(Activity),
        reservation : OrNone(Reservation), recovery : BOOLEAN,
        status : Status, contract : Contract]

ASSUME ConstantsAssumption ==
  /\ None \notin State \cup Key \cup Activity \cup Reservation
  /\ Replacement \subseteq {c \in Contract : c.state # None}
  /\ MaxLives \in Nat

VARIABLES
  rows,     \* analysis_jobs
  stored,   \* the jobs that have a row
  worker,   \* worker[j]: how far the worker of job j is, lost with the process
  lives,    \* how often the file was opened
  issued,   \* history: issued[j], the ids the vendor gave to the POSTs for j
  acked,    \* history: acked[j], the activity id of the last DurableAck for j
  rewound   \* history: the jobs whose contract hid their submission from the column

vars == <<rows, stored, worker, lives, issued, acked, rewound>>

NewRow(c) == [key |-> None, state |-> c.state, activity |-> c.activity,
              reservation |-> c.reservation, recovery |-> FALSE,
              status |-> "IN_FLIGHT", contract |-> c]

\* A file of schema 1 may have rows already: no column and no contract.
Init ==
  /\ stored \in SUBSET Job
  /\ \E done \in SUBSET stored :
       rows = [j \in Job |-> [NewRow(NoContract) EXCEPT
                                !.status = IF j \in done THEN "COMPLETE" ELSE @]]
  /\ worker = [j \in Job |-> "idle"]
  /\ lives = 0
  /\ issued = [j \in Job |-> {}]
  /\ acked = [j \in Job |-> None]
  /\ rewound = {}

running == lives > 0

-----------------------------------------------------------------------------
\* Restart.

\* plan_crash_recovery and apply_restart_recovery for a status in flight.
ApplyRecovery(r) ==
  LET c == r.contract
      plan == IF c = NoContract THEN "INTERRUPT"
              ELSE IF c.state \in {"UNKNOWN_VENDOR_STATE", "JOINED"} THEN c.state
              ELSE IF c.activity # None THEN "RECOVERY_REQUIRED"
              ELSE IF c.state \in Submitting \/ c.attempted THEN "UNKNOWN_VENDOR_STATE"
              ELSE IF c.reservation # None THEN "RECOVERY_REQUIRED"
              ELSE IF c.state \in TerminalDurability THEN c.state
              ELSE "INTERRUPT"
  IN IF r.status \in Terminal THEN r
     ELSE IF plan = "INTERRUPT"
     THEN [r EXCEPT !.contract.state = "RECOVERY_REQUIRED", !.status = "FAILED"]
     ELSE [r EXCEPT !.contract.state = plan]

\* Fault: SUBMITTING without an id is taken for never submitted.
ClassifiedWithoutId(state, activity) ==
  IF state \in PreSubmit \/ (state = "SUBMITTING" /\ activity = None) THEN "FAILED_PRE_SUBMIT"
  ELSE "RECOVERY_REQUIRED"

\* classify_restart and resulting_worker_state for a column outside KeepAsIs.
Classified(state, activity) ==
  IF state \in PreSubmit THEN "FAILED_PRE_SUBMIT"
  ELSE IF state = "ALLOWANCE_RESERVED" \/ activity # None THEN "RECOVERY_REQUIRED"
  ELSE "UNKNOWN_VENDOR_STATE"

\* The contract is recovered in place before the columns are completed from it.
RestartRow(r) ==
  LET doc == ApplyRecovery(r)
      seen == IF r.contract = NoContract THEN NoContract ELSE doc.contract
      state == Coalesce(r.state, seen.state)
      next == Classified(state, Coalesce(r.activity, seen.activity))
  IN IF state = None
     THEN IF r.status \in Terminal THEN r ELSE [doc EXCEPT !.status = "FAILED"]
     ELSE IF state \in KeepAsIs THEN r
     ELSE [doc EXCEPT !.state = next,
                      !.recovery = next # "FAILED_PRE_SUBMIT",
                      !.status = IF next = "FAILED_PRE_SUBMIT" THEN "FAILED" ELSE @]

\* The process dies wherever it is and the file is opened again.
Restart ==
  /\ lives < MaxLives
  /\ lives' = lives + 1
  /\ rows' = [j \in Job |-> IF j \in stored THEN RestartRow(rows[j]) ELSE rows[j]]
  /\ worker' = [j \in Job |-> "idle"]
  /\ UNCHANGED <<stored, issued, acked, rewound>>

-----------------------------------------------------------------------------
\* Writes of the whole job.

\* The partial unique indexes of analysis_jobs.
Fits(j, r) ==
  \A i \in stored \ {j} :
    /\ r.key # None => rows[i].key # r.key
    /\ r.activity # None => rows[i].activity # r.activity
    /\ r.reservation # None => rows[i].reservation # r.reservation

\* Fault: the ids are copied from the contract, as dedupe_key is.
PutContract(r) == [r EXCEPT !.state = Coalesce(r.contract.state, @),
                            !.activity = r.contract.activity,
                            !.reservation = r.contract.reservation]

\* _put: the columns follow the contract wherever it has a value.
Put(r) == [r EXCEPT !.state = Coalesce(r.contract.state, @),
                    !.activity = Coalesce(r.contract.activity, @),
                    !.reservation = Coalesce(r.contract.reservation, @)]

\* The contract says that nothing was sent although its worker has begun.
Rewinds(j, r) == (worker[j] # "idle" \/ issued[j] # {}) /\ r.contract.state \in Hidden

Write(j, r) ==
  /\ running
  /\ Fits(j, Put(r))
  /\ rows' = [rows EXCEPT ![j] = Put(r)]
  /\ stored' = stored \cup {j}
  /\ rewound' = IF Rewinds(j, r) THEN rewound \cup {j} ELSE rewound
  /\ UNCHANGED <<worker, lives, issued, acked>>

\* create, and create_or_join where no row has the key.
Create(j, k) ==
  /\ j \notin stored
  /\ Write(j, [NewRow(NewContract) EXCEPT !.key = k])

\* update_status and set_result.
UpdateStatus(j, s) ==
  /\ j \in stored
  /\ rows[j].status \in Terminal => s \in Terminal
  /\ Write(j, [rows[j] EXCEPT !.status = s])

\* mark_interrupted; replace_two_signal writes as it does for a terminal job.
MarkInterrupted(j) ==
  /\ j \in stored
  /\ Write(j, [rows[j] EXCEPT !.status = IF @ \in Terminal THEN @ ELSE "FAILED"])

ReplaceDurability(j, c) ==
  /\ j \in stored
  /\ ~(rows[j].contract.state \in NeverAutoResubmit /\ c.state \in Submitting)
  /\ c.activity \in issued[j] \cup {None}
  /\ Write(j, [rows[j] EXCEPT !.contract = c])

\* _touch_durability
Touched(j) == IF rows[j].contract = NoContract THEN NewContract ELSE rows[j].contract

PersistFingerprint(j, k) ==
  /\ j \in stored
  /\ rows[j].key \in {None, k}
  /\ Write(j, [rows[j] EXCEPT !.key = k, !.contract = Touched(j)])

PersistActivityId(j, a) ==
  LET c == Touched(j) IN
  /\ j \in stored
  /\ a \in issued[j]
  /\ c.state = "UNKNOWN_VENDOR_STATE" => c.activity \in {None, a}
  /\ Write(j, [rows[j] EXCEPT !.contract =
       [c EXCEPT !.activity = a,
                 !.state = IF @ \in PreSubmit \cup Submitting \cup {"ALLOWANCE_RESERVED"}
                           THEN "ACTIVITY_ID_PERSISTED" ELSE @]])

PersistReservationId(j, v) ==
  LET c == Touched(j) IN
  /\ j \in stored
  /\ Write(j, [rows[j] EXCEPT !.contract =
       [c EXCEPT !.reservation = v,
                 !.state = IF @ \in PreSubmit THEN "ALLOWANCE_RESERVED" ELSE @]])

\* One job of recover_after_restart; nothing else runs between two of them.
RecoverAfterRestart(j) ==
  /\ j \in stored
  /\ Write(j, ApplyRecovery(rows[j]))

-----------------------------------------------------------------------------
\* Writes of the columns alone.

\* _commit_worker_write
CommitWorkerWrite(j, state, a, v) ==
  LET r == [rows[j] EXCEPT !.state = state, !.activity = Coalesce(a, @),
                           !.reservation = Coalesce(v, @), !.recovery = FALSE] IN
  /\ running
  /\ j \in stored
  /\ Fits(j, r)
  /\ rows' = [rows EXCEPT ![j] = r]
  /\ UNCHANGED <<stored, lives, issued, rewound>>

\* A worker begins only with a job whose column says that nothing was sent.
Startable(j) ==
  worker[j] = "idle" /\ rows[j].state \in PreSubmit \cup {"ALLOWANCE_RESERVED"}

CommitReservationBinding(j, v) ==
  /\ Startable(j)
  /\ CommitWorkerWrite(j, "ALLOWANCE_RESERVED", None, v)
  /\ UNCHANGED <<worker, acked>>

MarkSubmitting(j, v) ==
  /\ Startable(j)
  /\ CommitWorkerWrite(j, "SUBMITTING", None, v)
  /\ worker' = [worker EXCEPT ![j] = "marked"]
  /\ UNCHANGED acked

\* The worker's POST leaves; the vendor gives it an id.
Post(j, a) ==
  /\ worker[j] = "marked"
  /\ a \notin UNION {issued[i] : i \in Job}
  /\ issued' = [issued EXCEPT ![j] = @ \cup {a}]
  /\ worker' = [worker EXCEPT ![j] = "posted"]
  /\ UNCHANGED <<rows, stored, lives, acked, rewound>>

\* acknowledge_submitted and acknowledge_activity_id_persisted
Acknowledge(j, state, a, v) ==
  /\ worker[j] = "posted"
  /\ state \in {"SUBMITTED", "ACTIVITY_ID_PERSISTED"}
  /\ a \in issued[j]
  /\ CommitWorkerWrite(j, state, a, v)
  /\ acked' = [acked EXCEPT ![j] = a]
  /\ UNCHANGED worker

-----------------------------------------------------------------------------
Next ==
  \/ Restart
  \/ \E j \in Job :
       \/ \E k \in OrNone(Key) : Create(j, k)
       \/ \E s \in Status : UpdateStatus(j, s)
       \/ MarkInterrupted(j)
       \/ \E c \in Replacement : ReplaceDurability(j, c)
       \/ \E k \in Key : PersistFingerprint(j, k)
       \/ \E a \in Activity : PersistActivityId(j, a)
       \/ \E v \in Reservation : PersistReservationId(j, v)
       \/ RecoverAfterRestart(j)
       \/ \E v \in Reservation : CommitReservationBinding(j, v)
       \/ \E v \in OrNone(Reservation) : MarkSubmitting(j, v)
       \/ \E a \in Activity : Post(j, a)
       \/ \E a \in Activity, v \in Reservation, state \in Submitting \cup ActivityBound :
            Acknowledge(j, state, a, v)

Spec == Init /\ [][Next]_vars

-----------------------------------------------------------------------------
\* Every variable holds a value the store can hold.
TypeOK ==
  /\ rows \in [Job -> Row]
  /\ stored \subseteq Job
  /\ worker \in [Job -> {"idle", "marked", "posted"}]
  /\ lives \in 0 .. MaxLives
  /\ issued \in [Job -> SUBSET Activity]
  /\ acked \in [Job -> OrNone(Activity)]
  /\ rewound \subseteq Job

\* Once a POST left for a job, no sequence of restarts and writes makes its
\* column read as if none had (pre-submit, reserved, FAILED_PRE_SUBMIT, cache
\* hit, joined or empty), unless a write of the whole job carried a contract
\* that never learnt of the submission (_put derives worker_state from it).
PostIsRemembered ==
  \A j \in Job : issued[j] # {} /\ j \notin rewound =>
    j \in stored /\ rows[j].state \notin Hidden \cup {None}

\* An activity id that was acknowledged stays the job's activity id through
\* restarts, recoveries and replaced contracts, under the same proviso.
AckedIdsAreKept ==
  \A j \in Job : acked[j] # None /\ j \notin rewound => rows[j].activity = acked[j]

\* Opening the file leaves the outcome of a finished job alone ("terminal
\* public job; durability unchanged", plan_crash_recovery).  _apply_restart_row
\* breaks it: a COMPLETE job whose contract is still REQUESTED becomes FAILED.
OutcomeIsKept ==
  [][lives' # lives =>
       \A j \in stored : rows[j].status \in Terminal => rows'[j].status = rows[j].status]_vars
=============================================================================
