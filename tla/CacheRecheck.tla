---------------------------- MODULE CacheRecheck ----------------------------
(***************************************************************************)
(* The cache recheck pipeline (services/live_cache_recheck.py) over the    *)
(* in-memory allowance ledger (services/demo_allowance_ledger.py).         *)
(*                                                                         *)
(* Several LiveCachePipelines share one FingerprintResultCache and one     *)
(* ledger.  The cache, the ledger and the job store each hold a lock of    *)
(* their own, so an operation of a pipeline is one step per lock it takes. *)
(* The pipeline's job has no lock: its worker calls the operations in any  *)
(* order, one at a time, and a call that raises or crashes leaves the job  *)
(* as it is at that point.                                                 *)
(*                                                                         *)
(* A geometry stands for geometry_sha256 and area_id, a payload for what   *)
(* is left of a result without its secrets; equal integrity means equal    *)
(* identity and payload.  Every pipeline plans one unit, the policy        *)
(* supports its request and every call is given the job store.  Left out:  *)
(* the rejection of client cache control, which changes no state, records  *)
(* altered in memory, and the phase SUBMITTING, which nothing sets.        *)
(***************************************************************************)
EXTENDS Naturals, Sequences, FiniteSets

CONSTANTS
  Pipeline, Fingerprint, Geometry,
  Payload,           \* results that can be normalized
  Poison,            \* a result that names another request or is relative
  Units,             \* DemoAllowancePolicy.max_total_acquisition_units
  MaxReservations, MaxSubmits,   \* bounds: all reservations, one job's submits
  MaxBusts,          \* bound: operator busts of a fingerprint
  None               \* no record, reservation or payload

ASSUME ConstantsAssumption ==
  /\ Units \in Nat /\ MaxReservations \in Nat /\ MaxSubmits \in Nat /\ MaxBusts \in Nat
  /\ None \notin Payload \cup {Poison} \cup Nat /\ Poison \notin Payload

\* DemoRequestIdentity, DemoReservation, FingerprintCacheRecord
Identity == [fp : Fingerprint, geometry : Geometry]
Reservation == [identity : Identity, state : {"RESERVED", "RELEASED", "EXPIRED", "CONSUMED"}]
Record == [identity : Identity, payload : Payload]

\* Python's None is no record.
ASSUME RecordAssumption == None \notin Record

Phase == {"VALIDATED", "CACHE_HIT", "ALLOWANCE_RESERVED", "SUBMITTED", "RESULT_RECEIVED",
          "NORMALIZED", "CACHED", "CONSUMED", "RECOVERY_REQUIRED", "FAILED_PRE_SUBMIT"}

\* LiveCacheJob; result is raw_result until there is a normalized one, after
\* which the raw one is not read.
Job == [phase : Phase, reservation : Nat \cup {None}, submits : Nat,
        result : Payload \cup {Poison, None}, normalized : BOOLEAN]

\* The lock a pipeline's call takes next.
Step == {"idle", "try_reserve", "check", "look", "release", "normalize", "put",
         "look up", "consume"}

VARIABLES
  identity,      \* identity[p]: the request of the pipeline
  job,           \* job[p]: LiveCachePipeline.job
  step,          \* step[p]: where the pipeline's running call is
  cache,         \* FingerprintResultCache._records
  reservations,  \* ledger._reservations, in order
  active,        \* ledger._active_by_fingerprint
  expired,       \* policy.valid_until has passed
  finished,      \* fingerprints whose job in the store is COMPLETE or PARTIAL
  busts,         \* busts[f]: operator busts so far
  posts,         \* history: the reservations under which a submit was allowed
  puts,          \* history: the identities that ever had a record in the cache
  answers        \* history: answers[f]: the records served or stored since the last bust

ledger == <<reservations, active, expired>>
history == <<posts, puts, answers>>
vars == <<identity, job, step, cache, ledger, finished, busts, history>>

NewJob == [phase |-> "VALIDATED", reservation |-> None, submits |-> 0,
           result |-> None, normalized |-> FALSE]

Init ==
  /\ identity \in [Pipeline -> Identity]
  /\ job = [p \in Pipeline |-> NewJob]
  /\ step = [p \in Pipeline |-> "idle"]
  /\ cache = [f \in Fingerprint |-> None]
  /\ reservations = <<>>
  /\ active = [f \in Fingerprint |-> None]
  /\ expired = FALSE
  /\ finished = {}
  /\ busts = [f \in Fingerprint |-> 0]
  /\ posts = {} /\ puts = {} /\ answers = [f \in Fingerprint |-> {}]

fp(p) == identity[p].fp

GoTo(p, s) == step' = [step EXCEPT ![p] = s]

At(p, s, next) == step[p] = s /\ GoTo(p, next)

SetPhase(p, phase) == job' = [job EXCEPT ![p].phase = phase]

Answer(f, record) == answers' = [answers EXCEPT ![f] = @ \cup {record}]

-----------------------------------------------------------------------------
\* recheck_cache: the job store, then FingerprintResultCache.get.

Served(p) == cache[fp(p)] # None /\ cache[fp(p)].identity = identity[p]

Hit(p) == fp(p) \in finished \/ Served(p)

Serve(p) == IF Served(p) THEN Answer(fp(p), cache[fp(p)]) ELSE UNCHANGED answers

-----------------------------------------------------------------------------
\* reserve

\* gate_reserve: a hit touches no ledger.
RecheckBeforeReserve(p) ==
  /\ step[p] = "idle"
  /\ \/ Hit(p) /\ SetPhase(p, "CACHE_HIT") /\ Serve(p) /\ UNCHANGED step
     \/ ~Hit(p) /\ GoTo(p, "try_reserve") /\ UNCHANGED <<job, answers>>
  /\ UNCHANGED <<identity, cache, ledger, finished, busts, posts, puts>>

\* Fault: what was spent is not counted.
UnitsReserved == Cardinality({r \in DOMAIN reservations : reservations[r].state = "RESERVED"})

UnitsTaken == Cardinality({r \in DOMAIN reservations :
                             reservations[r].state \in {"RESERVED", "CONSUMED"}})

\* The fingerprint's active reservation is for the same geometry and area.
Joins(p) == active[fp(p)] # None /\ reservations[active[fp(p)]].identity = identity[p]

\* try_reserve: JOIN_EXISTING_RESERVATION
Join(p) ==
  /\ At(p, "try_reserve", "idle")
  /\ ~expired /\ Joins(p)
  /\ job' = [job EXCEPT ![p].phase = "ALLOWANCE_RESERVED", ![p].reservation = active[fp(p)]]
  /\ UNCHANGED <<identity, cache, ledger, finished, busts, history>>

\* try_reserve: ELIGIBLE
Open(p) ==
  LET r == Len(reservations) + 1
  IN /\ At(p, "try_reserve", "idle")
     /\ ~expired /\ ~Joins(p) /\ UnitsTaken < Units /\ r <= MaxReservations
     /\ reservations' = Append(reservations, [identity |-> identity[p], state |-> "RESERVED"])
     /\ active' = [active EXCEPT ![fp(p)] = r]
     /\ job' = [job EXCEPT ![p].phase = "ALLOWANCE_RESERVED", ![p].reservation = r]
     /\ UNCHANGED <<identity, cache, expired, finished, busts, history>>

\* try_reserve: the policy is over or no unit is left.
Refuse(p) ==
  /\ At(p, "try_reserve", "idle")
  /\ expired \/ (~Joins(p) /\ UnitsTaken >= Units)
  /\ SetPhase(p, "FAILED_PRE_SUBMIT")
  /\ UNCHANGED <<identity, cache, ledger, finished, busts, history>>

-----------------------------------------------------------------------------
\* submit_if_allowed

\* gate_submit: a hit looks at the reservation to release it, a miss to use it.
RecheckBeforeSubmit(p) ==
  /\ step[p] = "idle"
  /\ job[p].phase # "CACHE_HIT" /\ job[p].reservation # None
  /\ job[p].submits < MaxSubmits
  /\ GoTo(p, IF Hit(p) THEN "look" ELSE "check")
  /\ Serve(p)
  /\ UNCHANGED <<identity, job, cache, ledger, finished, busts, posts, puts>>

state(p) == reservations[job[p].reservation].state

\* The submit is allowed: the caller sends the POST.
AllowSubmit(p) ==
  /\ At(p, "check", "idle")
  /\ state(p) = "RESERVED"
  /\ job' = [job EXCEPT ![p].phase = "SUBMITTED", ![p].submits = @ + 1]
  /\ posts' = posts \cup {job[p].reservation}
  /\ UNCHANGED <<identity, cache, ledger, finished, busts, puts, answers>>

RejectSubmit(p) ==
  /\ At(p, "check", "idle")
  /\ state(p) # "RESERVED"
  /\ SetPhase(p, "FAILED_PRE_SUBMIT")
  /\ UNCHANGED <<identity, cache, ledger, finished, busts, history>>

\* The hit's ledger.get: a settled reservation stays in the job.
LookAtHit(p) ==
  /\ step[p] = "look"
  /\ IF state(p) = "RESERVED" THEN GoTo(p, "release") /\ UNCHANGED job
     ELSE GoTo(p, "idle") /\ SetPhase(p, "CACHE_HIT")
  /\ UNCHANGED <<identity, cache, ledger, finished, busts, history>>

Settle(p, s) ==
  /\ reservations' = [reservations EXCEPT ![job[p].reservation].state = s]
  /\ active' = [f \in Fingerprint |-> IF active[f] = job[p].reservation THEN None ELSE active[f]]

Release(p) ==
  /\ At(p, "release", "idle")
  /\ state(p) = "RESERVED"
  /\ Settle(p, "RELEASED")
  /\ job' = [job EXCEPT ![p].phase = "CACHE_HIT", ![p].reservation = None]
  /\ UNCHANGED <<identity, cache, expired, finished, busts, history>>

\* Settled by another pipeline meanwhile: release raises, the job is unchanged.
ReleaseRaises(p) ==
  /\ At(p, "release", "idle")
  /\ state(p) # "RESERVED"
  /\ UNCHANGED <<identity, job, cache, ledger, finished, busts, history>>

-----------------------------------------------------------------------------
\* accept_result and recover: normalize, cache, consume.

\* After any submit; crash_after RESULT ends the call here.
AcceptResult(p, result) ==
  /\ step[p] = "idle"
  /\ job[p].submits > 0
  /\ job' = [job EXCEPT ![p].phase = "RESULT_RECEIVED",
                     ![p].result = IF job[p].normalized THEN @ ELSE result]
  /\ GoTo(p, "normalize") \/ UNCHANGED step
  /\ UNCHANGED <<identity, cache, ledger, finished, busts, history>>

\* Fault: the reservation of an unknown submit is given back.
RecoverReleases(p) ==
  /\ step[p] = "idle" /\ job[p].phase = "SUBMITTED"
  /\ SetPhase(p, "RECOVERY_REQUIRED")
  /\ state(p) = "RESERVED" /\ Settle(p, "RELEASED")
  /\ UNCHANGED <<identity, step, cache, expired, finished, busts, history>>

\* recover: what is in hand is finished, an unknown submit is parked.
Recover(p) ==
  /\ step[p] = "idle"
  /\ \/ job[p].phase = "CACHED" /\ GoTo(p, "look up") /\ UNCHANGED job
     \/ /\ job[p].phase \in {"RESULT_RECEIVED", "NORMALIZED", "RECOVERY_REQUIRED"}
        /\ IF job[p].result = None
           THEN SetPhase(p, "RECOVERY_REQUIRED") /\ UNCHANGED step
           ELSE GoTo(p, "normalize") /\ UNCHANGED job
     \/ job[p].phase = "SUBMITTED" /\ SetPhase(p, "RECOVERY_REQUIRED") /\ UNCHANGED step
  /\ UNCHANGED <<identity, cache, ledger, finished, busts, history>>

\* Fault: the result is paid for before it is cached.
ConsumeFirst(p) ==
  /\ At(p, "normalize", "look up")
  /\ job[p].result \in Payload
  /\ job' = [job EXCEPT ![p].phase = "NORMALIZED", ![p].normalized = TRUE]
  /\ UNCHANGED <<identity, cache, ledger, finished, busts, history>>

\* _finish_from_result: an earlier normalized result is kept; a poisoned one
\* raises; crash_after NORMALIZE ends the call here.
Normalize(p) ==
  /\ step[p] = "normalize"
  /\ IF job[p].normalized \/ job[p].result = Poison THEN UNCHANGED job
     ELSE job' = [job EXCEPT ![p].phase = "NORMALIZED", ![p].normalized = TRUE]
  /\ GoTo(p, "idle") \/ (job[p].result # Poison /\ GoTo(p, "put"))
  /\ UNCHANGED <<identity, cache, ledger, finished, busts, history>>

record(p) == [identity |-> identity[p], payload |-> job[p].result]

Store(p) ==
  /\ cache' = [cache EXCEPT ![fp(p)] = record(p)]
  /\ SetPhase(p, "CACHED")
  /\ puts' = puts \cup {identity[p]}
  /\ Answer(fp(p), record(p))

\* Fault: a record of another result is overwritten.
PutOver(p) ==
  /\ step[p] = "put"
  /\ Store(p)
  /\ GoTo(p, "look up") \/ GoTo(p, "idle")
  /\ UNCHANGED <<identity, ledger, finished, busts, posts>>

\* put_from_worker; crash_after CACHE ends the call here.
Put(p) ==
  /\ step[p] = "put"
  /\ cache[fp(p)] \in {None, record(p)}
  /\ Store(p)
  /\ GoTo(p, "look up") \/ GoTo(p, "idle")
  /\ UNCHANGED <<identity, ledger, finished, busts, posts>>

\* REJECTED_POISON: another result is cached.
PutRaises(p) ==
  /\ At(p, "put", "idle")
  /\ cache[fp(p)] \notin {None, record(p)}
  /\ UNCHANGED <<identity, job, cache, ledger, finished, busts, history>>

\* consume_after_cache: ledger.get
LookUp(p) ==
  /\ step[p] = "look up"
  /\ IF job[p].reservation = None THEN GoTo(p, "idle") /\ SetPhase(p, "CACHED")
     ELSE IF state(p) = "CONSUMED" THEN GoTo(p, "idle") /\ SetPhase(p, "CONSUMED")
     ELSE GoTo(p, "consume") /\ UNCHANGED job
  /\ UNCHANGED <<identity, cache, ledger, finished, busts, history>>

Consume(p) ==
  /\ At(p, "consume", "idle")
  /\ state(p) = "RESERVED" /\ ~expired
  /\ Settle(p, "CONSUMED")
  /\ SetPhase(p, "CONSUMED")
  /\ UNCHANGED <<identity, cache, expired, finished, busts, history>>

\* The reservation was settled by another pipeline, or the policy is over.
ConsumeRaises(p) ==
  /\ At(p, "consume", "idle")
  /\ state(p) # "RESERVED" \/ expired
  /\ UNCHANGED <<identity, job, cache, ledger, finished, busts, history>>

-----------------------------------------------------------------------------
\* What others do.

\* The policy's valid_until passes.
PolicyEnds ==
  /\ ~expired
  /\ expired' = TRUE
  /\ UNCHANGED <<identity, job, step, cache, reservations, active, finished, busts, history>>

\* expire_stale, also run by recover_after_restart.
ExpireStale ==
  /\ expired
  /\ reservations' = [r \in DOMAIN reservations |->
                        IF reservations[r].state = "RESERVED"
                        THEN [reservations[r] EXCEPT !.state = "EXPIRED"] ELSE reservations[r]]
  /\ active' = [f \in Fingerprint |-> None]
  /\ UNCHANGED <<identity, job, step, cache, expired, finished, busts, history>>

\* A job of this dedupe key becomes COMPLETE or PARTIAL.
JobFinishes(f) ==
  /\ finished' = finished \cup {f}
  /\ UNCHANGED <<identity, job, step, cache, ledger, busts, history>>

\* operator_bust with the server's token.
OperatorBust(f) ==
  /\ busts[f] < MaxBusts
  /\ busts' = [busts EXCEPT ![f] = @ + 1]
  /\ cache' = [cache EXCEPT ![f] = None]
  /\ answers' = [answers EXCEPT ![f] = {}]
  /\ UNCHANGED <<identity, job, step, ledger, finished, posts, puts>>

-----------------------------------------------------------------------------
Run(p) ==
  \/ RecheckBeforeReserve(p) \/ Join(p) \/ Open(p) \/ Refuse(p)
  \/ RecheckBeforeSubmit(p) \/ AllowSubmit(p) \/ RejectSubmit(p)
  \/ LookAtHit(p) \/ Release(p) \/ ReleaseRaises(p)
  \/ \E result \in Payload \cup {Poison} : AcceptResult(p, result)
  \/ Recover(p) \/ Normalize(p) \/ Put(p) \/ PutRaises(p)
  \/ LookUp(p) \/ Consume(p) \/ ConsumeRaises(p)

Next ==
  \/ \E p \in Pipeline : Run(p)
  \/ \E f \in Fingerprint : JobFinishes(f) \/ OperatorBust(f)
  \/ PolicyEnds \/ ExpireStale

Spec == Init /\ [][Next]_vars

-----------------------------------------------------------------------------
\* Jobs, cache and ledger hold values of their records; a job's reservation is
\* in the ledger and made for its request, and an active one is RESERVED.
TypeOK ==
  /\ identity \in [Pipeline -> Identity]
  /\ job \in [Pipeline -> Job] /\ step \in [Pipeline -> Step]
  /\ cache \in [Fingerprint -> Record \cup {None}]
  /\ reservations \in Seq(Reservation)
  /\ active \in [Fingerprint -> DOMAIN reservations \cup {None}]
  /\ expired \in BOOLEAN /\ finished \subseteq Fingerprint
  /\ \A p \in Pipeline : job[p].reservation # None =>
       /\ job[p].reservation \in DOMAIN reservations
       /\ reservations[job[p].reservation].identity = identity[p]
  /\ \A f \in Fingerprint : active[f] # None => reservations[active[f]].state = "RESERVED"

\* Whatever was joined, released or expired, the units held and spent stay within
\* the policy's (_try_reserve_unlocked, _snapshot_unlocked).
UnitsKept == Cardinality({r \in DOMAIN reservations :
                            reservations[r].state \notin {"RELEASED", "EXPIRED"}}) <= Units

\* "Consume happens only after a normalized result is cached": a unit is spent
\* for a result the cache had, and a job that says so has spent it.
ConsumedAfterCached ==
  /\ \A r \in DOMAIN reservations :
       reservations[r].state = "CONSUMED" => reservations[r].identity \in puts
  /\ \A p \in Pipeline : job[p].phase = "CONSUMED" => state(p) = "CONSUMED"

\* gate_submit gives back the reservation that another pipeline has submitted
\* under, but never before there is a result to show for it.
PaidReleaseIsAnswered ==
  \A r \in posts : reservations[r].state = "RELEASED" =>
    reservations[r].identity \in puts \/ reservations[r].identity.fp \in finished

\* Until an operator busts it, a fingerprint has one answer, for whoever asks
\* and whoever else submitted for it.
AnswersAgree == \A f \in Fingerprint : Cardinality(answers[f]) <= 1
=============================================================================
