------------------------- MODULE CacheRecheckProofs -------------------------
(***************************************************************************)
(* Proofs about CacheRecheck, for every set of pipelines, fingerprints and *)
(* geometries and every number of units.                                   *)
(***************************************************************************)
EXTENDS CacheRecheck, SequenceTheorems, FiniteSetTheorems, TLAPS

\* What a running call knows of its job: the reservation it read is still there,
\* and a result is normalized before it is put.
Knows(p) ==
  /\ step[p] \in {"check", "look", "release", "consume"} => job[p].reservation # None
  /\ step[p] = "normalize" => job[p].result # None
  /\ step[p] = "put" => job[p].normalized
  /\ job[p].normalized => job[p].result \in Payload

StepsKnow == \A p \in Pipeline : Knows(p)

\* What a request was answered with: a cached result, or a job of the store.
Answered(i) == i \in puts \/ i.fp \in finished

\* A call that is about to spend has cached its result, one that is about to give
\* back has seen an answer.
KnowsCause(p) ==
  /\ step[p] \in {"look up", "consume"} \/ job[p].phase = "CACHED" => identity[p] \in puts
  /\ step[p] \in {"look", "release"} => Answered(identity[p])
  /\ job[p].phase = "CONSUMED" => job[p].reservation # None /\ state(p) = "CONSUMED"

CallsKnow == \A p \in Pipeline : KnowsCause(p)

\* A cached record was put, and it is the only answer since the last bust.
CacheKnows ==
  /\ answers \in [Fingerprint -> SUBSET Record]
  /\ \A f \in Fingerprint : /\ cache[f] # None => cache[f].identity \in puts
                            /\ answers[f] \subseteq {cache[f]} \ {None}

\* Every settled reservation was settled for a reason.
LedgerKnows ==
  /\ posts \subseteq DOMAIN reservations
  /\ \A r \in DOMAIN reservations :
       /\ reservations[r].state = "CONSUMED" => reservations[r].identity \in puts
       /\ reservations[r].state = "RELEASED" => Answered(reservations[r].identity)

Known == CallsKnow /\ CacheKnows /\ LedgerKnows

-----------------------------------------------------------------------------
(* Types, and what a call knows of its job.                                *)

Typed == TypeOK /\ StepsKnow

\* A pipeline's request has a fingerprint.
LEMMA IdentityType ==
    ASSUME TypeOK, NEW p \in Pipeline
    PROVE  identity[p] \in Identity /\ identity[p].fp \in Fingerprint
<1>1. identity[p] \in Identity
  BY DEF TypeOK
<1> QED BY <1>1 DEF Identity

\* A reservation's number is a number.
LEMMA LedgerDomain == TypeOK => /\ Len(reservations) \in Nat
                                /\ DOMAIN reservations = 1 .. Len(reservations)
BY DEF TypeOK

\* A new job is a job.
LEMMA NewJobType == NewJob \in Job
BY DEF NewJob, Job, Phase

\* What settling a reservation does to the ledger.
LEMMA SettleEffect ==
    ASSUME TypeOK, NEW p \in Pipeline, NEW s \in {"RELEASED", "CONSUMED"},
           job[p].reservation # None, Settle(p, s)
    PROVE  /\ reservations' \in Seq(Reservation)
           /\ DOMAIN reservations' = DOMAIN reservations
           /\ \A r \in DOMAIN reservations :
                 /\ reservations'[r].identity = reservations[r].identity
                 /\ r # job[p].reservation => reservations'[r] = reservations[r]
           /\ reservations'[job[p].reservation].state = s
           /\ active' \in [Fingerprint -> DOMAIN reservations \cup {None}]
           /\ \A f \in Fingerprint : active'[f] # None =>
                 active'[f] = active[f] /\ active[f] # job[p].reservation
<1> DEFINE r == job[p].reservation
           e == [reservations[r] EXCEPT !.state = s]
<1>1. r \in 1 .. Len(reservations) /\ reservations \in Seq(Reservation)
  BY DEF TypeOK
<1>2. reservations[r] \in Reservation
  BY <1>1
<1>3. e \in Reservation /\ e.identity = reservations[r].identity /\ e.state = s
  BY <1>2 DEF Reservation
<1>4. reservations' = [reservations EXCEPT ![r] = e]
  BY DEF Settle
<1>5. /\ reservations' \in Seq(Reservation)
      /\ Len(reservations') = Len(reservations)
      /\ \A q \in 1 .. Len(reservations) :
            reservations'[q] = IF q = r THEN e ELSE reservations[q]
  <2> HIDE DEF e, r
  <2> QED BY <1>1, <1>3, <1>4, ExceptSeq
<1>6. DOMAIN reservations' = DOMAIN reservations
  BY <1>1, <1>5
<1>7. /\ active' \in [Fingerprint -> DOMAIN reservations \cup {None}]
      /\ \A f \in Fingerprint : active'[f] # None =>
            active'[f] = active[f] /\ active[f] # r
  BY DEF TypeOK, Settle
<1>8. /\ \A q \in DOMAIN reservations :
            /\ reservations'[q].identity = reservations[q].identity
            /\ q # r => reservations'[q] = reservations[q]
      /\ reservations'[r].state = s
  <2>1. DOMAIN reservations = 1 .. Len(reservations)
    BY <1>1
  <2> HIDE DEF e, r
  <2> QED BY <2>1, <1>1, <1>3, <1>5
<1> QED BY <1>5, <1>6, <1>7, <1>8

\* What opening a reservation does to the ledger.
LEMMA OpenEffect ==
    ASSUME TypeOK, NEW p \in Pipeline, Open(p)
    PROVE  /\ reservations' \in Seq(Reservation)
           /\ Len(reservations') = Len(reservations) + 1
           /\ \A r \in DOMAIN reservations :
                 r \in DOMAIN reservations' /\ reservations'[r] = reservations[r]
           /\ reservations'[Len(reservations) + 1] =
                 [identity |-> identity[p], state |-> "RESERVED"]
           /\ active' = [active EXCEPT ![fp(p)] = Len(reservations) + 1]
<1> DEFINE e == [identity |-> identity[p], state |-> "RESERVED"]
<1>1. e \in Reservation /\ reservations \in Seq(Reservation)
  BY DEF TypeOK, Reservation
<1>2. reservations' = Append(reservations, e) /\ active' = [active EXCEPT ![fp(p)] = Len(reservations) + 1]
  BY DEF Open
<1>3. /\ reservations' \in Seq(Reservation)
      /\ Len(reservations') = Len(reservations) + 1
      /\ \A r \in 1 .. Len(reservations) : reservations'[r] = reservations[r]
      /\ reservations'[Len(reservations) + 1] = e
  <2> HIDE DEF e
  <2> QED BY <1>1, <1>2, AppendProperties
<1> QED BY <1>1, <1>2, <1>3

\* It has one more number.
LEMMA OpenedDomain ==
    ASSUME TypeOK, NEW p \in Pipeline, Open(p)
    PROVE  DOMAIN reservations' = DOMAIN reservations \cup {Len(reservations) + 1}
<1>1. /\ Len(reservations) \in Nat /\ DOMAIN reservations = 1 .. Len(reservations)
      /\ reservations' \in Seq(Reservation) /\ Len(reservations') = Len(reservations) + 1
  BY OpenEffect, LedgerDomain
<1>2. DOMAIN reservations' = 1 .. Len(reservations')
  BY <1>1
<1> DEFINE n == Len(reservations)
<1>3. n \in Nat => 1 .. (n + 1) = (1 .. n) \cup {n + 1}
  <2> HIDE DEF n
  <2> QED OBVIOUS
<1> QED BY <1>1, <1>2, <1>3

\* What expiry does to the ledger.
LEMMA ExpireEffect ==
    ASSUME TypeOK, ExpireStale
    PROVE  /\ reservations' \in Seq(Reservation)
           /\ DOMAIN reservations' = DOMAIN reservations
           /\ \A r \in DOMAIN reservations :
                 /\ reservations'[r].identity = reservations[r].identity
                 /\ reservations[r].state # "RESERVED" => reservations'[r] = reservations[r]
                 /\ reservations[r].state = "RESERVED" => reservations'[r].state = "EXPIRED"
           /\ active' = [f \in Fingerprint |-> None]
<1> DEFINE e(r) == IF reservations[r].state = "RESERVED"
                   THEN [reservations[r] EXCEPT !.state = "EXPIRED"] ELSE reservations[r]
<1>1. reservations \in Seq(Reservation)
  BY DEF TypeOK
<1>2. ASSUME NEW r \in 1 .. Len(reservations)
      PROVE  /\ e(r) \in Reservation /\ e(r).identity = reservations[r].identity
             /\ reservations[r].state # "RESERVED" => e(r) = reservations[r]
             /\ reservations[r].state = "RESERVED" => e(r).state = "EXPIRED"
  <2>1. reservations[r] \in Reservation
    BY <1>1
  <2> QED BY <2>1 DEF Reservation
<1>3. reservations' = [r \in 1 .. Len(reservations) |-> e(r)]
  BY <1>1 DEF ExpireStale
<1>4. \A r \in 1 .. Len(reservations) : reservations'[r] = e(r)
  BY <1>3
<1>5. reservations' \in Seq(Reservation)
  <2>1. Len(reservations) \in Nat /\ \A r \in 1 .. Len(reservations) : e(r) \in Reservation
    BY <1>1, <1>2
  <2> HIDE DEF e
  <2> QED BY <2>1, <1>3, IsASeq
<1>6. DOMAIN reservations' = DOMAIN reservations
  BY <1>1, <1>3
<1> QED BY <1>1, <1>2, <1>4, <1>5, <1>6 DEF ExpireStale

\* The first state is typed.
LEMMA TypedInit == Init => Typed
<1> SUFFICES ASSUME Init PROVE Typed
  OBVIOUS
<1>1. \A p \in Pipeline : job[p] = NewJob /\ step[p] = "idle"
  BY DEF Init
<1>2. StepsKnow
  BY <1>1 DEF StepsKnow, Knows, NewJob
<1>3. job \in [Pipeline -> Job] /\ step \in [Pipeline -> Step]
  BY NewJobType DEF Init, Step
<1>4. \A p \in Pipeline : job[p].reservation = None
  BY <1>1 DEF NewJob
<1>5. \A f \in Fingerprint : active[f] = None
  BY DEF Init
<1>6. reservations \in Seq(Reservation)
  BY DEF Init
<1>7. cache \in [Fingerprint -> Record \cup {None}]
  BY DEF Init
<1>8. active \in [Fingerprint -> DOMAIN reservations \cup {None}]
  BY DEF Init
<1>9. identity \in [Pipeline -> Identity] /\ expired \in BOOLEAN /\ finished \subseteq Fingerprint
  BY DEF Init
<1> QED BY <1>2, <1>3, <1>4, <1>5, <1>6, <1>7, <1>8, <1>9 DEF Typed, TypeOK

\* A step that leaves the ledger alone keeps the types, if it does so for jobs,
\* steps and cache.
LEMMA SameLedger ==
    ASSUME TypeOK, UNCHANGED <<identity, reservations, active>>,
           job' \in [Pipeline -> Job], step' \in [Pipeline -> Step],
           cache' \in [Fingerprint -> Record \cup {None}],
           expired' \in BOOLEAN, finished' \subseteq Fingerprint,
           \A p \in Pipeline : job'[p].reservation = job[p].reservation
    PROVE  TypeOK'
BY DEF TypeOK

\* The same of a step that settles the reservation of a pipeline's job.
LEMMA SettledLedger ==
    ASSUME TypeOK, NEW p \in Pipeline, NEW s \in {"RELEASED", "CONSUMED"},
           job[p].reservation # None, Settle(p, s),
           UNCHANGED <<identity, cache, expired, finished>>,
           job' \in [Pipeline -> Job], step' \in [Pipeline -> Step],
           \A q \in Pipeline : job'[q].reservation \in {job[q].reservation, None}
    PROVE  TypeOK'
<1>1. \A q \in Pipeline : job'[q].reservation # None =>
        /\ job'[q].reservation \in DOMAIN reservations'
        /\ reservations'[job'[q].reservation].identity = identity'[q]
  BY SettleEffect DEF TypeOK
<1>2. \A f \in Fingerprint : active'[f] # None => reservations'[active'[f]].state = "RESERVED"
  BY SettleEffect DEF TypeOK
<1> QED BY <1>1, <1>2, SettleEffect DEF TypeOK

\* A step moves the job of one pipeline only, and keeps it typed; likewise its step.
OwnJob(p) == /\ job' \in [Pipeline -> Job]
             /\ \A q \in Pipeline : q # p => job'[q] = job[q]
OwnStep(p) == /\ step' \in [Pipeline -> Step]
              /\ \A q \in Pipeline : q # p => step'[q] = step[q]

\* What writing a job does.
LEMMA JobEffect ==
    ASSUME TypeOK, NEW p \in Pipeline, NEW j \in Job, job' = [job EXCEPT ![p] = j]
    PROVE  OwnJob(p) /\ job'[p] = j
BY DEF TypeOK, OwnJob

\* What writing a job's phase does.
LEMMA PhaseEffect ==
    ASSUME TypeOK, NEW p \in Pipeline, NEW phase \in Phase, SetPhase(p, phase)
    PROVE  /\ OwnJob(p)
           /\ job'[p] \in Job /\ job'[p].phase = phase
           /\ job'[p].reservation = job[p].reservation /\ job'[p].submits = job[p].submits
           /\ job'[p].result = job[p].result /\ job'[p].normalized = job[p].normalized
<1> DEFINE j == [job[p] EXCEPT !.phase = phase]
<1>1. job[p] \in Job
  BY DEF TypeOK
<1>2. /\ j \in Job /\ j.phase = phase
      /\ j.reservation = job[p].reservation /\ j.submits = job[p].submits
      /\ j.result = job[p].result /\ j.normalized = job[p].normalized
  BY <1>1 DEF Job
<1>3. job' = [job EXCEPT ![p] = j]
  BY DEF SetPhase
<1> HIDE DEF j
<1> QED BY <1>2, <1>3, JobEffect

\* What the next step of a call does.
LEMMA GoToEffect ==
    ASSUME TypeOK, NEW p \in Pipeline, NEW s \in Step, GoTo(p, s)
    PROVE  OwnStep(p) /\ step'[p] = s
BY DEF TypeOK, GoTo, OwnStep

\* What leaving jobs or steps alone does.
LEMMA JobStays == ASSUME TypeOK, NEW p \in Pipeline, job' = job
                  PROVE  OwnJob(p)
BY DEF TypeOK, OwnJob

\* A step leaves a pipeline where it is, if it does not move it.
LEMMA StepStays == ASSUME TypeOK, NEW p \in Pipeline, step' = step
                   PROVE  OwnStep(p)
BY DEF TypeOK, OwnStep

\* Reservation and phase together.
LEMMA ReservationEffect ==
    ASSUME TypeOK, NEW p \in Pipeline, NEW phase \in Phase, NEW r \in Nat \cup {None},
           job' = [job EXCEPT ![p].phase = phase, ![p].reservation = r]
    PROVE  /\ OwnJob(p)
           /\ job'[p] \in Job /\ job'[p].phase = phase /\ job'[p].reservation = r
           /\ job'[p].result = job[p].result /\ job'[p].normalized = job[p].normalized
<1> DEFINE j == [job[p] EXCEPT !.phase = phase, !.reservation = r]
<1>1. job[p] \in Job
  BY DEF TypeOK
<1>2. /\ j \in Job /\ j.phase = phase /\ j.reservation = r
      /\ j.result = job[p].result /\ j.normalized = job[p].normalized
  BY <1>1 DEF Job
<1>3. job' = [job EXCEPT ![p] = j]
  BY DEF TypeOK
<1> HIDE DEF j
<1> QED BY <1>2, <1>3, JobEffect

\* The submit of a call.
LEMMA SubmitEffect ==
    ASSUME TypeOK, NEW p \in Pipeline,
           job' = [job EXCEPT ![p].phase = "SUBMITTED", ![p].submits = @ + 1]
    PROVE  /\ OwnJob(p)
           /\ job'[p] \in Job /\ job'[p].phase = "SUBMITTED"
           /\ job'[p].reservation = job[p].reservation
           /\ job'[p].result = job[p].result /\ job'[p].normalized = job[p].normalized
<1> DEFINE n == job[p].submits + 1
           j == [job[p] EXCEPT !.phase = "SUBMITTED", !.submits = n]
<1>1. job[p] \in Job /\ n \in Nat
  BY DEF TypeOK, Job
<1>2. job' = [job EXCEPT ![p] = j]
  BY DEF TypeOK
<1> HIDE DEF n
<1>3. /\ j \in Job /\ j.phase = "SUBMITTED" /\ j.reservation = job[p].reservation
      /\ j.result = job[p].result /\ j.normalized = job[p].normalized
  BY <1>1 DEF Job, Phase
<1> HIDE DEF j
<1> QED BY <1>2, <1>3, JobEffect

\* The result of a call.
LEMMA ResultEffect ==
    ASSUME TypeOK, NEW p \in Pipeline, NEW result \in Payload \cup {Poison},
           job' = [job EXCEPT ![p].phase = "RESULT_RECEIVED",
                              ![p].result = IF job[p].normalized THEN @ ELSE result]
    PROVE  /\ OwnJob(p)
           /\ job'[p] \in Job /\ job'[p].phase = "RESULT_RECEIVED"
           /\ job'[p].reservation = job[p].reservation
           /\ job'[p].normalized = job[p].normalized
           /\ job'[p].result = IF job[p].normalized THEN job[p].result ELSE result
<1> DEFINE j == [job[p] EXCEPT !.phase = "RESULT_RECEIVED",
                               !.result = IF job[p].normalized THEN @ ELSE result]
<1>1. job[p] \in Job
  BY DEF TypeOK
<1>2. /\ j \in Job /\ j.phase = "RESULT_RECEIVED" /\ j.reservation = job[p].reservation
      /\ j.normalized = job[p].normalized
      /\ j.result = IF job[p].normalized THEN job[p].result ELSE result
  BY <1>1 DEF Job, Phase
<1>3. job' = [job EXCEPT ![p] = j]
  BY DEF TypeOK
<1> HIDE DEF j
<1> QED BY <1>2, <1>3, JobEffect

\* The normalized result of a call.
LEMMA NormalizeEffect ==
    ASSUME TypeOK, NEW p \in Pipeline,
           job' = [job EXCEPT ![p].phase = "NORMALIZED", ![p].normalized = TRUE]
    PROVE  /\ OwnJob(p)
           /\ job'[p] \in Job /\ job'[p].phase = "NORMALIZED"
           /\ job'[p].reservation = job[p].reservation
           /\ job'[p].normalized = TRUE /\ job'[p].result = job[p].result
<1> DEFINE yes == TRUE
           j == [job[p] EXCEPT !.phase = "NORMALIZED", !.normalized = yes]
<1>1. job[p] \in Job /\ yes \in BOOLEAN /\ yes = TRUE
  BY DEF TypeOK
<1>2. job' = [job EXCEPT ![p] = j]
  BY DEF TypeOK
<1> HIDE DEF yes
<1>3. /\ j \in Job /\ j.phase = "NORMALIZED" /\ j.reservation = job[p].reservation
      /\ j.normalized = yes /\ j.result = job[p].result
  BY <1>1 DEF Job, Phase
<1> HIDE DEF j
<1> QED BY <1>1, <1>2, <1>3, JobEffect

-----------------------------------------------------------------------------
\* A call that leaves the ledger alone keeps the types, if its pipeline's own
\* knowledge is kept.
LEMMA QuietCall ==
    ASSUME Typed, NEW p \in Pipeline, OwnJob(p), OwnStep(p), Knows(p)',
           job'[p].reservation = job[p].reservation,
           UNCHANGED <<identity, reservations, active, expired, finished>>,
           cache' \in [Fingerprint -> Record \cup {None}]
    PROVE  Typed'
<1>1. \A q \in Pipeline : job'[q].reservation = job[q].reservation
  BY DEF OwnJob
<1>2. TypeOK'
  BY <1>1, SameLedger DEF Typed, TypeOK, OwnJob, OwnStep
<1>3. \A q \in Pipeline : Knows(q)'
  BY DEF OwnJob, OwnStep, Knows, Typed, StepsKnow
<1> QED BY <1>2, <1>3 DEF Typed, StepsKnow

\* A joined reservation is in the ledger, for the same request.
LEMMA JoinedType ==
    ASSUME TypeOK, NEW p \in Pipeline, Joins(p)
    PROVE  /\ fp(p) \in Fingerprint
           /\ active[fp(p)] \in Nat /\ active[fp(p)] # None
           /\ active[fp(p)] \in DOMAIN reservations
           /\ reservations[active[fp(p)]].identity = identity[p]
<1>1. fp(p) \in Fingerprint
  BY IdentityType DEF fp
<1>2. active[fp(p)] \in DOMAIN reservations \cup {None}
  BY <1>1 DEF TypeOK
<1>3. active[fp(p)] # None /\ reservations[active[fp(p)]].identity = identity[p]
  BY DEF Joins
<1>4. active[fp(p)] \in DOMAIN reservations
  BY <1>2, <1>3
<1>5. active[fp(p)] \in Nat
  <2>1. Len(reservations) \in Nat /\ active[fp(p)] \in 1 .. Len(reservations)
    BY <1>4, LedgerDomain
  <2> QED BY <2>1
<1> QED BY <1>1, <1>3, <1>4, <1>5

\* Every step of a call keeps the types, and moves only its own pipeline.
LEMMA TypedRun ==
    ASSUME Typed, NEW p \in Pipeline, Run(p)
    PROVE  Typed' /\ OwnJob(p) /\ OwnStep(p)
<1> USE DEF Step
<1>0. /\ TypeOK /\ Knows(p) /\ job[p] \in Job /\ step[p] \in Step
      /\ cache \in [Fingerprint -> Record \cup {None}]
  BY DEF Typed, TypeOK, StepsKnow
<1>1. CASE RecheckBeforeReserve(p)
  <2>1. OwnJob(p) /\ job'[p].reservation = job[p].reservation
        /\ job'[p].result = job[p].result /\ job'[p].normalized = job[p].normalized
    BY <1>1, <1>0, PhaseEffect, JobStays DEF RecheckBeforeReserve, Phase
  <2>2. OwnStep(p)
    BY <1>1, <1>0, StepStays, GoToEffect DEF RecheckBeforeReserve
  <2>3. Knows(p)'
    BY <1>1, <1>0, <2>1, GoToEffect DEF RecheckBeforeReserve, Knows
  <2>4. UNCHANGED <<identity, cache, reservations, active, expired, finished>>
    BY <1>1 DEF RecheckBeforeReserve, ledger
  <2> QED BY <1>0, <2>1, <2>2, <2>3, <2>4, QuietCall
<1>2. CASE Refuse(p)
  <2>1. OwnJob(p) /\ job'[p].reservation = job[p].reservation
        /\ job'[p].result = job[p].result /\ job'[p].normalized = job[p].normalized
    BY <1>2, <1>0, PhaseEffect DEF Refuse, Phase
  <2>2. OwnStep(p)
    BY <1>2, <1>0, GoToEffect DEF Refuse, At
  <2>3. Knows(p)'
    BY <1>2, <1>0, <2>1, GoToEffect DEF Refuse, At, Knows
  <2>4. UNCHANGED <<identity, cache, reservations, active, expired, finished>>
    BY <1>2 DEF Refuse, ledger
  <2> QED BY <1>0, <2>1, <2>2, <2>3, <2>4, QuietCall
<1>3. CASE RecheckBeforeSubmit(p)
  <2>1. OwnJob(p) /\ job'[p].reservation = job[p].reservation
        /\ job'[p].result = job[p].result /\ job'[p].normalized = job[p].normalized
    BY <1>3, <1>0, JobStays DEF RecheckBeforeSubmit
  <2>2. OwnStep(p)
    BY <1>3, <1>0, GoToEffect DEF RecheckBeforeSubmit
  <2>3. Knows(p)'
    BY <1>3, <1>0, <2>1, GoToEffect DEF RecheckBeforeSubmit, Knows
  <2>4. UNCHANGED <<identity, cache, reservations, active, expired, finished>>
    BY <1>3 DEF RecheckBeforeSubmit, ledger
  <2> QED BY <1>0, <2>1, <2>2, <2>3, <2>4, QuietCall
<1>4. CASE AllowSubmit(p)
  <2>1. OwnJob(p) /\ job'[p].reservation = job[p].reservation
        /\ job'[p].result = job[p].result /\ job'[p].normalized = job[p].normalized
    BY <1>4, <1>0, SubmitEffect DEF AllowSubmit
  <2>2. OwnStep(p)
    BY <1>4, <1>0, GoToEffect DEF AllowSubmit, At
  <2>3. Knows(p)'
    BY <1>4, <1>0, <2>1, GoToEffect DEF AllowSubmit, At, Knows
  <2>4. UNCHANGED <<identity, cache, reservations, active, expired, finished>>
    BY <1>4 DEF AllowSubmit, ledger
  <2> QED BY <1>0, <2>1, <2>2, <2>3, <2>4, QuietCall
<1>5. CASE RejectSubmit(p)
  <2>1. OwnJob(p) /\ job'[p].reservation = job[p].reservation
        /\ job'[p].result = job[p].result /\ job'[p].normalized = job[p].normalized
    BY <1>5, <1>0, PhaseEffect DEF RejectSubmit, Phase
  <2>2. OwnStep(p)
    BY <1>5, <1>0, GoToEffect DEF RejectSubmit, At
  <2>3. Knows(p)'
    BY <1>5, <1>0, <2>1, GoToEffect DEF RejectSubmit, At, Knows
  <2>4. UNCHANGED <<identity, cache, reservations, active, expired, finished>>
    BY <1>5 DEF RejectSubmit, ledger
  <2> QED BY <1>0, <2>1, <2>2, <2>3, <2>4, QuietCall
<1>6. CASE LookAtHit(p)
  <2>1. OwnJob(p) /\ job'[p].reservation = job[p].reservation
        /\ job'[p].result = job[p].result /\ job'[p].normalized = job[p].normalized
    BY <1>6, <1>0, PhaseEffect, JobStays DEF LookAtHit, Phase
  <2>2. OwnStep(p)
    BY <1>6, <1>0, GoToEffect DEF LookAtHit
  <2>3. Knows(p)'
    BY <1>6, <1>0, <2>1, GoToEffect DEF LookAtHit, Knows
  <2>4. UNCHANGED <<identity, cache, reservations, active, expired, finished>>
    BY <1>6 DEF LookAtHit, ledger
  <2> QED BY <1>0, <2>1, <2>2, <2>3, <2>4, QuietCall
<1>7. CASE ReleaseRaises(p)
  <2>1. OwnJob(p) /\ job'[p].reservation = job[p].reservation
        /\ job'[p].result = job[p].result /\ job'[p].normalized = job[p].normalized
    BY <1>7, <1>0, JobStays DEF ReleaseRaises
  <2>2. OwnStep(p)
    BY <1>7, <1>0, GoToEffect DEF ReleaseRaises, At
  <2>3. Knows(p)'
    BY <1>7, <1>0, <2>1, GoToEffect DEF ReleaseRaises, At, Knows
  <2>4. UNCHANGED <<identity, cache, reservations, active, expired, finished>>
    BY <1>7 DEF ReleaseRaises, ledger
  <2> QED BY <1>0, <2>1, <2>2, <2>3, <2>4, QuietCall
<1>8. CASE PutRaises(p)
  <2>1. OwnJob(p) /\ job'[p].reservation = job[p].reservation
        /\ job'[p].result = job[p].result /\ job'[p].normalized = job[p].normalized
    BY <1>8, <1>0, JobStays DEF PutRaises
  <2>2. OwnStep(p)
    BY <1>8, <1>0, GoToEffect DEF PutRaises, At
  <2>3. Knows(p)'
    BY <1>8, <1>0, <2>1, GoToEffect DEF PutRaises, At, Knows
  <2>4. UNCHANGED <<identity, cache, reservations, active, expired, finished>>
    BY <1>8 DEF PutRaises, ledger
  <2> QED BY <1>0, <2>1, <2>2, <2>3, <2>4, QuietCall
<1>9. CASE ConsumeRaises(p)
  <2>1. OwnJob(p) /\ job'[p].reservation = job[p].reservation
        /\ job'[p].result = job[p].result /\ job'[p].normalized = job[p].normalized
    BY <1>9, <1>0, JobStays DEF ConsumeRaises
  <2>2. OwnStep(p)
    BY <1>9, <1>0, GoToEffect DEF ConsumeRaises, At
  <2>3. Knows(p)'
    BY <1>9, <1>0, <2>1, GoToEffect DEF ConsumeRaises, At, Knows
  <2>4. UNCHANGED <<identity, cache, reservations, active, expired, finished>>
    BY <1>9 DEF ConsumeRaises, ledger
  <2> QED BY <1>0, <2>1, <2>2, <2>3, <2>4, QuietCall
<1>10. CASE Recover(p)
  <2>1. OwnJob(p) /\ job'[p].reservation = job[p].reservation
        /\ job'[p].result = job[p].result /\ job'[p].normalized = job[p].normalized
    BY <1>10, <1>0, PhaseEffect, JobStays DEF Recover, Phase
  <2>2. OwnStep(p)
    BY <1>10, <1>0, GoToEffect, StepStays DEF Recover
  <2>3. Knows(p)'
    BY <1>10, <1>0, <2>1, GoToEffect DEF Recover, Knows
  <2>4. UNCHANGED <<identity, cache, reservations, active, expired, finished>>
    BY <1>10 DEF Recover, ledger
  <2> QED BY <1>0, <2>1, <2>2, <2>3, <2>4, QuietCall
<1>11. CASE LookUp(p)
  <2>1. OwnJob(p) /\ job'[p].reservation = job[p].reservation
        /\ job'[p].result = job[p].result /\ job'[p].normalized = job[p].normalized
    BY <1>11, <1>0, PhaseEffect, JobStays DEF LookUp, Phase
  <2>2. OwnStep(p)
    BY <1>11, <1>0, GoToEffect DEF LookUp
  <2>3. Knows(p)'
    BY <1>11, <1>0, <2>1, GoToEffect DEF LookUp, Knows
  <2>4. UNCHANGED <<identity, cache, reservations, active, expired, finished>>
    BY <1>11 DEF LookUp, ledger
  <2> QED BY <1>0, <2>1, <2>2, <2>3, <2>4, QuietCall
<1>12. ASSUME NEW result \in Payload \cup {Poison}, AcceptResult(p, result)
       PROVE  Typed' /\ OwnJob(p) /\ OwnStep(p)
  <2>1. /\ OwnJob(p) /\ job'[p].reservation = job[p].reservation
        /\ job'[p].normalized = job[p].normalized
        /\ job'[p].result = IF job[p].normalized THEN job[p].result ELSE result
    BY <1>12, <1>0, ResultEffect DEF AcceptResult
  <2>2. OwnStep(p)
    BY <1>12, <1>0, GoToEffect, StepStays DEF AcceptResult
  <2>3. step'[p] \in {"normalize", "idle"}
    BY <1>12, <1>0, GoToEffect DEF AcceptResult
  <2>4. job'[p].result # None /\ (job'[p].normalized => job'[p].result \in Payload)
    BY <1>0, <2>1, ConstantsAssumption DEF Knows
  <2>5. Knows(p)'
    BY <2>3, <2>4 DEF Knows
  <2>6. UNCHANGED <<identity, cache, reservations, active, expired, finished>>
    BY <1>12 DEF AcceptResult, ledger
  <2> QED BY <1>0, <2>1, <2>2, <2>5, <2>6, QuietCall
<1>13. CASE Normalize(p)
  <2>1. /\ OwnJob(p) /\ job'[p].reservation = job[p].reservation
        /\ job'[p].result = job[p].result
        /\ job'[p].normalized \in {job[p].normalized, TRUE}
        /\ job[p].result # Poison => job'[p].normalized
    BY <1>13, <1>0, NormalizeEffect, JobStays DEF Normalize
  <2>2. OwnStep(p) /\ step'[p] \in {"idle", "put"}
        /\ (step'[p] = "put" => job[p].result # Poison)
    BY <1>13, <1>0, GoToEffect DEF Normalize
  <2>3. job'[p].normalized => job'[p].result \in Payload
    <3>1. job[p].result \in Payload \cup {Poison}
      BY <1>13, <1>0 DEF Normalize, Knows, Job
    <3>2. CASE job[p].normalized \/ job[p].result = Poison
      BY <1>13, <1>0, <2>1, <3>2 DEF Normalize, Knows
    <3>3. CASE job[p].result # Poison
      BY <2>1, <3>1, <3>3
    <3> QED BY <3>2, <3>3
  <2>4. Knows(p)'
    BY <2>1, <2>2, <2>3 DEF Knows
  <2>5. UNCHANGED <<identity, cache, reservations, active, expired, finished>>
    BY <1>13 DEF Normalize, ledger
  <2> QED BY <1>0, <2>1, <2>2, <2>4, <2>5, QuietCall
<1>14. CASE Put(p)
  <2>1. OwnJob(p) /\ job'[p].reservation = job[p].reservation
        /\ job'[p].result = job[p].result /\ job'[p].normalized = job[p].normalized
    BY <1>14, <1>0, PhaseEffect DEF Put, Store, Phase
  <2>2. OwnStep(p)
    BY <1>14, <1>0, GoToEffect DEF Put
  <2>3. Knows(p)'
    BY <1>14, <1>0, <2>1, GoToEffect DEF Put, Knows
  <2>4. record(p) \in Record /\ fp(p) \in Fingerprint
    BY <1>14, <1>0 DEF Put, Knows, TypeOK, Record, record, Identity, fp
  <2>5. cache' \in [Fingerprint -> Record \cup {None}]
    BY <1>14, <1>0, <2>4 DEF Put, Store
  <2>6. UNCHANGED <<identity, reservations, active, expired, finished>>
    BY <1>14 DEF Put, ledger
  <2> QED BY <1>0, <2>1, <2>2, <2>3, <2>5, <2>6, QuietCall
<1>15. CASE Join(p)
  <2>1. fp(p) \in Fingerprint /\ active[fp(p)] \in Nat /\ active[fp(p)] # None
        /\ active[fp(p)] \in DOMAIN reservations
        /\ reservations[active[fp(p)]].identity = identity[p]
    BY <1>15, <1>0, JoinedType DEF Join
  <2>2. /\ OwnJob(p) /\ job'[p].reservation = active[fp(p)]
        /\ job'[p].result = job[p].result /\ job'[p].normalized = job[p].normalized
    <3>1. active[fp(p)] \in Nat \cup {None} /\ "ALLOWANCE_RESERVED" \in Phase
      BY <2>1 DEF Phase
    <3> QED BY <1>15, <1>0, <3>1, ReservationEffect DEF Join
  <2>3. OwnStep(p) /\ step'[p] = "idle"
    BY <1>15, <1>0, GoToEffect DEF Join, At
  <2>4. Knows(p)'
    BY <1>0, <2>2, <2>3 DEF Knows
  <2>5. UNCHANGED <<identity, cache, reservations, active, expired, finished>>
    BY <1>15 DEF Join, ledger
  <2>6. TypeOK'
    BY <1>0, <2>1, <2>2, <2>3, <2>5 DEF TypeOK, OwnJob, OwnStep
  <2>7. StepsKnow'
    BY <2>2, <2>3, <2>4 DEF Typed, StepsKnow, Knows, OwnJob, OwnStep
  <2> QED BY <2>2, <2>3, <2>6, <2>7 DEF Typed
<1>16. CASE Open(p)
  <2> DEFINE r == Len(reservations) + 1
  <2>1. r \in Nat /\ reservations \in Seq(Reservation) /\ fp(p) \in Fingerprint
    <3>1. Len(reservations) \in Nat
      BY <1>0, LedgerDomain
    <3>2. reservations \in Seq(Reservation)
      BY <1>0 DEF TypeOK
    <3>3. fp(p) \in Fingerprint
      BY <1>0, IdentityType DEF fp
    <3> QED BY <3>1, <3>2, <3>3
  <2>2. /\ OwnJob(p) /\ job'[p].reservation = r
        /\ job'[p].result = job[p].result /\ job'[p].normalized = job[p].normalized
    BY <1>16, <1>0, <2>1, ReservationEffect DEF Open, Phase
  <2>3. OwnStep(p) /\ step'[p] = "idle"
    BY <1>16, <1>0, GoToEffect DEF Open, At
  <2>4. r # None
    BY <2>1, ConstantsAssumption
  <2>5. Knows(p)'
    BY <1>0, <2>2, <2>3, <2>4 DEF Knows
  <2>6. UNCHANGED <<identity, cache, expired, finished>>
    BY <1>16 DEF Open
  <2>7. /\ reservations' \in Seq(Reservation) /\ r \in DOMAIN reservations'
        /\ \A q \in DOMAIN reservations :
              q \in DOMAIN reservations' /\ reservations'[q] = reservations[q]
        /\ reservations'[r].identity = identity[p] /\ reservations'[r].state = "RESERVED"
        /\ active' = [active EXCEPT ![fp(p)] = r]
    <3>1. /\ reservations' \in Seq(Reservation)
          /\ Len(reservations') = r
          /\ \A q \in DOMAIN reservations :
                q \in DOMAIN reservations' /\ reservations'[q] = reservations[q]
          /\ reservations'[r] = [identity |-> identity[p], state |-> "RESERVED"]
          /\ active' = [active EXCEPT ![fp(p)] = r]
      BY <1>16, <1>0, OpenEffect
    <3>2. r \in DOMAIN reservations'
      BY <3>1, <2>1
    <3> HIDE DEF r
    <3> QED BY <3>1, <3>2
  <2> HIDE DEF r
  <2>8. \A q \in Pipeline : job'[q].reservation # None =>
          /\ job'[q].reservation \in DOMAIN reservations'
          /\ reservations'[job'[q].reservation].identity = identity'[q]
    <3>1. CASE job'[p].reservation = r
      <4>1. ASSUME NEW q \in Pipeline, q # p, job[q].reservation # None
            PROVE  /\ job[q].reservation \in DOMAIN reservations'
                   /\ reservations'[job[q].reservation].identity = identity[q]
        BY <4>1, <1>0, <2>7 DEF TypeOK
      <4> QED BY <4>1, <2>2, <2>6, <2>7 DEF OwnJob
    <3> QED BY <3>1, <2>2
  <2>9. /\ active' \in [Fingerprint -> DOMAIN reservations' \cup {None}]
        /\ \A f \in Fingerprint : active'[f] # None =>
              reservations'[active'[f]].state = "RESERVED"
    BY <1>0, <2>1, <2>7 DEF TypeOK
  <2>10. TypeOK'
    BY <1>0, <2>2, <2>3, <2>6, <2>7, <2>8, <2>9 DEF TypeOK, OwnJob, OwnStep
  <2>11. StepsKnow'
    BY <2>2, <2>3, <2>5 DEF Typed, StepsKnow, Knows, OwnJob, OwnStep
  <2> QED BY <2>2, <2>3, <2>10, <2>11 DEF Typed
<1>17. CASE Release(p)
  <2>1. job[p].reservation # None /\ Settle(p, "RELEASED")
    BY <1>17, <1>0 DEF Release, At, Knows
  <2>2. /\ OwnJob(p) /\ job'[p].reservation = None
        /\ job'[p].result = job[p].result /\ job'[p].normalized = job[p].normalized
    BY <1>17, <1>0, ReservationEffect DEF Release, Phase
  <2>3. OwnStep(p) /\ step'[p] = "idle"
    BY <1>17, <1>0, GoToEffect DEF Release, At
  <2>4. Knows(p)'
    BY <1>0, <2>2, <2>3 DEF Knows
  <2>5. UNCHANGED <<identity, cache, expired, finished>>
    BY <1>17 DEF Release
  <2>6. TypeOK'
    BY <1>0, <2>1, <2>2, <2>3, <2>5, SettledLedger DEF OwnJob, OwnStep
  <2>7. StepsKnow'
    BY <2>2, <2>3, <2>4 DEF Typed, StepsKnow, Knows, OwnJob, OwnStep
  <2> QED BY <2>2, <2>3, <2>6, <2>7 DEF Typed
<1>18. CASE Consume(p)
  <2>1. job[p].reservation # None /\ Settle(p, "CONSUMED")
    BY <1>18, <1>0 DEF Consume, At, Knows
  <2>2. /\ OwnJob(p) /\ job'[p].reservation = job[p].reservation
        /\ job'[p].result = job[p].result /\ job'[p].normalized = job[p].normalized
    BY <1>18, <1>0, PhaseEffect DEF Consume, Phase
  <2>3. OwnStep(p) /\ step'[p] = "idle"
    BY <1>18, <1>0, GoToEffect DEF Consume, At
  <2>4. Knows(p)'
    BY <1>0, <2>2, <2>3 DEF Knows
  <2>5. UNCHANGED <<identity, cache, expired, finished>>
    BY <1>18 DEF Consume
  <2>6. TypeOK'
    BY <1>0, <2>1, <2>2, <2>3, <2>5, SettledLedger DEF OwnJob, OwnStep
  <2>7. StepsKnow'
    BY <2>2, <2>3, <2>4 DEF Typed, StepsKnow, Knows, OwnJob, OwnStep
  <2> QED BY <2>2, <2>3, <2>6, <2>7 DEF Typed
<1> QED
  BY <1>1, <1>2, <1>3, <1>4, <1>5, <1>6, <1>7, <1>8, <1>9,
     <1>10, <1>11, <1>12, <1>13, <1>14, <1>15, <1>16, <1>17, <1>18 DEF Run

\* Every step keeps the types.
LEMMA TypedStep == Typed /\ [Next]_vars => Typed'
<1> SUFFICES ASSUME Typed, [Next]_vars PROVE Typed'
  OBVIOUS
<1>1. ASSUME NEW p \in Pipeline, Run(p) PROVE Typed'
  BY <1>1, TypedRun
<1>2. ASSUME NEW f \in Fingerprint, JobFinishes(f) PROVE Typed'
  BY <1>2 DEF JobFinishes, ledger, Typed, TypeOK, StepsKnow, Knows
<1>3. ASSUME NEW f \in Fingerprint, OperatorBust(f) PROVE Typed'
  BY <1>3 DEF OperatorBust, ledger, Typed, TypeOK, StepsKnow, Knows
<1>4. CASE PolicyEnds
  BY <1>4 DEF PolicyEnds, Typed, TypeOK, StepsKnow, Knows
<1>5. CASE ExpireStale
  <2>1. TypeOK'
    BY <1>5, ExpireEffect DEF ExpireStale, Typed, TypeOK
  <2>2. StepsKnow'
    BY <1>5 DEF ExpireStale, Typed, StepsKnow, Knows
  <2> QED BY <2>1, <2>2 DEF Typed
<1>6. CASE UNCHANGED vars
  BY <1>6 DEF vars, ledger, Typed, TypeOK, StepsKnow, Knows
<1> QED BY <1>1, <1>2, <1>3, <1>4, <1>5, <1>6 DEF Next

\* Types and steps hold throughout.
LEMMA TypedInvariant == Spec => []Typed
BY TypedInit, TypedStep, PTL DEF Spec

\* The model is typed.
THEOREM TypeCorrect == Spec => []TypeOK
<1>1. Typed => TypeOK
  BY DEF Typed
<1> QED BY <1>1, TypedInvariant, PTL

-----------------------------------------------------------------------------
(* What is settled, put or finished stays so.                              *)

Moves ==
  /\ UNCHANGED identity /\ puts \subseteq puts' /\ finished \subseteq finished'
  /\ \A r \in DOMAIN reservations :
       /\ r \in DOMAIN reservations'
       /\ reservations'[r].identity = reservations[r].identity
       /\ reservations[r].state # "RESERVED" => reservations'[r] = reservations[r]

\* Settling a reservation that is held moves the ledger so.
LEMMA SettleMoves ==
    ASSUME Typed, NEW p \in Pipeline, NEW s \in {"RELEASED", "CONSUMED"},
           job[p].reservation # None, state(p) = "RESERVED", Settle(p, s),
           UNCHANGED <<identity, puts, finished>>
    PROVE  Moves
BY SettleEffect DEF Moves, Typed, state

\* Every step of a call moves so.
LEMMA RunMoves == ASSUME Typed, NEW p \in Pipeline, Run(p) PROVE Moves
<1>0. TypeOK /\ Knows(p)
  BY DEF Typed, StepsKnow
<1>1. CASE RecheckBeforeReserve(p)
  BY <1>1 DEF RecheckBeforeReserve, ledger, history, Moves
<1>2. CASE Join(p)
  BY <1>2 DEF Join, ledger, history, Moves
<1>3. CASE Refuse(p)
  BY <1>3 DEF Refuse, ledger, history, Moves
<1>4. CASE RecheckBeforeSubmit(p)
  BY <1>4 DEF RecheckBeforeSubmit, ledger, history, Moves
<1>5. CASE AllowSubmit(p)
  BY <1>5 DEF AllowSubmit, ledger, history, Moves
<1>6. CASE RejectSubmit(p)
  BY <1>6 DEF RejectSubmit, ledger, history, Moves
<1>7. CASE LookAtHit(p)
  BY <1>7 DEF LookAtHit, ledger, history, Moves
<1>8. CASE ReleaseRaises(p)
  BY <1>8 DEF ReleaseRaises, ledger, history, Moves
<1>9. CASE Recover(p)
  BY <1>9 DEF Recover, ledger, history, Moves
<1>10. CASE Normalize(p)
  BY <1>10 DEF Normalize, ledger, history, Moves
<1>11. CASE Put(p)
  BY <1>11 DEF Put, Store, ledger, history, Moves
<1>12. CASE PutRaises(p)
  BY <1>12 DEF PutRaises, ledger, history, Moves
<1>13. CASE LookUp(p)
  BY <1>13 DEF LookUp, ledger, history, Moves
<1>14. CASE ConsumeRaises(p)
  BY <1>14 DEF ConsumeRaises, ledger, history, Moves
<1>15. ASSUME NEW result \in Payload \cup {Poison}, AcceptResult(p, result) PROVE Moves
  BY <1>15 DEF AcceptResult, ledger, history, Moves
<1>16. CASE Open(p)
  BY <1>16, <1>0, OpenEffect DEF Open, history, Moves
<1>17. CASE Release(p)
  BY <1>17, <1>0, SettleMoves DEF Release, At, Knows, history
<1>18. CASE Consume(p)
  BY <1>18, <1>0, SettleMoves DEF Consume, At, Knows, history
<1> QED
  BY <1>1, <1>2, <1>3, <1>4, <1>5, <1>6, <1>7, <1>8, <1>9,
     <1>10, <1>11, <1>12, <1>13, <1>14, <1>15, <1>16, <1>17, <1>18 DEF Run

\* Every step moves so.
LEMMA StepMoves == Typed /\ [Next]_vars => Moves
<1> SUFFICES ASSUME Typed, [Next]_vars PROVE Moves
  OBVIOUS
<1>1. CASE ExpireStale
  BY <1>1, ExpireEffect DEF ExpireStale, history, Moves, Typed
<1>2. ASSUME NEW f \in Fingerprint, JobFinishes(f) PROVE Moves
  BY <1>2 DEF JobFinishes, ledger, history, Moves
<1>3. ASSUME NEW f \in Fingerprint, OperatorBust(f) PROVE Moves
  BY <1>3 DEF OperatorBust, ledger, Moves
<1>4. CASE PolicyEnds
  BY <1>4 DEF PolicyEnds, history, Moves
<1>5. CASE UNCHANGED vars
  BY <1>5 DEF vars, ledger, history, Moves
<1> QED BY <1>1, <1>2, <1>3, <1>4, <1>5, RunMoves DEF Next

-----------------------------------------------------------------------------
(* Nothing is spent or given back without a cause.                         *)

\* A call that is not moved keeps knowing.
LEMMA OthersKnowCause ==
    ASSUME Typed, Moves, NEW p \in Pipeline, KnowsCause(p),
           job'[p] = job[p], step'[p] = step[p]
    PROVE  KnowsCause(p)'
<1>1. job[p].phase = "CONSUMED" => reservations'[job[p].reservation].state = "CONSUMED"
  <2> SUFFICES ASSUME job[p].phase = "CONSUMED"
               PROVE  reservations'[job[p].reservation].state = "CONSUMED"
    OBVIOUS
  <2>1. job[p].reservation # None /\ reservations[job[p].reservation].state = "CONSUMED"
    BY DEF KnowsCause, state
  <2>2. job[p].reservation \in DOMAIN reservations
    BY <2>1 DEF Typed, TypeOK
  <2> QED BY <2>1, <2>2 DEF Moves
<1> QED BY <1>1 DEF KnowsCause, Moves, Answered, state

\* A hit was put, or is a finished job.
LEMMA HitIsAnswered ==
    ASSUME Typed, CacheKnows, NEW p \in Pipeline, Hit(p)
    PROVE  Answered(identity[p])
BY IdentityType DEF Typed, CacheKnows, Hit, Served, Answered, fp

\* Every step of a call keeps what calls know.
LEMMA RunKnowsCause ==
    ASSUME Typed, Known, NEW p \in Pipeline, Run(p)
    PROVE  CallsKnow'
<1> USE DEF Step
<1>0. /\ TypeOK /\ Knows(p) /\ KnowsCause(p) /\ Moves /\ OwnJob(p) /\ OwnStep(p)
      /\ CacheKnows /\ identity' = identity
      /\ \A i \in Identity : Answered(i) => Answered(i)'
      /\ identity[p] \in Identity
  BY RunMoves, TypedRun, IdentityType
  DEF Typed, StepsKnow, Known, CallsKnow, Moves, Answered
<1>a. job[p].reservation # None /\ state(p) = "CONSUMED" =>
        reservations'[job[p].reservation].state = "CONSUMED"
  BY <1>0 DEF TypeOK, Moves, state
<1> SUFFICES KnowsCause(p)'
  <2>1. ASSUME NEW q \in Pipeline, q # p PROVE KnowsCause(q)'
    BY <2>1, <1>0, OthersKnowCause DEF OwnJob, OwnStep, Known, CallsKnow
  <2> QED BY <2>1 DEF CallsKnow
<1>1. CASE RecheckBeforeReserve(p)
  BY <1>1, <1>0, <1>a, PhaseEffect, GoToEffect DEF RecheckBeforeReserve, Phase, ledger, KnowsCause, Moves, state
<1>2. CASE Refuse(p)
  BY <1>2, <1>0, <1>a, PhaseEffect, GoToEffect DEF Refuse, At, Phase, ledger, KnowsCause, Moves, state
<1>3. CASE Join(p)
  <2>1. active[fp(p)] \in Nat
    BY <1>3, <1>0, JoinedType DEF Join
  <2>2. job'[p].phase = "ALLOWANCE_RESERVED"
    BY <1>3, <1>0, <2>1, ReservationEffect DEF Join, Phase
  <2>3. step'[p] = "idle"
    BY <1>3, <1>0, GoToEffect DEF Join, At
  <2> QED BY <2>2, <2>3 DEF KnowsCause
<1>4. CASE Open(p)
  <2>1. Len(reservations) \in Nat
    BY <1>0, LedgerDomain
  <2>2. Len(reservations) + 1 \in Nat
    BY <2>1
  <2>3. job'[p].phase = "ALLOWANCE_RESERVED"
    BY <1>4, <1>0, <2>2, ReservationEffect DEF Open, Phase
  <2>4. step'[p] = "idle"
    BY <1>4, <1>0, GoToEffect DEF Open, At
  <2> QED BY <2>3, <2>4 DEF KnowsCause
<1>5. CASE RecheckBeforeSubmit(p)
  BY <1>5, <1>0, <1>a, GoToEffect, HitIsAnswered DEF RecheckBeforeSubmit, ledger, KnowsCause, Moves, state
<1>6. CASE AllowSubmit(p)
  BY <1>6, <1>0, <1>a, SubmitEffect, GoToEffect DEF AllowSubmit, At, KnowsCause, Moves, state
<1>7. CASE RejectSubmit(p)
  BY <1>7, <1>0, <1>a, PhaseEffect, GoToEffect DEF RejectSubmit, At, Phase, KnowsCause, Moves, state
<1>8. CASE LookAtHit(p)
  BY <1>8, <1>0, <1>a, PhaseEffect, GoToEffect DEF LookAtHit, Phase, KnowsCause, Moves, state
<1>9. CASE ReleaseRaises(p)
  BY <1>9, <1>0, <1>a, GoToEffect DEF ReleaseRaises, At, ledger, KnowsCause, Moves, state
<1>10. CASE Recover(p)
  BY <1>10, <1>0, <1>a, PhaseEffect, GoToEffect DEF Recover, Phase, ledger, KnowsCause, Moves, state
<1>11. CASE Normalize(p)
  BY <1>11, <1>0, <1>a, NormalizeEffect, GoToEffect DEF Normalize, ledger, KnowsCause, Moves, state
<1>12. CASE Put(p)
  BY <1>12, <1>0, <1>a, PhaseEffect, GoToEffect DEF Put, Store, Phase, ledger, KnowsCause, Moves, state
<1>13. CASE PutRaises(p)
  BY <1>13, <1>0, <1>a, GoToEffect DEF PutRaises, At, ledger, KnowsCause, Moves, state
<1>14. CASE LookUp(p)
  BY <1>14, <1>0, <1>a, PhaseEffect, GoToEffect DEF LookUp, Phase, ledger, KnowsCause, Moves, state
<1>15. CASE ConsumeRaises(p)
  BY <1>15, <1>0, <1>a, GoToEffect DEF ConsumeRaises, At, ledger, KnowsCause, Moves, state
<1>16. CASE Release(p)
  BY <1>16, <1>0, <1>a, ReservationEffect, GoToEffect DEF Release, At, Phase, KnowsCause, Moves, state
<1>17. CASE Consume(p)
  <2>1. job[p].reservation # None /\ identity[p] \in puts
    BY <1>17, <1>0 DEF Consume, At, Knows, KnowsCause
  <2>2. /\ job'[p].phase = "CONSUMED" /\ job'[p].reservation = job[p].reservation
        /\ step'[p] = "idle"
    BY <1>17, <1>0, PhaseEffect, GoToEffect DEF Consume, At, Phase
  <2>3. reservations'[job[p].reservation].state = "CONSUMED"
    BY <1>17, <1>0, <2>1, SettleEffect DEF Consume
  <2> QED BY <2>1, <2>2, <2>3 DEF KnowsCause, state
<1>18. ASSUME NEW result \in Payload \cup {Poison}, AcceptResult(p, result)
       PROVE  KnowsCause(p)'
  BY <1>18, <1>0, ResultEffect, GoToEffect DEF AcceptResult, KnowsCause
<1> QED
  BY <1>1, <1>2, <1>3, <1>4, <1>5, <1>6, <1>7, <1>8, <1>9,
     <1>10, <1>11, <1>12, <1>13, <1>14, <1>15, <1>16, <1>17, <1>18 DEF Run

\* What calls know is kept by every step.
LEMMA CallsKnowStep == Typed /\ Known /\ [Next]_vars => CallsKnow'
<1> SUFFICES ASSUME Typed, Known, [Next]_vars PROVE CallsKnow'
  OBVIOUS
<1>1. CASE UNCHANGED <<job, step>>
  BY <1>1, StepMoves, OthersKnowCause DEF Known, CallsKnow
<1>2. ASSUME NEW p \in Pipeline, Run(p) PROVE CallsKnow'
  BY <1>2, RunKnowsCause
<1> QED BY <1>1, <1>2 DEF Next, JobFinishes, OperatorBust, PolicyEnds, ExpireStale, vars

-----------------------------------------------------------------------------
(* The cache and the ledger.                                               *)

\* A step that puts no record and serves only the cached one keeps the cache.
LEMMA ServeKnows ==
    ASSUME Typed, Known, Moves, NEW p \in Pipeline, Serve(p) \/ UNCHANGED answers,
           UNCHANGED cache
    PROVE  CacheKnows'
<1>1. fp(p) \in Fingerprint
  BY IdentityType DEF Typed, fp
<1>2. /\ answers \in [Fingerprint -> SUBSET Record]
      /\ cache \in [Fingerprint -> Record \cup {None}]
  BY DEF Typed, TypeOK, Known, CacheKnows
<1>3. CASE UNCHANGED answers
  BY <1>3 DEF Known, CacheKnows, Moves
<1>4. CASE Served(p) /\ Answer(fp(p), cache[fp(p)])
  <2>1. answers' = [answers EXCEPT ![fp(p)] = @ \cup {cache[fp(p)]}]
    BY <1>4 DEF Answer
  <2>2. cache[fp(p)] # None /\ cache[fp(p)] \in Record
    BY <1>1, <1>2, <1>4 DEF Served
  <2>3. answers' \in [Fingerprint -> SUBSET Record]
    BY <1>1, <1>2, <2>1, <2>2
  <2>4. ASSUME NEW f \in Fingerprint PROVE answers'[f] \subseteq {cache'[f]} \ {None}
    BY <1>1, <1>2, <2>1, <2>2 DEF Known, CacheKnows
  <2> QED BY <2>3, <2>4 DEF Known, CacheKnows, Moves
<1> QED BY <1>3, <1>4 DEF Serve

\* A put does, since it replaces no other record.
LEMMA PutKnows ==
    ASSUME Typed, Known, Moves, NEW p \in Pipeline, Put(p)
    PROVE  CacheKnows'
<1> DEFINE f == fp(p)
           r == record(p)
<1>1. identity[p] \in Identity /\ f \in Fingerprint
  BY IdentityType DEF Typed, fp
<1>2. r \in Record /\ r.identity = identity[p] /\ r # None
  <2>1. job[p].result \in Payload
    BY DEF Put, Typed, StepsKnow, Knows
  <2>2. r \in Record /\ r.identity = identity[p]
    BY <1>1, <2>1 DEF Record, record
  <2> QED BY <2>2, RecordAssumption
<1>3. /\ answers \in [Fingerprint -> SUBSET Record]
      /\ cache \in [Fingerprint -> Record \cup {None}]
  BY DEF Typed, TypeOK, Known, CacheKnows
<1>4. /\ cache[f] \in {None, r} /\ cache' = [cache EXCEPT ![f] = r]
      /\ puts' = puts \cup {identity[p]}
      /\ answers' = [answers EXCEPT ![f] = @ \cup {r}]
  BY DEF Put, Store, Answer
<1>5. answers[f] \subseteq {r}
  BY <1>1, <1>4 DEF Known, CacheKnows
<1> HIDE DEF f, r
<1>6. answers' \in [Fingerprint -> SUBSET Record]
  BY <1>1, <1>2, <1>3, <1>4
<1>7. ASSUME NEW g \in Fingerprint
      PROVE  /\ cache'[g] # None => cache'[g].identity \in puts'
             /\ answers'[g] \subseteq {cache'[g]} \ {None}
  <2>1. CASE g = f
    BY <2>1, <1>1, <1>2, <1>3, <1>4, <1>5
  <2>2. CASE g # f
    BY <2>2, <1>1, <1>3, <1>4 DEF Known, CacheKnows
  <2> QED BY <2>1, <2>2
<1> QED BY <1>6, <1>7 DEF CacheKnows

\* What the cache holds was put, whatever step is taken.
LEMMA CacheKnowsStep == Typed /\ Known /\ [Next]_vars => CacheKnows'
<1> SUFFICES ASSUME Typed, Known, [Next]_vars PROVE CacheKnows'
  OBVIOUS
<1>0. Moves
  BY StepMoves
<1>1. CASE UNCHANGED <<cache, answers>>
  BY <1>0, <1>1 DEF Known, CacheKnows, Moves
<1>2. ASSUME NEW p \in Pipeline, RecheckBeforeReserve(p) \/ RecheckBeforeSubmit(p)
      PROVE  CacheKnows'
  BY <1>0, <1>2, ServeKnows DEF RecheckBeforeReserve, RecheckBeforeSubmit
<1>3. ASSUME NEW p \in Pipeline, Put(p) PROVE CacheKnows'
  BY <1>0, <1>3, PutKnows
<1>4. ASSUME NEW f \in Fingerprint, OperatorBust(f) PROVE CacheKnows'
  BY <1>0, <1>4 DEF OperatorBust, Typed, TypeOK, Known, CacheKnows, Moves
<1> QED
  BY <1>1, <1>2, <1>3, <1>4
  DEF Next, Run, Join, Open, Refuse, AllowSubmit, RejectSubmit, LookAtHit, Release,
      ReleaseRaises, AcceptResult, Recover, Normalize, PutRaises, LookUp, Consume,
      ConsumeRaises, JobFinishes, PolicyEnds, ExpireStale, vars, history

\* What the ledger has settled had its cause, whatever step is taken.
LEMMA LedgerKnowsStep == Typed /\ Known /\ [Next]_vars => LedgerKnows'
<1> SUFFICES ASSUME Typed, Known, [Next]_vars PROVE LedgerKnows'
  OBVIOUS
<1>0. TypeOK /\ Moves /\ LedgerKnows
  BY StepMoves DEF Typed, Known
<1> DEFINE Caused(r) ==
      /\ reservations[r].state = "CONSUMED" => reservations[r].identity \in puts
      /\ reservations[r].state = "RELEASED" => Answered(reservations[r].identity)
<1>a. \A r \in DOMAIN reservations : reservations'[r] = reservations[r] => Caused(r)'
  BY <1>0 DEF LedgerKnows, Moves, Answered
<1>b. posts \subseteq DOMAIN reservations'
  BY <1>0 DEF LedgerKnows, Moves
<1>1. CASE UNCHANGED <<reservations, posts>>
  BY <1>1, <1>a, <1>0 DEF LedgerKnows
<1>2. ASSUME NEW p \in Pipeline, AllowSubmit(p) PROVE LedgerKnows'
  <2>1. job[p].reservation \in DOMAIN reservations
    BY <1>2, <1>0 DEF AllowSubmit, At, Typed, StepsKnow, Knows, TypeOK
  <2>2. UNCHANGED reservations /\ posts' = posts \cup {job[p].reservation}
    BY <1>2 DEF AllowSubmit, ledger
  <2> QED BY <2>1, <2>2, <1>0, <1>a DEF LedgerKnows
<1>3. ASSUME NEW p \in Pipeline, Open(p) PROVE LedgerKnows'
  <2>1. \A r \in DOMAIN reservations' : r \in DOMAIN reservations \/ r = Len(reservations) + 1
    BY <1>3, <1>0, OpenedDomain
  <2>2. \A r : r = Len(reservations) + 1 => Caused(r)'
    <3>1. reservations'[Len(reservations) + 1] = [identity |-> identity[p], state |-> "RESERVED"]
      BY <1>3, <1>0, OpenEffect
    <3>2. reservations'[Len(reservations) + 1].state = "RESERVED"
      BY <3>1
    <3> QED BY <3>2
  <2>3. \A r \in DOMAIN reservations : Caused(r)'
    BY <1>3, <1>0, <1>a, OpenEffect
  <2>4. posts' = posts
    BY <1>3 DEF Open, history
  <2> QED BY <2>1, <2>2, <2>3, <2>4, <1>b DEF LedgerKnows
<1>4. ASSUME NEW p \in Pipeline, Release(p) \/ Consume(p) PROVE LedgerKnows'
  <2>1. /\ job[p].reservation # None
        /\ reservations[job[p].reservation].identity = identity[p]
        /\ Release(p) => Answered(identity[p])
        /\ Consume(p) => identity[p] \in puts
    BY <1>4, <1>0
    DEF Release, Consume, At, Typed, StepsKnow, Knows, Known, CallsKnow, KnowsCause, TypeOK
  <2>2. PICK s \in {"RELEASED", "CONSUMED"} :
          /\ Settle(p, s)
          /\ s = "RELEASED" => Answered(identity[p])
          /\ s = "CONSUMED" => identity[p] \in puts
    BY <1>4, <2>1 DEF Release, Consume
  <2>3. /\ DOMAIN reservations' = DOMAIN reservations
        /\ job[p].reservation \in DOMAIN reservations
        /\ \A r \in DOMAIN reservations :
              r # job[p].reservation => reservations'[r] = reservations[r]
        /\ reservations'[job[p].reservation].identity = identity[p]
        /\ reservations'[job[p].reservation].state = s
    BY <1>0, <2>1, <2>2, SettleEffect DEF TypeOK
  <2>4. \A r : r = job[p].reservation => Caused(r)'
    BY <1>0, <2>2, <2>3 DEF Moves, Answered
  <2>5. posts' = posts
    BY <1>4 DEF Release, Consume, history
  <2> QED BY <1>a, <1>b, <2>3, <2>4, <2>5 DEF LedgerKnows
<1>5. CASE ExpireStale
  <2>1. \A r \in DOMAIN reservations : Caused(r)'
    BY <1>5, <1>0, <1>a, ExpireEffect
  <2>2. posts' = posts
    BY <1>5 DEF ExpireStale, history
  <2> QED BY <1>5, <1>0, <1>b, <2>1, <2>2, ExpireEffect DEF LedgerKnows
<1> QED
  BY <1>1, <1>2, <1>3, <1>4, <1>5
  DEF Next, Run, RecheckBeforeReserve, Join, Refuse, RecheckBeforeSubmit, RejectSubmit,
      LookAtHit, ReleaseRaises, AcceptResult, Recover, Normalize, Put, PutRaises, LookUp,
      ConsumeRaises, JobFinishes, OperatorBust, PolicyEnds, ledger, history, vars

\* At first nothing is cached, settled or under way.
LEMMA KnownInit == Init => Known
<1> SUFFICES ASSUME Init PROVE Known
  OBVIOUS
<1>1. CallsKnow
  BY DEF Init, CallsKnow, KnowsCause, NewJob
<1>2. CacheKnows
  BY DEF Init, CacheKnows
<1>3. LedgerKnows
  BY DEF Init, LedgerKnows
<1> QED BY <1>1, <1>2, <1>3 DEF Known

\* So does what is known of calls, cache and ledger.
LEMMA KnownInvariant == Spec => [](Typed /\ Known)
<1>1. Typed /\ Known /\ [Next]_vars => (Typed /\ Known)'
  BY TypedStep, CallsKnowStep, CacheKnowsStep, LedgerKnowsStep DEF Known
<1> QED BY <1>1, TypedInit, KnownInit, PTL DEF Spec

\* No pipeline spends a unit for a result that was never cached, and a job that
\* says it has spent one has (consume_after_cache).
THEOREM ConsumesAreCached == Spec => []ConsumedAfterCached
<1>1. Typed /\ Known => ConsumedAfterCached
  BY DEF Known, LedgerKnows, CallsKnow, KnowsCause, ConsumedAfterCached
<1> QED BY <1>1, KnownInvariant, PTL

\* A reservation that was submitted under is given back only when there is a
\* result to show for it, whoever gives it back (gate_submit).
THEOREM PaidReleasesAnswered == Spec => []PaidReleaseIsAnswered
<1>1. Typed /\ Known => PaidReleaseIsAnswered
  BY DEF Known, LedgerKnows, Answered, PaidReleaseIsAnswered
<1> QED BY <1>1, KnownInvariant, PTL

\* All pipelines are answered alike until an operator busts the fingerprint
\* (recheck_cache, put_from_worker).
THEOREM AnswersAgreeAlways == Spec => []AnswersAgree
<1>1. Typed /\ Known => AnswersAgree
  <2> SUFFICES ASSUME Known, NEW f \in Fingerprint PROVE Cardinality(answers[f]) <= 1
    BY DEF AnswersAgree
  <2>1. answers[f] \subseteq {cache[f]}
    BY DEF Known, CacheKnows
  <2>2. IsFiniteSet({cache[f]}) /\ Cardinality({cache[f]}) = 1
    BY FS_Singleton
  <2> QED BY <2>1, <2>2, FS_Subset
<1> QED BY <1>1, KnownInvariant, PTL

-----------------------------------------------------------------------------
(* The units.                                                              *)

Taken == {r \in DOMAIN reservations : reservations[r].state \notin {"RELEASED", "EXPIRED"}}

\* They are finitely many.
LEMMA TakenIsFinite ==
    ASSUME NEW n \in Nat, NEW S, S \subseteq 1 .. n
    PROVE  IsFiniteSet(S) /\ Cardinality(S) \in Nat
<1>1. IsFiniteSet(1 .. n)
  BY FS_Interval
<1>2. IsFiniteSet(S)
  BY <1>1, FS_Subset
<1> QED BY <1>2, FS_CardinalityType

\* A step takes no unit but by opening a reservation, while one is left.
LEMMA UnitsKeptStep == Typed /\ UnitsKept /\ [Next]_vars => UnitsKept'
<1> SUFFICES ASSUME Typed, UnitsKept, [Next]_vars PROVE UnitsKept'
  OBVIOUS
<1>0. TypeOK /\ TypeOK' /\ Moves /\ Cardinality(Taken) <= Units
  BY TypedStep, StepMoves DEF Typed, UnitsKept, Taken
<1>1. /\ IsFiniteSet(Taken) /\ Cardinality(Taken) \in Nat
      /\ IsFiniteSet(Taken') /\ Cardinality(Taken') \in Nat
  <2>1. Taken \subseteq 1 .. Len(reservations) /\ Len(reservations) \in Nat
    BY <1>0 DEF Taken, TypeOK
  <2>2. Taken' \subseteq 1 .. Len(reservations') /\ Len(reservations') \in Nat
    BY <1>0 DEF Taken, TypeOK
  <2> QED BY <2>1, <2>2, TakenIsFinite
<1>2. \A r \in DOMAIN reservations : r \in Taken' => r \in Taken
  BY <1>0 DEF Taken, Moves
<1>3. CASE DOMAIN reservations' = DOMAIN reservations
  <2>1. Taken' \subseteq Taken
    BY <1>2, <1>3 DEF Taken
  <2>2. Cardinality(Taken') <= Cardinality(Taken)
    BY <1>1, <2>1, FS_Subset
  <2> QED BY <1>0, <1>1, <2>2, ConstantsAssumption DEF UnitsKept, Taken
<1>4. ASSUME NEW p \in Pipeline, Open(p) PROVE UnitsKept'
  <2> DEFINE n == Len(reservations) + 1
  <2>1. Taken' \subseteq Taken \cup {n}
    BY <1>0, <1>2, <1>4, OpenedDomain DEF Taken
  <2> HIDE DEF n
  <2>2. /\ IsFiniteSet(Taken \cup {n})
        /\ Cardinality(Taken \cup {n}) = IF n \in Taken THEN Cardinality(Taken)
                                         ELSE Cardinality(Taken) + 1
    BY <1>1, FS_AddElement
  <2>3. Cardinality(Taken') <= Cardinality(Taken \cup {n})
    BY <2>1, <2>2, FS_Subset
  <2>4. Cardinality(Taken) < Units
    <3>1. \A r \in DOMAIN reservations :
            reservations[r].state \in {"RESERVED", "RELEASED", "EXPIRED", "CONSUMED"}
      <4>1. \A r \in DOMAIN reservations : reservations[r] \in Reservation
        BY <1>0 DEF TypeOK
      <4> QED BY <4>1 DEF Reservation
    <3>2. Taken = {r \in DOMAIN reservations : reservations[r].state \in {"RESERVED", "CONSUMED"}}
      BY <3>1 DEF Taken
    <3> QED BY <1>4, <3>2 DEF Open, UnitsTaken
  <2>5. Cardinality(Taken') <= Units
    BY <1>1, <2>2, <2>3, <2>4, ConstantsAssumption
  <2> QED BY <2>5 DEF UnitsKept, Taken
<1>5. CASE \E p \in Pipeline : Release(p) \/ Consume(p)
  <2>1. PICK p \in Pipeline : Release(p) \/ Consume(p)
    BY <1>5
  <2>2. job[p].reservation # None
    BY <2>1 DEF Release, Consume, At, Typed, StepsKnow, Knows
  <2>3. PICK s \in {"RELEASED", "CONSUMED"} : Settle(p, s)
    BY <2>1 DEF Release, Consume
  <2> QED BY <1>0, <1>3, <2>2, <2>3, SettleEffect
<1>6. CASE ExpireStale
  BY <1>0, <1>3, <1>6, ExpireEffect
<1> QED
  BY <1>3, <1>4, <1>5, <1>6
  DEF Next, Run, RecheckBeforeReserve, Join, Refuse, RecheckBeforeSubmit, AllowSubmit,
      RejectSubmit, LookAtHit, ReleaseRaises, AcceptResult, Recover, Normalize, Put,
      PutRaises, LookUp, ConsumeRaises, JobFinishes, OperatorBust, PolicyEnds, ledger, vars

\* However pipelines join, release, expire and consume, the units held and spent
\* stay within the policy's (_try_reserve_unlocked).
THEOREM UnitsStayInPolicy == Spec => []UnitsKept
<1>1. Init => UnitsKept
  <2> SUFFICES ASSUME Init PROVE UnitsKept
    OBVIOUS
  <2>1. Taken = {}
    BY DEF Init, Taken
  <2>2. Cardinality(Taken) = 0
    BY <2>1, FS_EmptySet
  <2> QED BY <2>2, ConstantsAssumption DEF UnitsKept, Taken
<1> QED BY <1>1, UnitsKeptStep, TypedInvariant, PTL DEF Spec
=============================================================================
