------------------------ MODULE DurableJobsProofs ------------------------
(***************************************************************************)
(* Proofs about a durable job: its row in the table (DurableJobs), and the *)
(* worker machine that drives it (LiveWorker).                             *)
(*                                                                         *)
(* The row, for any jobs, ids, contracts and number of restarts: what a    *)
(* restart does to a row is a lemma about RestartRow; the invariant        *)
(* relates a row to the POSTs of its job: its ids are ids the vendor gave  *)
(* to this job, of which a job that was never rewound has one at most.     *)
(*                                                                         *)
(* The machine, whatever events are raised in whatever order: one POST at  *)
(* most, and no state that hides a POST.                                   *)
(***************************************************************************)
EXTENDS DurableJobs, LiveWorker, TLAPS

Touches(j) == worker[j] # "idle" \/ issued[j] # {}

\* A submission that the column still shows.
Shown ==
  \A j \in Job : Touches(j) /\ j \notin rewound =>
    j \in stored /\ rows[j].state \notin Hidden \cup {None}

OwnIds ==
  \A j \in Job : /\ rows[j].activity \in issued[j] \cup {None}
                 /\ rows[j].contract.activity \in issued[j] \cup {None}
                 /\ acked[j] \in issued[j] \cup {None}

OneId ==
  \A j \in Job : j \notin rewound =>
    /\ worker[j] = "marked" => issued[j] = {}
    /\ \A a, b \in issued[j] : a = b

IInv == TypeOK /\ Shown /\ OwnIds /\ OneId /\ AckedIdsAreKept

-----------------------------------------------------------------------------
\* The states partition as the code's sets do.
LEMMA StatePartition ==
  /\ None \notin State
  /\ Hidden \subseteq State
  /\ PreSubmit \subseteq Hidden
  /\ "ALLOWANCE_RESERVED" \in Hidden
  /\ {"UNKNOWN_VENDOR_STATE", "RECOVERY_REQUIRED", "SUBMITTING", "SUBMITTED",
      "ACTIVITY_ID_PERSISTED"} \subseteq State \ Hidden
  /\ "FAILED_PRE_SUBMIT" \in State
  /\ TerminalDurability \subseteq State
BY ConstantsAssumption DEF State, Hidden, PreSubmit, Submitting, ActivityBound,
  KeepAsIs, TerminalDurability

\* apply_restart_recovery yields a row, and drops no id.
LEMMA Recovered ==
  ASSUME NEW r \in Row
  PROVE  /\ ApplyRecovery(r) \in Row
         /\ ApplyRecovery(r).activity = r.activity
         /\ ApplyRecovery(r).state = r.state
         /\ ApplyRecovery(r).contract.activity = r.contract.activity
<1> DEFINE C(state) == [r EXCEPT !.contract.state = state]
           D(state) == [r EXCEPT !.contract.state = state, !.status = "FAILED"]
<1>1. ASSUME NEW state \in State
      PROVE  /\ C(state) \in Row /\ C(state).activity = r.activity /\ C(state).state = r.state
             /\ C(state).contract.activity = r.contract.activity
             /\ D(state) \in Row /\ D(state).activity = r.activity /\ D(state).state = r.state
             /\ D(state).contract.activity = r.contract.activity
  BY DEF Row, Contract, OrNone, Status, Terminal
<1>2. /\ "UNKNOWN_VENDOR_STATE" \in State /\ "JOINED" \in State
      /\ "RECOVERY_REQUIRED" \in State /\ TerminalDurability \subseteq State
  BY StatePartition DEF State, KeepAsIs
<1> HIDE DEF C, D
<1>3. \/ ApplyRecovery(r) = r
      \/ \E state \in State : ApplyRecovery(r) = C(state) \/ ApplyRecovery(r) = D(state)
  <2>1. CASE r.status \in Terminal
    BY <2>1 DEF ApplyRecovery
  <2>2. CASE r.status \notin Terminal
    BY <2>2, <1>2 DEF ApplyRecovery, C, D
  <2> QED BY <2>1, <2>2
<1> QED BY <1>1, <1>3

\* A restart yields a row, keeps its ids, and keeps a submission shown.
LEMMA Restarted ==
  ASSUME NEW r \in Row
  PROVE  /\ RestartRow(r) \in Row
         /\ RestartRow(r).activity = r.activity
         /\ RestartRow(r).contract.activity = r.contract.activity
         /\ r.state \notin Hidden \cup {None} => RestartRow(r).state \notin Hidden \cup {None}
<1> DEFINE doc == ApplyRecovery(r)
           seen == IF r.contract = NoContract THEN NoContract ELSE doc.contract
           state == Coalesce(r.state, seen.state)
           next == Classified(state, Coalesce(r.activity, seen.activity))
           new == [doc EXCEPT !.state = next, !.recovery = next # "FAILED_PRE_SUBMIT",
                              !.status = IF next = "FAILED_PRE_SUBMIT" THEN "FAILED" ELSE @]
           legacy == [doc EXCEPT !.status = "FAILED"]
<1>1. /\ doc \in Row /\ doc.activity = r.activity /\ doc.state = r.state
      /\ doc.contract.activity = r.contract.activity
  BY Recovered
<1>2. next \in State
  BY StatePartition DEF Classified
<1>3. r.state \notin Hidden \cup {None} /\ state \notin KeepAsIs => next \notin Hidden \cup {None}
  BY StatePartition DEF Classified, Coalesce
<1>4. \/ RestartRow(r) = r
      \/ RestartRow(r) = new /\ state \notin KeepAsIs
      \/ RestartRow(r) = legacy
  BY DEF RestartRow
<1> HIDE DEF doc, state, next
<1>6. /\ new \in Row /\ new.activity = doc.activity /\ new.state = next
      /\ new.contract = doc.contract
  BY <1>1, <1>2 DEF Row, OrNone, Status, Terminal
<1>7. /\ legacy \in Row /\ legacy.activity = doc.activity /\ legacy.state = doc.state
      /\ legacy.contract = doc.contract
  BY <1>1 DEF Row, Status, Terminal
<1> QED BY <1>1, <1>3, <1>4, <1>6, <1>7

\* _put writes a row whose ids are the contract's, else the row's own.
LEMMA PutRow ==
  ASSUME NEW r \in Row
  PROVE  /\ Put(r) \in Row
         /\ Put(r).activity = Coalesce(r.contract.activity, r.activity)
         /\ Put(r).state = Coalesce(r.contract.state, r.state)
         /\ Put(r).contract = r.contract
BY DEF Put, Coalesce, Row, Contract, OrNone

\* A write of the whole job that takes its ids from the job's own POSTs.
LEMMA Written ==
  ASSUME IInv, NEW j \in Job, NEW r \in Row, Write(j, r),
         j \in stored => r.state = rows[j].state /\ r.activity = rows[j].activity,
         j \notin stored => r.activity = None,
         r.contract.activity \in issued[j] \cup {None}
  PROVE  IInv'
<1> DEFINE p == Put(r)
<1>1. /\ rows \in [Job -> Row] /\ stored \subseteq Job /\ rewound \subseteq Job
      /\ issued \in [Job -> SUBSET Activity] /\ None \notin Activity
  BY ConstantsAssumption DEF IInv, TypeOK
<1>2. /\ p \in Row /\ p.contract = r.contract
      /\ p.activity = Coalesce(r.contract.activity, r.activity)
      /\ p.state = Coalesce(r.contract.state, r.state)
  BY PutRow
<1>3. /\ rows' = [rows EXCEPT ![j] = p]
      /\ stored' = stored \cup {j}
      /\ rewound' = IF Rewinds(j, r) THEN rewound \cup {j} ELSE rewound
      /\ UNCHANGED <<worker, lives, issued, acked>>
  BY DEF Write
<1> HIDE DEF p
<1>4. TypeOK'
  BY <1>1, <1>2, <1>3 DEF IInv, TypeOK
<1>5. Shown'
  <2> SUFFICES ASSUME NEW i \in Job, Touches(i)', i \notin rewound'
               PROVE  (i \in stored /\ rows[i].state \notin Hidden \cup {None})'
    BY DEF Shown
  <2>1. Touches(i) /\ i \notin rewound
    BY <1>3 DEF Touches
  <2>2. i \in stored /\ rows[i].state \notin Hidden \cup {None}
    BY <2>1 DEF IInv, Shown
  <2>3. CASE i # j
    BY <1>1, <1>3, <2>2, <2>3
  <2>4. CASE i = j
    <3>1. ~ Rewinds(j, r) /\ Touches(j)
      BY <1>3, <2>1, <2>4
    <3>2. r.contract.state \notin Hidden
      BY <3>1 DEF Rewinds, Touches
    <3>3. p.state \notin Hidden \cup {None}
      BY <1>2, <2>2, <2>4, <3>2 DEF Coalesce
    <3> QED BY <1>1, <1>3, <2>4, <3>3
  <2> QED BY <2>3, <2>4
<1>6. OwnIds'
  <2>1. p.activity \in issued[j] \cup {None} /\ p.contract.activity \in issued[j] \cup {None}
    BY <1>2 DEF IInv, OwnIds, Coalesce
  <2> QED BY <1>1, <1>3, <2>1 DEF IInv, OwnIds
<1>7. OneId'
  BY <1>3 DEF IInv, OneId
<1>8. AckedIdsAreKept'
  <2> SUFFICES ASSUME NEW i \in Job, (acked[i] # None)', i \notin rewound'
               PROVE  (rows[i].activity = acked[i])'
    BY DEF AckedIdsAreKept
  <2>1. acked[i] # None /\ i \notin rewound /\ acked[i] \in issued[i]
    BY <1>3 DEF IInv, OwnIds
  <2>2. rows[i].activity = acked[i] /\ i \in stored
    BY <2>1 DEF IInv, AckedIdsAreKept, Shown, Touches
  <2>3. CASE i # j
    BY <1>1, <1>3, <2>2, <2>3
  <2>4. CASE i = j
    <3>1. r.contract.activity # None => r.contract.activity = acked[j]
      BY <2>1, <2>4 DEF IInv, OneId
    <3>2. p.activity = acked[j]
      BY <1>2, <2>2, <2>4, <3>1 DEF Coalesce
    <3> QED BY <1>1, <1>3, <2>4, <3>2
  <2> QED BY <2>3, <2>4
<1> QED BY <1>4, <1>5, <1>6, <1>7, <1>8 DEF IInv

\* A write of the columns by a worker.
LEMMA WorkerWritten ==
  ASSUME IInv, NEW j \in Job, NEW state \in State, NEW a \in OrNone(issued[j]),
         NEW v \in OrNone(Reservation), CommitWorkerWrite(j, state, a, v)
  PROVE  /\ rows' \in [Job -> Row] /\ j \in stored
         /\ \A i \in Job : i # j => rows'[i] = rows[i]
         /\ rows'[j].state = state
         /\ rows'[j].contract = rows[j].contract
         /\ rows'[j].activity = Coalesce(a, rows[j].activity)
         /\ UNCHANGED <<stored, lives, issued, rewound>>
<1> DEFINE r == [rows[j] EXCEPT !.state = state, !.activity = Coalesce(a, @),
                                !.reservation = Coalesce(v, @), !.recovery = FALSE]
<1>1. /\ rows \in [Job -> Row] /\ rows[j] \in Row /\ issued[j] \subseteq Activity
  BY DEF IInv, TypeOK
<1>2. Coalesce(a, rows[j].activity) \in OrNone(Activity) /\ Coalesce(v, rows[j].reservation) \in OrNone(Reservation)
  BY <1>1 DEF Row, OrNone, Coalesce
<1>3. /\ r \in Row /\ r.state = state /\ r.contract = rows[j].contract
      /\ r.activity = Coalesce(a, rows[j].activity)
  BY <1>1, <1>2 DEF Row, OrNone
<1>4. /\ rows' = [rows EXCEPT ![j] = r] /\ j \in stored
      /\ UNCHANGED <<stored, lives, issued, rewound>>
  BY DEF CommitWorkerWrite
<1> HIDE DEF r
<1> QED BY <1>1, <1>3, <1>4

-----------------------------------------------------------------------------
\* The invariant holds at first: no POST has left and no id is known.
LEMMA InitInv == Init => IInv
<1> SUFFICES ASSUME Init PROVE IInv
  OBVIOUS
<1>1. PICK done \in SUBSET stored :
        rows = [j \in Job |-> [NewRow(NoContract) EXCEPT
                                 !.status = IF j \in done THEN "COMPLETE" ELSE @]]
  BY DEF Init
<1>2. \A j \in Job : rows[j] \in Row /\ rows[j].activity = None /\ rows[j].contract.activity = None
  BY <1>1 DEF NewRow, NoContract, Row, Contract, OrNone, Status, Terminal
<1>3. TypeOK
  BY <1>1, <1>2, ConstantsAssumption DEF Init, TypeOK, OrNone
<1>4. Shown /\ OneId /\ OwnIds /\ AckedIdsAreKept
  BY <1>2 DEF Init, Shown, OneId, OwnIds, AckedIdsAreKept, Touches
<1> QED BY <1>3, <1>4 DEF IInv

\* Opening the file keeps it: RestartRow, row by row.
LEMMA RestartInv == IInv /\ Restart => IInv'
<1> SUFFICES ASSUME IInv, Restart PROVE IInv'
  OBVIOUS
<1>1. \A j \in Job :
        /\ rows'[j] = IF j \in stored THEN RestartRow(rows[j]) ELSE rows[j]
        /\ rows[j] \in Row
        /\ rows'[j] \in Row /\ rows'[j].activity = rows[j].activity
        /\ rows'[j].contract.activity = rows[j].contract.activity
        /\ rows[j].state \notin Hidden \cup {None} => rows'[j].state \notin Hidden \cup {None}
  BY Restarted DEF Restart, IInv, TypeOK
<1>2. /\ rows' = [j \in Job |-> rows'[j]]
      /\ worker' = [j \in Job |-> "idle"]
      /\ UNCHANGED <<stored, issued, acked, rewound>> /\ lives' \in 0 .. MaxLives
  BY ConstantsAssumption DEF Restart, IInv, TypeOK
<1>3. TypeOK'
  BY <1>1, <1>2 DEF IInv, TypeOK
<1>4. Shown'
  BY <1>1, <1>2 DEF IInv, Shown, Touches
<1>5. OwnIds'
  BY <1>1, <1>2 DEF IInv, OwnIds
<1>6. OneId'
  BY <1>2 DEF IInv, OneId
<1>7. AckedIdsAreKept'
  BY <1>1, <1>2 DEF IInv, AckedIdsAreKept
<1> QED BY <1>3, <1>4, <1>5, <1>6, <1>7 DEF IInv

\* Every write of the whole job keeps it.
LEMMA JobWritesInv ==
  ASSUME IInv, NEW j \in Job,
         \/ \E k \in OrNone(Key) : Create(j, k)
         \/ \E s \in Status : UpdateStatus(j, s)
         \/ MarkInterrupted(j)
         \/ \E c \in Replacement : ReplaceDurability(j, c)
         \/ \E k \in Key : PersistFingerprint(j, k)
         \/ \E a \in Activity : PersistActivityId(j, a)
         \/ \E v \in Reservation : PersistReservationId(j, v)
         \/ RecoverAfterRestart(j)
  PROVE  IInv'
<1>1. /\ rows[j] \in Row /\ rows[j].contract \in Contract /\ issued[j] \subseteq Activity
      /\ rows[j].contract.activity \in issued[j] \cup {None}
      /\ rows[j].status \in Status
  BY DEF IInv, TypeOK, OwnIds, Row
<1>2. NewContract \in Contract /\ NewContract.activity = None
  BY StatePartition DEF NewContract, NoContract, Contract, OrNone, Hidden, PreSubmit
<1>3. Touched(j) \in Contract /\ Touched(j).activity \in issued[j] \cup {None}
  BY <1>1, <1>2 DEF Touched
<1>4. ASSUME NEW c \in Contract, c.activity \in issued[j] \cup {None}
      PROVE  LET r == [rows[j] EXCEPT !.contract = c] IN
             /\ r \in Row /\ r.state = rows[j].state /\ r.activity = rows[j].activity
             /\ r.contract.activity \in issued[j] \cup {None}
  BY <1>1, <1>4 DEF Row
<1>5. ASSUME NEW s \in Status
      PROVE  LET r == [rows[j] EXCEPT !.status = s] IN
             /\ r \in Row /\ r.state = rows[j].state /\ r.activity = rows[j].activity
             /\ r.contract.activity \in issued[j] \cup {None}
  BY <1>1 DEF Row
<1>6. ASSUME NEW k \in OrNone(Key), Create(j, k)
      PROVE  IInv'
  <2> DEFINE r == [NewRow(NewContract) EXCEPT !.key = k]
  <2>1. r \in Row /\ r.activity = None /\ r.contract.activity = None
    BY <1>2, ConstantsAssumption DEF NewRow, Row, Contract, OrNone, Status, Terminal,
       NewContract, NoContract
  <2>2. Write(j, r) /\ j \notin stored
    BY <1>6 DEF Create
  <2> HIDE DEF r
  <2> QED BY <2>1, <2>2, Written
<1>7. ASSUME NEW s \in Status, UpdateStatus(j, s)
      PROVE  IInv'
  BY <1>5, <1>7, Written DEF UpdateStatus
<1>8. ASSUME MarkInterrupted(j)
      PROVE  IInv'
  <2> DEFINE s == IF rows[j].status \in Terminal THEN rows[j].status ELSE "FAILED"
  <2>1. s \in Status
    BY <1>1 DEF Status, Terminal
  <2>2. Write(j, [rows[j] EXCEPT !.status = s]) /\ j \in stored
    BY <1>8 DEF MarkInterrupted
  <2> HIDE DEF s
  <2> QED BY <1>5, <2>1, <2>2, Written
<1>9. ASSUME NEW c \in Replacement, ReplaceDurability(j, c)
      PROVE  IInv'
  <2>1. c \in Contract
    BY ConstantsAssumption
  <2> QED BY <1>4, <1>9, <2>1, Written DEF ReplaceDurability
<1>10. ASSUME NEW k \in Key, PersistFingerprint(j, k)
       PROVE  IInv'
  <2> DEFINE r == [rows[j] EXCEPT !.key = k, !.contract = Touched(j)]
  <2>1. /\ r \in Row /\ r.state = rows[j].state /\ r.activity = rows[j].activity
        /\ r.contract.activity \in issued[j] \cup {None}
    BY <1>1, <1>3 DEF Row, OrNone
  <2>2. Write(j, r) /\ j \in stored
    BY <1>10 DEF PersistFingerprint
  <2> HIDE DEF r
  <2> QED BY <2>1, <2>2, Written
<1>11. ASSUME NEW a \in Activity, PersistActivityId(j, a)
       PROVE  IInv'
  <2> DEFINE state == IF Touched(j).state \in PreSubmit \cup Submitting \cup {"ALLOWANCE_RESERVED"}
                      THEN "ACTIVITY_ID_PERSISTED" ELSE Touched(j).state
             c == [Touched(j) EXCEPT !.activity = a, !.state = state]
  <2>1. state \in OrNone(State)
    BY <1>3, StatePartition DEF Contract, OrNone
  <2>2. Write(j, [rows[j] EXCEPT !.contract = c]) /\ j \in stored /\ a \in issued[j]
    BY <1>11 DEF PersistActivityId
  <2> HIDE DEF state
  <2>3. c \in Contract /\ c.activity = a
    BY <1>3, <2>1 DEF Contract, OrNone
  <2> HIDE DEF c
  <2> QED BY <1>4, <2>2, <2>3, Written
<1>12. ASSUME NEW v \in Reservation, PersistReservationId(j, v)
       PROVE  IInv'
  <2> DEFINE state == IF Touched(j).state \in PreSubmit THEN "ALLOWANCE_RESERVED" ELSE Touched(j).state
             c == [Touched(j) EXCEPT !.reservation = v, !.state = state]
  <2>1. state \in OrNone(State)
    BY <1>3, StatePartition DEF Contract, OrNone
  <2>2. Write(j, [rows[j] EXCEPT !.contract = c]) /\ j \in stored
    BY <1>12 DEF PersistReservationId
  <2> HIDE DEF state
  <2>3. c \in Contract /\ c.activity = Touched(j).activity
    BY <1>3, <2>1 DEF Contract, OrNone
  <2> HIDE DEF c
  <2> QED BY <1>3, <1>4, <2>2, <2>3, Written
<1>13. ASSUME RecoverAfterRestart(j)
       PROVE  IInv'
  BY <1>1, <1>13, Recovered, Written DEF RecoverAfterRestart
<1> QED BY <1>6, <1>7, <1>8, <1>9, <1>10, <1>11, <1>12, <1>13

\* A worker's write of the columns keeps it: the worker begins where nothing
\* was sent, and acknowledges an id of this job's own POST.
LEMMA WorkerWritesInv ==
  ASSUME IInv, NEW j \in Job,
         \/ \E v \in Reservation : CommitReservationBinding(j, v)
         \/ \E v \in OrNone(Reservation) : MarkSubmitting(j, v)
         \/ \E a \in Activity, v \in Reservation, state \in Submitting \cup ActivityBound :
              Acknowledge(j, state, a, v)
  PROVE  IInv'
<1>1. /\ rows \in [Job -> Row] /\ worker \in [Job -> {"idle", "marked", "posted"}]
      /\ issued \in [Job -> SUBSET Activity] /\ acked \in [Job -> OrNone(Activity)]
      /\ None \in OrNone(issued[j]) /\ None \in OrNone(Reservation)
      /\ None \notin Activity
      /\ \A v \in Reservation : v \in OrNone(Reservation)
  BY ConstantsAssumption DEF IInv, TypeOK, OrNone
<1>2. \A i \in Job : /\ acked[i] # None => acked[i] \in issued[i]
                     /\ rows[i].activity \in issued[i] \cup {None}
  BY DEF IInv, OwnIds
<1>3. Startable(j) => j \in rewound \/ (worker[j] = "idle" /\ issued[j] = {} /\ acked[j] = None)
  BY <1>2, StatePartition DEF Startable, IInv, Shown, Touches
<1>4. ASSUME NEW v \in Reservation, CommitReservationBinding(j, v)
      PROVE  IInv'
  <2>1. CommitWorkerWrite(j, "ALLOWANCE_RESERVED", None, v) /\ Startable(j) /\ UNCHANGED <<worker, acked>>
    BY <1>4 DEF CommitReservationBinding
  <2>2. "ALLOWANCE_RESERVED" \in State
    BY StatePartition
  <2>3. /\ rows' \in [Job -> Row] /\ j \in stored
        /\ \A i \in Job : i # j => rows'[i] = rows[i]
        /\ rows'[j].contract = rows[j].contract
        /\ rows'[j].activity = rows[j].activity
        /\ UNCHANGED <<stored, lives, issued, rewound>>
    BY <1>1, <2>1, <2>2, WorkerWritten DEF Coalesce
  <2>4. TypeOK'
    BY <2>1, <2>3 DEF IInv, TypeOK
  <2>5. Shown'
    BY <1>3, <2>1, <2>3 DEF IInv, Shown, Touches
  <2>6. OwnIds' /\ OneId' /\ AckedIdsAreKept'
    BY <2>1, <2>3 DEF IInv, OwnIds, OneId, AckedIdsAreKept
  <2> QED BY <2>4, <2>5, <2>6 DEF IInv
<1>5. ASSUME NEW v \in OrNone(Reservation), MarkSubmitting(j, v)
      PROVE  IInv'
  <2>1. /\ CommitWorkerWrite(j, "SUBMITTING", None, v) /\ Startable(j)
        /\ worker' = [worker EXCEPT ![j] = "marked"] /\ UNCHANGED acked
    BY <1>5 DEF MarkSubmitting
  <2>2. "SUBMITTING" \in State /\ "SUBMITTING" \notin Hidden \cup {None}
    BY StatePartition
  <2>3. /\ rows' \in [Job -> Row] /\ j \in stored
        /\ \A i \in Job : i # j => rows'[i] = rows[i]
        /\ rows'[j].state = "SUBMITTING"
        /\ rows'[j].contract = rows[j].contract
        /\ rows'[j].activity = rows[j].activity
        /\ UNCHANGED <<stored, lives, issued, rewound>>
    BY <1>1, <2>1, <2>2, WorkerWritten DEF Coalesce
  <2>4. TypeOK'
    BY <1>1, <2>1, <2>3 DEF IInv, TypeOK
  <2>5. Shown'
    BY <1>1, <2>1, <2>2, <2>3 DEF IInv, Shown, Touches
  <2>6. OwnIds' /\ AckedIdsAreKept'
    BY <2>1, <2>3 DEF IInv, OwnIds, AckedIdsAreKept
  <2>7. OneId'
    BY <1>1, <1>3, <2>1, <2>3 DEF IInv, OneId
  <2> QED BY <2>4, <2>5, <2>6, <2>7 DEF IInv
<1>6. ASSUME NEW a \in Activity, NEW v \in Reservation, NEW state \in Submitting \cup ActivityBound,
             Acknowledge(j, state, a, v)
      PROVE  IInv'
  <2>1. /\ CommitWorkerWrite(j, state, a, v) /\ a \in issued[j] /\ worker[j] = "posted"
        /\ acked' = [acked EXCEPT ![j] = a] /\ UNCHANGED worker
        /\ state \in {"SUBMITTED", "ACTIVITY_ID_PERSISTED"}
    BY <1>6 DEF Acknowledge
  <2>2. state \in State /\ state \notin Hidden \cup {None} /\ a \in OrNone(issued[j]) /\ a # None
    BY <1>1, <2>1, StatePartition DEF OrNone
  <2>3. /\ rows' \in [Job -> Row] /\ j \in stored
        /\ \A i \in Job : i # j => rows'[i] = rows[i]
        /\ rows'[j].state = state
        /\ rows'[j].contract = rows[j].contract
        /\ rows'[j].activity = a
        /\ UNCHANGED <<stored, lives, issued, rewound>>
    BY <1>1, <2>1, <2>2, WorkerWritten DEF Coalesce
  <2>4. TypeOK'
    BY <1>1, <2>1, <2>3 DEF IInv, TypeOK, OrNone
  <2>5. Shown'
    BY <2>1, <2>2, <2>3 DEF IInv, Shown, Touches
  <2>6. OwnIds'
    BY <1>1, <2>1, <2>3 DEF IInv, OwnIds
  <2>7. OneId'
    BY <2>1, <2>3 DEF IInv, OneId
  <2>8. AckedIdsAreKept'
    BY <1>1, <2>1, <2>3 DEF IInv, AckedIdsAreKept
  <2> QED BY <2>4, <2>5, <2>6, <2>7, <2>8 DEF IInv
<1> QED BY <1>4, <1>5, <1>6

\* A POST keeps it: the row said SUBMITTING before it left.
LEMMA PostInv == ASSUME IInv, NEW j \in Job, NEW a \in Activity, Post(j, a) PROVE IInv'
<1>1. /\ worker[j] = "marked" /\ issued' = [issued EXCEPT ![j] = @ \cup {a}]
      /\ worker' = [worker EXCEPT ![j] = "posted"]
      /\ UNCHANGED <<rows, stored, lives, acked, rewound>>
  BY DEF Post
<1>2. /\ worker \in [Job -> {"idle", "marked", "posted"}] /\ issued \in [Job -> SUBSET Activity]
  BY DEF IInv, TypeOK
<1>3. TypeOK'
  BY <1>1, <1>2 DEF IInv, TypeOK
<1>4. Shown'
  BY <1>1, <1>2 DEF IInv, Shown, Touches
<1>5. OwnIds'
  BY <1>1, <1>2 DEF IInv, OwnIds
<1>6. OneId'
  BY <1>1, <1>2 DEF IInv, OneId
<1>7. AckedIdsAreKept'
  BY <1>1 DEF IInv, AckedIdsAreKept
<1> QED BY <1>3, <1>4, <1>5, <1>6, <1>7 DEF IInv

\* The three facts of an inductive invariant, combined.
THEOREM RowsInvariant == Spec => []IInv
<1>1. ASSUME IInv, [Next]_vars PROVE IInv'
  <2>1. CASE UNCHANGED vars
    BY <1>1, <2>1 DEF vars, IInv, TypeOK, Shown, OwnIds, OneId, AckedIdsAreKept, Touches
  <2>2. CASE Restart
    BY <1>1, <2>2, RestartInv
  <2>3. CASE Next /\ ~ Restart
    <3>1. PICK j \in Job :
            \/ \E k \in OrNone(Key) : Create(j, k)
            \/ \E s \in Status : UpdateStatus(j, s)
            \/ MarkInterrupted(j)
            \/ \E c \in Replacement : ReplaceDurability(j, c)
            \/ \E k \in Key : PersistFingerprint(j, k)
            \/ \E a \in Activity : PersistActivityId(j, a)
            \/ \E v \in Reservation : PersistReservationId(j, v)
            \/ RecoverAfterRestart(j)
            \/ \E v \in Reservation : CommitReservationBinding(j, v)
            \/ \E v \in OrNone(Reservation) : MarkSubmitting(j, v)
            \/ \E a \in Activity : Post(j, a)
            \/ \E a \in Activity, v \in Reservation, state \in Submitting \cup ActivityBound :
                 Acknowledge(j, state, a, v)
      BY <2>3 DEF Next
    <3> QED BY <1>1, <3>1, JobWritesInv, WorkerWritesInv, PostInv
  <2> QED BY <1>1, <2>1, <2>2, <2>3
<1> QED BY InitInv, <1>1, PTL DEF Spec

\* Every variable keeps its type, whatever the jobs and contracts are.
THEOREM TypeCorrect == Spec => []TypeOK
<1>1. IInv => TypeOK
  BY DEF IInv
<1> QED BY RowsInvariant, <1>1, PTL

\* No restart and no column write hides a submission (_apply_restart_row,
\* _commit_worker_write).
THEOREM PostsRemembered == Spec => []PostIsRemembered
<1>1. IInv => PostIsRemembered
  BY DEF IInv, Shown, PostIsRemembered, Touches
<1> QED BY RowsInvariant, <1>1, PTL

\* An acknowledged activity id is never lost or replaced.
THEOREM AcksKept == Spec => []AckedIdsAreKept
<1>1. IInv => AckedIdsAreKept
  BY DEF IInv
<1> QED BY RowsInvariant, <1>1, PTL

-----------------------------------------------------------------------------
(* The worker machine.                                                     *)

\* The flags tell whether a POST may have left: sent is no more than they say.
FlagsTellThePost ==
  /\ sent > 0 => sent = 1 /\ Uncertain(rec)
  /\ rec.submitted \/ rec.durable \/ rec.state = "SUBMITTED" => sent > 0

\* The states before a POST are entered only before a POST.
EarlyStatesAreFree ==
  rec.state \in {"REQUESTED", "VALIDATED", "JOINED", "FAILED_PRE_SUBMIT"} => sent = 0

\* While a submit is in flight there is no durable activity id yet.
NoIdInFlight == rec.state = "SUBMITTING" => ~rec.durable

WorkerInv == WorkerTypeOK /\ FlagsTellThePost /\ EarlyStatesAreFree /\ NoIdInFlight

\* The edges into the states the argument turns on, in both modes.
LEMMA Edges ==
  ASSUME NEW r \in Record, NEW to, NEW mode, Legal(r, to, mode)
  PROVE  /\ to # "REQUESTED"
         /\ to = "VALIDATED" => r.state = "REQUESTED"
         /\ to = "JOINED" => r.state = "VALIDATED"
         /\ to = "SUBMITTED" => r.state = "SUBMITTING"
         /\ to = "SUBMITTING" => ~BlindRetry(r)
         /\ to = "SUBMITTING" => r.state = "ALLOWANCE_RESERVED"
<1>1. r.state \notin TerminalStates /\ to \in Targets(r.state, mode)
  BY DEF Legal
<1> DEFINE s == r.state
<1>2. CASE s \in {"REQUESTED", "VALIDATED", "JOINED", "ALLOWANCE_RESERVED"}
  BY <1>1, <1>2 DEF Targets, Operator, Automatic, Legal
<1>3. CASE s \in {"SUBMITTING", "SUBMITTED"} \cup Paid
  BY <1>1, <1>3 DEF Targets, Operator, Automatic, Legal, Paid
<1>4. CASE s \in {"UNKNOWN_VENDOR_STATE", "RECOVERY_REQUIRED"}
  BY <1>1, <1>4 DEF Targets, Operator, Automatic, Legal
<1>5. r.state \in States /\ r.state \notin TerminalStates
  BY <1>1 DEF Record
<1> QED BY <1>2, <1>3, <1>4, <1>5 DEF States, Automatic, TerminalStates, Paid

\* A moved record is a record: only its state may differ, and then by a legal edge.
LEMMA MovedRecord ==
  ASSUME NEW r \in Record, NEW to \in States, NEW mode
  PROVE  /\ Moved(r, to, mode) \in Record
         /\ \/ Moved(r, to, mode) = r
            \/ Moved(r, to, mode) = [r EXCEPT !.state = to] /\ Legal(r, to, mode)
BY DEF Moved, Record

\* What a move does to the flags the argument reads: nothing.
LEMMA MovedFlags ==
  ASSUME NEW r \in Record, NEW to \in States, NEW mode
  PROVE  LET n == Moved(r, to, mode)
         IN /\ n.attempted = r.attempted /\ n.neverLeft = r.neverLeft
            /\ n.submitted = r.submitted /\ n.durable = r.durable /\ n.activity = r.activity
            /\ n.state = r.state \/ (n.state = to /\ Legal(r, to, mode))
BY DEF Moved, Record

\* A step that sends no POST and only changes flags in agreement with sent,
\* then moves by a legal edge, keeps the invariant.
LEMMA MoveKeeps ==
  ASSUME WorkerInv, NEW r \in Record, NEW to \in States, NEW mode,
         Become(Moved(r, to, mode)),
         r.state = rec.state,
         sent > 0 => Uncertain(r),
         r.submitted \/ r.durable => sent > 0,
         r.durable => r.activity /\ r.submitted,
         to = "SUBMITTED" /\ r.state = "SUBMITTING" => sent > 0,
         to = "FAILED_PRE_SUBMIT" /\ Legal(r, to, mode) => sent = 0,
         r.state = "SUBMITTING" => ~r.durable
  PROVE  WorkerInv'
<1> DEFINE n == Moved(r, to, mode)
<1>1. n \in Record
  BY MovedRecord
<1>2. /\ n.attempted = r.attempted /\ n.neverLeft = r.neverLeft
      /\ n.submitted = r.submitted /\ n.durable = r.durable /\ n.activity = r.activity
      /\ n.state = r.state \/ (n.state = to /\ Legal(r, to, mode))
  BY MovedFlags
<1>3. Legal(r, to, mode) =>
         /\ to # "REQUESTED"
         /\ to = "VALIDATED" => r.state = "REQUESTED"
         /\ to = "JOINED" => r.state = "VALIDATED"
         /\ to = "SUBMITTED" => r.state = "SUBMITTING"
         /\ to = "SUBMITTING" => ~BlindRetry(r)
  BY Edges
<1>4. rec' = n /\ sent' = sent
  BY DEF Become
<1> HIDE DEF n
<1>6. WorkerTypeOK'
  BY <1>1, <1>2, <1>4 DEF WorkerInv, WorkerTypeOK
<1>7. FlagsTellThePost'
  BY <1>2, <1>3, <1>4 DEF WorkerInv, WorkerTypeOK, FlagsTellThePost, Uncertain
<1>8. EarlyStatesAreFree'
  BY <1>2, <1>3, <1>4 DEF WorkerInv, EarlyStatesAreFree
<1>9. NoIdInFlight'
  <2> SUFFICES ASSUME n.state = "SUBMITTING", n.durable PROVE FALSE
    BY <1>4 DEF NoIdInFlight
  <2>1. r.state # "SUBMITTING" /\ Legal(r, to, mode) /\ to = "SUBMITTING"
    BY <1>2
  <2>2. sent > 0 /\ Uncertain(r)
    BY <1>2
  <2> QED BY <2>1, <2>2, <1>3 DEF BlindRetry
<1> QED BY <1>6, <1>7, <1>8, <1>9 DEF WorkerInv

\* A new record satisfies the invariant.
LEMMA WorkerStarts == WorkerInit => WorkerInv
<1> SUFFICES ASSUME WorkerInit PROVE WorkerInv
  OBVIOUS
<1>1. Fresh \in Record
  BY DEF Fresh, Record, States, Automatic
<1>2. Fresh.state = "REQUESTED" /\ ~Fresh.submitted /\ ~Fresh.durable
  BY DEF Fresh
<1>3. rec = Fresh /\ sent = 0
  BY Zenon DEF WorkerInit
<1> QED BY <1>1, <1>2, <1>3 DEF WorkerInv, WorkerTypeOK, FlagsTellThePost, EarlyStatesAreFree, NoIdInFlight

\* The named states an event moves to are states.
LEMMA StateNames ==
  /\ {"VALIDATED", "CACHE_HIT", "JOINED", "ALLOWANCE_RESERVED", "FAILED_PRE_SUBMIT", "SUBMITTING",
      "SUBMITTED", "CONSUMED", "FAILED_POST_SUBMIT", "UNKNOWN_VENDOR_STATE",
      "RECOVERY_REQUIRED"} \subseteq States
  /\ Paid \subseteq States
BY DEF States, Automatic, Paid

\* Events that change no flag of the argument and do not end in FAILED_PRE_SUBMIT.
LEMMA PlainMoves ==
  ASSUME WorkerInv, NEW to \in States, to \notin {"SUBMITTED", "FAILED_PRE_SUBMIT"}, Move(rec, to)
  PROVE  WorkerInv'
<1>1. Become(Moved(rec, to, "AUTOMATIC")) /\ rec \in Record
  BY DEF Move, WorkerInv, WorkerTypeOK
<1> QED BY <1>1, MoveKeeps DEF WorkerInv, WorkerTypeOK, FlagsTellThePost, NoIdInFlight

\* Changing the record's other flags is no concern of the invariant.
LEMMA OtherFlags ==
  ASSUME WorkerInv, NEW r \in Record, NEW to \in States, to \notin {"SUBMITTED", "FAILED_PRE_SUBMIT"},
         NEW mode, Become(Moved(r, to, mode)),
         r.state = rec.state, r.attempted = rec.attempted, r.neverLeft = rec.neverLeft,
         r.submitted = rec.submitted, r.durable = rec.durable, r.activity = rec.activity
  PROVE  WorkerInv'
BY MoveKeeps DEF WorkerInv, WorkerTypeOK, FlagsTellThePost, NoIdInFlight, Uncertain

\* The steps that come before begin_submit keep the invariant.
LEMMA BeforeThePost ==
  ASSUME WorkerInv, Validate \/ NoteCacheHit \/ Join \/ Reserve \/ NoteCacheMiss
  PROVE  WorkerInv'
<1>1. rec \in Record
  BY DEF WorkerInv, WorkerTypeOK
<1>2. CASE Validate
  BY <1>2, PlainMoves, StateNames DEF Validate
<1>3. CASE NoteCacheHit
  <2>1. CASE Move([rec EXCEPT !.checked = TRUE], "CACHE_HIT")
    BY <1>1, <2>1, OtherFlags, StateNames DEF Move, Record
  <2>2. CASE Move([rec EXCEPT !.checked = TRUE, !.rechecked = TRUE, !.release = TRUE], "CACHE_HIT")
    BY <1>1, <2>2, OtherFlags, StateNames DEF Move, Record
  <2> QED BY <1>3, <2>1, <2>2 DEF NoteCacheHit
<1>4. CASE Join
  <2> DEFINE r == [rec EXCEPT !.checked = TRUE]
  <2>1. Become(Moved(r, "JOINED", "AUTOMATIC"))
    BY <1>4 DEF Join, Move
  <2>2. r \in Record /\ r.state = rec.state /\ r.attempted = rec.attempted
        /\ r.neverLeft = rec.neverLeft /\ r.submitted = rec.submitted /\ r.durable = rec.durable
        /\ r.activity = rec.activity
    BY <1>1 DEF Record
  <2> HIDE DEF r
  <2> QED BY <2>1, <2>2, OtherFlags, StateNames
<1>5. CASE Reserve
  <2> DEFINE r == [rec EXCEPT !.reserved = TRUE]
  <2>1. Become(Moved(r, "ALLOWANCE_RESERVED", "AUTOMATIC"))
    BY <1>5 DEF Reserve, Move
  <2>2. r \in Record /\ r.state = rec.state /\ r.attempted = rec.attempted
        /\ r.neverLeft = rec.neverLeft /\ r.submitted = rec.submitted /\ r.durable = rec.durable
        /\ r.activity = rec.activity
    BY <1>1 DEF Record
  <2> HIDE DEF r
  <2> QED BY <2>1, <2>2, OtherFlags, StateNames
<1>6. CASE NoteCacheMiss
  <2> DEFINE r == [rec EXCEPT !.checked = TRUE,
                              !.rechecked = @ \/ rec.state = "ALLOWANCE_RESERVED"]
  <2>1. Become(r)
    BY <1>6 DEF NoteCacheMiss
  <2>2. r \in Record /\ r.state = rec.state /\ r.attempted = rec.attempted
        /\ r.neverLeft = rec.neverLeft /\ r.submitted = rec.submitted /\ r.durable = rec.durable
        /\ r.activity = rec.activity
    BY <1>1 DEF Record
  <2>3. ~Legal(r, "VALIDATED", "AUTOMATIC")
    BY <1>6, <2>2, Edges DEF NoteCacheMiss
  <2>4. Become(Moved(r, "VALIDATED", "AUTOMATIC"))
    BY <2>1, <2>3 DEF Moved
  <2> HIDE DEF r
  <2> QED BY <2>2, <2>4, OtherFlags, StateNames
<1> QED BY <1>2, <1>3, <1>4, <1>5, <1>6

\* begin_submit, which counts the POST, keeps the invariant.
LEMMA ThePost ==
  ASSUME WorkerInv, BeginSubmit
  PROVE  WorkerInv'
<1> DEFINE n == Moved(rec, "SUBMITTING", "AUTOMATIC")
           r == [n EXCEPT !.attempted = TRUE, !.neverLeft = FALSE]
<1>1. rec \in Record /\ sent \in Nat
  BY DEF WorkerInv, WorkerTypeOK
<1>2. sent = 0
  BY <1>1 DEF WorkerInv, FlagsTellThePost, BeginSubmit, BlindRetry
<1>3. ~rec.submitted /\ ~rec.durable
  BY <1>2 DEF WorkerInv, FlagsTellThePost
<1>4. n \in Record /\ n.submitted = rec.submitted /\ n.durable = rec.durable
      /\ (n.state = rec.state \/ n.state = "SUBMITTING")
  BY <1>1, MovedRecord, MovedFlags, StateNames
<1> HIDE DEF n
<1>5. r \in Record /\ r.attempted /\ ~r.neverLeft /\ r.state = n.state /\ ~r.submitted
      /\ ~r.durable
  BY <1>3, <1>4 DEF Record
<1>6. rec' = r /\ sent' \in {0, 1} /\ rec.state = "ALLOWANCE_RESERVED"
  BY <1>2 DEF BeginSubmit, n
<1> HIDE DEF r
<1>7. WorkerTypeOK'
  BY <1>1, <1>5, <1>6 DEF WorkerTypeOK
<1>8. FlagsTellThePost' /\ EarlyStatesAreFree' /\ NoIdInFlight'
  BY <1>4, <1>5, <1>6 DEF FlagsTellThePost, EarlyStatesAreFree, NoIdInFlight, Uncertain
<1> QED BY <1>7, <1>8 DEF WorkerInv

\* The steps that follow begin_submit keep the invariant.
LEMMA AfterThePost ==
  ASSUME WorkerInv,
         \/ \E withId \in BOOLEAN : AckSubmit(withId)
         \/ PersistId \/ BeginProcessing \/ ReceiveResult \/ Normalize \/ CacheResult
         \/ Consume \/ FailPostSubmit \/ MarkUnknown \/ RequireRecovery
  PROVE  WorkerInv'
<1>1. rec \in Record
  BY DEF WorkerInv, WorkerTypeOK
<1>2. ASSUME NEW withId \in BOOLEAN, AckSubmit(withId) PROVE WorkerInv'
  <2> DEFINE r == [rec EXCEPT !.submitted = TRUE, !.activity = @ \/ withId, !.durable = FALSE]
  <2>1. Become(Moved(r, "SUBMITTED", "AUTOMATIC")) /\ sent > 0
    BY <1>2 DEF AckSubmit, Move
  <2>2. r \in Record /\ r.state = rec.state /\ r.attempted = rec.attempted
        /\ r.neverLeft = rec.neverLeft /\ ~r.durable
    BY <1>1 DEF Record
  <2> HIDE DEF r
  <2> QED BY <2>1, <2>2, MoveKeeps, StateNames DEF WorkerInv, FlagsTellThePost, Uncertain
<1>3. CASE PersistId
  <2> DEFINE r == [rec EXCEPT !.activity = TRUE, !.durable = TRUE, !.submitted = TRUE]
  <2>1. Become(Moved(r, "ACTIVITY_ID_PERSISTED", "AUTOMATIC")) /\ rec.state = "SUBMITTED"
    BY <1>3 DEF PersistId, Move
  <2>2. r \in Record /\ r.state = rec.state /\ r.attempted = rec.attempted
        /\ r.neverLeft = rec.neverLeft /\ r.activity /\ r.submitted
    BY <1>1 DEF Record
  <2>3. "ACTIVITY_ID_PERSISTED" \in States
    BY StateNames DEF Paid
  <2> HIDE DEF r
  <2> QED BY <2>1, <2>2, <2>3, MoveKeeps DEF WorkerInv, FlagsTellThePost, Uncertain
<1>4. CASE BeginProcessing \/ ReceiveResult \/ Normalize
  BY <1>4, PlainMoves, StateNames DEF BeginProcessing, ReceiveResult, Normalize, Paid
<1>5. CASE CacheResult
  <2> DEFINE r == [rec EXCEPT !.cached = TRUE, !.consume = TRUE]
  <2>1. Become(Moved(r, "CACHED", "AUTOMATIC"))
    BY <1>5 DEF CacheResult, Move
  <2>2. r \in Record /\ r.state = rec.state /\ r.attempted = rec.attempted
        /\ r.neverLeft = rec.neverLeft /\ r.submitted = rec.submitted /\ r.durable = rec.durable
        /\ r.activity = rec.activity
    BY <1>1 DEF Record
  <2> HIDE DEF r
  <2> QED BY <2>1, <2>2, OtherFlags, StateNames DEF Paid
<1>6. CASE Consume
  <2> DEFINE r == [rec EXCEPT !.consume = FALSE]
  <2>1. Become(Moved(r, "CONSUMED", "AUTOMATIC"))
    BY <1>6 DEF Consume, Move
  <2>2. r \in Record /\ r.state = rec.state /\ r.attempted = rec.attempted
        /\ r.neverLeft = rec.neverLeft /\ r.submitted = rec.submitted /\ r.durable = rec.durable
        /\ r.activity = rec.activity
    BY <1>1 DEF Record
  <2> HIDE DEF r
  <2> QED BY <2>1, <2>2, OtherFlags, StateNames
<1>7. CASE FailPostSubmit \/ MarkUnknown \/ RequireRecovery
  BY <1>7, PlainMoves, StateNames DEF FailPostSubmit, MarkUnknown, RequireRecovery
<1> QED BY <1>2, <1>3, <1>4, <1>5, <1>6, <1>7

\* fail_pre_submit, with or without the proof that the POST never left, keeps the invariant.
LEMMA PreSubmitFailure ==
  ASSUME WorkerInv, NEW proof \in BOOLEAN, FailPreSubmit(proof)
  PROVE  WorkerInv'
<1> DEFINE r == [rec EXCEPT !.neverLeft = proof \/ ~rec.attempted, !.release = @ \/ rec.reserved]
<1>1. rec \in Record
  BY DEF WorkerInv, WorkerTypeOK
<1>2. Become(Moved(r, "FAILED_PRE_SUBMIT", "AUTOMATIC")) /\ ~rec.durable /\ ~rec.submitted
  BY DEF FailPreSubmit, Move
<1>3. r \in Record /\ r.state = rec.state /\ r.durable = rec.durable
      /\ r.submitted = rec.submitted
  BY <1>1 DEF Record
<1>4. sent = 0
  BY DEF FailPreSubmit, WorkerInv, WorkerTypeOK, FlagsTellThePost, Uncertain
<1> HIDE DEF r
<1> QED BY <1>2, <1>3, <1>4, MoveKeeps, StateNames

\* A record that becomes itself: a restart in place, or a leader still in flight.
LEMMA InPlace ==
  ASSUME WorkerInv, Become(rec)
  PROVE  WorkerInv'
<1>1. rec' = rec /\ sent' = sent
  BY DEF Become
<1> QED BY <1>1 DEF WorkerInv, WorkerTypeOK, FlagsTellThePost, EarlyStatesAreFree, NoIdInFlight, Uncertain

\* Where a restart may take a record.
LEMMA RestartTargets ==
  ASSUME NEW r \in Record
  PROVE  Classify(r).next \in {r.state, "RECOVERY_REQUIRED", "UNKNOWN_VENDOR_STATE",
                              "ALLOWANCE_RESERVED"}
BY DEF Classify, Uncertain

\* apply_restart's classification keeps the invariant.
LEMMA RestartStep ==
  ASSUME WorkerInv, ApplyRestart
  PROVE  WorkerInv'
<1> DEFINE next == Classify(rec).next
<1>1. rec \in Record
  BY DEF WorkerInv, WorkerTypeOK
<1>2. next \in {rec.state, "RECOVERY_REQUIRED", "UNKNOWN_VENDOR_STATE", "ALLOWANCE_RESERVED"}
  BY <1>1, RestartTargets
<1>3. CASE next = rec.state
  BY <1>3, InPlace DEF ApplyRestart
<1>4. CASE next # rec.state
  <2>1. Move(rec, next)
    BY <1>4 DEF ApplyRestart
  <2>2. next \in States /\ next \notin {"SUBMITTED", "FAILED_PRE_SUBMIT"}
    BY <1>2, <1>4, StateNames
  <2> HIDE DEF next
  <2> QED BY <2>1, <2>2, PlainMoves
<1> QED BY <1>3, <1>4

\* The record with the operator's facts in it.
Told(id, resultCached) ==
  [rec EXCEPT !.activity = @ \/ id, !.durable = @ \/ id, !.submitted = @ \/ id,
              !.cached = @ \/ resultCached]

\* What the operator's facts do to a record.
LEMMA ToldRecord ==
  ASSUME rec \in Record, NEW id \in BOOLEAN, NEW resultCached \in BOOLEAN
  PROVE  LET facts == Told(id, resultCached)
         IN /\ facts \in Record /\ facts.state = rec.state /\ facts.attempted = rec.attempted
            /\ facts.neverLeft = rec.neverLeft /\ facts.activity = (rec.activity \/ id)
            /\ facts.durable = (rec.durable \/ id) /\ facts.submitted = (rec.submitted \/ id)
<1> DEFINE facts == Told(id, resultCached)
<1>1. facts.state = rec.state /\ facts.attempted = rec.attempted /\ facts.neverLeft = rec.neverLeft
  BY DEF Told, Record
<1>2. facts.activity = (rec.activity \/ id)
  BY DEF Told, Record
<1>3. facts.durable = (rec.durable \/ id)
  BY DEF Told, Record
<1>4. facts.submitted = (rec.submitted \/ id)
  BY DEF Told, Record
<1>5. facts \in Record
  <2>1. ASSUME NEW a \in BOOLEAN, NEW d \in BOOLEAN, NEW s \in BOOLEAN, NEW c \in BOOLEAN
        PROVE  [rec EXCEPT !.activity = a, !.durable = d, !.submitted = s, !.cached = c] \in Record
    BY DEF Record
  <2>2. /\ (rec.activity \/ id) \in BOOLEAN /\ (rec.durable \/ id) \in BOOLEAN
        /\ (rec.submitted \/ id) \in BOOLEAN /\ (rec.cached \/ resultCached) \in BOOLEAN
    BY Zenon
  <2> QED BY <2>1, <2>2, Zenon DEF Told
<1> QED BY <1>1, <1>2, <1>3, <1>4, <1>5

\* reconcile to any verdict, with truthful facts, keeps the invariant.
LEMMA Verdict ==
  ASSUME WorkerInv, NEW to \in States, NEW id \in BOOLEAN, NEW resultCached \in BOOLEAN,
         NEW noSubmit \in BOOLEAN, Reconcile(to, id, resultCached, noSubmit)
  PROVE  WorkerInv'
<1> DEFINE facts == Told(id, resultCached)
           denied == [facts EXCEPT !.neverLeft = TRUE, !.submitted = FALSE, !.durable = FALSE,
                                   !.release = @ \/ rec.reserved]
           told == IF noSubmit THEN denied ELSE facts
<1>1. rec \in Record /\ sent \in Nat
  BY DEF WorkerInv, WorkerTypeOK
<1>2. /\ to \notin ResubmitStates
      /\ rec.state \in {"UNKNOWN_VENDOR_STATE", "RECOVERY_REQUIRED"}
      /\ id => sent > 0
      /\ noSubmit => sent = 0
  BY DEF Reconcile
<1>3. /\ facts \in Record /\ facts.state = rec.state /\ facts.attempted = rec.attempted
      /\ facts.neverLeft = rec.neverLeft /\ facts.activity = (rec.activity \/ id)
      /\ facts.durable = (rec.durable \/ id) /\ facts.submitted = (rec.submitted \/ id)
  BY <1>1, ToldRecord
<1>4. \/ Become(facts)
      \/ Become(Moved(told, to, "OPERATOR")) /\ (to = "FAILED_PRE_SUBMIT" => noSubmit)
  BY DEF Reconcile, Told
<1> HIDE DEF facts
<1>5. denied \in Record /\ denied.state = rec.state /\ ~denied.submitted /\ ~denied.durable
  <2>1. facts.release \in BOOLEAN /\ rec.reserved \in BOOLEAN
    BY <1>1, <1>3 DEF Record
  <2>2. (facts.release \/ rec.reserved) \in BOOLEAN
    BY Zenon
  <2> QED BY <1>3, <2>2 DEF Record
<1> HIDE DEF denied
<1>6. facts.submitted \/ facts.durable => sent > 0
  BY <1>2, <1>3 DEF WorkerInv, FlagsTellThePost
<1>7. facts.durable => facts.activity /\ facts.submitted
  BY <1>3 DEF WorkerInv, WorkerTypeOK
<1>8. sent > 0 => Uncertain(facts)
  BY <1>3 DEF WorkerInv, FlagsTellThePost, Uncertain
<1>9. CASE Become(facts)
  <2>1. ~Legal(facts, "VALIDATED", "AUTOMATIC")
    BY <1>2, <1>3, Edges
  <2>2. Become(Moved(facts, "VALIDATED", "AUTOMATIC"))
    BY <1>9, <2>1 DEF Moved
  <2> QED BY <1>2, <1>3, <1>6, <1>7, <1>8, <2>2, MoveKeeps, StateNames
<1>10. CASE Become(Moved(told, to, "OPERATOR")) /\ (to = "FAILED_PRE_SUBMIT" => noSubmit)
  <2>1. CASE noSubmit
    BY <1>1, <1>2, <1>5, <1>10, <2>1, MoveKeeps
  <2>2. CASE ~noSubmit
    BY <1>2, <1>3, <1>6, <1>7, <1>8, <1>10, <2>2, MoveKeeps
  <2> QED BY <2>1, <2>2
<1> QED BY <1>4, <1>9, <1>10

\* A joiner that takes over its leader's outcome keeps the invariant.
LEMMA Inheritance ==
  ASSUME WorkerInv, NEW leader \in States, InheritLeader(leader)
  PROVE  WorkerInv'
<1> DEFINE r == [rec EXCEPT !.cached = @ \/ leader = "CONSUMED",
                            !.checked = @ \/ leader = "CACHE_HIT"]
<1>1. rec \in Record /\ rec.state = "JOINED"
  BY DEF WorkerInv, WorkerTypeOK, InheritLeader
<1>2. Become(Moved(r, leader, "AUTOMATIC"))
  BY DEF InheritLeader, Move
<1>3. r \in Record /\ r.state = rec.state /\ r.attempted = rec.attempted
      /\ r.neverLeft = rec.neverLeft /\ r.submitted = rec.submitted /\ r.durable = rec.durable
      /\ r.activity = rec.activity
  BY <1>1 DEF Record
<1>4. sent = 0
  BY <1>1 DEF WorkerInv, EarlyStatesAreFree
<1> HIDE DEF r
<1> QED BY <1>1, <1>2, <1>3, <1>4, MoveKeeps DEF WorkerInv, FlagsTellThePost, WorkerTypeOK

\* Every step keeps the invariant.
LEMMA WorkerStep == WorkerInv /\ [WorkerNext]_workerVars => WorkerInv'
<1> SUFFICES ASSUME WorkerInv, [WorkerNext]_workerVars PROVE WorkerInv'
  OBVIOUS
<1>1. CASE WorkerNext
  BY <1>1, BeforeThePost, ThePost, AfterThePost, PreSubmitFailure, RestartStep, Verdict, Inheritance
  DEF WorkerNext
<1>2. CASE UNCHANGED workerVars
  <2>1. rec' = rec /\ sent' = sent
    BY <1>2 DEF workerVars
  <2> QED BY <2>1
          DEF WorkerInv, WorkerTypeOK, FlagsTellThePost, EarlyStatesAreFree, NoIdInFlight, Uncertain
<1> QED BY <1>1, <1>2

\* The inductive invariant holds throughout: the flags tell the POST, the early
\* states are free of it, and no id is in flight before it.
THEOREM WorkerInvariant == WorkerSpec => []WorkerInv
BY WorkerStarts, WorkerStep, PTL DEF WorkerSpec

-----------------------------------------------------------------------------
(* The properties of the machine.                                          *)

\* Every reachable record is well formed.
THEOREM WorkerTypeCorrect == WorkerSpec => []WorkerTypeOK
<1>1. WorkerInv => WorkerTypeOK
  BY DEF WorkerInv
<1> QED BY <1>1, WorkerInvariant, PTL

\* One POST of a record leaves at most.
THEOREM OnePost == WorkerSpec => []AtMostOnePostLeaves
<1>1. WorkerInv => AtMostOnePostLeaves
  BY DEF WorkerInv, WorkerTypeOK, FlagsTellThePost, AtMostOnePostLeaves
<1> QED BY <1>1, WorkerInvariant, PTL

\* A pre-submit failure bought nothing.
THEOREM PreSubmitFailuresAreFree == WorkerSpec => []PreSubmitFailureIsFree
<1>1. WorkerInv => PreSubmitFailureIsFree
  BY DEF WorkerInv, EarlyStatesAreFree, PreSubmitFailureIsFree
<1> QED BY <1>1, WorkerInvariant, PTL

\* A restart offers a first submit only when none was made.
THEOREM FirstSubmitOffersAreSafe == WorkerSpec => []FirstSubmitOfferIsSafe
<1>1. WorkerInv => FirstSubmitOfferIsSafe
  <2> SUFFICES ASSUME WorkerInv, Classify(rec).mayFirst PROVE sent = 0
    BY DEF FirstSubmitOfferIsSafe
  <2>1. ~Uncertain(rec)
    BY DEF Classify
  <2> QED BY <2>1 DEF WorkerInv, WorkerTypeOK, FlagsTellThePost
<1> QED BY <1>1, WorkerInvariant, PTL

\* A moved record whose id was durable, or became so, has its id.
LEMMA MoveKeepsId ==
  ASSUME NEW r \in Record, NEW to \in States, NEW mode, Become(Moved(r, to, mode)),
         r.durable /\ r.activity
  PROVE  IdKept
<1>1. Moved(r, to, mode).durable = r.durable /\ Moved(r, to, mode).activity = r.activity
  BY MovedFlags
<1> QED BY <1>1 DEF Become, IdKept

\* No step drops a durable activity id.
LEMMA StepKeepsId == WorkerInv /\ [WorkerNext]_workerVars => IdKept
<1> SUFFICES ASSUME WorkerInv, [WorkerNext]_workerVars, rec.durable PROVE IdKept
  BY DEF IdKept
<1>1. rec \in Record /\ sent > 0 /\ rec.activity /\ sent \in Nat /\ Uncertain(rec)
  BY DEF WorkerInv, WorkerTypeOK, FlagsTellThePost
<1>2. CASE UNCHANGED workerVars
  BY <1>1, <1>2 DEF workerVars, IdKept
<1>3. CASE Validate \/ BeginProcessing \/ ReceiveResult \/ Normalize \/ FailPostSubmit
           \/ MarkUnknown \/ RequireRecovery
  <2>1. PICK to \in States : Move(rec, to)
    BY <1>3, StateNames DEF Validate, BeginProcessing, ReceiveResult, Normalize, FailPostSubmit,
       MarkUnknown, RequireRecovery, Paid
  <2> QED BY <1>1, <2>1, MoveKeepsId DEF Move
<1>4. CASE NoteCacheHit
  <2>1. CASE Move([rec EXCEPT !.checked = TRUE], "CACHE_HIT")
    <3> DEFINE r == [rec EXCEPT !.checked = TRUE]
    <3>1. Become(Moved(r, "CACHE_HIT", "AUTOMATIC"))
      BY <2>1 DEF Move
    <3>2. r \in Record /\ r.durable /\ r.activity
      BY <1>1 DEF Record
    <3> HIDE DEF r
    <3> QED BY <3>1, <3>2, MoveKeepsId, StateNames
  <2>2. CASE Move([rec EXCEPT !.checked = TRUE, !.rechecked = TRUE, !.release = TRUE], "CACHE_HIT")
    <3> DEFINE r == [rec EXCEPT !.checked = TRUE, !.rechecked = TRUE, !.release = TRUE]
    <3>1. Become(Moved(r, "CACHE_HIT", "AUTOMATIC"))
      BY <2>2 DEF Move
    <3>2. r \in Record /\ r.durable /\ r.activity
      BY <1>1 DEF Record
    <3> HIDE DEF r
    <3> QED BY <3>1, <3>2, MoveKeepsId, StateNames
  <2> QED BY <1>4, <2>1, <2>2 DEF NoteCacheHit
<1>5. CASE Join \/ Reserve
  <2>1. CASE Join
    <3> DEFINE r == [rec EXCEPT !.checked = TRUE]
    <3>1. Become(Moved(r, "JOINED", "AUTOMATIC"))
      BY <2>1 DEF Join, Move
    <3>2. r \in Record /\ r.durable /\ r.activity
      BY <1>1 DEF Record
    <3> HIDE DEF r
    <3> QED BY <3>1, <3>2, MoveKeepsId, StateNames
  <2>2. CASE Reserve
    <3> DEFINE r == [rec EXCEPT !.reserved = TRUE]
    <3>1. Become(Moved(r, "ALLOWANCE_RESERVED", "AUTOMATIC"))
      BY <2>2 DEF Reserve, Move
    <3>2. r \in Record /\ r.durable /\ r.activity
      BY <1>1 DEF Record
    <3> HIDE DEF r
    <3> QED BY <3>1, <3>2, MoveKeepsId, StateNames
  <2> QED BY <1>5, <2>1, <2>2
<1>6. CASE NoteCacheMiss
  BY <1>1, <1>6 DEF NoteCacheMiss, Become, IdKept, Record
<1>7. CASE BeginSubmit
  BY <1>1, <1>7 DEF BeginSubmit, BlindRetry
<1>8. ASSUME NEW proof \in BOOLEAN, FailPreSubmit(proof) PROVE IdKept
  BY <1>8 DEF FailPreSubmit
<1>9. ASSUME NEW withId \in BOOLEAN, AckSubmit(withId) PROVE IdKept
  BY <1>9 DEF AckSubmit, WorkerInv, NoIdInFlight
<1>10. CASE PersistId
  <2> DEFINE r == [rec EXCEPT !.activity = TRUE, !.durable = TRUE, !.submitted = TRUE]
  <2>1. Become(Moved(r, "ACTIVITY_ID_PERSISTED", "AUTOMATIC"))
    BY <1>10 DEF PersistId, Move
  <2>2. r \in Record /\ r.durable /\ r.activity
    BY <1>1 DEF Record
  <2> HIDE DEF r
  <2> QED BY <2>1, <2>2, MoveKeepsId, StateNames DEF Paid
<1>11. CASE CacheResult
  <2> DEFINE r == [rec EXCEPT !.cached = TRUE, !.consume = TRUE]
  <2>1. Become(Moved(r, "CACHED", "AUTOMATIC"))
    BY <1>11 DEF CacheResult, Move
  <2>2. r \in Record /\ r.durable /\ r.activity
    BY <1>1 DEF Record
  <2> HIDE DEF r
  <2> QED BY <2>1, <2>2, MoveKeepsId, StateNames DEF Paid
<1>12. CASE Consume
  <2> DEFINE r == [rec EXCEPT !.consume = FALSE]
  <2>1. Become(Moved(r, "CONSUMED", "AUTOMATIC"))
    BY <1>12 DEF Consume, Move
  <2>2. r \in Record /\ r.durable /\ r.activity
    BY <1>1 DEF Record
  <2> HIDE DEF r
  <2> QED BY <2>1, <2>2, MoveKeepsId, StateNames
<1>13. CASE ApplyRestart
  <2> DEFINE next == Classify(rec).next
  <2>1. CASE Become(rec)
    BY <1>1, <2>1 DEF Become, IdKept
  <2>2. CASE Move(rec, next)
    <3>1. next \in States
      BY <1>1, RestartTargets, StateNames DEF Record
    <3> HIDE DEF next
    <3> QED BY <1>1, <2>2, <3>1, MoveKeepsId DEF Move
  <2> QED BY <1>13, <2>1, <2>2 DEF ApplyRestart
<1>14. ASSUME NEW to \in States, NEW id \in BOOLEAN, NEW resultCached \in BOOLEAN,
              NEW noSubmit \in BOOLEAN, Reconcile(to, id, resultCached, noSubmit)
       PROVE IdKept
  <2> DEFINE facts == Told(id, resultCached)
  <2>1. Become(facts) \/ Become(Moved(facts, to, "OPERATOR"))
    BY <1>1, <1>14 DEF Reconcile, Told
  <2>2. facts \in Record /\ facts.durable /\ facts.activity
    BY <1>1, <1>14, ToldRecord
  <2> HIDE DEF facts
  <2>3. CASE Become(facts)
    BY <2>2, <2>3 DEF Become, IdKept
  <2>4. CASE Become(Moved(facts, to, "OPERATOR"))
    BY <2>2, <2>4, MoveKeepsId
  <2> QED BY <2>1, <2>3, <2>4
<1>15. ASSUME NEW leader \in States, InheritLeader(leader) PROVE IdKept
  BY <1>1, <1>15 DEF InheritLeader, WorkerInv, EarlyStatesAreFree
<1> QED BY <1>2, <1>3, <1>4, <1>5, <1>6, <1>7, <1>8, <1>9, <1>10, <1>11, <1>12, <1>13, <1>14,
        <1>15 DEF WorkerNext

\* A durable activity id is never dropped.
THEOREM DurableIdsAreKept == WorkerSpec => DurableIdIsKept
BY WorkerInvariant, StepKeepsId, PTL DEF WorkerSpec, DurableIdIsKept
=============================================================================
