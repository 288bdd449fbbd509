-------------------------- MODULE SharedAcquisition --------------------------
(***************************************************************************)
(* The shared PostgreSQL acquisition store.  Several API processes call    *)
(* PostgresAcquisitionStore.run for the same account scope; each call owns *)
(* a dedicated database session, the table hva_acquisitions and two kinds  *)
(* of advisory lock are what they share, and the vendor charges for every  *)
(* POST it accepts.  A process may die, a session may be cut while its     *)
(* process lives on, and a POST may be lost, accepted late, or accepted    *)
(* with its answer lost.                                                   *)
(***************************************************************************)
EXTENDS Integers, Sequences, FiniteSets

CONSTANTS
    Process,        \* API processes (one call to run at a time in each)
    Fingerprint,    \* acquisition fingerprints within one scope
    Document,       \* request documents {path, payload}
    DailyLimit,     \* PostgresAcquisitionStore.daily_limit
    PayloadDay,     \* the date each fingerprint's payload asks for
    MaxGeneration,  \* bound of the model: generations per fingerprint
    MaxDay          \* bound of the model: UTC days

ASSUME DailyLimitAssumption == DailyLimit \in Nat
ASSUME BoundsAssumption == MaxGeneration \in Nat \ {0} /\ MaxDay \in Nat
ASSUME FingerprintAssumption == IsFiniteSet(Fingerprint) /\ Fingerprint # {}
ASSUME PayloadDayAssumption == PayloadDay \in [Fingerprint -> Int]
ASSUME DocumentAssumption == Document # {}

VARIABLES
    rows,       \* hva_acquisitions: rows[f][g], "ABSENT" where there is none
    pc,         \* where the call of each process stands in run/_run_locked
    session,    \* the call's database session is open (and owns its lock)
    call,       \* the call's local variables
    wire,       \* POSTs on their way to the vendor
    orders,     \* POSTs the vendor accepted, in order; the index is the id
    succeeded,  \* accepted orders whose activity the vendor completed
    failed,     \* accepted orders whose activity the vendor failed
    day         \* (clock_timestamp() AT TIME ZONE 'UTC')::date

vars == <<rows, pc, session, call, wire, orders,
          succeeded, failed, day>>

-----------------------------------------------------------------------------
Generation == 1..MaxGeneration
Day == 0..MaxDay
State == {"SUBMITTING", "ACTIVITY_ID_PERSISTED", "RESULT_RECEIVED",
          "UNKNOWN_VENDOR_STATE", "FAILED_POST_SUBMIT"}
Control == {"idle", "read", "park", "allowance", "insert", "submit", "await",
            "save", "poll", "fail", "store"}

NoActivity == 0
Row == [state : State \cup {"ABSENT"}, doc : Document, day : Day,
        act : Nat, expiry : {"none", "live", "past"}]
AbsentRow == [state |-> "ABSENT", doc |-> CHOOSE d \in Document : TRUE,
              day |-> 0, act |-> NoActivity, expiry |-> "none"]
Call == [fp : Fingerprint, doc : Document, gen : Generation, day : Day,
         act : Nat]
NoCall == [fp |-> CHOOSE f \in Fingerprint : TRUE,
           doc |-> CHOOSE d \in Document : TRUE,
           gen |-> 1, day |-> 0, act |-> NoActivity]
Order == [fp : Fingerprint, gen : Generation]
Post == [proc : Process, fp : Fingerprint, gen : Generation]

\* The table, the calls, the wire and the vendor's book hold what the schema, the
\* store and a POST can put into them.
TypeOK ==
    /\ rows \in [Fingerprint -> [Generation -> Row]]
    /\ pc \in [Process -> Control]
    /\ session \in [Process -> BOOLEAN]
    /\ call \in [Process -> Call]
    /\ wire \in SUBSET Post
    /\ orders \in Seq(Order)
    /\ succeeded \in SUBSET (1..Len(orders))
    /\ failed \in SUBSET (1..Len(orders))
    /\ day \in Day

Init ==
    /\ rows = [f \in Fingerprint |-> [g \in Generation |-> AbsentRow]]
    /\ pc = [p \in Process |-> "idle"]
    /\ session = [p \in Process |-> FALSE]
    /\ call = [p \in Process |-> NoCall]
    /\ wire = {}
    /\ orders = <<>>
    /\ succeeded = {}
    /\ failed = {}
    /\ day = 0

-----------------------------------------------------------------------------
(* What the statements of run and _run_locked read.                        *)

Exists(f, g) == rows[f][g].state # "ABSENT"

\* ORDER BY generation DESC LIMIT 1
IsLatest(f, g) == Exists(f, g) /\ \A h \in Generation : h > g => ~Exists(f, h)
NoRow(f) == \A g \in Generation : ~Exists(f, g)

\* The session lock of f: held by whichever open session claimed it.
LockFree(f) == \A q \in Process : session[q] => call[q].fp # f

\* The allowance transaction lock: held between its statements.
InAllowance(q) == pc[q] = "insert" /\ session[q]
AllowanceFree == \A q \in Process : ~InAllowance(q)

ReservedOn(d) == {k \in Fingerprint \X Generation :
                    Exists(k[1], k[2]) /\ rows[k[1]][k[2]].day = d}

-----------------------------------------------------------------------------
(* How a call moves.  Ending it closes its connection, which releases the  *)
(* session lock; every statement needs the connection to be alive.         *)

vendorVars == <<wire, orders, succeeded, failed>>

End(p) ==
    /\ pc' = [pc EXCEPT ![p] = "idle"]
    /\ session' = [session EXCEPT ![p] = FALSE]
    /\ call' = [call EXCEPT ![p] = NoCall]

Goto(p, label) ==
    /\ pc' = [pc EXCEPT ![p] = label]
    /\ UNCHANGED session

At(p, label) == pc[p] = label
Statement(p, label) == pc[p] = label /\ session[p]

SetRow(f, g, row) == rows' = [rows EXCEPT ![f][g] = row]
SetState(p, state) ==
    LET f == call[p].fp  g == call[p].gen
    IN  SetRow(f, g, [rows[f][g] EXCEPT !.state = state])

\* Faulty: the result of pg_try_advisory_lock is ignored.
StartUnlocked(p, f, d) ==
    /\ At(p, "idle")
    /\ session' = [session EXCEPT ![p] = TRUE]
    /\ pc' = [pc EXCEPT ![p] = "read"]
    /\ call' = [call EXCEPT ![p] = [NoCall EXCEPT !.fp = f, !.doc = d]]
    /\ UNCHANGED <<rows, vendorVars, day>>

\* Connect and pg_try_advisory_lock.  A call that finds the lock taken ends
\* with AcquisitionInProgress and has changed nothing.
Start(p, f, d) ==
    /\ At(p, "idle")
    /\ LockFree(f)
    /\ session' = [session EXCEPT ![p] = TRUE]
    /\ pc' = [pc EXCEPT ![p] = "read"]
    /\ call' = [call EXCEPT ![p] = [NoCall EXCEPT !.fp = f, !.doc = d]]
    /\ UNCHANGED <<rows, vendorVars, day>>

\* Faulty: the saved request is not compared.
MismatchIgnored(p, g) == FALSE

\* The saved document of the latest generation is another request's.
Mismatch(p, g) == rows[call[p].fp][g].doc # call[p].doc

\* The latest row ends the call: identity mismatch, durable replay, or a
\* failed activity that needs review.
ReadEnds(p) ==
    /\ Statement(p, "read")
    /\ \E g \in Generation :
          LET row == rows[call[p].fp][g] IN
          /\ IsLatest(call[p].fp, g)
          /\ \/ Mismatch(p, g)
             \/ row.state = "RESULT_RECEIVED" /\ row.expiry # "past"
             \/ row.state = "FAILED_POST_SUBMIT"
    /\ End(p)
    /\ UNCHANGED <<rows, vendorVars, day>>

\* A reservation whose POST may have happened and has no saved activity.
ReadAmbiguous(p) ==
    /\ Statement(p, "read")
    /\ \E g \in Generation :
          /\ IsLatest(call[p].fp, g) /\ ~Mismatch(p, g)
          /\ rows[call[p].fp][g].state \in {"SUBMITTING", "UNKNOWN_VENDOR_STATE"}
          /\ call' = [call EXCEPT ![p].gen = g]
    /\ Goto(p, "park")
    /\ UNCHANGED <<rows, vendorVars, day>>

\* A saved activity id is polled again, without a purchase.
ReadResume(p) ==
    /\ Statement(p, "read")
    /\ \E g \in Generation :
          LET row == rows[call[p].fp][g] IN
          /\ IsLatest(call[p].fp, g) /\ ~Mismatch(p, g)
          /\ row.state = "ACTIVITY_ID_PERSISTED"
          /\ call' = [call EXCEPT ![p].gen = g, ![p].act = row.act]
    /\ Goto(p, "poll")
    /\ UNCHANGED <<rows, vendorVars, day>>

\* Faulty: a parked reservation may be bought again.
ReadNewAfterUnknown(p) ==
    /\ Statement(p, "read")
    /\ \E g \in Generation :
          /\ \/ NoRow(call[p].fp) /\ g = 1
             \/ \E h \in Generation :
                   /\ g = h + 1
                   /\ IsLatest(call[p].fp, h) /\ ~Mismatch(p, h)
                   /\ rows[call[p].fp][h].state = "UNKNOWN_VENDOR_STATE"
          /\ call' = [call EXCEPT ![p].gen = g]
    /\ Goto(p, "allowance")
    /\ UNCHANGED <<rows, vendorVars, day>>

\* Nothing saved, or only an expired result: the next generation may be
\* bought.  MaxGeneration bounds it.
ReadNew(p) ==
    /\ Statement(p, "read")
    /\ \E g \in Generation :
          /\ \/ NoRow(call[p].fp) /\ g = 1
             \/ \E h \in Generation :
                   /\ g = h + 1
                   /\ IsLatest(call[p].fp, h) /\ ~Mismatch(p, h)
                   /\ rows[call[p].fp][h].state = "RESULT_RECEIVED"
                   /\ rows[call[p].fp][h].expiry = "past"
          /\ call' = [call EXCEPT ![p].gen = g]
    /\ Goto(p, "allowance")
    /\ UNCHANGED <<rows, vendorVars, day>>

ReadRow(p) == ReadEnds(p) \/ ReadAmbiguous(p) \/ ReadResume(p) \/ ReadNew(p)

\* UPDATE ... SET state = UNKNOWN_VENDOR_STATE, then raise.
ParkUnknown(p) ==
    /\ Statement(p, "park")
    /\ SetState(p, "UNKNOWN_VENDOR_STATE")
    /\ End(p)
    /\ UNCHANGED <<vendorVars, day>>

\* Faulty: the count is read without the allowance lock.
TakeAllowanceUnlocked(p) ==
    /\ Statement(p, "allowance")
    /\ \/ Cardinality(ReservedOn(day)) >= DailyLimit /\ End(p)
       \/ /\ Cardinality(ReservedOn(day)) < DailyLimit
          /\ call' = [call EXCEPT ![p].day = day]
          /\ Goto(p, "insert")
    /\ UNCHANGED <<rows, vendorVars, day>>

\* Faulty: the POST leaves before the reservation is committed.
TakeAllowanceAndPost(p) ==
    /\ Statement(p, "allowance")
    /\ AllowanceFree
    /\ Cardinality(ReservedOn(day)) < DailyLimit
    /\ call' = [call EXCEPT ![p].day = day]
    /\ Goto(p, "submit")
    /\ UNCHANGED <<rows, vendorVars, day>>

\* pg_advisory_xact_lock, the day and the count of the day's reservations.
TakeAllowance(p) ==
    /\ Statement(p, "allowance")
    /\ AllowanceFree
    /\ \/ /\ Cardinality(ReservedOn(day)) >= DailyLimit
          /\ End(p)
       \/ /\ Cardinality(ReservedOn(day)) < DailyLimit
          /\ call' = [call EXCEPT ![p].day = day]
          /\ Goto(p, "insert")
    /\ UNCHANGED <<rows, vendorVars, day>>

\* INSERT the SUBMITTING row and COMMIT, which releases the allowance lock.
InsertRow(p) ==
    LET c == call[p] IN
    /\ Statement(p, "insert")
    /\ ~Exists(c.fp, c.gen)     \* PRIMARY KEY (scope, fingerprint, generation)
    /\ SetRow(c.fp, c.gen,
              [state |-> "SUBMITTING", doc |-> c.doc, day |-> c.day,
               act |-> NoActivity, expiry |-> "none"])
    /\ Goto(p, "submit")
    /\ UNCHANGED <<call, vendorVars, day>>

\* submit(): the POST leaves the process.  No statement runs, so a call whose
\* session was cut after the COMMIT does not notice.
SendPost(p) ==
    /\ At(p, "submit")
    /\ wire' = wire \cup {[proc |-> p, fp |-> call[p].fp, gen |-> call[p].gen]}
    /\ Goto(p, "await")
    /\ UNCHANGED <<rows, call, orders, succeeded, failed, day>>

\* Faulty: a failed POST is sent again.
SubmitRetries(p) ==
    /\ At(p, "await")
    /\ Goto(p, "submit")
    /\ UNCHANGED <<rows, call, vendorVars, day>>

\* submit() raises, or returns no usable id: a refused, lost or timed out
\* POST, or an accepted one whose answer is lost.
SubmitFails(p) ==
    /\ At(p, "await")
    /\ Goto(p, "park")
    /\ UNCHANGED <<rows, call, vendorVars, day>>

\* submit() returns the activity id.
SubmitReturns(p) ==
    /\ At(p, "await")
    /\ call[p].act # NoActivity
    /\ Goto(p, "save")
    /\ UNCHANGED <<rows, call, vendorVars, day>>

\* Faulty: the id is saved over a fresh connection when the session was cut.
SaveActivityReconnecting(p) ==
    LET c == call[p] IN
    /\ At(p, "save")
    /\ SetRow(c.fp, c.gen, [rows[c.fp][c.gen] EXCEPT
                              !.state = "ACTIVITY_ID_PERSISTED", !.act = c.act])
    /\ Goto(p, "poll")
    /\ UNCHANGED <<call, vendorVars, day>>

SaveActivity(p) ==
    LET c == call[p] IN
    /\ Statement(p, "save")
    /\ SetRow(c.fp, c.gen, [rows[c.fp][c.gen] EXCEPT
                              !.state = "ACTIVITY_ID_PERSISTED", !.act = c.act])
    /\ Goto(p, "poll")
    /\ UNCHANGED <<call, vendorVars, day>>

\* Faulty: any final status counts as a result.
PollTakesAnyStatus(p) ==
    /\ At(p, "poll")
    /\ call[p].act \in succeeded \cup failed
    /\ Goto(p, "store")
    /\ UNCHANGED <<rows, call, vendorVars, day>>

\* poll() returns the result, raises TaskFailedError, or times out; a timeout
\* and a transient error leave the row as it is.
PollReturns(p) ==
    /\ At(p, "poll")
    /\ \/ call[p].act \in succeeded /\ Goto(p, "store")
       \/ call[p].act \in failed /\ Goto(p, "fail")
    /\ UNCHANGED <<rows, call, vendorVars, day>>

\* Faulty: a poll timeout parks the row as unknown.
PollTimeoutParks(p) ==
    /\ At(p, "poll")
    /\ Goto(p, "park")
    /\ UNCHANGED <<rows, call, vendorVars, day>>

\* Faulty: polling has no deadline.
PollNeverTimesOut(p) ==
    /\ At(p, "poll")
    /\ call[p].act \in failed
    /\ End(p)
    /\ UNCHANGED <<rows, vendorVars, day>>

PollTimesOut(p) ==
    /\ At(p, "poll")
    /\ End(p)
    /\ UNCHANGED <<rows, vendorVars, day>>

RecordFailure(p) ==
    /\ Statement(p, "fail")
    /\ SetState(p, "FAILED_POST_SUBMIT")
    /\ End(p)
    /\ UNCHANGED <<vendorVars, day>>

\* operational_ttl_seconds: a date that is not in the past gets a TTL.
Operational(f) == PayloadDay[f] >= day

\* UPDATE ... RESULT_RECEIVED with the TTL of an operational date.
StoreResult(p) ==
    LET c == call[p] IN
    /\ Statement(p, "store")
    /\ SetRow(c.fp, c.gen,
              [rows[c.fp][c.gen] EXCEPT
                 !.state = "RESULT_RECEIVED",
                 !.expiry = IF Operational(c.fp) THEN "live" ELSE "none"])
    /\ End(p)
    /\ UNCHANGED <<vendorVars, day>>

\* A statement fails (cut session, statement_timeout, lock_timeout): the open
\* transaction rolls back and the call ends with AcquisitionStorageUnavailable.
StatementLabels == {"read", "park", "allowance", "insert", "save", "fail", "store"}
StorageError(p) ==
    /\ pc[p] \in StatementLabels
    /\ End(p)
    /\ UNCHANGED <<rows, vendorVars, day>>

-----------------------------------------------------------------------------
(* The environment: sessions, processes, the vendor and the clock.         *)

\* The server drops a session; its locks go, its process goes on.
CutSession(p) ==
    /\ session[p]
    /\ session' = [session EXCEPT ![p] = FALSE]
    /\ UNCHANGED <<rows, pc, call, vendorVars, day>>

\* The process dies at any point and serves again later.
Crash(p) ==
    /\ ~At(p, "idle")
    /\ End(p)
    /\ UNCHANGED <<rows, vendorVars, day>>

\* The vendor accepts a POST and charges for it; the answer reaches the
\* process if that call still waits for it.
VendorAccepts(m) ==
    LET awaited == /\ At(m.proc, "await")
                   /\ call[m.proc].fp = m.fp /\ call[m.proc].gen = m.gen
    IN  /\ m \in wire
        /\ wire' = wire \ {m}
        /\ orders' = Append(orders, [fp |-> m.fp, gen |-> m.gen])
        /\ call' = IF awaited THEN [call EXCEPT ![m.proc].act = Len(orders) + 1]
                              ELSE call
        /\ UNCHANGED <<rows, pc, session, succeeded, failed, day>>

PostLost(m) ==
    /\ m \in wire
    /\ wire' = wire \ {m}
    /\ UNCHANGED <<rows, pc, session, call, orders, succeeded, failed, day>>

VendorFinishes(i) ==
    /\ i \notin succeeded \cup failed
    /\ \/ succeeded' = succeeded \cup {i} /\ UNCHANGED failed
       \/ failed' = failed \cup {i} /\ UNCHANGED succeeded
    /\ UNCHANGED <<rows, pc, session, call, wire, orders, day>>

\* The TTL of a stored result runs out.
Expire(f, g) ==
    /\ rows[f][g].expiry = "live"
    /\ SetRow(f, g, [rows[f][g] EXCEPT !.expiry = "past"])
    /\ UNCHANGED <<pc, session, call, vendorVars, day>>

NextDay ==
    /\ day < MaxDay
    /\ day' = day + 1
    /\ UNCHANGED <<rows, pc, session, call, vendorVars>>

-----------------------------------------------------------------------------
\* One step of the code of run for process p.
Step(p) ==
    \/ ReadRow(p) \/ ParkUnknown(p) \/ TakeAllowance(p) \/ InsertRow(p)
    \/ SendPost(p) \/ SubmitFails(p) \/ SubmitReturns(p) \/ SaveActivity(p)
    \/ PollReturns(p) \/ PollTimesOut(p) \/ RecordFailure(p) \/ StoreResult(p)
    \/ StorageError(p)

Next ==
    \/ \E p \in Process :
          \/ Step(p) \/ CutSession(p) \/ Crash(p)
          \/ \E f \in Fingerprint, d \in Document : Start(p, f, d)
    \/ \E m \in wire : VendorAccepts(m) \/ PostLost(m)
    \/ \E i \in 1..Len(orders) : VendorFinishes(i)
    \/ \E f \in Fingerprint, g \in Generation : Expire(f, g)
    \/ NextDay

Spec == Init /\ [][Next]_vars

\* connect_timeout, statement_timeout, the HTTP timeout of submit and the poll
\* deadline bound every step of a call.
FairSpec == Spec /\ \A p \in Process : WF_vars(Step(p))

-----------------------------------------------------------------------------
(* Properties.                                                             *)

\* A reservation is charged for at most once: no two accepted POSTs, and no
\* POST on the wire beside an accepted one, are for the same generation.  The
\* hazard is every exit between the POST and the saved activity id.
OneOrderPerReservation ==
    /\ \A i, j \in 1..Len(orders) : orders[i] = orders[j] => i = j
    /\ \A m \in wire : \A i \in 1..Len(orders) : orders[i] # [fp |-> m.fp, gen |-> m.gen]
    /\ \A m, n \in wire : m.fp = n.fp /\ m.gen = n.gen => m = n

\* The SUBMITTING row is committed before the vendor can see the POST
\* (_run_locked: "Commit SUBMITTING and its reservation BEFORE the network can
\* accept the POST"), whichever sessions and processes die in between.
ReservationBeforeOrder ==
    /\ \A m \in wire : Exists(m.fp, m.gen)
    /\ \A i \in 1..Len(orders) : Exists(orders[i].fp, orders[i].gen)

\* A new generation is bought only over an expired result: whatever was
\* ambiguous, failed or still running is never bought again, by any process.
OnlyExpiredIsRebought ==
    \A f \in Fingerprint : \A g, h \in Generation :
        g < h /\ Exists(f, h) =>
            rows[f][g].state = "RESULT_RECEIVED" /\ rows[f][g].expiry = "past"

\* The count and the INSERT of the allowance transaction never let a day's
\* reservations pass the limit, however many processes reserve at once and
\* whatever becomes of the reservations.
DailyAllowanceKept == \A d \in Day : Cardinality(ReservedOn(d)) <= DailyLimit

\* A row's activity id is one the vendor gave for that very generation, and
\* its terminal state is what the vendor said of that activity.
RowTellsItsActivity ==
    \A f \in Fingerprint, g \in Generation :
        LET row == rows[f][g] IN
        /\ row.act # NoActivity =>
              /\ row.act \in 1..Len(orders)
              /\ orders[row.act] = [fp |-> f, gen |-> g]
        /\ row.state = "RESULT_RECEIVED" => row.act \in succeeded
        /\ row.state = "FAILED_POST_SUBMIT" => row.act \in failed

\* No UPDATE the code issues would be refused by the table's CHECK: an
\* activity id is missing exactly in the two states before it is known.
CheckConstraint ==
    \A f \in Fingerprint, g \in Generation :
        Exists(f, g) => (rows[f][g].act = NoActivity) =
            (rows[f][g].state \in {"SUBMITTING", "UNKNOWN_VENDOR_STATE"})

\* Every generation of a fingerprint was bought for one and the same request,
\* so a replay or a resume serves the request that paid.
OneRequestPerFingerprint ==
    \A f \in Fingerprint : \A g, h \in Generation :
        Exists(f, g) /\ Exists(f, h) => rows[f][g].doc = rows[f][h].doc

Settled(old, new) ==
    /\ old.act # NoActivity => new.act = old.act
    /\ old.state \in {"UNKNOWN_VENDOR_STATE", "FAILED_POST_SUBMIT", "RESULT_RECEIVED"}
          => new = [old EXCEPT !.expiry = new.expiry]
RowsSettle == \A f \in Fingerprint, g \in Generation : Settled(rows[f][g], rows'[f][g])

\* A parked, failed or delivered row is final (its result may only expire) and
\* a saved activity id is never lost or replaced, not even by a call that has
\* outlived its session lock.
SettledRowIsFinal == [][RowsSettle]_vars

\* Every call ends, whether its session, its lock holder or the vendor fails.
CallEnds == \A p \in Process : pc[p] # "idle" ~> pc[p] = "idle"

-----------------------------------------------------------------------------
(* The inductive invariant behind the safety properties, in four parts.    *)

\* A lock has one owner, and a call that has ended owns none.
LockOwnership ==
    /\ \A p \in Process : pc[p] = "idle" => ~session[p]
    /\ \A p, q \in Process :
          session[p] /\ session[q] /\ call[p].fp = call[q].fp => p = q

\* While its session lives, a call's row is as the call last read or wrote it;
\* a call that has outlived its session still has a row.
OwnsRow(p) ==
    LET c == call[p]  row == rows[c.fp][c.gen] IN
    /\ pc[p] \notin {"idle", "read", "allowance", "insert"} => Exists(c.fp, c.gen)
    /\ session[p] =>
          /\ pc[p] \in {"allowance", "insert"} =>
                \A g \in Generation :
                   IF g < c.gen
                   THEN /\ rows[c.fp][g].state = "RESULT_RECEIVED"
                        /\ rows[c.fp][g].expiry = "past"
                        /\ rows[c.fp][g].doc = c.doc
                   ELSE ~Exists(c.fp, g)
          /\ pc[p] \in {"submit", "await", "save"} => row.state = "SUBMITTING"
          /\ pc[p] = "park" =>
                row.state \in {"SUBMITTING", "UNKNOWN_VENDOR_STATE"}
          /\ pc[p] \in {"poll", "fail", "store"} =>
                row.state = "ACTIVITY_ID_PERSISTED" /\ row.act = c.act
    /\ pc[p] \in {"save", "poll", "fail", "store"} => c.act # NoActivity

CallOwnsRow == \A p \in Process : OwnsRow(p)

\* What a call knows of the vendor is true of its own generation.
KnowsOrder(p) ==
    LET c == call[p] IN
    /\ pc[p] \in {"await", "save", "poll", "fail", "store"} /\ c.act # NoActivity =>
          c.act \in 1..Len(orders) /\ orders[c.act] = [fp |-> c.fp, gen |-> c.gen]
    /\ pc[p] \in {"read", "allowance", "insert", "submit"} => c.act = NoActivity
    /\ pc[p] = "fail" => c.act \in failed
    /\ pc[p] = "store" => c.act \in succeeded

\* A call about to POST is the only one, and the first, to do so.
FirstToPost(p) ==
    pc[p] = "submit" =>
        /\ \A m \in wire : ~(m.fp = call[p].fp /\ m.gen = call[p].gen)
        /\ \A i \in 1..Len(orders) :
              orders[i] # [fp |-> call[p].fp, gen |-> call[p].gen]
        /\ \A q \in Process :
              /\ pc[q] = "submit"
              /\ call[q].fp = call[p].fp /\ call[q].gen = call[p].gen
              => q = p

CallKnowsOrder == \A p \in Process : KnowsOrder(p) /\ FirstToPost(p)

\* One open allowance transaction at a time, and there is room for its row.
AllowanceHeld ==
    /\ \A p, q \in Process : InAllowance(p) /\ InAllowance(q) => p = q
    /\ \A p \in Process :
          InAllowance(p) => Cardinality(ReservedOn(call[p].day)) < DailyLimit

\* Sessions, locals, locks and the vendor's book agree with the table at every
\* point of every call, also for calls whose session was cut under them.
CallsAgreeWithTable ==
    LockOwnership /\ CallOwnsRow /\ CallKnowsOrder /\ AllowanceHeld

-----------------------------------------------------------------------------
\* A row is a reservation, an order a charge, a stored result a delivery.
Purchases == INSTANCE PaidPurchases WITH
    reserved <- {<<k[1], k[2], rows[k[1]][k[2]].day>> :
                   k \in {l \in Fingerprint \X Generation : Exists(l[1], l[2])}},
    charged <- {<<orders[i].fp, orders[i].gen, i>> : i \in 1..Len(orders)},
    delivered <- {k \in Fingerprint \X Generation :
                    rows[k[1]][k[2]].state = "RESULT_RECEIVED"}

\* The store implements PaidPurchases: a process that is cut, loses an answer or
\* races another one buys no more, and delivers no other, than that promises.
PurchasesSpec == Purchases!Spec
=============================================================================
