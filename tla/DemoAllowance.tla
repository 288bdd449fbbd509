--------------------------- MODULE DemoAllowance ---------------------------
(***************************************************************************)
(* The durable store of the demo allowance                                 *)
(* (services/demo_allowance_store.py of apps/api/app) and the two services *)
(* around it: the resolution that reserves and the worker's recheck that   *)
(* consumes right before the paid POST (services/demo_acquisition.py).     *)
(* A store call is one critical section on one SQLite file; the look at    *)
(* the job store, the get and the release of a recheck are calls of their  *)
(* own, and a caller's clock is read once, before them.  Rows survive the  *)
(* process, callers do not.                                                *)
(*                                                                         *)
(* Left out: a disabled policy and unsupported requests, which only        *)
(* refuse; the in-memory ledger; resource guards.  The job store and the   *)
(* POST are the environment.                                               *)
(***************************************************************************)
EXTENDS Integers, Sequences, FiniteSets

CONSTANTS
  Caller,        \* threads of the service
  Fingerprint,   \* request fingerprints
  Request,       \* the requests made: fingerprint, geometry, planned units
  NoRequest,     \* stands where there is no request
  MaxUnits,      \* max_total_acquisition_units
  UnitCap,       \* max_units_per_request
  MaxOpen,       \* max_open_reservations
  Ttl,           \* reservation_ttl_seconds, in ticks
  ValidFrom, ValidUntil,   \* the policy's window
  Shift,         \* by how much valid_until, written in its own zone, reads later than UTC
  MaxTime,       \* bound: ticks of the clock
  MaxRows        \* bound: reservations made

ASSUME RequestAssumption ==
  \A r \in Request : r.fp \in Fingerprint /\ r.units \in Nat \ {0}
ASSUME NumbersAssumption ==
  /\ {MaxUnits, UnitCap, MaxTime, MaxRows, ValidFrom, ValidUntil} \subseteq Nat
  /\ {MaxOpen, Ttl} \subseteq Nat \ {0}
  /\ Shift \in Int

VARIABLES
  reservations,  \* the reservations table, by id
  cached,        \* cached_results: the reservation that a fingerprint's result is bound to, or 0
  now,           \* the clock
  complete,      \* the fingerprints whose latest job ended well
  call,          \* a caller's next step, its request, the row it holds (or 0), the time it read
  posts          \* history: the requests of the paid POSTs, by reservation

store == <<reservations, cached>>
vars == <<store, now, complete, call, posts>>

Settled == {"CONSUMED", "RELEASED", "EXPIRED"}
Never == -1
Reservation == [request : Request, state : Settled \cup {"RESERVED"}, expires : Nat,
                consumed : Nat \cup {Never}]
Step == {"idle", "reserve", "holding", "release", "consume", "post", "answered", "settle"}
Call == [at : Step, aim : Request \cup {NoRequest}, held : 0..MaxRows, moment : Nat]
Idle == [at |-> "idle", aim |-> NoRequest, held |-> 0, moment |-> 0]
Ids == DOMAIN reservations
In(state) == {i \in Ids : reservations[i].state = state}

Init ==
  /\ reservations = <<>>
  /\ cached = [f \in Fingerprint |-> 0]
  /\ now = 0
  /\ complete = {}
  /\ call = [c \in Caller |-> Idle]
  /\ posts = [i \in 1..MaxRows |-> <<>>]

-----------------------------------------------------------------------------
(* The store.                                                              *)

\* policy_blocks_spend: of an enabled policy, the caps and the window.
Blocked(t) == MaxUnits = 0 \/ UnitCap = 0 \/ t < ValidFrom \/ t >= ValidUntil

\* _expires_at.
ExpiresAt(t) == IF ValidUntil <= t + Ttl THEN ValidUntil ELSE t + Ttl

\* The expires_at column is text, and _expire_stale compares text: a time that
\* was taken from valid_until is read at its own zone's wall clock.
Text(expires) == IF expires = ValidUntil THEN expires + Shift ELSE expires
Stale(row, t) == row.state = "RESERVED" /\ Text(row.expires) <= t
ExpireStale(rows, t) ==
  [i \in DOMAIN rows |-> IF Stale(rows[i], t) THEN [rows[i] EXCEPT !.state = "EXPIRED"] ELSE rows[i]]

NewRow(r, t) == [request |-> r, state |-> "RESERVED", expires |-> ExpiresAt(t), consumed |-> Never]

\* The open row of a request's fingerprint, in a table.
Open(rows, r) ==
  {i \in DOMAIN rows : rows[i].state = "RESERVED" /\ rows[i].request.fp = r.fp}

OpenRows(rows) == Cardinality({i \in DOMAIN rows : rows[i].state = "RESERVED"})
\* The units that are reserved or consumed, one by one.
HeldSlots(rows) ==
  UNION {{i} \X (1..rows[i].request.units) :
           i \in {j \in DOMAIN rows : rows[j].state \in {"RESERVED", "CONSUMED"}}}
HeldUnits(rows) == Cardinality(HeldSlots(rows))
HasRoom(rows, r) == OpenRows(rows) < MaxOpen /\ r.units + HeldUnits(rows) <= MaxUnits

\* What try_reserve decides, on a table without stale rows: the open row of the
\* same plan is joined first; with room for one more, the row is inserted, unless
\* the unique index finds another plan's row open, and that one is joined.
Refuse(rows) == [rows |-> rows, id |-> 0]
Join(rows, ids) == [rows |-> rows, id |-> CHOOSE i \in ids : TRUE]   \* there is one
Insert(rows, r, t) == [rows |-> Append(rows, NewRow(r, t)), id |-> Len(rows) + 1]
ReserveWith(rows, r, t, room, clash) ==
  LET same == {i \in Open(rows, r) : rows[i].request = r} IN
  IF Blocked(t) \/ r.units > UnitCap THEN Refuse(rows)
  ELSE IF same # {} THEN Join(rows, same)
  ELSE IF ~room THEN Refuse(rows)
  ELSE IF clash # {} THEN Join(rows, clash) ELSE Insert(rows, r, t)

\* Faults: the units are not counted; there is no unique index.
ReserveUncounted(rows, r, t) == ReserveWith(rows, r, t, OpenRows(rows) < MaxOpen, Open(rows, r))
ReserveUnindexed(rows, r, t) == ReserveWith(rows, r, t, HasRoom(rows, r), {})

Reserve(rows, r, t) == ReserveWith(rows, r, t, HasRoom(rows, r), Open(rows, r))

\* Faults: the state or the time of the row is not asserted.
MayConsumeAgain(i, r, t) ==
  /\ reservations[i].state \in {"RESERVED", "CONSUMED"} /\ ~Blocked(t)
  /\ reservations[i].request = r /\ t < reservations[i].expires
MayConsumeLate(i, r, t) ==
  reservations[i].state = "RESERVED" /\ ~Blocked(t) /\ reservations[i].request = r

\* _consume_unlocked, of a request, at a time: the row is open, its plan is the
\* request's, and neither it nor the policy has run out.
MayConsume(i, r, t) ==
  /\ reservations[i].state = "RESERVED"
  /\ ~Blocked(t)
  /\ reservations[i].request = r
  /\ t < reservations[i].expires

Consumed(i, t) == [reservations EXCEPT ![i].state = "CONSUMED", ![i].consumed = t]

-----------------------------------------------------------------------------
(* The callers.                                                            *)

At(c, step) == call[c].at = step
Goto(c, step) == call' = [call EXCEPT ![c].at = step]
Return(c) == call' = [call EXCEPT ![c] = Idle]
Aim(c) == call[c].aim
Row(c) == reservations[call[c].held]

\* resolve_hosted_demo_path reads the clock, and the job: one that runs is
\* joined, one that ended well is reused, and nothing is reserved; nor is it
\* when the policy blocks.
Resolve(c, r) ==
  /\ At(c, "idle")
  /\ r.fp \notin complete
  /\ ~Blocked(now)
  /\ call' = [call EXCEPT ![c] = [at |-> "reserve", aim |-> r, held |-> 0, moment |-> now]]
  /\ UNCHANGED <<store, now, complete, posts>>

\* Its try_reserve.
TryReserve(c) ==
  LET result == Reserve(ExpireStale(reservations, call[c].moment), Aim(c), call[c].moment) IN
  /\ At(c, "reserve")
  /\ Len(result.rows) <= MaxRows
  /\ reservations' = result.rows
  /\ IF result.id = 0 THEN Return(c)
     ELSE call' = [call EXCEPT ![c].at = "holding", ![c].held = result.id, ![c].moment = 0]
  /\ UNCHANGED <<cached, now, complete, posts>>

\* recheck_demo_reservation_before_paid_submission reads the clock and the job.
Recheck(c) ==
  /\ At(c, "holding")
  /\ call' = [call EXCEPT ![c].at = IF Aim(c).fp \in complete THEN "release" ELSE "consume",
                          ![c].moment = now]
  /\ UNCHANGED <<store, now, complete, posts>>

\* Fault: the release does not look at the state.
ReleaseAny(c) ==
  /\ At(c, "release")
  /\ reservations' = [reservations EXCEPT ![call[c].held].state = "RELEASED"]
  /\ Return(c)
  /\ UNCHANGED <<cached, now, complete, posts>>

\* A result appeared: the reservation is given back, unless it was settled
\* before, when the get sees it or the release refuses it.
Release(c) ==
  /\ At(c, "release")
  /\ reservations' = IF Row(c).state = "RESERVED"
                     THEN [reservations EXCEPT ![call[c].held].state = "RELEASED"] ELSE reservations
  /\ Return(c)
  /\ UNCHANGED <<cached, now, complete, posts>>

\* The recheck's consume; a refusal ends the worker's try.
Consume(c) ==
  /\ At(c, "consume")
  /\ IF MayConsume(call[c].held, Aim(c), call[c].moment)
     THEN /\ reservations' = Consumed(call[c].held, call[c].moment)
          /\ call' = [call EXCEPT ![c].at = "post", ![c].moment = 0]
     ELSE Return(c) /\ UNCHANGED reservations
  /\ UNCHANGED <<cached, now, complete, posts>>

\* What the grant permits: the paid POST.
Post(c) ==
  /\ At(c, "post")
  /\ posts' = [posts EXCEPT ![call[c].held] = Append(@, Aim(c))]
  /\ Goto(c, "answered")
  /\ UNCHANGED <<store, now, complete>>

\* persist_cached_result, by the worker that was answered or by a holder that
\* found the result elsewhere; a refusal leaves the cache as it is.
MayCache(c) ==
  /\ Row(c).state \in {"RESERVED", "CONSUMED"}
  /\ Row(c).request.geo = Aim(c).geo
  /\ cached[Aim(c).fp] = 0
PersistCached(c) ==
  /\ At(c, "holding") \/ At(c, "answered")
  /\ cached' = IF MayCache(c) THEN [cached EXCEPT ![Aim(c).fp] = call[c].held] ELSE cached
  /\ Goto(c, "settle")
  /\ UNCHANGED <<reservations, now, complete, posts>>

\* consume_after_cached_result asserts the plan and ignores the time.  It runs
\* after the persist, or in the recovery of a later process.
MaySettle(r) ==
  /\ cached[r.fp] # 0
  /\ reservations[cached[r.fp]].request = r
  /\ reservations[cached[r.fp]].state = "RESERVED"
Settle(c) ==
  /\ At(c, "settle")
  /\ reservations' = IF cached[Aim(c).fp] = call[c].held /\ MaySettle(Aim(c))
                     THEN Consumed(call[c].held, now) ELSE reservations
  /\ Return(c)
  /\ UNCHANGED <<cached, now, complete, posts>>
RecoverCached(r) ==
  /\ MaySettle(r)
  /\ reservations' = Consumed(cached[r.fp], now)
  /\ UNCHANGED <<cached, now, complete, call, posts>>

\* A holder gives up: release, or expire before the time.
GiveUp(c, state) ==
  /\ At(c, "holding")
  /\ Row(c).state = "RESERVED"
  /\ reservations' = [reservations EXCEPT ![call[c].held].state = state]
  /\ Return(c)
  /\ UNCHANGED <<cached, now, complete, posts>>

\* The process dies and its successor opens the file: recover_after_restart
\* expires what is stale, and nothing else.
Restart ==
  /\ \E c \in Caller : ~At(c, "idle")
  /\ reservations' = ExpireStale(reservations, now)
  /\ call' = [c \in Caller |-> Idle]
  /\ UNCHANGED <<cached, now, complete, posts>>

\* expire_stale, called by itself.
Sweep ==
  /\ reservations' = ExpireStale(reservations, now)
  /\ UNCHANGED <<cached, now, complete, call, posts>>

\* The environment: a job ends well; the clock ticks.
JobCompletes(f) ==
  /\ f \notin complete
  /\ complete' = complete \cup {f}
  /\ UNCHANGED <<store, now, call, posts>>
Tick ==
  /\ now < MaxTime
  /\ now' = now + 1
  /\ UNCHANGED <<store, complete, call, posts>>

Next ==
  \/ \E c \in Caller :
       \/ \E r \in Request : Resolve(c, r)
       \/ TryReserve(c) \/ Recheck(c) \/ Release(c) \/ Consume(c) \/ Post(c)
       \/ PersistCached(c) \/ Settle(c)
       \/ \E state \in {"RELEASED", "EXPIRED"} : GiveUp(c, state)
  \/ \E r \in Request : RecoverCached(r)
  \/ \E f \in Fingerprint : JobCompletes(f)
  \/ Restart
  \/ Sweep
  \/ Tick

Spec == Init /\ [][Next]_vars

-----------------------------------------------------------------------------
(* Properties.                                                             *)

\* The table, the cache and the callers hold what the code can write into them,
\* and who holds a reservation holds one of its own fingerprint.
TypeOK ==
  /\ reservations \in Seq(Reservation) /\ Len(reservations) <= MaxRows
  /\ cached \in [Fingerprint -> 0..Len(reservations)]
  /\ \A f \in Fingerprint : cached[f] # 0 => reservations[cached[f]].request.fp = f
  /\ now \in 0..MaxTime
  /\ complete \subseteq Fingerprint
  /\ call \in [Caller -> Call]
  /\ \A c \in Caller : At(c, "idle") \/ Aim(c) \in Request
  /\ \A c \in Caller :
       IF call[c].held = 0 THEN call[c].at \in {"idle", "reserve"}
       ELSE call[c].held \in Ids /\ Row(c).request.fp = Aim(c).fp
  /\ posts \in [1..MaxRows -> Seq(Request)]

\* What is reserved and what was consumed never exceed the authorised units
\* together, whatever was released, expired, joined or recovered in between.
UnitsAreAuthorized == HeldUnits(reservations) <= MaxUnits

\* A fingerprint has one open reservation, and the store at most MaxOpen: two
\* plans of one fingerprint share the row of the first.
OneOpenRow ==
  /\ Cardinality(In("RESERVED")) <= MaxOpen
  /\ \A i, j \in In("RESERVED") :
       reservations[i].request.fp = reservations[j].request.fp => i = j

\* Every paid POST is covered by a consumed reservation of its own and of its
\* exact plan: a row that two callers joined pays once, so that what was posted
\* stays within the authorised units.
PostsAreCovered ==
  \A i \in 1..MaxRows : posts[i] # <<>> =>
    i \in In("CONSUMED") /\ posts[i] = <<reservations[i].request>>

\* A row that was never bound to a cached result was consumed inside its time
\* and the policy's, as the caller read the clock.
ConsumedInTime ==
  \A i \in In("CONSUMED") :
    \/ ~Blocked(reservations[i].consumed) /\ reservations[i].consumed < reservations[i].expires
    \/ cached[reservations[i].request.fp] = i

\* A settled row never changes again, and the result of a fingerprint stays
\* bound to the reservation that it was cached for.
SettledStays ==
  [][/\ \A i \in Ids : reservations[i].state \in Settled => reservations'[i] = reservations[i]
     /\ \A f \in Fingerprint : cached[f] # 0 => cached'[f] = cached[f]]_vars

-----------------------------------------------------------------------------
\* A row is a ticket for its request: open while RESERVED, spent when CONSUMED,
\* and what was posted under it is what it paid for.
Account == INSTANCE UnitAccount WITH
  Ticket <- 1..MaxRows,
  Plan <- Request,
  plan <- [i \in Ids |-> reservations[i].request],
  open <- In("RESERVED"),
  spent <- In("CONSUMED"),
  paid <- posts

\* The store and its callers implement UnitAccount: whoever joins, rechecks,
\* expires, recovers or crashes, a unit is held for one request of a fingerprint,
\* spent once and pays once.
AccountSpec == Account!Spec
=============================================================================
