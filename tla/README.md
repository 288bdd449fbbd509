# Verification of HVA's paid-acquisition and durability code

HVA (a FastAPI service under `src/apps/api`, a React client under `src/apps/web`) shows
thermal data for neighbourhoods. Most of it is read-only arithmetic over tracked
artefacts. The part that is hard to get right is the part that spends: a vendor charges
for every accepted POST, an answer may be lost after the charge, several threads and
processes want the same hour, and the program must never buy twice what it may have
bought once, never spend more than was authorised, and never get stuck.

This directory holds TLA+ models of that part, the TLC configurations that check them on
small instances, and TLAPS proofs that hold for every value of the constants. Paths below
are relative to `src/apps/api/app` unless they start with `src/` or `docs/` (which is
`src/docs/`).

- [The system](#the-system)
- [Modules](#modules)
- [Runs](#runs)
- [What disagrees with the documentation](#what-disagrees-with-the-documentation)
- [Proofs](#proofs)
- [What is not modelled](#what-is-not-modelled)
- [Plan](#plan)

## The system

### How the parts fit together

    request thread ──> selected-time route ──> single flight ──> Type-1 acquisition
                          │                                        │
                          │ hva_shared_acquisition configured?     │ no: this process alone
                          ▼ yes                                    ▼
          PostgresAcquisitionStore.run (several processes)   daily counter, disk caches,
                          │                                  FortyGuard adapter
                          └───────────────> vendor <───────────────┘

    durable live jobs: allowance store ── worker state machine ── activity-id ledger
                        (reserve/consume)   (events, restart)       (fingerprint -> id)
                              │                    │
                       live submit join      durable job store (columns + contract)
                       cache recheck         (restart classification)

    geography jobs: POST creates or joins a record ── background worker ── GET polls it

The upper half is wired to a route today: `api/routes/bounded_selected_time_live.py`
and, for the pilot, `services/hourly_pilot_acquisition.py` reach the vendor through the
shared store when it is configured; the selected-time route reaches it alone when it is
not. The middle part (`docs/live-durability/`) is the durable replacement: its parts are
implemented and tested, and are composed by services that no route calls yet. Its parts
are called by concurrent threads and again after a restart, so each is modelled under
any caller that its interface admits. The geography jobs are routes of their own behind
a flag; their materializer is so far set by tests only.

### Components with a protocol

For each: the state it keeps, its operations, what makes it hard, and what makes it right.

**Shared acquisition store** (`core/postgres_acquisition.py`).
State: the table `hva_acquisitions` (a row per scope, fingerprint and generation), a
session-level advisory lock per fingerprint, a transaction-level one per scope for the
day's allowance. Operation: `run`, which reads the latest generation, replays, resumes
polling, parks, or reserves, commits, POSTs, saves the id, polls and stores. Hard: the
lock dies with its session while the process goes on; every step between the POST and
the saved id may fail; results expire and are bought again. Right when a generation is
charged once, a new one is bought only over an expired result, the day's rows stay within
the limit, and a row says what the vendor says.

**Durable worker state machine** (`domain/live_worker_state.py`,
`services/live_worker_machine.py`). State: a record of state, flags and ids. Operations:
some twenty events, `classify_restart`/`apply_restart`, an operator's `reconcile`,
`inherit_leader`. Hard: an event may raise after it has changed flags; restart and
reconcile reopen states. Right when at most one POST leaves for a record, a pre-submit
failure means none did, a restart never offers a first submit after one, an id stays.

**Selected-time live route** (`api/routes/bounded_selected_time_live.py`,
`domain/multicity/type1_live.py`, `integrations/fortyguard/adapter.py` and `cache.py`).
State: `_inflight`, `_daily_counts`, two disk caches. Hard: joiners, owner time-outs,
expiry during a request, midnight, readers outside the flight, restart. Right when one
thread runs a key, joiners get an answer to their own request, the daily count bounds the
POSTs, a fresh record is served and not bought, and no key is blocked for good.

**Activity-id ledger and reconciler** (`services/activity_reconciliation.py`,
`domain/activity_reconciliation.py`). State: a binding per fingerprint, the inverse map,
a durable sink. Hard: callers act on a binding they read earlier; ids come late, twice or
never; restarts park. Right when a submit is never offered after one has left, ids and
requests are one to one, and ids and verdicts are final.

**Demo allowance** (`services/demo_allowance_store.py`, `services/demo_acquisition.py`). State: the reservations table and the cached results.
Operations: `try_reserve`, `consume`, `release`, `expire`, `expire_stale`,
`persist_cached_result`, `consume_after_cached_result`, restart; around them
`resolve_hosted_demo_path` and the recheck before the paid submit. Hard: two plans of one
fingerprint, joins, a clock read before the call, TTL against late results, text
comparison of times. Right when units held stay within the authorisation, each POST has
a consumed row of its own plan, and settled rows are final.

**Live submit join** (`services/live_dedupe.py`).
State: a join record per fingerprint with its leader's phase and event, the ledger, the
vendor's answer, a cache and a job store. Operations: `execute`, which claims a record as
leader or joiner; the leader reserves, submits, caches, consumes and finishes; a joiner
waits and reports. Hard: a failure after the result was cached, a record that is reopened
between a joiner's claim and its wait, other clients that release the joined reservation.
Right when a fingerprint is submitted at most once, leader and joiners report what the
record says for good, and every call ends.

**Cache recheck pipeline** (`services/live_cache_recheck.py` over the in-memory ledger,
`services/demo_allowance_ledger.py`). State: one job per pipeline, the result cache, the
reservations. Operations: reserve, submit_if_allowed, accept_result, recover,
consume_after_cache, an operator's bust. Hard: a pipeline that joined a reservation acts
as its holder; a call may end after any of its steps. Right when a unit is spent only for
a cached result, a paid reservation is given back only when its answer is there, and a
fingerprint has one answer.

**Job stores** (`core/job_store.py`, `core/sqlite_job_store.py`, `core/durable_live.py`,
`domain/job_durability.py`). State: a row per job with the worker state in a column *and*
in the contract of its payload. Operations: whole-job writes, column writes of a worker,
open, which classifies. Hard: the two copies disagree, and a restart believes the column.
Right when no restart takes a submitted job for an unsubmitted one, an acknowledged id is
kept, and finished jobs stay finished.

**Geography create-or-join jobs** (`services/geography_jobs.py`,
`api/routes/geographies.py`). State: `_records`, mutable records under one lock, and a
background task per new record. Hard: GET reads a record without the lock while the task
writes it; every call parses the index again, which may have other places by then, so that
a POST may replace a record whose task is under way. Right when no package a client was
told to keep for a day is taken back and no request joins an abandoned job.

**Live resource guards** (`services/live_resource_guards.py`): caps, sliding windows and
an admission queue. Right when caps hold and nobody waits for good. *Not modelled.*
Reading it found: `promote` looks at the head only, and direct admissions pass the queue;
`call_if_admitted` loses its token when the function raises and
`resolve_hosted_demo_path` drops the one of its reserve slot, so slots are never given
back; `has_active_reservation` is stale when `try_reserve` runs, so a request that
only joins may take a slot.

**TIGER cache** (`services/tiger_state_cache.py`), **area preparation**
(`core/area_preparation.py`), **spend gate** (`services/spend_gate.py`) and **anonymous
guards** (`core/anonymous_guards.py`): *not modelled*, see below.

The remaining components have no protocol: `PROJECT.json` lists all of them with the
reason each is left out, and the main hazards at their lines. Smaller ones in the parts that are not modelled:
`get_by_key` and `put` as two critical sections (`core/area_preparation.py:150`); one
state's fetch that evicts another's directory under its own lock only, while a reader
holds a path into it (`services/tiger_state_cache.py:460`); two holders of one grant value
(`services/spend_gate.py:169`); a stored-jobs counter that only an uncalled function
lowers (`core/anonymous_guards.py:290`); and the SQLite ledger beside the job store, whose
RESERVED rows nothing sweeps after they expire
(`services/sqlite_demo_allowance_ledger.py:239`).

## Modules

| Module | Models | Grain of an action |
|---|---|---|
| `SharedAcquisition` | `PostgresAcquisitionStore.run` in several processes | one SQL statement with its commit, one vendor call, one fault |
| `PaidPurchases` | what that store promises about money: reserve, charge, deliver | abstract |
| `LiveWorker` | every event of the worker machine, restart, reconcile, inherit | one event |
| `SelectedTimeLive` | the route, its single flight, counter and caches in one process | one critical section, one file operation, one vendor exchange |
| `ActivityLedger` | the ledger, its reconciler and workers with stale reads | one ledger call |
| `UnitAccount` | what an allowance promises about units: issue, give back, spend, pay | abstract |
| `DemoAllowance` | the SQLite allowance store and the two services around it | one store call (one `BEGIN IMMEDIATE` transaction) |
| `DurableJobs` | the jobs table of the SQLite store, its restart and the durable contract | one store call (one transaction) |
| `JoinedSubmit` | what callers who join each other's purchase are promised: attempts, one submit, one verdict | abstract |
| `LiveDedupe` | the join coordinator, its leader and joiners | one critical section, one call of a ledger, vendor, cache or store |
| `CacheRecheck` | the recheck pipeline over the result cache and the in-memory ledger | one critical section |
| `GeographyJobs` | POST, the background worker and both GETs of the geography jobs | one critical section; one field where the code reads or writes fields others see |
| `MC*` | instances for TLC: symmetry, functions a `.cfg` cannot write | |
| `*Proofs` | the theorems about the module of that name; those of `LiveWorker` are in `DurableJobsProofs`, those of the refinements with the module that implements | |

Operators marked *Fault* (or *Faulty*) are deliberate defects; no specification uses
them. They document what each property rules out.

### SharedAcquisition

`rows[f][g]` is the row of generation `g`; `pc[p]` is the statement of `_run_locked` the
call of process `p` is about to issue; `session[p]` is its connection, and with it the
session lock; `call[p]` its locals. The vendor is `wire` (POSTs under way), `orders`
(accepted and charged), `succeeded` and `failed`. Each statement is its own action
because other processes run between two of them, and because the session may be cut
between any two (`CutSession`): the locks go at once, the process notices at its next
statement. `SendPost` is not a statement, so a process without a session does POST; that
is the code, and the property `OneOrderPerReservation` says why it is harmless.
`TakeAllowance` and `InsertRow` are the two halves of the allowance transaction; whoever
is between them holds `pg_advisory_xact_lock`. A stale result expires by `Expire` at any
time, which covers every TTL.

Left out: audit rows and `migrate`, which change no acquisition; the result's payload;
the document's content (a `Document` is a value that two requests share or not).

### LiveWorker

`rec` is the record, reduced to its state and the flags that the guards read; `sent`
counts the POSTs that left and is raised by `BeginSubmit`, which is where the machine
lets a caller submit. The tables of automatic, operator and forbidden edges are those of
the code. An event that raises inside `_move` has changed flags before: those updates are
part of the action (`Move`), which is why the flags of a record can disagree with its
state, and why the properties are about both. Callers report truthfully: an
acknowledgement, an id or a result only if a POST left, proof of no submit only if none
did. That is the environment's duty (the machine cannot see the network) and every
property depends on it.

### SelectedTimeLive

`inflight`, `used`, `seed` and `tiles` are `_inflight`, `_daily_counts`, the Type-1 cache
and the vendor cache. A thread owns its flight from `Enter` to `Pop`. `FortyGuardCache.get`
is two actions when the file is expired (read, then unlink by path), because the code
calls it both inside the flight and, from `_attach_zone_analysis`, outside of it. The
clock counts hours; `Offset` is the city's distance from UTC and matters to
`operational_ttl_seconds`, which compares a local date with the UTC date. The daily
counter lives in memory: the allowance is per life of the process, and the model states
it that way (`posts[i].life = life`). A request has one partition.

### ActivityLedger

`bindings[f]` is the record of a fingerprint and `Decide` is `decide_recovery` over it.
A worker is a caller of the public operations in the order the services call them, with
the id it holds between calls; `Restart` runs `apply_restart` over the committed
bindings and forgets the workers. The vendor may give any id, or one it gave before.

### DemoAllowance

`reservations` is the table (the index is the reservation id), `cached[f]` the
reservation a result is bound to. A caller reads its clock and the job store first and
the store a step later (`call[c].moment`), so that a tick, a sweep or another caller fits
between. `Text` is the column as text: a `valid_until` written in another zone than UTC
is stored as it was written and compared as text, `Shift` ticks off.

The in-memory ledger of the same port is modelled where it is used, in `CacheRecheck` and
`LiveDedupe`. It differs: it has no cap on open rows, does not sweep in `try_reserve`,
lets a second plan of a fingerprint take over the index of open rows while the first
stays RESERVED (releasing the second then drops the entry that joins would find), and
caches a result without looking at the row's state.

What the model shows of the store, short of a property: a second paid result of one
fingerprint is refused by `cached_result_reservation_mismatch`, and its reservation stays
as it was; a cached result is not consulted by the resolution, which looks at the job
only, so that a fingerprint whose job is missing is reserved and bought again within the
authorised units; and `docs/live-durability/ALLOWANCE_PERSISTENCE.md` names the gap
between a short TTL and a late result, which `ConsumedInTime` therefore leaves open for
rows that are bound to a cached result.

### DurableJobs

`rows[j]` has the columns and the contract; `Put` is `_put`, which rebuilds the columns
from the contract, `CommitWorkerWrite` is the worker's `_commit_worker_write`, which
leaves the contract alone, and `Restart` opens the file again and classifies every row by
its column. The history variable
`issued` keeps the submissions, `acked` the acknowledged ids, and `rewound` the jobs of
which a whole-job write has hidden a submission. Such a write is real: `mark_submitting`
changes the column only, a status change puts back the REQUESTED of the contract, and the
next restart says FAILED_PRE_SUBMIT where `docs/live-durability/PERSISTENCE.md:64,79`
says UNKNOWN_VENDOR_STATE. What the properties say is that *nothing else* does it.

### LiveDedupe

`records[f]` are the join records of a fingerprint in order; the last is the one in the
table. `call[c]` is where a call stands and the record it claimed; a joiner's second,
unlocked look at the table is a step of its own. The ledger is counted: units taken, and
whose the active reservation is, a leader's or another client's. `jobs` follows what
the coordinator writes to the job store; no property rests on it.

### CacheRecheck

`job[p]` is a pipeline's job, `step[p]` the lock it is about to take. Pipelines join each
other's reservations, and a call may end (raise, crash) after every step. Three things the
model shows, short of a property. A paid unit can be lost: p1 reserves, p2 joins, p1
submits and caches; p2's `submit_if_allowed` finds the cached result and releases the
reservation p1 paid under; p1's `consume` then raises each time it is tried, although
`docs/live-durability/LIVE_H_CACHE_RECHECK.md` says that after the cache only consume is
left. Both holders of a joined reservation may submit. And the ledger's `release` is
checked against the state of the row only, not against its holder.

### GeographyJobs

`heap` has every record ever made, since a reader keeps the object it has found, and
`store` is `_records`. `known` is the places in the index file: `load_place_index` parses
it at every call, so `GazetteerChanges` may put any other table there between any two
steps, and a POST acts on the places of the moment (a load and the lock are one step,
since the file may have been another one just before). A worker's assignments are separate
actions between taking and releasing the lock, on the record that its place has then
(`worker[i].record`). A POST that joins reads a whole record under the lock; GET does not
take it, and neither does a POST that has stored an UNSUPPORTED record (826, 848), which
reads it in steps while nothing else runs on the event loop (`reader[EventLoop]`). So
the model has answers whose body is PENDING, or SUPPORTED without its identity, under
headers that were read later and say `public, max-age=86400` with the final ETag, which
keeps validating that body; the geometry can be served empty the same way. No property
states the opposite: the code does not have it. What it has is `AnswersStay`, per record:
the ETag of a package is never taken back, and neither are the ETag of a refusal and a
cacheable answer to a POST, with one exception, `Overruled`. A POST of a place that the
index has lost stores an UNSUPPORTED record whatever was there (824-825, 846-847). If a task of the
place was under way, it settles that record in the end: an answer that could be kept for a
day, with its ETag, is then taken back, and the POST itself may have read half of it. The
record of a finished package that is replaced so stays what it was, for those who hold its
ETag, but is not the place's any more. The task reads the index again outside of its `try`: a file that cannot be
read at that moment ends the task and leaves the record PENDING for good, which is the
exception that `PendingEnds` names.

## Runs

All runs check for deadlock except where said. Symmetry is over interchangeable threads,
processes, callers or requests, and only in runs without liveness.

| Run | Question | States |
|---|---|---|
| `shared_acquisition` | two processes, two fingerprints (one for today, one past), two generations, two days, limit 1, a second document that one of them claims; safety and liveness | 487,810 |
| `live_worker` | every event in every order | 547 |
| `selected_time` | two threads, two keys, expiry, a day's end, one restart; safety and liveness | 309,768 |
| `activity_ledger` | two workers, two requests, two ids, restarts | 158,746 |
| `demo_allowance` | two callers, three plans of two fingerprints, two rows, three ticks | 1,609,775 |
| `durable_jobs` | two jobs of one key, replaced contracts, the file opened three times | 1,164,685 |
| `live_dedupe` | three callers of one fingerprint, two join records; safety and liveness | 327,756 |
| `cache_recheck` | two pipelines of one fingerprint, equal or different geometry, two payloads, three reservations | 3,041,875 |
| `geography_jobs` | a place that the index may gain and lose, three records, a reader and the event loop; safety and liveness | 795,632 |

Three more runs exhibit disagreements (next section).

**Why the bounds are enough.** *Shared store:* two processes are what a lock and a stale
owner need; a limit of 1 with two fingerprints makes every second purchase of a day a
refusal and every race for the last unit visible; two generations include the purchase
over an expired result; two days include a reservation whose midnight passes before its
row is inserted. Only one process claims the second document, for the day's fingerprint,
which is the one whose result expires; processes and documents are interchangeable.
*Worker:* no bound at all; the machine's own guards keep the space finite. *Route:* keys
share only the counter and the vendor; the second shows that answers do not cross. A TTL
and a day of one hour in a clock of two let a record expire, be bought again and cross
midnight. *Ledger:* two posts per request are one more than is right.
*Allowance:* three units with plans of 1 and 2 let the sum be exact, exceeded by one, or
short; two rows allow a join, a clash and a second purchase; a window that ends before
the TTL exercises both branches of `_expires_at`. This run stops where the clock and the
rows run out, so deadlock is not checked in it. *Job table:* two jobs of one key are what
the unique indexes are about; three lives let a restart act on what a restart left.
*Join:* a leader, a joiner and one that comes after the record was reopened; two units,
so that the ledger may refuse or be full through others. *Recheck:* three reservations
are a first, a joined or released one, and another after it; two submits per job are one
more than is right. *Geography:* a record that was forgotten, its successor and one that
replaces it while its task is under way; places share the index, the lock and the event
loop only, and readers share nothing, so one of each is enough. A place out of scope is
answered as one that the index lacks, with another reason; that and several places are
left to the proof.

**Fairness.** `SharedAcquisition!FairSpec` asks that a call whose step is enabled takes
it: each step is bounded by `connect_timeout`, `statement_timeout`, `lock_timeout`, the
HTTP time-out of the submit, or the poll's deadline. Nothing is asked of the vendor, of
sessions or of other callers' locks (a taken fingerprint lock ends a call at once, the
allowance lock is bounded by `lock_timeout`). `SelectedTimeLive!FairSpec` asks that
threads are scheduled and that the owner's 600 s and the joiner's 60 s pass;
`PollSucceeds`, the vendor's answer, has no fairness. `LiveDedupe!FairSpec` asks that
threads are scheduled and that the leader's calls return or raise, not that a joiner's
wait times out: leaders set the event on every path. `GeographyJobs!FairSpec` asks that a
task whose response was sent runs, as Starlette's background tasks do, and that the
materializer returns or raises. The other modules have no liveness: nothing in that code
runs unless a caller calls it.

**Refinement.** `PurchasesSpec` is `PaidPurchases!Spec` under the mapping: a row is a
reservation on its day, an accepted POST a charge, a stored result a delivery. Every
statement, crash and cut session is one of the three, or a stutter. `AccountSpec` is
`UnitAccount!Spec` under the mapping: a row is a ticket for its request, open while
RESERVED, spent when CONSUMED, and the POSTs made under it are what it paid for. Expiring,
releasing and crashing give tickets back; resolving, rechecking and caching are stutters.
It includes that one ticket of a fingerprint is open and no more than `MaxOpen` of all,
which `OneOpenRow` says of the rows. `JoinedSpec` is `JoinedSubmit!Spec` under the mapping:
a join record is an attempt, its phase the verdict once its event is set, a POST the
attempt's submit, and a call that returned after the event has been told of it. Claims that
join, hit or recover, a wait that times out and all the leader's steps but the POST and the
event are stutters. It includes `AtMostOneSubmit`. The three refinements are checked on an
instance and proved.

## What disagrees with the documentation

Each is a run that TLC ends with a trace; `PROJECT.json` quotes both sides.

- `selected_time_forecast`: `cache.py` says forecasts expire. Between UTC midnight and
  the city's midnight, a later hour of the city's day counts as historical and is cached
  without a TTL.
- `activity_submits`: `docs/live-durability/ACTIVITY_RECOVERY.md` says a joiner never
  opens a second submit. `mark_submitting` accepts a binding that is SUBMITTING already.
  What the ledger itself does keep, it keeps: the reconciler never *offers* a submit
  after one has left (`NoSubmitIsOfferedAgain`).

- `durable_jobs_terminal`: `domain/job_durability.py` leaves a terminal public job
  unchanged by a restart. The store classifies its column all the same, and the next open
  turns a COMPLETE job whose contract never left REQUESTED into a FAILED one.

Others that the models have, without a run that asks for them:

- `docs/live-durability/WORKER_STATE_MACHINE.md:82,235` says a joiner cannot reserve or
  submit. `reserve()` tests the current state only: a joined record that inherited
  `RECOVERY_REQUIRED` or `UNKNOWN_VENDOR_STATE` may do both (`LiveWorker`).
- A reader outside the flight, stalled in `FortyGuardCache.get` between reading an expired
  file and unlinking its path (`integrations/fortyguard/cache.py:109`), deletes the file
  that a new flight has just paid for; if that flight ends before its Type-1 record, the
  next request buys an unexpired result again (`SelectedTimeLive`).
- The rewound worker state, the lost unit, the torn answers and the refusal that a task
  takes back, described above (`DurableJobs`, `CacheRecheck`, `GeographyJobs`). While a task
  overrules a stored refusal, a reader may also meet `supported` still False beside the new
  SUPPORTED, and `build_resource` then raises (`services/geography_jobs.py:443`).

Smaller ones, seen while reading the worker machine: `reconcile()` demands facts only for the two failure verdicts and `ALLOWANCE_RESERVED`,
while WORKER_STATE_MACHINE.md:172,175 asks for them of every verdict; a record can reach
CACHED without a durable id (inherited, or reconciled), and `apply_restart` then raises
(`domain/live_worker_state.py:454`) where :220 promises a classification.

## Proofs

Eight modules hold proofs, for every value of the constants (any number of processes,
threads, callers, fingerprints, generations, days and ticks), from the module's named
assumptions alone. These say that bounds and limits are naturals, that `Fingerprint` is
finite where rows are counted, and that a stand-in is not a member of the set it stands
beside. Every safety property and action property that a run of the project checks is one
of the theorems; type correctness is proved for each module, and so is left out of the
runs.

| Module | Theorems | Inductive invariant |
|---|---|---|
| `SharedAcquisitionProofs` | `StoreImplementsPurchases`, `TypeCorrect`, `PaidAtMostOnce`, `ReservedBeforeOrdered`, `RowsTellTheirActivity`, `OnlyExpiredResultsAreRebought`, `RequestsAgree`, `ChecksHold`, `AllowanceKept`, `SettledRowsAreFinal`, `CallsAgree` | four layers, each resting on those before; `Known` is all of them |
| `SelectedTimeLiveProofs` | `TypeCorrect`, `OneRunner`, `AnswersOfTheirKey`, `FreshRecordsServe`, `DailyAllowance` | `OneRunnerPerKey`, `Table`, `Records`, `ServedIsNotRebought`, `Allowance` |
| `ActivityLedgerProofs` | `TypeCorrect`, `SubmitsAreNotOffered`, `IdsOneToOne`, `VerdictsAndIdsKept` | `IdsMapOneToOne`, `SubmitsAreRecorded`, `WorkersRelyOnIt` |
| `DemoAllowanceProofs` | `StoreImplementsAccount`, `TypeCorrect`, `UnitsAuthorized`, `OpenRowsBounded`, `PostsCovered`, `ConsumesInTime`, `SettledRowsStay` | `Bounded`, `PostsAreCovered`, `ConsumedInTime`, `Paying` |
| `DurableJobsProofs` | `TypeCorrect`, `PostsRemembered`, `AcksKept` | `Shown`, `OwnIds`, `OneId`, `AckedIdsAreKept` |
| `DurableJobsProofs`, of `LiveWorker` | `WorkerTypeCorrect`, `OnePost`, `PreSubmitFailuresAreFree`, `FirstSubmitOffersAreSafe`, `DurableIdsAreKept` | `FlagsTellThePost`, `EarlyStatesAreFree`, `NoIdInFlight` |
| `LiveDedupeProofs` | `CoordinatorImplementsJoined`, `CoreInvariant`, `TypeCorrect`, `OneSubmit`, `AnswersAgreeAlways` | `Core`: `LeaderInv`, `OneLeader`, `RecordInv`, `PostInv`, `JoinerInv`, `AnswerInv`, `IdleInv`; `Fates` for the refinement |
| `CacheRecheckProofs` | `TypeCorrect`, `UnitsStayInPolicy`, `ConsumesAreCached`, `PaidReleasesAnswered`, `AnswersAgreeAlways` | `StepsKnow`, `CallsKnow`, `CacheKnows`, `LedgerKnows` |
| `GeographyJobsProofs` | `TypeCorrect`, `AnswersAreNotTakenBack`, `TasksAreAlone` | `Shapes`, `Tasks` (`Apart`, `Task`, `Written`, `Filled`), `Posting`, `Served` |

**SharedAcquisition.** No property is inductive by itself: that a generation is charged
once depends on what each call remembers, and that on who holds the lock. (1)
`LockOwnership`: among calls with a live session, one per fingerprint. (2) `RowsInv`: the
table's own constraints, and, while its session lives, a call's row is as it last saw it;
a call that has outlived its session still has a row. (3) `OrdersInv`: one POST per
generation on the wire or in the book, and a call about to POST is the first. The step
that matters is `InsertRow`: committing the row before the POST is what makes a call
whose lock is gone still the only one to post. (4) `AllowanceInv`: whoever is inside the
allowance transaction has room for its row, and only one is.

The refinement of `PaidPurchases` is proved step by step from the four layers: `InsertRow`
is a `Reserve` because the lock keeps later generations absent and earlier ones expired,
and the mapped reservations of a day are no more than its rows; `VendorAccepts` is a
`Charge` because its generation was never ordered, which also bounds the number of orders
by fingerprints times generations; `StoreResult` is a `Deliver`; all else is a stutter.

**LiveWorker.** The flags, and not the state, tell whether a POST left: `rec.attempted`
is set before and never cleared, a state from before the submit with `attempted` unset
has `sent = 0`. Each event is proved to keep the three conjuncts even if it raises.

**SelectedTimeLive.** `Table` links threads and flights in both directions, so that a
runner's exclusive view of its key's Type-1 record (`ServedIsNotRebought`) is stable;
`Allowance` counts threads between reservation and POST together with the posts.

**ActivityLedger.** The argument is rely and guarantee: every ledger operation stores at
most one legal successor of one binding (`Stores`), legal successors only move ahead, and
what a worker read earlier (`Relies`) is stable under moving ahead.

**DemoAllowance.** Sums are cardinalities of sets of slots (`HeldSlots`), so that the
library's facts on finite sets replace induction. Every table operation `Follows` or
`Evolves` from the old one; `Paying` says that a caller between consume and POST is the
only one of its row.

The refinement of `UnitAccount` needs the same invariant: a table that `Follows` the old
one without a consume only gives tickets back (`GivenBack`), an insertion is an `Issue`
because `HasRoom` and the unique index are looked at after the expiry, in the same
transaction (`InsertIssues`), a consume spends the one row it is for (`ConsumeSpends`),
and a POST finds its row spent and unpaid because of `Paying`.

**DurableJobs.** What a reader of the column must not take for unsubmitted is `Shown`
for every submitted job that was not rewound; it is stable because a worker's write moves
the column ahead, a restart maps shown states to shown states, and a whole-job write that
would hide one is what `rewound` records. `OwnIds` and `OneId` say that an id in a row or
a worker's hand is one the vendor gave to that job.

**LiveDedupe.** `Core` says that only the last record of a fingerprint may have a leader,
that its phase follows from the leader's step, and that older records are final and had no submit. One submit follows since a new record
is opened only after a failure that came before the submit, and answers agree since a
joiner reports after the event of a record that no longer changes.

The refinement of `JoinedSubmit` needs two things more (`Fates`): that a leader beyond its
POST has submitted, so that the phase it ends with says FAILED_PRE_SUBMIT exactly when
nothing was submitted, and that every record but the last failed so. Then `Lead` is an
`Attempt` because it reopens only such a record (`LeadAttempts`), the POST is a `Submit`
because the record is the fingerprint's last and nothing was submitted (`PostIsSubmit`),
`Done` is a `Settle` (`EventSettles`), and a joiner that wakes is a `Tell` because the
record it names is settled (`JoinerSeen`).

**CacheRecheck.** `StepsKnow` is what a call has read and not given up: a step after the
lookup has a reservation, a put has a normalized result. The properties then need the
cause of a step, not its place: who is about to consume has put its result
(`CallsKnow`), who is about to release has seen a cached result or a finished job, and
both stay true, because results that were put and jobs that finished are remembered
(`puts`, `finished`) whatever an operator busts meanwhile. Since the ledger settles a row
only once and only by one of these calls (`Moves`), every settled row has its cause
(`LedgerKnows`). `CacheKnows` says that the record in the cache is the only answer since
the last bust; it is inductive because `put_from_worker` refuses to overwrite.
`UnitsStayInPolicy` is about finite sets: a step opens one row when there is room for it
and never opens a settled one again.

**GeographyJobs.** `Apart`: a place has one unfinished task at most, since a POST makes a
task only where there is no record, and only that task forgets one. So while a task waits
(`Task`), its place has the task's own record, still as it was made, or one that a POST
stored; and while it writes (`Written`), it holds the lock and writes the record its place
has. The fields that are read without the lock come in one order (outcome, identity,
geometry, reason; `Filled`), so a record goes ahead (`Ahead`): it keeps a package's ETag,
and if it is not overruled it keeps any ETag, and does not change once its task has ended.
`Posting` says that a POST which reads its stored record without the lock has read it as
it was stored, or it was overruled. `Served` follows for POST answers and for the ETags of
GET answers, and says nothing of GET bodies, which may be torn.

Only model-checked: the liveness properties (`CallEnds`, `RequestsEnd`, `FlightsEnd`,
`CallsEnd`, `PendingEnds`), since fairness and ENABLED are out of the prover's reach.

## What is not modelled

- Numerical analysis, story assembly, view models, registries, DTOs: deterministic
  functions of tracked inputs without state.
- Content: payloads, geometry, messages, redaction, audit.
- The web client: it polls the routes and keeps nothing the server relies on.
- Mocks and the crash matrix: test scaffolding over components modelled here; the vendor
  is stated as environment actions instead.
- Authentication and the policy surface, which only refuse.
- The TIGER cache and area preparation: their state-changing functions have no caller
  but tests. The resource guards, whose operations are single critical sections over
  counters, queues and a clock. The spend gate, whose grants are values of one caller, and
  the anonymous guards, which are counters under one lock.
- `InMemoryJobStore`: its contract and recovery are those of `DurableJobs`, without a
  column that could disagree.
- Corrupted files and databases. SQLite and PostgreSQL are taken to do what their
  documentation says of transactions and advisory locks.

## Plan

1. *Done.* What spends money or decides about spending: the shared store, the worker
   machine, the selected-time route, the activity ledger, the allowance, the live submit
   join and the recheck pipeline.
2. *Done.* The durable job store and its restart; the geography jobs.
3. `ResourceGuards`: caps, windows and the queue; liveness of the queue's head, and the
   composition with the demo path's reserve slot.
4. The TIGER cache and area preparation, once they have callers.
5. *Done.* Proofs of `CacheRecheck` and `GeographyJobs`; `UnitAccount`, which
   `DemoAllowance` implements. The in-memory ledger does not implement it as it stands: it
   lets a second plan of a fingerprint open a row beside the first. An abstract
   account that both implement would have to drop that promise.
6. *Done.* `JoinedSubmit`, which `LiveDedupe` implements. `CacheRecheck` has no such
   promise to keep: both holders of a joined reservation may submit.
