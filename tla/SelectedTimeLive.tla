-------------------------- MODULE SelectedTimeLive --------------------------
(***************************************************************************)
(* POST /live/selected-time in one API process without the shared          *)
(* PostgreSQL store (api/routes/bounded_selected_time_live.py,             *)
(* domain/multicity/type1_live.py, integrations/fortyguard of              *)
(* apps/api/app).  Request threads share the in-flight table, the daily    *)
(* counter and two disk caches: the Type-1 record of a request (seed) and  *)
(* the vendor's tiles (tiles).  The process may die; the caches survive.   *)
(*                                                                         *)
(* A key stands for a flight key, its cache fingerprint and the adapter's  *)
(* fingerprint of the one partition, which are functions of city and hour. *)
(* Records of the two caches are abstracted to the POST they come from,    *)
(* the time they were cached and whether they have a TTL.                  *)
(***************************************************************************)
EXTENDS Naturals, Sequences, FiniteSets

CONSTANTS
  Thread,       \* the request threads of the process
  NoThread,     \* stands where no thread does
  Key,          \* the requests
  Target,       \* Target[k]: the local hour that k asks for
  Offset,       \* the hours that the city's local time is behind UTC
  DayLength,    \* the hours of a day
  Ttl,          \* the lifetime of an operational record
  DailyLimit,   \* bounded_selected_time_daily_limit
  MaxTime,      \* bound: the clock stops here
  MaxLives      \* bound: the process is started this often

ASSUME ConstantsAssumption ==
  /\ NoThread \notin Thread
  /\ Target \in [Key -> Nat]
  /\ DayLength \in Nat \ {0} /\ Ttl \in Nat \ {0}
  /\ Offset \in Nat /\ DailyLimit \in Nat /\ MaxTime \in Nat /\ MaxLives \in Nat \ {0}

VARIABLES
  now,       \* the UTC clock, in hours
  life,      \* how often the process was started
  pc,        \* pc[t]: the step of the request that thread t serves
  key,       \* key[t]: what it asks for
  flight,    \* flight[t]: the owner of the flight it waits for
  hand,      \* hand[t]: the record in its hands (the cache's L1), or NoRecord
  day,       \* day[t]: the day its submission is counted on
  inflight,  \* inflight[k]: the thread that owns the flight of k, or NoThread
  used,      \* used[d]: _daily_counts, the submissions reserved on day d
  seed,      \* seed[k]: the Type-1 cache record of k, or NoRecord
  tiles,     \* tiles[k]: the vendor cache record of k, or NoRecord
  posts      \* history: the POSTs that left, and the record each one paid for

thread == <<pc, key, flight, hand, day>>
shared == <<inflight, used, seed, tiles>>
vars == <<now, life, thread, shared, posts>>

Day == now \div DayLength
Days == 0 .. MaxTime

\* A cache record: post is the POST its payload came from.
Record == [post : Nat, at : Nat, ttl : BOOLEAN]
NoRecord == [post |-> 0, at |-> 0, ttl |-> FALSE]
Expired(r) == r.ttl /\ now >= r.at + Ttl
Fresh(r) == r # NoRecord /\ ~Expired(r)

\* operational_ttl_seconds: the local date of the request against the UTC date.
Operational(k) == Target[k] \div DayLength >= Day
NewRecord(k, post) == [post |-> post, at |-> now, ttl |-> Operational(k)]

Buying == {"reserve", "post", "poll", "put"}
Owning == Buying \cup {"seed", "tiles", "unlink", "again", "seedput", "done"}
Step == Owning \cup {"idle", "pop", "wait", "attach", "detach"}

At(t, step) == pc[t] = step
Goto(t, step) == pc' = [pc EXCEPT ![t] = step]
Take(t, record) == hand' = [hand EXCEPT ![t] = record]
Fail(t) == Goto(t, "done") /\ Take(t, NoRecord)

Init ==
  /\ now = 0 /\ life = 1
  /\ pc = [t \in Thread |-> "idle"]
  /\ key \in {[t \in Thread |-> k] : k \in Key}
  /\ flight = [t \in Thread |-> NoThread]
  /\ hand = [t \in Thread |-> NoRecord]
  /\ day = [t \in Thread |-> 0]
  /\ inflight = [k \in Key |-> NoThread]
  /\ used = [d \in Days |-> 0]
  /\ seed = [k \in Key |-> NoRecord]
  /\ tiles = [k \in Key |-> NoRecord]
  /\ posts = <<>>

-----------------------------------------------------------------------------
(* Single flight.                                                          *)

\* Fault: the table is read before the lock and written under it.
EnterUnlocked(t, k) ==
  /\ At(t, "idle")
  /\ Goto(t, "seed")
  /\ key' = [key EXCEPT ![t] = k]
  /\ flight' = [flight EXCEPT ![t] = NoThread]
  /\ hand' = [hand EXCEPT ![t] = NoRecord]
  /\ inflight' = [inflight EXCEPT ![k] = t]
  /\ UNCHANGED <<now, life, day, used, seed, tiles, posts>>

\* Fault: the flight key leaves the fingerprint out.
EnterAnyFlight(t, k) ==
  LET owners == {inflight[j] : j \in Key} \ {NoThread}
      owner == IF owners = {} THEN NoThread ELSE CHOOSE u \in owners : TRUE
      answered == owner # NoThread /\ pc[owner] = "pop"
  IN /\ At(t, "idle")
     /\ key' = [key EXCEPT ![t] = k]
     /\ Goto(t, IF owner = NoThread THEN "seed"
                ELSE IF ~answered THEN "wait"
                ELSE IF hand[owner] = NoRecord THEN "idle" ELSE "attach")
     /\ flight' = [flight EXCEPT ![t] = IF answered THEN NoThread ELSE owner]
     /\ Take(t, IF answered THEN hand[owner] ELSE NoRecord)
     /\ inflight' = [inflight EXCEPT ![k] = IF owner = NoThread THEN t ELSE @]
     /\ UNCHANGED <<now, life, day, used, seed, tiles, posts>>

\* The request takes the flight of its key, or waits for the one that runs; a
\* flight that is done but not yet popped answers at once.
Enter(t, k) ==
  LET owner == inflight[k]
      answered == owner # NoThread /\ pc[owner] = "pop"
  IN /\ At(t, "idle")
     /\ key' = [key EXCEPT ![t] = k]
     /\ Goto(t, IF owner = NoThread THEN "seed"
                ELSE IF ~answered THEN "wait"
                ELSE IF hand[owner] = NoRecord THEN "idle" ELSE "attach")
     /\ flight' = [flight EXCEPT ![t] = IF answered THEN NoThread ELSE owner]
     /\ Take(t, IF answered THEN hand[owner] ELSE NoRecord)
     /\ inflight' = [inflight EXCEPT ![k] = IF owner = NoThread THEN t ELSE owner]
     /\ UNCHANGED <<now, life, day, used, seed, tiles, posts>>

\* set_result or set_exception: whoever waits for this flight has its answer.
Answer(t) ==
  LET waits(u) == pc[u] = "wait" /\ flight[u] = t
  IN /\ At(t, "done")
     /\ pc' = [u \in Thread |-> IF u = t THEN "pop"
                                ELSE IF ~waits(u) THEN pc[u]
                                ELSE IF hand[t] = NoRecord THEN "idle" ELSE "attach"]
     /\ hand' = [u \in Thread |-> IF waits(u) THEN hand[t] ELSE hand[u]]
     /\ flight' = [u \in Thread |-> IF waits(u) THEN NoThread ELSE flight[u]]
     /\ UNCHANGED <<now, life, key, day, shared, posts>>

\* Fault: the flight is removed only when it succeeded.
PopOnSuccess(t) ==
  /\ At(t, "pop")
  /\ Goto(t, IF hand[t] = NoRecord THEN "idle" ELSE "attach")
  /\ inflight' = [inflight EXCEPT ![key[t]] = IF hand[t] = NoRecord THEN @ ELSE NoThread]
  /\ UNCHANGED <<now, life, key, flight, hand, day, used, seed, tiles, posts>>

\* The finally block.
Pop(t) ==
  /\ At(t, "pop")
  /\ Goto(t, IF hand[t] = NoRecord THEN "idle" ELSE "attach")
  /\ inflight' = [inflight EXCEPT ![key[t]] = NoThread]
  /\ UNCHANGED <<now, life, key, flight, hand, day, used, seed, tiles, posts>>

\* The joiner's wait ends with a 504.
JoinTimesOut(t) ==
  /\ At(t, "wait")
  /\ Goto(t, "idle")
  /\ flight' = [flight EXCEPT ![t] = NoThread]
  /\ UNCHANGED <<now, life, key, hand, day, shared, posts>>

-----------------------------------------------------------------------------
(* The runner: cache first, then the vendor.                               *)

\* run_type1_live reads the Type-1 record; the cache removes an expired one.
ReadSeed(t) ==
  LET k == key[t]
  IN /\ At(t, "seed")
     /\ IF Fresh(seed[k]) THEN Goto(t, "done") /\ Take(t, seed[k]) /\ UNCHANGED seed
        ELSE Goto(t, "tiles") /\ seed' = [seed EXCEPT ![k] = NoRecord] /\ UNCHANGED hand
     /\ UNCHANGED <<now, life, key, flight, day, inflight, used, tiles, posts>>

\* The adapter reads the vendor record. An expired one is unlinked in a second step.
ReadTiles(t) ==
  LET r == tiles[key[t]]
  IN /\ At(t, "tiles")
     /\ IF Fresh(r) THEN Goto(t, "again") /\ Take(t, r)
        ELSE Goto(t, IF r = NoRecord THEN "reserve" ELSE "unlink") /\ UNCHANGED hand
     /\ UNCHANGED <<now, life, key, flight, day, shared, posts>>

\* path.unlink() raises when the file is gone: the acquisition fails.
Unlink(t) ==
  LET k == key[t]
  IN /\ At(t, "unlink")
     /\ Goto(t, IF tiles[k] = NoRecord THEN "done" ELSE "reserve")
     /\ tiles' = [tiles EXCEPT ![k] = NoRecord]
     /\ UNCHANGED <<now, life, key, flight, hand, day, inflight, used, seed, posts>>

\* Fault: the counter is only looked at, and raised once the POST was answered.
ReserveUncounted(t) ==
  /\ At(t, "reserve")
  /\ IF used[Day] >= DailyLimit THEN Fail(t) /\ UNCHANGED day
     ELSE Goto(t, "post") /\ day' = [day EXCEPT ![t] = Day] /\ UNCHANGED hand
  /\ UNCHANGED <<now, life, key, flight, shared, posts>>

\* _reserve_submission: never refunded.
Reserve(t) ==
  /\ At(t, "reserve")
  /\ IF used[Day] >= DailyLimit THEN Fail(t) /\ UNCHANGED <<day, used>>
     ELSE /\ Goto(t, "post")
          /\ day' = [day EXCEPT ![t] = Day]
          /\ used' = [used EXCEPT ![Day] = @ + 1]
          /\ UNCHANGED hand
  /\ UNCHANGED <<now, life, key, flight, inflight, seed, tiles, posts>>

\* The POST leaves; its answer carries an activity id, or is an error or lost.
Post(t) ==
  LET purchase == [key |-> key[t], day |-> day[t], life |-> life, at |-> now]
  IN /\ At(t, "post")
     /\ posts' = Append(posts, purchase)
     /\ \/ Goto(t, "poll") /\ Take(t, [post |-> Len(posts) + 1, at |-> now, ttl |-> FALSE])
        \/ Fail(t)
     /\ UNCHANGED <<now, life, key, flight, day, shared>>

\* The vendor's result comes.
PollSucceeds(t) ==
  /\ At(t, "poll")
  /\ Goto(t, "put")
  /\ UNCHANGED <<now, life, key, flight, hand, day, shared, posts>>

\* Fault: the poll has no deadline.
PollNeverFails(t) == At(t, "poll") /\ UNCHANGED vars

\* The vendor reports failure, the poll breaks, or its deadline passes: the
\* activity id is forgotten with the request.
PollFails(t) ==
  /\ At(t, "poll")
  /\ Fail(t)
  /\ UNCHANGED <<now, life, key, flight, day, shared, posts>>

\* The adapter caches what it bought; mapping it to tiles may fail.
Put(t) ==
  LET k == key[t]
      record == NewRecord(k, hand[t].post)
  IN /\ At(t, "put")
     /\ tiles' = [tiles EXCEPT ![k] = record]
     /\ \/ Goto(t, "again") /\ Take(t, record)
        \/ Fail(t)
     /\ UNCHANGED <<now, life, key, flight, day, inflight, used, seed, posts>>

\* The acquisition reads the adapter's cache again: an L1 record that expired
\* meanwhile takes the file with it.
ReadAgain(t) ==
  /\ At(t, "again")
  /\ Goto(t, "seedput")
  /\ tiles' = [tiles EXCEPT ![key[t]] = IF Expired(hand[t]) THEN NoRecord ELSE @]
  /\ UNCHANGED <<now, life, key, flight, hand, day, inflight, used, seed, posts>>

\* seed_type1_live_cache, with a lifetime of its own.
PutSeed(t) ==
  /\ At(t, "seedput")
  /\ Goto(t, "done")
  /\ seed' = [seed EXCEPT ![key[t]] = NewRecord(key[t], hand[t].post)]
  /\ UNCHANGED <<now, life, key, flight, hand, day, inflight, used, tiles, posts>>

-----------------------------------------------------------------------------
(* After the flight: the zones, from a cache of the request's own.         *)

Attach(t) ==
  /\ At(t, "attach")
  /\ Goto(t, IF Expired(tiles[key[t]]) THEN "detach" ELSE "idle")
  /\ UNCHANGED <<now, life, key, flight, hand, day, shared, posts>>

\* The expired file that Attach read is unlinked; its absence is swallowed.
Detach(t) ==
  /\ At(t, "detach")
  /\ Goto(t, "idle")
  /\ tiles' = [tiles EXCEPT ![key[t]] = NoRecord]
  /\ UNCHANGED <<now, life, key, flight, hand, day, inflight, used, seed, posts>>

-----------------------------------------------------------------------------

\* The process dies and is started again: only the disk caches survive.
Restart ==
  /\ life < MaxLives
  /\ life' = life + 1
  /\ pc' = [t \in Thread |-> "idle"]
  /\ flight' = [t \in Thread |-> NoThread]
  /\ hand' = [t \in Thread |-> NoRecord]
  /\ inflight' = [k \in Key |-> NoThread]
  /\ used' = [d \in Days |-> 0]
  /\ UNCHANGED <<now, key, day, seed, tiles, posts>>

Tick == now < MaxTime /\ now' = now + 1 /\ UNCHANGED <<life, thread, shared, posts>>

Runs(t) ==
  \/ Answer(t) \/ Pop(t) \/ JoinTimesOut(t)
  \/ ReadSeed(t) \/ ReadTiles(t) \/ Unlink(t) \/ Reserve(t) \/ Post(t)
  \/ PollFails(t) \/ Put(t) \/ ReadAgain(t) \/ PutSeed(t) \/ Attach(t) \/ Detach(t)

Next ==
  \/ \E t \in Thread : (\E k \in Key : Enter(t, k)) \/ Runs(t) \/ PollSucceeds(t)
  \/ Restart \/ Tick

Spec == Init /\ [][Next]_vars

\* Threads are scheduled, and every wait has its deadline: wait_for's 600 s and
\* the joiner's 60 s. That the vendor answers is not assumed.
FairSpec == Spec /\ \A t \in Thread : WF_vars(Runs(t))

-----------------------------------------------------------------------------
(* Properties.                                                             *)

\* The flights, the cache, the day's counter and the threads hold what the route,
\* the adapter and the guard can put into them.
TypeOK ==
  /\ now \in Nat /\ life \in Nat
  /\ pc \in [Thread -> Step]
  /\ key \in [Thread -> Key]
  /\ flight \in [Thread -> Thread \cup {NoThread}]
  /\ hand \in [Thread -> Record]
  /\ day \in [Thread -> Nat]
  /\ inflight \in [Key -> Thread \cup {NoThread}]
  /\ used \in [Days -> 0 .. DailyLimit]
  /\ seed \in [Key -> Record] /\ tiles \in [Key -> Record]
  /\ posts \in Seq([key : Key, day : Nat, life : Nat, at : Nat])

\* _with_single_flight: at most one thread runs a key, the one in the table, and
\* whoever waits waits for a thread that still runs that key.
OneRunnerPerKey ==
  /\ \A t \in Thread : pc[t] \in Owning \cup {"pop"} => inflight[key[t]] = t
  /\ \A t \in Thread : pc[t] = "wait" => /\ flight[t] \in Thread
                                         /\ pc[flight[t]] \in Owning
                                         /\ key[flight[t]] = key[t]

\* _reserve_submission: a life of the process sends no more POSTs than the day
\* they were reserved on allows, whatever happened to the earlier ones.
AllowancePerDay ==
  \A d \in Days :
    Cardinality({i \in DOMAIN posts : posts[i].day = d /\ posts[i].life = life}) <= DailyLimit

\* Cache first: nothing is bought for a key while its Type-1 record is fresh;
\* no second runner can have stored it since this one looked.
ServedIsNotRebought ==
  \A t \in Thread : pc[t] \in Buying \cup {"tiles", "unlink"} => ~Fresh(seed[key[t]])

\* A request, joined or owned, is answered from a POST for the very request.
AnswersAreOfTheirKey ==
  \A t \in Thread : hand[t].post > 0 => /\ hand[t].post \in DOMAIN posts
                                        /\ posts[hand[t].post].key = key[t]

\* Every request is answered, by its own deadline at the latest.
RequestsEnd == \A t \in Thread : pc[t] # "idle" ~> pc[t] = "idle"

\* A flight leaves the table, however it ended: a key is never blocked for good.
FlightsEnd == \A k \in Key, t \in Thread : inflight[k] = t ~> inflight[k] # t

-----------------------------------------------------------------------------
(* What a comment says and the code does not keep.                         *)

\* integrations/fortyguard/cache.py:4 "Operational/forecast results expire.":
\* a record of an hour that is still to come has a lifetime.
ForecastsExpire ==
  \A k \in Key : tiles[k] # NoRecord /\ tiles[k].at < Target[k] + Offset => tiles[k].ttl
=============================================================================
