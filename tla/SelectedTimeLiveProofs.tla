----------------------- MODULE SelectedTimeLiveProofs -----------------------
(***************************************************************************)
(* What the selected-time route keeps for any number of threads, requests, *)
(* days and restarts: types, one runner per key, answers of their own key, *)
(* and no purchase while the Type-1 record is fresh.                       *)
(***************************************************************************)
EXTENDS SelectedTimeLive, FiniteSetTheorems, TLAPS

Owns(t) == pc[t] \in Owning \cup {"pop"}

\* The table names exactly the threads that run a flight.
Table == \A k \in Key : inflight[k] # NoThread => Owns(inflight[k]) /\ key[inflight[k]] = k

\* A record comes from a POST for its key.
Bought(r, k) == r.post > 0 => r.post \in DOMAIN posts /\ posts[r.post].key = k
Records ==
  /\ \A k \in Key : Bought(seed[k], k) /\ Bought(tiles[k], k)
  /\ \A t \in Thread : Bought(hand[t], key[t])

Sent(d) == {i \in DOMAIN posts : posts[i].day = d /\ posts[i].life = life}
Reserved(d) == {t \in Thread : pc[t] = "post" /\ day[t] = d}

\* The counter covers the POSTs that left and those that are about to.
Counted(d) ==
  /\ IsFiniteSet(Reserved(d))
  /\ Cardinality(Sent(d)) + Cardinality(Reserved(d)) <= used[d]
Allowance ==
  /\ \A d \in Days : Counted(d)
  /\ \A i \in DOMAIN posts : posts[i].life <= life

IInv == TypeOK /\ OneRunnerPerKey /\ Table /\ Records /\ ServedIsNotRebought /\ Allowance

USE ConstantsAssumption

\* The absent cache record is a record.
LEMMA NoRecordIsRecord == NoRecord \in Record
BY DEF NoRecord, Record

\* What put writes is a record of the purchase it was built from.
LEMMA NewRecords ==
  ASSUME TypeOK, NEW k \in Key, NEW post \in Nat
  PROVE  NewRecord(k, post) \in Record /\ NewRecord(k, post).post = post
<1>1. Operational(k) \in BOOLEAN
  BY DEF Operational
<1>2. now \in Nat
  BY DEF TypeOK
<1> HIDE DEF Operational
<1> QED BY <1>1, <1>2 DEF NewRecord, Record

\* The quotient of naturals is a natural.
LEMMA Quotients == ASSUME NEW x \in Nat, NEW d \in Nat \ {0} PROVE x \div d \in Nat
OBVIOUS

\* The day of a typed state is a natural.
LEMMA DayIsNat == TypeOK => Day \in Nat
BY Quotients DEF TypeOK, Day

\* The initial states satisfy the invariant.
LEMMA InitInvariant == Init => IInv
<1> SUFFICES ASSUME Init PROVE IInv
  OBVIOUS
<1>1. TypeOK
  <2>1. key \in [Thread -> Key] /\ posts \in Seq([key : Key, day : Nat, life : Nat, at : Nat])
    BY DEF Init
  <2>2. used \in [Days -> 0 .. DailyLimit]
    BY DEF Init, Days
  <2> QED BY <2>1, <2>2, NoRecordIsRecord DEF Init, TypeOK, Step
<1>2. OneRunnerPerKey /\ Table
  BY DEF Init, OneRunnerPerKey, Table, Owning, Buying
<1>3. Records
  BY DEF Init, Records, Bought, NoRecord
<1>4. ServedIsNotRebought
  BY DEF Init, ServedIsNotRebought, Buying
<1>5. Allowance
  <2>1. \A d \in Days : Sent(d) = {} /\ Reserved(d) = {} /\ used[d] = 0
    BY DEF Init, Sent, Reserved
  <2>2. DOMAIN posts = {}
    BY DEF Init
  <2>3. IsFiniteSet({}) /\ Cardinality({}) = 0
    BY FS_EmptySet
  <2>4. \A d \in Days : Counted(d)
    BY <2>1, <2>3 DEF Counted
  <2> QED BY <2>2, <2>4 DEF Allowance
<1> QED BY <1>1, <1>2, <1>3, <1>4, <1>5 DEF IInv

-----------------------------------------------------------------------------
(* Types.                                                                  *)

\* A failure is typed: its hand is empty.
LEMMA FailTypes ==
  ASSUME TypeOK, NEW t \in Thread, Fail(t)
  PROVE  pc' \in [Thread -> Step] /\ hand' \in [Thread -> Record]
BY NoRecordIsRecord DEF Fail, Goto, Take, TypeOK, Step, Owning, Buying

\* A thread that goes to a step of the program leaves pc typed.
LEMMA GotoTypes ==
  ASSUME TypeOK, NEW t \in Thread, NEW step \in Step, Goto(t, step)
  PROVE  pc' \in [Thread -> Step]
BY DEF Goto, TypeOK

\* A thread that takes a record in hand leaves hand typed.
LEMMA TakeTypes ==
  ASSUME TypeOK, NEW t \in Thread, NEW r \in Record, Take(t, r)
  PROVE  hand' \in [Thread -> Record]
BY DEF Take, TypeOK

\* The steps, written out for the provers.
LEMMA StepNames ==
  {"idle", "pop", "wait", "attach", "detach", "seed", "tiles", "unlink", "reserve", "post", "poll",
   "put", "again", "seedput", "done"} = Step
BY DEF Step, Owning, Buying

\* The steps that only move the flight.
LEMMA FlightTypes ==
  ASSUME TypeOK, NEW t \in Thread,
         (\E k \in Key : Enter(t, k)) \/ Answer(t) \/ Pop(t) \/ JoinTimesOut(t)
  PROVE  TypeOK'
<1>1. ASSUME NEW k \in Key, Enter(t, k) PROVE TypeOK'
  <2> DEFINE owner == inflight[k]
             answered == owner # NoThread /\ pc[owner] = "pop"
  <2>1. owner \in Thread \cup {NoThread}
    BY DEF TypeOK
  <2>2. PICK step \in Step : Goto(t, step)
    BY <1>1, StepNames DEF Enter
  <2>3. PICK r \in Record : Take(t, r)
    BY <1>1, <2>1, NoRecordIsRecord DEF Enter, TypeOK
  <2>4. /\ key' = [key EXCEPT ![t] = k]
        /\ flight' \in [Thread -> Thread \cup {NoThread}]
        /\ inflight' \in [Key -> Thread \cup {NoThread}]
        /\ UNCHANGED <<now, life, day, used, seed, tiles, posts>>
    BY <1>1, <2>1 DEF Enter, TypeOK
  <2>5. pc' \in [Thread -> Step] /\ hand' \in [Thread -> Record]
    BY <2>2, <2>3, GotoTypes, TakeTypes
  <2> QED BY <2>4, <2>5 DEF TypeOK
<1>2. CASE Answer(t)
  <2>1. pc' \in [Thread -> Step]
    BY <1>2, StepNames DEF Answer, TypeOK
  <2>2. hand' \in [Thread -> Record] /\ flight' \in [Thread -> Thread \cup {NoThread}]
    BY <1>2 DEF Answer, TypeOK
  <2> QED BY <1>2, <2>1, <2>2 DEF Answer, TypeOK, shared
<1>3. CASE Pop(t)
  <2>1. pc' \in [Thread -> Step]
    BY <1>3, GotoTypes, StepNames DEF Pop
  <2> QED BY <1>3, <2>1 DEF Pop, TypeOK
<1>4. CASE JoinTimesOut(t)
  <2>1. pc' \in [Thread -> Step]
    BY <1>4, GotoTypes, StepNames DEF JoinTimesOut
  <2> QED BY <1>4, <2>1 DEF JoinTimesOut, TypeOK, shared
<1> QED BY <1>1, <1>2, <1>3, <1>4

\* The steps of a runner up to its POST.
LEMMA CacheTypes ==
  ASSUME TypeOK, NEW t \in Thread, ReadSeed(t) \/ ReadTiles(t) \/ Unlink(t) \/ Reserve(t)
  PROVE  TypeOK'
<1>1. CASE ReadSeed(t)
  <2>1. pc' \in [Thread -> Step] /\ hand' \in [Thread -> Record]
    BY <1>1, GotoTypes, TakeTypes, StepNames DEF ReadSeed, TypeOK
  <2>2. seed' \in [Key -> Record]
    BY <1>1, NoRecordIsRecord DEF ReadSeed, TypeOK
  <2> QED BY <1>1, <2>1, <2>2 DEF ReadSeed, TypeOK
<1>2. CASE ReadTiles(t)
  <2>1. pc' \in [Thread -> Step] /\ hand' \in [Thread -> Record]
    BY <1>2, GotoTypes, TakeTypes, StepNames DEF ReadTiles, TypeOK
  <2> QED BY <1>2, <2>1 DEF ReadTiles, TypeOK, shared
<1>3. CASE Unlink(t)
  <2>1. pc' \in [Thread -> Step]
    BY <1>3, GotoTypes, StepNames DEF Unlink
  <2>2. tiles' \in [Key -> Record]
    BY <1>3, NoRecordIsRecord DEF Unlink, TypeOK
  <2> QED BY <1>3, <2>1, <2>2 DEF Unlink, TypeOK
<1>4. CASE Reserve(t)
  <2>1. pc' \in [Thread -> Step] /\ hand' \in [Thread -> Record]
    BY <1>4, GotoTypes, FailTypes, StepNames DEF Reserve, TypeOK
  <2>2. day' \in [Thread -> Nat]
    BY <1>4, DayIsNat DEF Reserve, TypeOK
  <2>3. used' \in [Days -> 0 .. DailyLimit]
    BY <1>4 DEF Reserve, TypeOK
  <2> QED BY <1>4, <2>1, <2>2, <2>3 DEF Reserve, TypeOK
<1> QED BY <1>1, <1>2, <1>3, <1>4

\* The history's entries.
Purchase == [key : Key, day : Nat, life : Nat, at : Nat]

\* The POST and what follows it.
LEMMA VendorTypes ==
  ASSUME TypeOK, NEW t \in Thread,
         Post(t) \/ PollSucceeds(t) \/ PollFails(t) \/ Put(t) \/ ReadAgain(t) \/ PutSeed(t)
  PROVE  TypeOK'
<1>1. CASE Post(t)
  <2>1. Len(posts) + 1 \in Nat /\ now \in Nat
    BY DEF TypeOK
  <2>2. [post |-> Len(posts) + 1, at |-> now, ttl |-> FALSE] \in Record
    BY <2>1 DEF Record
  <2>3. pc' \in [Thread -> Step] /\ hand' \in [Thread -> Record]
    BY <1>1, <2>2, GotoTypes, TakeTypes, FailTypes, StepNames DEF Post
  <2>4. [key |-> key[t], day |-> day[t], life |-> life, at |-> now] \in Purchase
    BY DEF TypeOK, Purchase
  <2>5. posts' \in Seq(Purchase)
    BY <1>1, <2>4 DEF Post, TypeOK, Purchase
  <2> QED BY <1>1, <2>3, <2>5 DEF Post, TypeOK, shared, Purchase
<1>2. CASE PollSucceeds(t)
  <2>1. pc' \in [Thread -> Step]
    BY <1>2, GotoTypes, StepNames DEF PollSucceeds
  <2> QED BY <1>2, <2>1 DEF PollSucceeds, TypeOK, shared
<1>3. CASE PollFails(t)
  BY <1>3, FailTypes DEF PollFails, TypeOK, shared
<1>4. CASE Put(t)
  <2> DEFINE r == NewRecord(key[t], hand[t].post)
  <2>1. key[t] \in Key /\ hand[t].post \in Nat
    BY DEF TypeOK, Record
  <2>2. r \in Record
    BY <2>1, NewRecords
  <2> HIDE DEF r
  <2>3. /\ tiles' = [tiles EXCEPT ![key[t]] = r]
        /\ (Goto(t, "again") /\ Take(t, r)) \/ Fail(t)
        /\ UNCHANGED <<now, life, key, flight, day, inflight, used, seed, posts>>
    BY <1>4 DEF Put, r
  <2>4. pc' \in [Thread -> Step] /\ hand' \in [Thread -> Record]
    BY <2>2, <2>3, GotoTypes, TakeTypes, FailTypes, StepNames
  <2> QED BY <2>2, <2>3, <2>4 DEF TypeOK
<1>5. CASE ReadAgain(t)
  <2>1. pc' \in [Thread -> Step]
    BY <1>5, GotoTypes, StepNames DEF ReadAgain
  <2>2. tiles' \in [Key -> Record]
    BY <1>5, NoRecordIsRecord DEF ReadAgain, TypeOK
  <2> QED BY <1>5, <2>1, <2>2 DEF ReadAgain, TypeOK
<1>6. CASE PutSeed(t)
  <2>1. pc' \in [Thread -> Step]
    BY <1>6, GotoTypes, StepNames DEF PutSeed
  <2>2. key[t] \in Key /\ hand[t].post \in Nat
    BY DEF TypeOK, Record
  <2>3. seed' \in [Key -> Record]
    BY <1>6, <2>2, NewRecords DEF PutSeed, TypeOK
  <2> QED BY <1>6, <2>1, <2>3 DEF PutSeed, TypeOK
<1> QED BY <1>1, <1>2, <1>3, <1>4, <1>5, <1>6

\* Attaching, detaching, restart and tick leave the state typed.
LEMMA OtherTypes ==
  ASSUME TypeOK, (\E t \in Thread : Attach(t) \/ Detach(t)) \/ Restart \/ Tick
  PROVE  TypeOK'
<1>1. ASSUME NEW t \in Thread, Attach(t) PROVE TypeOK'
  <2>1. pc' \in [Thread -> Step]
    BY <1>1, GotoTypes, StepNames DEF Attach
  <2> QED BY <1>1, <2>1 DEF Attach, TypeOK, shared
<1>2. ASSUME NEW t \in Thread, Detach(t) PROVE TypeOK'
  <2>1. pc' \in [Thread -> Step]
    BY <1>2, GotoTypes, StepNames DEF Detach
  <2>2. tiles' \in [Key -> Record]
    BY <1>2, NoRecordIsRecord DEF Detach, TypeOK
  <2> QED BY <1>2, <2>1, <2>2 DEF Detach, TypeOK
<1>3. CASE Restart
  <2>1. used' \in [Days -> 0 .. DailyLimit]
    BY <1>3 DEF Restart
  <2> QED BY <1>3, <2>1, NoRecordIsRecord, StepNames DEF Restart, TypeOK
<1>4. CASE Tick
  BY <1>4 DEF Tick, TypeOK, thread, shared
<1> QED BY <1>1, <1>2, <1>3, <1>4

\* Every step leaves the state typed.
LEMMA TypeStep == TypeOK /\ [Next]_vars => TypeOK'
<1> SUFFICES ASSUME TypeOK, [Next]_vars PROVE TypeOK'
  OBVIOUS
<1>1. CASE UNCHANGED vars
  BY <1>1 DEF vars, thread, shared, TypeOK
<1>2. CASE Next
  BY <1>2, FlightTypes, CacheTypes, VendorTypes, OtherTypes DEF Next, Runs
<1> QED BY <1>1, <1>2
-----------------------------------------------------------------------------
(* One runner per key.                                                     *)

Runners == OneRunnerPerKey /\ Table

\* A step of a flight's owner that leaves it the owner.
LEMMA OwnerMoves ==
  ASSUME TypeOK, Runners, NEW t \in Thread, pc[t] \in Owning, NEW s \in Owning, Goto(t, s),
         UNCHANGED <<key, flight, inflight>>
  PROVE  Runners'
<1>1. pc' = [pc EXCEPT ![t] = s] /\ pc \in [Thread -> Step]
  BY DEF Goto, TypeOK
<1>2. s # "wait" /\ pc[t] # "wait"
  BY DEF Owning, Buying
<1>3. \A u \in Thread : pc'[u] = IF u = t THEN s ELSE pc[u]
  BY <1>1
<1>4. OneRunnerPerKey'
  BY <1>2, <1>3 DEF Runners, OneRunnerPerKey
<1>5. Table'
  <2> SUFFICES ASSUME NEW j \in Key, inflight'[j] # NoThread
               PROVE  pc'[inflight'[j]] \in Owning \cup {"pop"} /\ key'[inflight'[j]] = j
    BY DEF Table, Owns
  <2>1. /\ inflight[j] \in Thread /\ inflight'[j] = inflight[j]
        /\ pc[inflight[j]] \in Owning \cup {"pop"} /\ key[inflight[j]] = j
    BY DEF Runners, Table, Owns, TypeOK
  <2> QED BY <1>3, <2>1
<1> QED BY <1>4, <1>5 DEF Runners

\* A step of a thread that owns no flight, to a place where it owns none.
LEMMA OutsiderMoves ==
  ASSUME TypeOK, Runners, NEW t \in Thread, pc[t] \notin Owning \cup {"pop"},
         NEW s \in {"idle", "detach"}, Goto(t, s),
         flight' = [flight EXCEPT ![t] = NoThread] \/ UNCHANGED flight,
         UNCHANGED <<key, inflight>>
  PROVE  Runners'
<1>1. \A u \in Thread : /\ pc'[u] = IF u = t THEN s ELSE pc[u]
                        /\ u # t => flight'[u] = flight[u]
  BY DEF Goto, TypeOK
<1>2. s \notin Owning \cup {"pop", "wait"}
  BY DEF Owning, Buying
<1>3. OneRunnerPerKey'
  BY <1>1, <1>2 DEF Runners, OneRunnerPerKey
<1>4. Table'
  <2> SUFFICES ASSUME NEW j \in Key, inflight'[j] # NoThread
               PROVE  pc'[inflight'[j]] \in Owning \cup {"pop"} /\ key'[inflight'[j]] = j
    BY DEF Table, Owns
  <2>1. /\ inflight[j] \in Thread /\ inflight'[j] = inflight[j]
        /\ pc[inflight[j]] \in Owning \cup {"pop"} /\ key[inflight[j]] = j
    BY DEF Runners, Table, Owns, TypeOK
  <2> QED BY <1>1, <2>1
<1> QED BY <1>3, <1>4 DEF Runners

\* The steps a runner takes inside its flight leave one runner per key.
LEMMA RunnerSteps ==
  ASSUME TypeOK, Runners, NEW t \in Thread,
         \/ ReadSeed(t) \/ ReadTiles(t) \/ Unlink(t) \/ Reserve(t) \/ Post(t) \/ PollSucceeds(t)
         \/ PollFails(t) \/ Put(t) \/ ReadAgain(t) \/ PutSeed(t)
  PROVE  Runners'
<1>1. pc[t] \in Owning
  BY DEF ReadSeed, ReadTiles, Unlink, Reserve, Post, PollSucceeds, PollFails, Put, ReadAgain,
         PutSeed, At, Owning, Buying
<1>2. UNCHANGED <<key, flight, inflight>>
  BY DEF ReadSeed, ReadTiles, Unlink, Reserve, Post, PollSucceeds, PollFails, Put, ReadAgain,
         PutSeed, shared
<1>3. PICK s \in Owning : Goto(t, s)
  BY DEF ReadSeed, ReadTiles, Unlink, Reserve, Post, PollSucceeds, PollFails, Put, ReadAgain,
         PutSeed, Fail, Owning, Buying
<1> QED BY <1>1, <1>2, <1>3, OwnerMoves

\* So do the steps of the threads that hold no flight.
LEMMA OutsiderSteps ==
  ASSUME TypeOK, Runners, NEW t \in Thread, JoinTimesOut(t) \/ Attach(t) \/ Detach(t)
  PROVE  Runners'
<1>1. pc[t] \notin Owning \cup {"pop"}
  BY DEF JoinTimesOut, Attach, Detach, At, Owning, Buying
<1>2. PICK s \in {"idle", "detach"} : Goto(t, s)
  BY DEF JoinTimesOut, Attach, Detach
<1>3. /\ flight' = [flight EXCEPT ![t] = NoThread] \/ UNCHANGED flight
      /\ UNCHANGED <<key, inflight>>
  BY DEF JoinTimesOut, Attach, Detach, shared
<1> QED BY <1>1, <1>2, <1>3, OutsiderMoves

\* Creating or joining a flight under the lock leaves one runner per key.
LEMMA EnterRunners ==
  ASSUME TypeOK, Runners, NEW t \in Thread, NEW k \in Key, Enter(t, k)
  PROVE  Runners'
<1> DEFINE owner == inflight[k]
           answered == owner # NoThread /\ pc[owner] = "pop"
           s == IF owner = NoThread THEN "seed" ELSE IF ~answered THEN "wait"
                ELSE IF hand[owner] = NoRecord THEN "idle" ELSE "attach"
<1>1. pc[t] = "idle" /\ pc[t] \notin Owning \cup {"pop"}
  BY DEF Enter, At, Owning, Buying
<1>2. /\ \A u \in Thread : pc'[u] = IF u = t THEN s ELSE pc[u]
      /\ \A u \in Thread : key'[u] = IF u = t THEN k ELSE key[u]
      /\ \A u \in Thread : flight'[u] = IF u # t THEN flight[u]
                                        ELSE IF answered THEN NoThread ELSE owner
      /\ \A j \in Key : inflight'[j] = IF j = k /\ owner = NoThread THEN t ELSE inflight[j]
  BY DEF Enter, TypeOK, Goto
<1>3. owner # NoThread => owner \in Thread /\ owner # t /\ key[owner] = k
                          /\ pc[owner] \in Owning \cup {"pop"}
  BY <1>1 DEF Runners, Table, Owns, TypeOK
<1>4. \A j \in Key : inflight[j] # t
  BY <1>1 DEF Runners, Table, Owns
<1>5. \A u \in Thread : pc[u] \in Owning \cup {"pop"} => inflight[key[u]] = u /\ u # NoThread
  BY DEF Runners, OneRunnerPerKey
<1>6. /\ s \in Owning \cup {"pop"} <=> owner = NoThread
      /\ s = "wait" <=> owner # NoThread /\ ~answered
  BY DEF Owning, Buying
<1>7. \A u \in Thread : key[u] \in Key
  BY DEF TypeOK
<1> HIDE DEF s
<1>8. OneRunnerPerKey'
  <2>1. ASSUME NEW u \in Thread, pc'[u] \in Owning \cup {"pop"} PROVE inflight'[key'[u]] = u
    <3>1. CASE u = t
      BY <1>2, <1>6, <2>1, <3>1
    <3>2. CASE u # t
      BY <1>2, <1>5, <1>7, <2>1, <3>2
    <3> QED BY <3>1, <3>2
  <2>2. ASSUME NEW u \in Thread, pc'[u] = "wait"
        PROVE  flight'[u] \in Thread /\ pc'[flight'[u]] \in Owning /\ key'[flight'[u]] = key'[u]
    <3>1. CASE u = t
      BY <1>2, <1>3, <1>6, <2>2, <3>1
    <3>2. CASE u # t
      <4>1. /\ pc[u] = "wait" /\ flight'[u] = flight[u] /\ key'[u] = key[u]
            /\ flight[u] \in Thread /\ pc[flight[u]] \in Owning /\ key[flight[u]] = key[u]
        BY <1>2, <2>2, <3>2 DEF Runners, OneRunnerPerKey
      <4>2. flight[u] # t
        BY <1>1, <4>1
      <4> QED BY <1>2, <4>1, <4>2
    <3> QED BY <3>1, <3>2
  <2> QED BY <2>1, <2>2 DEF OneRunnerPerKey
<1>9. Table'
  <2> SUFFICES ASSUME NEW j \in Key, inflight'[j] # NoThread
               PROVE  pc'[inflight'[j]] \in Owning \cup {"pop"} /\ key'[inflight'[j]] = j
    BY DEF Table, Owns
  <2>1. CASE j = k /\ owner = NoThread
    BY <1>2, <1>6, <2>1
  <2>2. CASE ~(j = k /\ owner = NoThread)
    <3>1. /\ inflight'[j] = inflight[j] /\ inflight[j] \in Thread /\ inflight[j] # t
          /\ pc[inflight[j]] \in Owning \cup {"pop"} /\ key[inflight[j]] = j
      BY <1>2, <1>4, <2>2 DEF Runners, Table, Owns, TypeOK
    <3> QED BY <1>2, <3>1
  <2> QED BY <2>1, <2>2
<1> QED BY <1>8, <1>9 DEF Runners

\* A runner that answers leaves one runner per key.
LEMMA AnswerRunners ==
  ASSUME TypeOK, Runners, NEW t \in Thread, Answer(t)
  PROVE  Runners'
<1>1. /\ pc[t] = "done" /\ "done" \in Owning /\ "wait" \notin Owning \cup {"pop"}
      /\ {"idle", "attach"} \cap (Owning \cup {"pop", "wait"}) = {} /\ "pop" \notin Owning
  BY DEF Answer, At, Owning, Buying
<1>2. UNCHANGED <<key, inflight>>
  BY DEF Answer, shared
<1>3. \A u \in Thread :
        \/ u = t /\ pc'[u] = "pop"
        \/ u # t /\ pc'[u] = pc[u] /\ flight'[u] = flight[u]
           /\ (pc[u] = "wait" => flight[u] # t)
        \/ u # t /\ pc[u] = "wait" /\ pc'[u] \in {"idle", "attach"}
  BY DEF Answer
<1>4. OneRunnerPerKey'
  <2>1. ASSUME NEW u \in Thread, pc'[u] \in Owning \cup {"pop"} PROVE inflight'[key'[u]] = u
    BY <1>1, <1>2, <1>3, <2>1 DEF Runners, OneRunnerPerKey
  <2>2. ASSUME NEW u \in Thread, pc'[u] = "wait"
        PROVE  flight'[u] \in Thread /\ pc'[flight'[u]] \in Owning /\ key'[flight'[u]] = key'[u]
    <3>1. u # t /\ pc[u] = "wait" /\ flight'[u] = flight[u] /\ flight[u] # t
      BY <1>1, <1>3, <2>2
    <3>2. flight[u] \in Thread /\ pc[flight[u]] \in Owning /\ key[flight[u]] = key[u]
      BY <3>1 DEF Runners, OneRunnerPerKey
    <3>3. pc'[flight[u]] = pc[flight[u]]
      BY <1>1, <1>3, <3>1, <3>2
    <3> QED BY <1>2, <3>1, <3>2, <3>3
  <2> QED BY <2>1, <2>2 DEF OneRunnerPerKey
<1>5. Table'
  <2> SUFFICES ASSUME NEW j \in Key, inflight'[j] # NoThread
               PROVE  pc'[inflight'[j]] \in Owning \cup {"pop"} /\ key'[inflight'[j]] = j
    BY DEF Table, Owns
  <2>1. /\ inflight[j] \in Thread /\ inflight'[j] = inflight[j]
        /\ pc[inflight[j]] \in Owning \cup {"pop"} /\ key[inflight[j]] = j
    BY <1>2 DEF Runners, Table, Owns, TypeOK
  <2> QED BY <1>1, <1>2, <1>3, <2>1
<1> QED BY <1>4, <1>5 DEF Runners

\* A runner that removes its flight leaves one runner per key.
LEMMA PopRunners ==
  ASSUME TypeOK, Runners, NEW t \in Thread, Pop(t)
  PROVE  Runners'
<1>1. /\ pc[t] = "pop" /\ "wait" # "pop" /\ "pop" \notin Owning
      /\ {"idle", "attach"} \cap (Owning \cup {"pop", "wait"}) = {}
  BY DEF Pop, At, Owning, Buying
<1>2. /\ UNCHANGED <<key, flight>>
      /\ pc'[t] \in {"idle", "attach"} /\ \A u \in Thread : u # t => pc'[u] = pc[u]
      /\ \A j \in Key : inflight'[j] = IF j = key[t] THEN NoThread ELSE inflight[j]
      /\ key[t] \in Key /\ \A u \in Thread : key[u] \in Key
  BY DEF Pop, Goto, TypeOK
<1>3. inflight[key[t]] = t
  BY <1>1 DEF Runners, OneRunnerPerKey
<1>4. OneRunnerPerKey'
  <2>1. ASSUME NEW u \in Thread, pc'[u] \in Owning \cup {"pop"} PROVE inflight'[key'[u]] = u
    <3>1. u # t /\ pc[u] \in Owning \cup {"pop"}
      BY <1>1, <1>2, <2>1
    <3>2. inflight[key[u]] = u
      BY <3>1 DEF Runners, OneRunnerPerKey
    <3> QED BY <1>2, <1>3, <3>1, <3>2
  <2>2. ASSUME NEW u \in Thread, pc'[u] = "wait"
        PROVE  flight'[u] \in Thread /\ pc'[flight'[u]] \in Owning /\ key'[flight'[u]] = key'[u]
    <3>1. u # t /\ pc[u] = "wait"
      BY <1>1, <1>2, <2>2
    <3>2. flight[u] \in Thread /\ pc[flight[u]] \in Owning /\ key[flight[u]] = key[u]
      BY <3>1 DEF Runners, OneRunnerPerKey
    <3> QED BY <1>1, <1>2, <3>2
  <2> QED BY <2>1, <2>2 DEF OneRunnerPerKey
<1>5. Table'
  <2> SUFFICES ASSUME NEW j \in Key, inflight'[j] # NoThread
               PROVE  pc'[inflight'[j]] \in Owning \cup {"pop"} /\ key'[inflight'[j]] = j
    BY DEF Table, Owns
  <2>1. /\ j # key[t] /\ inflight'[j] = inflight[j] /\ inflight[j] \in Thread
        /\ pc[inflight[j]] \in Owning \cup {"pop"} /\ key[inflight[j]] = j
    BY <1>2 DEF Runners, Table, Owns, TypeOK
  <2> QED BY <1>2, <2>1
<1> QED BY <1>4, <1>5 DEF Runners

\* Every step leaves one runner per key.
LEMMA RunnersStep == TypeOK /\ Runners /\ [Next]_vars => Runners'
<1> SUFFICES ASSUME TypeOK, Runners, [Next]_vars PROVE Runners'
  OBVIOUS
<1>1. CASE UNCHANGED vars
  BY <1>1 DEF vars, thread, shared, Runners, OneRunnerPerKey, Table, Owns
<1>2. CASE Restart
  <2>1. /\ \A t \in Thread : pc'[t] \notin Owning \cup {"pop", "wait"}
        /\ \A k \in Key : inflight'[k] = NoThread
    BY <1>2 DEF Restart, Owning, Buying
  <2> QED BY <2>1 DEF Runners, OneRunnerPerKey, Table
<1>3. CASE Tick
  BY <1>3 DEF Tick, thread, shared, Runners, OneRunnerPerKey, Table, Owns
<1>4. ASSUME NEW t \in Thread, (\E k \in Key : Enter(t, k)) \/ Runs(t) \/ PollSucceeds(t)
      PROVE  Runners'
  BY <1>4, EnterRunners, AnswerRunners, PopRunners, RunnerSteps, OutsiderSteps DEF Runs
<1> QED BY <1>1, <1>2, <1>3, <1>4 DEF Next
-----------------------------------------------------------------------------
(* Records come from a POST for their key.                                 *)

\* The history grows, and keeps the keys of its entries.
HistoryGrows ==
  /\ DOMAIN posts \subseteq DOMAIN posts'
  /\ \A i \in DOMAIN posts : posts'[i].key = posts[i].key

\* What was bought for a key stays bought: the history only grows.
LEMMA BoughtStays ==
  ASSUME HistoryGrows, NEW r, NEW k, Bought(r, k)
  PROVE  Bought(r, k)'
BY DEF HistoryGrows, Bought

\* The absent record needs no purchase.
LEMMA NothingIsBought == \A k : Bought(NoRecord, k) /\ Bought(NoRecord, k)'
BY DEF Bought, NoRecord

\* A thread that fails drops the record in its hand, and nobody else's.
LEMMA NothingInHand ==
  ASSUME NEW t \in Thread, Fail(t), TypeOK
  PROVE  hand'[t] = NoRecord /\ \A u \in Thread : u # t => hand'[u] = hand[u]
BY DEF Fail, Take, TypeOK

\* A step of thread t that keeps the records of the others.
LEMMA ThreadRecords ==
  ASSUME TypeOK, Records, HistoryGrows, NEW t \in Thread,
         \A k \in Key : /\ seed'[k] = seed[k] \/ Bought(seed[k], k)'
                        /\ tiles'[k] = tiles[k] \/ Bought(tiles[k], k)',
         \A u \in Thread : u # t => hand'[u] = hand[u] /\ key'[u] = key[u],
         (hand'[t] = hand[t] /\ key'[t] = key[t]) \/ Bought(hand[t], key[t])'
  PROVE  Records'
<1>1. ASSUME NEW k \in Key PROVE Bought(seed[k], k)' /\ Bought(tiles[k], k)'
  <2>1. Bought(seed[k], k) /\ Bought(tiles[k], k)
    BY DEF Records
  <2> QED BY <2>1 DEF HistoryGrows, Bought
<1>2. ASSUME NEW u \in Thread PROVE Bought(hand[u], key[u])'
  <2>1. Bought(hand[u], key[u])
    BY DEF Records
  <2> QED BY <2>1 DEF HistoryGrows, Bought
<1> QED BY <1>1, <1>2 DEF Records

\* A step that posts nothing lets the history grow, by nothing.
LEMMA QuietHistory == UNCHANGED posts => HistoryGrows
BY DEF HistoryGrows

\* The record names the purchase it was built from.
LEMMA NewRecordPost == \A k, post : NewRecord(k, post).post = post
BY DEF NewRecord

\* The steps of one thread that leave the history alone.
LEMMA QuietRecords ==
  ASSUME TypeOK, Runners, Records, NEW t \in Thread,
         \/ \E k \in Key : Enter(t, k)
         \/ Pop(t) \/ JoinTimesOut(t) \/ ReadSeed(t) \/ ReadTiles(t) \/ Unlink(t) \/ Reserve(t)
         \/ PollSucceeds(t) \/ PollFails(t) \/ ReadAgain(t) \/ PutSeed(t) \/ Attach(t) \/ Detach(t)
  PROVE  Records'
<1>1. UNCHANGED posts
  BY DEF Enter, Pop, JoinTimesOut, ReadSeed, ReadTiles, Unlink, Reserve, PollSucceeds, PollFails,
         ReadAgain, PutSeed, Attach, Detach
<1>2. HistoryGrows
  BY <1>1, QuietHistory
<1>3. \A r, k : Bought(r, k) => Bought(r, k)'
  BY <1>1 DEF Bought
<1>4. ASSUME NEW k \in Key, Enter(t, k) PROVE Records'
  <2> DEFINE owner == inflight[k]
             answered == owner # NoThread /\ pc[owner] = "pop"
  <2>1. /\ UNCHANGED <<seed, tiles>>
        /\ hand'[t] = IF answered THEN hand[owner] ELSE NoRecord
        /\ key'[t] = k
        /\ \A u \in Thread : u # t => hand'[u] = hand[u] /\ key'[u] = key[u]
    BY <1>4 DEF Enter, Take, TypeOK
  <2>2. answered => Bought(hand[owner], k)
    BY DEF Runners, Table, Records, TypeOK
  <2>3. Bought(hand[t], key[t])'
    BY <1>1, <2>1, <2>2 DEF Bought, NoRecord
  <2> QED BY <1>2, <2>1, <2>3, ThreadRecords
<1>5. CASE Pop(t) \/ JoinTimesOut(t) \/ PollSucceeds(t) \/ Attach(t)
  BY <1>1, <1>5 DEF Pop, JoinTimesOut, PollSucceeds, Attach, shared, Records, Bought
<1>6. CASE Unlink(t) \/ ReadAgain(t) \/ Detach(t)
  <2>1. /\ UNCHANGED <<seed, hand, key>>
        /\ \A k \in Key : tiles'[k] = tiles[k] \/ tiles'[k] = NoRecord
    BY <1>6 DEF Unlink, ReadAgain, Detach, TypeOK
  <2> QED BY <1>2, <2>1, NothingIsBought, ThreadRecords
<1>7. CASE ReadSeed(t) \/ ReadTiles(t)
  <2>1. /\ UNCHANGED <<tiles, key>>
        /\ \A k \in Key : seed'[k] = seed[k] \/ seed'[k] = NoRecord
        /\ \A u \in Thread : u # t => hand'[u] = hand[u]
        /\ hand'[t] \in {hand[t], seed[key[t]], tiles[key[t]]}
    BY <1>7 DEF ReadSeed, ReadTiles, Take, TypeOK, shared
  <2>2. Bought(seed[key[t]], key[t]) /\ Bought(tiles[key[t]], key[t])
    BY DEF Records, TypeOK
  <2>3. hand'[t] = hand[t] \/ Bought(hand[t], key[t])'
    BY <1>1, <2>1, <2>2 DEF Bought
  <2> QED BY <1>2, <2>1, <2>3, NothingIsBought, ThreadRecords
<1>8. CASE Reserve(t) \/ PollFails(t)
  <2>1. /\ UNCHANGED <<seed, tiles, key>>
        /\ UNCHANGED hand \/ Fail(t)
    BY <1>8 DEF Reserve, PollFails, shared
  <2> QED BY <1>2, <2>1, NothingInHand, NothingIsBought, ThreadRecords
<1>9. CASE PutSeed(t)
  <2>1. /\ UNCHANGED <<tiles, key, hand>>
        /\ \A k \in Key : seed'[k] = IF k = key[t] THEN NewRecord(key[t], hand[t].post) ELSE seed[k]
    BY <1>9 DEF PutSeed, TypeOK
  <2>2. Bought(hand[t], key[t])
    BY DEF Records
  <2>3. ASSUME NEW k \in Key PROVE seed'[k] = seed[k] \/ Bought(seed[k], k)'
    BY <1>1, <2>1, <2>2, NewRecordPost DEF Bought
  <2> QED BY <1>2, <2>1, <2>3, ThreadRecords
<1> QED BY <1>4, <1>5, <1>6, <1>7, <1>8, <1>9

\* A POST keeps every record the result of a purchase for its key.
LEMMA PostRecords ==
  ASSUME TypeOK, Records, NEW t \in Thread, Post(t)
  PROVE  Records'
<1> DEFINE purchase == [key |-> key[t], day |-> day[t], life |-> life, at |-> now]
<1>0. posts \in Seq(Purchase)
  BY DEF TypeOK, Purchase
<1>1. /\ UNCHANGED <<seed, tiles, key>>
      /\ posts' = Append(posts, purchase) /\ purchase.key = key[t]
      /\ \/ Take(t, [post |-> Len(posts) + 1, at |-> now, ttl |-> FALSE])
         \/ Fail(t)
  BY DEF Post, shared
<1> HIDE DEF purchase
<1>2. /\ HistoryGrows
      /\ Len(posts) + 1 \in DOMAIN posts' /\ posts'[Len(posts) + 1].key = key[t]
  BY <1>0, <1>1 DEF HistoryGrows
<1>3. CASE Fail(t)
  BY <1>1, <1>2, <1>3, NothingInHand, NothingIsBought, ThreadRecords
<1>4. CASE Take(t, [post |-> Len(posts) + 1, at |-> now, ttl |-> FALSE])
  <2>1. hand'[t].post = Len(posts) + 1 /\ \A u \in Thread : u # t => hand'[u] = hand[u]
    BY <1>4 DEF Take, TypeOK
  <2>2. Bought(hand[t], key[t])'
    BY <1>1, <1>2, <2>1 DEF Bought
  <2> QED BY <1>1, <1>2, <2>1, <2>2, ThreadRecords
<1> QED BY <1>1, <1>3, <1>4

\* So does put.
LEMMA PutRecords ==
  ASSUME TypeOK, Records, NEW t \in Thread, Put(t)
  PROVE  Records'
<1>0. PICK r : r = NewRecord(key[t], hand[t].post)
  OBVIOUS
<1>1. r.post = hand[t].post /\ Bought(hand[t], key[t])
  BY <1>0, NewRecordPost DEF Records
<1>2. Bought(r, key[t])
  BY <1>1 DEF Bought
<1>3. /\ tiles' = [tiles EXCEPT ![key[t]] = r]
      /\ Take(t, r) \/ Fail(t)
      /\ UNCHANGED <<key, seed, posts>>
  BY <1>0 DEF Put
<1>4. HistoryGrows
  BY <1>3, QuietHistory
<1>5. Bought(r, key[t])'
  BY <1>2, <1>3, <1>4 DEF HistoryGrows, Bought
<1>6. \A k \in Key : tiles'[k] = IF k = key[t] THEN r ELSE tiles[k]
  BY <1>3 DEF TypeOK
<1>7. CASE Fail(t)
  BY <1>3, <1>4, <1>5, <1>6, <1>7, NothingInHand, NothingIsBought, ThreadRecords DEF Bought
<1>8. CASE Take(t, r)
  <2>1. hand'[t] = r /\ \A u \in Thread : u # t => hand'[u] = hand[u]
    BY <1>8 DEF Take, TypeOK
  <2> QED BY <1>3, <1>4, <1>5, <1>6, <2>1, ThreadRecords DEF Bought
<1> QED BY <1>3, <1>7, <1>8

\* So does every step.
LEMMA RecordsStep == TypeOK /\ Runners /\ Records /\ [Next]_vars => Records'
<1> SUFFICES ASSUME TypeOK, Runners, Records, [Next]_vars PROVE Records'
  OBVIOUS
<1>1. CASE UNCHANGED vars
  BY <1>1 DEF vars, thread, shared, Records, Bought
<1>2. CASE Restart
  <2>1. UNCHANGED <<key, seed, tiles, posts>> /\ \A t \in Thread : hand'[t] = NoRecord
    BY <1>2 DEF Restart
  <2> QED BY <2>1, NothingIsBought DEF Records, Bought
<1>3. CASE Tick
  BY <1>3 DEF Tick, thread, shared, Records, Bought
<1>4. ASSUME NEW t \in Thread, Answer(t) PROVE Records'
  <2>1. /\ UNCHANGED <<key, seed, tiles, posts>>
        /\ \A u \in Thread : \/ hand'[u] = hand[u]
                             \/ pc[u] = "wait" /\ flight[u] = t /\ hand'[u] = hand[t]
    BY <1>4 DEF Answer, shared
  <2>2. \A u \in Thread : Bought(hand'[u], key[u])
    BY <2>1 DEF Runners, OneRunnerPerKey, Records
  <2> QED BY <2>1, <2>2 DEF Records, Bought
<1>5. ASSUME NEW t \in Thread,
             (\E k \in Key : Enter(t, k)) \/ (Runs(t) /\ ~Answer(t)) \/ PollSucceeds(t)
      PROVE  Records'
  BY <1>5, QuietRecords, PostRecords, PutRecords DEF Runs
<1> QED BY <1>1, <1>2, <1>3, <1>4, <1>5 DEF Next, Runs
-----------------------------------------------------------------------------
(* Nothing is bought while the Type-1 record is fresh.                     *)

Buyers == Buying \cup {"tiles", "unlink"}

\* Time only makes records stale: what is fresh later is fresh now.
LEMMA FreshFalls ==
  ASSUME NEW r \in Record, now \in Nat, now' = now \/ now' = now + 1, Fresh(r)'
  PROVE  Fresh(r)
<1>1. r.ttl \in BOOLEAN /\ r.at \in Nat
  BY DEF Record
<1> QED BY <1>1 DEF Fresh, Expired

\* No step buys what a fresh record in hand would serve.
LEMMA ServedStep ==
  TypeOK /\ Runners /\ ServedIsNotRebought /\ [Next]_vars => ServedIsNotRebought'
<1> SUFFICES ASSUME TypeOK, Runners, ServedIsNotRebought, [Next]_vars,
                    NEW u \in Thread, pc'[u] \in Buyers
             PROVE  ~Fresh(seed[key[u]])'
  BY DEF ServedIsNotRebought, Buyers
<1>0. /\ "seed" \notin Buyers /\ "wait" \notin Buyers /\ "idle" \notin Buyers
      /\ "attach" \notin Buyers /\ "detach" \notin Buyers /\ "pop" \notin Buyers
      /\ "done" \notin Buyers /\ "again" \notin Buyers /\ "seedput" \notin Buyers
  BY DEF Buyers, Buying
<1>1. pc[u] \in Buyers => ~Fresh(seed[key[u]])
  BY DEF ServedIsNotRebought, Buyers
<1>2. now \in Nat /\ seed[key[u]] \in Record
  BY DEF TypeOK
<1>3. now' = now \/ now' = now + 1
  BY DEF Next, Runs, Enter, Answer, Pop, JoinTimesOut, ReadSeed, ReadTiles, Unlink, Reserve, Post,
         PollSucceeds, PollFails, Put, ReadAgain, PutSeed, Attach, Detach, Restart, Tick, vars
<1>4. ASSUME pc[u] \in Buyers, key'[u] = key[u], seed'[key[u]] = seed[key[u]]
      PROVE  ~Fresh(seed[key[u]])'
  <2>1. PICK r \in Record : r = seed[key[u]]
    BY <1>2
  <2>2. seed'[key'[u]] = r
    BY <1>4, <2>1
  <2>3. Fresh(r)' => Fresh(r)
    BY <1>2, <1>3, FreshFalls
  <2>4. ~Fresh(r)
    BY <1>1, <1>4, <2>1
  <2> QED BY <2>2, <2>3, <2>4 DEF Fresh, Expired
<1>5. ASSUME NEW t \in Thread, NEW k \in Key, Enter(t, k) PROVE ~Fresh(seed[key[u]])'
  <2>1. u # t
    BY <1>0, <1>5 DEF Enter, Goto, TypeOK
  <2> QED BY <1>4, <1>5, <2>1 DEF Enter, Goto, TypeOK
<1>6. ASSUME NEW t \in Thread, Answer(t) PROVE ~Fresh(seed[key[u]])'
  <2>1. pc'[u] = pc[u]
    BY <1>0, <1>6 DEF Answer
  <2> QED BY <1>4, <1>6, <2>1 DEF Answer, shared
<1>7. ASSUME NEW t \in Thread, Pop(t) \/ JoinTimesOut(t) \/ Attach(t) \/ Detach(t)
      PROVE  ~Fresh(seed[key[u]])'
  <2>1. pc'[u] = pc[u]
    BY <1>0, <1>7 DEF Pop, JoinTimesOut, Attach, Detach, Goto, TypeOK
  <2> QED BY <1>4, <1>7, <2>1 DEF Pop, JoinTimesOut, Attach, Detach, shared
<1>8. ASSUME NEW t \in Thread, ReadSeed(t) PROVE ~Fresh(seed[key[u]])'
  <2>1. \A k \in Key : seed'[k] = seed[k] \/ seed'[k] = NoRecord
    BY <1>8 DEF ReadSeed, TypeOK
  <2>2. key' = key /\ key[u] \in Key
    BY <1>8 DEF ReadSeed, TypeOK
  <2>3. CASE seed'[key[u]] = NoRecord
    BY <2>2, <2>3 DEF Fresh
  <2>4. CASE u = t /\ seed'[key[u]] # NoRecord
    BY <1>0, <1>8, <2>2, <2>4 DEF ReadSeed, Goto, TypeOK
  <2>5. CASE u # t /\ seed'[key[u]] # NoRecord
    <3>1. pc'[u] = pc[u]
      BY <1>8, <2>5 DEF ReadSeed, Goto, TypeOK
    <3> QED BY <1>4, <2>1, <2>2, <2>5, <3>1
  <2> QED BY <2>3, <2>4, <2>5
<1>9. ASSUME NEW t \in Thread,
             \/ ReadTiles(t) \/ Unlink(t) \/ Reserve(t) \/ Post(t) \/ PollSucceeds(t)
             \/ PollFails(t) \/ Put(t) \/ ReadAgain(t)
      PROVE  ~Fresh(seed[key[u]])'
  <2>1. /\ UNCHANGED <<key, seed>>
        /\ \A v \in Thread : v # t => pc'[v] = pc[v]
    BY <1>9 DEF ReadTiles, Unlink, Reserve, Post, PollSucceeds, PollFails, Put, ReadAgain, Fail,
                Goto, TypeOK, shared
  <2>2. pc'[t] \in Buyers => pc[t] \in Buyers
    BY <1>0, <1>9 DEF ReadTiles, Unlink, Reserve, Post, PollSucceeds, PollFails, Put, ReadAgain,
                      Fail, Goto, At, TypeOK, Buyers, Buying
  <2> QED BY <1>4, <2>1, <2>2
<1>10. ASSUME NEW t \in Thread, PutSeed(t) PROVE ~Fresh(seed[key[u]])'
  <2>1. u # t /\ pc'[u] = pc[u]
    BY <1>0, <1>10 DEF PutSeed, Goto, TypeOK
  <2>2. key[u] # key[t]
    <3>1. pc[u] \in Owning /\ pc[t] \in Owning
      BY <1>10, <2>1 DEF PutSeed, At, Owning, Buyers
    <3> QED BY <2>1, <3>1 DEF Runners, OneRunnerPerKey
  <2>3. key'[u] = key[u] /\ seed'[key[u]] = seed[key[u]]
    BY <1>10, <2>2 DEF PutSeed, TypeOK
  <2> QED BY <1>4, <2>1, <2>3
<1>11. CASE Restart
  BY <1>0, <1>11 DEF Restart
<1>12. CASE Tick \/ UNCHANGED vars
  BY <1>4, <1>12 DEF Tick, vars, thread, shared
<1> QED BY <1>5, <1>6, <1>7, <1>8, <1>9, <1>10, <1>11, <1>12 DEF Next, Runs
-----------------------------------------------------------------------------
(* The daily allowance.                                                    *)

\* The purchases of a day are finitely many.
LEMMA SentIsFinite ==
  ASSUME TypeOK, NEW d
  PROVE  IsFiniteSet(Sent(d)) /\ Cardinality(Sent(d)) \in Nat
<1>1. DOMAIN posts = 1 .. Len(posts) /\ Len(posts) \in Nat
  BY DEF TypeOK
<1>2. IsFiniteSet(DOMAIN posts)
  BY <1>1, FS_Interval
<1> QED BY <1>2, FS_Subset, FS_CardinalityType DEF Sent

\* A step that moves no thread to or from its POST.
LEMMA QuietAllowance ==
  ASSUME Allowance, UNCHANGED <<life, used>>, DOMAIN posts' = DOMAIN posts,
         \A i \in DOMAIN posts : posts'[i].day = posts[i].day /\ posts'[i].life = posts[i].life,
         \A t \in Thread : /\ pc'[t] = "post" <=> pc[t] = "post"
                           /\ pc[t] = "post" => day'[t] = day[t]
  PROVE  Allowance'
<1>1. ASSUME NEW d \in Days PROVE Sent(d)' = Sent(d) /\ Reserved(d)' = Reserved(d)
  BY DEF Sent, Reserved
<1> QED BY <1>1 DEF Allowance, Counted

\* try_reserve under the counter's lock keeps the day's allowance.
LEMMA ReserveAllowance ==
  ASSUME TypeOK, Allowance, NEW t \in Thread, Reserve(t)
  PROVE  Allowance'
<1>1. pc[t] = "reserve" /\ UNCHANGED <<life, posts>>
  BY DEF Reserve, At, shared
<1>2. CASE used[Day] >= DailyLimit
  BY <1>1, <1>2, QuietAllowance DEF Reserve, Fail, Goto, TypeOK
<1>3. CASE ~(used[Day] >= DailyLimit)
  <2>1. /\ \A u \in Thread : pc'[u] = IF u = t THEN "post" ELSE pc[u]
        /\ \A u \in Thread : day'[u] = IF u = t THEN Day ELSE day[u]
        /\ \A d \in Days : used'[d] = IF d = Day THEN used[d] + 1 ELSE used[d]
    BY <1>3 DEF Reserve, Goto, TypeOK
  <2>2. ASSUME NEW d \in Days PROVE Counted(d)'
    <3>1. Sent(d)' = Sent(d) /\ Counted(d) /\ used[d] \in Nat
      BY <1>1 DEF Sent, Allowance, TypeOK
    <3>2. CASE d = Day
      <4>1. Reserved(d)' = Reserved(d) \cup {t} /\ t \notin Reserved(d)
        BY <1>1, <2>1, <3>2 DEF Reserved
      <4>2. /\ IsFiniteSet(Reserved(d)') /\ Cardinality(Reserved(d)) \in Nat
            /\ Cardinality(Reserved(d)') = Cardinality(Reserved(d)) + 1
        BY <3>1, <4>1, FS_AddElement, FS_CardinalityType DEF Counted
      <4>3. used'[d] = used[d] + 1
        BY <2>1, <3>2
      <4> QED BY <3>1, <4>2, <4>3, SentIsFinite DEF Counted
    <3>3. CASE d # Day
      <4>1. Reserved(d)' = Reserved(d)
        BY <1>1, <2>1, <3>3 DEF Reserved
      <4> QED BY <2>1, <3>1, <3>3, <4>1 DEF Counted
    <3> QED BY <3>2, <3>3
  <2> QED BY <1>1, <2>2 DEF Allowance
<1> QED BY <1>2, <1>3

\* A POST turns a reservation into a purchase of the same day's allowance, or of the next.
LEMMA PostAllowance ==
  ASSUME TypeOK, Allowance, NEW t \in Thread, Post(t)
  PROVE  Allowance'
<1> DEFINE purchase == [key |-> key[t], day |-> day[t], life |-> life, at |-> now]
<1>0. posts \in Seq(Purchase) /\ life \in Nat
  BY DEF TypeOK, Purchase
<1>1. /\ pc[t] = "post" /\ UNCHANGED <<life, day, used>>
      /\ \A u \in Thread : pc'[u] = "post" <=> u # t /\ pc[u] = "post"
  BY DEF Post, At, Goto, Fail, TypeOK, shared
<1>2. posts' = Append(posts, purchase) /\ purchase.day = day[t] /\ purchase.life = life
  BY DEF Post
<1> HIDE DEF purchase
<1>3. /\ DOMAIN posts' = DOMAIN posts \cup {Len(posts) + 1} /\ Len(posts) + 1 \notin DOMAIN posts
      /\ posts'[Len(posts) + 1] = purchase
      /\ \A i \in DOMAIN posts : posts'[i] = posts[i]
  BY <1>0, <1>2
<1>4. ASSUME NEW d \in Days PROVE Counted(d)'
  <2>1. Counted(d) /\ IsFiniteSet(Sent(d)) /\ Cardinality(Sent(d)) \in Nat
        /\ Cardinality(Reserved(d)) \in Nat /\ used[d] \in Nat
    BY SentIsFinite, FS_CardinalityType DEF Allowance, Counted, TypeOK
  <2>2. CASE d = day[t]
    <3>1. Reserved(d)' = Reserved(d) \ {t} /\ t \in Reserved(d)
      BY <1>1, <2>2 DEF Reserved
    <3>2. Sent(d)' = Sent(d) \cup {Len(posts) + 1} /\ Len(posts) + 1 \notin Sent(d)
      BY <1>1, <1>2, <1>3, <2>2 DEF Sent
    <3>3. /\ IsFiniteSet(Reserved(d)')
          /\ Cardinality(Reserved(d)') = Cardinality(Reserved(d)) - 1
      BY <2>1, <3>1, FS_RemoveElement DEF Counted
    <3>4. Cardinality(Sent(d)') = Cardinality(Sent(d)) + 1
      BY <2>1, <3>2, FS_AddElement
    <3> QED BY <1>1, <2>1, <3>3, <3>4 DEF Counted
  <2>3. CASE d # day[t]
    <3>1. Reserved(d)' = Reserved(d)
      BY <1>1, <2>3 DEF Reserved
    <3>2. Sent(d)' = Sent(d)
      BY <1>1, <1>2, <1>3, <2>3 DEF Sent
    <3> QED BY <1>1, <2>1, <3>1, <3>2 DEF Counted
  <2> QED BY <2>2, <2>3
<1>5. \A i \in DOMAIN posts' : posts'[i].life <= life'
  BY <1>0, <1>1, <1>2, <1>3 DEF Allowance
<1> QED BY <1>4, <1>5 DEF Allowance

\* Every step keeps the day's allowance.
LEMMA AllowanceStep == TypeOK /\ Allowance /\ [Next]_vars => Allowance'
<1> SUFFICES ASSUME TypeOK, Allowance, [Next]_vars PROVE Allowance'
  OBVIOUS
<1>1. CASE Tick \/ UNCHANGED vars
  BY <1>1, QuietAllowance DEF Tick, vars, thread, shared
<1>2. CASE Restart
  <2>1. /\ life' = life + 1 /\ life \in Nat /\ UNCHANGED posts
        /\ \A t \in Thread : pc'[t] # "post" /\ \A d \in Days : used'[d] = 0
    BY <1>2 DEF Restart, TypeOK
  <2>2. ASSUME NEW i \in DOMAIN posts PROVE posts[i].life <= life /\ posts[i].life \in Nat
    <3>1. posts \in Seq(Purchase)
      BY DEF TypeOK, Purchase
    <3>2. posts[i] \in Purchase
      BY <3>1
    <3> QED BY <3>2 DEF Allowance, Purchase
  <2>3. ASSUME NEW d \in Days PROVE Counted(d)'
    <3>1. Sent(d)' = {} /\ Reserved(d)' = {} /\ used'[d] = 0
      BY <1>2, <2>1, <2>2 DEF Sent, Reserved, Restart
    <3> QED BY <3>1, FS_EmptySet DEF Counted
  <2> QED BY <2>1, <2>2, <2>3 DEF Allowance
<1>3. ASSUME NEW t \in Thread,
             \/ \E k \in Key : Enter(t, k)
             \/ Pop(t) \/ JoinTimesOut(t) \/ ReadSeed(t) \/ ReadTiles(t) \/ Unlink(t)
             \/ PollSucceeds(t) \/ PollFails(t) \/ Put(t) \/ ReadAgain(t) \/ PutSeed(t)
             \/ Attach(t) \/ Detach(t)
      PROVE  Allowance'
  <2>1. UNCHANGED <<life, used, posts, day>>
    BY <1>3 DEF Enter, Pop, JoinTimesOut, ReadSeed, ReadTiles, Unlink, PollSucceeds, PollFails, Put,
                ReadAgain, PutSeed, Attach, Detach, shared
  <2>2. pc[t] # "post"
    BY <1>3 DEF Enter, Pop, JoinTimesOut, ReadSeed, ReadTiles, Unlink, PollSucceeds, PollFails, Put,
                ReadAgain, PutSeed, Attach, Detach, At
  <2>3. PICK s \in Step \ {"post"} : Goto(t, s)
    BY <1>3, StepNames
       DEF Enter, Pop, JoinTimesOut, ReadSeed, ReadTiles, Unlink, PollSucceeds, PollFails, Put,
           ReadAgain, PutSeed, Attach, Detach, Fail
  <2>4. \A u \in Thread : pc'[u] = "post" <=> pc[u] = "post"
    BY <2>2, <2>3 DEF Goto, TypeOK
  <2> QED BY <2>1, <2>4, QuietAllowance
<1>4. ASSUME NEW t \in Thread, Answer(t) PROVE Allowance'
  <2>1. UNCHANGED <<life, used, posts, day>>
    BY <1>4 DEF Answer, shared
  <2>2. \A u \in Thread : pc'[u] = "post" <=> pc[u] = "post"
    BY <1>4 DEF Answer, At
  <2> QED BY <2>1, <2>2, QuietAllowance
<1> QED BY <1>1, <1>2, <1>3, <1>4, ReserveAllowance, PostAllowance DEF Next, Runs

-----------------------------------------------------------------------------

\* The inductive invariant holds throughout.
LEMMA InvariantHolds == Spec => []IInv
<1>1. IInv /\ [Next]_vars => IInv'
  BY TypeStep, RunnersStep, RecordsStep, ServedStep, AllowanceStep DEF IInv, Runners
<1> QED BY <1>1, InitInvariant, PTL DEF Spec

\* The table, the caches, the counter and the history keep their types; the
\* counter of a day never passes the configured limit.
THEOREM TypeCorrect == Spec => []TypeOK
<1>1. IInv => TypeOK
  BY DEF IInv
<1> QED BY <1>1, InvariantHolds, PTL

\* _with_single_flight: one runner per key, however many requests arrive.
THEOREM OneRunner == Spec => []OneRunnerPerKey
<1>1. IInv => OneRunnerPerKey
  BY DEF IInv
<1> QED BY <1>1, InvariantHolds, PTL

\* Whoever joins a flight is answered from a POST for its own request.
THEOREM AnswersOfTheirKey == Spec => []AnswersAreOfTheirKey
<1>1. IInv => AnswersAreOfTheirKey
  BY DEF IInv, Records, Bought, AnswersAreOfTheirKey
<1> QED BY <1>1, InvariantHolds, PTL

\* run_type1_live: no purchase while the Type-1 record of the request is fresh.
THEOREM FreshRecordsServe == Spec => []ServedIsNotRebought
<1>1. IInv => ServedIsNotRebought
  BY DEF IInv
<1> QED BY <1>1, InvariantHolds, PTL

\* _reserve_submission: the POSTs of a day in one life stay within the limit.
THEOREM DailyAllowance == Spec => []AllowancePerDay
<1>1. IInv => AllowancePerDay
  <2> SUFFICES ASSUME TypeOK, Allowance, NEW d \in Days
               PROVE  Cardinality(Sent(d)) <= DailyLimit
    BY DEF IInv, AllowancePerDay, Sent
  <2>1. /\ Cardinality(Sent(d)) \in Nat /\ Cardinality(Reserved(d)) \in Nat
        /\ Cardinality(Sent(d)) + Cardinality(Reserved(d)) <= used[d]
        /\ used[d] \in 0 .. DailyLimit
    BY SentIsFinite, FS_CardinalityType DEF Allowance, Counted, TypeOK
  <2> QED BY <2>1
<1> QED BY <1>1, InvariantHolds, PTL
=============================================================================
