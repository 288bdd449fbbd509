------------------------ MODULE DemoAllowanceProofs ------------------------
(***************************************************************************)
(* What the demo-allowance store keeps for any number of callers, requests,*)
(* units and rows, and for any policy window, zone and time to live.       *)
(***************************************************************************)
EXTENDS DemoAllowance, FiniteSetTheorems, TLAPS

USE NumbersAssumption, RequestAssumption

Held == {"RESERVED", "CONSUMED"}
OpenSet(rows) == {i \in DOMAIN rows : rows[i].state = "RESERVED"}

\* What the capacity checks keep of a table.
Bounded(rows) ==
  /\ Cardinality(OpenSet(rows)) <= MaxOpen
  /\ HeldUnits(rows) <= MaxUnits
  /\ \A i, j \in OpenSet(rows) : rows[i].request.fp = rows[j].request.fp => i = j

\* A table that follows from another by settling open rows.
Follows(new, old) ==
  /\ new \in Seq(Reservation) /\ Len(new) = Len(old)
  /\ \A i \in 1..Len(old) :
       \/ new[i] = old[i]
       \/ /\ old[i].state = "RESERVED" /\ new[i].state \in Settled
          /\ new[i].request = old[i].request

\* A caller that is about to pay holds a consumed row of its plan, unpaid yet,
\* and no other caller is about to pay with it.
Paying ==
  /\ \A c \in Caller : At(c, "post") =>
       /\ Row(c).state = "CONSUMED" /\ Row(c).request = Aim(c)
       /\ posts[call[c].held] = <<>>
  /\ \A c, d \in Caller :
       At(c, "post") /\ At(d, "post") /\ call[c].held = call[d].held => c = d

IInv == TypeOK /\ Bounded(reservations) /\ PostsAreCovered /\ ConsumedInTime /\ Paying

-----------------------------------------------------------------------------
(* Tables.                                                                 *)

\* A held slot is a unit of a row that is RESERVED or CONSUMED.
LEMMA SlotsOfRows ==
  ASSUME NEW rows, NEW s
  PROVE  s \in HeldSlots(rows) <=>
           \E i \in DOMAIN rows : rows[i].state \in Held /\ s \in {i} \X (1..rows[i].request.units)
BY DEF HeldSlots, Held

\* 1..n is finite and has n members.
LEMMA Intervals ==
  ASSUME NEW n \in Nat
  PROVE  IsFiniteSet(1..n) /\ Cardinality(1..n) = n
<1>1. 1 \in Int /\ n \in Int
  OBVIOUS
<1>2. IsFiniteSet(1..n) /\ Cardinality(1..n) = IF 1 > n THEN 0 ELSE n - 1 + 1
  BY <1>1, FS_Interval
<1> QED BY <1>2

\* A table has finitely many open rows and held units.
LEMMA FiniteTables ==
  ASSUME NEW rows \in Seq(Reservation)
  PROVE  IsFiniteSet(OpenSet(rows)) /\ IsFiniteSet(HeldSlots(rows))
<1>1. IsFiniteSet(1..Len(rows))
  BY Intervals
<1>2. DOMAIN rows = 1..Len(rows)
  OBVIOUS
<1>3. IsFiniteSet(OpenSet(rows))
  BY <1>1, <1>2, FS_Subset DEF OpenSet
<1> DEFINE held == {j \in DOMAIN rows : rows[j].state \in {"RESERVED", "CONSUMED"}}
           parts == {{i} \X (1..rows[i].request.units) : i \in held}
<1>4. IsFiniteSet(held)
  BY <1>1, <1>2, FS_Subset
<1>5. IsFiniteSet(parts)
  <2> DEFINE part == [i \in held |-> {i} \X (1..rows[i].request.units)]
  <2>1. part \in [held -> parts] /\ \A p \in parts : \E i \in held : part[i] = p
    OBVIOUS
  <2> HIDE DEF part, parts, held
  <2>2. part \in Surjection(held, parts)
    BY <2>1 DEF Surjection
  <2> QED BY <1>4, <2>2, FS_Surjection
<1>6. ASSUME NEW i \in held PROVE IsFiniteSet({i} \X (1..rows[i].request.units))
  <2>1. rows[i] \in Reservation
    BY <1>2
  <2>2. rows[i].request.units \in Nat
    BY <2>1 DEF Reservation
  <2> DEFINE units == rows[i].request.units
  <2> HIDE DEF units
  <2>3. units \in Nat
    BY <2>2 DEF units
  <2>4. IsFiniteSet(1..units)
    BY <2>3, Intervals
  <2>5. IsFiniteSet({i})
    BY FS_Singleton
  <2> QED BY <2>4, <2>5, FS_Product DEF units
<1>7. IsFiniteSet(UNION parts)
  <2>1. \A part \in parts : IsFiniteSet(part)
    BY <1>6
  <2> HIDE DEF parts
  <2> QED BY <1>5, <2>1, FS_UNION
<1> QED BY <1>3, <1>7 DEF HeldSlots

\* Settling rows frees capacity and never takes any.
LEMMA FollowsBounded ==
  ASSUME NEW old \in Seq(Reservation), NEW new, Follows(new, old), Bounded(old)
  PROVE  Bounded(new)
<1>1. new \in Seq(Reservation) /\ DOMAIN new = 1..Len(old) /\ DOMAIN old = 1..Len(old)
  BY DEF Follows
<1>2. \A i \in DOMAIN old : new[i].request = old[i].request
  BY <1>1 DEF Follows
<1>3. OpenSet(new) \subseteq OpenSet(old)
  BY <1>1 DEF Follows, OpenSet, Settled
<1>4. HeldSlots(new) \subseteq HeldSlots(old)
  <2> SUFFICES ASSUME NEW s \in HeldSlots(new) PROVE s \in HeldSlots(old)
    OBVIOUS
  <2>1. PICK i \in DOMAIN new :
          new[i].state \in Held /\ s \in {i} \X (1..new[i].request.units)
    BY SlotsOfRows
  <2>2. i \in DOMAIN old /\ old[i].state \in Held /\ old[i].request = new[i].request
    BY <1>1, <1>2, <2>1 DEF Follows, Held
  <2> QED BY <2>1, <2>2, SlotsOfRows
<1>5. Cardinality(OpenSet(new)) <= Cardinality(OpenSet(old))
  BY <1>3, FiniteTables, FS_Subset
<1>6. Cardinality(HeldSlots(new)) <= Cardinality(HeldSlots(old))
  BY <1>4, FiniteTables, FS_Subset
<1>7. /\ Cardinality(OpenSet(new)) \in Nat /\ Cardinality(OpenSet(old)) \in Nat
      /\ Cardinality(HeldSlots(new)) \in Nat /\ Cardinality(HeldSlots(old)) \in Nat
  BY <1>1, FiniteTables, FS_CardinalityType
<1>8. Cardinality(OpenSet(new)) <= MaxOpen /\ HeldUnits(new) <= MaxUnits
  BY <1>5, <1>6, <1>7 DEF Bounded, HeldUnits
<1>9. \A i, j \in OpenSet(new) : new[i].request.fp = new[j].request.fp => i = j
  <2>1. \A i \in OpenSet(new) : i \in OpenSet(old) /\ new[i].request = old[i].request
    BY <1>2, <1>3 DEF OpenSet
  <2> QED BY <2>1 DEF Bounded
<1> QED BY <1>8, <1>9 DEF Bounded

\* What try_reserve inserts is a reservation.
LEMMA NewRowIsRow ==
  ASSUME NEW r \in Request, NEW t \in Nat
  PROVE  NewRow(r, t) \in Reservation
<1>1. ExpiresAt(t) \in Nat
  BY DEF ExpiresAt
<1> QED BY <1>1 DEF NewRow, Reservation, Never

\* With room for it and no open row of its fingerprint, a row may be inserted.
LEMMA InsertBounded ==
  ASSUME NEW rows \in Seq(Reservation), NEW r \in Request, NEW t \in Nat,
         Bounded(rows), HasRoom(rows, r), Open(rows, r) = {}
  PROVE  Bounded(Append(rows, NewRow(r, t)))
<1> DEFINE n == Len(rows) + 1
           new == Append(rows, NewRow(r, t))
<1>1. /\ n \in Nat /\ new \in Seq(Reservation) /\ Len(new) = n
      /\ new[n] = NewRow(r, t)
      /\ \A i \in 1..Len(rows) : new[i] = rows[i]
  BY NewRowIsRow
<1>2. DOMAIN new = (DOMAIN rows) \cup {n} /\ n \notin DOMAIN rows /\ DOMAIN rows = 1..Len(rows)
  BY <1>1
<1>3. new[n].request = r /\ new[n].state = "RESERVED"
  BY <1>1 DEF NewRow
<1> HIDE DEF new, n
<1>4. OpenSet(new) = OpenSet(rows) \cup {n} /\ n \notin OpenSet(rows)
  BY <1>1, <1>2, <1>3 DEF OpenSet
<1>5. Cardinality(OpenSet(new)) <= MaxOpen
  <2>1. Cardinality(OpenSet(new)) = Cardinality(OpenSet(rows)) + 1
    BY <1>4, FiniteTables, FS_AddElement
  <2>2. Cardinality(OpenSet(rows)) \in Nat
    BY FiniteTables, FS_CardinalityType
  <2>3. Cardinality(OpenSet(rows)) < MaxOpen
    BY DEF HasRoom, OpenRows, OpenSet
  <2> QED BY <2>1, <2>2, <2>3
<1> DEFINE added == {n} \X (1..r.units)
<1>6. HeldSlots(new) = HeldSlots(rows) \cup added
  <2>1. ASSUME NEW s PROVE s \in HeldSlots(new) <=> s \in HeldSlots(rows) \/ s \in added
    <3>1. s \in HeldSlots(new) <=>
            \E i \in DOMAIN new : new[i].state \in Held /\ s \in {i} \X (1..new[i].request.units)
      BY SlotsOfRows
    <3>2. s \in HeldSlots(rows) <=>
            \E i \in DOMAIN rows : rows[i].state \in Held /\ s \in {i} \X (1..rows[i].request.units)
      BY SlotsOfRows
    <3> QED BY <1>1, <1>2, <1>3, <3>1, <3>2 DEF Held
  <2> QED BY <2>1
<1>7. Cardinality(added) = r.units /\ IsFiniteSet(added)
  <2>1. r.units \in Nat
    OBVIOUS
  <2>2. IsFiniteSet({n}) /\ Cardinality({n}) = 1
    BY FS_Singleton
  <2>3. IsFiniteSet(1..r.units) /\ Cardinality(1..r.units) = r.units
    BY <2>1, Intervals
  <2> DEFINE slots == 1..r.units
  <2>4. IsFiniteSet(slots) /\ added = {n} \X slots
    BY <2>3
  <2> HIDE DEF slots, added
  <2>5. IsFiniteSet({n} \X slots) /\ Cardinality({n} \X slots) = Cardinality({n}) * Cardinality(slots)
    BY <2>2, <2>4, FS_Product
  <2>6. IsFiniteSet(added) /\ Cardinality(added) = Cardinality({n}) * Cardinality(slots)
    BY <2>4, <2>5
  <2>7. Cardinality(slots) = r.units
    BY <2>3 DEF slots
  <2>8. Cardinality(added) = 1 * r.units
    BY <2>2, <2>6, <2>7
  <2> QED BY <2>1, <2>6, <2>8
<1>8. HeldSlots(rows) \cap added = {}
  <2> SUFFICES ASSUME NEW s \in HeldSlots(rows), s \in added PROVE FALSE
    OBVIOUS
  <2>1. PICK i \in DOMAIN rows : s \in {i} \X (1..rows[i].request.units)
    BY SlotsOfRows
  <2>2. s[1] = i /\ s[1] = n
    BY <2>1
  <2> QED BY <2>2, <1>2
<1>9. HeldUnits(new) <= MaxUnits
  <2>1. Cardinality(HeldSlots(new))
          = Cardinality(HeldSlots(rows)) + Cardinality(added) - Cardinality({})
    BY <1>6, <1>7, <1>8, FiniteTables, FS_Union
  <2>2. Cardinality({}) = 0
    BY FS_EmptySet
  <2>3. Cardinality(HeldSlots(rows)) \in Nat /\ r.units \in Nat
    BY FiniteTables, FS_CardinalityType
  <2>4. r.units + Cardinality(HeldSlots(rows)) <= MaxUnits
    BY DEF HasRoom, HeldUnits
  <2>5. Cardinality(HeldSlots(new)) = Cardinality(HeldSlots(rows)) + r.units
    BY <1>7, <2>1, <2>2, <2>3
  <2> QED BY <2>3, <2>4, <2>5 DEF HeldUnits
<1>10. \A i, j \in OpenSet(new) : new[i].request.fp = new[j].request.fp => i = j
  <2>1. \A i \in OpenSet(rows) : new[i] = rows[i] /\ rows[i].request.fp # r.fp
    BY <1>1, <1>2 DEF OpenSet, Open
  <2> QED BY <1>3, <1>4, <2>1 DEF Bounded
<1> QED BY <1>5, <1>9, <1>10 DEF Bounded, new

\* expire_stale only turns open rows EXPIRED.
LEMMA ExpiryFollows ==
  ASSUME NEW rows \in Seq(Reservation), NEW t \in Nat
  PROVE  Follows(ExpireStale(rows, t), rows)
<1> DEFINE new == ExpireStale(rows, t)
<1>1. DOMAIN rows = 1..Len(rows) /\ Len(rows) \in Nat
  OBVIOUS
<1>2. ASSUME NEW i \in 1..Len(rows)
      PROVE  /\ new[i] \in Reservation
             /\ new[i] = rows[i] \/ (/\ rows[i].state = "RESERVED" /\ new[i].state \in Settled
                                    /\ new[i].request = rows[i].request
                                    /\ new[i].state = "EXPIRED")
  <2>1. rows[i] \in Reservation
    OBVIOUS
  <2>2. PICK row : row = rows[i]
    OBVIOUS
  <2>3. new[i] = IF Stale(row, t) THEN [row EXCEPT !.state = "EXPIRED"] ELSE row
    BY <1>1, <2>2 DEF ExpireStale
  <2>4. row \in Reservation
    BY <2>1, <2>2
  <2> QED BY <2>2, <2>3, <2>4 DEF Reservation, Settled, Stale
<1>3. new \in [1..Len(rows) -> Reservation]
  <2>1. DOMAIN new = 1..Len(rows) /\ new = [i \in DOMAIN new |-> new[i]]
    BY <1>1 DEF ExpireStale
  <2> HIDE DEF new
  <2> QED BY <1>2, <2>1
<1>4. new \in Seq(Reservation) /\ Len(new) = Len(rows)
  <2> HIDE DEF new
  <2> QED BY <1>1, <1>3
<1> QED BY <1>2, <1>4 DEF Follows

\* One open row is settled, by the consume or otherwise.
LEMMA ReleaseFollows ==
  ASSUME NEW rows \in Seq(Reservation), NEW i \in DOMAIN rows, rows[i].state = "RESERVED",
         NEW s \in Settled
  PROVE  /\ Follows([rows EXCEPT ![i].state = s], rows)
         /\ [rows EXCEPT ![i].state = s][i] = [rows[i] EXCEPT !.state = s]
<1> DEFINE new == [rows EXCEPT ![i].state = s]
<1>1. DOMAIN rows = 1..Len(rows) /\ Len(rows) \in Nat /\ rows[i] \in Reservation
  OBVIOUS
<1>2. PICK row \in Reservation : row = rows[i]
  BY <1>1
<1>3. PICK settled \in Reservation : settled = [row EXCEPT !.state = s]
  BY DEF Reservation
<1>4. settled.state = s /\ settled.request = row.request
  BY <1>3 DEF Reservation
<1>5. new = [rows EXCEPT ![i] = settled]
  BY <1>2, <1>3
<1>6. new \in Seq(Reservation) /\ Len(new) = Len(rows)
  BY <1>1, <1>5
<1>7. \A j \in 1..Len(rows) : new[j] = IF j = i THEN settled ELSE rows[j]
  BY <1>1, <1>5
<1> QED BY <1>2, <1>3, <1>4, <1>6, <1>7, <1>1 DEF Follows

\* consume settles the one row it is asked for and leaves the others alone.
LEMMA ConsumeFollows ==
  ASSUME TypeOK, NEW i \in Ids, reservations[i].state = "RESERVED", NEW t \in Nat
  PROVE  /\ Follows(Consumed(i, t), reservations)
         /\ Consumed(i, t)[i].state = "CONSUMED" /\ Consumed(i, t)[i].consumed = t
         /\ Consumed(i, t)[i].expires = reservations[i].expires
         /\ Consumed(i, t)[i].request = reservations[i].request
         /\ \A j \in Ids \ {i} : Consumed(i, t)[j] = reservations[j]
<1> DEFINE new == Consumed(i, t)
<1>1. /\ reservations \in Seq(Reservation) /\ Ids = 1..Len(reservations)
      /\ Len(reservations) \in Nat
  BY DEF TypeOK, Ids
<1>2. PICK row \in Reservation : row = reservations[i]
  BY <1>1
<1>3. PICK spent \in Reservation :
        spent = [row EXCEPT !.state = "CONSUMED", !.consumed = t]
  BY DEF Reservation, Settled
<1>4. /\ spent.state = "CONSUMED" /\ spent.consumed = t
      /\ spent.request = row.request /\ spent.expires = row.expires
  BY <1>3 DEF Reservation
<1>5. new = [reservations EXCEPT ![i] = spent]
  BY <1>1, <1>2, <1>3 DEF Consumed
<1>6. new \in Seq(Reservation) /\ Len(new) = Len(reservations)
  BY <1>1, <1>5
<1>7. \A j \in 1..Len(reservations) : new[j] = IF j = i THEN spent ELSE reservations[j]
  BY <1>1, <1>5
<1> HIDE DEF new
<1>8. Follows(new, reservations)
  BY <1>2, <1>4, <1>6, <1>7, <1>1 DEF Follows, Settled
<1> QED BY <1>1, <1>2, <1>4, <1>7, <1>8 DEF new

\* What a reservation is answered with: nothing, an open row of its fingerprint,
\* or a row inserted where there was room and none open.
LEMMA ReserveAnswers ==
  ASSUME NEW rows, NEW r, NEW t
  PROVE  \/ Reserve(rows, r, t) = Refuse(rows)
         \/ \E i \in Open(rows, r) : Reserve(rows, r, t) = [rows |-> rows, id |-> i]
         \/ /\ Reserve(rows, r, t) = Insert(rows, r, t)
            /\ HasRoom(rows, r) /\ Open(rows, r) = {}
<1> DEFINE same == {i \in Open(rows, r) : rows[i].request = r}
<1>1. Reserve(rows, r, t) =
        IF Blocked(t) \/ r.units > UnitCap THEN Refuse(rows)
        ELSE IF same # {} THEN Join(rows, same)
        ELSE IF ~HasRoom(rows, r) THEN Refuse(rows)
        ELSE IF Open(rows, r) # {} THEN Join(rows, Open(rows, r)) ELSE Insert(rows, r, t)
  BY DEF Reserve, ReserveWith
<1>2. ASSUME NEW ids, ids # {} PROVE \E i \in ids : Join(rows, ids) = [rows |-> rows, id |-> i]
  <2>1. (CHOOSE i \in ids : TRUE) \in ids
    BY <1>2
  <2> QED BY <2>1 DEF Join
<1>3. same \subseteq Open(rows, r)
  OBVIOUS
<1> HIDE DEF same
<1>4. CASE Blocked(t) \/ r.units > UnitCap
  BY <1>1, <1>4
<1>5. CASE ~(Blocked(t) \/ r.units > UnitCap) /\ same # {}
  BY <1>1, <1>2, <1>3, <1>5
<1>6. CASE ~(Blocked(t) \/ r.units > UnitCap) /\ same = {}
  <2>1. CASE ~HasRoom(rows, r)
    BY <1>1, <1>6, <2>1
  <2>2. CASE HasRoom(rows, r) /\ Open(rows, r) # {}
    BY <1>1, <1>2, <1>6, <2>2
  <2>3. CASE HasRoom(rows, r) /\ Open(rows, r) = {}
    BY <1>1, <1>6, <2>3
  <2> QED BY <2>1, <2>2, <2>3
<1> QED BY <1>4, <1>5, <1>6

-----------------------------------------------------------------------------
(* Steps.                                                                  *)

\* No step loses a row, changes a plan, or touches a settled row.
Evolves(new, old) ==
  /\ new \in Seq(Reservation) /\ Len(old) <= Len(new) /\ Len(new) <= MaxRows
  /\ \A i \in 1..Len(old) :
       /\ new[i].request = old[i].request
       /\ old[i].state \in Settled => new[i] = old[i]

CallOK(k, rows) ==
  /\ k.at = "idle" \/ k.aim \in Request
  /\ IF k.held = 0 THEN k.at \in {"idle", "reserve"}
     ELSE k.held \in DOMAIN rows /\ rows[k.held].request.fp = k.aim.fp

CachedOK(bound, rows) ==
  /\ bound \in [Fingerprint -> 0..Len(rows)]
  /\ \A f \in Fingerprint : bound[f] # 0 => rows[bound[f]].request.fp = f

\* A row is consumed in time, or for its cached result.
InTime(row) == ~Blocked(row.consumed) /\ row.consumed < row.expires
Timely(row, i, bound) == row.state = "CONSUMED" => InTime(row) \/ bound[row.request.fp] = i

Kept(new, old) == \A f \in Fingerprint : old[f] # 0 => new[f] = old[f]

\* A table that follows the old one also evolves from it: same rows, legal successors.
LEMMA FollowsEvolves ==
  ASSUME TypeOK, NEW new, Follows(new, reservations)
  PROVE  Evolves(new, reservations)
<1>1. Len(reservations) \in Nat /\ Len(reservations) <= MaxRows
  BY DEF TypeOK
<1> QED BY <1>1 DEF Follows, Evolves, Settled

\* A table follows itself.
LEMMA SameFollows ==
  ASSUME NEW rows \in Seq(Reservation)
  PROVE  Follows(rows, rows)
BY DEF Follows

\* What a caller holds is still in the table after it evolved.
LEMMA CallsInTable ==
  ASSUME TypeOK, NEW new, Evolves(new, reservations)
  PROVE  \A c \in Caller : CallOK(call[c], new)
<1>1. reservations \in Seq(Reservation) /\ Ids = 1..Len(reservations) /\ Len(reservations) \in Nat
  BY DEF TypeOK, Ids
<1>2. Ids \subseteq DOMAIN new
  BY <1>1 DEF Evolves
<1>3. \A c \in Caller : At(c, "idle") \/ Aim(c) \in Request
  BY DEF TypeOK
<1>4. \A c \in Caller :
        IF call[c].held = 0 THEN call[c].at \in {"idle", "reserve"}
        ELSE call[c].held \in Ids /\ Row(c).request.fp = Aim(c).fp
  BY DEF TypeOK
<1> QED BY <1>1, <1>2, <1>3, <1>4 DEF CallOK, Evolves, Row, Aim, At

\* The rows the cached results are bound to are still in the table after it evolved.
LEMMA CacheInTable ==
  ASSUME TypeOK, NEW new, Evolves(new, reservations), NEW bound, CachedOK(bound, reservations)
  PROVE  CachedOK(bound, new)
<1>1. Len(reservations) \in Nat /\ Len(new) \in Nat /\ Len(reservations) <= Len(new)
  BY DEF TypeOK, Evolves
<1> QED BY <1>1 DEF CachedOK, Evolves

\* The type invariant binds each cached result to a row of its fingerprint.
LEMMA TypedCache == TypeOK => CachedOK(cached, reservations)
BY DEF TypeOK, CachedOK

\* The types after a step, from those of what it writes.
LEMMA TypesAfter ==
  ASSUME TypeOK, Evolves(reservations', reservations), CachedOK(cached', reservations'),
         call' \in [Caller -> Call], \A c \in Caller : CallOK(call'[c], reservations'),
         now' \in 0..MaxTime, complete' \subseteq Fingerprint,
         posts' \in [1..MaxRows -> Seq(Request)]
  PROVE  TypeOK'
<1>1. reservations' \in Seq(Reservation) /\ Len(reservations') <= MaxRows
  BY DEF Evolves
<1> QED BY <1>1 DEF TypeOK, CachedOK, CallOK, Ids, Row, Aim, At

\* A step that pays nothing and lets nobody pay keeps every POST covered.
LEMMA QuietStep ==
  ASSUME TypeOK, PostsAreCovered, Paying, Evolves(reservations', reservations), posts' = posts,
         \A c \in Caller : call'[c].at = "post" => call'[c] = call[c]
  PROVE  PostsAreCovered' /\ Paying'
<1>1. /\ reservations \in Seq(Reservation) /\ Ids = 1..Len(reservations)
      /\ Len(reservations) \in Nat
      /\ Ids' = 1..Len(reservations') /\ Len(reservations') \in Nat
      /\ Len(reservations) <= Len(reservations')
  BY DEF TypeOK, Ids, Evolves
<1>2. \A i \in Ids : reservations[i].state = "CONSUMED" =>
                       i \in Ids' /\ reservations'[i] = reservations[i]
  BY <1>1 DEF Evolves, Settled
<1>3. PostsAreCovered'
  BY <1>2 DEF PostsAreCovered, In
<1>4. ASSUME NEW c \in Caller, call'[c].at = "post"
      PROVE  /\ call'[c] = call[c] /\ call[c].at = "post" /\ call[c].held \in Ids
             /\ reservations'[call[c].held] = reservations[call[c].held]
  <2>1. call'[c] = call[c] /\ call[c].at = "post"
    BY <1>4
  <2>2. call[c].held \in Ids
    BY <2>1 DEF TypeOK
  <2>3. reservations[call[c].held].state = "CONSUMED"
    BY <2>1 DEF Paying, At, Row
  <2> QED BY <1>2, <2>1, <2>2, <2>3
<1>5. Paying'
  BY <1>4 DEF Paying, At, Row, Aim
<1> QED BY <1>3, <1>5

\* ConsumedInTime survives a step that consumes no row late.
LEMMA TimelyStep ==
  ASSUME TypeOK, ConsumedInTime, Evolves(reservations', reservations), Kept(cached', cached),
         \A i \in Ids' : \/ i \in Ids /\ reservations[i].state = "CONSUMED"
                         \/ Timely(reservations'[i], i, cached')
  PROVE  ConsumedInTime'
<1>1. reservations \in Seq(Reservation) /\ Ids = 1..Len(reservations)
  BY DEF TypeOK, Ids
<1>2. ASSUME NEW i \in Ids, reservations[i].state = "CONSUMED"
      PROVE  Timely(reservations'[i], i, cached')
  <2>1. reservations'[i] = reservations[i]
    BY <1>1, <1>2 DEF Evolves, Settled
  <2>2. Timely(reservations[i], i, cached)
    BY <1>2 DEF ConsumedInTime, In, Timely, InTime
  <2>3. i # 0 /\ reservations[i].request.fp \in Fingerprint
    <3>1. reservations[i] \in Reservation /\ i # 0
      BY <1>1
    <3> QED BY <3>1 DEF Reservation
  <2> QED BY <2>1, <2>2, <2>3 DEF Timely, Kept
<1>3. \A i \in Ids' : Timely(reservations'[i], i, cached')
  BY <1>2
<1> QED BY <1>3 DEF ConsumedInTime, In, Timely, InTime, Blocked

\* What every step does to the store.
Moves == Evolves(reservations', reservations) /\ Kept(cached', cached)

\* A step that settles open rows, and pays nothing, keeps the invariant.
LEMMA SettlingStep ==
  ASSUME IInv, Follows(reservations', reservations),
         CachedOK(cached', reservations), Kept(cached', cached),
         call' \in [Caller -> Call], \A c \in Caller : CallOK(call'[c], reservations'),
         \A c \in Caller : call'[c].at = "post" => call'[c] = call[c],
         now' \in 0..MaxTime, complete' \subseteq Fingerprint, posts' = posts,
         \A i \in Ids : \/ reservations'[i] = reservations[i]
                        \/ Timely(reservations'[i], i, cached')
  PROVE  IInv' /\ Moves
<1>1. TypeOK /\ Bounded(reservations) /\ PostsAreCovered /\ ConsumedInTime /\ Paying
  BY DEF IInv
<1>2. Evolves(reservations', reservations)
  BY <1>1, FollowsEvolves
<1>3. TypeOK'
  <2>1. posts' \in [1..MaxRows -> Seq(Request)]
    BY <1>1 DEF TypeOK
  <2>2. CachedOK(cached', reservations')
    BY <1>1, <1>2, CacheInTable
  <2> QED BY <1>1, <1>2, <2>1, <2>2, TypesAfter
<1>4. Bounded(reservations)'
  <2>1. reservations \in Seq(Reservation)
    BY <1>1 DEF TypeOK
  <2>2. Bounded(reservations')
    BY <1>1, <2>1, FollowsBounded
  <2> QED BY <2>2 DEF Bounded, OpenSet, HeldUnits, HeldSlots
<1>5. PostsAreCovered' /\ Paying'
  BY <1>1, <1>2, QuietStep
<1>6. ConsumedInTime'
  <2>1. Ids' = Ids
    BY <1>1 DEF Follows, Ids, TypeOK
  <2>2. \A i \in Ids' : \/ i \in Ids /\ reservations[i].state = "CONSUMED"
                       \/ Timely(reservations'[i], i, cached')
    BY <2>1 DEF Timely
  <2> QED BY <1>1, <1>2, <2>2, TimelyStep
<1> QED BY <1>2, <1>3, <1>4, <1>5, <1>6 DEF IInv, Moves

\* A caller moves on to another call, and the others stay where they are.
LEMMA CallerMoves ==
  ASSUME TypeOK, NEW new, Evolves(new, reservations), NEW c \in Caller, NEW k \in Call,
         CallOK(k, new), call' = [call EXCEPT ![c] = k]
  PROVE  /\ call' \in [Caller -> Call]
         /\ \A d \in Caller : CallOK(call'[d], new)
         /\ k.at # "post" => \A d \in Caller : call'[d].at = "post" => call'[d] = call[d]
<1>1. call \in [Caller -> Call]
  BY DEF TypeOK
<1>2. \A d \in Caller : call'[d] = IF d = c THEN k ELSE call[d]
  BY <1>1
<1>3. \A d \in Caller : CallOK(call[d], new)
  BY CallsInTable
<1> QED BY <1>1, <1>2, <1>3

\* An idle caller is typed and holds nothing.
LEMMA IdleCall == Idle \in Call /\ \A rows : CallOK(Idle, rows)
BY DEF Idle, Call, CallOK, Step

\* The caller's record, when it holds a row.
LEMMA Holder ==
  ASSUME TypeOK, NEW c \in Caller, call[c].at \notin {"idle", "reserve"}
  PROVE  /\ call[c] \in Call /\ call[c].held \in Ids /\ Aim(c) \in Request
         /\ Row(c) \in Reservation /\ Row(c).request.fp = Aim(c).fp
         /\ Aim(c).fp \in Fingerprint
<1>1. call[c] \in Call /\ call[c].held \in Ids /\ Aim(c) \in Request /\ Row(c).request.fp = Aim(c).fp
  BY DEF TypeOK, At
<1>2. reservations \in Seq(Reservation)
  BY DEF TypeOK
<1>3. reservations[call[c].held] \in Reservation
  BY <1>1, <1>2 DEF Ids
<1> QED BY <1>1, <1>3 DEF Row

\* The moves of a caller that leave the store alone.
LEMMA WaitingStep ==
  ASSUME IInv, UNCHANGED store, call' \in [Caller -> Call],
         \A c \in Caller : CallOK(call'[c], reservations),
         \A c \in Caller : call'[c].at = "post" => call'[c] = call[c],
         now' \in 0..MaxTime, complete' \subseteq Fingerprint, posts' = posts
  PROVE  IInv' /\ Moves
<1>1. TypeOK /\ reservations' = reservations /\ cached' = cached
  BY DEF IInv, store
<1>2. reservations \in Seq(Reservation)
  BY <1>1 DEF TypeOK
<1>3. Follows(reservations', reservations)
  BY <1>1, <1>2, SameFollows
<1>4. CachedOK(cached', reservations) /\ Kept(cached', cached)
  BY <1>1, TypedCache DEF Kept
<1>5. \A c \in Caller : CallOK(call'[c], reservations')
  BY <1>1
<1> QED BY <1>1, <1>3, <1>4, <1>5, SettlingStep

\* A caller settles the open row that it holds, other than by a consume.
LEMMA HolderSettles ==
  ASSUME IInv, NEW c \in Caller, call[c].at \notin {"idle", "reserve"}, Row(c).state = "RESERVED",
         NEW s \in {"RELEASED", "EXPIRED"},
         reservations' = [reservations EXCEPT ![call[c].held].state = s],
         Return(c), UNCHANGED <<cached, now, complete, posts>>
  PROVE  IInv' /\ Moves
<1> DEFINE i == call[c].held
<1>1. TypeOK /\ reservations \in Seq(Reservation) /\ i \in DOMAIN reservations
  BY Holder DEF IInv, TypeOK, Ids
<1>2. reservations[i].state = "RESERVED" /\ s \in Settled
  BY DEF Row, Settled
<1>3. /\ Follows(reservations', reservations)
      /\ reservations'[i] = [reservations[i] EXCEPT !.state = s]
  BY <1>1, <1>2, ReleaseFollows
<1>4. Evolves(reservations', reservations)
  BY <1>1, <1>3, FollowsEvolves
<1>5. reservations'[i].state = s
  <2>1. reservations[i] \in Reservation
    BY <1>1
  <2> QED BY <1>3, <2>1 DEF Reservation
<1>6. \A j \in Ids : \/ reservations'[j] = reservations[j]
                      \/ Timely(reservations'[j], j, cached')
  BY <1>1, <1>5 DEF Timely, Ids
<1>7. /\ call' \in [Caller -> Call]
      /\ \A d \in Caller : CallOK(call'[d], reservations')
      /\ \A d \in Caller : call'[d].at = "post" => call'[d] = call[d]
  BY <1>1, <1>4, IdleCall, CallerMoves DEF Return, Idle
<1>8. CachedOK(cached', reservations) /\ Kept(cached', cached)
  BY <1>1, TypedCache DEF Kept
<1>9. now' \in 0..MaxTime /\ complete' \subseteq Fingerprint /\ posts' = posts
  BY <1>1 DEF TypeOK
<1> QED BY <1>3, <1>6, <1>7, <1>8, <1>9, SettlingStep

-----------------------------------------------------------------------------
(* The actions.                                                            *)

\* The typed parts of the state that most steps use.
LEMMA TypesNow ==
  TypeOK => now \in 0..MaxTime /\ complete \subseteq Fingerprint /\ reservations \in Seq(Reservation)
BY DEF TypeOK

\* A caller's record built from typed parts is typed.
LEMMA CallTypes ==
  ASSUME NEW step \in Step, NEW r \in Request \cup {NoRequest}, NEW i \in 0..MaxRows, NEW t \in Nat
  PROVE  [at |-> step, aim |-> r, held |-> i, moment |-> t] \in Call
BY DEF Call

\* resolve keeps the invariant and moves rows legally.
LEMMA ResolveStep ==
  ASSUME IInv, NEW c \in Caller, NEW r \in Request, Resolve(c, r)
  PROVE  IInv' /\ Moves
<1>1. TypeOK /\ now \in Nat /\ now \in 0..MaxTime /\ complete \subseteq Fingerprint
  BY TypesNow DEF IInv
<1>2. PICK k \in Call : k = [at |-> "reserve", aim |-> r, held |-> 0, moment |-> now]
  <2>1. "reserve" \in Step /\ 0 \in 0..MaxRows
    BY DEF Step
  <2> QED BY <1>1, <2>1, CallTypes
<1>3. CallOK(k, reservations) /\ k.at # "post"
  BY <1>2 DEF CallOK
<1>4. call' = [call EXCEPT ![c] = k] /\ UNCHANGED <<store, now, complete, posts>>
  BY <1>2 DEF Resolve
<1>5. Evolves(reservations, reservations)
  BY <1>1, TypesNow, SameFollows, FollowsEvolves
<1> QED BY <1>1, <1>3, <1>4, <1>5, CallerMoves, WaitingStep

\* The caller's look at the cache keeps the invariant and moves rows legally.
LEMMA RecheckStep ==
  ASSUME IInv, NEW c \in Caller, Recheck(c)
  PROVE  IInv' /\ Moves
<1>1. /\ TypeOK /\ now \in Nat /\ now \in 0..MaxTime /\ complete \subseteq Fingerprint
      /\ call[c].at \notin {"idle", "reserve"}
  BY TypesNow DEF IInv, Recheck, At
<1>2. /\ call[c] \in Call /\ call[c].held \in Ids /\ Aim(c) \in Request
      /\ Row(c).request.fp = Aim(c).fp
  BY <1>1, Holder
<1>3. PICK step \in {"release", "consume"} :
        call' = [call EXCEPT ![c].at = step, ![c].moment = now]
  BY DEF Recheck
<1>4. PICK k \in Call : k = [call[c] EXCEPT !.at = step, !.moment = now]
  BY <1>1, <1>2 DEF Call, Step
<1>5. /\ k.held = call[c].held /\ k.aim = Aim(c) /\ k.at = step
      /\ call' = [call EXCEPT ![c] = k]
  BY <1>1, <1>2, <1>3, <1>4 DEF Call, Aim, TypeOK
<1>6. CallOK(k, reservations) /\ k.at # "post"
  <2>1. k.held # 0
    BY <1>1, <1>2, <1>5, TypesNow DEF Ids
  <2> QED BY <1>2, <1>5, <2>1 DEF CallOK, Row, Ids
<1>7. Evolves(reservations, reservations)
  BY <1>1, TypesNow, SameFollows, FollowsEvolves
<1>8. UNCHANGED <<store, now, complete, posts>>
  BY DEF Recheck
<1> QED BY <1>1, <1>5, <1>6, <1>7, <1>8, CallerMoves, WaitingStep

\* The reservation: what was stale is expired first; then nothing, a join, or an
\* insertion into what is left.
LEMMA TryReserveStep ==
  ASSUME IInv, NEW c \in Caller, TryReserve(c)
  PROVE  IInv' /\ Moves
<1> DEFINE t == call[c].moment
           r == Aim(c)
           rows == ExpireStale(reservations, t)
           answer == Reserve(rows, r, t)
<1>1. /\ TypeOK /\ call[c] \in Call /\ r \in Request /\ t \in Nat
      /\ call[c].at = "reserve" /\ reservations \in Seq(Reservation)
  BY DEF IInv, TypeOK, TryReserve, At, Call
<1>2. Follows(rows, reservations) /\ rows \in Seq(Reservation) /\ Len(rows) = Len(reservations)
  BY <1>1, ExpiryFollows DEF Follows
<1>3. Bounded(rows)
  BY <1>1, <1>2, FollowsBounded DEF IInv
<1>4. /\ reservations' = answer.rows /\ Len(answer.rows) <= MaxRows
      /\ IF answer.id = 0 THEN Return(c)
         ELSE call' = [call EXCEPT ![c].at = "holding", ![c].held = answer.id, ![c].moment = 0]
      /\ UNCHANGED <<cached, now, complete, posts>>
  BY DEF TryReserve
<1>5. \/ answer = Refuse(rows)
      \/ \E i \in Open(rows, r) : answer = [rows |-> rows, id |-> i]
      \/ answer = Insert(rows, r, t) /\ HasRoom(rows, r) /\ Open(rows, r) = {}
  BY ReserveAnswers
<1>6. Evolves(rows, reservations)
  BY <1>1, <1>2, FollowsEvolves
<1>7. \A i \in Ids : rows[i] = reservations[i] \/ rows[i].state # "CONSUMED"
  <2>1. \A i \in DOMAIN reservations :
          rows[i] = IF Stale(reservations[i], t) THEN [reservations[i] EXCEPT !.state = "EXPIRED"]
                    ELSE reservations[i]
    BY DEF ExpireStale
  <2>2. \A i \in DOMAIN reservations : reservations[i] \in Reservation
    BY <1>1
  <2>3. \A row \in Reservation : [row EXCEPT !.state = "EXPIRED"].state = "EXPIRED"
    BY DEF Reservation
  <2> QED BY <2>1, <2>2, <2>3 DEF Ids
<1>8. CachedOK(cached', reservations) /\ Kept(cached', cached)
  BY <1>1, <1>4, TypedCache DEF Kept
<1>9. /\ now' \in 0..MaxTime /\ complete' \subseteq Fingerprint /\ posts' = posts
      /\ posts' \in [1..MaxRows -> Seq(Request)]
  BY <1>1, <1>4 DEF TypeOK
<1> HIDE DEF rows, answer
<1>10. ASSUME answer = Refuse(rows) PROVE IInv' /\ Moves
  <2>1. reservations' = rows /\ call' = [call EXCEPT ![c] = Idle]
    BY <1>4, <1>10 DEF Refuse, Return
  <2>2. /\ call' \in [Caller -> Call]
        /\ \A d \in Caller : CallOK(call'[d], reservations')
        /\ \A d \in Caller : call'[d].at = "post" => call'[d] = call[d]
    BY <1>1, <1>6, <2>1, IdleCall, CallerMoves DEF Idle
  <2>3. \A i \in Ids : \/ reservations'[i] = reservations[i]
                       \/ Timely(reservations'[i], i, cached')
    BY <1>7, <2>1 DEF Timely
  <2> QED BY <1>2, <1>8, <1>9, <2>1, <2>2, <2>3, SettlingStep
<1>11. ASSUME NEW i \in Nat \ {0}, answer.id = i, i <= MaxRows,
              i \in DOMAIN answer.rows, answer.rows[i].request.fp = r.fp,
              Evolves(answer.rows, reservations)
       PROVE  /\ call' \in [Caller -> Call]
              /\ \A d \in Caller : CallOK(call'[d], reservations')
              /\ \A d \in Caller : call'[d].at = "post" => call'[d] = call[d]
  <2>1. PICK k \in Call : k = [call[c] EXCEPT !.at = "holding", !.held = i, !.moment = 0]
    <3>1. PICK old \in Call : old = call[c]
      BY <1>1
    <3>2. "holding" \in Step /\ i \in 0..MaxRows /\ 0 \in Nat
      BY <1>11 DEF Step
    <3>3. [old EXCEPT !.at = "holding", !.held = i, !.moment = 0] \in Call
      BY <3>2 DEF Call
    <3> QED BY <3>1, <3>3
  <2>2. /\ k.held = i /\ k.aim = r /\ k.at = "holding" /\ call' = [call EXCEPT ![c] = k]
    BY <1>1, <1>4, <1>11, <2>1 DEF Call, Aim, TypeOK
  <2>3. CallOK(k, reservations') /\ k.at # "post"
    BY <1>1, <1>4, <1>11, <2>2 DEF CallOK
  <2>4. Evolves(reservations', reservations)
    BY <1>4, <1>11
  <2> QED BY <1>1, <2>2, <2>3, <2>4, CallerMoves
<1>12. ASSUME NEW i \in Open(rows, r), answer = [rows |-> rows, id |-> i]
       PROVE  IInv' /\ Moves
  <2>1. /\ i \in Nat \ {0} /\ i <= MaxRows /\ i \in DOMAIN rows /\ rows[i].request.fp = r.fp
        /\ answer.id = i /\ answer.rows = rows /\ reservations' = rows
    BY <1>2, <1>4, <1>12 DEF Open
  <2>2. /\ call' \in [Caller -> Call]
        /\ \A d \in Caller : CallOK(call'[d], reservations')
        /\ \A d \in Caller : call'[d].at = "post" => call'[d] = call[d]
    BY <1>6, <1>11, <2>1
  <2>3. \A j \in Ids : \/ reservations'[j] = reservations[j]
                       \/ Timely(reservations'[j], j, cached')
    BY <1>7, <2>1 DEF Timely
  <2> QED BY <1>2, <1>8, <1>9, <2>1, <2>2, <2>3, SettlingStep
<1>13. ASSUME answer = Insert(rows, r, t), HasRoom(rows, r), Open(rows, r) = {}
       PROVE  IInv' /\ Moves
  <2> DEFINE n == Len(rows) + 1
  <2>1. /\ answer.rows = Append(rows, NewRow(r, t)) /\ answer.id = n
        /\ reservations' = Append(rows, NewRow(r, t))
    BY <1>4, <1>13 DEF Insert
  <2>2. /\ n \in Nat \ {0} /\ reservations' \in Seq(Reservation) /\ Len(reservations') = n
        /\ DOMAIN reservations' = 1..n /\ n <= MaxRows
        /\ reservations'[n] = NewRow(r, t)
        /\ \A i \in 1..Len(rows) : reservations'[i] = rows[i]
    BY <1>1, <1>2, <1>4, <2>1, NewRowIsRow
  <2>3. NewRow(r, t).state = "RESERVED" /\ NewRow(r, t).request = r
    BY DEF NewRow
  <2>4. Evolves(reservations', reservations)
    <3>1. \A i \in 1..Len(reservations) : reservations'[i] = rows[i]
      BY <1>2, <2>2
    <3> QED BY <1>1, <1>2, <1>6, <2>2, <3>1 DEF Evolves
  <2>5. Bounded(reservations')
    BY <1>1, <1>2, <1>3, <1>13, <2>1, InsertBounded
  <2>6. Bounded(reservations)'
    BY <2>5 DEF Bounded, OpenSet, HeldUnits, HeldSlots
  <2>7. /\ call' \in [Caller -> Call]
        /\ \A d \in Caller : CallOK(call'[d], reservations')
        /\ \A d \in Caller : call'[d].at = "post" => call'[d] = call[d]
    BY <1>11, <2>1, <2>2, <2>3, <2>4
  <2>8. TypeOK'
    <3>1. CachedOK(cached', reservations')
      BY <1>1, <1>8, <2>4, CacheInTable
    <3> QED BY <1>1, <1>9, <2>4, <2>7, <3>1, TypesAfter
  <2>9. PostsAreCovered' /\ Paying'
    BY <1>1, <1>9, <2>4, <2>7, QuietStep DEF IInv
  <2>10. ConsumedInTime'
    <3>1. \A i \in Ids' : \/ i \in Ids /\ reservations[i].state = "CONSUMED"
                         \/ Timely(reservations'[i], i, cached')
      <4>1. Ids' = Ids \cup {n} /\ Ids = 1..Len(rows)
        BY <1>1, <1>2, <2>2 DEF Ids
      <4>2. Timely(reservations'[n], n, cached')
        BY <2>2, <2>3 DEF Timely
      <4>3. \A i \in Ids : reservations'[i] = rows[i]
        BY <2>2, <4>1
      <4> QED BY <1>7, <4>1, <4>2, <4>3 DEF Timely
    <3> QED BY <1>1, <1>8, <2>4, <3>1, TimelyStep DEF IInv
  <2> QED BY <1>8, <2>4, <2>6, <2>8, <2>9, <2>10 DEF IInv, Moves
<1> QED BY <1>5, <1>10, <1>12, <1>13

\* A caller that returns leaves the types and the payments alone.
LEMMA ReturnTypes ==
  ASSUME TypeOK, NEW c \in Caller, Return(c), NEW new, Evolves(new, reservations)
  PROVE  /\ call' \in [Caller -> Call]
         /\ \A d \in Caller : CallOK(call'[d], new)
         /\ \A d \in Caller : call'[d].at = "post" => call'[d] = call[d]
BY IdleCall, CallerMoves DEF Return, Idle

\* A caller that goes on with its row does so too, unless it is about to pay.
LEMMA GotoTypes ==
  ASSUME TypeOK, NEW c \in Caller, call[c].at \notin {"idle", "reserve"}, NEW new,
         Evolves(new, reservations), NEW step \in Step, step # "idle", Goto(c, step)
  PROVE  /\ call' \in [Caller -> Call]
         /\ \A d \in Caller : CallOK(call'[d], new)
         /\ step # "post" => \A d \in Caller : call'[d].at = "post" => call'[d] = call[d]
         /\ call'[c] = [call[c] EXCEPT !.at = step]
         /\ \A d \in Caller : d # c => call'[d] = call[d]
<1>1. call[c] \in Call /\ call[c].held \in Ids /\ Aim(c) \in Request /\ call \in [Caller -> Call]
  BY Holder DEF TypeOK
<1>2. PICK k \in Call : k = [call[c] EXCEPT !.at = step]
  BY <1>1 DEF Call
<1>3. k.held = call[c].held /\ k.aim = call[c].aim /\ k.at = step
  BY <1>1, <1>2 DEF Call
<1>4. call' = [call EXCEPT ![c] = k]
  BY <1>1, <1>2 DEF Goto
<1>5. CallOK(call[c], new)
  BY CallsInTable
<1>6. CallOK(k, new)
  <2>1. call[c].held # 0
    <3>1. reservations \in Seq(Reservation)
      BY DEF TypeOK
    <3> QED BY <1>1, <3>1 DEF Ids
  <2> QED BY <1>1, <1>3, <1>5, <2>1 DEF CallOK, Aim
<1>7. /\ call' \in [Caller -> Call]
      /\ \A d \in Caller : CallOK(call'[d], new)
      /\ k.at # "post" => \A d \in Caller : call'[d].at = "post" => call'[d] = call[d]
  BY <1>4, <1>6, CallerMoves
<1> QED BY <1>1, <1>2, <1>3, <1>4, <1>7

\* release keeps the invariant and moves rows legally.
LEMMA ReleaseStep ==
  ASSUME IInv, NEW c \in Caller, Release(c)
  PROVE  IInv' /\ Moves
<1>1. /\ TypeOK /\ now \in 0..MaxTime /\ complete \subseteq Fingerprint
      /\ call[c].at \notin {"idle", "reserve"} /\ reservations \in Seq(Reservation)
  BY TypesNow DEF IInv, Release, At
<1>2. CASE Row(c).state = "RESERVED"
  <2>1. /\ reservations' = [reservations EXCEPT ![call[c].held].state = "RELEASED"]
        /\ Return(c) /\ UNCHANGED <<cached, now, complete, posts>>
    BY <1>2 DEF Release
  <2> QED BY <1>1, <1>2, <2>1, HolderSettles
<1>3. CASE Row(c).state # "RESERVED"
  <2>1. UNCHANGED store /\ Return(c) /\ UNCHANGED <<now, complete, posts>>
    BY <1>3 DEF Release, store
  <2>2. Evolves(reservations, reservations)
    BY <1>1, SameFollows, FollowsEvolves
  <2> QED BY <1>1, <2>1, <2>2, ReturnTypes, WaitingStep
<1> QED BY <1>2, <1>3

\* A caller that stops, having released or expired its row, keeps the invariant and moves rows legally.
LEMMA GiveUpStep ==
  ASSUME IInv, NEW c \in Caller, NEW state \in {"RELEASED", "EXPIRED"}, GiveUp(c, state)
  PROVE  IInv' /\ Moves
<1>1. call[c].at \notin {"idle", "reserve"}
  BY DEF GiveUp, At
<1>2. /\ Row(c).state = "RESERVED"
      /\ reservations' = [reservations EXCEPT ![call[c].held].state = state]
      /\ Return(c) /\ UNCHANGED <<cached, now, complete, posts>>
  BY DEF GiveUp
<1> QED BY <1>1, <1>2, HolderSettles

\* The consume lets its caller pay: its row was open, so that nothing was paid
\* with it, and nobody else is about to.
LEMMA ConsumeStep ==
  ASSUME IInv, NEW c \in Caller, Consume(c)
  PROVE  IInv' /\ Moves
<1> DEFINE i == call[c].held
           t == call[c].moment
<1>1. /\ TypeOK /\ now \in 0..MaxTime /\ complete \subseteq Fingerprint
      /\ call[c].at \notin {"idle", "reserve"} /\ reservations \in Seq(Reservation)
      /\ UNCHANGED <<cached, now, complete, posts>>
  BY TypesNow DEF IInv, Consume, At
<1>2. CASE ~MayConsume(i, Aim(c), t)
  <2>1. UNCHANGED store /\ Return(c)
    BY <1>1, <1>2 DEF Consume, store
  <2>2. Evolves(reservations, reservations)
    BY <1>1, SameFollows, FollowsEvolves
  <2> QED BY <1>1, <2>1, <2>2, ReturnTypes, WaitingStep
<1>3. CASE MayConsume(i, Aim(c), t)
  <2>1. /\ reservations' = Consumed(i, t)
        /\ call' = [call EXCEPT ![c].at = "post", ![c].moment = 0]
    BY <1>3 DEF Consume
  <2>2. /\ reservations[i].state = "RESERVED" /\ reservations[i].request = Aim(c)
        /\ ~Blocked(t) /\ t < reservations[i].expires
    BY <1>3 DEF MayConsume
  <2>3. /\ call[c] \in Call /\ i \in Ids /\ Aim(c) \in Request /\ t \in Nat
        /\ call \in [Caller -> Call] /\ i # 0
    BY <1>1, Holder DEF Call, TypeOK, Ids
  <2>4. /\ Follows(reservations', reservations)
        /\ reservations'[i].state = "CONSUMED" /\ reservations'[i].consumed = t
        /\ reservations'[i].expires = reservations[i].expires
        /\ reservations'[i].request = reservations[i].request
        /\ \A j \in Ids \ {i} : reservations'[j] = reservations[j]
    BY <1>1, <2>1, <2>2, <2>3, ConsumeFollows
  <2>5. Evolves(reservations', reservations)
    BY <1>1, <2>4, FollowsEvolves
  <2>6. PICK k \in Call : k = [call[c] EXCEPT !.at = "post", !.moment = 0]
    <3>1. PICK old \in Call : old = call[c]
      BY <2>3
    <3>2. [old EXCEPT !.at = "post", !.moment = 0] \in Call
      BY DEF Call, Step
    <3> QED BY <3>1, <3>2
  <2>7. /\ k.held = i /\ k.aim = Aim(c) /\ k.at = "post" /\ call' = [call EXCEPT ![c] = k]
    BY <2>1, <2>3, <2>6 DEF Call, Aim
  <2>8. CallOK(k, reservations')
    <3>1. CallOK(call[c], reservations')
      BY <1>1, <2>5, CallsInTable
    <3> QED BY <2>3, <2>7, <3>1 DEF CallOK, Aim
  <2>9. call' \in [Caller -> Call] /\ \A d \in Caller : CallOK(call'[d], reservations')
    BY <1>1, <2>5, <2>7, <2>8, CallerMoves
  <2>10. TypeOK'
    <3>1. CachedOK(cached', reservations')
      BY <1>1, <2>5, TypedCache, CacheInTable
    <3>2. posts' \in [1..MaxRows -> Seq(Request)]
      BY <1>1 DEF TypeOK
    <3> QED BY <1>1, <2>5, <2>9, <3>1, <3>2, TypesAfter
  <2>11. Bounded(reservations)'
    <3>1. Bounded(reservations')
      BY <1>1, <2>4, FollowsBounded DEF IInv
    <3> QED BY <3>1 DEF Bounded, OpenSet, HeldUnits, HeldSlots
  <2>12. Ids' = Ids /\ Ids \subseteq 1..MaxRows
    BY <1>1, <2>4, <2>5 DEF Follows, Ids, TypeOK
  <2>13. posts[i] = <<>>
    BY <2>2, <2>3, <2>12 DEF IInv, PostsAreCovered, In
  <2>14. PostsAreCovered'
    <3>1. \A j \in 1..MaxRows : posts[j] # <<>> =>
            /\ j \in Ids' /\ j # i /\ reservations'[j] = reservations[j]
            /\ reservations[j].state = "CONSUMED" /\ posts[j] = <<reservations[j].request>>
      BY <2>4, <2>12, <2>13 DEF IInv, PostsAreCovered, In
    <3> QED BY <1>1, <3>1 DEF PostsAreCovered, In
  <2>15. ASSUME NEW d \in Caller, d # c, call[d].at = "post"
         PROVE  /\ call[d].held # i /\ call[d].held \in Ids
                /\ reservations'[call[d].held] = reservations[call[d].held]
    <3>1. reservations[call[d].held].state = "CONSUMED"
      BY <2>15 DEF IInv, Paying, At, Row
    <3>2. call[d].held \in Ids
      BY <1>1, <2>15, Holder
    <3> QED BY <2>2, <2>4, <3>1, <3>2
  <2>16. Paying'
    <3>1. \A d \in Caller : call'[d] = IF d = c THEN k ELSE call[d]
      BY <2>3, <2>7
    <3>2. /\ reservations'[k.held].state = "CONSUMED" /\ reservations'[k.held].request = k.aim
          /\ posts'[k.held] = <<>>
      BY <1>1, <2>2, <2>4, <2>7, <2>13
    <3>3. ASSUME NEW d \in Caller, d # c, call[d].at = "post"
          PROVE  /\ reservations'[call[d].held].state = "CONSUMED"
                 /\ reservations'[call[d].held].request = call[d].aim
                 /\ posts'[call[d].held] = <<>> /\ call[d].held # k.held
      BY <1>1, <2>7, <2>15, <3>3 DEF IInv, Paying, At, Row, Aim
    <3>4. \A d, e \in Caller :
            call[d].at = "post" /\ call[e].at = "post" /\ call[d].held = call[e].held => d = e
      BY DEF IInv, Paying, At
    <3> QED BY <3>1, <3>2, <3>3, <3>4 DEF Paying, At, Row, Aim
  <2>17. Kept(cached', cached)
    BY <1>1 DEF Kept
  <2>18. ConsumedInTime'
    <3>1. Timely(reservations'[i], i, cached')
      BY <2>2, <2>4 DEF Timely, InTime
    <3>2. \A j \in Ids' : \/ j \in Ids /\ reservations[j].state = "CONSUMED"
                         \/ Timely(reservations'[j], j, cached')
      BY <2>4, <2>12, <3>1 DEF Timely
    <3> QED BY <1>1, <2>5, <2>17, <3>2, TimelyStep DEF IInv
  <2> QED BY <2>5, <2>10, <2>11, <2>14, <2>16, <2>17, <2>18 DEF IInv, Moves
<1> QED BY <1>2, <1>3

\* The POST uses up what its caller was about to pay with.
LEMMA PostStep ==
  ASSUME IInv, NEW c \in Caller, Post(c)
  PROVE  IInv' /\ Moves
<1> DEFINE i == call[c].held
<1>1. /\ TypeOK /\ now \in 0..MaxTime /\ complete \subseteq Fingerprint
      /\ call[c].at = "post" /\ call[c].at \notin {"idle", "reserve"}
      /\ reservations \in Seq(Reservation)
      /\ reservations' = reservations /\ cached' = cached /\ now' = now /\ complete' = complete
      /\ posts' = [posts EXCEPT ![i] = Append(@, Aim(c))] /\ Goto(c, "answered")
  BY TypesNow DEF IInv, Post, At, store
<1>2. Evolves(reservations', reservations)
  BY <1>1, SameFollows, FollowsEvolves
<1>3. /\ call' \in [Caller -> Call]
      /\ \A d \in Caller : CallOK(call'[d], reservations')
      /\ \A d \in Caller : call'[d].at = "post" => call'[d] = call[d]
      /\ call'[c] = [call[c] EXCEPT !.at = "answered"]
      /\ call[c] \in Call /\ i \in Ids /\ Aim(c) \in Request
  <2>1. "answered" \in Step
    BY DEF Step
  <2> QED BY <1>1, <1>2, <2>1, GotoTypes, Holder
<1>4. call'[c].at = "answered"
  BY <1>3 DEF Call
<1>5. posts \in [1..MaxRows -> Seq(Request)] /\ i \in 1..MaxRows
  BY <1>1, <1>3 DEF TypeOK, Ids
<1>6. /\ reservations[i].state = "CONSUMED" /\ reservations[i].request = Aim(c)
      /\ posts[i] = <<>>
  BY <1>1 DEF IInv, Paying, At, Row
<1>7. /\ posts'[i] = <<Aim(c)>> /\ posts' \in [1..MaxRows -> Seq(Request)]
      /\ \A j \in 1..MaxRows : j # i => posts'[j] = posts[j]
  BY <1>1, <1>3, <1>5, <1>6
<1>8. TypeOK'
  <2>1. CachedOK(cached', reservations')
    BY <1>1, <1>2, TypedCache, CacheInTable
  <2> QED BY <1>1, <1>2, <1>3, <1>7, <2>1, TypesAfter
<1>9. Bounded(reservations)'
  BY <1>1 DEF IInv, Bounded, OpenSet, HeldUnits, HeldSlots
<1>10. PostsAreCovered'
  BY <1>1, <1>3, <1>6, <1>7 DEF IInv, PostsAreCovered, In, Ids
<1>11. Paying'
  <2>1. ASSUME NEW d \in Caller, call'[d].at = "post"
        PROVE  d # c /\ call'[d] = call[d] /\ call[d].held # i /\ call[d].held \in 1..MaxRows
    <3>1. d # c /\ call'[d] = call[d]
      BY <1>3, <1>4, <2>1
    <3>2. call[d].at \notin {"idle", "reserve"}
      BY <2>1, <3>1
    <3>3. call[d].held \in Ids
      BY <1>1, <3>2, Holder
    <3>4. call[d].held # i
      BY <1>1, <2>1, <3>1 DEF IInv, Paying, At
    <3>5. Ids \subseteq 1..MaxRows
      BY <1>1 DEF TypeOK, Ids
    <3> QED BY <3>1, <3>3, <3>4, <3>5
  <2>2. ASSUME NEW d \in Caller, call'[d].at = "post"
        PROVE  /\ reservations'[call'[d].held].state = "CONSUMED"
               /\ reservations'[call'[d].held].request = call'[d].aim
               /\ posts'[call'[d].held] = <<>>
    <3>1. /\ call'[d] = call[d] /\ call[d].at = "post" /\ reservations' = reservations
          /\ posts'[call[d].held] = posts[call[d].held]
      BY <1>1, <1>7, <2>1, <2>2
    <3>2. /\ reservations[call[d].held].state = "CONSUMED"
          /\ reservations[call[d].held].request = call[d].aim
          /\ posts[call[d].held] = <<>>
      BY <3>1 DEF IInv, Paying, At, Row, Aim
    <3> QED BY <3>1, <3>2
  <2>3. ASSUME NEW d \in Caller, NEW e \in Caller, call'[d].at = "post", call'[e].at = "post",
               call'[d].held = call'[e].held
        PROVE  d = e
    BY <2>1, <2>3 DEF IInv, Paying, At
  <2> QED BY <2>2, <2>3 DEF Paying, At, Row, Aim
<1>12. Kept(cached', cached)
  BY <1>1 DEF Kept
<1>13. ConsumedInTime'
  BY <1>1 DEF IInv, ConsumedInTime, In, Ids, Blocked
<1> QED BY <1>2, <1>8, <1>9, <1>10, <1>11, <1>12, <1>13 DEF IInv, Moves

\* persist_cached_result keeps the invariant and moves rows legally.
LEMMA PersistCachedStep ==
  ASSUME IInv, NEW c \in Caller, PersistCached(c)
  PROVE  IInv' /\ Moves
<1> DEFINE i == call[c].held
           f == Aim(c).fp
<1>1. /\ TypeOK /\ now \in 0..MaxTime /\ complete \subseteq Fingerprint
      /\ call[c].at \notin {"idle", "reserve"} /\ reservations \in Seq(Reservation)
      /\ reservations' = reservations /\ now' = now /\ complete' = complete /\ posts' = posts
      /\ Goto(c, "settle")
  BY TypesNow DEF IInv, PersistCached, At
<1>2. Follows(reservations', reservations)
  BY <1>1, SameFollows
<1>3. Evolves(reservations', reservations)
  BY <1>1, <1>2, FollowsEvolves
<1>4. /\ call' \in [Caller -> Call]
      /\ \A d \in Caller : CallOK(call'[d], reservations')
      /\ \A d \in Caller : call'[d].at = "post" => call'[d] = call[d]
  <2>1. "settle" \in Step
    BY DEF Step
  <2> QED BY <1>1, <1>3, <2>1, GotoTypes
<1>5. i \in Ids /\ f \in Fingerprint /\ reservations[i].request.fp = f
  BY <1>1, Holder DEF Row
<1>6. cached' = cached \/ (cached' = [cached EXCEPT ![f] = i] /\ cached[f] = 0)
  BY DEF PersistCached, MayCache
<1>7. CachedOK(cached, reservations)
  BY <1>1, TypedCache
<1>8. CachedOK(cached', reservations)
  BY <1>1, <1>5, <1>6, <1>7 DEF CachedOK, Ids
<1>9. Kept(cached', cached)
  BY <1>5, <1>6, <1>7 DEF Kept, CachedOK
<1> QED BY <1>1, <1>2, <1>4, <1>8, <1>9, SettlingStep

\* The consume that follows a cached result, by a caller or by the recovery.
LEMMA SettlesCached ==
  ASSUME IInv, NEW r \in Request, MaySettle(r), reservations' = Consumed(cached[r.fp], now),
         call' \in [Caller -> Call],
         Evolves(reservations', reservations) => \A c \in Caller : CallOK(call'[c], reservations'),
         \A c \in Caller : call'[c].at = "post" => call'[c] = call[c],
         UNCHANGED <<cached, now, complete, posts>>
  PROVE  IInv' /\ Moves
<1> DEFINE i == cached[r.fp]
<1>1. /\ TypeOK /\ now \in 0..MaxTime /\ complete \subseteq Fingerprint
      /\ reservations \in Seq(Reservation) /\ now \in Nat
  BY TypesNow DEF IInv
<1>2. i \in Ids /\ reservations[i].state = "RESERVED" /\ reservations[i].request = r
  BY <1>1 DEF MaySettle, TypeOK, Ids
<1>3. /\ Follows(reservations', reservations)
      /\ reservations'[i].request = reservations[i].request
      /\ \A j \in Ids \ {i} : reservations'[j] = reservations[j]
  BY <1>1, <1>2, ConsumeFollows
<1>4. Evolves(reservations', reservations)
  BY <1>1, <1>3, FollowsEvolves
<1>5. Timely(reservations'[i], i, cached')
  BY <1>2, <1>3 DEF Timely
<1>6. CachedOK(cached', reservations) /\ Kept(cached', cached)
  BY <1>1, TypedCache DEF Kept
<1>7. \A j \in Ids : reservations'[j] = reservations[j] \/ Timely(reservations'[j], j, cached')
  BY <1>3, <1>5
<1>8. \A c \in Caller : CallOK(call'[c], reservations')
  BY <1>4
<1> QED BY <1>1, <1>3, <1>6, <1>7, <1>8, SettlingStep

\* The caller's consume keeps the invariant and moves rows legally.
LEMMA SettleStep ==
  ASSUME IInv, NEW c \in Caller, Settle(c)
  PROVE  IInv' /\ Moves
<1>1. /\ TypeOK /\ now \in 0..MaxTime /\ complete \subseteq Fingerprint
      /\ call[c].at \notin {"idle", "reserve"} /\ reservations \in Seq(Reservation)
      /\ Return(c) /\ UNCHANGED <<cached, now, complete, posts>>
  BY TypesNow DEF IInv, Settle, At
<1>2. Aim(c) \in Request
  BY <1>1, Holder
<1>3. CASE cached[Aim(c).fp] = call[c].held /\ MaySettle(Aim(c))
  <2>1. reservations' = Consumed(cached[Aim(c).fp], now)
    BY <1>3 DEF Settle
  <2>2. \A new : Evolves(new, reservations) =>
          /\ call' \in [Caller -> Call]
          /\ \A d \in Caller : CallOK(call'[d], new)
          /\ \A d \in Caller : call'[d].at = "post" => call'[d] = call[d]
    BY <1>1, ReturnTypes
  <2>3. Evolves(reservations, reservations)
    BY <1>1, SameFollows, FollowsEvolves
  <2>4. /\ call' \in [Caller -> Call]
        /\ \A d \in Caller : call'[d].at = "post" => call'[d] = call[d]
        /\ Evolves(reservations', reservations) => \A d \in Caller : CallOK(call'[d], reservations')
    BY <2>2, <2>3
  <2> QED BY <1>1, <1>2, <1>3, <2>1, <2>4, SettlesCached
<1>4. CASE ~(cached[Aim(c).fp] = call[c].held /\ MaySettle(Aim(c)))
  <2>1. UNCHANGED store
    BY <1>1, <1>4 DEF Settle, store
  <2>2. Evolves(reservations, reservations)
    BY <1>1, SameFollows, FollowsEvolves
  <2> QED BY <1>1, <2>1, <2>2, ReturnTypes, WaitingStep
<1> QED BY <1>3, <1>4

\* Recovery of a cached result keeps the invariant and moves rows legally.
LEMMA RecoverCachedStep ==
  ASSUME IInv, NEW r \in Request, RecoverCached(r)
  PROVE  IInv' /\ Moves
<1>1. /\ TypeOK /\ MaySettle(r) /\ reservations' = Consumed(cached[r.fp], now)
      /\ UNCHANGED <<cached, now, complete, call, posts>>
  BY DEF IInv, RecoverCached
<1>2. call' \in [Caller -> Call]
  BY <1>1 DEF TypeOK
<1>3. Evolves(reservations', reservations) => \A c \in Caller : CallOK(call'[c], reservations')
  BY <1>1, CallsInTable
<1> QED BY <1>1, <1>2, <1>3, SettlesCached

\* Expiring what is stale, with the callers alive or dead.
LEMMA ExpiryStep ==
  ASSUME IInv, reservations' = ExpireStale(reservations, now),
         call' = call \/ call' = [c \in Caller |-> Idle],
         UNCHANGED <<cached, now, complete, posts>>
  PROVE  IInv' /\ Moves
<1>1. /\ TypeOK /\ now \in 0..MaxTime /\ complete \subseteq Fingerprint
      /\ reservations \in Seq(Reservation) /\ now \in Nat
  BY TypesNow DEF IInv
<1>2. Follows(reservations', reservations)
  BY <1>1, ExpiryFollows
<1>3. Evolves(reservations', reservations)
  BY <1>1, <1>2, FollowsEvolves
<1>4. /\ call' \in [Caller -> Call]
      /\ \A c \in Caller : CallOK(call'[c], reservations')
      /\ \A c \in Caller : call'[c].at = "post" => call'[c] = call[c]
  <2>1. CASE call' = call
    BY <1>1, <1>3, <2>1, CallsInTable DEF TypeOK
  <2>2. CASE call' = [c \in Caller |-> Idle]
    BY <2>2, IdleCall DEF Idle
  <2> QED BY <2>1, <2>2
<1>5. CachedOK(cached', reservations) /\ Kept(cached', cached)
  BY <1>1, TypedCache DEF Kept
<1>6. \A i \in Ids : reservations'[i] = reservations[i] \/ Timely(reservations'[i], i, cached')
  <2>1. \A i \in DOMAIN reservations :
          reservations'[i] = IF Stale(reservations[i], now)
                             THEN [reservations[i] EXCEPT !.state = "EXPIRED"] ELSE reservations[i]
    BY DEF ExpireStale
  <2>2. \A i \in DOMAIN reservations : reservations[i] \in Reservation
    BY <1>1
  <2>3. \A row \in Reservation : [row EXCEPT !.state = "EXPIRED"].state = "EXPIRED"
    BY DEF Reservation
  <2> QED BY <2>1, <2>2, <2>3 DEF Ids, Timely
<1> QED BY <1>1, <1>2, <1>4, <1>5, <1>6, SettlingStep

\* A job that completes and a tick of the clock keep the invariant and move rows legally.
LEMMA EnvironmentStep ==
  ASSUME IInv, (\E f \in Fingerprint : JobCompletes(f)) \/ Tick
  PROVE  IInv' /\ Moves
<1>1. /\ TypeOK /\ now \in 0..MaxTime /\ complete \subseteq Fingerprint
      /\ reservations \in Seq(Reservation)
  BY TypesNow DEF IInv
<1>2. /\ UNCHANGED store /\ call' = call /\ posts' = posts
      /\ now' \in 0..MaxTime /\ complete' \subseteq Fingerprint
  <2>1. CASE \E f \in Fingerprint : JobCompletes(f)
    BY <1>1, <2>1 DEF JobCompletes
  <2>2. CASE Tick
    BY <1>1, <2>2 DEF Tick
  <2> QED BY <2>1, <2>2
<1>3. /\ call' \in [Caller -> Call]
      /\ \A c \in Caller : CallOK(call'[c], reservations)
      /\ \A c \in Caller : call'[c].at = "post" => call'[c] = call[c]
  <2>1. Evolves(reservations, reservations)
    BY <1>1, SameFollows, FollowsEvolves
  <2> QED BY <1>1, <1>2, <2>1, CallsInTable DEF TypeOK
<1> QED BY <1>2, <1>3, WaitingStep

-----------------------------------------------------------------------------
(* The theorems.                                                           *)

\* The empty table satisfies the invariant.
LEMMA InitInvariant == Init => IInv
<1> SUFFICES ASSUME Init PROVE IInv
  OBVIOUS
<1>1. /\ reservations = <<>> /\ now = 0 /\ complete = {}
      /\ cached = [f \in Fingerprint |-> 0] /\ call = [c \in Caller |-> Idle]
      /\ posts = [i \in 1..MaxRows |-> <<>>]
  BY DEF Init
<1>2. reservations \in Seq(Reservation) /\ Len(reservations) = 0 /\ Ids = {}
  BY <1>1 DEF Ids
<1>3. TypeOK
  BY <1>1, <1>2, IdleCall DEF TypeOK, Idle, At
<1>4. OpenSet(reservations) = {} /\ HeldSlots(reservations) = {}
  BY <1>1 DEF OpenSet, HeldSlots
<1>5. Cardinality({}) = 0
  BY FS_EmptySet
<1>6. Bounded(reservations)
  BY <1>4, <1>5 DEF Bounded, HeldUnits
<1>7. PostsAreCovered /\ ConsumedInTime
  BY <1>1, <1>2 DEF PostsAreCovered, ConsumedInTime, In
<1>8. Paying
  BY <1>1 DEF Paying, At, Idle
<1> QED BY <1>3, <1>6, <1>7, <1>8 DEF IInv

\* Every step keeps the invariant and moves rows legally.
LEMMA NextStep == ASSUME IInv, Next PROVE IInv' /\ Moves
<1>1. ASSUME NEW c \in Caller, NEW r \in Request, Resolve(c, r) PROVE IInv' /\ Moves
  BY <1>1, ResolveStep
<1>2. ASSUME NEW c \in Caller, TryReserve(c) PROVE IInv' /\ Moves
  BY <1>2, TryReserveStep
<1>3. ASSUME NEW c \in Caller, Recheck(c) PROVE IInv' /\ Moves
  BY <1>3, RecheckStep
<1>4. ASSUME NEW c \in Caller, Release(c) PROVE IInv' /\ Moves
  BY <1>4, ReleaseStep
<1>5. ASSUME NEW c \in Caller, Consume(c) PROVE IInv' /\ Moves
  BY <1>5, ConsumeStep
<1>6. ASSUME NEW c \in Caller, Post(c) PROVE IInv' /\ Moves
  BY <1>6, PostStep
<1>7. ASSUME NEW c \in Caller, PersistCached(c) PROVE IInv' /\ Moves
  BY <1>7, PersistCachedStep
<1>8. ASSUME NEW c \in Caller, Settle(c) PROVE IInv' /\ Moves
  BY <1>8, SettleStep
<1>9. ASSUME NEW c \in Caller, NEW state \in {"RELEASED", "EXPIRED"}, GiveUp(c, state)
      PROVE  IInv' /\ Moves
  BY <1>9, GiveUpStep
<1>10. ASSUME NEW r \in Request, RecoverCached(r) PROVE IInv' /\ Moves
  BY <1>10, RecoverCachedStep
<1>11. CASE Restart \/ Sweep
  BY <1>11, ExpiryStep DEF Restart, Sweep
<1>12. CASE (\E f \in Fingerprint : JobCompletes(f)) \/ Tick
  BY <1>12, EnvironmentStep
<1> QED BY <1>1, <1>2, <1>3, <1>4, <1>5, <1>6, <1>7, <1>8, <1>9, <1>10, <1>11, <1>12 DEF Next

\* So does a step that changes nothing.
LEMMA StutterStep == ASSUME IInv, UNCHANGED vars PROVE IInv' /\ Moves
<1>1. TypeOK /\ UNCHANGED store /\ UNCHANGED <<call, now, complete, posts>>
  BY DEF IInv, vars
<1>2. reservations \in Seq(Reservation)
  BY <1>1, TypesNow
<1>3. Evolves(reservations, reservations)
  BY <1>1, <1>2, SameFollows, FollowsEvolves
<1>4. \A c \in Caller : CallOK(call'[c], reservations)
  BY <1>1, <1>3, CallsInTable
<1>5. call' \in [Caller -> Call] /\ now' \in 0..MaxTime /\ complete' \subseteq Fingerprint
  BY <1>1 DEF TypeOK
<1> QED BY <1>1, <1>4, <1>5, WaitingStep

\* The inductive invariant holds throughout.
LEMMA Invariant == Spec => []IInv
<1>1. IInv /\ [Next]_vars => IInv'
  BY NextStep, StutterStep
<1> QED BY InitInvariant, <1>1, PTL DEF Spec

\* The table, the cache binding, the callers and the history keep their types.
THEOREM TypeCorrect == Spec => []TypeOK
<1>1. IInv => TypeOK
  BY DEF IInv
<1> QED BY Invariant, <1>1, PTL

\* What is reserved or consumed stays within the authorised units, through any
\* sequence of reservations, joins, releases, expiries, consumes and restarts.
THEOREM UnitsAuthorized == Spec => []UnitsAreAuthorized
<1>1. IInv => UnitsAreAuthorized
  BY DEF IInv, Bounded, UnitsAreAuthorized
<1> QED BY Invariant, <1>1, PTL

\* One open reservation of a fingerprint, and at most MaxOpen of them all.
THEOREM OpenRowsBounded == Spec => []OneOpenRow
<1>1. IInv => OneOpenRow
  <2>1. In("RESERVED") = OpenSet(reservations)
    BY DEF In, Ids, OpenSet
  <2> QED BY <2>1 DEF IInv, Bounded, OneOpenRow
<1> QED BY Invariant, <1>1, PTL

\* Every paid POST has a consumed reservation of its own and of its exact plan,
\* however many callers joined it.
THEOREM PostsCovered == Spec => []PostsAreCovered
<1>1. IInv => PostsAreCovered
  BY DEF IInv
<1> QED BY Invariant, <1>1, PTL

\* A consume is in time, or belongs to a cached result.
THEOREM ConsumesInTime == Spec => []ConsumedInTime
<1>1. IInv => ConsumedInTime
  BY DEF IInv
<1> QED BY Invariant, <1>1, PTL

\* Settled rows and cache bindings never change.
THEOREM SettledRowsStay == Spec => SettledStays
<1>1. IInv /\ [Next]_vars =>
        [/\ \A i \in Ids : reservations[i].state \in Settled => reservations'[i] = reservations[i]
         /\ \A f \in Fingerprint : cached[f] # 0 => cached'[f] = cached[f]]_vars
  <2> SUFFICES ASSUME IInv, [Next]_vars
               PROVE  /\ \A i \in Ids :
                           reservations[i].state \in Settled => reservations'[i] = reservations[i]
                      /\ \A f \in Fingerprint : cached[f] # 0 => cached'[f] = cached[f]
    OBVIOUS
  <2>1. Moves
    BY NextStep, StutterStep
  <2>2. Ids = 1..Len(reservations)
    BY DEF IInv, TypeOK, Ids
  <2> QED BY <2>1, <2>2 DEF Moves, Evolves, Kept
<1> QED BY Invariant, <1>1, PTL DEF Spec, SettledStays

-----------------------------------------------------------------------------
(* The refinement.  The store implements UnitAccount: an inserted row is a *)
(* ticket, a consume spends it, the POST is what it pays for, and whatever *)
(* expires or is released is given back; all else is a stutter.            *)

Plans(rows) == [i \in DOMAIN rows |-> rows[i].request]
SpentSet(rows) == {i \in DOMAIN rows : rows[i].state = "CONSUMED"}
Slots(plans, tickets) == UNION {{t} \X (1..plans[t].units) : t \in tickets}

\* A table in which some open rows were given back, and nothing else happened.
GivenBack(new, old) ==
  /\ Plans(new) = Plans(old) /\ SpentSet(new) = SpentSet(old)
  /\ OpenSet(new) \subseteq OpenSet(old)

(* UnitAccount's actions, of the tables.                                   *)

GivesBack == GivenBack(reservations', reservations) /\ posts' = posts

Issues(t, p, kept) ==
  /\ kept \subseteq OpenSet(reservations)
  /\ t \notin DOMAIN Plans(reservations)
  /\ \A u \in kept : Plans(reservations)[u].fp # p.fp
  /\ Cardinality(kept) < MaxOpen
  /\ p.units + Cardinality(Slots(Plans(reservations), kept \cup SpentSet(reservations))) <= MaxUnits
  /\ OpenSet(reservations') = kept \cup {t}
  /\ Plans(reservations') = [u \in DOMAIN Plans(reservations) \cup {t} |->
                               IF u = t THEN p ELSE Plans(reservations)[u]]
  /\ SpentSet(reservations') = SpentSet(reservations) /\ posts' = posts

Spends(t) ==
  /\ t \in OpenSet(reservations)
  /\ OpenSet(reservations') = OpenSet(reservations) \ {t}
  /\ SpentSet(reservations') = SpentSet(reservations) \cup {t}
  /\ Plans(reservations') = Plans(reservations) /\ posts' = posts

Pays(t) ==
  /\ t \in SpentSet(reservations)
  /\ posts[t] = <<>>
  /\ posts' = [posts EXCEPT ![t] = <<Plans(reservations)[t]>>]
  /\ reservations' = reservations

\* Settling rows other than by a consume gives them back.
LEMMA FollowsGivesBack ==
  ASSUME NEW old \in Seq(Reservation), NEW new, Follows(new, old),
         \A i \in DOMAIN old : new[i] = old[i] \/ new[i].state # "CONSUMED"
  PROVE  GivenBack(new, old)
<1>1. DOMAIN new = DOMAIN old /\ DOMAIN old = 1..Len(old)
  BY DEF Follows
<1>2. \A i \in DOMAIN old : new[i].request = old[i].request
  BY <1>1 DEF Follows
<1>3. Plans(new) = Plans(old)
  BY <1>1, <1>2 DEF Plans
<1>4. OpenSet(new) \subseteq OpenSet(old) /\ SpentSet(new) = SpentSet(old)
  BY <1>1 DEF Follows, OpenSet, SpentSet, Settled
<1> QED BY <1>3, <1>4 DEF GivenBack

\* expire_stale gives back.
LEMMA ExpiryGivesBack ==
  ASSUME NEW rows \in Seq(Reservation), NEW t \in Nat
  PROVE  GivenBack(ExpireStale(rows, t), rows)
<1> DEFINE new == ExpireStale(rows, t)
<1>1. Follows(new, rows)
  BY ExpiryFollows
<1>2. \A i \in DOMAIN rows :
        new[i] = IF Stale(rows[i], t) THEN [rows[i] EXCEPT !.state = "EXPIRED"] ELSE rows[i]
  BY DEF ExpireStale
<1>3. \A i \in DOMAIN rows : rows[i] \in Reservation
  OBVIOUS
<1>4. \A row \in Reservation : [row EXCEPT !.state = "EXPIRED"].state = "EXPIRED"
  BY DEF Reservation
<1>5. \A i \in DOMAIN rows : new[i] = rows[i] \/ new[i].state # "CONSUMED"
  BY <1>2, <1>3, <1>4
<1> HIDE DEF new
<1> QED BY <1>1, <1>5, FollowsGivesBack DEF new

\* A consume spends its row.
LEMMA ConsumeSpends ==
  ASSUME TypeOK, NEW i \in Ids, reservations[i].state = "RESERVED", NEW t \in Nat,
         reservations' = Consumed(i, t), posts' = posts
  PROVE  Spends(i)
<1>1. /\ Follows(reservations', reservations)
      /\ reservations'[i].state = "CONSUMED"
      /\ \A j \in Ids \ {i} : reservations'[j] = reservations[j]
  BY ConsumeFollows
<1>2. DOMAIN reservations' = DOMAIN reservations /\ Ids = DOMAIN reservations
  BY <1>1 DEF Follows, TypeOK, Ids
<1>3. \A j \in Ids : reservations'[j].request = reservations[j].request
  BY <1>1, <1>2 DEF Follows, TypeOK
<1>4. Plans(reservations') = Plans(reservations)
  BY <1>2, <1>3 DEF Plans
<1>5. /\ OpenSet(reservations') = OpenSet(reservations) \ {i}
      /\ SpentSet(reservations') = SpentSet(reservations) \cup {i}
      /\ i \in OpenSet(reservations)
  BY <1>1, <1>2 DEF OpenSet, SpentSet
<1> QED BY <1>4, <1>5 DEF Spends

\* The held slots are the units of the open and the spent rows.
LEMMA HeldAreSlots ==
  ASSUME NEW rows
  PROVE  HeldSlots(rows) = Slots(Plans(rows), OpenSet(rows) \cup SpentSet(rows))
<1>1. OpenSet(rows) \cup SpentSet(rows) = {j \in DOMAIN rows : rows[j].state \in {"RESERVED", "CONSUMED"}}
  BY DEF OpenSet, SpentSet
<1>2. \A i \in DOMAIN rows : Plans(rows)[i].units = rows[i].request.units
  BY DEF Plans
<1> QED BY <1>1, <1>2 DEF HeldSlots, Slots

\* An inserted row is a ticket, issued when what was stale is given back.
LEMMA InsertIssues ==
  ASSUME reservations \in Seq(Reservation), NEW rows \in Seq(Reservation), GivenBack(rows, reservations),
         NEW r \in Request, NEW t \in Nat, HasRoom(rows, r), Open(rows, r) = {},
         reservations' = Append(rows, NewRow(r, t)), Len(reservations') <= MaxRows, posts' = posts
  PROVE  \E n \in 1..MaxRows : Issues(n, r, OpenSet(rows))
<1> DEFINE n == Len(rows) + 1
           kept == OpenSet(rows)
<1>1. /\ n \in Nat /\ n # 0 /\ DOMAIN reservations' = DOMAIN rows \cup {n} /\ n \notin DOMAIN rows
      /\ Len(reservations') = n /\ reservations'[n] = NewRow(r, t)
      /\ \A i \in DOMAIN rows : reservations'[i] = rows[i]
  BY NewRowIsRow
<1>2. NewRow(r, t).request = r /\ NewRow(r, t).state = "RESERVED"
  BY DEF NewRow
<1>3. n \in 1..MaxRows
  BY <1>1
<1> HIDE DEF n
<1>4. Plans(rows) = Plans(reservations) /\ SpentSet(rows) = SpentSet(reservations)
      /\ kept \subseteq OpenSet(reservations)
  BY DEF GivenBack
<1>5. OpenSet(reservations') = kept \cup {n} /\ SpentSet(reservations') = SpentSet(rows)
  BY <1>1, <1>2 DEF OpenSet, SpentSet
<1>6. Plans(reservations') = [u \in DOMAIN Plans(rows) \cup {n} |-> IF u = n THEN r ELSE Plans(rows)[u]]
  <2>1. DOMAIN Plans(rows) = DOMAIN rows /\ \A u \in DOMAIN rows : Plans(rows)[u] = rows[u].request
    BY DEF Plans
  <2>2. Plans(reservations') = [u \in DOMAIN rows \cup {n} |-> reservations'[u].request]
    BY <1>1 DEF Plans
  <2>3. \A u \in DOMAIN rows \cup {n} :
          reservations'[u].request = IF u = n THEN r ELSE Plans(rows)[u]
    BY <1>1, <1>2, <2>1
  <2> QED BY <2>1, <2>2, <2>3
<1>7. n \notin DOMAIN Plans(rows)
  BY <1>1 DEF Plans
<1>8. \A u \in kept : Plans(rows)[u].fp # r.fp
  BY DEF Open, OpenSet, Plans
<1>9. Cardinality(kept) < MaxOpen
  BY DEF HasRoom, OpenRows, OpenSet
<1>10. r.units + Cardinality(Slots(Plans(rows), kept \cup SpentSet(rows))) <= MaxUnits
  BY HeldAreSlots DEF HasRoom, HeldUnits
<1>11. Issues(n, r, kept)
  <2> HIDE DEF kept
  <2> QED BY <1>4, <1>5, <1>6, <1>7, <1>8, <1>9, <1>10 DEF Issues
<1> QED BY <1>3, <1>11
\* What a step of the store does to the ledger.
Accounted ==
  \/ GivesBack
  \/ \E n \in 1..MaxRows, p \in Request, kept \in SUBSET OpenSet(reservations) : Issues(n, p, kept)
  \/ \E n \in 1..MaxRows : Spends(n) \/ Pays(n)

\* A step that leaves the table and the payments alone gives back nothing.
LEMMA QuietIsAccounted ==
  ASSUME reservations' = reservations, posts' = posts
  PROVE  Accounted
BY DEF Accounted, GivesBack, GivenBack

\* try_reserve gives back what is stale, and issues one ticket or none.
LEMMA ReserveIsAccounted ==
  ASSUME IInv, NEW c \in Caller, TryReserve(c)
  PROVE  Accounted
<1> DEFINE t == call[c].moment
           r == Aim(c)
           rows == ExpireStale(reservations, t)
           answer == Reserve(rows, r, t)
<1>1. reservations \in Seq(Reservation) /\ r \in Request /\ t \in Nat
  BY DEF IInv, TypeOK, TryReserve, At, Call
<1>2. rows \in Seq(Reservation) /\ GivenBack(rows, reservations)
  BY <1>1, ExpiryFollows, ExpiryGivesBack DEF Follows
<1>3. reservations' = answer.rows /\ Len(answer.rows) <= MaxRows /\ posts' = posts
  BY DEF TryReserve
<1>4. \/ answer.rows = rows
      \/ /\ answer.rows = Append(rows, NewRow(r, t))
         /\ HasRoom(rows, r) /\ Open(rows, r) = {}
  BY ReserveAnswers DEF Refuse, Insert
<1> HIDE DEF answer, rows, r, t
<1>5. CASE answer.rows = rows
  <2>1. GivenBack(reservations', reservations)
    BY <1>2, <1>3, <1>5
  <2> QED BY <1>3, <2>1 DEF Accounted, GivesBack
<1>6. CASE /\ answer.rows = Append(rows, NewRow(r, t))
           /\ HasRoom(rows, r) /\ Open(rows, r) = {}
  <2>1. \E n \in 1..MaxRows : Issues(n, r, OpenSet(rows))
    BY <1>1, <1>2, <1>3, <1>6, InsertIssues
  <2>2. OpenSet(rows) \in SUBSET OpenSet(reservations)
    BY <1>2 DEF GivenBack
  <2> QED BY <1>1, <2>1, <2>2 DEF Accounted
<1> QED BY <1>4, <1>5, <1>6

\* A caller that releases its open row, or expires it, gives it back.
LEMMA HolderIsAccounted ==
  ASSUME IInv, NEW c \in Caller, call[c].at \notin {"idle", "reserve"}, Row(c).state = "RESERVED",
         NEW s \in {"RELEASED", "EXPIRED"}, posts' = posts,
         reservations' = [reservations EXCEPT ![call[c].held].state = s]
  PROVE  Accounted
<1> DEFINE i == call[c].held
<1>1. reservations \in Seq(Reservation) /\ i \in DOMAIN reservations
  BY Holder DEF IInv, TypeOK, Ids
<1>2. reservations[i].state = "RESERVED" /\ s \in Settled /\ reservations[i] \in Reservation
  BY <1>1 DEF Row, Settled
<1>3. /\ Follows(reservations', reservations)
      /\ reservations'[i] = [reservations[i] EXCEPT !.state = s]
  BY <1>1, <1>2, ReleaseFollows
<1>4. reservations'[i].state = s
  BY <1>2, <1>3 DEF Reservation
<1>5. \A j \in DOMAIN reservations :
        reservations'[j] = reservations[j] \/ reservations'[j].state # "CONSUMED"
  BY <1>1, <1>4
<1>6. GivenBack(reservations', reservations)
  BY <1>1, <1>3, <1>5, FollowsGivesBack
<1> QED BY <1>6 DEF Accounted, GivesBack

\* A consume spends the row it is asked for.
LEMMA ConsumeIsAccounted ==
  ASSUME IInv, NEW i \in Ids, reservations[i].state = "RESERVED", NEW t \in Nat,
         reservations' = Consumed(i, t), posts' = posts
  PROVE  Accounted
<1>1. TypeOK /\ i \in 1..MaxRows
  BY DEF IInv, TypeOK, Ids
<1>2. Spends(i)
  BY <1>1, ConsumeSpends
<1> QED BY <1>1, <1>2 DEF Accounted

\* So does the consume that follows a cached result.
LEMMA CachedIsAccounted ==
  ASSUME IInv, NEW r \in Request, MaySettle(r), reservations' = Consumed(cached[r.fp], now),
         posts' = posts
  PROVE  Accounted
<1>1. now \in Nat /\ cached[r.fp] \in Ids /\ reservations[cached[r.fp]].state = "RESERVED"
  BY DEF IInv, TypeOK, MaySettle, Ids
<1> QED BY <1>1, ConsumeIsAccounted

\* The POST pays for the row that its caller consumed, and pays first.
LEMMA PostIsAccounted ==
  ASSUME IInv, NEW c \in Caller, Post(c)
  PROVE  Accounted
<1> DEFINE i == call[c].held
<1>1. /\ call[c].at = "post" /\ reservations' = reservations
      /\ posts' = [posts EXCEPT ![i] = Append(@, Aim(c))]
  BY DEF Post, At, store
<1>2. i \in Ids /\ i \in 1..MaxRows /\ posts \in [1..MaxRows -> Seq(Request)]
  <2>1. TypeOK
    BY DEF IInv
  <2>2. i \in Ids
    BY <1>1, <2>1, Holder
  <2> QED BY <2>1, <2>2 DEF TypeOK, Ids
<1>3. reservations[i].state = "CONSUMED" /\ reservations[i].request = Aim(c) /\ posts[i] = <<>>
  BY <1>1 DEF IInv, Paying, At, Row
<1>4. posts' = [posts EXCEPT ![i] = <<Aim(c)>>]
  BY <1>1, <1>2, <1>3
<1>5. i \in SpentSet(reservations) /\ Plans(reservations)[i] = Aim(c)
  BY <1>2, <1>3 DEF SpentSet, Plans, Ids
<1>6. Pays(i)
  BY <1>1, <1>3, <1>4, <1>5 DEF Pays
<1> QED BY <1>2, <1>6 DEF Accounted

\* Every step of the store and of its callers is one of the ledger.
LEMMA StepIsAccounted == ASSUME IInv, [Next]_vars PROVE Accounted
<1>1. ASSUME NEW c \in Caller, NEW r \in Request, Resolve(c, r) PROVE Accounted
  BY <1>1, QuietIsAccounted DEF Resolve, store
<1>2. ASSUME NEW c \in Caller, TryReserve(c) PROVE Accounted
  BY <1>2, ReserveIsAccounted
<1>3. ASSUME NEW c \in Caller, Recheck(c) PROVE Accounted
  BY <1>3, QuietIsAccounted DEF Recheck, store
<1>4. ASSUME NEW c \in Caller, Release(c) PROVE Accounted
  <2>1. call[c].at \notin {"idle", "reserve"} /\ posts' = posts
    BY <1>4 DEF Release, At
  <2>2. CASE Row(c).state = "RESERVED"
    <3>1. reservations' = [reservations EXCEPT ![call[c].held].state = "RELEASED"]
      BY <1>4, <2>2 DEF Release
    <3> QED BY <2>1, <2>2, <3>1, HolderIsAccounted
  <2>3. CASE Row(c).state # "RESERVED"
    <3>1. reservations' = reservations
      BY <1>4, <2>3 DEF Release
    <3> QED BY <2>1, <3>1, QuietIsAccounted
  <2> QED BY <2>2, <2>3
<1>5. ASSUME NEW c \in Caller, Consume(c) PROVE Accounted
  <2> DEFINE i == call[c].held
             t == call[c].moment
  <2>1. call[c].at \notin {"idle", "reserve"} /\ posts' = posts
    BY <1>5 DEF Consume, At
  <2>2. CASE MayConsume(i, Aim(c), t)
    <3>1. reservations' = Consumed(i, t) /\ reservations[i].state = "RESERVED"
      BY <1>5, <2>2 DEF Consume, MayConsume
    <3>2. i \in Ids /\ t \in Nat
      BY <2>1, Holder DEF IInv, Call
    <3> QED BY <2>1, <3>1, <3>2, ConsumeIsAccounted
  <2>3. CASE ~MayConsume(i, Aim(c), t)
    <3>1. reservations' = reservations
      BY <1>5, <2>3 DEF Consume
    <3> QED BY <2>1, <3>1, QuietIsAccounted
  <2> QED BY <2>2, <2>3
<1>6. ASSUME NEW c \in Caller, Post(c) PROVE Accounted
  BY <1>6, PostIsAccounted
<1>7. ASSUME NEW c \in Caller, PersistCached(c) PROVE Accounted
  BY <1>7, QuietIsAccounted DEF PersistCached
<1>8. ASSUME NEW c \in Caller, Settle(c) PROVE Accounted
  <2>1. Aim(c) \in Request /\ posts' = posts
    BY <1>8, Holder DEF Settle, At, IInv
  <2>2. CASE cached[Aim(c).fp] = call[c].held /\ MaySettle(Aim(c))
    <3>1. reservations' = Consumed(cached[Aim(c).fp], now)
      BY <1>8, <2>2 DEF Settle
    <3> QED BY <2>1, <2>2, <3>1, CachedIsAccounted
  <2>3. CASE ~(cached[Aim(c).fp] = call[c].held /\ MaySettle(Aim(c)))
    <3>1. reservations' = reservations
      BY <1>8, <2>3 DEF Settle
    <3> QED BY <2>1, <3>1, QuietIsAccounted
  <2> QED BY <2>2, <2>3
<1>9. ASSUME NEW c \in Caller, NEW state \in {"RELEASED", "EXPIRED"}, GiveUp(c, state)
      PROVE  Accounted
  <2>1. /\ call[c].at \notin {"idle", "reserve"} /\ posts' = posts /\ Row(c).state = "RESERVED"
        /\ reservations' = [reservations EXCEPT ![call[c].held].state = state]
    BY <1>9 DEF GiveUp, At
  <2> QED BY <2>1, HolderIsAccounted
<1>10. ASSUME NEW r \in Request, RecoverCached(r) PROVE Accounted
  BY <1>10, CachedIsAccounted DEF RecoverCached
<1>11. CASE Restart \/ Sweep
  <2>1. reservations' = ExpireStale(reservations, now) /\ posts' = posts
    BY <1>11 DEF Restart, Sweep
  <2>2. reservations \in Seq(Reservation) /\ now \in Nat
    BY DEF IInv, TypeOK
  <2>3. GivenBack(ExpireStale(reservations, now), reservations)
    BY <2>2, ExpiryGivesBack
  <2>4. GivenBack(reservations', reservations)
    BY <2>1, <2>3
  <2> QED BY <2>1, <2>4 DEF Accounted, GivesBack
<1>12. CASE (\E f \in Fingerprint : JobCompletes(f)) \/ Tick
  BY <1>12, QuietIsAccounted DEF JobCompletes, Tick, store
<1>13. CASE UNCHANGED vars
  BY <1>13, QuietIsAccounted DEF vars, store
<1> QED BY <1>1, <1>2, <1>3, <1>4, <1>5, <1>6, <1>7, <1>8, <1>9, <1>10, <1>11, <1>12, <1>13 DEF Next

\* What the instance substitutes for the ledger's variables.
LEMMA Mapped ==
  /\ Plans(reservations) = [i \in Ids |-> reservations[i].request]
  /\ OpenSet(reservations) = In("RESERVED") /\ SpentSet(reservations) = In("CONSUMED")
  /\ Plans(reservations') = [i \in Ids |-> reservations[i].request]'
  /\ OpenSet(reservations') = In("RESERVED")' /\ SpentSet(reservations') = In("CONSUMED")'
BY DEF Plans, OpenSet, SpentSet, In, Ids

\* The instance's cardinality is the library's.
LEMMA SameCardinality == \A S : Account!Cardinality(S) = Cardinality(S)
BY Zenon DEF Account!Cardinality, Cardinality

\* An empty table is an empty ledger.
LEMMA InitMaps == Init => Account!Init
BY DEF Init, Account!Init, In, Ids

\* The instance counts the units that Slots does.
LEMMA SameUnits ==
  \A tickets : Account!Units(tickets) = Slots(Plans(reservations), tickets)
BY Mapped DEF Account!Units, Slots

\* Every step of the store is a step of UnitAccount, or a stutter.
LEMMA StepMaps == IInv /\ [Next]_vars => [Account!Next]_(Account!vars)
<1> SUFFICES ASSUME IInv, [Next]_vars PROVE Account!Next
  OBVIOUS
<1>1. CASE GivesBack
  <2>1. Account!GiveBack
    BY <1>1, Mapped DEF GivesBack, GivenBack, Account!GiveBack
  <2> QED BY <2>1 DEF Account!Next
<1>2. CASE \E n \in 1..MaxRows, p \in Request, kept \in SUBSET OpenSet(reservations) :
             Issues(n, p, kept)
  <2>1. PICK n \in 1..MaxRows, p \in Request, kept \in SUBSET OpenSet(reservations) :
               Issues(n, p, kept)
    BY <1>2
  <2>2. Account!Issue(n, p, kept)
    BY <2>1, Mapped, SameCardinality, SameUnits DEF Issues, Account!Issue
  <2>3. kept \in SUBSET In("RESERVED")
    BY <2>1, Mapped
  <2> QED BY <2>1, <2>2, <2>3 DEF Account!Next
<1>3. CASE \E n \in 1..MaxRows : Spends(n)
  <2>1. PICK n \in 1..MaxRows : Spends(n)
    BY <1>3
  <2>2. Account!Spend(n)
    BY <2>1, Mapped DEF Spends, Account!Spend
  <2> QED BY <2>2 DEF Account!Next
<1>4. CASE \E n \in 1..MaxRows : Pays(n)
  <2>1. PICK n \in 1..MaxRows : Pays(n)
    BY <1>4
  <2>2. Account!Pay(n)
    BY <2>1, Mapped DEF Pays, Account!Pay
  <2> QED BY <2>2 DEF Account!Next
<1> QED BY <1>1, <1>2, <1>3, <1>4, StepIsAccounted DEF Accounted

\* The store implements UnitAccount, for any callers, requests, caps, windows,
\* zones and crashes: a unit is held for one request of a fingerprint, is spent
\* once, and pays for its own plan once.
THEOREM StoreImplementsAccount == Spec => AccountSpec
<1>1. Init => Account!Init
  BY InitMaps
<1>2. IInv /\ [Next]_vars => [Account!Next]_(Account!vars)
  BY StepMaps
<1> QED BY <1>1, <1>2, Invariant, PTL DEF Spec, AccountSpec, Account!Spec
=============================================================================
