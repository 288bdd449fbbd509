----------------------- MODULE SharedAcquisitionProofs -----------------------
(***************************************************************************)
(* Proofs about SharedAcquisition, for every set of processes and          *)
(* fingerprints and every limit.                                           *)
(***************************************************************************)
EXTENDS SharedAcquisition, FiniteSetTheorems, TLAPS

\* The call of an idle process is a call.
LEMMA NoCallType == NoCall \in Call
  BY FingerprintAssumption, DocumentAssumption, BoundsAssumption
  DEF NoCall, Call, Generation, Day, NoActivity

\* The absent row is a row.
LEMMA AbsentRowType == AbsentRow \in Row
  BY DocumentAssumption, BoundsAssumption
  DEF AbsentRow, Row, Day, NoActivity, State

\* What SetRow does to the table.
LEMMA SetRowEffect ==
    ASSUME rows \in [Fingerprint -> [Generation -> Row]],
           NEW f \in Fingerprint, NEW g \in Generation, NEW row \in Row,
           SetRow(f, g, row)
    PROVE  /\ rows' \in [Fingerprint -> [Generation -> Row]]
           /\ rows'[f][g] = row
           /\ \A e \in Fingerprint, h \in Generation :
                 <<e, h>> # <<f, g>> => rows'[e][h] = rows[e][h]
  BY DEF SetRow

\* What closing a call does to it.
LEMMA EndEffect ==
    ASSUME NEW p \in Process, End(p),
           pc \in [Process -> Control], session \in [Process -> BOOLEAN],
           call \in [Process -> Call]
    PROVE  /\ pc' \in [Process -> Control] /\ session' \in [Process -> BOOLEAN]
           /\ call' \in [Process -> Call]
           /\ pc'[p] = "idle" /\ ~session'[p]
           /\ \A q \in Process : q # p =>
                 pc'[q] = pc[q] /\ session'[q] = session[q] /\ call'[q] = call[q]
  BY NoCallType DEF End, Control

\* Type correctness: every value a process, a session, a row or the vendor holds is
\* one the code or the schema can produce.
THEOREM TypeCorrect == Spec => []TypeOK
<1>1. Init => TypeOK
  BY NoCallType, AbsentRowType, BoundsAssumption
  DEF Init, TypeOK, Control, Day
<1>2. TypeOK /\ [Next]_vars => TypeOK'
  <2> SUFFICES ASSUME TypeOK, [Next]_vars PROVE TypeOK'
    OBVIOUS
  <2> USE DEF TypeOK
  <2>1. ASSUME NEW p \in Process, End(p), UNCHANGED <<rows, vendorVars, day>>
        PROVE  TypeOK'
    BY <2>1, EndEffect DEF vendorVars
  <2>2. ASSUME NEW p \in Process, ReadRow(p) PROVE TypeOK'
    <3>1. CASE ReadEnds(p)
      BY <3>1, <2>1 DEF ReadEnds
    <3>2. CASE ReadAmbiguous(p)
      BY <3>2 DEF ReadAmbiguous, Goto, Control, Call, vendorVars
    <3>3. CASE ReadResume(p)
      <4>1. PICK g \in Generation :
              call' = [call EXCEPT ![p].gen = g, ![p].act = rows[call[p].fp][g].act]
        BY <3>3 DEF ReadResume
      <4>2. call[p] \in Call /\ rows[call[p].fp][g].act \in Nat
        BY DEF Call, Row
      <4>3. call' \in [Process -> Call]
        BY <4>1, <4>2 DEF Call
      <4> QED BY <3>3, <4>3 DEF ReadResume, Goto, Control, vendorVars
    <3>4. CASE ReadNew(p)
      <4>1. PICK g \in Generation : call' = [call EXCEPT ![p].gen = g]
        BY <3>4 DEF ReadNew
      <4>2. call' \in [Process -> Call]
        BY <4>1 DEF Call
      <4>3. Goto(p, "allowance") /\ UNCHANGED <<rows, vendorVars, day>>
        BY <3>4 DEF ReadNew
      <4> QED BY <4>2, <4>3 DEF Goto, Control, vendorVars
    <3> QED BY <2>2, <3>1, <3>2, <3>3, <3>4 DEF ReadRow
  <2>3. ASSUME NEW p \in Process, ParkUnknown(p) \/ RecordFailure(p) \/ StoreResult(p)
        PROVE  TypeOK'
    <3>1. call[p].fp \in Fingerprint /\ call[p].gen \in Generation
      BY DEF Call
    <3>2. rows[call[p].fp][call[p].gen] \in Row
      BY <3>1
    <3>3. PICK row \in Row : SetRow(call[p].fp, call[p].gen, row)
      BY <2>3, <3>2 DEF ParkUnknown, RecordFailure, StoreResult, SetState, Row, State
    <3>4. rows' \in [Fingerprint -> [Generation -> Row]]
      BY <3>1, <3>3, SetRowEffect
    <3>5. End(p) /\ UNCHANGED <<vendorVars, day>>
      BY <2>3 DEF ParkUnknown, RecordFailure, StoreResult
    <3> QED BY <3>4, <3>5, EndEffect DEF vendorVars
  <2>4. ASSUME NEW p \in Process, InsertRow(p) \/ SaveActivity(p) PROVE TypeOK'
    <3>1. call[p].fp \in Fingerprint /\ call[p].gen \in Generation /\ call[p] \in Call
      BY DEF Call
    <3>2. rows[call[p].fp][call[p].gen] \in Row
      BY <3>1
    <3>3. PICK row \in Row : SetRow(call[p].fp, call[p].gen, row)
      <4>1. CASE InsertRow(p)
        BY <4>1, <3>1 DEF InsertRow, Row, State, Call, NoActivity
      <4>2. CASE SaveActivity(p)
        BY <4>2, <3>1, <3>2 DEF SaveActivity, Row, State, Call
      <4> QED BY <2>4, <4>1, <4>2
    <3>4. rows' \in [Fingerprint -> [Generation -> Row]]
      BY <3>1, <3>3, SetRowEffect
    <3> QED BY <2>4, <3>4 DEF InsertRow, SaveActivity, Goto, Control, vendorVars
  <2>5. ASSUME NEW p \in Process, TakeAllowance(p) PROVE TypeOK'
    <3>1. CASE End(p)
      BY <2>5, <3>1, <2>1 DEF TakeAllowance
    <3>2. CASE call' = [call EXCEPT ![p].day = day] /\ Goto(p, "insert")
      BY <2>5, <3>2 DEF TakeAllowance, Goto, Control, Call, vendorVars
    <3> QED BY <2>5, <3>1, <3>2 DEF TakeAllowance
  <2>6. ASSUME NEW p \in Process, SendPost(p) PROVE TypeOK'
    BY <2>6 DEF SendPost, Goto, Control, Post, Call
  <2>7. ASSUME NEW p \in Process, SubmitFails(p) \/ SubmitReturns(p) \/ PollReturns(p)
        PROVE  TypeOK'
    BY <2>7 DEF SubmitFails, SubmitReturns, PollReturns, Goto, Control, vendorVars
  <2>8. ASSUME NEW p \in Process, PollTimesOut(p) \/ StorageError(p) \/ Crash(p)
        PROVE  TypeOK'
    BY <2>8, <2>1 DEF PollTimesOut, StorageError, Crash
  <2>9. ASSUME NEW p \in Process, CutSession(p) PROVE TypeOK'
    BY <2>9 DEF CutSession, vendorVars
  <2>10. ASSUME NEW p \in Process, NEW f \in Fingerprint, NEW d \in Document,
                Start(p, f, d)
         PROVE  TypeOK'
    BY <2>10, NoCallType DEF Start, Call, Control, vendorVars
  <2>11. ASSUME NEW m \in wire, VendorAccepts(m) \/ PostLost(m) PROVE TypeOK'
    <3>1. CASE PostLost(m)
      BY <3>1 DEF PostLost
    <3>2. CASE VendorAccepts(m)
      <4>1. m \in Post
        OBVIOUS
      <4>2. orders' \in Seq(Order) /\ Len(orders') = Len(orders) + 1 /\ Len(orders) \in Nat
        BY <3>2, <4>1 DEF VendorAccepts, Post, Order
      <4>3. call' \in [Process -> Call]
        <5>1. m.proc \in Process
          BY <4>1 DEF Post
        <5>2. CASE call' = call
          BY <5>2
        <5>3. CASE call' = [call EXCEPT ![m.proc].act = Len(orders) + 1]
          <6>1. call[m.proc] \in Call /\ Len(orders) + 1 \in Nat
            BY <5>1, <4>2
          <6>2. [call[m.proc] EXCEPT !.act = Len(orders) + 1] \in Call
            BY <6>1 DEF Call
          <6> QED BY <5>1, <5>3, <6>2 DEF TypeOK
        <5> QED BY <3>2, <5>2, <5>3 DEF VendorAccepts
      <4> QED BY <3>2, <4>2, <4>3 DEF VendorAccepts
    <3> QED BY <2>11, <3>1, <3>2
  <2>12. ASSUME NEW i \in 1..Len(orders), VendorFinishes(i) PROVE TypeOK'
    BY <2>12 DEF VendorFinishes
  <2>13. ASSUME NEW f \in Fingerprint, NEW g \in Generation, Expire(f, g)
         PROVE  TypeOK'
    <3>1. [rows[f][g] EXCEPT !.expiry = "past"] \in Row
      <4>1. rows[f][g] \in Row
        OBVIOUS
      <4> QED BY <4>1 DEF Row
    <3> QED BY <2>13, <3>1, SetRowEffect DEF Expire, vendorVars
  <2>14. CASE NextDay
    BY <2>14, BoundsAssumption DEF NextDay, Day, vendorVars
  <2>15. CASE UNCHANGED vars
    BY <2>15 DEF vars
  <2> QED
    BY <2>2, <2>3, <2>4, <2>5, <2>6, <2>7, <2>8, <2>9, <2>10, <2>11, <2>12,
       <2>13, <2>14, <2>15 DEF Next, Step
<1> QED BY <1>1, <1>2, PTL DEF Spec

-----------------------------------------------------------------------------
(* Who owns the locks.                                                     *)

\* Start opens p's session and leaves the others alone.
LEMMA StartEffect ==
    ASSUME TypeOK, NEW p \in Process, NEW f \in Fingerprint, NEW d \in Document,
           Start(p, f, d)
    PROVE  /\ session'[p] /\ pc'[p] = "read" /\ call'[p].fp = f /\ call'[p].doc = d
           /\ \A q \in Process : q # p =>
                 pc'[q] = pc[q] /\ session'[q] = session[q] /\ call'[q] = call[q]
  BY NoCallType DEF TypeOK, Start, Call

StartStep == \E p \in Process, f \in Fingerprint, d \in Document : Start(p, f, d)

\* No other step opens a session, and an open session keeps its fingerprint.
SessionsKept ==
    \A q \in Process : session'[q] => /\ session[q] /\ call'[q].fp = call[q].fp
                                      /\ (pc'[q] = "idle" => pc[q] = "idle")

\* A step other than the start of a call leaves sessions with their owners.
LEMMA SessionStep ==
    ASSUME TypeOK, Next, ~StartStep
    PROVE  SessionsKept
<1> USE DEF TypeOK, SessionsKept
<1>1. ASSUME NEW p \in Process, End(p)
      PROVE  SessionsKept
  BY <1>1, EndEffect
<1>2. ASSUME NEW p \in Process, Step(p)
      PROVE  SessionsKept
  <2>1. CASE End(p)
    BY <2>1, <1>1
  <2>2. CASE /\ \E l \in Control \ {"idle"} : Goto(p, l)
             /\ \/ UNCHANGED call
                \/ \E g \in Generation : call' = [call EXCEPT ![p].gen = g]
                \/ \E g \in Generation, a \in Nat :
                      call' = [call EXCEPT ![p].gen = g, ![p].act = a]
                \/ \E d \in Day : call' = [call EXCEPT ![p].day = d]
    <3>1. \A q \in Process : call'[q].fp = call[q].fp
      <4>1. \A q \in Process : call[q] \in Call
        OBVIOUS
      <4> HIDE DEF TypeOK, SessionsKept
      <4>2. ASSUME NEW g \in Generation, call' = [call EXCEPT ![p].gen = g]
            PROVE  \A q \in Process : call'[q].fp = call[q].fp
        BY <4>2, <4>1, TypeOK DEF TypeOK, Call
      <4>3. ASSUME NEW g \in Generation, NEW a \in Nat,
                   call' = [call EXCEPT ![p].gen = g, ![p].act = a]
            PROVE  \A q \in Process : call'[q].fp = call[q].fp
        BY <4>3, <4>1, TypeOK DEF TypeOK, Call
      <4>4. ASSUME NEW d \in Day, call' = [call EXCEPT ![p].day = d]
            PROVE  \A q \in Process : call'[q].fp = call[q].fp
        BY <4>4, <4>1, TypeOK DEF TypeOK, Call
      <4> QED BY <2>2, <4>2, <4>3, <4>4
    <3>2. UNCHANGED session /\ \A q \in Process : pc'[q] = "idle" => pc[q] = "idle"
      BY <2>2 DEF Goto
    <3> QED BY <3>1, <3>2
  <2>3. End(p) \/ (/\ \E l \in Control \ {"idle"} : Goto(p, l)
                   /\ \/ UNCHANGED call
                      \/ \E g \in Generation : call' = [call EXCEPT ![p].gen = g]
                      \/ \E g \in Generation, a \in Nat :
                            call' = [call EXCEPT ![p].gen = g, ![p].act = a]
                      \/ \E d \in Day : call' = [call EXCEPT ![p].day = d])
    <3>1. CASE ReadRow(p)
      <4>1. CASE ReadResume(p)
        <5>1. PICK g \in Generation :
                call' = [call EXCEPT ![p].gen = g, ![p].act = rows[call[p].fp][g].act]
          BY <4>1 DEF ReadResume
        <5>2. rows[call[p].fp][g].act \in Nat
          BY DEF Call, Row
        <5> QED BY <4>1, <5>1, <5>2 DEF ReadResume, Control
      <4> QED BY <3>1, <4>1 DEF ReadRow, ReadEnds, ReadAmbiguous, ReadNew, Control
    <3>2. CASE ~ReadRow(p)
      BY <1>2, <3>2 DEF Step, ParkUnknown, TakeAllowance, InsertRow, SendPost,
         SubmitFails, SubmitReturns, SaveActivity, PollReturns, PollTimesOut,
         RecordFailure, StoreResult, StorageError, Control
    <3> QED BY <3>1, <3>2
  <2> QED BY <2>1, <2>2, <2>3
<1>4. ASSUME NEW p \in Process, CutSession(p) \/ Crash(p)
      PROVE  SessionsKept
  BY <1>4, <1>1 DEF CutSession, Crash
<1>5. ASSUME NEW m \in wire, VendorAccepts(m)
      PROVE  SessionsKept
  <2>1. m.proc \in Process
    BY DEF Post
  <2>2. \A q \in Process : call'[q].fp = call[q].fp
    BY <1>5, <2>1 DEF VendorAccepts, Call
  <2>3. UNCHANGED <<pc, session>>
    BY <1>5 DEF VendorAccepts
  <2> QED BY <2>2, <2>3
<1>6. ASSUME UNCHANGED <<pc, session, call>>
      PROVE  SessionsKept
  BY <1>6
<1>7. (\E m \in wire : PostLost(m)) \/ (\E i \in 1..Len(orders) : VendorFinishes(i))
      \/ (\E f \in Fingerprint, g \in Generation : Expire(f, g)) \/ NextDay
      => UNCHANGED <<pc, session, call>>
  BY DEF PostLost, VendorFinishes, Expire, NextDay
<1> HIDE DEF TypeOK, SessionsKept
<1> QED
  BY <1>2, <1>4, <1>5, <1>6, <1>7 DEF Next, StartStep

\* Who is between pg_try_advisory_lock and its unlock, with its session alive, is the
\* only one there for its fingerprint.
THEOREM LockOwnershipInvariant == Spec => []LockOwnership
<1>1. Init => LockOwnership
  BY DEF Init, LockOwnership
<1>2. TypeOK /\ LockOwnership /\ [Next]_vars => LockOwnership'
  <2> SUFFICES ASSUME TypeOK, LockOwnership, [Next]_vars PROVE LockOwnership'
    OBVIOUS
  <2>1. CASE Next
    <3>1. CASE StartStep
      <4>1. PICK p \in Process, f \in Fingerprint, d \in Document : Start(p, f, d)
        BY <3>1 DEF StartStep
      <4>2. LockFree(f)
        BY <4>1 DEF Start
      <4> QED BY <4>1, <4>2, StartEffect DEF LockOwnership, LockFree
    <3>2. CASE ~StartStep
      BY <2>1, <3>2, SessionStep DEF LockOwnership, SessionsKept
    <3> QED BY <3>1, <3>2
  <2>2. CASE UNCHANGED vars
    BY <2>2 DEF vars, LockOwnership
  <2> QED BY <2>1, <2>2
<1> QED BY <1>1, <1>2, TypeCorrect, PTL DEF Spec

-----------------------------------------------------------------------------
(* What the rows and the calls say of one another.                         *)

TableInv == OnlyExpiredIsRebought /\ OneRequestPerFingerprint /\ CheckConstraint

\* A step of p that writes at most the row p owns leaves the other calls right.
LEMMA OthersKeepRows ==
    ASSUME TypeOK, LockOwnership, CallOwnsRow,
           NEW p \in Process, NEW q \in Process, q # p,
           pc'[q] = pc[q], session'[q] = session[q], call'[q] = call[q],
           \/ UNCHANGED rows
           \/ /\ session[p]
              /\ rows'[call[p].fp][call[p].gen].state # "ABSENT"
              /\ \A f \in Fingerprint, g \in Generation :
                    <<f, g>> # <<call[p].fp, call[p].gen>> => rows'[f][g] = rows[f][g]
    PROVE  OwnsRow(q)'
<1> call[q].fp \in Fingerprint /\ call[q].gen \in Generation
  BY DEF TypeOK, Call
<1>1. CASE UNCHANGED rows
  BY <1>1 DEF CallOwnsRow, OwnsRow, Exists
<1>2. CASE /\ session[p]
           /\ rows'[call[p].fp][call[p].gen].state # "ABSENT"
           /\ \A f \in Fingerprint, g \in Generation :
                 <<f, g>> # <<call[p].fp, call[p].gen>> => rows'[f][g] = rows[f][g]
  <2>1. CASE session[q]
    <3>1. call[q].fp # call[p].fp
      BY <1>2, <2>1 DEF LockOwnership
    <3>2. \A g \in Generation : rows'[call[q].fp][g] = rows[call[q].fp][g]
      BY <1>2, <3>1
    <3> QED BY <3>2 DEF CallOwnsRow, OwnsRow, Exists
  <2>2. CASE ~session[q]
    <3>1. Exists(call[q].fp, call[q].gen) => Exists(call[q].fp, call[q].gen)'
      BY <1>2 DEF Exists
    <3> QED BY <2>2, <3>1 DEF CallOwnsRow, OwnsRow
  <2> QED BY <2>1, <2>2
<1> QED BY <1>1, <1>2

\* Rewriting a row that is neither absent nor delivered keeps the table right.
LEMMA RewriteKeepsTable ==
    ASSUME TypeOK, TableInv, NEW f \in Fingerprint, NEW g \in Generation,
           rows[f][g].state \notin {"ABSENT", "RESULT_RECEIVED"},
           rows'[f][g].state # "ABSENT",
           rows'[f][g].doc = rows[f][g].doc,
           (rows'[f][g].act = NoActivity) =
              (rows'[f][g].state \in {"SUBMITTING", "UNKNOWN_VENDOR_STATE"}),
           \A e \in Fingerprint, h \in Generation :
              <<e, h>> # <<f, g>> => rows'[e][h] = rows[e][h]
    PROVE  TableInv'
<1>1. \A e \in Fingerprint, h \in Generation :
         /\ Exists(e, h)' = Exists(e, h)
         /\ rows'[e][h].doc = rows[e][h].doc
  BY DEF Exists
<1>2. \A h \in Generation : g < h => ~Exists(f, h)
  BY DEF TableInv, OnlyExpiredIsRebought
<1>3. OnlyExpiredIsRebought'
  BY <1>1, <1>2 DEF TableInv, OnlyExpiredIsRebought
<1>4. OneRequestPerFingerprint'
  BY <1>1 DEF TableInv, OneRequestPerFingerprint
<1>5. CheckConstraint'
  <2> SUFFICES ASSUME NEW e \in Fingerprint, NEW h \in Generation, Exists(e, h)'
               PROVE  (rows'[e][h].act = NoActivity) =
                  (rows'[e][h].state \in {"SUBMITTING", "UNKNOWN_VENDOR_STATE"})
    BY DEF CheckConstraint
  <2>1. CASE <<e, h>> = <<f, g>>
    BY <2>1
  <2>2. CASE <<e, h>> # <<f, g>>
    BY <2>2, <1>1 DEF TableInv, CheckConstraint
  <2> QED BY <2>1, <2>2
<1> QED BY <1>3, <1>4, <1>5 DEF TableInv

\* A step that writes no row keeps the table's invariant.
LEMMA SameRowsKeepTable ==
    ASSUME TableInv, UNCHANGED rows
    PROVE  TableInv'
  BY DEF TableInv, OnlyExpiredIsRebought, OneRequestPerFingerprint, CheckConstraint, Exists

\* What Goto does to the control points.
LEMMA GotoEffect ==
    ASSUME NEW p \in Process, NEW l \in Control, Goto(p, l),
           pc \in [Process -> Control]
    PROVE  /\ pc'[p] = l /\ UNCHANGED session
           /\ \A q \in Process : q # p => pc'[q] = pc[q]
  BY DEF Goto

RowsInv == CallOwnsRow /\ TableInv

\* A call that ends without writing.
LEMMA EndKeepsRows ==
    ASSUME TypeOK, LockOwnership, RowsInv, NEW p \in Process, End(p), UNCHANGED rows
    PROVE  RowsInv'
<1>1. OwnsRow(p)'
  BY EndEffect DEF TypeOK, OwnsRow
<1>2. \A q \in Process : q # p => OwnsRow(q)'
  BY EndEffect, OthersKeepRows DEF TypeOK, RowsInv
<1> QED BY <1>1, <1>2, SameRowsKeepTable DEF RowsInv, CallOwnsRow

\* A call that moves on without writing, its locals still true of its row.
LEMMA GotoKeepsRows ==
    ASSUME TypeOK, LockOwnership, RowsInv, NEW p \in Process, NEW l \in Control,
           Goto(p, l), UNCHANGED rows, OwnsRow(p)',
           \A q \in Process : q # p => call'[q] = call[q]
    PROVE  RowsInv'
<1>1. \A q \in Process : q # p => OwnsRow(q)'
  BY GotoEffect, OthersKeepRows DEF TypeOK, RowsInv
<1> QED BY <1>1, SameRowsKeepTable DEF RowsInv, CallOwnsRow

\* Reading the fingerprint's newest row keeps the rows' invariant.
LEMMA ReadKeepsRows ==
    ASSUME TypeOK, LockOwnership, RowsInv, NEW p \in Process, ReadRow(p)
    PROVE  RowsInv'
<1> call[p] \in Call /\ call[p].fp \in Fingerprint
  BY DEF TypeOK, Call
<1>1. CASE ReadEnds(p)
  BY <1>1, EndKeepsRows DEF ReadEnds
<1>2. CASE ReadAmbiguous(p)
  <2>1. PICK g \in Generation :
          /\ IsLatest(call[p].fp, g)
          /\ rows[call[p].fp][g].state \in {"SUBMITTING", "UNKNOWN_VENDOR_STATE"}
          /\ call' = [call EXCEPT ![p].gen = g]
    BY <1>2 DEF ReadAmbiguous
  <2>2. call'[p].fp = call[p].fp /\ call'[p].gen = g /\ UNCHANGED rows /\ Goto(p, "park")
        /\ \A q \in Process : q # p => call'[q] = call[q]
    BY <1>2, <2>1 DEF ReadAmbiguous, TypeOK, Call
  <2>3. OwnsRow(p)'
    BY <2>1, <2>2, GotoEffect DEF OwnsRow, Exists, Control, TypeOK
  <2> QED BY <2>2, <2>3, GotoKeepsRows DEF Control
<1>3. CASE ReadResume(p)
  <2>1. PICK g \in Generation :
          /\ IsLatest(call[p].fp, g)
          /\ rows[call[p].fp][g].state = "ACTIVITY_ID_PERSISTED"
          /\ call' = [call EXCEPT ![p].gen = g, ![p].act = rows[call[p].fp][g].act]
    BY <1>3 DEF ReadResume
  <2>2. call'[p].fp = call[p].fp /\ call'[p].gen = g
        /\ call'[p].act = rows[call[p].fp][g].act
    BY <2>1 DEF TypeOK, Call
  <2>3. UNCHANGED rows /\ Goto(p, "poll")
        /\ \A q \in Process : q # p => call'[q] = call[q]
    BY <1>3, <2>1 DEF ReadResume, TypeOK
  <2>4. rows[call[p].fp][g].act # NoActivity
    BY <2>1 DEF RowsInv, TableInv, CheckConstraint, Exists
  <2>5. OwnsRow(p)'
    BY <2>1, <2>2, <2>3, <2>4, GotoEffect DEF OwnsRow, Exists, Control, TypeOK
  <2> QED BY <2>3, <2>5, GotoKeepsRows DEF Control
<1>4. CASE ReadNew(p)
  <2>1. PICK g \in Generation :
          /\ \/ NoRow(call[p].fp) /\ g = 1
             \/ \E h \in Generation :
                   /\ g = h + 1
                   /\ IsLatest(call[p].fp, h) /\ ~Mismatch(p, h)
                   /\ rows[call[p].fp][h].state = "RESULT_RECEIVED"
                   /\ rows[call[p].fp][h].expiry = "past"
          /\ call' = [call EXCEPT ![p].gen = g]
    BY <1>4 DEF ReadNew
  <2>2. call'[p].fp = call[p].fp /\ call'[p].gen = g /\ call'[p].doc = call[p].doc
        /\ UNCHANGED rows /\ Goto(p, "allowance")
        /\ \A q \in Process : q # p => call'[q] = call[q]
    BY <1>4, <2>1 DEF ReadNew, TypeOK, Call
  <2>3. \A k \in Generation :
          IF k < g THEN /\ rows[call[p].fp][k].state = "RESULT_RECEIVED"
                        /\ rows[call[p].fp][k].expiry = "past"
                        /\ rows[call[p].fp][k].doc = call[p].doc
                   ELSE ~Exists(call[p].fp, k)
    <3>1. CASE NoRow(call[p].fp) /\ g = 1
      BY <3>1 DEF NoRow, Generation
    <3>2. ASSUME NEW h \in Generation, g = h + 1, IsLatest(call[p].fp, h),
                 ~Mismatch(p, h), rows[call[p].fp][h].state = "RESULT_RECEIVED",
                 rows[call[p].fp][h].expiry = "past",
                 NEW k \in Generation
          PROVE  IF k < g THEN /\ rows[call[p].fp][k].state = "RESULT_RECEIVED"
                               /\ rows[call[p].fp][k].expiry = "past"
                               /\ rows[call[p].fp][k].doc = call[p].doc
                          ELSE ~Exists(call[p].fp, k)
      <4>1. k < h \/ k = h \/ k > h
        BY DEF Generation
      <4>2. CASE k < h
        <5>1. rows[call[p].fp][k].state = "RESULT_RECEIVED" /\ rows[call[p].fp][k].expiry = "past"
          BY <3>2, <4>2 DEF RowsInv, TableInv, OnlyExpiredIsRebought, IsLatest
        <5>2. rows[call[p].fp][k].doc = rows[call[p].fp][h].doc
          BY <3>2, <5>1 DEF RowsInv, TableInv, OneRequestPerFingerprint, IsLatest, Exists
        <5>3. k < g
          BY <3>2, <4>2 DEF Generation
        <5> QED BY <3>2, <5>1, <5>2, <5>3 DEF Mismatch
      <4>3. CASE k = h
        BY <3>2, <4>3 DEF Mismatch, Generation
      <4>4. CASE k > h
        BY <3>2, <4>4 DEF IsLatest, Generation
      <4> QED BY <4>1, <4>2, <4>3, <4>4
    <3> QED BY <2>1, <3>1, <3>2
  <2>4. pc'[p] = "allowance" /\ UNCHANGED session
    BY <2>2, GotoEffect DEF TypeOK, Control
  <2>5. OwnsRow(p)'
    BY <2>2, <2>3, <2>4 DEF OwnsRow, Exists
  <2> QED BY <2>2, <2>5, GotoKeepsRows DEF Control
<1> QED BY <1>1, <1>2, <1>3, <1>4 DEF ReadRow

\* A call that rewrites the row it owns and ends, or goes on owning it.
LEMMA RewriteKeepsRows ==
    ASSUME TypeOK, LockOwnership, RowsInv, NEW p \in Process, session[p],
           pc[p] \in {"park", "save", "fail", "store"},
           NEW row \in Row, SetRow(call[p].fp, call[p].gen, row),
           row.state # "ABSENT", row.doc = rows[call[p].fp][call[p].gen].doc,
           (row.act = NoActivity) =
              (row.state \in {"SUBMITTING", "UNKNOWN_VENDOR_STATE"}),
           \/ End(p)
           \/ /\ Goto(p, "poll") /\ UNCHANGED call
              /\ row.state = "ACTIVITY_ID_PERSISTED" /\ row.act = call[p].act
    PROVE  RowsInv'
<1> DEFINE f == call[p].fp
           g == call[p].gen
<1>1. f \in Fingerprint /\ g \in Generation
  BY DEF TypeOK, Call
<1>2. /\ rows'[f][g] = row
      /\ \A e \in Fingerprint, h \in Generation :
            <<e, h>> # <<f, g>> => rows'[e][h] = rows[e][h]
  BY <1>1, SetRowEffect DEF TypeOK
<1>3. rows[f][g].state \notin {"ABSENT", "RESULT_RECEIVED"}
  BY DEF RowsInv, CallOwnsRow, OwnsRow
<1>4. TableInv'
  BY <1>1, <1>2, <1>3, RewriteKeepsTable DEF RowsInv
<1>5. \A q \in Process : q # p =>
         pc'[q] = pc[q] /\ session'[q] = session[q] /\ call'[q] = call[q]
  BY EndEffect, GotoEffect DEF TypeOK, Control
<1>6. \A q \in Process : q # p => OwnsRow(q)'
  BY <1>2, <1>5, OthersKeepRows DEF RowsInv
<1>7. OwnsRow(p)'
  <2>1. CASE End(p)
    BY <2>1, EndEffect DEF TypeOK, OwnsRow
  <2>2. CASE /\ Goto(p, "poll") /\ UNCHANGED call
             /\ row.state = "ACTIVITY_ID_PERSISTED" /\ row.act = call[p].act
    <3>1. pc'[p] = "poll"
      BY <2>2, GotoEffect DEF TypeOK, Control
    <3>2. call[p].act # NoActivity
      BY <2>2
    <3> QED BY <1>2, <2>2, <3>1, <3>2 DEF OwnsRow, Exists
  <2> QED BY <2>1, <2>2
<1> QED BY <1>4, <1>6, <1>7 DEF RowsInv, CallOwnsRow

\* So do the updates of a row that exists.
LEMMA WritesKeepRows ==
    ASSUME TypeOK, LockOwnership, RowsInv, NEW p \in Process,
           ParkUnknown(p) \/ SaveActivity(p) \/ RecordFailure(p) \/ StoreResult(p)
    PROVE  RowsInv'
<1> DEFINE old == rows[call[p].fp][call[p].gen]
<1>1. old \in Row /\ call[p] \in Call
  BY DEF TypeOK, Call
<1>2. session[p] /\ OwnsRow(p) /\ Exists(call[p].fp, call[p].gen)
      => (old.act = NoActivity) =
            (old.state \in {"SUBMITTING", "UNKNOWN_VENDOR_STATE"})
  BY DEF RowsInv, TableInv, CheckConstraint, TypeOK, Call
<1>3. CASE ParkUnknown(p)
  <2>1. [old EXCEPT !.state = "UNKNOWN_VENDOR_STATE"] \in Row
    BY <1>1 DEF Row, State
  <2>2. old.act = NoActivity
    BY <1>2, <1>3 DEF ParkUnknown, Statement, RowsInv, CallOwnsRow, OwnsRow
  <2> QED BY <1>1, <1>3, <2>1, <2>2, RewriteKeepsRows
      DEF ParkUnknown, Statement, SetState, Row
<1>4. CASE SaveActivity(p)
  <2> DEFINE new == [old EXCEPT !.state = "ACTIVITY_ID_PERSISTED", !.act = call[p].act]
  <2>1. new \in Row
    BY <1>1 DEF Row, State, Call
  <2>2. call[p].act # NoActivity
    BY <1>4 DEF SaveActivity, Statement, RowsInv, CallOwnsRow, OwnsRow
  <2>3. new.state = "ACTIVITY_ID_PERSISTED" /\ new.act = call[p].act /\ new.doc = old.doc
    BY <1>1 DEF Row
  <2>4. SetRow(call[p].fp, call[p].gen, new) /\ Goto(p, "poll") /\ UNCHANGED call
        /\ session[p] /\ pc[p] = "save"
    BY <1>4 DEF SaveActivity, Statement
  <2> HIDE DEF new
  <2> QED BY <2>1, <2>2, <2>3, <2>4, RewriteKeepsRows
<1>5. CASE RecordFailure(p)
  <2>1. [old EXCEPT !.state = "FAILED_POST_SUBMIT"] \in Row
    BY <1>1 DEF Row, State
  <2>2. old.act # NoActivity
    BY <1>2, <1>5 DEF RecordFailure, Statement, RowsInv, CallOwnsRow, OwnsRow
  <2> QED BY <1>1, <1>5, <2>1, <2>2, RewriteKeepsRows
      DEF RecordFailure, Statement, SetState, Row
<1>6. CASE StoreResult(p)
  <2>1. PICK e \in {"live", "none"} :
          SetRow(call[p].fp, call[p].gen,
                 [old EXCEPT !.state = "RESULT_RECEIVED", !.expiry = e])
    BY <1>6 DEF StoreResult
  <2> DEFINE new == [old EXCEPT !.state = "RESULT_RECEIVED", !.expiry = e]
  <2>2. new \in Row
    BY <1>1 DEF Row, State
  <2>3. new.state = "RESULT_RECEIVED" /\ new.act = old.act /\ new.doc = old.doc
    BY <1>1 DEF Row
  <2>4. old.act # NoActivity
    BY <1>2, <1>6 DEF StoreResult, Statement, RowsInv, CallOwnsRow, OwnsRow
  <2>5. SetRow(call[p].fp, call[p].gen, new) /\ End(p) /\ session[p] /\ pc[p] = "store"
    BY <1>6, <2>1 DEF StoreResult, Statement
  <2> HIDE DEF new
  <2> QED BY <2>2, <2>3, <2>4, <2>5, RewriteKeepsRows
<1> QED BY <1>3, <1>4, <1>5, <1>6

\* So does the insert of a new generation.
LEMMA InsertKeepsRows ==
    ASSUME TypeOK, LockOwnership, RowsInv, NEW p \in Process, InsertRow(p)
    PROVE  RowsInv'
<1> DEFINE f == call[p].fp
           g == call[p].gen
           new == [state |-> "SUBMITTING", doc |-> call[p].doc, day |-> call[p].day,
                   act |-> NoActivity, expiry |-> "none"]
<1>1. f \in Fingerprint /\ g \in Generation /\ new \in Row
  BY DEF TypeOK, Call, Row, State, NoActivity
<1>2. SetRow(f, g, new) /\ session[p] /\ pc[p] = "insert" /\ Goto(p, "submit")
      /\ UNCHANGED call
  BY DEF InsertRow, Statement
<1>3. new.state = "SUBMITTING" /\ new.act = NoActivity /\ new.doc = call[p].doc
  OBVIOUS
<1> HIDE DEF new
<1>4. /\ rows'[f][g] = new
      /\ \A e \in Fingerprint, h \in Generation :
            <<e, h>> # <<f, g>> => rows'[e][h] = rows[e][h]
  BY <1>1, <1>2, SetRowEffect DEF TypeOK
<1>5. \A k \in Generation :
         IF k < g THEN /\ rows[f][k].state = "RESULT_RECEIVED"
                       /\ rows[f][k].expiry = "past"
                       /\ rows[f][k].doc = call[p].doc
                  ELSE ~Exists(f, k)
  BY <1>2 DEF RowsInv, CallOwnsRow, OwnsRow
<1>6. pc'[p] = "submit" /\ UNCHANGED session
      /\ \A q \in Process : q # p => pc'[q] = pc[q]
  BY <1>2, GotoEffect DEF TypeOK, Control
<1>7. \A q \in Process : q # p => OwnsRow(q)'
  BY <1>2, <1>3, <1>4, <1>6, OthersKeepRows DEF RowsInv
<1>8. OwnsRow(p)'
  BY <1>2, <1>3, <1>4, <1>6 DEF OwnsRow, Exists
<1>9. \A e \in Fingerprint, h \in Generation :
         Exists(e, h)' <=> Exists(e, h) \/ <<e, h>> = <<f, g>>
  BY <1>3, <1>4 DEF Exists
<1>10. OnlyExpiredIsRebought'
  <2> SUFFICES ASSUME NEW e \in Fingerprint, NEW h \in Generation, NEW k \in Generation,
                      h < k, Exists(e, k)'
               PROVE  rows'[e][h].state = "RESULT_RECEIVED" /\ rows'[e][h].expiry = "past"
    BY DEF OnlyExpiredIsRebought
  <2>1. CASE <<e, k>> = <<f, g>>
    BY <2>1, <1>4, <1>5 DEF Generation
  <2>2. CASE Exists(e, k)
    <3>1. rows[e][h].state = "RESULT_RECEIVED" /\ rows[e][h].expiry = "past"
      BY <2>2 DEF RowsInv, TableInv, OnlyExpiredIsRebought
    <3>2. <<e, h>> # <<f, g>>
      BY <3>1, <1>5, <1>1 DEF Exists, Generation
    <3> QED BY <3>1, <3>2, <1>4
  <2> QED BY <2>1, <2>2, <1>9
<1>11. OneRequestPerFingerprint'
  <2>1. \A k \in Generation : Exists(f, k)' => rows'[f][k].doc = call[p].doc
    <3> SUFFICES ASSUME NEW k \in Generation, Exists(f, k)'
                 PROVE  rows'[f][k].doc = call[p].doc
      OBVIOUS
    <3>1. CASE k = g
      BY <3>1, <1>3, <1>4
    <3>2. CASE k # g
      <4>1. Exists(f, k) /\ rows'[f][k] = rows[f][k]
        BY <3>2, <1>1, <1>2, <1>4, <1>9
      <4>2. rows[f][k].doc = call[p].doc
        <5>1. IF k < g THEN rows[f][k].doc = call[p].doc ELSE ~Exists(f, k)
          BY <1>5
        <5> QED BY <4>1, <5>1
      <4> QED BY <4>1, <4>2
    <3> QED BY <3>1, <3>2
  <2>2. \A e \in Fingerprint, k \in Generation : e # f =>
           rows'[e][k] = rows[e][k] /\ (Exists(e, k)' <=> Exists(e, k))
    BY <1>4, <1>9
  <2> SUFFICES ASSUME NEW e \in Fingerprint, NEW h \in Generation, NEW k \in Generation,
                      Exists(e, h)', Exists(e, k)'
               PROVE  rows'[e][h].doc = rows'[e][k].doc
    BY DEF OneRequestPerFingerprint
  <2>3. CASE e = f
    BY <2>3, <2>1, <1>2
  <2>4. CASE e # f
    <3>1. Exists(e, h) /\ Exists(e, k)
      BY <2>4, <2>2
    <3>2. rows[e][h].doc = rows[e][k].doc
      BY <3>1 DEF OneRequestPerFingerprint, RowsInv, TableInv
    <3> QED BY <2>4, <2>2, <3>2
  <2> QED BY <2>3, <2>4
<1>12. CheckConstraint'
  <2> SUFFICES ASSUME NEW e \in Fingerprint, NEW h \in Generation, Exists(e, h)'
               PROVE  (rows'[e][h].act = NoActivity) =
                  (rows'[e][h].state \in {"SUBMITTING", "UNKNOWN_VENDOR_STATE"})
    BY DEF CheckConstraint
  <2>1. CASE <<e, h>> = <<f, g>>
    BY <2>1, <1>3, <1>4
  <2>2. CASE <<e, h>> # <<f, g>>
    BY <2>2, <1>4, <1>9 DEF RowsInv, TableInv, CheckConstraint
  <2> QED BY <2>1, <2>2
<1> QED BY <1>7, <1>8, <1>10, <1>11, <1>12 DEF RowsInv, CallOwnsRow, TableInv

\* So do a cut session, the vendor and midnight.
LEMMA EnvironmentKeepsRows ==
    ASSUME TypeOK, LockOwnership, RowsInv,
           \/ \E p \in Process : CutSession(p)
           \/ \E m \in wire : VendorAccepts(m) \/ PostLost(m)
           \/ \E i \in 1..Len(orders) : VendorFinishes(i)
           \/ NextDay \/ UNCHANGED vars
    PROVE  RowsInv'
<1> UNCHANGED <<rows, pc>>
  BY DEF CutSession, VendorAccepts, PostLost, VendorFinishes, NextDay, vars
<1>1. TableInv'
  BY SameRowsKeepTable DEF RowsInv
<1>2. CASE \E p \in Process : CutSession(p)
  <2>1. UNCHANGED call /\ \A q \in Process : session'[q] => session[q]
    BY <1>2 DEF CutSession, TypeOK
  <2>2. ASSUME NEW q \in Process PROVE OwnsRow(q)'
    BY <2>1 DEF RowsInv, CallOwnsRow, OwnsRow, Exists
  <2> QED BY <1>1, <2>2 DEF RowsInv, CallOwnsRow
<1>3. CASE \E m \in wire : VendorAccepts(m)
  <2>1. PICK m \in wire : VendorAccepts(m)
    BY <1>3
  <2>2. m.proc \in Process /\ UNCHANGED session /\ Len(orders) \in Nat
    BY <2>1 DEF VendorAccepts, TypeOK, Post
  <2>3. \A q \in Process :
           \/ call'[q] = call[q]
           \/ /\ pc[q] = "await" /\ call'[q].fp = call[q].fp /\ call'[q].gen = call[q].gen
    BY <2>1, <2>2 DEF VendorAccepts, At, TypeOK, Call
  <2>4. ASSUME NEW q \in Process PROVE OwnsRow(q)'
    BY <2>2, <2>3 DEF RowsInv, CallOwnsRow, OwnsRow, Exists
  <2> QED BY <1>1, <2>4 DEF RowsInv, CallOwnsRow
<1>4. CASE UNCHANGED <<session, call>>
  BY <1>1, <1>4 DEF RowsInv, CallOwnsRow, OwnsRow, Exists
<1> QED
  BY <1>2, <1>3, <1>4 DEF PostLost, VendorFinishes, NextDay, vars

\* So does a result that reaches its expiry.
LEMMA ExpireKeepsRows ==
    ASSUME TypeOK, RowsInv, NEW f \in Fingerprint, NEW g \in Generation, Expire(f, g)
    PROVE  RowsInv'
<1> DEFINE new == [rows[f][g] EXCEPT !.expiry = "past"]
<1>1. new \in Row /\ new.state = rows[f][g].state /\ new.doc = rows[f][g].doc
      /\ new.act = rows[f][g].act /\ new.expiry = "past"
  <2>1. rows[f][g] \in Row
    BY DEF TypeOK
  <2> QED BY <2>1 DEF Row
<1>2. SetRow(f, g, new) /\ UNCHANGED <<pc, session, call>>
  BY DEF Expire
<1> HIDE DEF new
<1>3. /\ rows'[f][g] = new
      /\ \A e \in Fingerprint, h \in Generation :
            <<e, h>> # <<f, g>> => rows'[e][h] = rows[e][h]
  BY <1>1, <1>2, SetRowEffect DEF TypeOK
<1>4. \A e \in Fingerprint, h \in Generation :
         /\ rows'[e][h].state = rows[e][h].state /\ rows'[e][h].doc = rows[e][h].doc
         /\ rows'[e][h].act = rows[e][h].act
         /\ rows[e][h].expiry = "past" => rows'[e][h].expiry = "past"
  BY <1>1, <1>3
<1>5. \A q \in Process : call[q].fp \in Fingerprint /\ call[q].gen \in Generation
  BY DEF TypeOK, Call
<1>6. ASSUME NEW q \in Process PROVE OwnsRow(q)'
  BY <1>2, <1>4, <1>5 DEF RowsInv, CallOwnsRow, OwnsRow, Exists
<1>7. TableInv'
  BY <1>4 DEF RowsInv, TableInv, OnlyExpiredIsRebought, OneRequestPerFingerprint,
              CheckConstraint, Exists
<1> QED BY <1>6, <1>7 DEF RowsInv, CallOwnsRow

\* A new call, and the moves of a call between two statements.
LEMMA MovesKeepRows ==
    ASSUME TypeOK, LockOwnership, RowsInv, NEW p \in Process,
           \/ TakeAllowance(p) \/ SendPost(p) \/ SubmitFails(p) \/ SubmitReturns(p)
           \/ PollReturns(p)
           \/ \E f \in Fingerprint, d \in Document : Start(p, f, d)
    PROVE  RowsInv'
<1>1. CASE TakeAllowance(p)
  <2>1. CASE End(p)
    BY <1>1, <2>1, EndKeepsRows DEF TakeAllowance
  <2>2. CASE call' = [call EXCEPT ![p].day = day] /\ Goto(p, "insert")
    <3>1. UNCHANGED rows /\ pc[p] = "allowance" /\ session[p]
      BY <1>1 DEF TakeAllowance, Statement
    <3>2. /\ call'[p].fp = call[p].fp /\ call'[p].gen = call[p].gen
          /\ call'[p].doc = call[p].doc
          /\ \A q \in Process : q # p => call'[q] = call[q]
      BY <2>2 DEF TypeOK, Call
    <3>3. pc'[p] = "insert"
      BY <2>2, GotoEffect DEF TypeOK, Control
    <3>4. OwnsRow(p)'
      BY <3>1, <3>2, <3>3 DEF RowsInv, CallOwnsRow, OwnsRow, Exists
    <3> QED BY <2>2, <3>1, <3>2, <3>4, GotoKeepsRows DEF Control
  <2> QED BY <1>1, <2>1, <2>2 DEF TakeAllowance
<1>2. CASE SendPost(p) \/ SubmitFails(p) \/ SubmitReturns(p) \/ PollReturns(p)
  <2>1. UNCHANGED <<rows, call>>
    BY <1>2 DEF SendPost, SubmitFails, SubmitReturns, PollReturns
  <2>2. PICK l \in Control : Goto(p, l) /\
          \/ pc[p] = "submit" /\ l = "await"
          \/ pc[p] = "await" /\ l = "park"
          \/ pc[p] = "await" /\ l = "save" /\ call[p].act # NoActivity
          \/ pc[p] = "poll" /\ l \in {"store", "fail"}
    BY <1>2 DEF SendPost, SubmitFails, SubmitReturns, PollReturns, At, Control
  <2>3. pc'[p] = l /\ UNCHANGED session
    BY <2>2, GotoEffect DEF TypeOK
  <2>4. OwnsRow(p)'
    BY <2>1, <2>2, <2>3 DEF RowsInv, CallOwnsRow, OwnsRow, Exists
  <2> QED BY <2>1, <2>2, <2>4, GotoKeepsRows
<1>3. CASE \E f \in Fingerprint, d \in Document : Start(p, f, d)
  <2>1. PICK f \in Fingerprint, d \in Document : Start(p, f, d)
    BY <1>3
  <2>2. UNCHANGED rows /\ pc'[p] = "read"
    BY <2>1, StartEffect DEF Start
  <2>3. \A q \in Process : q # p => OwnsRow(q)'
    BY <2>1, <2>2, StartEffect, OthersKeepRows DEF RowsInv
  <2>4. OwnsRow(p)'
    BY <2>2 DEF OwnsRow
  <2> QED BY <2>2, <2>3, <2>4, SameRowsKeepTable DEF RowsInv, CallOwnsRow
<1> QED BY <1>1, <1>2, <1>3

\* The table's constraints and what each process knows of its row hold throughout.
THEOREM RowsInvariant == Spec => []RowsInv
<1>1. Init => RowsInv
  BY DEF Init, RowsInv, CallOwnsRow, OwnsRow, TableInv, OnlyExpiredIsRebought,
     OneRequestPerFingerprint, CheckConstraint, Exists, AbsentRow
<1>2. TypeOK /\ LockOwnership /\ RowsInv /\ [Next]_vars => RowsInv'
  <2> SUFFICES ASSUME TypeOK, LockOwnership, RowsInv, [Next]_vars PROVE RowsInv'
    OBVIOUS
  <2>1. ASSUME NEW p \in Process, Step(p) \/ Crash(p) PROVE RowsInv'
    <3>1. CASE PollTimesOut(p) \/ StorageError(p) \/ Crash(p)
      BY <3>1, EndKeepsRows DEF PollTimesOut, StorageError, Crash
    <3> QED BY <2>1, <3>1, ReadKeepsRows, WritesKeepRows, InsertKeepsRows,
               MovesKeepRows DEF Step
  <2>2. ASSUME NEW p \in Process, NEW f \in Fingerprint, NEW d \in Document, Start(p, f, d)
        PROVE  RowsInv'
    BY <2>2, MovesKeepRows
  <2> QED
    BY <2>1, <2>2, EnvironmentKeepsRows, ExpireKeepsRows DEF Next
<1> QED BY <1>1, <1>2, TypeCorrect, LockOwnershipInvariant, PTL DEF Spec

-----------------------------------------------------------------------------
(* What the vendor was asked for.                                          *)

OrdersInv ==
    /\ CallKnowsOrder /\ OneOrderPerReservation
    /\ ReservationBeforeOrder /\ RowTellsItsActivity

\* Rows are never deleted.
LEMMA RowsStay ==
    ASSUME TypeOK, RowsInv, [Next]_vars, NEW f \in Fingerprint, NEW g \in Generation,
           Exists(f, g)
    PROVE  Exists(f, g)'
<1>1. ASSUME NEW e \in Fingerprint, NEW h \in Generation, NEW row \in Row,
             SetRow(e, h, row), row.state # "ABSENT"
      PROVE  Exists(f, g)'
  BY <1>1, SetRowEffect DEF TypeOK, Exists
<1>2. ASSUME NEW p \in Process,
             \/ ParkUnknown(p) \/ RecordFailure(p) \/ StoreResult(p) \/ SaveActivity(p)
             \/ InsertRow(p)
      PROVE  Exists(f, g)'
  <2>1. call[p] \in Call /\ rows[call[p].fp][call[p].gen] \in Row
        /\ call[p].fp \in Fingerprint /\ call[p].gen \in Generation
    BY DEF TypeOK, Call
  <2>2. PICK row \in Row : SetRow(call[p].fp, call[p].gen, row) /\ row.state # "ABSENT"
    <3> DEFINE old == rows[call[p].fp][call[p].gen]
    <3>1. CASE ParkUnknown(p) \/ RecordFailure(p)
      <4>1. PICK st \in {"UNKNOWN_VENDOR_STATE", "FAILED_POST_SUBMIT"} :
              SetRow(call[p].fp, call[p].gen, [old EXCEPT !.state = st])
        BY <3>1 DEF ParkUnknown, RecordFailure, SetState
      <4>2. [old EXCEPT !.state = st] \in Row /\ [old EXCEPT !.state = st].state = st
        BY <2>1 DEF Row, State
      <4> QED BY <4>1, <4>2
    <3>2. CASE StoreResult(p)
      <4>1. PICK e \in {"live", "none"} :
              SetRow(call[p].fp, call[p].gen,
                     [old EXCEPT !.state = "RESULT_RECEIVED", !.expiry = e])
        BY <3>2 DEF StoreResult
      <4> DEFINE new == [old EXCEPT !.state = "RESULT_RECEIVED", !.expiry = e]
      <4>2. new \in Row /\ new.state = "RESULT_RECEIVED"
        BY <2>1 DEF Row, State
      <4> QED BY <4>1, <4>2
    <3>4. CASE SaveActivity(p)
      <4> DEFINE new == [old EXCEPT !.state = "ACTIVITY_ID_PERSISTED", !.act = call[p].act]
      <4>1. new \in Row /\ new.state = "ACTIVITY_ID_PERSISTED"
        BY <2>1 DEF Row, State, Call
      <4>2. SetRow(call[p].fp, call[p].gen, new)
        BY <3>4 DEF SaveActivity
      <4> QED BY <4>1, <4>2
    <3>3. CASE InsertRow(p)
      BY <3>3, <2>1 DEF InsertRow, Row, State, Call, NoActivity
    <3> QED BY <1>2, <3>1, <3>2, <3>3, <3>4
  <2> QED BY <2>1, <2>2, <1>1
<1>3. ASSUME NEW e \in Fingerprint, NEW h \in Generation, Expire(e, h)
      PROVE  Exists(f, g)'
  <2>1. rows[e][h] \in Row
    BY DEF TypeOK
  <2>2. CASE <<e, h>> = <<f, g>>
    BY <1>3, <2>1, <2>2 DEF Expire, SetRow, Exists, TypeOK, Row
  <2>3. CASE <<e, h>> # <<f, g>>
    BY <1>3, <2>3 DEF Expire, SetRow, Exists, TypeOK
  <2> QED BY <2>2, <2>3
<1>4. CASE UNCHANGED rows
  BY <1>4 DEF Exists
<1>5. \/ UNCHANGED rows
      \/ \E p \in Process : \/ ParkUnknown(p) \/ RecordFailure(p) \/ StoreResult(p)
                            \/ SaveActivity(p) \/ InsertRow(p)
      \/ \E e \in Fingerprint, h \in Generation : Expire(e, h)
  BY DEF Next, Step, ReadRow, ReadEnds, ReadAmbiguous, ReadResume, ReadNew,
     TakeAllowance, SendPost, SubmitFails, SubmitReturns, PollReturns,
     PollTimesOut, StorageError, CutSession, Crash, Start, VendorAccepts,
     PostLost, VendorFinishes, NextDay, vars
<1> QED BY <1>2, <1>3, <1>4, <1>5

\* The part of OrdersInv about p, when only p's call moves.
LEMMA OthersKnowOrders ==
    ASSUME TypeOK, OrdersInv, NEW p \in Process, UNCHANGED <<wire, orders, succeeded, failed>>,
           pc'[p] # "submit",
           \A q \in Process : q # p => pc'[q] = pc[q] /\ call'[q] = call[q],
           KnowsOrder(p)'
    PROVE  CallKnowsOrder'
<1>1. ASSUME NEW q \in Process, q # p PROVE KnowsOrder(q)' /\ FirstToPost(q)'
  BY <1>1 DEF OrdersInv, CallKnowsOrder, KnowsOrder, FirstToPost
<1>2. FirstToPost(p)'
  BY DEF FirstToPost
<1> QED BY <1>1, <1>2 DEF CallKnowsOrder

\* Rows may change as long as each still tells the truth and none disappears.
LEMMA RowsKeepOrders ==
    ASSUME TypeOK, OrdersInv, RowsInv, [Next]_vars,
           UNCHANGED <<wire, orders, succeeded, failed>>
    PROVE  OneOrderPerReservation' /\ ReservationBeforeOrder'
<1>1. OneOrderPerReservation'
  BY DEF OrdersInv, OneOrderPerReservation
<1>2. ASSUME NEW m \in wire PROVE Exists(m.fp, m.gen)'
  <2>1. m.fp \in Fingerprint /\ m.gen \in Generation
    BY DEF TypeOK, Post
  <2>2. Exists(m.fp, m.gen)
    BY DEF OrdersInv, ReservationBeforeOrder
  <2> QED BY <2>1, <2>2, RowsStay
<1>3. ASSUME NEW i \in 1..Len(orders) PROVE Exists(orders[i].fp, orders[i].gen)'
  <2>1. orders[i] \in Order
    BY DEF TypeOK
  <2>2. orders[i].fp \in Fingerprint /\ orders[i].gen \in Generation
    BY <2>1 DEF Order
  <2>3. Exists(orders[i].fp, orders[i].gen)
    BY DEF OrdersInv, ReservationBeforeOrder
  <2>4. \A f \in Fingerprint, g \in Generation : Exists(f, g) => rows'[f][g].state # "ABSENT"
    BY RowsStay DEF Exists
  <2> QED BY <2>2, <2>3, <2>4 DEF Exists
<1> QED BY <1>1, <1>2, <1>3 DEF ReservationBeforeOrder, Exists

\* A call that ends without writing.
LEMMA EndKeepsOrders ==
    ASSUME TypeOK, OrdersInv, RowsInv, [Next]_vars, NEW p \in Process, End(p),
           UNCHANGED <<wire, orders, succeeded, failed>>,
           RowTellsItsActivity'
    PROVE  OrdersInv'
<1>1. pc'[p] = "idle" /\ \A q \in Process : q # p => pc'[q] = pc[q] /\ call'[q] = call[q]
  BY EndEffect DEF TypeOK
<1>2. KnowsOrder(p)'
  BY <1>1 DEF KnowsOrder
<1>3. CallKnowsOrder'
  BY <1>1, <1>2, OthersKnowOrders
<1> QED BY <1>3, RowsKeepOrders DEF OrdersInv

\* A step that changes neither rows nor orders keeps the rows telling their activities.
LEMMA SameRowsTell ==
    ASSUME OrdersInv, UNCHANGED <<rows, orders, succeeded, failed>>
    PROVE  RowTellsItsActivity'
  BY DEF OrdersInv, RowTellsItsActivity

\* Writing one row that tells the truth.
LEMMA WrittenRowTells ==
    ASSUME TypeOK, OrdersInv, UNCHANGED <<orders, succeeded, failed>>,
           NEW f \in Fingerprint, NEW g \in Generation, NEW row \in Row, SetRow(f, g, row),
           row.act # NoActivity =>
              row.act \in 1..Len(orders) /\ orders[row.act] = [fp |-> f, gen |-> g],
           row.state = "RESULT_RECEIVED" => row.act \in succeeded,
           row.state = "FAILED_POST_SUBMIT" => row.act \in failed
    PROVE  RowTellsItsActivity'
<1>1. /\ rows'[f][g] = row
      /\ \A e \in Fingerprint, h \in Generation :
            <<e, h>> # <<f, g>> => rows'[e][h] = rows[e][h]
  BY SetRowEffect DEF TypeOK
<1> SUFFICES ASSUME NEW e \in Fingerprint, NEW h \in Generation
             PROVE  /\ rows'[e][h].act # NoActivity =>
                          /\ rows'[e][h].act \in 1..Len(orders)
                          /\ orders[rows'[e][h].act] = [fp |-> e, gen |-> h]
                    /\ rows'[e][h].state = "RESULT_RECEIVED" => rows'[e][h].act \in succeeded
                    /\ rows'[e][h].state = "FAILED_POST_SUBMIT" => rows'[e][h].act \in failed
  BY DEF RowTellsItsActivity
<1>2. CASE <<e, h>> = <<f, g>>
  BY <1>1, <1>2
<1>3. CASE <<e, h>> # <<f, g>>
  BY <1>1, <1>3 DEF OrdersInv, RowTellsItsActivity
<1> QED BY <1>2, <1>3

\* The updates of a row keep rows and orders in agreement.
LEMMA WritesKeepOrders ==
    ASSUME TypeOK, OrdersInv, RowsInv, [Next]_vars, NEW p \in Process,
           ParkUnknown(p) \/ SaveActivity(p) \/ RecordFailure(p) \/ StoreResult(p)
    PROVE  OrdersInv'
<1> DEFINE f == call[p].fp
           g == call[p].gen
           old == rows[f][g]
<1>1. f \in Fingerprint /\ g \in Generation /\ old \in Row /\ call[p] \in Call
  BY DEF TypeOK, Call
<1>2. UNCHANGED <<wire, orders, succeeded, failed>>
  BY DEF ParkUnknown, SaveActivity, RecordFailure, StoreResult, vendorVars
<1>3. /\ old.act # NoActivity => old.act \in 1..Len(orders) /\ orders[old.act] = [fp |-> f, gen |-> g]
      /\ session[p] /\ OwnsRow(p) /\ KnowsOrder(p)
  BY <1>1 DEF OrdersInv, RowTellsItsActivity, ParkUnknown, SaveActivity, RecordFailure,
     StoreResult, Statement, RowsInv, CallOwnsRow, CallKnowsOrder
<1>4. CASE ParkUnknown(p)
  <2> DEFINE new == [old EXCEPT !.state = "UNKNOWN_VENDOR_STATE"]
  <2>1. new \in Row /\ new.act = old.act /\ new.state = "UNKNOWN_VENDOR_STATE"
    BY <1>1 DEF Row, State
  <2>2. SetRow(f, g, new) /\ End(p)
    BY <1>4 DEF ParkUnknown, SetState
  <2> HIDE DEF new
  <2>3. RowTellsItsActivity'
    BY <1>1, <1>2, <1>3, <2>1, <2>2, WrittenRowTells
  <2> QED BY <1>2, <2>2, <2>3, EndKeepsOrders
<1>5. CASE RecordFailure(p)
  <2> DEFINE new == [old EXCEPT !.state = "FAILED_POST_SUBMIT"]
  <2>1. new \in Row /\ new.act = old.act /\ new.state = "FAILED_POST_SUBMIT"
    BY <1>1 DEF Row, State
  <2>2. SetRow(f, g, new) /\ End(p) /\ pc[p] = "fail"
    BY <1>5 DEF RecordFailure, SetState, Statement
  <2> HIDE DEF new
  <2>3. old.act \in failed
    BY <1>3, <2>2 DEF OwnsRow, KnowsOrder
  <2>4. RowTellsItsActivity'
    BY <1>1, <1>2, <1>3, <2>1, <2>2, <2>3, WrittenRowTells
  <2> QED BY <1>2, <2>2, <2>4, EndKeepsOrders
<1>6. CASE StoreResult(p)
  <2>1. PICK e \in {"live", "none"} :
          SetRow(f, g, [old EXCEPT !.state = "RESULT_RECEIVED", !.expiry = e])
    BY <1>6 DEF StoreResult
  <2> DEFINE new == [old EXCEPT !.state = "RESULT_RECEIVED", !.expiry = e]
  <2>2. new \in Row /\ new.act = old.act /\ new.state = "RESULT_RECEIVED"
    BY <1>1 DEF Row, State
  <2>3. SetRow(f, g, new) /\ End(p) /\ pc[p] = "store"
    BY <1>6, <2>1 DEF StoreResult, Statement
  <2> HIDE DEF new
  <2>4. old.act \in succeeded
    BY <1>3, <2>3 DEF OwnsRow, KnowsOrder
  <2>5. RowTellsItsActivity'
    BY <1>1, <1>2, <1>3, <2>2, <2>3, <2>4, WrittenRowTells
  <2> QED BY <1>2, <2>3, <2>5, EndKeepsOrders
<1>7. CASE SaveActivity(p)
  <2> DEFINE new == [old EXCEPT !.state = "ACTIVITY_ID_PERSISTED", !.act = call[p].act]
  <2>1. new \in Row /\ new.act = call[p].act /\ new.state = "ACTIVITY_ID_PERSISTED"
    BY <1>1 DEF Row, State, Call
  <2>2. SetRow(f, g, new) /\ Goto(p, "poll") /\ UNCHANGED call /\ pc[p] = "save"
    BY <1>7 DEF SaveActivity, Statement
  <2> HIDE DEF new
  <2>3. call[p].act \in 1..Len(orders) /\ orders[call[p].act] = [fp |-> f, gen |-> g]
    BY <1>3, <2>2 DEF OwnsRow, KnowsOrder
  <2>4. RowTellsItsActivity'
    BY <1>1, <1>2, <2>1, <2>2, <2>3, WrittenRowTells
  <2>5. pc'[p] = "poll" /\ \A q \in Process : q # p => pc'[q] = pc[q]
    BY <2>2, GotoEffect DEF TypeOK, Control
  <2>6. KnowsOrder(p)'
    BY <1>2, <2>2, <2>3, <2>5 DEF KnowsOrder
  <2>7. CallKnowsOrder'
    BY <1>2, <2>2, <2>5, <2>6, OthersKnowOrders
  <2> QED BY <1>2, <2>4, <2>7, RowsKeepOrders DEF OrdersInv
<1> QED BY <1>4, <1>5, <1>6, <1>7

\* So does the insert of a new generation.
LEMMA InsertKeepsOrders ==
    ASSUME TypeOK, OrdersInv, RowsInv, [Next]_vars, NEW p \in Process, InsertRow(p)
    PROVE  OrdersInv'
<1> DEFINE f == call[p].fp
           g == call[p].gen
           new == [state |-> "SUBMITTING", doc |-> call[p].doc, day |-> call[p].day,
                   act |-> NoActivity, expiry |-> "none"]
<1>1. f \in Fingerprint /\ g \in Generation /\ new \in Row
  BY DEF TypeOK, Call, Row, State, NoActivity
<1>2. SetRow(f, g, new) /\ pc[p] = "insert" /\ Goto(p, "submit")
      /\ UNCHANGED <<call, wire, orders, succeeded, failed>> /\ ~Exists(f, g)
  BY DEF InsertRow, Statement, vendorVars
<1>3. new.state = "SUBMITTING" /\ new.act = NoActivity
  OBVIOUS
<1> HIDE DEF new
<1>4. RowTellsItsActivity'
  BY <1>1, <1>2, <1>3, WrittenRowTells
<1>5. pc'[p] = "submit" /\ \A q \in Process : q # p => pc'[q] = pc[q]
  BY <1>2, GotoEffect DEF TypeOK, Control
<1>6. KnowsOrder(p)'
  BY <1>2, <1>5 DEF KnowsOrder, OrdersInv, CallKnowsOrder
<1>7. /\ \A m \in wire : ~(m.fp = f /\ m.gen = g)
      /\ \A i \in 1..Len(orders) : orders[i] # [fp |-> f, gen |-> g]
  BY <1>2 DEF OrdersInv, ReservationBeforeOrder
<1>8. \A q \in Process : pc[q] = "submit" => ~(call[q].fp = f /\ call[q].gen = g)
  BY <1>2 DEF RowsInv, CallOwnsRow, OwnsRow
<1>9. FirstToPost(p)'
  BY <1>2, <1>5, <1>7, <1>8 DEF FirstToPost
<1>10. ASSUME NEW q \in Process, q # p PROVE KnowsOrder(q)' /\ FirstToPost(q)'
  <2>1. KnowsOrder(q)'
    BY <1>10, <1>2, <1>5 DEF OrdersInv, CallKnowsOrder, KnowsOrder
  <2>2. FirstToPost(q)'
    BY <1>10, <1>2, <1>5, <1>8 DEF OrdersInv, CallKnowsOrder, FirstToPost
  <2> QED BY <2>1, <2>2
<1>11. CallKnowsOrder'
  BY <1>6, <1>9, <1>10 DEF CallKnowsOrder
<1> QED BY <1>2, <1>4, <1>11, RowsKeepOrders DEF OrdersInv

\* So does the POST itself.
LEMMA SendKeepsOrders ==
    ASSUME TypeOK, OrdersInv, RowsInv, [Next]_vars, NEW p \in Process, SendPost(p)
    PROVE  OrdersInv'
<1> DEFINE post == [proc |-> p, fp |-> call[p].fp, gen |-> call[p].gen]
<1>1. /\ pc[p] = "submit" /\ wire' = wire \cup {post} /\ Goto(p, "await")
      /\ UNCHANGED <<rows, call, orders, succeeded, failed>>
  BY DEF SendPost, At
<1>2. pc'[p] = "await" /\ \A q \in Process : q # p => pc'[q] = pc[q]
  BY <1>1, GotoEffect DEF TypeOK, Control
<1>3. FirstToPost(p) /\ KnowsOrder(p) /\ OwnsRow(p)
  BY DEF OrdersInv, CallKnowsOrder, RowsInv, CallOwnsRow
<1>4. KnowsOrder(p)' /\ FirstToPost(p)'
  BY <1>1, <1>2, <1>3 DEF KnowsOrder, FirstToPost
<1>5. ASSUME NEW q \in Process, q # p PROVE KnowsOrder(q)' /\ FirstToPost(q)'
  <2>1. KnowsOrder(q)'
    BY <1>1, <1>2, <1>5 DEF OrdersInv, CallKnowsOrder, KnowsOrder
  <2>2. pc[q] = "submit" => ~(call[q].fp = call[p].fp /\ call[q].gen = call[p].gen)
    BY <1>1, <1>3, <1>5 DEF FirstToPost
  <2>3. FirstToPost(q)'
    BY <1>1, <1>2, <1>5, <2>2 DEF OrdersInv, CallKnowsOrder, FirstToPost
  <2> QED BY <2>1, <2>3
<1>6. CallKnowsOrder'
  BY <1>4, <1>5 DEF CallKnowsOrder
<1>7. OneOrderPerReservation'
  <2>1. \A m \in wire : ~(m.fp = post.fp /\ m.gen = post.gen)
    BY <1>1, <1>3 DEF FirstToPost
  <2>2. \A i \in 1..Len(orders) : orders[i] # [fp |-> post.fp, gen |-> post.gen]
    BY <1>1, <1>3 DEF FirstToPost
  <2> HIDE DEF post
  <2> QED BY <1>1, <2>1, <2>2 DEF OrdersInv, OneOrderPerReservation
<1>8. ReservationBeforeOrder'
  <2>1. Exists(post.fp, post.gen)
    BY <1>1, <1>3 DEF OwnsRow
  <2> HIDE DEF post
  <2> QED BY <1>1, <2>1 DEF OrdersInv, ReservationBeforeOrder, Exists
<1>9. RowTellsItsActivity'
  BY <1>1, SameRowsTell
<1> QED BY <1>6, <1>7, <1>8, <1>9 DEF OrdersInv

\* So does the vendor's acceptance of a POST on the wire.
LEMMA VendorKeepsOrders ==
    ASSUME TypeOK, OrdersInv, RowsInv, [Next]_vars, NEW m \in wire, VendorAccepts(m)
    PROVE  OrdersInv'
<1> DEFINE new == [fp |-> m.fp, gen |-> m.gen]
<1>1. /\ wire' = wire \ {m} /\ orders' = Append(orders, new)
      /\ UNCHANGED <<rows, pc, session, succeeded, failed>>
  BY DEF VendorAccepts
<1>2. m \in Post /\ m.proc \in Process /\ new \in Order
  BY DEF TypeOK, Post, Order
<1>3. /\ Len(orders) \in Nat /\ Len(orders') = Len(orders) + 1
      /\ \A i \in 1..Len(orders) : orders'[i] = orders[i]
      /\ orders'[Len(orders) + 1] = new
  BY <1>1, <1>2 DEF TypeOK
<1>4. \A q \in Process :
         /\ call'[q].fp = call[q].fp /\ call'[q].gen = call[q].gen
         /\ \/ call'[q].act = call[q].act
            \/ /\ pc[q] = "await" /\ call'[q].act = Len(orders) + 1
               /\ call[q].fp = m.fp /\ call[q].gen = m.gen
  <2>1. CASE call' = call
    BY <2>1
  <2>2. CASE /\ call' = [call EXCEPT ![m.proc].act = Len(orders) + 1]
             /\ pc[m.proc] = "await"
             /\ call[m.proc].fp = m.fp /\ call[m.proc].gen = m.gen
    BY <1>2, <2>2 DEF TypeOK, Call
  <2> QED BY <2>1, <2>2 DEF VendorAccepts, At
<1>5. \A i \in 1..Len(orders) : orders[i] # new
  BY DEF OrdersInv, OneOrderPerReservation
<1>6. \A i \in 1..Len(orders') : i \in 1..Len(orders) \/ i = Len(orders) + 1
  BY <1>3
<1> HIDE DEF new
<1>7. ASSUME NEW q \in Process PROVE KnowsOrder(q)' /\ FirstToPost(q)'
  <2>1. KnowsOrder(q) /\ FirstToPost(q)
    BY DEF OrdersInv, CallKnowsOrder
  <2>2. KnowsOrder(q)'
    <3>1. CASE call'[q].act = call[q].act
      BY <1>1, <1>3, <1>4, <2>1, <3>1 DEF KnowsOrder
    <3>2. CASE /\ pc[q] = "await" /\ call'[q].act = Len(orders) + 1
               /\ call[q].fp = m.fp /\ call[q].gen = m.gen
      BY <1>1, <1>3, <1>4, <3>2 DEF KnowsOrder, new
    <3> QED BY <1>4, <3>1, <3>2
  <2>3. ASSUME pc[q] = "submit"
        PROVE  /\ \A n \in wire' : ~(n.fp = call[q].fp /\ n.gen = call[q].gen)
               /\ \A i \in 1..Len(orders') :
                     orders'[i] # [fp |-> call[q].fp, gen |-> call[q].gen]
    <3>1. ~(m.fp = call[q].fp /\ m.gen = call[q].gen)
      BY <2>1, <2>3 DEF FirstToPost
    <3>2. new # [fp |-> call[q].fp, gen |-> call[q].gen]
      BY <3>1 DEF new
    <3> QED BY <1>1, <1>3, <1>6, <2>1, <2>3, <3>2 DEF FirstToPost
  <2>4. FirstToPost(q)'
    BY <1>1, <1>4, <2>1, <2>3 DEF FirstToPost
  <2> QED BY <2>2, <2>4
<1>8. CallKnowsOrder'
  BY <1>7 DEF CallKnowsOrder
<1>9. OneOrderPerReservation'
  <2>1. \A i, j \in 1..Len(orders') : orders'[i] = orders'[j] => i = j
    BY <1>3, <1>5, <1>6 DEF OrdersInv, OneOrderPerReservation
  <2>2. \A n \in wire' : [fp |-> n.fp, gen |-> n.gen] # new
    <3> SUFFICES ASSUME NEW n \in wire', [fp |-> n.fp, gen |-> n.gen] = new PROVE FALSE
      OBVIOUS
    <3>1. n.fp = m.fp /\ n.gen = m.gen
      BY DEF new
    <3> QED BY <1>1, <3>1 DEF OrdersInv, OneOrderPerReservation
  <2>3. \A n \in wire' : \A i \in 1..Len(orders') : orders'[i] # [fp |-> n.fp, gen |-> n.gen]
    <3> SUFFICES ASSUME NEW n \in wire', NEW i \in 1..Len(orders')
                 PROVE  orders'[i] # [fp |-> n.fp, gen |-> n.gen]
      OBVIOUS
    <3>1. CASE i \in 1..Len(orders)
      BY <1>1, <1>3, <3>1 DEF OrdersInv, OneOrderPerReservation
    <3>2. CASE i = Len(orders) + 1
      BY <1>3, <2>2, <3>2
    <3> QED BY <1>6, <3>1, <3>2
  <2>4. \A n, k \in wire' : n.fp = k.fp /\ n.gen = k.gen => n = k
    BY <1>1 DEF OrdersInv, OneOrderPerReservation
  <2> QED BY <2>1, <2>3, <2>4 DEF OneOrderPerReservation
<1>10. ReservationBeforeOrder'
  <2>1. Exists(new.fp, new.gen)
    BY DEF new, OrdersInv, ReservationBeforeOrder
  <2>2. \A i \in 1..Len(orders') : rows[orders'[i].fp][orders'[i].gen].state # "ABSENT"
    BY <1>3, <1>6, <2>1 DEF OrdersInv, ReservationBeforeOrder, Exists
  <2>3. \A n \in wire' : rows[n.fp][n.gen].state # "ABSENT"
    BY <1>1 DEF OrdersInv, ReservationBeforeOrder, Exists
  <2> QED BY <1>1, <2>2, <2>3 DEF ReservationBeforeOrder, Exists
<1>11. RowTellsItsActivity'
  <2> SUFFICES ASSUME NEW f \in Fingerprint, NEW g \in Generation
               PROVE  /\ rows[f][g].act # NoActivity =>
                            /\ rows[f][g].act \in 1..Len(orders')
                            /\ orders'[rows[f][g].act] = [fp |-> f, gen |-> g]
                      /\ rows[f][g].state = "RESULT_RECEIVED" => rows[f][g].act \in succeeded
                      /\ rows[f][g].state = "FAILED_POST_SUBMIT" => rows[f][g].act \in failed
    BY <1>1 DEF RowTellsItsActivity
  <2>1. ASSUME rows[f][g].act # NoActivity
        PROVE  rows[f][g].act \in 1..Len(orders) /\ orders[rows[f][g].act] = [fp |-> f, gen |-> g]
    BY <2>1 DEF OrdersInv, RowTellsItsActivity
  <2>2. ASSUME rows[f][g].act # NoActivity
        PROVE  rows[f][g].act \in 1..Len(orders') /\ orders'[rows[f][g].act] = [fp |-> f, gen |-> g]
    BY <1>3, <2>1, <2>2
  <2>3. /\ rows[f][g].state = "RESULT_RECEIVED" => rows[f][g].act \in succeeded
        /\ rows[f][g].state = "FAILED_POST_SUBMIT" => rows[f][g].act \in failed
    BY DEF OrdersInv, RowTellsItsActivity
  <2> QED BY <2>2, <2>3
<1> QED BY <1>8, <1>9, <1>10, <1>11 DEF OrdersInv

\* A step of one call that touches neither the table nor the vendor.
LEMMA MovesKeepOrders ==
    ASSUME TypeOK, OrdersInv, RowsInv, [Next]_vars, NEW p \in Process
    PROVE  /\ ReadRow(p) \/ TakeAllowance(p) \/ SubmitFails(p) \/ SubmitReturns(p)
              \/ PollReturns(p) \/ PollTimesOut(p) \/ StorageError(p) \/ Crash(p)
              => OrdersInv'
           /\ \A f \in Fingerprint, d \in Document : Start(p, f, d) => OrdersInv'
<1>1. ASSUME UNCHANGED <<rows, wire, orders, succeeded, failed>>, pc'[p] # "submit",
             \A q \in Process : q # p => pc'[q] = pc[q] /\ call'[q] = call[q],
             KnowsOrder(p)'
      PROVE  OrdersInv'
  <2>1. CallKnowsOrder'
    BY <1>1, OthersKnowOrders
  <2> QED BY <1>1, <2>1, SameRowsTell, RowsKeepOrders DEF OrdersInv
<1>2. ASSUME End(p), UNCHANGED <<rows, vendorVars, day>> PROVE OrdersInv'
  <2>1. UNCHANGED <<wire, orders, succeeded, failed>>
    BY <1>2 DEF vendorVars
  <2>2. RowTellsItsActivity'
    BY <1>2, <2>1, SameRowsTell
  <2> QED BY <1>2, <2>1, <2>2, EndKeepsOrders
<1>3. KnowsOrder(p)
  BY DEF OrdersInv, CallKnowsOrder
<1>4. ASSUME NEW label \in Control \ {"submit"}, Goto(p, label),
             UNCHANGED <<rows, vendorVars, day>>,
             \A q \in Process : q # p => call'[q] = call[q], KnowsOrder(p)'
      PROVE  OrdersInv'
  <2>1. pc'[p] = label /\ \A q \in Process : q # p => pc'[q] = pc[q]
    BY <1>4, GotoEffect DEF TypeOK
  <2> QED BY <1>1, <1>4, <2>1 DEF vendorVars
<1>5. ASSUME NEW label \in Control, Goto(p, label) PROVE pc'[p] = label
  BY <1>5, GotoEffect DEF TypeOK
<1>6. CASE ReadEnds(p) \/ PollTimesOut(p) \/ StorageError(p) \/ Crash(p)
  BY <1>2, <1>6 DEF ReadEnds, PollTimesOut, StorageError, Crash
<1>7. CASE ReadAmbiguous(p)
  <2>1. Goto(p, "park") /\ \A q \in Process : q # p => call'[q] = call[q]
    BY <1>7 DEF ReadAmbiguous, TypeOK
  <2>2. pc'[p] = "park"
    BY <2>1, <1>5 DEF Control
  <2>3. KnowsOrder(p)'
    BY <2>2 DEF KnowsOrder
  <2> QED BY <1>4, <1>7, <2>1, <2>3 DEF ReadAmbiguous, Control
<1>8. CASE ReadResume(p)
  <2>1. PICK g \in Generation :
          /\ rows[call[p].fp][g].state = "ACTIVITY_ID_PERSISTED"
          /\ call' = [call EXCEPT ![p].gen = g, ![p].act = rows[call[p].fp][g].act]
    BY <1>8 DEF ReadResume
  <2>2. Goto(p, "poll") /\ UNCHANGED <<rows, vendorVars, day>>
    BY <1>8 DEF ReadResume
  <2>3. pc'[p] = "poll"
    BY <2>2, <1>5 DEF Control
  <2>4. /\ call'[p].fp = call[p].fp /\ call'[p].gen = g
        /\ call'[p].act = rows[call[p].fp][g].act
        /\ call[p].fp \in Fingerprint
        /\ \A q \in Process : q # p => call'[q] = call[q]
    BY <2>1 DEF TypeOK, Call
  <2>5. rows[call[p].fp][g].act # NoActivity =>
           /\ rows[call[p].fp][g].act \in 1..Len(orders)
           /\ orders[rows[call[p].fp][g].act] = [fp |-> call[p].fp, gen |-> g]
    BY <2>4 DEF OrdersInv, RowTellsItsActivity
  <2>6. KnowsOrder(p)'
    BY <2>2, <2>3, <2>4, <2>5 DEF KnowsOrder, vendorVars
  <2> QED BY <1>4, <2>2, <2>4, <2>6 DEF Control
<1>9. CASE ReadNew(p)
  <2>1. PICK g \in Generation : call' = [call EXCEPT ![p].gen = g]
    BY <1>9 DEF ReadNew
  <2>2. Goto(p, "allowance") /\ UNCHANGED <<rows, vendorVars, day>> /\ pc[p] = "read"
    BY <1>9 DEF ReadNew, Statement
  <2>3. pc'[p] = "allowance"
    BY <2>2, <1>5 DEF Control
  <2>4. call'[p].act = call[p].act /\ \A q \in Process : q # p => call'[q] = call[q]
    BY <2>1 DEF TypeOK, Call
  <2>5. KnowsOrder(p)'
    BY <1>3, <2>2, <2>3, <2>4 DEF KnowsOrder
  <2> QED BY <1>4, <2>2, <2>4, <2>5 DEF Control
<1>10. CASE TakeAllowance(p)
  <2>1. CASE End(p)
    BY <1>2, <1>10, <2>1 DEF TakeAllowance
  <2>2. CASE call' = [call EXCEPT ![p].day = day] /\ Goto(p, "insert")
    <3>1. pc'[p] = "insert" /\ pc[p] = "allowance"
      BY <1>10, <2>2, <1>5 DEF Control, TakeAllowance, Statement
    <3>2. call'[p].act = call[p].act /\ \A q \in Process : q # p => call'[q] = call[q]
      BY <2>2 DEF TypeOK, Call
    <3>3. KnowsOrder(p)'
      BY <1>3, <3>1, <3>2 DEF KnowsOrder
    <3> QED BY <1>4, <1>10, <2>2, <3>2, <3>3 DEF Control, TakeAllowance
  <2> QED BY <1>10, <2>1, <2>2 DEF TakeAllowance
<1>11. CASE SubmitFails(p) \/ SubmitReturns(p) \/ PollReturns(p)
  <2>1. UNCHANGED <<rows, call, vendorVars, day>>
    BY <1>11 DEF SubmitFails, SubmitReturns, PollReturns
  <2>2. PICK label \in {"park", "save", "store", "fail"} :
          /\ Goto(p, label)
          /\ label = "save" => pc[p] = "await"
          /\ label = "store" => pc[p] = "poll" /\ call[p].act \in succeeded
          /\ label = "fail" => pc[p] = "poll" /\ call[p].act \in failed
    BY <1>11 DEF SubmitFails, SubmitReturns, PollReturns, At
  <2>3. pc'[p] = label
    BY <2>2, <1>5 DEF Control
  <2>4. KnowsOrder(p)'
    BY <1>3, <2>1, <2>2, <2>3 DEF KnowsOrder, vendorVars
  <2> QED BY <1>4, <2>1, <2>2, <2>4 DEF Control
<1>12. ASSUME NEW f \in Fingerprint, NEW d \in Document, Start(p, f, d)
       PROVE  OrdersInv'
  <2>1. /\ UNCHANGED <<rows, wire, orders, succeeded, failed>>
        /\ pc' = [pc EXCEPT ![p] = "read"]
        /\ call' = [call EXCEPT ![p] = [NoCall EXCEPT !.fp = f, !.doc = d]]
    BY <1>12 DEF Start, vendorVars
  <2>2. pc'[p] = "read" /\ call'[p].act = NoActivity
        /\ \A q \in Process : q # p => pc'[q] = pc[q] /\ call'[q] = call[q]
    BY <2>1 DEF TypeOK, NoCall
  <2>3. KnowsOrder(p)'
    BY <2>2 DEF KnowsOrder
  <2> QED BY <1>1, <2>1, <2>2, <2>3
<1> QED BY <1>6, <1>7, <1>8, <1>9, <1>10, <1>11, <1>12 DEF ReadRow

\* The environment's steps.
LEMMA EnvironmentKeepsOrders ==
    ASSUME TypeOK, OrdersInv, RowsInv, [Next]_vars
    PROVE  /\ \A p \in Process : CutSession(p) => OrdersInv'
           /\ \A m \in wire : PostLost(m) => OrdersInv'
           /\ \A i \in 1..Len(orders) : VendorFinishes(i) => OrdersInv'
           /\ \A f \in Fingerprint, g \in Generation : Expire(f, g) => OrdersInv'
           /\ NextDay \/ UNCHANGED vars => OrdersInv'
<1>1. ASSUME UNCHANGED <<pc, call, wire, orders, succeeded, failed>> PROVE CallKnowsOrder'
  BY <1>1 DEF OrdersInv, CallKnowsOrder, KnowsOrder, FirstToPost
<1>2. ASSUME UNCHANGED <<rows, pc, call, wire, orders, succeeded, failed>> PROVE OrdersInv'
  BY <1>1, <1>2, SameRowsTell, RowsKeepOrders DEF OrdersInv
<1>3. ASSUME NEW m \in wire, PostLost(m) PROVE OrdersInv'
  <2>1. wire' = wire \ {m} /\ UNCHANGED <<rows, pc, call, orders, succeeded, failed>>
    BY <1>3 DEF PostLost
  <2>2. CallKnowsOrder'
    BY <2>1 DEF OrdersInv, CallKnowsOrder, KnowsOrder, FirstToPost
  <2>3. OneOrderPerReservation' /\ ReservationBeforeOrder'
    BY <2>1 DEF OrdersInv, OneOrderPerReservation, ReservationBeforeOrder, Exists
  <2> QED BY <2>1, <2>2, <2>3, SameRowsTell DEF OrdersInv
<1>4. ASSUME NEW i \in 1..Len(orders), VendorFinishes(i) PROVE OrdersInv'
  <2>1. /\ UNCHANGED <<rows, pc, call, wire, orders>>
        /\ succeeded \subseteq succeeded' /\ failed \subseteq failed'
    BY <1>4 DEF VendorFinishes
  <2>2. CallKnowsOrder'
    BY <2>1 DEF OrdersInv, CallKnowsOrder, KnowsOrder, FirstToPost
  <2>3. OneOrderPerReservation' /\ ReservationBeforeOrder'
    BY <2>1 DEF OrdersInv, OneOrderPerReservation, ReservationBeforeOrder, Exists
  <2>4. RowTellsItsActivity'
    BY <2>1 DEF OrdersInv, RowTellsItsActivity
  <2> QED BY <2>2, <2>3, <2>4 DEF OrdersInv
<1>5. ASSUME NEW f \in Fingerprint, NEW g \in Generation, Expire(f, g) PROVE OrdersInv'
  <2> DEFINE old == rows[f][g]
             new == [old EXCEPT !.expiry = "past"]
  <2>1. SetRow(f, g, new) /\ UNCHANGED <<pc, call, wire, orders, succeeded, failed>>
    BY <1>5 DEF Expire, vendorVars
  <2>2. old \in Row
    BY DEF TypeOK
  <2>3. new \in Row /\ new.act = old.act /\ new.state = old.state
    BY <2>2 DEF Row
  <2>4. /\ old.act # NoActivity =>
              old.act \in 1..Len(orders) /\ orders[old.act] = [fp |-> f, gen |-> g]
        /\ old.state = "RESULT_RECEIVED" => old.act \in succeeded
        /\ old.state = "FAILED_POST_SUBMIT" => old.act \in failed
    BY DEF OrdersInv, RowTellsItsActivity
  <2> HIDE DEF new
  <2>5. RowTellsItsActivity'
    BY <2>1, <2>3, <2>4, WrittenRowTells
  <2> QED BY <1>1, <2>1, <2>5, RowsKeepOrders DEF OrdersInv
<1>6. ASSUME NEW p \in Process, CutSession(p) PROVE OrdersInv'
  BY <1>2, <1>6 DEF CutSession, vendorVars
<1>7. ASSUME NextDay \/ UNCHANGED vars PROVE OrdersInv'
  BY <1>2, <1>7 DEF NextDay, vars, vendorVars
<1> QED BY <1>3, <1>4, <1>5, <1>6, <1>7

\* Each generation is posted at most once, and its row tells what came of it,
\* throughout.
THEOREM OrdersInvariant == Spec => []OrdersInv
<1>1. Init => OrdersInv
  <2> SUFFICES ASSUME Init PROVE OrdersInv
    OBVIOUS
  <2>1. /\ pc = [p \in Process |-> "idle"] /\ wire = {} /\ Len(orders) = 0
        /\ \A f \in Fingerprint, g \in Generation : rows[f][g] = AbsentRow
    BY DEF Init
  <2>2. AbsentRow.act = NoActivity /\ AbsentRow.state = "ABSENT"
    BY DEF AbsentRow
  <2>3. CallKnowsOrder
    BY <2>1 DEF CallKnowsOrder, KnowsOrder, FirstToPost
  <2>4. OneOrderPerReservation /\ ReservationBeforeOrder
    BY <2>1 DEF OneOrderPerReservation, ReservationBeforeOrder
  <2>5. RowTellsItsActivity
    BY <2>1, <2>2 DEF RowTellsItsActivity
  <2> QED BY <2>3, <2>4, <2>5 DEF OrdersInv
<1>2. TypeOK /\ RowsInv /\ OrdersInv /\ [Next]_vars => OrdersInv'
  <2> SUFFICES ASSUME TypeOK, RowsInv, OrdersInv, [Next]_vars PROVE OrdersInv'
    OBVIOUS
  <2>1. ASSUME NEW p \in Process, Step(p) \/ Crash(p) PROVE OrdersInv'
    BY <2>1, MovesKeepOrders, WritesKeepOrders, InsertKeepsOrders, SendKeepsOrders DEF Step
  <2>2. ASSUME NEW p \in Process, NEW f \in Fingerprint, NEW d \in Document, Start(p, f, d)
        PROVE  OrdersInv'
    BY <2>2, MovesKeepOrders
  <2>3. ASSUME NEW m \in wire, VendorAccepts(m) PROVE OrdersInv'
    BY <2>3, VendorKeepsOrders
  <2> QED BY <2>1, <2>2, <2>3, EnvironmentKeepsOrders DEF Next
<1> QED BY <1>1, <1>2, TypeCorrect, RowsInvariant, PTL DEF Spec

-----------------------------------------------------------------------------
(* The daily allowance.                                                    *)

AllowanceInv == AllowanceHeld /\ DailyAllowanceKept

\* The rows of a day are finitely many.
LEMMA ReservedFinite ==
    ASSUME NEW d PROVE IsFiniteSet(ReservedOn(d)) /\ Cardinality(ReservedOn(d)) \in Nat
<1>1. IsFiniteSet(Generation)
  BY FS_Interval, BoundsAssumption DEF Generation
<1>2. IsFiniteSet(Fingerprint \X Generation)
  BY <1>1, FS_Product, FingerprintAssumption
<1>3. ReservedOn(d) \subseteq Fingerprint \X Generation
  BY DEF ReservedOn
<1> QED BY <1>2, <1>3, FS_Subset, FS_CardinalityType

\* A step that adds no reservation and opens no allowance transaction.
LEMMA AllowanceStays ==
    ASSUME TypeOK, AllowanceInv,
           \A f \in Fingerprint, g \in Generation :
              /\ (rows'[f][g].state = "ABSENT") <=> (rows[f][g].state = "ABSENT")
              /\ rows'[f][g].day = rows[f][g].day,
           \A q \in Process : InAllowance(q)' => InAllowance(q) /\ call'[q].day = call[q].day
    PROVE  AllowanceInv'
<1>1. ASSUME NEW d PROVE ReservedOn(d)' = ReservedOn(d)
  BY DEF ReservedOn, Exists
<1>2. DailyAllowanceKept'
  BY <1>1 DEF AllowanceInv, DailyAllowanceKept
<1>3. ASSUME NEW p \in Process, InAllowance(p)'
      PROVE  Cardinality(ReservedOn(call[p].day))' < DailyLimit
  <2> DEFINE d == call[p].day
  <2>1. call'[p].day = d /\ Cardinality(ReservedOn(d)) < DailyLimit
    BY <1>3 DEF AllowanceInv, AllowanceHeld
  <2>2. ReservedOn(call[p].day)' = {k \in Fingerprint \X Generation :
            rows'[k[1]][k[2]].state # "ABSENT" /\ rows'[k[1]][k[2]].day = d}
    BY <2>1 DEF ReservedOn, Exists
  <2>3. ReservedOn(d) = {k \in Fingerprint \X Generation :
            rows'[k[1]][k[2]].state # "ABSENT" /\ rows'[k[1]][k[2]].day = d}
    BY DEF ReservedOn, Exists
  <2> QED BY <2>1, <2>2, <2>3
<1>4. \A p, q \in Process : InAllowance(p)' /\ InAllowance(q)' => p = q
  BY DEF AllowanceInv, AllowanceHeld
<1> QED BY <1>2, <1>3, <1>4 DEF AllowanceInv, AllowanceHeld

\* Rewriting an existing row changes neither which rows exist nor their days.
LEMMA RewriteKeepsDays ==
    ASSUME TypeOK, NEW f \in Fingerprint, NEW g \in Generation, NEW row \in Row,
           SetRow(f, g, row), row.day = rows[f][g].day,
           row.state # "ABSENT", Exists(f, g)
    PROVE  \A e \in Fingerprint, h \in Generation :
              /\ (rows'[e][h].state = "ABSENT") <=> (rows[e][h].state = "ABSENT")
              /\ rows'[e][h].day = rows[e][h].day
<1>1. /\ rows'[f][g] = row
      /\ \A e \in Fingerprint, h \in Generation :
            <<e, h>> # <<f, g>> => rows'[e][h] = rows[e][h]
  BY SetRowEffect DEF TypeOK
<1> SUFFICES ASSUME NEW e \in Fingerprint, NEW h \in Generation
             PROVE  /\ (rows'[e][h].state = "ABSENT") <=> (rows[e][h].state = "ABSENT")
                    /\ rows'[e][h].day = rows[e][h].day
  OBVIOUS
<1>2. CASE <<e, h>> = <<f, g>>
  BY <1>1, <1>2 DEF Exists
<1>3. CASE <<e, h>> # <<f, g>>
  BY <1>1, <1>3
<1> QED BY <1>2, <1>3

\* A step of p that leaves p outside the allowance transaction.
LEMMA OutsideAllowance ==
    ASSUME TypeOK, NEW p \in Process, pc'[p] # "insert",
           \A q \in Process : q # p => /\ pc'[q] = pc[q] /\ session'[q] = session[q]
                                      /\ call'[q] = call[q]
    PROVE  \A q \in Process : InAllowance(q)' => InAllowance(q) /\ call'[q].day = call[q].day
  BY DEF InAllowance

\* The updates of a row keep the day's allowance.
LEMMA WritesKeepAllowance ==
    ASSUME TypeOK, RowsInv, AllowanceInv, NEW p \in Process,
           ParkUnknown(p) \/ SaveActivity(p) \/ RecordFailure(p) \/ StoreResult(p)
    PROVE  AllowanceInv'
<1> DEFINE f == call[p].fp
           g == call[p].gen
           old == rows[f][g]
<1>1. f \in Fingerprint /\ g \in Generation /\ old \in Row /\ call[p] \in Call
  BY DEF TypeOK, Call
<1>2. Exists(f, g)
  BY DEF RowsInv, CallOwnsRow, OwnsRow, ParkUnknown, SaveActivity, RecordFailure,
     StoreResult, Statement
<1>3. PICK new \in Row : SetRow(f, g, new) /\ new.state # "ABSENT" /\ new.day = old.day
  <2>1. CASE ParkUnknown(p) \/ RecordFailure(p)
    <3>1. PICK st \in {"UNKNOWN_VENDOR_STATE", "FAILED_POST_SUBMIT"} :
            SetRow(f, g, [old EXCEPT !.state = st])
      BY <2>1 DEF ParkUnknown, RecordFailure, SetState
    <3>2. [old EXCEPT !.state = st] \in Row /\ [old EXCEPT !.state = st].state = st
          /\ [old EXCEPT !.state = st].day = old.day
      BY <1>1 DEF Row, State
    <3> QED BY <3>1, <3>2
  <2>2. CASE StoreResult(p)
    <3>1. PICK e \in {"live", "none"} :
            SetRow(f, g, [old EXCEPT !.state = "RESULT_RECEIVED", !.expiry = e])
      BY <2>2 DEF StoreResult
    <3> DEFINE new == [old EXCEPT !.state = "RESULT_RECEIVED", !.expiry = e]
    <3>2. new \in Row /\ new.state = "RESULT_RECEIVED" /\ new.day = old.day
      BY <1>1 DEF Row, State
    <3> QED BY <3>1, <3>2
  <2>3. CASE SaveActivity(p)
    <3> DEFINE new == [old EXCEPT !.state = "ACTIVITY_ID_PERSISTED", !.act = call[p].act]
    <3>1. new \in Row /\ new.state = "ACTIVITY_ID_PERSISTED" /\ new.day = old.day
      BY <1>1 DEF Row, State, Call
    <3>2. SetRow(f, g, new)
      BY <2>3 DEF SaveActivity
    <3> QED BY <3>1, <3>2
  <2> QED BY <2>1, <2>2, <2>3
<1>4. /\ pc'[p] # "insert"
      /\ \A q \in Process : q # p => /\ pc'[q] = pc[q] /\ session'[q] = session[q]
                                    /\ call'[q] = call[q]
  <2>1. CASE End(p)
    BY <2>1, EndEffect DEF TypeOK
  <2>2. CASE Goto(p, "poll") /\ UNCHANGED call
    BY <2>2, GotoEffect DEF TypeOK, Control
  <2> QED BY <2>1, <2>2 DEF ParkUnknown, SaveActivity, RecordFailure, StoreResult
<1>5. \A q \in Process : InAllowance(q)' => InAllowance(q) /\ call'[q].day = call[q].day
  BY <1>4, OutsideAllowance
<1>6. \A e \in Fingerprint, h \in Generation :
          /\ (rows'[e][h].state = "ABSENT") <=> (rows[e][h].state = "ABSENT")
          /\ rows'[e][h].day = rows[e][h].day
  BY <1>1, <1>2, <1>3, RewriteKeepsDays
<1> QED BY <1>5, <1>6, AllowanceStays

\* So does the insert of a new generation, which spends a unit taken before.
LEMMA InsertKeepsAllowance ==
    ASSUME TypeOK, AllowanceInv, NEW p \in Process, InsertRow(p)
    PROVE  AllowanceInv'
<1> DEFINE f == call[p].fp
           g == call[p].gen
           today == call[p].day
           new == [state |-> "SUBMITTING", doc |-> call[p].doc, day |-> today,
                   act |-> NoActivity, expiry |-> "none"]
<1>1. f \in Fingerprint /\ g \in Generation /\ today \in Day /\ new \in Row
  BY DEF TypeOK, Call, Row, State, NoActivity
<1>2. SetRow(f, g, new) /\ ~Exists(f, g) /\ InAllowance(p) /\ Goto(p, "submit")
      /\ UNCHANGED call
  BY DEF InsertRow, Statement, InAllowance
<1>3. new.state # "ABSENT" /\ new.day = today
  OBVIOUS
<1> HIDE DEF new
<1>4. /\ rows'[f][g] = new
      /\ \A e \in Fingerprint, h \in Generation :
            <<e, h>> # <<f, g>> => rows'[e][h] = rows[e][h]
  BY <1>1, <1>2, SetRowEffect DEF TypeOK
<1> HIDE DEF f, g, today
<1>5. ASSUME NEW d, d # today PROVE ReservedOn(d)' = ReservedOn(d)
  <2>1. ASSUME NEW k \in Fingerprint \X Generation
        PROVE  (rows'[k[1]][k[2]].state # "ABSENT" /\ rows'[k[1]][k[2]].day = d)
               <=> (rows[k[1]][k[2]].state # "ABSENT" /\ rows[k[1]][k[2]].day = d)
    <3>1. CASE k = <<f, g>>
      BY <1>2, <1>3, <1>4, <1>5, <3>1 DEF Exists
    <3>2. CASE k # <<f, g>>
      BY <1>4, <3>2
    <3> QED BY <3>1, <3>2
  <2> QED BY <2>1 DEF ReservedOn, Exists
<1>6. ReservedOn(today)' = ReservedOn(today) \cup {<<f, g>>}
  <2>1. ASSUME NEW k \in Fingerprint \X Generation
        PROVE  (rows'[k[1]][k[2]].state # "ABSENT" /\ rows'[k[1]][k[2]].day = today)
               <=> ((rows[k[1]][k[2]].state # "ABSENT" /\ rows[k[1]][k[2]].day = today)
                     \/ k = <<f, g>>)
    <3>1. CASE k = <<f, g>>
      BY <1>3, <1>4, <3>1
    <3>2. CASE k # <<f, g>>
      BY <1>4, <3>2
    <3> QED BY <3>1, <3>2
  <2>2. today' = today
    BY <1>2 DEF today
  <2>3. {k \in Fingerprint \X Generation :
            rows'[k[1]][k[2]].state # "ABSENT" /\ rows'[k[1]][k[2]].day = today}
        = ReservedOn(today) \cup {<<f, g>>}
    BY <1>1, <2>1 DEF ReservedOn, Exists
  <2> QED BY <2>2, <2>3 DEF ReservedOn, Exists
<1>7. Cardinality(ReservedOn(today)) < DailyLimit
  BY <1>2 DEF AllowanceInv, AllowanceHeld, today
<1>8. Cardinality(ReservedOn(today) \cup {<<f, g>>}) <= DailyLimit
  <2>1. \/ Cardinality(ReservedOn(today) \cup {<<f, g>>}) = Cardinality(ReservedOn(today)) + 1
        \/ Cardinality(ReservedOn(today) \cup {<<f, g>>}) = Cardinality(ReservedOn(today))
    BY ReservedFinite, FS_AddElement
  <2> QED BY <1>7, <2>1, ReservedFinite, DailyLimitAssumption
<1>9. DailyAllowanceKept'
  <2> SUFFICES ASSUME NEW d \in Day PROVE Cardinality(ReservedOn(d)') <= DailyLimit
    BY DEF DailyAllowanceKept
  <2>1. CASE d = today
    <3>1. ReservedOn(d)' = ReservedOn(today) \cup {<<f, g>>}
      <4>1. today' = today
        BY <1>2 DEF today
      <4> QED BY <1>6, <2>1, <4>1 DEF ReservedOn
    <3> QED BY <1>8, <3>1
  <2>2. CASE d # today
    BY <1>5, <2>2 DEF AllowanceInv, DailyAllowanceKept
  <2> QED BY <2>1, <2>2
<1>10. \A q \in Process : ~InAllowance(q)'
  <2>1. pc'[p] = "submit" /\ \A q \in Process : q # p => pc'[q] = pc[q]
        /\ session' = session
    BY <1>2, GotoEffect DEF TypeOK, Control, Goto
  <2>2. \A q \in Process : q # p => ~InAllowance(q)
    BY <1>2 DEF AllowanceInv, AllowanceHeld
  <2> QED BY <2>1, <2>2 DEF InAllowance
<1>11. AllowanceHeld'
  BY <1>10 DEF AllowanceHeld
<1> QED BY <1>9, <1>11 DEF AllowanceInv

\* So does taking the unit, under the day's lock.
LEMMA TakeKeepsAllowance ==
    ASSUME TypeOK, AllowanceInv, NEW p \in Process, TakeAllowance(p)
    PROVE  AllowanceInv'
<1>1. UNCHANGED <<rows, day>> /\ \A q \in Process : ~InAllowance(q)
  BY DEF TakeAllowance, AllowanceFree
<1>2. ASSUME NEW d PROVE ReservedOn(d)' = ReservedOn(d)
  BY <1>1 DEF ReservedOn, Exists
<1>3. CASE End(p)
  BY <1>1, <1>3, AllowanceStays, OutsideAllowance, EndEffect DEF TypeOK
<1>4. CASE /\ Cardinality(ReservedOn(day)) < DailyLimit
           /\ call' = [call EXCEPT ![p].day = day] /\ Goto(p, "insert")
  <2>1. /\ pc'[p] = "insert" /\ call'[p].day = day
        /\ \A q \in Process : q # p => pc'[q] = pc[q] /\ session'[q] = session[q]
    BY <1>4, GotoEffect DEF TypeOK, Control, Call, Goto
  <2>2. \A q \in Process : InAllowance(q)' => q = p
    BY <1>1, <2>1 DEF InAllowance
  <2>3. ReservedOn(call[p].day)' = ReservedOn(day)
    BY <1>1, <2>1 DEF ReservedOn, Exists
  <2>4. AllowanceHeld'
    BY <1>4, <2>2, <2>3 DEF AllowanceHeld
  <2>5. DailyAllowanceKept'
    BY <1>2 DEF AllowanceInv, DailyAllowanceKept
  <2> QED BY <2>4, <2>5 DEF AllowanceInv
<1> QED BY <1>3, <1>4 DEF TakeAllowance

\* Every other step leaves the reservations alone and opens no transaction.
LEMMA OthersKeepAllowance ==
    ASSUME TypeOK, AllowanceInv, NEW p \in Process
    PROVE  /\ ReadRow(p) \/ SendPost(p) \/ SubmitFails(p) \/ SubmitReturns(p)
              \/ PollReturns(p) \/ PollTimesOut(p) \/ StorageError(p) \/ Crash(p)
              \/ CutSession(p) => AllowanceInv'
           /\ \A f \in Fingerprint, d \in Document : Start(p, f, d) => AllowanceInv'
<1>1. ASSUME UNCHANGED rows, pc'[p] # "insert",
             \A q \in Process : q # p => /\ pc'[q] = pc[q] /\ session'[q] = session[q]
                                        /\ call'[q] = call[q]
      PROVE  AllowanceInv'
  BY <1>1, AllowanceStays, OutsideAllowance
<1>2. ASSUME End(p), UNCHANGED rows PROVE AllowanceInv'
  BY <1>1, <1>2, EndEffect DEF TypeOK
<1>3. ASSUME NEW label \in Control \ {"insert"}, Goto(p, label), UNCHANGED rows,
             \A q \in Process : q # p => call'[q] = call[q]
      PROVE  AllowanceInv'
  BY <1>1, <1>3, GotoEffect DEF TypeOK, Goto
<1>4. CASE ReadEnds(p) \/ PollTimesOut(p) \/ StorageError(p) \/ Crash(p)
  BY <1>2, <1>4 DEF ReadEnds, PollTimesOut, StorageError, Crash
<1>5. CASE ReadAmbiguous(p) \/ ReadResume(p) \/ ReadNew(p)
  <2>1. \A q \in Process : q # p => call'[q] = call[q]
    BY <1>5 DEF ReadAmbiguous, ReadResume, ReadNew, TypeOK
  <2>2. PICK label \in {"park", "poll", "allowance"} : Goto(p, label)
    BY <1>5 DEF ReadAmbiguous, ReadResume, ReadNew
  <2>3. UNCHANGED rows
    BY <1>5 DEF ReadAmbiguous, ReadResume, ReadNew
  <2> QED BY <1>3, <2>1, <2>2, <2>3 DEF Control
<1>6. CASE SendPost(p) \/ SubmitFails(p) \/ SubmitReturns(p) \/ PollReturns(p)
  <2>1. PICK label \in {"await", "park", "save", "store", "fail"} : Goto(p, label)
    BY <1>6 DEF SendPost, SubmitFails, SubmitReturns, PollReturns
  <2>2. UNCHANGED <<rows, call>>
    BY <1>6 DEF SendPost, SubmitFails, SubmitReturns, PollReturns
  <2> QED BY <1>3, <2>1, <2>2 DEF Control
<1>7. CASE CutSession(p)
  <2>1. \A q \in Process : InAllowance(q)' => InAllowance(q) /\ call'[q].day = call[q].day
    BY <1>7 DEF CutSession, InAllowance, TypeOK
  <2> QED BY <1>7, <2>1, AllowanceStays DEF CutSession
<1>8. ASSUME NEW f \in Fingerprint, NEW d \in Document, Start(p, f, d) PROVE AllowanceInv'
  BY <1>1, <1>8 DEF Start, TypeOK
<1> QED BY <1>4, <1>5, <1>6, <1>7, <1>8 DEF ReadRow

\* So do the vendor, expiry and midnight.
LEMMA EnvironmentKeepsAllowance ==
    ASSUME TypeOK, AllowanceInv
    PROVE  /\ \A m \in wire : VendorAccepts(m) \/ PostLost(m) => AllowanceInv'
           /\ \A i \in 1..Len(orders) : VendorFinishes(i) => AllowanceInv'
           /\ \A f \in Fingerprint, g \in Generation : Expire(f, g) => AllowanceInv'
           /\ NextDay \/ UNCHANGED vars => AllowanceInv'
<1>1. ASSUME UNCHANGED <<rows, pc, session>>, \A q \in Process : call'[q].day = call[q].day
      PROVE  AllowanceInv'
  BY <1>1, AllowanceStays DEF InAllowance
<1>2. ASSUME NEW m \in wire, VendorAccepts(m) PROVE AllowanceInv'
  <2>1. m.proc \in Process
    BY DEF TypeOK, Post
  <2>2. CASE call' = call
    BY <1>1, <1>2, <2>2 DEF VendorAccepts
  <2>3. CASE call' = [call EXCEPT ![m.proc].act = Len(orders) + 1]
    <3>1. \A q \in Process : call'[q].day = call[q].day
      BY <2>1, <2>3 DEF TypeOK, Call
    <3> QED BY <1>1, <1>2, <3>1 DEF VendorAccepts
  <2> QED BY <1>2, <2>2, <2>3 DEF VendorAccepts
<1>3. ASSUME NEW m \in wire, PostLost(m) PROVE AllowanceInv'
  BY <1>1, <1>3 DEF PostLost
<1>4. ASSUME NEW i \in 1..Len(orders), VendorFinishes(i) PROVE AllowanceInv'
  BY <1>1, <1>4 DEF VendorFinishes
<1>5. ASSUME NEW f \in Fingerprint, NEW g \in Generation, Expire(f, g) PROVE AllowanceInv'
  <2> DEFINE new == [rows[f][g] EXCEPT !.expiry = "past"]
  <2>1. SetRow(f, g, new) /\ rows[f][g] \in Row /\ UNCHANGED <<pc, session, call>>
    BY <1>5 DEF Expire, TypeOK
  <2>2. new \in Row /\ new.day = rows[f][g].day /\ new.state = rows[f][g].state
    BY <2>1 DEF Row
  <2> HIDE DEF new
  <2>3. /\ rows'[f][g] = new
        /\ \A e \in Fingerprint, h \in Generation :
              <<e, h>> # <<f, g>> => rows'[e][h] = rows[e][h]
    BY <2>1, <2>2, SetRowEffect DEF TypeOK
  <2>4. ASSUME NEW e \in Fingerprint, NEW h \in Generation
        PROVE  /\ (rows'[e][h].state = "ABSENT") <=> (rows[e][h].state = "ABSENT")
               /\ rows'[e][h].day = rows[e][h].day
    <3>1. CASE <<e, h>> = <<f, g>>
      BY <2>2, <2>3, <3>1
    <3>2. CASE <<e, h>> # <<f, g>>
      BY <2>3, <3>2
    <3> QED BY <3>1, <3>2
  <2>5. \A q \in Process : InAllowance(q)' => InAllowance(q) /\ call'[q].day = call[q].day
    BY <2>1 DEF InAllowance
  <2> QED BY <2>4, <2>5, AllowanceStays
<1>6. ASSUME NextDay \/ UNCHANGED vars PROVE AllowanceInv'
  BY <1>1, <1>6 DEF NextDay, vars
<1> QED BY <1>2, <1>3, <1>4, <1>5, <1>6

\* The units taken and the rows inserted stay within the day's allowance throughout.
THEOREM AllowanceInvariant == Spec => []AllowanceInv
<1>1. Init => AllowanceInv
  <2> SUFFICES ASSUME Init PROVE AllowanceInv
    OBVIOUS
  <2>1. ASSUME NEW d PROVE ReservedOn(d) = {}
    BY DEF Init, ReservedOn, Exists, AbsentRow
  <2>2. DailyAllowanceKept
    BY <2>1, FS_EmptySet, DailyLimitAssumption DEF DailyAllowanceKept
  <2>3. AllowanceHeld
    BY DEF Init, AllowanceHeld, InAllowance
  <2> QED BY <2>2, <2>3 DEF AllowanceInv
<1>2. TypeOK /\ RowsInv /\ AllowanceInv /\ [Next]_vars => AllowanceInv'
  <2> SUFFICES ASSUME TypeOK, RowsInv, AllowanceInv, [Next]_vars PROVE AllowanceInv'
    OBVIOUS
  <2>1. ASSUME NEW p \in Process, Step(p) \/ Crash(p) \/ CutSession(p) PROVE AllowanceInv'
    BY <2>1, OthersKeepAllowance, WritesKeepAllowance, InsertKeepsAllowance,
       TakeKeepsAllowance DEF Step
  <2>2. ASSUME NEW p \in Process, NEW f \in Fingerprint, NEW d \in Document, Start(p, f, d)
        PROVE  AllowanceInv'
    BY <2>2, OthersKeepAllowance
  <2> QED BY <2>1, <2>2, EnvironmentKeepsAllowance DEF Next
<1> QED BY <1>1, <1>2, TypeCorrect, RowsInvariant, PTL DEF Spec

-----------------------------------------------------------------------------
(* What the invariants give.                                               *)

\* A write of one row settles the table when it settles that row.
LEMMA OneRowSettled ==
    ASSUME TypeOK, NEW e \in Fingerprint, NEW h \in Generation, NEW row \in Row,
           SetRow(e, h, row), Settled(rows[e][h], row)
    PROVE  \A f \in Fingerprint, g \in Generation : Settled(rows[f][g], rows'[f][g])
<1>1. /\ rows'[e][h] = row
      /\ \A f \in Fingerprint, g \in Generation :
            <<f, g>> # <<e, h>> => rows'[f][g] = rows[f][g]
  BY SetRowEffect DEF TypeOK
<1>2. ASSUME NEW f \in Fingerprint, NEW g \in Generation PROVE Settled(rows[f][g], rows'[f][g])
  <2>1. CASE <<f, g>> = <<e, h>>
    BY <1>1, <2>1
  <2>2. CASE <<f, g>> # <<e, h>>
    <3>1. rows'[f][g] = rows[f][g] /\ rows[f][g] \in Row
      BY <1>1, <2>2 DEF TypeOK
    <3> QED BY <3>1 DEF Settled, Row
  <2> QED BY <2>1, <2>2
<1> QED BY <1>2

\* The updates and the insert leave settled rows as they are.
LEMMA WritesSettle ==
    ASSUME TypeOK, RowsInv, OrdersInv, NEW p \in Process,
           \/ ParkUnknown(p) \/ SaveActivity(p) \/ RecordFailure(p) \/ StoreResult(p)
           \/ InsertRow(p)
    PROVE  \A f \in Fingerprint, g \in Generation : Settled(rows[f][g], rows'[f][g])
<1> DEFINE f == call[p].fp
           g == call[p].gen
           old == rows[f][g]
<1>1. f \in Fingerprint /\ g \in Generation /\ old \in Row /\ call[p] \in Call
  BY DEF TypeOK, Call
<1>2. /\ OwnsRow(p) /\ session[p]
      /\ old.state # "ABSENT" => (old.act = NoActivity) =
             (old.state \in {"SUBMITTING", "UNKNOWN_VENDOR_STATE"})
  BY <1>1 DEF RowsInv, CallOwnsRow, TableInv, CheckConstraint, Exists, ParkUnknown,
     SaveActivity, RecordFailure, StoreResult, InsertRow, Statement
<1>3. CASE ParkUnknown(p)
  <2> DEFINE new == [old EXCEPT !.state = "UNKNOWN_VENDOR_STATE"]
  <2>1. new \in Row /\ new.act = old.act /\ new.expiry = old.expiry
    BY <1>1 DEF Row, State
  <2>2. SetRow(f, g, new) /\ old.state \in {"SUBMITTING", "UNKNOWN_VENDOR_STATE"}
    BY <1>2, <1>3 DEF ParkUnknown, SetState, Statement, OwnsRow
  <2>3. old.state = "UNKNOWN_VENDOR_STATE" => new = [old EXCEPT !.expiry = new.expiry]
    BY <1>1 DEF Row
  <2>4. Settled(old, new)
    BY <2>1, <2>2, <2>3 DEF Settled
  <2> QED BY <1>1, <2>1, <2>2, <2>4, OneRowSettled
<1>4. CASE SaveActivity(p)
  <2> DEFINE new == [old EXCEPT !.state = "ACTIVITY_ID_PERSISTED", !.act = call[p].act]
  <2>1. new \in Row
    BY <1>1 DEF Row, State, Call
  <2>2. SetRow(f, g, new) /\ old.state = "SUBMITTING"
    BY <1>2, <1>4 DEF SaveActivity, Statement, OwnsRow
  <2>3. old.act = NoActivity
    BY <1>2, <2>2
  <2>4. Settled(old, new)
    BY <2>2, <2>3 DEF Settled
  <2> QED BY <1>1, <2>1, <2>2, <2>4, OneRowSettled
<1>5. CASE RecordFailure(p) \/ StoreResult(p)
  <2>1. PICK st \in {"RESULT_RECEIVED", "FAILED_POST_SUBMIT"}, e \in {"none", "live", "past"} :
          SetRow(f, g, [old EXCEPT !.state = st, !.expiry = e])
    <3>1. CASE StoreResult(p)
      BY <3>1 DEF StoreResult
    <3>2. CASE RecordFailure(p)
      <4>1. [old EXCEPT !.state = "FAILED_POST_SUBMIT"]
              = [old EXCEPT !.state = "FAILED_POST_SUBMIT", !.expiry = old.expiry]
        BY <1>1 DEF Row
      <4>2. SetRow(f, g, [old EXCEPT !.state = "FAILED_POST_SUBMIT"])
        BY <3>2 DEF RecordFailure, SetState
      <4>3. old.expiry \in {"none", "live", "past"}
        BY <1>1 DEF Row
      <4> QED BY <4>1, <4>2, <4>3
    <3> QED BY <1>5, <3>1, <3>2
  <2> DEFINE new == [old EXCEPT !.state = st, !.expiry = e]
  <2>2. new \in Row /\ new.act = old.act
    BY <1>1 DEF Row, State
  <2>3. old.state = "ACTIVITY_ID_PERSISTED"
    BY <1>2, <1>5 DEF RecordFailure, StoreResult, Statement, OwnsRow
  <2>4. Settled(old, new)
    BY <2>2, <2>3 DEF Settled
  <2> QED BY <1>1, <2>1, <2>2, <2>4, OneRowSettled
<1>6. CASE InsertRow(p)
  <2> DEFINE new == [state |-> "SUBMITTING", doc |-> call[p].doc, day |-> call[p].day,
                     act |-> NoActivity, expiry |-> "none"]
  <2>1. new \in Row
    BY <1>1 DEF Row, State, Call, NoActivity
  <2>2. SetRow(f, g, new) /\ old.state = "ABSENT"
    BY <1>6 DEF InsertRow, Exists
  <2>3. old.act = NoActivity
    <3>1. SUFFICES ASSUME old.act # NoActivity PROVE FALSE
      OBVIOUS
    <3>2. old.act \in 1..Len(orders) /\ orders[old.act] = [fp |-> f, gen |-> g]
      BY <1>1, <3>1 DEF OrdersInv, RowTellsItsActivity
    <3>3. Exists(orders[old.act].fp, orders[old.act].gen)
      BY <3>2 DEF OrdersInv, ReservationBeforeOrder
    <3> QED BY <2>2, <3>2, <3>3 DEF Exists
  <2>4. Settled(old, new)
    BY <2>2, <2>3 DEF Settled
  <2> QED BY <1>1, <2>1, <2>2, <2>4, OneRowSettled
<1> QED BY <1>3, <1>4, <1>5, <1>6

\* A parked, failed or delivered row never changes again and a saved activity
\* id is never lost: the UPDATE statements name no expected state, it is the
\* session lock of run that makes this so.
THEOREM SettledRowsAreFinal == Spec => SettledRowIsFinal
<1>1. TypeOK /\ RowsInv /\ OrdersInv /\ [Next]_vars => RowsSettle
  <2> SUFFICES ASSUME TypeOK, RowsInv, OrdersInv, [Next]_vars PROVE RowsSettle
    OBVIOUS
  <2>1. ASSUME UNCHANGED rows PROVE RowsSettle
    <3>1. \A f \in Fingerprint, g \in Generation : rows[f][g] \in Row /\ rows'[f][g] = rows[f][g]
      BY <2>1 DEF TypeOK
    <3> QED BY <3>1 DEF RowsSettle, Settled, Row
  <2>2. ASSUME NEW e \in Fingerprint, NEW h \in Generation, Expire(e, h) PROVE RowsSettle
    <3> DEFINE old == rows[e][h]
               new == [old EXCEPT !.expiry = "past"]
    <3>1. old \in Row /\ SetRow(e, h, new)
      BY <2>2 DEF TypeOK, Expire
    <3>2. new \in Row /\ Settled(old, new)
      BY <3>1 DEF Settled, Row
    <3> QED BY <3>1, <3>2, OneRowSettled DEF RowsSettle
  <2>3. \/ UNCHANGED rows
        \/ \E p \in Process : \/ ParkUnknown(p) \/ RecordFailure(p) \/ StoreResult(p)
                              \/ SaveActivity(p) \/ InsertRow(p)
        \/ \E e \in Fingerprint, h \in Generation : Expire(e, h)
    BY DEF Next, Step, ReadRow, ReadEnds, ReadAmbiguous, ReadResume, ReadNew,
       TakeAllowance, SendPost, SubmitFails, SubmitReturns, PollReturns,
       PollTimesOut, StorageError, CutSession, Crash, Start, VendorAccepts,
       PostLost, VendorFinishes, NextDay, vars
  <2> QED BY <2>1, <2>2, <2>3, WritesSettle DEF RowsSettle
<1> QED BY <1>1, TypeCorrect, RowsInvariant, OrdersInvariant, PTL
        DEF Spec, SettledRowIsFinal

\* The vendor charges no reservation twice, whatever dies and whenever.
THEOREM PaidAtMostOnce == Spec => []OneOrderPerReservation
<1>1. OrdersInv => OneOrderPerReservation
  BY DEF OrdersInv
<1> QED BY <1>1, OrdersInvariant, PTL

\* A POST is accepted only for a row that was committed before it left.
THEOREM ReservedBeforeOrdered == Spec => []ReservationBeforeOrder
<1>1. OrdersInv => ReservationBeforeOrder
  BY DEF OrdersInv
<1> QED BY <1>1, OrdersInvariant, PTL

\* A row's activity id and its verdict are the vendor's, for that generation.
THEOREM RowsTellTheirActivity == Spec => []RowTellsItsActivity
<1>1. OrdersInv => RowTellsItsActivity
  BY DEF OrdersInv
<1> QED BY <1>1, OrdersInvariant, PTL

\* Only an expired result is bought again.
THEOREM OnlyExpiredResultsAreRebought == Spec => []OnlyExpiredIsRebought
<1>1. RowsInv => OnlyExpiredIsRebought
  BY DEF RowsInv, TableInv
<1> QED BY <1>1, RowsInvariant, PTL

\* All generations of a fingerprint were bought for one and the same request.
THEOREM RequestsAgree == Spec => []OneRequestPerFingerprint
<1>1. RowsInv => OneRequestPerFingerprint
  BY DEF RowsInv, TableInv
<1> QED BY <1>1, RowsInvariant, PTL

\* No statement of the store is one that the CHECK of its table refuses.
THEOREM ChecksHold == Spec => []CheckConstraint
<1>1. RowsInv => CheckConstraint
  BY DEF RowsInv, TableInv
<1> QED BY <1>1, RowsInvariant, PTL

\* No day's reservations pass the limit, for any number of processes.
THEOREM AllowanceKept == Spec => []DailyAllowanceKept
<1>1. AllowanceInv => DailyAllowanceKept
  BY DEF AllowanceInv
<1> QED BY <1>1, AllowanceInvariant, PTL

\* The invariant the other theorems rest on is an invariant.
THEOREM CallsAgree == Spec => []CallsAgreeWithTable
<1>1. LockOwnership /\ RowsInv /\ OrdersInv /\ AllowanceInv => CallsAgreeWithTable
  BY DEF RowsInv, OrdersInv, AllowanceInv, CallsAgreeWithTable
<1> QED BY <1>1, LockOwnershipInvariant, RowsInvariant, OrdersInvariant,
           AllowanceInvariant, PTL

-----------------------------------------------------------------------------
(* The refinement.  The store implements PaidPurchases: an inserted row is *)
(* a reservation, an accepted POST a charge, a stored result a delivery,   *)
(* and every other step of calls, sessions, the vendor and the clock is a  *)
(* stutter.                                                                *)

Reserved == {<<k[1], k[2], rows[k[1]][k[2]].day>> :
               k \in {l \in Fingerprint \X Generation : Exists(l[1], l[2])}}
Charged == {<<orders[i].fp, orders[i].gen, i>> : i \in 1..Len(orders)}
Delivered == {k \in Fingerprint \X Generation : rows[k[1]][k[2]].state = "RESULT_RECEIVED"}

\* What holds of every reachable state, from the four layers.
Known == TypeOK /\ LockOwnership /\ RowsInv /\ OrdersInv /\ AllowanceInv

\* The members of the mapped sets.
LEMMA InReserved ==
    /\ \A f \in Fingerprint, g \in Generation : Exists(f, g) =>
          <<f, g, rows[f][g].day>> \in Reserved
    /\ \A r \in Reserved : \E f \in Fingerprint, g \in Generation :
          Exists(f, g) /\ r = <<f, g, rows[f][g].day>>
<1>1. ASSUME NEW f \in Fingerprint, NEW g \in Generation, Exists(f, g)
      PROVE  <<f, g, rows[f][g].day>> \in Reserved
  <2> DEFINE k == <<f, g>>
  <2>1. k \in Fingerprint \X Generation /\ k[1] = f /\ k[2] = g
    OBVIOUS
  <2>2. k \in {l \in Fingerprint \X Generation : Exists(l[1], l[2])}
    BY <1>1, <2>1
  <2> HIDE DEF k
  <2>3. <<k[1], k[2], rows[k[1]][k[2]].day>> \in Reserved
    BY <2>2 DEF Reserved
  <2> QED BY <2>1, <2>3
<1>2. ASSUME NEW r \in Reserved
      PROVE  \E f \in Fingerprint, g \in Generation :
                Exists(f, g) /\ r = <<f, g, rows[f][g].day>>
  <2>1. PICK k \in Fingerprint \X Generation :
          Exists(k[1], k[2]) /\ r = <<k[1], k[2], rows[k[1]][k[2]].day>>
    BY <1>2 DEF Reserved
  <2>2. k[1] \in Fingerprint /\ k[2] \in Generation
    BY <2>1
  <2> QED BY <2>1, <2>2
<1> QED BY <1>1, <1>2

\* The same of the next state.
LEMMA InReservedNext ==
    /\ \A f \in Fingerprint, g \in Generation : rows'[f][g].state # "ABSENT" =>
          <<f, g, rows'[f][g].day>> \in Reserved'
    /\ \A r \in Reserved' : \E f \in Fingerprint, g \in Generation :
          rows'[f][g].state # "ABSENT" /\ r = <<f, g, rows'[f][g].day>>
<1>1. ASSUME NEW f \in Fingerprint, NEW g \in Generation, rows'[f][g].state # "ABSENT"
      PROVE  <<f, g, rows'[f][g].day>> \in Reserved'
  <2> DEFINE k == <<f, g>>
  <2>1. k \in Fingerprint \X Generation /\ k[1] = f /\ k[2] = g
    OBVIOUS
  <2>2. k \in {l \in Fingerprint \X Generation : rows'[l[1]][l[2]].state # "ABSENT"}
    BY <1>1, <2>1
  <2> HIDE DEF k
  <2>3. <<k[1], k[2], rows'[k[1]][k[2]].day>> \in Reserved'
    BY <2>2 DEF Reserved, Exists
  <2> QED BY <2>1, <2>3
<1>2. ASSUME NEW r \in Reserved'
      PROVE  \E f \in Fingerprint, g \in Generation :
                rows'[f][g].state # "ABSENT" /\ r = <<f, g, rows'[f][g].day>>
  <2>1. PICK k \in Fingerprint \X Generation :
          rows'[k[1]][k[2]].state # "ABSENT" /\ r = <<k[1], k[2], rows'[k[1]][k[2]].day>>
    BY <1>2 DEF Reserved, Exists
  <2>2. k[1] \in Fingerprint /\ k[2] \in Generation
    BY <2>1
  <2> QED BY <2>1, <2>2
<1> QED BY <1>1, <1>2

\* A step that makes no row and moves no row to another day reserves nothing.
LEMMA ReservedStays ==
    ASSUME \A f \in Fingerprint, g \in Generation :
              /\ rows'[f][g].state # "ABSENT" <=> rows[f][g].state # "ABSENT"
              /\ rows'[f][g].day = rows[f][g].day
    PROVE  Reserved' = Reserved
<1>1. ASSUME NEW r \in Reserved PROVE r \in Reserved'
  <2>1. PICK f \in Fingerprint, g \in Generation :
          Exists(f, g) /\ r = <<f, g, rows[f][g].day>>
    BY <1>1, InReserved
  <2> QED BY <2>1, InReservedNext DEF Exists
<1>2. ASSUME NEW r \in Reserved' PROVE r \in Reserved
  <2>1. PICK f \in Fingerprint, g \in Generation :
          rows'[f][g].state # "ABSENT" /\ r = <<f, g, rows'[f][g].day>>
    BY <1>2, InReservedNext
  <2> QED BY <2>1, InReserved DEF Exists
<1> QED BY <1>1, <1>2

\* A step that neither stores nor drops a result delivers nothing.
LEMMA DeliveredStays ==
    ASSUME \A f \in Fingerprint, g \in Generation :
              rows'[f][g].state = "RESULT_RECEIVED" <=> rows[f][g].state = "RESULT_RECEIVED"
    PROVE  Delivered' = Delivered
<1>1. ASSUME NEW k \in Fingerprint \X Generation
      PROVE  k[1] \in Fingerprint /\ k[2] \in Generation
  OBVIOUS
<1> QED BY <1>1 DEF Delivered

\* A write of one row, by parts.
LEMMA OneRow ==
    ASSUME TypeOK, NEW f \in Fingerprint, NEW g \in Generation, NEW row \in Row, SetRow(f, g, row)
    PROVE  /\ rows'[f][g] = row
           /\ \A e \in Fingerprint, h \in Generation :
                 <<e, h>> # <<f, g>> => rows'[e][h] = rows[e][h]
<1> QED BY DEF TypeOK, SetRow

-----------------------------------------------------------------------------
(* The three steps that are seen: PaidPurchases' actions, of the mapped    *)
(* sets.                                                                   *)

Reserves(f, g, d) ==
    /\ \A r \in Reserved : r[1] = f => r[2] # g /\ <<f, r[2]>> \in Delivered
    /\ Cardinality({r \in Reserved : r[3] = d}) < DailyLimit
    /\ Reserved' = Reserved \cup {<<f, g, d>>}
    /\ UNCHANGED <<Charged, Delivered>>

Charges(f, g, i) ==
    /\ \E r \in Reserved : r[1] = f /\ r[2] = g
    /\ \A c \in Charged : <<c[1], c[2]>> # <<f, g>> /\ c[3] # i
    /\ Charged' = Charged \cup {<<f, g, i>>}
    /\ UNCHANGED <<Reserved, Delivered>>

Delivers(f, g) ==
    /\ \E c \in Charged : c[1] = f /\ c[2] = g
    /\ Delivered' = Delivered \cup {<<f, g>>}
    /\ UNCHANGED <<Reserved, Charged>>

\* The day's reservations are as many as the rows of the day.
LEMMA ReservedOfDay ==
    ASSUME NEW d
    PROVE  /\ IsFiniteSet({r \in Reserved : r[3] = d})
           /\ Cardinality({r \in Reserved : r[3] = d}) <= Cardinality(ReservedOn(d))
<1> DEFINE T == {r \in Reserved : r[3] = d}
           F == [k \in ReservedOn(d) |-> <<k[1], k[2], d>>]
<1>1. \A k \in ReservedOn(d) : F[k] \in T
  <2> SUFFICES ASSUME NEW k \in ReservedOn(d) PROVE F[k] \in T
    OBVIOUS
  <2>1. k[1] \in Fingerprint /\ k[2] \in Generation /\ Exists(k[1], k[2])
        /\ rows[k[1]][k[2]].day = d
    BY DEF ReservedOn
  <2>2. <<k[1], k[2], d>> \in Reserved
    BY <2>1, InReserved
  <2> QED BY <2>2
<1>2. \A r \in T : \E k \in ReservedOn(d) : F[k] = r
  <2> SUFFICES ASSUME NEW r \in T PROVE \E k \in ReservedOn(d) : F[k] = r
    OBVIOUS
  <2>1. PICK f \in Fingerprint, g \in Generation :
          Exists(f, g) /\ r = <<f, g, rows[f][g].day>>
    BY InReserved
  <2>2. rows[f][g].day = d
    BY <2>1
  <2>3. <<f, g>> \in ReservedOn(d)
    BY <2>1, <2>2 DEF ReservedOn
  <2>4. F[<<f, g>>] = r
    BY <2>1, <2>2, <2>3
  <2> QED BY <2>3, <2>4
<1>3. F \in Surjection(ReservedOn(d), T)
  BY <1>1, <1>2 DEF Surjection
<1> HIDE DEF T, F
<1>4. IsFiniteSet(T) /\ Cardinality(T) <= Cardinality(ReservedOn(d))
  BY <1>3, ReservedFinite, FS_Surjection
<1> QED BY <1>4 DEF T

\* The INSERT of a generation reserves it, with room on its day and nothing of
\* its fingerprint undelivered.
LEMMA InsertReserves ==
    ASSUME Known, NEW p \in Process, InsertRow(p)
    PROVE  \E f \in Fingerprint, g \in Generation, d \in Day : Reserves(f, g, d)
<1> DEFINE f == call[p].fp
           g == call[p].gen
           d == call[p].day
           row == [state |-> "SUBMITTING", doc |-> call[p].doc, day |-> d,
                   act |-> NoActivity, expiry |-> "none"]
<1>1. f \in Fingerprint /\ g \in Generation /\ d \in Day /\ call[p].doc \in Document
  BY DEF Known, TypeOK, Call
<1>2. row \in Row /\ row.state = "SUBMITTING" /\ row.day = d
  BY <1>1 DEF Row, State, NoActivity
<1>3. SetRow(f, g, row) /\ ~Exists(f, g) /\ session[p] /\ pc[p] = "insert"
  BY DEF InsertRow, Statement
<1>4. /\ \A h \in Generation : h < g => rows[f][h].state = "RESULT_RECEIVED"
      /\ \A h \in Generation : ~(h < g) => ~Exists(f, h)
  BY <1>3 DEF Known, RowsInv, CallOwnsRow, OwnsRow
<1>5. /\ rows'[f][g] = row
      /\ \A e \in Fingerprint, h \in Generation :
            <<e, h>> # <<f, g>> => rows'[e][h] = rows[e][h]
  <2> HIDE DEF f, g, row
  <2> QED BY <1>1, <1>2, <1>3, OneRow DEF Known
<1>6. Cardinality(ReservedOn(d)) < DailyLimit
  BY <1>3 DEF Known, AllowanceInv, AllowanceHeld, InAllowance
<1>7. orders' = orders
  BY DEF InsertRow, vendorVars
<1> HIDE DEF f, g, d, row
<1>8. ASSUME NEW r \in Reserved, r[1] = f
      PROVE  r[2] # g /\ <<f, r[2]>> \in Delivered
  <2>1. PICK e \in Fingerprint, h \in Generation :
          Exists(e, h) /\ r = <<e, h, rows[e][h].day>>
    BY InReserved
  <2>2. e = f /\ r[2] = h
    BY <2>1, <1>8
  <2>3. h < g
    BY <2>1, <2>2, <1>4
  <2>4. <<f, h>> \in Delivered
    <3> DEFINE k == <<f, h>>
    <3>1. k \in Fingerprint \X Generation /\ k[1] = f /\ k[2] = h
      BY <1>1
    <3>2. rows[k[1]][k[2]].state = "RESULT_RECEIVED"
      BY <3>1, <2>3, <1>4
    <3> HIDE DEF k
    <3>3. k \in Delivered
      BY <3>1, <3>2 DEF Delivered
    <3> QED BY <3>3 DEF k
  <2> QED BY <2>2, <2>3, <2>4, <1>1 DEF Generation
<1>9. Cardinality({r \in Reserved : r[3] = d}) < DailyLimit
  <2> DEFINE n == Cardinality({r \in Reserved : r[3] = d})
             m == Cardinality(ReservedOn(d))
  <2>1. n \in Nat /\ m \in Nat /\ n <= m /\ m < DailyLimit
    BY <1>6, ReservedOfDay, ReservedFinite, FS_CardinalityType
  <2> HIDE DEF n, m
  <2>2. n < DailyLimit
    BY <2>1, DailyLimitAssumption
  <2> QED BY <2>2 DEF n
<1>10. Reserved' = Reserved \cup {<<f, g, d>>}
  <2>1. ASSUME NEW r \in Reserved' PROVE r \in Reserved \cup {<<f, g, d>>}
    <3>1. PICK e \in Fingerprint, h \in Generation :
            rows'[e][h].state # "ABSENT" /\ r = <<e, h, rows'[e][h].day>>
      BY <2>1, InReservedNext
    <3>2. CASE <<e, h>> = <<f, g>>
      BY <3>1, <3>2, <1>5, <1>2
    <3>3. CASE <<e, h>> # <<f, g>>
      BY <3>1, <3>3, <1>5, InReserved DEF Exists
    <3> QED BY <3>2, <3>3
  <2>2. <<f, g, d>> \in Reserved'
    BY <1>1, <1>2, <1>5, InReservedNext
  <2>3. ASSUME NEW r \in Reserved PROVE r \in Reserved'
    <3>1. PICK e \in Fingerprint, h \in Generation :
            Exists(e, h) /\ r = <<e, h, rows[e][h].day>>
      BY <2>3, InReserved
    <3>2. <<e, h>> # <<f, g>>
      BY <3>1, <1>3
    <3> QED BY <3>1, <3>2, <1>5, InReservedNext DEF Exists
  <2> QED BY <2>1, <2>2, <2>3
<1>11. Charged' = Charged
  BY <1>7 DEF Charged
<1>12. Delivered' = Delivered
  <2>1. ASSUME NEW e \in Fingerprint, NEW h \in Generation
        PROVE  rows'[e][h].state = "RESULT_RECEIVED" <=> rows[e][h].state = "RESULT_RECEIVED"
    <3>1. CASE <<e, h>> = <<f, g>>
      BY <3>1, <1>2, <1>3, <1>5 DEF Exists
    <3>2. CASE <<e, h>> # <<f, g>>
      BY <3>2, <1>5
    <3> QED BY <3>1, <3>2
  <2> QED BY <2>1, DeliveredStays
<1>13. Reserves(f, g, d)
  BY <1>8, <1>9, <1>10, <1>11, <1>12 DEF Reserves
<1> QED BY <1>1, <1>13

\* There are no more orders than fingerprints and generations, one each.
LEMMA RoomForOrder ==
    ASSUME TypeOK, OneOrderPerReservation, NEW f \in Fingerprint, NEW g \in Generation,
           \A i \in 1..Len(orders) : orders[i] # [fp |-> f, gen |-> g]
    PROVE  Len(orders) + 1 \in 1..(Cardinality(Fingerprint) * Cardinality(Generation))
<1> DEFINE n == Len(orders)
           T == Fingerprint \X Generation
           F == [i \in 1..(n + 1) |-> IF i = n + 1 THEN <<f, g>> ELSE <<orders[i].fp, orders[i].gen>>]
<1>1. n \in Nat /\ \A i \in 1..n : orders[i] \in Order
  BY DEF TypeOK
<1>2. \A i \in 1..n : orders[i].fp \in Fingerprint /\ orders[i].gen \in Generation
                       /\ orders[i] = [fp |-> orders[i].fp, gen |-> orders[i].gen]
  BY <1>1 DEF Order
<1>3. F \in [1..(n + 1) -> T]
  <2>1. ASSUME NEW i \in 1..(n + 1)
        PROVE  (IF i = n + 1 THEN <<f, g>> ELSE <<orders[i].fp, orders[i].gen>>) \in T
    <3>1. CASE i = n + 1
      BY <3>1
    <3>2. CASE i # n + 1
      <4>1. i \in 1..n
        BY <1>1, <3>2
      <4> QED BY <4>1, <3>2, <1>2
    <3> QED BY <3>1, <3>2
  <2> QED BY <2>1
<1>4. ASSUME NEW i \in 1..(n + 1), NEW j \in 1..(n + 1), F[i] = F[j] PROVE i = j
  <2>1. CASE i = n + 1 /\ j = n + 1
    BY <2>1
  <2>2. CASE i = n + 1 /\ j # n + 1
    <3>1. j \in 1..n
      BY <2>2, <1>1
    <3>2. orders[j].fp = f /\ orders[j].gen = g
      BY <1>4, <2>2
    <3>3. orders[j] = [fp |-> f, gen |-> g]
      BY <3>1, <3>2, <1>2
    <3> QED BY <3>1, <3>3
  <2>3. CASE i # n + 1 /\ j = n + 1
    <3>1. i \in 1..n
      BY <2>3, <1>1
    <3>2. orders[i].fp = f /\ orders[i].gen = g
      BY <1>4, <2>3
    <3>3. orders[i] = [fp |-> f, gen |-> g]
      BY <3>1, <3>2, <1>2
    <3> QED BY <3>1, <3>3
  <2>4. CASE i # n + 1 /\ j # n + 1
    <3>1. i \in 1..n /\ j \in 1..n
      BY <2>4, <1>1
    <3>2. orders[i].fp = orders[j].fp /\ orders[i].gen = orders[j].gen
      BY <1>4, <2>4
    <3>3. orders[i] = orders[j]
      BY <3>1, <3>2, <1>2
    <3> QED BY <3>1, <3>3 DEF OneOrderPerReservation
  <2> QED BY <2>1, <2>2, <2>3, <2>4
<1>5. F \in Injection(1..(n + 1), T)
  BY <1>3, <1>4 DEF Injection, IsInjective
<1>6. IsFiniteSet(Generation)
  BY FS_Interval, BoundsAssumption DEF Generation
<1>7. IsFiniteSet(T) /\ Cardinality(T) = Cardinality(Fingerprint) * Cardinality(Generation)
  BY <1>6, FS_Product, FingerprintAssumption
<1>8. Cardinality(1..(n + 1)) = n + 1
  BY <1>1, FS_Interval
<1> HIDE DEF F, T
<1>9. Cardinality(1..(n + 1)) <= Cardinality(T)
  BY <1>5, <1>7, FS_Injection
<1>10. Cardinality(T) \in Nat
  BY <1>7, FS_CardinalityType
<1> QED BY <1>1, <1>7, <1>8, <1>9, <1>10

\* The vendor's acceptance of a POST charges its reservation, for the first time.
LEMMA AcceptCharges ==
    ASSUME Known, NEW m \in wire, VendorAccepts(m)
    PROVE  /\ \E f \in Fingerprint, g \in Generation : Charges(f, g, Len(orders) + 1)
           /\ Len(orders) + 1 \in 1..(Cardinality(Fingerprint) * Cardinality(Generation))
<1> DEFINE n == Len(orders)
           f == m.fp
           g == m.gen
<1>1. m \in Post /\ f \in Fingerprint /\ g \in Generation /\ n \in Nat
  BY DEF Known, TypeOK, Post
<1>2. \A i \in 1..n : orders[i] \in Order
  BY DEF Known, TypeOK
<1>3. \A i \in 1..n : orders[i] # [fp |-> f, gen |-> g]
  BY DEF Known, OrdersInv, OneOrderPerReservation
<1>4. Exists(f, g)
  BY DEF Known, OrdersInv, ReservationBeforeOrder
<1>5. rows' = rows /\ orders' = Append(orders, [fp |-> f, gen |-> g])
  BY DEF VendorAccepts
<1>6. Len(orders) + 1 \in 1..(Cardinality(Fingerprint) * Cardinality(Generation))
  BY <1>1, <1>3, RoomForOrder DEF Known, OrdersInv
<1>7. Len(orders') = n + 1 /\ orders'[n + 1] = [fp |-> f, gen |-> g]
      /\ \A i \in 1..n : orders'[i] = orders[i]
  BY <1>1, <1>5 DEF Known, TypeOK, Order
<1> HIDE DEF f, g, n
<1>8. \E r \in Reserved : r[1] = f /\ r[2] = g
  BY <1>1, <1>4, InReserved
<1>9. ASSUME NEW c \in Charged PROVE <<c[1], c[2]>> # <<f, g>> /\ c[3] # n + 1
  <2>1. PICK i \in 1..n : c = <<orders[i].fp, orders[i].gen, i>>
    BY DEF Charged, n
  <2>2. orders[i] = [fp |-> orders[i].fp, gen |-> orders[i].gen]
    BY <1>2 DEF Order
  <2> QED BY <1>1, <1>3, <2>1, <2>2
<1>10. Charged' = Charged \cup {<<f, g, n + 1>>}
  <2>1. Charged' = {<<orders'[i].fp, orders'[i].gen, i>> : i \in 1..(n + 1)}
    BY <1>7 DEF Charged
  <2>2. Charged = {<<orders[i].fp, orders[i].gen, i>> : i \in 1..n}
    BY DEF Charged, n
  <2>3. 1..(n + 1) = (1..n) \cup {n + 1}
    BY <1>1
  <2> QED BY <1>7, <2>1, <2>2, <2>3
<1>11. Reserved' = Reserved /\ Delivered' = Delivered
  BY <1>5 DEF Reserved, Delivered, Exists
<1>12. Charges(f, g, n + 1)
  BY <1>8, <1>9, <1>10, <1>11 DEF Charges
<1> QED BY <1>1, <1>6, <1>12 DEF n

\* Storing a result delivers what was charged for.
LEMMA StoreDelivers ==
    ASSUME Known, NEW p \in Process, StoreResult(p)
    PROVE  \E f \in Fingerprint, g \in Generation : Delivers(f, g)
<1> DEFINE f == call[p].fp
           g == call[p].gen
           old == rows[f][g]
<1>1. f \in Fingerprint /\ g \in Generation /\ old \in Row
  BY DEF Known, TypeOK, Call
<1>2. session[p] /\ pc[p] = "store"
  BY DEF StoreResult, Statement
<1>3. old.state = "ACTIVITY_ID_PERSISTED" /\ old.act = call[p].act /\ call[p].act # NoActivity
  BY <1>2 DEF Known, RowsInv, CallOwnsRow, OwnsRow
<1>4. call[p].act \in 1..Len(orders) /\ orders[call[p].act] = [fp |-> f, gen |-> g]
  BY <1>2, <1>3 DEF Known, OrdersInv, CallKnowsOrder, KnowsOrder
<1>5. orders' = orders
  BY DEF StoreResult, vendorVars
<1>6. PICK e \in {"live", "none"} :
        SetRow(f, g, [old EXCEPT !.state = "RESULT_RECEIVED", !.expiry = e])
  BY DEF StoreResult
<1> DEFINE new == [old EXCEPT !.state = "RESULT_RECEIVED", !.expiry = e]
<1>7. new \in Row /\ new.state = "RESULT_RECEIVED" /\ new.day = old.day
  BY <1>1 DEF Row, State
<1> HIDE DEF new
<1>8. SetRow(f, g, new)
  BY <1>6 DEF new
<1> HIDE DEF f, g, old
<1>9. /\ rows'[f][g] = new
      /\ \A d \in Fingerprint, h \in Generation :
            <<d, h>> # <<f, g>> => rows'[d][h] = rows[d][h]
  BY <1>1, <1>7, <1>8, OneRow DEF Known
<1>10. \E c \in Charged : c[1] = f /\ c[2] = g
  <2> DEFINE a == call[p].act
             c == <<orders[a].fp, orders[a].gen, a>>
  <2>1. c \in Charged
    BY <1>4 DEF Charged
  <2>2. orders[a].fp = f /\ orders[a].gen = g
    BY <1>4
  <2>3. c[1] = f /\ c[2] = g
    BY <2>2
  <2> QED BY <2>1, <2>3
<1>11. Charged' = Charged
  BY <1>5 DEF Charged
<1>12. Reserved' = Reserved
  <2>1. ASSUME NEW d \in Fingerprint, NEW h \in Generation
        PROVE  /\ rows'[d][h].state # "ABSENT" <=> rows[d][h].state # "ABSENT"
               /\ rows'[d][h].day = rows[d][h].day
    <3>1. CASE <<d, h>> = <<f, g>>
      BY <3>1, <1>3, <1>7, <1>9 DEF old
    <3>2. CASE <<d, h>> # <<f, g>>
      BY <3>2, <1>9
    <3> QED BY <3>1, <3>2
  <2> QED BY <2>1, ReservedStays
<1>13. Delivered' = Delivered \cup {<<f, g>>}
  <2>1. ASSUME NEW k \in Fingerprint \X Generation
        PROVE  k \in Delivered' <=> k \in Delivered \/ k = <<f, g>>
    <3>1. k[1] \in Fingerprint /\ k[2] \in Generation /\ k = <<k[1], k[2]>>
      OBVIOUS
    <3>2. k \in Delivered' <=> rows'[k[1]][k[2]].state = "RESULT_RECEIVED"
      BY DEF Delivered
    <3>3. k \in Delivered <=> rows[k[1]][k[2]].state = "RESULT_RECEIVED"
      BY DEF Delivered
    <3>4. CASE k = <<f, g>>
      BY <3>2, <3>4, <1>7, <1>9
    <3>5. CASE k # <<f, g>>
      BY <3>1, <3>2, <3>3, <3>5, <1>9
    <3> QED BY <3>4, <3>5
  <2>2. Delivered \subseteq Fingerprint \X Generation
        /\ Delivered' \subseteq Fingerprint \X Generation
    BY DEF Delivered
  <2>3. <<f, g>> \in Fingerprint \X Generation
    BY <1>1
  <2> QED BY <2>1, <2>2, <2>3
<1>14. Delivers(f, g)
  BY <1>10, <1>11, <1>12, <1>13 DEF Delivers
<1> QED BY <1>1, <1>14

-----------------------------------------------------------------------------
(* The steps that are not seen.                                            *)

Unseen == UNCHANGED <<Reserved, Charged, Delivered>>

\* A step that changes neither rows nor orders.
LEMMA QuietStep ==
    ASSUME UNCHANGED <<rows, orders>>
    PROVE  Unseen
<1> QED BY DEF Unseen, Reserved, Charged, Delivered, Exists

\* Rewriting an undelivered row to an undelivered one of the same day.
LEMMA Rewrite ==
    ASSUME TypeOK, UNCHANGED orders, NEW f \in Fingerprint, NEW g \in Generation,
           NEW row \in Row, SetRow(f, g, row), row.day = rows[f][g].day,
           rows[f][g].state # "ABSENT", row.state # "ABSENT",
           row.state = "RESULT_RECEIVED" <=> rows[f][g].state = "RESULT_RECEIVED"
    PROVE  Unseen
<1>1. /\ rows'[f][g] = row
      /\ \A e \in Fingerprint, h \in Generation :
            <<e, h>> # <<f, g>> => rows'[e][h] = rows[e][h]
  BY OneRow
<1>2. ASSUME NEW e \in Fingerprint, NEW h \in Generation
      PROVE  /\ rows'[e][h].state # "ABSENT" <=> rows[e][h].state # "ABSENT"
             /\ rows'[e][h].day = rows[e][h].day
             /\ rows'[e][h].state = "RESULT_RECEIVED" <=> rows[e][h].state = "RESULT_RECEIVED"
  <2>1. CASE <<e, h>> = <<f, g>>
    BY <2>1, <1>1
  <2>2. CASE <<e, h>> # <<f, g>>
    BY <2>2, <1>1
  <2> QED BY <2>1, <2>2
<1>3. Reserved' = Reserved
  BY <1>2, ReservedStays
<1>4. Delivered' = Delivered
  BY <1>2, DeliveredStays
<1>5. Charged' = Charged
  BY DEF Charged
<1> QED BY <1>3, <1>4, <1>5 DEF Unseen

\* Parking, saving the id and recording a failure are not seen.
LEMMA WritesUnseen ==
    ASSUME Known, NEW p \in Process, ParkUnknown(p) \/ SaveActivity(p) \/ RecordFailure(p)
    PROVE  Unseen
<1> DEFINE f == call[p].fp
           g == call[p].gen
           old == rows[f][g]
<1>1. f \in Fingerprint /\ g \in Generation /\ old \in Row /\ call[p].act \in Nat
  BY DEF Known, TypeOK, Call
<1>2. session[p] /\ pc[p] \in {"park", "save", "fail"}
  BY DEF ParkUnknown, SaveActivity, RecordFailure, Statement
<1>3. old.state \in {"SUBMITTING", "UNKNOWN_VENDOR_STATE", "ACTIVITY_ID_PERSISTED"}
  BY <1>2 DEF Known, RowsInv, CallOwnsRow, OwnsRow
<1>4. orders' = orders
  BY DEF ParkUnknown, SaveActivity, RecordFailure, vendorVars
<1>5. ASSUME NEW st \in {"UNKNOWN_VENDOR_STATE", "FAILED_POST_SUBMIT"}, SetState(p, st)
      PROVE  Unseen
  <2> DEFINE new == [old EXCEPT !.state = st]
  <2>1. new \in Row /\ new.day = old.day /\ new.state = st
    BY <1>1 DEF Row, State
  <2>2. SetRow(f, g, new)
    BY <1>5 DEF SetState
  <2> HIDE DEF new, f, g
  <2> QED BY <1>1, <1>3, <1>4, <2>1, <2>2, Rewrite DEF Known
<1>6. CASE SaveActivity(p)
  <2> DEFINE new == [old EXCEPT !.state = "ACTIVITY_ID_PERSISTED", !.act = call[p].act]
  <2>1. new \in Row /\ new.day = old.day /\ new.state = "ACTIVITY_ID_PERSISTED"
    BY <1>1 DEF Row, State
  <2>2. SetRow(f, g, new)
    BY <1>6 DEF SaveActivity
  <2> HIDE DEF new, f, g
  <2> QED BY <1>1, <1>3, <1>4, <2>1, <2>2, Rewrite DEF Known
<1> QED BY <1>5, <1>6 DEF ParkUnknown, RecordFailure

\* A result that expires stays delivered.
LEMMA ExpireUnseen ==
    ASSUME Known, NEW f \in Fingerprint, NEW g \in Generation, Expire(f, g)
    PROVE  Unseen
<1> DEFINE old == rows[f][g]
           new == [old EXCEPT !.expiry = "past"]
<1>1. old \in Row /\ SetRow(f, g, new) /\ orders' = orders
  BY DEF Known, TypeOK, Expire, vendorVars
<1>2. new \in Row /\ new.state = old.state /\ new.day = old.day
  BY <1>1 DEF Row
<1> HIDE DEF new
<1>3. CASE old.state # "ABSENT"
  BY <1>1, <1>2, <1>3, Rewrite DEF Known
<1>4. CASE old.state = "ABSENT"
  <2>1. ASSUME NEW e \in Fingerprint, NEW h \in Generation
        PROVE  /\ rows'[e][h].state = rows[e][h].state
               /\ rows'[e][h].day = rows[e][h].day
    <3>1. /\ rows'[f][g] = new
          /\ <<e, h>> # <<f, g>> => rows'[e][h] = rows[e][h]
      BY <1>1, <1>2, OneRow DEF Known
    <3> QED BY <3>1, <1>2
  <2>2. Reserved' = Reserved /\ Delivered' = Delivered
    BY <2>1, ReservedStays, DeliveredStays
  <2>3. Charged' = Charged
    BY <1>1 DEF Charged
  <2> QED BY <2>2, <2>3 DEF Unseen
<1> QED BY <1>3, <1>4

-----------------------------------------------------------------------------
(* The refinement.                                                         *)

\* Nothing is reserved, charged or delivered at first.
LEMMA InitMaps == Init => Purchases!Init
<1> SUFFICES ASSUME Init PROVE Purchases!Init
  OBVIOUS
<1>1. \A f \in Fingerprint, g \in Generation : rows[f][g].state = "ABSENT"
  BY DEF Init, AbsentRow
<1>2. Reserved = {}
  BY <1>1, InReserved DEF Exists
<1>3. Len(orders) = 0
  BY DEF Init
<1>4. Charged = {}
  BY <1>3 DEF Charged
<1>5. Delivered = {}
  <2>1. ASSUME NEW k \in Fingerprint \X Generation PROVE k \notin Delivered
    <3>1. k[1] \in Fingerprint /\ k[2] \in Generation
      OBVIOUS
    <3> QED BY <3>1, <1>1 DEF Delivered
  <2> QED BY <2>1 DEF Delivered
<1> QED BY <1>2, <1>4, <1>5 DEF Purchases!Init, Reserved, Charged, Delivered

\* What a step of the store does to the mapped sets.
LEMMA StepIsSeen ==
    ASSUME Known, [Next]_vars
    PROVE  \/ Unseen
           \/ \E f \in Fingerprint, g \in Generation :
                 \/ \E d \in Day : Reserves(f, g, d)
                 \/ \E i \in 1..(Cardinality(Fingerprint) * Cardinality(Generation)) :
                       Charges(f, g, i)
                 \/ Delivers(f, g)
<1>1. ASSUME NEW p \in Process, InsertRow(p)
      PROVE  \E f \in Fingerprint, g \in Generation, d \in Day : Reserves(f, g, d)
  BY <1>1, InsertReserves
<1>2. ASSUME NEW m \in wire, VendorAccepts(m)
      PROVE  \E f \in Fingerprint, g \in Generation,
                i \in 1..(Cardinality(Fingerprint) * Cardinality(Generation)) : Charges(f, g, i)
  BY <1>2, AcceptCharges
<1>3. ASSUME NEW p \in Process, StoreResult(p)
      PROVE  \E f \in Fingerprint, g \in Generation : Delivers(f, g)
  BY <1>3, StoreDelivers
<1>4. ASSUME NEW p \in Process, ParkUnknown(p) \/ SaveActivity(p) \/ RecordFailure(p)
      PROVE  Unseen
  BY <1>4, WritesUnseen
<1>5. ASSUME NEW f \in Fingerprint, NEW g \in Generation, Expire(f, g)
      PROVE  Unseen
  BY <1>5, ExpireUnseen
<1>6. \/ UNCHANGED <<rows, orders>>
      \/ \E p \in Process : \/ ParkUnknown(p) \/ RecordFailure(p) \/ StoreResult(p)
                            \/ SaveActivity(p) \/ InsertRow(p)
      \/ \E m \in wire : VendorAccepts(m)
      \/ \E e \in Fingerprint, h \in Generation : Expire(e, h)
  BY DEF Next, Step, ReadRow, ReadEnds, ReadAmbiguous, ReadResume, ReadNew,
     TakeAllowance, SendPost, SubmitFails, SubmitReturns, PollReturns,
     PollTimesOut, StorageError, CutSession, Crash, Start, vendorVars,
     PostLost, VendorFinishes, NextDay, vars
<1> QED BY <1>1, <1>2, <1>3, <1>4, <1>5, <1>6, QuietStep

\* The instance counts as its user does.
LEMMA SameCardinality == \A S : Purchases!Cardinality(S) = Cardinality(S)
BY Zenon DEF Purchases!Cardinality, Cardinality

\* Every step of the store is a step of PaidPurchases, or a stutter.
LEMMA StepMaps == Known /\ [Next]_vars => [Purchases!Next]_(Purchases!vars)
<1> SUFFICES ASSUME Known, [Next]_vars PROVE [Purchases!Next]_(Purchases!vars)
  OBVIOUS
<1>1. CASE Unseen
  BY <1>1 DEF Unseen, Purchases!vars, Reserved, Charged, Delivered
<1>2. CASE \E f \in Fingerprint, g \in Generation, d \in Day : Reserves(f, g, d)
  <2>1. PICK f \in Fingerprint, g \in Generation, d \in Day : Reserves(f, g, d)
    BY <1>2
  <2>2. Purchases!Reserve(f, g, d)
    BY <2>1, SameCardinality DEF Reserves, Purchases!Reserve, Reserved, Charged, Delivered
  <2> QED BY <2>2 DEF Purchases!Next
<1>3. CASE \E f \in Fingerprint, g \in Generation,
             i \in 1..(Cardinality(Fingerprint) * Cardinality(Generation)) : Charges(f, g, i)
  <2>1. PICK f \in Fingerprint, g \in Generation,
             i \in 1..(Cardinality(Fingerprint) * Cardinality(Generation)) : Charges(f, g, i)
    BY <1>3
  <2>2. Purchases!Charge(f, g, i)
    BY <2>1 DEF Charges, Purchases!Charge, Reserved, Charged, Delivered
  <2> QED BY <2>2, SameCardinality DEF Purchases!Next, Purchases!Charges
<1>4. CASE \E f \in Fingerprint, g \in Generation : Delivers(f, g)
  <2>1. PICK f \in Fingerprint, g \in Generation : Delivers(f, g)
    BY <1>4
  <2>2. Purchases!Deliver(f, g)
    BY <2>1 DEF Delivers, Purchases!Deliver, Reserved, Charged, Delivered
  <2> QED BY <2>2 DEF Purchases!Next
<1> QED BY <1>1, <1>2, <1>3, <1>4, StepIsSeen

\* The layers of the store's invariant hold together.
LEMMA AllIsKnown == Spec => []Known
<1>1. TypeOK /\ LockOwnership /\ RowsInv /\ OrdersInv /\ AllowanceInv => Known
  BY DEF Known
<1> QED
  BY <1>1, TypeCorrect, LockOwnershipInvariant, RowsInvariant, OrdersInvariant,
     AllowanceInvariant, PTL

\* The store implements PaidPurchases, for any number of processes, fingerprints,
\* generations and days: whatever is cut, lost or raced, it reserves, is charged
\* and delivers only as that specification promises.
THEOREM StoreImplementsPurchases == Spec => PurchasesSpec
<1>1. Init => Purchases!Init
  BY InitMaps
<1>2. Known /\ [Next]_vars => [Purchases!Next]_(Purchases!vars)
  BY StepMaps
<1> QED BY <1>1, <1>2, AllIsKnown, PTL DEF Spec, PurchasesSpec, Purchases!Spec
=============================================================================
