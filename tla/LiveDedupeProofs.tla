------------------------- MODULE LiveDedupeProofs -------------------------
(***************************************************************************)
(* Proofs about LiveDedupe, for any callers, fingerprints, units and       *)
(* number of join records.  The invariant says that the last record of a   *)
(* fingerprint has one leader at most, that its phase follows from the     *)
(* leader's step, that older records failed before their submit, and that  *)
(* a record whose event is set does not change any more.                   *)
(***************************************************************************)
EXTENDS LiveDedupe, TLAPS

Submitted == Lost \cup {"SUBMITTING", "ACTIVITY_ID_PERSISTED", "SUCCEEDED"}

\* The phases of a record whose leader is at this step.
PhasesAt(step) ==
  IF step \in {"reserve", "give up", "take slot"} THEN {"OPEN"}
  ELSE IF step = "fail job" THEN {"FAILED_PRE_SUBMIT"}
  ELSE IF step \in {"submit", "uncertain", "acknowledged"} THEN {"SUBMITTING"}
  ELSE IF step = "interrupt" THEN {"UNKNOWN_VENDOR_STATE"}
  ELSE IF step \in {"fetch", "cache", "consume", "succeed"} THEN {"ACTIVITY_ID_PERSISTED"}
  ELSE IF step = "complete" THEN {"SUCCEEDED"}
  ELSE IF step = "lost" THEN Submitted
  ELSE Submitted \cup {"FAILED_PRE_SUBMIT"}

Leads(c) == call[c].step \in Leading

CoreTypes ==
  /\ records \in [Fingerprint -> Seq(Record)]
  /\ call \in [Caller -> Call]
  /\ cached \subseteq Fingerprint
  /\ posts \in [Fingerprint -> Seq(Attempt)]
  /\ \A f \in Fingerprint : Len(records[f]) <= MaxAttempts

LeaderInv ==
  \A c \in Caller : Leads(c) =>
    /\ call[c].fp \in Fingerprint
    /\ call[c].attempt = Len(records[call[c].fp])
    /\ call[c].attempt \in Attempt
    /\ ~ mine(c).done
    /\ mine(c).phase \in PhasesAt(call[c].step)
    /\ call[c].step = "submit" => posts[call[c].fp] = <<>>
    /\ call[c].step \in {"consume", "succeed", "complete"} => call[c].fp \in cached

OneLeader ==
  \A c, d \in Caller : Leads(c) /\ Leads(d) /\ call[c].fp = call[d].fp => c = d

RecordInv ==
  \A f \in Fingerprint : \A n \in 1 .. Len(records[f]) :
    /\ records[f][n].result \/ records[f][n].phase = "SUCCEEDED" => f \in cached
    /\ n # Len(records[f]) => records[f][n].done

PostInv ==
  \A f \in Fingerprint : posts[f] # <<>> =>
    /\ Len(posts[f]) = 1
    /\ posts[f][1] = Len(records[f])
    /\ Len(records[f]) # 0
    /\ last(f).phase \in Submitted

JoinerInv ==
  \A c \in Caller :
    /\ call[c].step = "join" => /\ call[c].fp \in Fingerprint
                                /\ records[call[c].fp] # <<>>
                                /\ call[c].attempt = Other
    /\ call[c].step = "await" => /\ call[c].fp \in Fingerprint
                                 /\ call[c].attempt \in 1 .. Len(records[call[c].fp])

AnswerInv ==
  \A c \in Caller : call[c].step = "returned" =>
    /\ call[c].fp \in Fingerprint
    /\ call[c].attempt \in 0 .. Len(records[call[c].fp])
    /\ call[c].waited => /\ call[c].attempt # Other
                         /\ mine(c).done
                         /\ call[c].phase = mine(c).phase
    /\ call[c].result => call[c].fp \in cached

IdleInv == \A c \in Caller : call[c].step = "idle" => call[c].attempt = Other

Core == /\ CoreTypes /\ LeaderInv /\ OneLeader /\ RecordInv /\ PostInv
        /\ JoinerInv /\ AnswerInv /\ IdleInv

core == <<records, call, cached, posts>>

-----------------------------------------------------------------------------
\* The steps that are not a leader's are apart from those that are.
LEMMA Steps ==
  /\ \A s \in {"idle", "join", "await", "returned"} : s \notin Leading
  /\ Leading \subseteq Step
  /\ {"idle", "join", "await", "returned"} \subseteq Step
  /\ \A s \in Leading : PhasesAt(s) \subseteq Phase
  /\ Submitted \subseteq Phase
  /\ "FAILED_PRE_SUBMIT" \notin Submitted /\ "OPEN" \notin Submitted
  /\ "FAILED_PRE_SUBMIT" \in Phase /\ "OPEN" \in Phase
BY DEF Leading, Step, PhasesAt, Submitted, Phase, Lost

\* A record of a fingerprint is a record.
LEMMA RecordTyped ==
  ASSUME CoreTypes, NEW f \in Fingerprint, NEW n \in 1 .. Len(records[f])
  PROVE  records[f][n] \in Record
<1>1. records[f] \in Seq(Record)
  BY DEF CoreTypes
<1> QED BY <1>1

\* Core depends on four of the variables only.
LEMMA CoreKept == Core /\ UNCHANGED core => Core'
BY DEF Core, core, CoreTypes, LeaderInv, OneLeader, RecordInv, PostInv, JoinerInv,
  AnswerInv, IdleInv, Leads, mine, last

\* A leader that goes on: it may change its record's phase and result, fill
\* the cache and submit, if the phase fits its next step.
LEMMA LeaderMoves ==
  ASSUME Core, NEW c \in Caller, Leads(c),
         NEW s \in Leading, NEW p \in PhasesAt(s), NEW b \in BOOLEAN,
         call' = [call EXCEPT ![c].step = s],
         records' = [records EXCEPT ![call[c].fp][call[c].attempt] =
                       [mine(c) EXCEPT !.phase = p, !.result = b]],
         cached' \in {cached, cached \cup {call[c].fp}},
         b \/ p = "SUCCEEDED" \/ s \in {"consume", "succeed", "complete"} => call[c].fp \in cached',
         \/ /\ posts' = posts
            /\ s = "submit" => posts[call[c].fp] = <<>>
            /\ posts[call[c].fp] # <<>> => p \in Submitted
         \/ /\ posts[call[c].fp] = <<>>
            /\ posts' = [posts EXCEPT ![call[c].fp] = Append(@, call[c].attempt)]
            /\ p \in Submitted /\ s # "submit"
  PROVE  Core'
<1> DEFINE f == call[c].fp
           n == call[c].attempt
           r == [mine(c) EXCEPT !.phase = p, !.result = b]
<1>1. /\ records \in [Fingerprint -> Seq(Record)] /\ call \in [Caller -> Call]
      /\ cached \subseteq Fingerprint /\ posts \in [Fingerprint -> Seq(Attempt)]
      /\ \A g \in Fingerprint : Len(records[g]) <= MaxAttempts /\ Len(records[g]) \in Nat
  BY DEF Core, CoreTypes
<1>2. /\ f \in Fingerprint /\ n = Len(records[f]) /\ n \in Attempt /\ ~ mine(c).done
      /\ n \in 1 .. Len(records[f])
  BY <1>1, ConstantsAssumption DEF Core, LeaderInv, Attempt
<1>3. mine(c) = records[f][n] /\ mine(c) \in Record
  BY <1>2, RecordTyped DEF Core, mine
<1>4. r \in Record /\ r.phase = p /\ r.result = b /\ ~ r.done
  BY <1>2, <1>3, Steps DEF Record
<1> HIDE DEF r
<1>5. /\ records' \in [Fingerprint -> Seq(Record)]
      /\ \A g \in Fingerprint : Len(records'[g]) = Len(records[g])
      /\ records'[f][n] = r
      /\ \A g \in Fingerprint : \A m \in 1 .. Len(records[g]) :
           (g # f \/ m # n) => records'[g][m] = records[g][m]
  <2>1. records' = [records EXCEPT ![f] = [records[f] EXCEPT ![n] = r]]
    BY <1>1, <1>2 DEF r
  <2>2. records[f] \in Seq(Record)
    BY <1>1, <1>2
  <2>3. /\ [records[f] EXCEPT ![n] = r] \in Seq(Record)
        /\ Len([records[f] EXCEPT ![n] = r]) = Len(records[f])
        /\ [records[f] EXCEPT ![n] = r][n] = r
        /\ \A m \in 1 .. Len(records[f]) : m # n => [records[f] EXCEPT ![n] = r][m] = records[f][m]
    BY <1>2, <1>4, <2>2
  <2> QED BY <1>1, <1>2, <2>1, <2>3
<1>6. /\ call' \in [Caller -> Call]
      /\ call'[c].step = s /\ call'[c].fp = f /\ call'[c].attempt = n
      /\ \A d \in Caller : d # c => call'[d] = call[d]
  <2>1. s \in Step
    BY Steps
  <2>2. call[c] \in Call
    BY <1>1
  <2>3. [call[c] EXCEPT !.step = s] \in Call
    BY <2>1, <2>2 DEF Call
  <2>4. call' = [call EXCEPT ![c] = [call[c] EXCEPT !.step = s]]
    BY <1>1
  <2>5. call[c].fp = f /\ call[c].attempt = n
    OBVIOUS
  <2>6. /\ [call[c] EXCEPT !.step = s].step = s
        /\ [call[c] EXCEPT !.step = s].fp = call[c].fp
        /\ [call[c] EXCEPT !.step = s].attempt = call[c].attempt
    BY <2>2 DEF Call
  <2> HIDE DEF f, n
  <2> QED BY <1>1, <2>3, <2>4, <2>5, <2>6
<1>7. /\ cached' \subseteq Fingerprint /\ cached \subseteq cached'
  BY <1>1, <1>2
<1>8. /\ posts' \in [Fingerprint -> Seq(Attempt)]
      /\ \A g \in Fingerprint : g # f => posts'[g] = posts[g]
      /\ \/ posts'[f] = posts[f] /\ (s = "submit" => posts[f] = <<>>)
            /\ (posts[f] # <<>> => p \in Submitted)
         \/ posts'[f] = <<n>> /\ p \in Submitted /\ s # "submit"
  <2>1. CASE /\ posts' = posts
             /\ s = "submit" => posts[f] = <<>>
             /\ posts[f] # <<>> => p \in Submitted
    BY <1>1, <2>1
  <2>2. CASE /\ posts[f] = <<>> /\ posts' = [posts EXCEPT ![f] = Append(@, n)]
             /\ p \in Submitted /\ s # "submit"
    <3>1. n \in Attempt /\ Append(<<>>, n) = <<n>> /\ <<n>> \in Seq(Attempt)
      BY <1>2
    <3>2. posts' = [posts EXCEPT ![f] = <<n>>]
      BY <1>1, <1>2, <2>2, <3>1
    <3> HIDE DEF f, n
    <3> QED BY <1>1, <1>2, <2>2, <3>1, <3>2
  <2> QED BY <2>1, <2>2
<1>9. CoreTypes'
  BY <1>1, <1>5, <1>6, <1>7, <1>8 DEF CoreTypes
<1>10. LeaderInv'
  <2> SUFFICES ASSUME NEW d \in Caller, Leads(d)'
               PROVE  (/\ call[d].fp \in Fingerprint
                       /\ call[d].attempt = Len(records[call[d].fp])
                       /\ call[d].attempt \in Attempt
                       /\ ~ mine(d).done
                       /\ mine(d).phase \in PhasesAt(call[d].step)
                       /\ call[d].step = "submit" => posts[call[d].fp] = <<>>
                       /\ call[d].step \in {"consume", "succeed", "complete"} => call[d].fp \in cached)'
    BY DEF LeaderInv
  <2>1. CASE d = c
    BY <1>2, <1>4, <1>5, <1>6, <1>8, <2>1 DEF mine
  <2>2. CASE d # c
    <3>1. Leads(d) /\ call'[d] = call[d]
      BY <1>6, <2>2 DEF Leads
    <3>2. /\ call[d].fp \in Fingerprint /\ call[d].attempt = Len(records[call[d].fp])
          /\ call[d].attempt \in Attempt /\ ~ mine(d).done
          /\ mine(d).phase \in PhasesAt(call[d].step)
          /\ call[d].step = "submit" => posts[call[d].fp] = <<>>
          /\ call[d].step \in {"consume", "succeed", "complete"} => call[d].fp \in cached
      BY <3>1 DEF Core, LeaderInv
    <3>3. call[d].fp # f
      BY <2>2, <3>1 DEF Core, OneLeader
    <3>4. call[d].attempt \in 1 .. Len(records[call[d].fp])
      BY <1>1, <3>2 DEF Attempt
    <3>5. mine(d)' = mine(d)
      BY <1>5, <3>1, <3>2, <3>3, <3>4 DEF mine
    <3> QED BY <1>5, <1>7, <1>8, <3>1, <3>2, <3>3, <3>5
  <2> QED BY <2>1, <2>2
<1>11. OneLeader'
  BY <1>6 DEF Core, OneLeader, Leads
<1>12. RecordInv'
  <2> SUFFICES ASSUME NEW g \in Fingerprint, NEW m \in 1 .. Len(records'[g])
               PROVE  /\ records'[g][m].result \/ records'[g][m].phase = "SUCCEEDED" => g \in cached'
                      /\ m # Len(records'[g]) => records'[g][m].done
    BY DEF RecordInv
  <2>1. CASE g = f /\ m = n
    BY <1>2, <1>4, <1>5, <2>1
  <2>2. CASE g # f \/ m # n
    <3>1. m \in 1 .. Len(records[g]) /\ records'[g][m] = records[g][m]
      BY <1>5, <2>2
    <3> QED BY <1>5, <1>7, <3>1 DEF Core, RecordInv
  <2> QED BY <2>1, <2>2
<1>13. PostInv'
  <2> SUFFICES ASSUME NEW g \in Fingerprint, posts'[g] # <<>>
               PROVE  (/\ Len(posts[g]) = 1 /\ posts[g][1] = Len(records[g])
                       /\ Len(records[g]) # 0 /\ last(g).phase \in Submitted)'
    BY DEF PostInv
  <2>1. CASE g = f
    <3>1. last(g)' = r /\ Len(records'[g]) = n /\ n # 0
      BY <1>2, <1>5, <2>1 DEF last, Attempt
    <3>2. posts'[f] = <<n>> => Len(posts'[f]) = 1 /\ posts'[f][1] = n
      OBVIOUS
    <3> QED BY <1>2, <1>4, <1>5, <1>8, <2>1, <3>1, <3>2 DEF Core, PostInv
  <2>2. CASE g # f
    <3>1. /\ Len(posts[g]) = 1 /\ posts[g][1] = Len(records[g])
          /\ Len(records[g]) # 0 /\ last(g).phase \in Submitted
      BY <1>8, <2>2 DEF Core, PostInv
    <3>2. Len(records[g]) \in 1 .. Len(records[g])
      BY <1>1, <3>1
    <3>3. last(g)' = last(g)
      BY <1>5, <2>2, <3>2 DEF last
    <3> QED BY <1>5, <1>8, <2>2, <3>1, <3>3
  <2> QED BY <2>1, <2>2
<1>14. JoinerInv'
  <2> SUFFICES ASSUME NEW d \in Caller
               PROVE  (/\ call[d].step = "join" => /\ call[d].fp \in Fingerprint
                                                   /\ records[call[d].fp] # <<>>
                                                   /\ call[d].attempt = Other
                       /\ call[d].step = "await" => /\ call[d].fp \in Fingerprint
                                                    /\ call[d].attempt \in 1 .. Len(records[call[d].fp]))'
    BY DEF JoinerInv
  <2>1. CASE d = c
    BY <1>6, <2>1, Steps
  <2>2. CASE d # c
    <3>1. call'[d] = call[d]
      BY <1>6, <2>2
    <3>2. \A g \in Fingerprint : records[g] # <<>> => records'[g] # <<>>
      BY <1>1, <1>5
    <3> QED BY <1>5, <3>1, <3>2 DEF Core, JoinerInv
  <2> QED BY <2>1, <2>2
<1>15. AnswerInv'
  <2> SUFFICES ASSUME NEW d \in Caller, call'[d].step = "returned"
               PROVE  (/\ call[d].fp \in Fingerprint
                       /\ call[d].attempt \in 0 .. Len(records[call[d].fp])
                       /\ call[d].waited => /\ call[d].attempt # Other
                                            /\ mine(d).done
                                            /\ call[d].phase = mine(d).phase
                       /\ call[d].result => call[d].fp \in cached)'
    BY DEF AnswerInv
  <2>1. d # c /\ call'[d] = call[d]
    BY <1>6, Steps
  <2>2. /\ call[d].fp \in Fingerprint
        /\ call[d].attempt \in 0 .. Len(records[call[d].fp])
        /\ call[d].waited => /\ call[d].attempt # Other
                             /\ mine(d).done
                             /\ call[d].phase = mine(d).phase
        /\ call[d].result => call[d].fp \in cached
    BY <2>1 DEF Core, AnswerInv
  <2>3. ASSUME call[d].waited PROVE mine(d)' = mine(d)
    <3>1. call[d].attempt \in 1 .. Len(records[call[d].fp])
      BY <1>1, <2>2, <2>3 DEF Other
    <3>2. call[d].fp # f \/ call[d].attempt # n
      BY <1>2, <1>3, <2>2, <2>3 DEF mine
    <3> QED BY <1>5, <2>1, <2>2, <3>1, <3>2 DEF mine
  <2> QED BY <1>5, <1>7, <2>1, <2>2, <2>3
<1>16. IdleInv'
  BY <1>6, Steps DEF Core, IdleInv
<1> QED BY <1>9, <1>10, <1>11, <1>12, <1>13, <1>14, <1>15, <1>16 DEF Core

\* A leader that changes no record.
LEMMA LeaderGoes ==
  ASSUME Core, NEW c \in Caller, Leads(c),
         NEW s \in Leading, mine(c).phase \in PhasesAt(s),
         call' = [call EXCEPT ![c].step = s],
         records' = records,
         cached' \in {cached, cached \cup {call[c].fp}},
         s \in {"consume", "succeed", "complete"} => call[c].fp \in cached',
         \/ /\ posts' = posts
            /\ s = "submit" => posts[call[c].fp] = <<>>
            /\ posts[call[c].fp] # <<>> => mine(c).phase \in Submitted
         \/ /\ posts[call[c].fp] = <<>>
            /\ posts' = [posts EXCEPT ![call[c].fp] = Append(@, call[c].attempt)]
            /\ mine(c).phase \in Submitted /\ s # "submit"
  PROVE  Core'
<1> DEFINE f == call[c].fp
           n == call[c].attempt
           r == [mine(c) EXCEPT !.phase = mine(c).phase, !.result = mine(c).result]
<1>1. /\ f \in Fingerprint /\ n = Len(records[f]) /\ n \in Attempt
      /\ records \in [Fingerprint -> Seq(Record)]
  BY DEF Core, LeaderInv, CoreTypes
<1>2. n \in 1 .. Len(records[f]) /\ mine(c) \in Record /\ mine(c) = records[f][n]
  BY <1>1, ConstantsAssumption, RecordTyped DEF Core, mine, Attempt
<1>3. r = mine(c) /\ mine(c).result \in BOOLEAN
  BY <1>2 DEF Record
<1>4. records = [records EXCEPT ![f][n] = records[f][n]]
  <2>1. records[f] \in Seq(Record)
    BY <1>1
  <2>2. [records[f] EXCEPT ![n] = records[f][n]] = records[f]
    BY <1>2, <2>1
  <2> QED BY <1>1, <2>2
<1>5. records' = [records EXCEPT ![f][n] = r]
  BY <1>2, <1>3, <1>4
<1>6. mine(c).result \/ mine(c).phase = "SUCCEEDED" => f \in cached'
  BY <1>1, <1>2 DEF Core, RecordInv
<1> QED BY <1>3, <1>5, <1>6, LeaderMoves

\* A call that is not a leader's takes the place of another: it waits for a
\* record, or answers with one.
LEMMA CallReplaced ==
  ASSUME Core, NEW c \in Caller, NEW v \in Call, v.step \notin Leading,
         call' = [call EXCEPT ![c] = v],
         records' = records, cached' = cached, posts' = posts,
         v.step = "idle" \/ v.step = "join" => v.attempt = Other,
         v.step # "idle" => v.fp \in Fingerprint,
         v.step = "join" => records[v.fp] # <<>>,
         v.step = "await" => v.attempt \in 1 .. Len(records[v.fp]),
         v.step = "returned" =>
           /\ v.attempt \in 0 .. Len(records[v.fp])
           /\ v.waited => /\ v.attempt # Other
                          /\ records[v.fp][v.attempt].done
                          /\ v.phase = records[v.fp][v.attempt].phase
           /\ v.result => v.fp \in cached
  PROVE  Core'
<1>1. /\ call' \in [Caller -> Call] /\ call'[c] = v
      /\ \A d \in Caller : d # c => call'[d] = call[d]
  BY DEF Core, CoreTypes
<1>2. CoreTypes' /\ RecordInv' /\ PostInv'
  BY <1>1 DEF Core, CoreTypes, RecordInv, PostInv, last
<1>3. LeaderInv' /\ OneLeader'
  <2>1. \A d \in Caller : Leads(d)' => d # c /\ Leads(d) /\ call'[d] = call[d]
    BY <1>1 DEF Leads
  <2>2. \A d \in Caller : call'[d] = call[d] => mine(d)' = mine(d)
    BY DEF mine
  <2>3. LeaderInv'
    BY <2>1, <2>2 DEF Core, LeaderInv
  <2>4. OneLeader'
    BY <2>1 DEF Core, OneLeader
  <2> QED BY <2>3, <2>4
<1>4. JoinerInv' /\ IdleInv'
  BY <1>1, Steps DEF Core, JoinerInv, IdleInv
<1>5. AnswerInv'
  <2> SUFFICES ASSUME NEW d \in Caller, call'[d].step = "returned"
               PROVE  (/\ call[d].fp \in Fingerprint
                       /\ call[d].attempt \in 0 .. Len(records[call[d].fp])
                       /\ call[d].waited => /\ call[d].attempt # Other
                                            /\ mine(d).done
                                            /\ call[d].phase = mine(d).phase
                       /\ call[d].result => call[d].fp \in cached)'
    BY DEF AnswerInv
  <2>1. CASE d = c
    BY <1>1, <2>1 DEF mine
  <2>2. CASE d # c
    BY <1>1, <2>2 DEF Core, AnswerInv, mine
  <2> QED BY <2>1, <2>2
<1> QED BY <1>2, <1>3, <1>4, <1>5 DEF Core

\* A new leader's record follows one that failed before its submit.
LEMMA Leads1 ==
  ASSUME Core, NEW c \in Caller, NEW f \in Fingerprint, NEW allowReopen \in BOOLEAN,
         call[c].step = "idle", Lead(c, f, allowReopen), UNCHANGED <<cached, posts>>
  PROVE  Core'
<1> DEFINE n == Len(records[f]) + 1
<1>1. /\ records \in [Fingerprint -> Seq(Record)] /\ call \in [Caller -> Call]
      /\ records[f] \in Seq(Record) /\ Len(records[f]) \in Nat /\ Len(records[f]) < MaxAttempts
      /\ n \in Attempt /\ n \in Nat \ {0} /\ n # Other
  BY ConstantsAssumption DEF Core, CoreTypes, Lead, Attempt, Other
<1>2. NewRecord \in Record /\ ~ NewRecord.done /\ ~ NewRecord.result /\ NewRecord.phase = "OPEN"
  BY Steps DEF NewRecord, Record
<1>3. records' = [records EXCEPT ![f] = Append(records[f], NewRecord)]
  BY <1>1 DEF Lead
<1>4. /\ Append(records[f], NewRecord) \in Seq(Record)
      /\ Len(Append(records[f], NewRecord)) = n
      /\ Append(records[f], NewRecord)[n] = NewRecord
      /\ \A m \in 1 .. Len(records[f]) : Append(records[f], NewRecord)[m] = records[f][m]
  BY <1>1, <1>2
<1>5. /\ records' \in [Fingerprint -> Seq(Record)]
      /\ Len(records'[f]) = n /\ records'[f][n] = NewRecord
      /\ \A m \in 1 .. Len(records[f]) : records'[f][m] = records[f][m]
      /\ \A g \in Fingerprint : g # f => records'[g] = records[g]
  BY <1>1, <1>3, <1>4
<1>6. /\ call' \in [Caller -> Call]
      /\ call'[c].step = "reserve" /\ call'[c].fp = f /\ call'[c].attempt = n
      /\ \A d \in Caller : d # c => call'[d] = call[d]
  <2> DEFINE v == [Idle EXCEPT !.step = "reserve", !.fp = f, !.attempt = n]
  <2>1. v \in Call /\ v.step = "reserve" /\ v.fp = f /\ v.attempt = n
    BY <1>1 DEF Idle, Call, Step, Leading, Other
  <2>2. call' = [call EXCEPT ![c] = v]
    BY DEF Lead
  <2> HIDE DEF v, n
  <2> QED BY <1>1, <2>1, <2>2
<1>7. records[f] # <<>> => last(f).phase = "FAILED_PRE_SUBMIT" /\ last(f).done
  BY DEF Lead, Reopens
<1>8. posts[f] = <<>>
  <2> SUFFICES ASSUME posts[f] # <<>> PROVE FALSE
    OBVIOUS
  <2>1. Len(records[f]) # 0 /\ last(f).phase \in Submitted
    BY DEF Core, PostInv
  <2>2. records[f] # <<>>
    BY <1>1, <2>1
  <2> QED BY <1>7, <2>1, <2>2, Steps
<1>9. \A d \in Caller : d # c /\ Leads(d) => call[d].fp # f
  <2> SUFFICES ASSUME NEW d \in Caller, Leads(d), call[d].fp = f PROVE FALSE
    OBVIOUS
  <2>1. call[d].attempt = Len(records[f]) /\ call[d].attempt \in Attempt /\ ~ mine(d).done
    BY DEF Core, LeaderInv
  <2>2. mine(d) = last(f) /\ records[f] # <<>>
    BY <1>1, <2>1 DEF mine, last, Attempt
  <2> QED BY <1>7, <2>1, <2>2
<1> HIDE DEF n
<1>10. CoreTypes'
  <2>1. cached' \subseteq Fingerprint /\ posts' \in [Fingerprint -> Seq(Attempt)]
    BY DEF Core, CoreTypes
  <2>2. \A g \in Fingerprint : Len(records[g]) <= MaxAttempts
    BY DEF Core, CoreTypes
  <2>3. \A g \in Fingerprint : Len(records'[g]) <= MaxAttempts
    <3>1. Len(records'[f]) <= MaxAttempts
      BY <1>1, <1>5, ConstantsAssumption DEF Attempt
    <3> QED BY <1>5, <2>2, <3>1
  <2> QED BY <1>5, <1>6, <2>1, <2>3 DEF CoreTypes
<1>11. OneLeader'
  BY <1>6, <1>9 DEF Core, OneLeader, Leads
<1>12. LeaderInv'
  <2> SUFFICES ASSUME NEW d \in Caller, Leads(d)'
               PROVE  (/\ call[d].fp \in Fingerprint
                       /\ call[d].attempt = Len(records[call[d].fp])
                       /\ call[d].attempt \in Attempt
                       /\ ~ mine(d).done
                       /\ mine(d).phase \in PhasesAt(call[d].step)
                       /\ call[d].step = "submit" => posts[call[d].fp] = <<>>
                       /\ call[d].step \in {"consume", "succeed", "complete"} => call[d].fp \in cached)'
    BY DEF LeaderInv
  <2>1. CASE d = c
    BY <1>1, <1>2, <1>5, <1>6, <2>1 DEF mine, PhasesAt
  <2>2. CASE d # c
    <3>1. Leads(d) /\ call'[d] = call[d] /\ call[d].fp # f
      BY <1>6, <1>9, <2>2 DEF Leads
    <3>2. call[d].fp \in Fingerprint
      BY <3>1 DEF Core, LeaderInv
    <3>3. records'[call[d].fp] = records[call[d].fp] /\ mine(d)' = mine(d)
      BY <1>5, <3>1, <3>2 DEF mine
    <3> QED BY <3>1, <3>3 DEF Core, LeaderInv
  <2> QED BY <2>1, <2>2
<1>13. RecordInv'
  <2> SUFFICES ASSUME NEW g \in Fingerprint, NEW m \in 1 .. Len(records'[g])
               PROVE  /\ records'[g][m].result \/ records'[g][m].phase = "SUCCEEDED" => g \in cached'
                      /\ m # Len(records'[g]) => records'[g][m].done
    BY DEF RecordInv
  <2>1. CASE g # f
    BY <1>5, <2>1 DEF Core, RecordInv
  <2>2. CASE g = f /\ m = n
    BY <1>2, <1>5, <2>2
  <2>3. CASE g = f /\ m # n
    <3>1. m \in 1 .. Len(records[f]) /\ records'[f][m] = records[f][m]
      BY <1>1, <1>5, <2>3 DEF n
    <3>2. m = Len(records[f]) => records[f][m].done
      BY <1>1, <1>7, <3>1 DEF last
    <3> QED BY <2>3, <3>1, <3>2 DEF Core, RecordInv
  <2> QED BY <2>1, <2>2, <2>3
<1>14. PostInv'
  <2> SUFFICES ASSUME NEW g \in Fingerprint, posts'[g] # <<>>
               PROVE  (/\ Len(posts[g]) = 1 /\ posts[g][1] = Len(records[g])
                       /\ Len(records[g]) # 0 /\ last(g).phase \in Submitted)'
    BY DEF PostInv
  <2>1. g # f
    BY <1>8
  <2> QED BY <1>5, <2>1 DEF Core, PostInv, last
<1>15. \A g \in Fingerprint : \A m \in 1 .. Len(records[g]) :
          m \in 1 .. Len(records'[g]) /\ records'[g][m] = records[g][m]
  BY <1>1, <1>5 DEF n
<1>16. JoinerInv'
  <2> SUFFICES ASSUME NEW d \in Caller
               PROVE  (/\ call[d].step = "join" => /\ call[d].fp \in Fingerprint
                                                   /\ records[call[d].fp] # <<>>
                                                   /\ call[d].attempt = Other
                       /\ call[d].step = "await" => /\ call[d].fp \in Fingerprint
                                                    /\ call[d].attempt \in 1 .. Len(records[call[d].fp]))'
    BY DEF JoinerInv
  <2>1. CASE d = c
    BY <1>6, <2>1
  <2>2. CASE d # c
    <3>1. call'[d] = call[d]
      BY <1>6, <2>2
    <3>2. records'[f] # <<>>
      BY <1>1, <1>5
    <3>3. \A g \in Fingerprint : records[g] # <<>> => records'[g] # <<>>
      BY <1>5, <3>2
    <3> QED BY <1>15, <3>1, <3>3 DEF Core, JoinerInv
  <2> QED BY <2>1, <2>2
<1>17. AnswerInv'
  <2> SUFFICES ASSUME NEW d \in Caller, call'[d].step = "returned"
               PROVE  (/\ call[d].fp \in Fingerprint
                       /\ call[d].attempt \in 0 .. Len(records[call[d].fp])
                       /\ call[d].waited => /\ call[d].attempt # Other
                                            /\ mine(d).done
                                            /\ call[d].phase = mine(d).phase
                       /\ call[d].result => call[d].fp \in cached)'
    BY DEF AnswerInv
  <2>1. d # c /\ call'[d] = call[d]
    BY <1>6
  <2>2. /\ call[d].fp \in Fingerprint
        /\ call[d].attempt \in 0 .. Len(records[call[d].fp])
        /\ call[d].waited => /\ call[d].attempt # Other
                             /\ mine(d).done
                             /\ call[d].phase = mine(d).phase
        /\ call[d].result => call[d].fp \in cached
    BY <2>1 DEF Core, AnswerInv
  <2>3. Len(records'[call[d].fp]) \in Nat /\ Len(records[call[d].fp]) <= Len(records'[call[d].fp])
        /\ Len(records[call[d].fp]) \in Nat
    <3>1. CASE call[d].fp = f
      BY <1>1, <1>5, <3>1 DEF n
    <3>2. CASE call[d].fp # f
      <4>1. records'[call[d].fp] = records[call[d].fp] /\ records[call[d].fp] \in Seq(Record)
        BY <1>1, <1>5, <2>2, <3>2
      <4> QED BY <4>1
    <3> QED BY <3>1, <3>2
  <2>4. ASSUME call[d].waited PROVE mine(d)' = mine(d)
    <3>1. call[d].attempt \in 1 .. Len(records[call[d].fp])
      BY <2>2, <2>3, <2>4 DEF Other
    <3> QED BY <1>15, <2>1, <2>2, <3>1 DEF mine
  <2> QED BY <2>1, <2>2, <2>3, <2>4
<1>18. IdleInv'
  BY <1>6 DEF Core, IdleInv
<1> QED BY <1>10, <1>11, <1>12, <1>13, <1>14, <1>16, <1>17, <1>18 DEF Core

\* The event is set: from here on the record keeps its phase.
LEMMA LeaderDone == ASSUME Core, NEW c \in Caller, Done(c) PROVE Core'
<1> DEFINE f == call[c].fp
           n == call[c].attempt
           r == [mine(c) EXCEPT !.done = TRUE]
           v == Answered(f, n, mine(c).phase, mine(c).result, TRUE)
<1>1. /\ f \in Fingerprint /\ n = Len(records[f]) /\ n \in Attempt /\ n # Other
      /\ mine(c).phase \in PhasesAt("done") /\ Leads(c) /\ ~ mine(c).done
      /\ records \in [Fingerprint -> Seq(Record)] /\ call \in [Caller -> Call]
      /\ records[f] \in Seq(Record) /\ n \in 1 .. Len(records[f])
  <2>1. Leads(c) /\ call[c].step = "done"
    BY DEF Done, Leads, Leading
  <2>2. /\ f \in Fingerprint /\ n = Len(records[f]) /\ n \in Attempt
        /\ mine(c).phase \in PhasesAt("done") /\ ~ mine(c).done
    BY <2>1 DEF Core, LeaderInv
  <2>3. /\ records \in [Fingerprint -> Seq(Record)] /\ call \in [Caller -> Call]
        /\ records[f] \in Seq(Record)
    BY <2>2 DEF Core, CoreTypes
  <2>4. n # Other /\ n \in 1 .. Len(records[f])
    BY <2>2, <2>3, ConstantsAssumption DEF Attempt, Other
  <2> QED BY <2>1, <2>2, <2>3, <2>4
<1>2. mine(c) \in Record /\ mine(c) = records[f][n]
  BY <1>1, RecordTyped DEF Core, mine
<1>3. r \in Record /\ r.done /\ r.phase = mine(c).phase /\ r.result = mine(c).result
  BY <1>2 DEF Record
<1>4. records' = [records EXCEPT ![f] = [records[f] EXCEPT ![n] = r]]
  BY <1>1 DEF Done, SetRecord
<1>5. v \in Call /\ v.step = "returned" /\ v.fp = f /\ v.attempt = n
      /\ v.phase = mine(c).phase /\ v.result = mine(c).result
  <2>1. mine(c).phase \in Phase /\ mine(c).result \in BOOLEAN
    BY <1>2 DEF Record
  <2> HIDE DEF f, n
  <2> QED BY <1>1, <2>1, Steps DEF Answered, Call
<1> HIDE DEF r
<1>6. /\ [records[f] EXCEPT ![n] = r] \in Seq(Record)
      /\ Len([records[f] EXCEPT ![n] = r]) = Len(records[f])
      /\ [records[f] EXCEPT ![n] = r][n] = r
      /\ \A m \in 1 .. Len(records[f]) : m # n => [records[f] EXCEPT ![n] = r][m] = records[f][m]
  BY <1>1, <1>3
<1>7. /\ records' \in [Fingerprint -> Seq(Record)]
      /\ \A g \in Fingerprint : Len(records'[g]) = Len(records[g])
      /\ records'[f][n] = r
      /\ \A g \in Fingerprint : \A m \in 1 .. Len(records[g]) :
           (g # f \/ m # n) => records'[g][m] = records[g][m]
  BY <1>1, <1>4, <1>6
<1>8. \A g \in Fingerprint : \A m \in 1 .. Len(records[g]) :
        /\ records'[g][m].phase = records[g][m].phase
        /\ records'[g][m].result = records[g][m].result
        /\ records[g][m].done => records'[g][m].done
  BY <1>2, <1>3, <1>7
<1>9. /\ call' \in [Caller -> Call] /\ call'[c] = v
      /\ \A d \in Caller : d # c => call'[d] = call[d]
  <2>1. call' = [call EXCEPT ![c] = v]
    BY DEF Done
  <2> HIDE DEF v
  <2> QED BY <1>1, <1>5, <2>1
<1> HIDE DEF v
<1>10. CoreTypes'
  <2>1. cached' \subseteq Fingerprint /\ posts' \in [Fingerprint -> Seq(Attempt)]
    BY DEF Core, CoreTypes, Done
  <2>2. \A g \in Fingerprint : Len(records'[g]) <= MaxAttempts
    BY <1>7 DEF Core, CoreTypes
  <2> QED BY <1>7, <1>9, <2>1, <2>2 DEF CoreTypes
<1>11. \A d \in Caller : Leads(d)' => Leads(d) /\ d # c /\ call'[d] = call[d]
  BY <1>5, <1>9, Steps DEF Leads
<1>12. OneLeader'
  BY <1>11 DEF Core, OneLeader
<1>13. LeaderInv'
  <2> SUFFICES ASSUME NEW d \in Caller, Leads(d)'
               PROVE  (/\ call[d].fp \in Fingerprint
                       /\ call[d].attempt = Len(records[call[d].fp])
                       /\ call[d].attempt \in Attempt
                       /\ ~ mine(d).done
                       /\ mine(d).phase \in PhasesAt(call[d].step)
                       /\ call[d].step = "submit" => posts[call[d].fp] = <<>>
                       /\ call[d].step \in {"consume", "succeed", "complete"} => call[d].fp \in cached)'
    BY DEF LeaderInv
  <2>1. Leads(d) /\ d # c /\ call'[d] = call[d]
    BY <1>11
  <2>2. call[d].fp # f
    BY <1>1, <2>1 DEF Core, OneLeader
  <2>3. call[d].fp \in Fingerprint /\ call[d].attempt \in 1 .. Len(records[call[d].fp])
    BY <1>1, <2>1 DEF Core, LeaderInv, Attempt
  <2>4. mine(d)' = mine(d)
    BY <1>7, <2>1, <2>2, <2>3 DEF mine
  <2>5. cached' = cached /\ posts' = posts
    BY DEF Done
  <2> QED BY <1>7, <2>1, <2>3, <2>4, <2>5 DEF Core, LeaderInv
<1>14. RecordInv'
  <2>1. \A g \in Fingerprint : \A m \in 1 .. Len(records[g]) :
          /\ records'[g][m].result \/ records'[g][m].phase = "SUCCEEDED" => g \in cached
          /\ m # Len(records[g]) => records'[g][m].done
    BY <1>8 DEF Core, RecordInv
  <2>2. cached' = cached
    BY DEF Done
  <2> QED BY <1>7, <2>1, <2>2 DEF RecordInv
<1>15. PostInv'
  <2> SUFFICES ASSUME NEW g \in Fingerprint, posts'[g] # <<>>
               PROVE  (/\ Len(posts[g]) = 1 /\ posts[g][1] = Len(records[g])
                       /\ Len(records[g]) # 0 /\ last(g).phase \in Submitted)'
    BY DEF PostInv
  <2>1. posts' = posts
    BY DEF Done
  <2>2. /\ Len(posts[g]) = 1 /\ posts[g][1] = Len(records[g])
        /\ Len(records[g]) # 0 /\ last(g).phase \in Submitted
    BY <2>1 DEF Core, PostInv
  <2>3. Len(records[g]) \in 1 .. Len(records[g]) /\ Len(records'[g]) = Len(records[g])
    BY <1>1, <1>7, <2>2
  <2>4. last(g)'.phase = last(g).phase
    BY <1>8, <2>3 DEF last
  <2> QED BY <2>1, <2>2, <2>3, <2>4
<1>16. JoinerInv'
  <2> SUFFICES ASSUME NEW d \in Caller
               PROVE  (/\ call[d].step = "join" => /\ call[d].fp \in Fingerprint
                                                   /\ records[call[d].fp] # <<>>
                                                   /\ call[d].attempt = Other
                       /\ call[d].step = "await" => /\ call[d].fp \in Fingerprint
                                                    /\ call[d].attempt \in 1 .. Len(records[call[d].fp]))'
    BY DEF JoinerInv
  <2>1. CASE d = c
    BY <1>5, <1>9, <2>1
  <2>2. CASE d # c
    <3>1. call'[d] = call[d]
      BY <1>9, <2>2
    <3>2. \A g \in Fingerprint : records[g] # <<>> => records'[g] # <<>>
      BY <1>1, <1>7
    <3> QED BY <1>7, <3>1, <3>2 DEF Core, JoinerInv
  <2> QED BY <2>1, <2>2
<1>17. AnswerInv'
  <2> SUFFICES ASSUME NEW d \in Caller, call'[d].step = "returned"
               PROVE  (/\ call[d].fp \in Fingerprint
                       /\ call[d].attempt \in 0 .. Len(records[call[d].fp])
                       /\ call[d].waited => /\ call[d].attempt # Other
                                            /\ mine(d).done
                                            /\ call[d].phase = mine(d).phase
                       /\ call[d].result => call[d].fp \in cached)'
    BY DEF AnswerInv
  <2>0. cached' = cached
    BY DEF Done
  <2>1. CASE d = c
    <3>1. v.result => f \in cached
      BY <1>1, <1>2, <1>5 DEF Core, RecordInv
    <3>2. mine(d)' = r
      BY <1>5, <1>7, <1>9, <2>1 DEF mine
    <3>3. n \in 0 .. Len(records'[f])
      BY <1>1, <1>7
    <3> QED BY <1>1, <1>3, <1>5, <1>9, <2>0, <2>1, <3>1, <3>2, <3>3
  <2>2. CASE d # c
    <3>1. call'[d] = call[d]
      BY <1>9, <2>2
    <3>2. /\ call[d].fp \in Fingerprint
          /\ call[d].attempt \in 0 .. Len(records[call[d].fp])
          /\ call[d].waited => /\ call[d].attempt # Other
                               /\ mine(d).done
                               /\ call[d].phase = mine(d).phase
          /\ call[d].result => call[d].fp \in cached
      BY <3>1 DEF Core, AnswerInv
    <3>3. ASSUME call[d].waited
          PROVE  mine(d)'.done /\ mine(d)'.phase = mine(d).phase
      <4>1. call[d].attempt \in 1 .. Len(records[call[d].fp])
        BY <1>1, <3>2, <3>3 DEF Other
      <4> QED BY <1>8, <3>1, <3>2, <3>3, <4>1 DEF mine
    <3>4. Len(records'[call[d].fp]) = Len(records[call[d].fp])
      BY <1>7, <3>2
    <3> QED BY <2>0, <3>1, <3>2, <3>3, <3>4
  <2> QED BY <2>1, <2>2
<1>18. IdleInv'
  BY <1>5, <1>9 DEF Core, IdleInv
<1> QED BY <1>10, <1>12, <1>13, <1>14, <1>15, <1>16, <1>17, <1>18 DEF Core

-----------------------------------------------------------------------------
LEMMA CoreInit == Init => Core
<1> SUFFICES ASSUME Init PROVE Core
  OBVIOUS
<1>1. \A c \in Caller : call[c] = Idle
  BY DEF Init
<1>2. Idle \in Call /\ Idle.step = "idle" /\ Idle.attempt = Other
  BY DEF Idle, Call, Step
<1>3. \A f \in Fingerprint : records[f] = <<>> /\ posts[f] = <<>>
  BY DEF Init
<1>4. CoreTypes
  BY <1>2, ConstantsAssumption DEF Init, CoreTypes
<1>5. LeaderInv /\ OneLeader /\ JoinerInv /\ AnswerInv /\ IdleInv
  BY <1>1, <1>2, Steps DEF LeaderInv, OneLeader, JoinerInv, AnswerInv, IdleInv, Leads
<1>6. RecordInv /\ PostInv
  BY <1>3 DEF RecordInv, PostInv
<1> QED BY <1>4, <1>5, <1>6 DEF Core

\* What a leader's record says at each step, and what it has submitted.
LEMMA LeaderFacts ==
  ASSUME Core, NEW c \in Caller, Leads(c)
  PROVE  /\ call[c].fp \in Fingerprint /\ call[c].attempt = Len(records[call[c].fp])
         /\ mine(c).phase \in PhasesAt(call[c].step)
         /\ mine(c) \in Record /\ mine(c) = last(call[c].fp)
         /\ posts[call[c].fp] # <<>> => mine(c).phase \in Submitted
         /\ call[c].step = "submit" => posts[call[c].fp] = <<>>
         /\ call[c].step \in {"consume", "succeed", "complete"} => call[c].fp \in cached
<1>1. /\ call[c].fp \in Fingerprint /\ call[c].attempt = Len(records[call[c].fp])
      /\ mine(c).phase \in PhasesAt(call[c].step) /\ call[c].attempt \in Attempt
      /\ call[c].step = "submit" => posts[call[c].fp] = <<>>
      /\ call[c].step \in {"consume", "succeed", "complete"} => call[c].fp \in cached
  BY DEF Core, LeaderInv
<1>2. call[c].attempt \in 1 .. Len(records[call[c].fp])
  <2>1. Len(records[call[c].fp]) \in Nat
    BY <1>1 DEF Core, CoreTypes
  <2> QED BY <1>1, <2>1, ConstantsAssumption DEF Attempt
<1>3. mine(c) \in Record /\ mine(c) = last(call[c].fp)
  BY <1>1, <1>2, RecordTyped DEF Core, mine, last
<1>4. posts[call[c].fp] # <<>> => mine(c).phase \in Submitted
  BY <1>1, <1>3 DEF Core, PostInv
<1> QED BY <1>1, <1>3, <1>4

\* The phases in plain sight.
LEMMA PhasesAtEach ==
  /\ PhasesAt("reserve") = {"OPEN"} /\ PhasesAt("give up") = {"OPEN"}
  /\ PhasesAt("take slot") = {"OPEN"} /\ PhasesAt("fail job") = {"FAILED_PRE_SUBMIT"}
  /\ PhasesAt("submit") = {"SUBMITTING"} /\ PhasesAt("uncertain") = {"SUBMITTING"}
  /\ PhasesAt("acknowledged") = {"SUBMITTING"} /\ PhasesAt("interrupt") = {"UNKNOWN_VENDOR_STATE"}
  /\ PhasesAt("fetch") = {"ACTIVITY_ID_PERSISTED"} /\ PhasesAt("cache") = {"ACTIVITY_ID_PERSISTED"}
  /\ PhasesAt("consume") = {"ACTIVITY_ID_PERSISTED"} /\ PhasesAt("succeed") = {"ACTIVITY_ID_PERSISTED"}
  /\ PhasesAt("complete") = {"SUCCEEDED"} /\ PhasesAt("lost") = Submitted
  /\ PhasesAt("done") = Submitted \cup {"FAILED_PRE_SUBMIT"}
BY DEF PhasesAt

\* The phases of a record that submitted, and those of one that did not.
LEMMA SubmittedPhases ==
  /\ "SUBMITTING" \in Submitted /\ "UNKNOWN_VENDOR_STATE" \in Submitted
  /\ "ACTIVITY_ID_PERSISTED" \in Submitted /\ "SUCCEEDED" \in Submitted
  /\ "FAILED_POST_SUBMIT" \in Submitted /\ "OPEN" \notin Submitted
  /\ "FAILED_PRE_SUBMIT" \notin Submitted
BY DEF Submitted, Lost

\* The steps of a leader, one by one.
LEMMA LeadingSteps ==
  /\ "reserve" \in Leading /\ "give up" \in Leading /\ "take slot" \in Leading
  /\ "fail job" \in Leading /\ "submit" \in Leading /\ "uncertain" \in Leading
  /\ "acknowledged" \in Leading /\ "interrupt" \in Leading /\ "fetch" \in Leading
  /\ "cache" \in Leading /\ "consume" \in Leading /\ "succeed" \in Leading
  /\ "complete" \in Leading /\ "lost" \in Leading /\ "done" \in Leading
BY DEF Leading

\* A leader's step that changes a record's phase and nothing else of Core.
LEMMA PhaseChanges ==
  ASSUME Core, NEW c \in Caller, NEW t \in Leading,
         NEW s \in Leading, NEW p \in PhasesAt(s), At(c, t, s),
         SetRecord(c, [mine(c) EXCEPT !.phase = p]),
         cached' = cached, posts' = posts,
         p # "SUCCEEDED", s \notin {"consume", "succeed", "complete"},
         s = "submit" \/ p \notin Submitted => \A q \in PhasesAt(t) : q \notin Submitted
  PROVE  Core'
<1>0. Leads(c) /\ call[c].step = t /\ call' = [call EXCEPT ![c].step = s]
  BY DEF At, GoTo, Leads
<1>1. /\ mine(c) \in Record /\ call[c].fp \in Fingerprint /\ mine(c).phase \in PhasesAt(t)
      /\ posts[call[c].fp] # <<>> => mine(c).phase \in Submitted
  BY <1>0, LeaderFacts
<1>2. [mine(c) EXCEPT !.phase = p] = [mine(c) EXCEPT !.phase = p, !.result = mine(c).result]
  BY <1>1 DEF Record
<1>3. mine(c).result \in BOOLEAN /\ (mine(c).result => call[c].fp \in cached)
  <2>1. /\ mine(c) = records[call[c].fp][call[c].attempt]
        /\ call[c].attempt = Len(records[call[c].fp]) /\ call[c].attempt \in Attempt
        /\ Len(records[call[c].fp]) \in Nat
    BY <1>0, <1>1 DEF Core, CoreTypes, LeaderInv, mine
  <2>2. call[c].attempt \in 1 .. Len(records[call[c].fp])
    BY <2>1, ConstantsAssumption DEF Attempt
  <2> QED BY <1>1, <2>1, <2>2 DEF Core, RecordInv, Record
<1>4. records' = [records EXCEPT ![call[c].fp][call[c].attempt] =
                    [mine(c) EXCEPT !.phase = p, !.result = mine(c).result]]
  BY <1>2 DEF SetRecord
<1>5. /\ s = "submit" => posts[call[c].fp] = <<>>
      /\ posts[call[c].fp] # <<>> => p \in Submitted
  BY <1>1
<1> QED BY <1>0, <1>3, <1>4, <1>5, LeaderMoves

\* A leader's step that changes nothing of Core but its own place.
LEMMA LeaderQuiet ==
  ASSUME Core, NEW c \in Caller, NEW t \in Leading, NEW s \in Leading, At(c, t, s),
         records' = records, cached' = cached, posts' = posts,
         s \notin {"submit", "consume", "complete"},
         s = "succeed" => t = "consume",
         PhasesAt(t) \subseteq PhasesAt(s)
  PROVE  Core'
<1>1. Leads(c) /\ call[c].step = t /\ call' = [call EXCEPT ![c].step = s]
  BY DEF At, GoTo, Leads
<1>2. /\ mine(c).phase \in PhasesAt(s)
      /\ posts[call[c].fp] # <<>> => mine(c).phase \in Submitted
      /\ s = "succeed" => call[c].fp \in cached
  BY <1>1, LeaderFacts
<1> QED BY <1>1, <1>2, LeaderGoes

\* Every step of a thread inside execute() keeps Core.
LEMMA RunKept == ASSUME Core, NEW c \in Caller, Run(c) PROVE Core'
<1>1. CASE LookUp(c)
  <2> DEFINE v == [call[c] EXCEPT !.step = "await", !.attempt = Len(records[call[c].fp])]
  <2>1. call[c] \in Call /\ call[c].fp \in Fingerprint /\ records[call[c].fp] # <<>>
    BY <1>1 DEF LookUp, Core, CoreTypes, JoinerInv
  <2>2. records[call[c].fp] \in Seq(Record) /\ Len(records[call[c].fp]) <= MaxAttempts
    BY <2>1 DEF Core, CoreTypes
  <2>3. Len(records[call[c].fp]) \in 1 .. Len(records[call[c].fp])
        /\ Len(records[call[c].fp]) \in Attempt
    <3>1. Len(records[call[c].fp]) \in Nat \ {0}
      BY <2>1, <2>2
    <3> QED BY <2>2, <3>1, ConstantsAssumption DEF Attempt
  <2>4. v \in Call /\ v.step = "await" /\ v.fp = call[c].fp /\ v.attempt = Len(records[call[c].fp])
    BY <2>1, <2>3, Steps DEF Call
  <2>5. call' = [call EXCEPT ![c] = v]
    BY <1>1, <2>1 DEF LookUp, Core, CoreTypes
  <2>6. records' = records /\ cached' = cached /\ posts' = posts
    BY <1>1 DEF LookUp
  <2> HIDE DEF v
  <2> QED BY <2>1, <2>3, <2>4, <2>5, <2>6, Steps, CallReplaced
<1>2. CASE Awake(c)
  <2> DEFINE v == Answered(call[c].fp, call[c].attempt, mine(c).phase, mine(c).result, TRUE)
  <2>1. /\ call[c] \in Call /\ call[c].fp \in Fingerprint
        /\ call[c].attempt \in 1 .. Len(records[call[c].fp])
        /\ Len(records[call[c].fp]) \in Nat
    <3>1. call[c].step = "await"
      BY <1>2 DEF Awake
    <3>2. /\ call[c] \in Call /\ call[c].fp \in Fingerprint
          /\ call[c].attempt \in 1 .. Len(records[call[c].fp])
      BY <3>1 DEF Core, CoreTypes, JoinerInv
    <3>3. records[call[c].fp] \in Seq(Record)
      BY <3>2 DEF Core, CoreTypes
    <3> QED BY <3>2, <3>3
  <2>2. mine(c) \in Record /\ mine(c) = records[call[c].fp][call[c].attempt] /\ mine(c).done
    <3>1. mine(c) = records[call[c].fp][call[c].attempt] /\ mine(c).done
      BY <1>2 DEF Awake, mine
    <3> QED BY <2>1, <3>1, RecordTyped DEF Core
  <2>3. mine(c).result => call[c].fp \in cached
    BY <2>1, <2>2 DEF Core, RecordInv
  <2>4. /\ v \in Call /\ v.step = "returned" /\ v.fp = call[c].fp /\ v.attempt = call[c].attempt
        /\ v.phase = mine(c).phase /\ v.result = mine(c).result
    BY <2>1, <2>2, Steps DEF Answered, Call, Record
  <2>5. call' = [call EXCEPT ![c] = v]
    BY <1>2 DEF Awake
  <2>6. records' = records /\ cached' = cached /\ posts' = posts
    BY <1>2 DEF Awake
  <2> HIDE DEF v
  <2>7. v.attempt # Other /\ v.attempt \in 0 .. Len(records[v.fp])
    BY <2>1, <2>4 DEF Other
  <2> QED BY <2>1, <2>2, <2>3, <2>4, <2>5, <2>6, <2>7, Steps, CallReplaced
<1> USE LeadingSteps, PhasesAtEach, SubmittedPhases
<1>3. CASE Reserve(c)
  BY <1>3, LeaderQuiet DEF Reserve
<1>4. CASE ReserveRefused(c)
  BY <1>4, LeaderQuiet DEF ReserveRefused
<1>5. CASE GiveUp(c)
  <2>1. /\ At(c, "give up", "fail job") /\ SetRecord(c, [mine(c) EXCEPT !.phase = "FAILED_PRE_SUBMIT"])
        /\ cached' = cached /\ posts' = posts
    BY <1>5 DEF GiveUp
  <2>2. /\ "give up" \in Leading /\ "fail job" \in Leading /\ "FAILED_PRE_SUBMIT" \in PhasesAt("fail job")
        /\ \A q \in PhasesAt("give up") : q \notin Submitted
    OBVIOUS
  <2> QED BY <2>1, <2>2, PhaseChanges
<1>6. CASE FailJob(c)
  BY <1>6, LeaderQuiet DEF FailJob
<1>7. CASE TakeSlot(c)
  <2>1. /\ At(c, "take slot", "submit") /\ SetRecord(c, [mine(c) EXCEPT !.phase = "SUBMITTING"])
        /\ cached' = cached /\ posts' = posts
    BY <1>7 DEF TakeSlot
  <2>2. /\ "take slot" \in Leading /\ "submit" \in Leading /\ "SUBMITTING" \in PhasesAt("submit")
        /\ \A q \in PhasesAt("take slot") : q \notin Submitted
    OBVIOUS
  <2> QED BY <2>1, <2>2, PhaseChanges
<1>8. CASE Submit(c)
  <2>1. PICK s \in {"acknowledged", "uncertain"} : At(c, "submit", s)
    BY <1>8 DEF Submit
  <2>2. Leads(c) /\ call[c].step = "submit" /\ call' = [call EXCEPT ![c].step = s]
    BY <2>1 DEF At, GoTo, Leads
  <2>3. mine(c).phase = "SUBMITTING" /\ posts[call[c].fp] = <<>>
    BY <2>2, LeaderFacts
  <2>4. /\ records' = records /\ cached' = cached
        /\ posts' = [posts EXCEPT ![call[c].fp] = Append(@, call[c].attempt)]
    BY <1>8 DEF Submit
  <2> QED BY <2>1, <2>2, <2>3, <2>4, LeaderGoes
<1>9. CASE MarkUncertain(c)
  BY <1>9, PhaseChanges DEF MarkUncertain
<1>10. CASE Interrupt(c)
  BY <1>10, LeaderQuiet DEF Interrupt
<1>11. CASE PersistActivity(c)
  BY <1>11, PhaseChanges DEF PersistActivity
<1>12. CASE Fetch(c)
  BY <1>12, LeaderQuiet DEF Fetch
<1>13. CASE CachePut(c)
  <2>1. /\ Leads(c) /\ call[c].step = "cache" /\ call' = [call EXCEPT ![c].step = "consume"]
        /\ records' = records /\ posts' = posts /\ cached' = cached \cup {call[c].fp}
    BY <1>13 DEF CachePut, At, GoTo, Leads
  <2>2. mine(c).phase = "ACTIVITY_ID_PERSISTED" /\ call[c].fp \in cached'
    BY <2>1, LeaderFacts
  <2> QED BY <2>1, <2>2, LeaderGoes
<1>14. CASE Consume(c)
  BY <1>14, LeaderQuiet DEF Consume
<1>15. CASE ConsumeRaises(c)
  BY <1>15, LeaderQuiet DEF ConsumeRaises
<1>16. CASE Succeed(c)
  <2>1. /\ Leads(c) /\ call[c].step = "succeed" /\ call' = [call EXCEPT ![c].step = "complete"]
        /\ posts' = posts /\ cached' = cached
        /\ records' = [records EXCEPT ![call[c].fp][call[c].attempt] =
                         [mine(c) EXCEPT !.phase = "SUCCEEDED", !.result = TRUE]]
    BY <1>16 DEF Succeed, SetRecord, At, GoTo, Leads
  <2>2. call[c].fp \in cached
    BY <2>1, LeaderFacts
  <2> QED BY <2>1, <2>2, LeaderMoves
<1>17. CASE Complete(c)
  BY <1>17, LeaderQuiet DEF Complete
<1>18. CASE Lose(c)
  BY <1>18, PhaseChanges DEF Lose
<1>19. CASE Done(c)
  BY <1>19, LeaderDone
<1> QED
  BY <1>1, <1>2, <1>3, <1>4, <1>5, <1>6, <1>7, <1>8, <1>9, <1>10, <1>11, <1>12, <1>13, <1>14,
     <1>15, <1>16, <1>17, <1>18, <1>19 DEF Run

\* So does a claim, whatever it finds.
LEMMA ClaimKept == ASSUME Core, NEW c \in Caller, NEW f \in Fingerprint, Claim(c, f) PROVE Core'
<1>1. call[c].step = "idle" /\ cached' = cached /\ posts' = posts
  BY DEF Claim
<1>2. records[f] \in Seq(Record) /\ Len(records[f]) \in Nat /\ Len(records[f]) <= MaxAttempts
  BY DEF Core, CoreTypes
<1>3. ASSUME NEW allowReopen \in BOOLEAN, Lead(c, f, allowReopen) PROVE Core'
  BY <1>1, <1>3, Leads1
<1>4. ASSUME NEW allowReopen \in BOOLEAN, Join(c, f, allowReopen) PROVE Core'
  <2> DEFINE v == [Idle EXCEPT !.step = "join", !.fp = f]
  <2>1. v \in Call /\ v.step = "join" /\ v.fp = f /\ v.attempt = Other
    BY DEF Idle, Call, Step
  <2>2. call' = [call EXCEPT ![c] = v] /\ records' = records /\ records[f] # <<>>
    BY <1>4 DEF Join
  <2> HIDE DEF v
  <2> QED BY <1>1, <2>1, <2>2, Steps, CallReplaced
<1>5. CASE Hit(c, f)
  <2> DEFINE v == Answered(f, Other, "SUCCEEDED", TRUE, FALSE)
  <2>1. /\ v \in Call /\ v.step = "returned" /\ v.fp = f /\ v.attempt = Other
        /\ ~ v.waited /\ v.attempt \in 0 .. Len(records[f])
    BY <1>2 DEF Answered, Call, Step, Phase, Other
  <2>2. call' = [call EXCEPT ![c] = v] /\ records' = records
    BY <1>5 DEF Hit
  <2>3. f \in cached
    <3>1. ASSUME records[f] # <<>>, last(f).phase = "SUCCEEDED" PROVE f \in cached
      <4>1. Len(records[f]) \in 1 .. Len(records[f])
        BY <1>2, <3>1
      <4> QED BY <3>1, <4>1 DEF Core, RecordInv, last
    <3> QED BY <1>5, <3>1 DEF Hit
  <2> HIDE DEF v
  <2> QED BY <1>1, <2>1, <2>2, <2>3, Steps, CallReplaced
<1>6. CASE Recover(c, f)
  <2> DEFINE v == Answered(f, Len(records[f]), last(f).phase, last(f).result, FALSE)
  <2>1. Len(records[f]) \in 1 .. Len(records[f]) /\ Len(records[f]) \in Attempt
    <3>1. Len(records[f]) \in Nat \ {0}
      BY <1>2, <1>6 DEF Recover
    <3> QED BY <1>2, <3>1, ConstantsAssumption DEF Attempt
  <2>2. last(f) \in Record /\ last(f) = records[f][Len(records[f])]
    BY <2>1, RecordTyped DEF Core, last
  <2>3. last(f).phase \in Phase /\ last(f).result \in BOOLEAN /\ (last(f).result => f \in cached)
    BY <2>1, <2>2 DEF Core, RecordInv, Record
  <2>4. /\ v \in Call /\ v.step = "returned" /\ v.fp = f /\ v.attempt = Len(records[f])
        /\ ~ v.waited /\ v.result = last(f).result
    BY <2>1, <2>3 DEF Answered, Call, Step
  <2>5. call' = [call EXCEPT ![c] = v] /\ records' = records
    BY <1>6 DEF Recover
  <2>6. Len(records[f]) \in 0 .. Len(records[f])
    BY <1>2
  <2> HIDE DEF v
  <2> QED BY <1>1, <2>3, <2>4, <2>5, <2>6, Steps, CallReplaced
<1> QED BY <1>3, <1>4, <1>5, <1>6 DEF Claim

\* A joiner that gives up, and a call that leaves.
LEMMA JoinerKept ==
  ASSUME Core, NEW c \in Caller, WaitTimesOut(c) \/ Leave(c)
  PROVE  Core'
<1>1. CASE WaitTimesOut(c)
  <2> DEFINE v == Answered(call[c].fp, call[c].attempt, mine(c).phase, FALSE, FALSE)
  <2>1. /\ call[c] \in Call /\ call[c].fp \in Fingerprint
        /\ call[c].attempt \in 1 .. Len(records[call[c].fp])
        /\ Len(records[call[c].fp]) \in Nat
    <3>1. call[c].step = "await"
      BY <1>1 DEF WaitTimesOut
    <3>2. /\ call[c] \in Call /\ call[c].fp \in Fingerprint
          /\ call[c].attempt \in 1 .. Len(records[call[c].fp])
      BY <3>1 DEF Core, CoreTypes, JoinerInv
    <3>3. records[call[c].fp] \in Seq(Record)
      BY <3>2 DEF Core, CoreTypes
    <3> QED BY <3>2, <3>3
  <2>2. mine(c) \in Record
    BY <2>1, RecordTyped DEF Core, mine
  <2>3. /\ v \in Call /\ v.step = "returned" /\ v.fp = call[c].fp
        /\ v.attempt = call[c].attempt /\ ~ v.waited /\ ~ v.result
    BY <2>1, <2>2, Steps DEF Answered, Call, Record
  <2>4. call' = [call EXCEPT ![c] = v] /\ records' = records /\ cached' = cached /\ posts' = posts
    BY <1>1 DEF WaitTimesOut
  <2> HIDE DEF v
  <2>5. v.attempt \in 0 .. Len(records[v.fp])
    BY <2>1, <2>3
  <2> QED BY <2>1, <2>3, <2>4, <2>5, Steps, CallReplaced
<1>2. CASE Leave(c)
  <2>1. Idle \in Call /\ Idle.step = "idle" /\ Idle.attempt = Other
    BY DEF Idle, Call, Step
  <2>2. call' = [call EXCEPT ![c] = Idle] /\ records' = records /\ cached' = cached /\ posts' = posts
    BY <1>2 DEF Leave
  <2> QED BY <2>1, <2>2, Steps, CallReplaced
<1> QED BY <1>1, <1>2

\* The ledger's other clients and the calendar do not touch the coordinator.
LEMMA OthersKept ==
  ASSUME Core, \/ \E f \in Fingerprint : OtherReserves(f) \/ OtherReleases(f) \/ OtherConsumes(f)
               \/ PolicyEnds
               \/ UNCHANGED vars
  PROVE  Core'
<1>1. UNCHANGED core
  BY DEF OtherReserves, OtherReleases, OtherConsumes, PolicyEnds, vars, core
<1> QED BY <1>1, CoreKept

\* The invariant of the coordinator: one leader per record, and its phase.
THEOREM CoreInvariant == Spec => []Core
<1>1. ASSUME Core, [Next]_vars PROVE Core'
  BY <1>1, ClaimKept, RunKept, JoinerKept, OthersKept DEF Next
<1> QED BY <1>1, CoreInit, PTL DEF Spec

-----------------------------------------------------------------------------
LedgerTypes ==
  /\ jobs \in [Fingerprint -> {None, "IN_FLIGHT", "COMPLETE", "FAILED"}]
  /\ active \in [Fingerprint -> Attempt \cup {Other, None}]
  /\ consumed \in Nat
  /\ expired \in BOOLEAN

\* Every variable holds a value the coordinator can hold, and a call beyond
\* its claim names a record.
THEOREM TypeCorrect == Spec => []TypeOK
<1>1. Init => LedgerTypes
  <2>1. Init => jobs \in [Fingerprint -> {None, "IN_FLIGHT", "COMPLETE", "FAILED"}]
    BY DEF Init
  <2>2. Init => active \in [Fingerprint -> Attempt \cup {Other, None}]
    BY DEF Init
  <2>3. Init => consumed \in Nat
    BY DEF Init
  <2>4. Init => expired \in BOOLEAN
    BY DEF Init
  <2> QED BY <2>1, <2>2, <2>3, <2>4 DEF LedgerTypes
<1>2. ASSUME Core, LedgerTypes, [Next]_vars PROVE LedgerTypes'
  <2>1. ASSUME NEW c \in Caller, Run(c) PROVE LedgerTypes'
    <3>0. call \in [Caller -> Call]
      BY <1>2 DEF Core, CoreTypes
    <3>1. call[c] \in Call /\ call[c].attempt \in Attempt \cup {Other}
      BY <3>0 DEF Call
    <3>2. jobs' \in [Fingerprint -> {None, "IN_FLIGHT", "COMPLETE", "FAILED"}]
      BY <1>2, <2>1 DEF LedgerTypes, Run, LookUp, Awake, Reserve, ReserveRefused, GiveUp, FailJob,
        TakeSlot, Submit, MarkUncertain, Interrupt, PersistActivity, Fetch, CachePut, Consume,
        ConsumeRaises, Succeed, Complete, Lose, Done
    <3>3. active' \in [Fingerprint -> Attempt \cup {Other, None}] /\ consumed' \in Nat /\ expired' \in BOOLEAN
      <4>1. CASE Reserve(c)
        <5>1. active' = [active EXCEPT ![call[c].fp] = call[c].attempt] /\ UNCHANGED <<consumed, expired>>
          BY <4>1 DEF Reserve
        <5> QED BY <1>2, <3>1, <5>1 DEF LedgerTypes
      <4>2. CASE Consume(c)
        <5>1. /\ active' = [active EXCEPT ![call[c].fp] = None]
              /\ consumed' = consumed + 1 /\ expired' = expired
          BY <4>2 DEF Consume
        <5>2. active' \in [Fingerprint -> Attempt \cup {Other, None}]
          BY <1>2, <5>1 DEF LedgerTypes
        <5>3. consumed' \in Nat /\ expired' \in BOOLEAN
          BY <1>2, <5>1 DEF LedgerTypes
        <5> QED BY <5>2, <5>3
      <4>3. CASE UNCHANGED ledger
        BY <1>2, <4>3 DEF LedgerTypes, ledger
      <4>4. Reserve(c) \/ Consume(c) \/ UNCHANGED ledger
        BY <2>1 DEF ledger, Run, LookUp, Awake, ReserveRefused, GiveUp, FailJob, TakeSlot, Submit,
          MarkUncertain, Interrupt, PersistActivity, Fetch, CachePut, ConsumeRaises, Succeed,
          Complete, Lose, Done
      <4> QED BY <4>1, <4>2, <4>3, <4>4
    <3> QED BY <3>2, <3>3 DEF LedgerTypes
  <2>2. ASSUME NEW c \in Caller, NEW f \in Fingerprint, Claim(c, f) PROVE LedgerTypes'
    BY <1>2, <2>2 DEF LedgerTypes, ledger, Claim, Lead, Join, Hit, Recover, CreateLeaderJob
  <2>3. ASSUME NEW c \in Caller, WaitTimesOut(c) \/ Leave(c) PROVE LedgerTypes'
    BY <1>2, <2>3 DEF LedgerTypes, ledger, WaitTimesOut, Leave
  <2>4. ASSUME NEW f \in Fingerprint, OtherReserves(f) \/ OtherReleases(f) \/ OtherConsumes(f)
        PROVE  LedgerTypes'
    BY <1>2, <2>4 DEF LedgerTypes, OtherReserves, OtherReleases, OtherConsumes
  <2>5. CASE PolicyEnds \/ UNCHANGED vars
    BY <1>2, <2>5 DEF LedgerTypes, PolicyEnds, vars
  <2> QED BY <1>2, <2>1, <2>2, <2>3, <2>4, <2>5 DEF Next
<1>3. Core /\ LedgerTypes => TypeOK
  <2> SUFFICES ASSUME Core, LedgerTypes PROVE TypeOK
    OBVIOUS
  <2>1. ASSUME NEW c \in Caller, call[c].attempt # Other
        PROVE  call[c].fp # None /\ call[c].attempt <= Len(records[call[c].fp])
    <3>1. call[c].step \in Step /\ call[c].step # "idle" /\ call[c].step # "join"
      BY <2>1 DEF Core, CoreTypes, Call, IdleInv, JoinerInv
    <3>2. /\ call[c].fp \in Fingerprint
          /\ \/ call[c].attempt = Len(records[call[c].fp])
             \/ call[c].attempt \in 0 .. Len(records[call[c].fp])
             \/ call[c].attempt \in 1 .. Len(records[call[c].fp])
      <4>1. CASE Leads(c)
        BY <4>1 DEF Core, LeaderInv
      <4>2. CASE call[c].step = "await" \/ call[c].step = "returned"
        BY <4>2 DEF Core, JoinerInv, AnswerInv
      <4> QED BY <3>1, <4>1, <4>2 DEF Step, Leads
    <3>3. Len(records[call[c].fp]) \in Nat
      BY <3>2 DEF Core, CoreTypes
    <3> QED BY <3>2, <3>3, ConstantsAssumption
  <2> QED BY <2>1 DEF Core, CoreTypes, LedgerTypes, TypeOK
<1> QED BY <1>1, <1>2, <1>3, CoreInvariant, PTL DEF Spec

\* Whatever fails and however often a record is reopened, one submit for each
\* fingerprint.
THEOREM OneSubmit == Spec => []AtMostOneSubmit
<1>1. Core => AtMostOneSubmit
  <2> SUFFICES ASSUME Core, NEW f \in Fingerprint PROVE Len(posts[f]) <= 1
    BY DEF AtMostOneSubmit
  <2>1. CASE posts[f] = <<>>
    BY <2>1
  <2>2. CASE posts[f] # <<>>
    <3>1. Len(posts[f]) = 1
      BY <2>2 DEF Core, PostInv
    <3> QED BY <3>1
  <2> QED BY <2>1, <2>2
<1> QED BY <1>1, CoreInvariant, PTL

\* Who waited for a leader reports what its record says for good, never a
\* failure before the submit of a record that submitted, and a result only
\* when the cache has it.
THEOREM AnswersAgreeAlways == Spec => []AnswersAgree
<1>1. Core => AnswersAgree
  <2> SUFFICES ASSUME Core, NEW c \in Caller, call[c].step = "returned"
               PROVE  /\ call[c].waited => call[c].phase = mine(c).phase
                      /\ call[c].waited /\ call[c].phase = "FAILED_PRE_SUBMIT" =>
                           \A i \in DOMAIN posts[call[c].fp] : posts[call[c].fp][i] # call[c].attempt
                      /\ call[c].result => call[c].fp \in cached
    BY DEF AnswersAgree, mine
  <2>1. /\ call[c].fp \in Fingerprint
        /\ call[c].waited => call[c].phase = mine(c).phase
        /\ call[c].result => call[c].fp \in cached
    BY DEF Core, AnswerInv
  <2>2. ASSUME call[c].waited, call[c].phase = "FAILED_PRE_SUBMIT",
               NEW i \in DOMAIN posts[call[c].fp], posts[call[c].fp][i] = call[c].attempt
        PROVE  FALSE
    <3>1. posts[call[c].fp] \in Seq(Attempt) /\ posts[call[c].fp] # <<>>
      BY <2>1, <2>2 DEF Core, CoreTypes
    <3>2. /\ Len(posts[call[c].fp]) = 1 /\ posts[call[c].fp][1] = Len(records[call[c].fp])
          /\ last(call[c].fp).phase \in Submitted
      BY <2>1, <3>1 DEF Core, PostInv
    <3>3. i = 1
      BY <2>2, <3>1, <3>2
    <3>4. mine(c) = last(call[c].fp)
      BY <2>2, <3>2, <3>3 DEF mine, last
    <3> QED BY <2>1, <2>2, <3>2, <3>4, SubmittedPhases
  <2> QED BY <2>1, <2>2
<1> QED BY <1>1, CoreInvariant, PTL
-----------------------------------------------------------------------------
(* The refinement.  A join record is an attempt of JoinedSubmit, a POST its *)
(* submit, the event its settlement, and a call that returns after the      *)
(* event is told of it; all else is a stutter.                              *)

Verdicts == {"FAILED_PRE_SUBMIT", "FAILED_POST_SUBMIT", "UNKNOWN_VENDOR_STATE", "SUCCEEDED"}

\* The steps of a leader that has submitted, its last one apart.
Beyond == {"uncertain", "interrupt", "acknowledged", "fetch", "cache", "consume", "succeed",
           "complete", "lost"}

\* A leader that is about to set its event has a verdict, which tells whether it
\* submitted.
FateOf(c) ==
  /\ call[c].step \in Beyond => posts[call[c].fp] # <<>>
  /\ call[c].step = "done" =>
       /\ mine(c).phase \in Verdicts
       /\ mine(c).phase = "FAILED_PRE_SUBMIT" \/ posts[call[c].fp] # <<>>

\* A settled record has a verdict, and only the last one may have submitted.
Fates ==
  /\ \A c \in Caller : Leads(c) => FateOf(c)
  /\ \A f \in Fingerprint : \A n \in 1 .. Len(records[f]) :
       /\ records[f][n].done => records[f][n].phase \in Verdicts
       /\ n # Len(records[f]) => records[f][n].phase = "FAILED_PRE_SUBMIT"

VerdictOf(r) == IF r.done THEN r.phase ELSE "OPEN"
VerdictsOf(recs) == [f \in Fingerprint |-> [n \in DOMAIN recs[f] |-> VerdictOf(recs[f][n])]]
Said(k) == IF k.step = "returned" /\ k.waited THEN <<k.fp, k.attempt, k.phase>> ELSE <<>>
ToldBy(calls) == [c \in Caller |-> Said(calls[c])]

(* JoinedSubmit's actions, of the records and the calls.                    *)

SameRecords == VerdictsOf(records') = VerdictsOf(records)
SameTold == ToldBy(call') = ToldBy(call)
IsOpen(f) == Len(records[f]) # 0 /\ ~ last(f).done

Stutters == SameRecords /\ SameTold /\ posts' = posts

Attempts(f) ==
  /\ \A n \in DOMAIN VerdictsOf(records)[f] : VerdictsOf(records)[f][n] = "FAILED_PRE_SUBMIT"
  /\ VerdictsOf(records') = [VerdictsOf(records) EXCEPT ![f] = Append(@, "OPEN")]
  /\ SameTold /\ posts' = posts

Submits(f) ==
  /\ IsOpen(f) /\ posts[f] = <<>>
  /\ posts' = [posts EXCEPT ![f] = <<Len(records[f])>>]
  /\ SameRecords /\ SameTold

Settles(c, f, v) ==
  /\ IsOpen(f)
  /\ v = "FAILED_PRE_SUBMIT" <=> posts[f] = <<>>
  /\ VerdictsOf(records') = [VerdictsOf(records) EXCEPT ![f][Len(records[f])] = v]
  /\ ToldBy(call') = [ToldBy(call) EXCEPT ![c] = <<f, Len(records[f]), v>>]
  /\ posts' = posts

Tells(c, f, n) ==
  /\ VerdictsOf(records)[f][n] # "OPEN"
  /\ ToldBy(call') = [ToldBy(call) EXCEPT ![c] = <<f, n, VerdictsOf(records)[f][n]>>]
  /\ SameRecords /\ posts' = posts

Forgets(c) ==
  /\ ToldBy(call') = [ToldBy(call) EXCEPT ![c] = <<>>]
  /\ SameRecords /\ posts' = posts

Seen ==
  \/ Stutters
  \/ \E f \in Fingerprint :
       \/ Attempts(f) \/ Submits(f)
       \/ \E c \in Caller :
            \/ \E v \in Verdicts : Settles(c, f, v)
            \/ \E n \in 1 .. Len(records[f]) : Tells(c, f, n)
  \/ \E c \in Caller : Forgets(c)

\* The records of a fingerprint and their verdicts are numbered alike.
LEMMA Counted ==
  ASSUME CoreTypes, NEW f \in Fingerprint
  PROVE  /\ records[f] \in Seq(Record) /\ Len(records[f]) \in Nat
         /\ DOMAIN records[f] = 1 .. Len(records[f])
         /\ VerdictsOf(records)[f] = [n \in 1 .. Len(records[f]) |-> VerdictOf(records[f][n])]
         /\ VerdictsOf(records)[f] \in Seq(Phase)
         /\ Len(VerdictsOf(records)[f]) = Len(records[f])
<1>1. records[f] \in Seq(Record)
  BY DEF CoreTypes
<1>2. Len(records[f]) \in Nat /\ DOMAIN records[f] = 1 .. Len(records[f])
  BY <1>1
<1>3. VerdictsOf(records)[f] = [n \in 1 .. Len(records[f]) |-> VerdictOf(records[f][n])]
  BY <1>2 DEF VerdictsOf
<1>4. ASSUME NEW n \in 1 .. Len(records[f]) PROVE VerdictOf(records[f][n]) \in Phase
  <2>1. records[f][n] \in Record
    BY <1>4, RecordTyped
  <2> QED BY <2>1, Steps DEF VerdictOf, Record
<1> DEFINE k == Len(records[f])
           verdict == [n \in 1 .. k |-> VerdictOf(records[f][n])]
<1>5. verdict \in Seq(Phase) /\ Len(verdict) = k
  <2>1. k \in Nat /\ verdict \in [1 .. k -> Phase]
    BY <1>2, <1>4
  <2> HIDE DEF verdict, k
  <2> QED BY <2>1
<1> QED BY <1>1, <1>2, <1>3, <1>5

\* What a leader's write does: to its own record, the last one, and to no other.
LEMMA RecordSet ==
  ASSUME Core, NEW c \in Caller, Leads(c), NEW r \in Record, SetRecord(c, r)
  PROVE  /\ call[c].attempt \in 1 .. Len(records[call[c].fp])
         /\ call[c].attempt = Len(records[call[c].fp])
         /\ records'[call[c].fp][call[c].attempt] = r
         /\ \A g \in Fingerprint : DOMAIN records'[g] = DOMAIN records[g]
         /\ \A g \in Fingerprint : Len(records'[g]) = Len(records[g])
         /\ \A g \in Fingerprint : \A m \in 1 .. Len(records[g]) :
              (g # call[c].fp \/ m # call[c].attempt) => records'[g][m] = records[g][m]
<1> DEFINE f == call[c].fp
           n == call[c].attempt
<1>1. f \in Fingerprint /\ n = Len(records[f]) /\ n \in Attempt
  BY DEF Core, LeaderInv
<1>2. records \in [Fingerprint -> Seq(Record)] /\ records[f] \in Seq(Record)
  BY <1>1 DEF Core, CoreTypes
<1>3. n \in 1 .. Len(records[f])
  BY <1>1, <1>2, ConstantsAssumption DEF Attempt
<1>4. records' = [records EXCEPT ![f] = [records[f] EXCEPT ![n] = r]]
  BY <1>1, <1>2 DEF SetRecord
<1> HIDE DEF f, n
<1>5. /\ [records[f] EXCEPT ![n] = r] \in Seq(Record)
      /\ Len([records[f] EXCEPT ![n] = r]) = Len(records[f])
      /\ DOMAIN [records[f] EXCEPT ![n] = r] = DOMAIN records[f]
      /\ [records[f] EXCEPT ![n] = r][n] = r
      /\ \A m \in 1 .. Len(records[f]) : m # n => [records[f] EXCEPT ![n] = r][m] = records[f][m]
  BY <1>2, <1>3
<1>6. /\ records'[f] = [records[f] EXCEPT ![n] = r]
      /\ \A g \in Fingerprint : g # f => records'[g] = records[g]
  BY <1>1, <1>2, <1>4
<1>7. \A g \in Fingerprint : DOMAIN records'[g] = DOMAIN records[g] /\ Len(records'[g]) = Len(records[g])
  BY <1>5, <1>6
<1>8. \A g \in Fingerprint : \A m \in 1 .. Len(records[g]) :
        (g # f \/ m # n) => records'[g][m] = records[g][m]
  BY <1>5, <1>6
<1>9. records'[f][n] = r
  BY <1>5, <1>6
<1> QED BY <1>1, <1>3, <1>7, <1>8, <1>9 DEF f, n

\* A leader goes on to another step, and the other calls stay where they are.
LEMMA LeaderCall ==
  ASSUME Core, NEW c \in Caller, NEW t, NEW s \in Leading, At(c, t, s)
  PROVE  /\ call[c].step = t /\ call'[c].step = s
         /\ call'[c].fp = call[c].fp /\ call'[c].attempt = call[c].attempt
         /\ \A d \in Caller : d # c => call'[d] = call[d]
<1>1. call[c] \in Call /\ call \in [Caller -> Call]
  BY DEF Core, CoreTypes
<1>2. call[c].step = t /\ call' = [call EXCEPT ![c].step = s]
  BY DEF At, GoTo
<1>3. call'[c] = [call[c] EXCEPT !.step = s] /\ \A d \in Caller : d # c => call'[d] = call[d]
  BY <1>1, <1>2
<1> QED BY <1>1, <1>2, <1>3 DEF Call

\* The fates after a step of one leader: the others lead other fingerprints.
LEMMA FatesAfter ==
  ASSUME Core, Fates, NEW c \in Caller, Leads(c),
         \A d \in Caller : d # c => call'[d] = call[d],
         \A g \in Fingerprint : Len(records'[g]) = Len(records[g]),
         \A g \in Fingerprint : \A m \in 1 .. Len(records[g]) :
           (g # call[c].fp \/ m # call[c].attempt) => records'[g][m] = records[g][m],
         \A g \in Fingerprint : g # call[c].fp => posts'[g] = posts[g],
         call'[c].step \in Leading => FateOf(c)',
         records'[call[c].fp][call[c].attempt].done =>
           records'[call[c].fp][call[c].attempt].phase \in Verdicts
  PROVE  Fates'
<1>1. /\ call[c].fp \in Fingerprint /\ call[c].attempt = Len(records[call[c].fp])
  BY DEF Core, LeaderInv
<1>2. ASSUME NEW d \in Caller, call'[d].step \in Leading PROVE FateOf(d)'
  <2>1. CASE d = c
    BY <1>2, <2>1
  <2>2. CASE d # c
    <3>1. call'[d] = call[d] /\ Leads(d)
      BY <1>2, <2>2 DEF Leads
    <3>2. /\ call[d].fp \in Fingerprint /\ call[d].fp # call[c].fp
          /\ call[d].attempt = Len(records[call[d].fp]) /\ call[d].attempt \in Attempt
      BY <2>2, <3>1 DEF Core, LeaderInv, OneLeader
    <3>3. call[d].attempt \in 1 .. Len(records[call[d].fp])
      BY <3>2, Counted, ConstantsAssumption DEF Attempt, Core
    <3>4. records'[call[d].fp][call[d].attempt] = records[call[d].fp][call[d].attempt]
      BY <3>2, <3>3
    <3>5. posts'[call[d].fp] = posts[call[d].fp] /\ FateOf(d)
      BY <3>1, <3>2 DEF Fates
    <3> QED BY <3>1, <3>4, <3>5 DEF FateOf, mine
  <2> QED BY <2>1, <2>2
<1>3. ASSUME NEW g \in Fingerprint, NEW m \in 1 .. Len(records'[g])
      PROVE  /\ records'[g][m].done => records'[g][m].phase \in Verdicts
             /\ m # Len(records'[g]) => records'[g][m].phase = "FAILED_PRE_SUBMIT"
  <2>1. m \in 1 .. Len(records[g]) /\ Len(records'[g]) = Len(records[g])
    BY <1>3
  <2>2. CASE g = call[c].fp /\ m = call[c].attempt
    BY <1>1, <2>1, <2>2
  <2>3. CASE g # call[c].fp \/ m # call[c].attempt
    <3>1. records'[g][m] = records[g][m]
      BY <2>1, <2>3
    <3> QED BY <2>1, <3>1 DEF Fates
  <2> QED BY <2>2, <2>3
<1> QED BY <1>2, <1>3 DEF Fates, Leads

\* A leader that neither submits nor sets its event is not seen.
LEMMA LeaderUnseen ==
  ASSUME Core, Fates, NEW c \in Caller, NEW t \in Leading, NEW s \in Leading, At(c, t, s),
         NEW r \in Record, ~ r.done, SetRecord(c, r), posts' = posts,
         s \in Beyond => t \in Beyond,
         s = "done" => r.phase \in Verdicts /\ (r.phase = "FAILED_PRE_SUBMIT" \/ t \in Beyond)
  PROVE  Stutters /\ Fates'
<1> DEFINE f == call[c].fp
           n == call[c].attempt
<1>1. /\ call[c].step = t /\ call'[c].step = s /\ call'[c].fp = f /\ call'[c].attempt = n
      /\ \A d \in Caller : d # c => call'[d] = call[d]
  BY LeaderCall
<1>2. Leads(c) /\ f \in Fingerprint /\ ~ mine(c).done
  BY <1>1 DEF Leads, Core, LeaderInv
<1>3. /\ n \in 1 .. Len(records[f]) /\ n = Len(records[f])
      /\ records'[f][n] = r
      /\ \A g \in Fingerprint : DOMAIN records'[g] = DOMAIN records[g]
      /\ \A g \in Fingerprint : Len(records'[g]) = Len(records[g])
      /\ \A g \in Fingerprint : \A m \in 1 .. Len(records[g]) :
           (g # f \/ m # n) => records'[g][m] = records[g][m]
  BY <1>2, RecordSet
<1>4. ~ records[f][n].done
  BY <1>2 DEF mine
<1>5. FateOf(c) /\ posts'[f] = posts[f]
  BY <1>2 DEF Fates
<1> HIDE DEF f, n
<1>6. ASSUME NEW g \in Fingerprint, NEW m \in DOMAIN records[g]
      PROVE  VerdictOf(records'[g][m]) = VerdictOf(records[g][m])
  <2>1. m \in 1 .. Len(records[g])
    BY <1>6, Counted DEF Core
  <2> QED BY <1>3, <1>4, <2>1 DEF VerdictOf
<1>7. SameRecords
  BY <1>3, <1>6 DEF SameRecords, VerdictsOf
<1>8. SameTold
  <2>1. \A d \in Caller : Said(call'[d]) = Said(call[d])
    BY <1>1, Steps DEF Said
  <2> QED BY <2>1 DEF SameTold, ToldBy
<1>9. FateOf(c)'
  BY <1>1, <1>3, <1>5 DEF FateOf, mine, f, n
<1>10. Fates'
  <2>1. \A g \in Fingerprint : posts'[g] = posts[g]
    OBVIOUS
  <2>2. records'[f][n].done => records'[f][n].phase \in Verdicts
    BY <1>3
  <2> QED BY <1>1, <1>2, <1>3, <1>9, <2>1, <2>2, FatesAfter DEF f, n
<1> QED BY <1>7, <1>8, <1>10 DEF Stutters

\* Nor is one that leaves its record alone.
LEMMA LeaderIdles ==
  ASSUME Core, Fates, NEW c \in Caller, NEW t \in Leading, NEW s \in Leading, At(c, t, s),
         records' = records, posts' = posts,
         s \in Beyond => t \in Beyond,
         s = "done" =>
           \A p \in PhasesAt(t) : p \in Verdicts /\ (p = "FAILED_PRE_SUBMIT" \/ t \in Beyond)
  PROVE  Stutters /\ Fates'
<1>1. Leads(c) /\ call[c].step = t
  BY DEF At, Leads
<1>2. /\ call[c].fp \in Fingerprint /\ mine(c) \in Record /\ mine(c).phase \in PhasesAt(t)
      /\ ~ mine(c).done
  BY <1>1, LeaderFacts DEF Core, LeaderInv
<1>3. SetRecord(c, mine(c))
  <2>1. records \in [Fingerprint -> Seq(Record)] /\ records[call[c].fp] \in Seq(Record)
    BY <1>2 DEF Core, CoreTypes
  <2>2. [records[call[c].fp] EXCEPT ![call[c].attempt] = mine(c)] = records[call[c].fp]
    BY <2>1 DEF mine
  <2>3. records = [records EXCEPT ![call[c].fp] =
                     [records[call[c].fp] EXCEPT ![call[c].attempt] = mine(c)]]
    BY <1>2, <2>1, <2>2
  <2> QED BY <2>3 DEF SetRecord
<1> QED BY <1>2, <1>3, LeaderUnseen

\* The step that posts is the attempt's submit.
LEMMA PostIsSubmit ==
  ASSUME Core, Fates, NEW c \in Caller, Submit(c)
  PROVE  Seen /\ Fates'
<1> DEFINE f == call[c].fp
           n == call[c].attempt
<1>1. PICK s \in {"acknowledged", "uncertain"} : At(c, "submit", s)
  BY DEF Submit
<1>2. /\ call[c].step = "submit" /\ call'[c].step = s /\ call'[c].fp = f
      /\ \A d \in Caller : d # c => call'[d] = call[d]
  BY <1>1, LeaderCall, LeadingSteps
<1>3. /\ Leads(c) /\ f \in Fingerprint /\ n = Len(records[f]) /\ ~ mine(c).done
      /\ posts[f] = <<>> /\ posts \in [Fingerprint -> Seq(Attempt)] /\ n \in Attempt
      /\ mine(c) = last(f)
  BY <1>2, LeaderFacts, LeadingSteps DEF Leads, Core, CoreTypes, LeaderInv
<1>4. records' = records /\ posts' = [posts EXCEPT ![f] = Append(@, n)]
  BY DEF Submit
<1>5. posts' = [posts EXCEPT ![f] = <<n>>]
  BY <1>3, <1>4
<1> HIDE DEF f, n
<1>6. posts'[f] # <<>> /\ \A g \in Fingerprint : g # f => posts'[g] = posts[g]
  BY <1>3, <1>5
<1>7. SameTold
  <2>1. \A d \in Caller : Said(call'[d]) = Said(call[d])
    BY <1>2, Steps, LeadingSteps DEF Said
  <2> QED BY <2>1 DEF SameTold, ToldBy
<1>8. n # 0
  BY <1>3, ConstantsAssumption DEF Attempt
<1>9. Submits(f)
  BY <1>3, <1>4, <1>5, <1>7, <1>8 DEF Submits, IsOpen, SameRecords
<1>10. FateOf(c)'
  BY <1>2, <1>6 DEF FateOf
<1>11. Fates'
  <2>1. records'[f][n].done => records'[f][n].phase \in Verdicts
    BY <1>3, <1>4 DEF mine, f, n
  <2> QED BY <1>2, <1>3, <1>4, <1>6, <1>10, <2>1, FatesAfter DEF f, n
<1> QED BY <1>3, <1>9, <1>11 DEF Seen

\* Setting the event settles the attempt, and tells its leader.
LEMMA EventSettles ==
  ASSUME Core, Fates, NEW c \in Caller, Done(c)
  PROVE  Seen /\ Fates'
<1> DEFINE f == call[c].fp
           n == call[c].attempt
           v == mine(c).phase
           r == [mine(c) EXCEPT !.done = TRUE]
<1>1. call[c].step = "done" /\ Leads(c) /\ SetRecord(c, r) /\ posts' = posts
  BY LeadingSteps DEF Done, Leads
<1>2. /\ f \in Fingerprint /\ n = Len(records[f]) /\ ~ mine(c).done /\ mine(c) \in Record
      /\ posts[f] # <<>> => v \in Submitted
      /\ mine(c) = last(f)
  BY <1>1, LeaderFacts DEF Core, LeaderInv
<1>3. /\ v \in Verdicts /\ (v = "FAILED_PRE_SUBMIT" \/ posts[f] # <<>>)
  BY <1>1 DEF Fates, FateOf
<1>4. r \in Record /\ r.done /\ r.phase = v
  BY <1>2 DEF Record
<1>5. /\ n \in 1 .. Len(records[f])
      /\ records'[f][n] = r
      /\ \A g \in Fingerprint : DOMAIN records'[g] = DOMAIN records[g]
      /\ \A g \in Fingerprint : Len(records'[g]) = Len(records[g])
      /\ \A g \in Fingerprint : \A m \in 1 .. Len(records[g]) :
           (g # f \/ m # n) => records'[g][m] = records[g][m]
  BY <1>1, <1>4, RecordSet
<1>6. call' = [call EXCEPT ![c] = Answered(f, n, v, mine(c).result, TRUE)]
  <2>1. call' = [call EXCEPT ![c] = Answered(call[c].fp, call[c].attempt, mine(c).phase,
                                             mine(c).result, TRUE)]
    BY DEF Done
  <2> QED BY <2>1
<1> HIDE DEF f, n, v, r
<1>7. /\ call'[c].step = "returned" /\ Said(call'[c]) = <<f, n, v>>
      /\ \A d \in Caller : d # c => call'[d] = call[d]
  <2>1. call \in [Caller -> Call]
    BY DEF Core, CoreTypes
  <2> QED BY <1>6, <2>1 DEF Answered, Said
<1>8. ToldBy(call') = [ToldBy(call) EXCEPT ![c] = <<f, n, v>>]
  BY <1>7 DEF ToldBy
<1>9. VerdictsOf(records') = [VerdictsOf(records) EXCEPT ![f][n] = v]
  <2>1. DOMAIN records[f] = 1 .. Len(records[f]) /\ DOMAIN records'[f] = 1 .. Len(records[f])
    BY <1>2, <1>5, Counted DEF Core
  <2>2. VerdictsOf(records)[f] = [m \in 1 .. Len(records[f]) |-> VerdictOf(records[f][m])]
    BY <1>2, Counted DEF Core
  <2>3. VerdictsOf(records')[f] = [m \in 1 .. Len(records[f]) |-> VerdictOf(records'[f][m])]
    BY <1>2, <2>1 DEF VerdictsOf
  <2>4. VerdictOf(r) = v
    BY <1>4 DEF VerdictOf
  <2>5. VerdictsOf(records')[f] = [VerdictsOf(records)[f] EXCEPT ![n] = v]
    BY <1>2, <1>5, <2>2, <2>3, <2>4
  <2>6. ASSUME NEW g \in Fingerprint, g # f PROVE VerdictsOf(records')[g] = VerdictsOf(records)[g]
    <3>1. \A m \in DOMAIN records[g] : records'[g][m] = records[g][m]
      BY <1>5, <2>6, Counted DEF Core
    <3> QED BY <1>5, <3>1 DEF VerdictsOf
  <2>7. /\ VerdictsOf(records) = [g \in Fingerprint |-> VerdictsOf(records)[g]]
        /\ VerdictsOf(records') = [g \in Fingerprint |-> VerdictsOf(records')[g]]
    BY DEF VerdictsOf
  <2> DEFINE old == VerdictsOf(records)
             new == VerdictsOf(records')
  <2> HIDE DEF old, new
  <2>8. new = [old EXCEPT ![f] = [old[f] EXCEPT ![n] = v]]
    BY <1>2, <2>5, <2>6, <2>7 DEF old, new
  <2> QED BY <2>8 DEF old, new
<1>10. IsOpen(f)
  BY <1>2, <1>5, Counted DEF IsOpen, Core
<1>11. v = "FAILED_PRE_SUBMIT" <=> posts[f] = <<>>
  BY <1>2, <1>3, SubmittedPhases
<1>12. Settles(c, f, v)
  BY <1>1, <1>2, <1>8, <1>9, <1>10, <1>11 DEF Settles
<1>13. Fates'
  <2>1. records'[f][n].phase \in Verdicts
    BY <1>3, <1>4, <1>5
  <2>2. call'[c].step \notin Leading
    BY <1>7, Steps
  <2> QED BY <1>1, <1>5, <1>7, <2>1, <2>2, FatesAfter DEF f, n
<1> QED BY <1>2, <1>3, <1>12, <1>13 DEF Seen

\* A leader's step that changes its record's phase is not seen.
LEMMA PhaseUnseen ==
  ASSUME Core, Fates, NEW c \in Caller, NEW t \in Leading, NEW s \in Leading, At(c, t, s),
         NEW p \in Phase, NEW b \in BOOLEAN, posts' = posts,
         \/ SetRecord(c, [mine(c) EXCEPT !.phase = p])
         \/ SetRecord(c, [mine(c) EXCEPT !.phase = p, !.result = b]),
         s \in Beyond => t \in Beyond,
         s = "done" => p \in Verdicts /\ (p = "FAILED_PRE_SUBMIT" \/ t \in Beyond)
  PROVE  Stutters /\ Fates'
<1>1. Leads(c)
  BY DEF At, Leads
<1>2. mine(c) \in Record /\ ~ mine(c).done
  BY <1>1, LeaderFacts DEF Core, LeaderInv
<1>3. PICK r \in Record : r.phase = p /\ ~ r.done /\ SetRecord(c, r)
  <2>1. CASE SetRecord(c, [mine(c) EXCEPT !.phase = p])
    <3>1. PICK old \in Record : old = mine(c)
      BY <1>2
    <3>2. PICK new \in Record : new = [old EXCEPT !.phase = p]
      BY DEF Record
    <3>3. new.phase = p /\ ~ new.done
      BY <1>2, <3>1, <3>2 DEF Record
    <3> QED BY <2>1, <3>1, <3>2, <3>3
  <2>2. CASE SetRecord(c, [mine(c) EXCEPT !.phase = p, !.result = b])
    <3>1. PICK old \in Record : old = mine(c)
      BY <1>2
    <3>2. PICK new \in Record : new = [old EXCEPT !.phase = p, !.result = b]
      BY DEF Record
    <3>3. new.phase = p /\ ~ new.done
      BY <1>2, <3>1, <3>2 DEF Record
    <3> QED BY <2>2, <3>1, <3>2, <3>3
  <2> QED BY <2>1, <2>2
<1> QED BY <1>3, LeaderUnseen

\* A call that leads nothing changes places, and no record changes.
LEMMA CallFates ==
  ASSUME Core, Fates, NEW c \in Caller, NEW v, v.step \notin Leading,
         call' = [call EXCEPT ![c] = v], records' = records, posts' = posts
  PROVE  /\ SameRecords /\ Fates'
         /\ Said(v) = Said(call[c]) => Stutters
         /\ ToldBy(call') = [ToldBy(call) EXCEPT ![c] = Said(v)]
<1>1. call'[c] = v /\ \A d \in Caller : d # c => call'[d] = call[d]
  BY DEF Core, CoreTypes
<1>2. SameRecords
  BY DEF SameRecords
<1>3. ToldBy(call') = [ToldBy(call) EXCEPT ![c] = Said(v)]
  <2> DEFINE old == ToldBy(call)
             new == ToldBy(call')
  <2>1. /\ old = [d \in Caller |-> old[d]] /\ new = [d \in Caller |-> new[d]]
        /\ new[c] = Said(v) /\ \A d \in Caller : d # c => new[d] = old[d]
    BY <1>1 DEF ToldBy
  <2> HIDE DEF old, new
  <2>2. new = [old EXCEPT ![c] = Said(v)]
    BY <2>1
  <2> QED BY <2>2 DEF old, new
<1>4. Said(v) = Said(call[c]) => SameTold
  BY <1>1 DEF SameTold, ToldBy
<1>5. ASSUME NEW d \in Caller, call'[d].step \in Leading PROVE FateOf(d)'
  <2>1. call'[d] = call[d] /\ Leads(d)
    BY <1>1, <1>5 DEF Leads
  <2>2. FateOf(d)
    BY <2>1 DEF Fates
  <2> QED BY <2>1, <2>2 DEF FateOf, mine
<1>6. Fates'
  BY <1>5 DEF Fates, Leads
<1> QED BY <1>2, <1>3, <1>4, <1>6 DEF Stutters

\* A new leader's record is another attempt: all before failed without a submit.
LEMMA LeadAttempts ==
  ASSUME Core, Fates, NEW c \in Caller, NEW f \in Fingerprint, NEW allowReopen \in BOOLEAN,
         call[c].step = "idle", Lead(c, f, allowReopen), posts' = posts
  PROVE  Attempts(f) /\ Fates'
<1> DEFINE k == Len(records[f])
           n == k + 1
           v == [Idle EXCEPT !.step = "reserve", !.fp = f, !.attempt = n]
<1>1. /\ records \in [Fingerprint -> Seq(Record)] /\ records[f] \in Seq(Record) /\ k \in Nat
      /\ DOMAIN records[f] = 1 .. k /\ call \in [Caller -> Call]
      /\ VerdictsOf(records)[f] = [m \in 1 .. k |-> VerdictOf(records[f][m])]
      /\ VerdictsOf(records)[f] \in Seq(Phase) /\ Len(VerdictsOf(records)[f]) = k
  BY Counted DEF Core, CoreTypes
<1>2. /\ records' = [records EXCEPT ![f] = Append(@, NewRecord)]
      /\ call' = [call EXCEPT ![c] = v]
      /\ records[f] # <<>> => Reopens(f)
  BY DEF Lead
<1>3. NewRecord \in Record /\ ~ NewRecord.done /\ VerdictOf(NewRecord) = "OPEN"
  BY Steps DEF NewRecord, Record, VerdictOf
<1>4. v.step = "reserve" /\ Said(v) = <<>> /\ Said(call[c]) = <<>>
  BY DEF Idle, Said
<1> HIDE DEF v
<1>5. /\ call'[c] = v /\ \A d \in Caller : d # c => call'[d] = call[d]
  BY <1>1, <1>2
<1>6. /\ records'[f] = Append(records[f], NewRecord)
      /\ \A g \in Fingerprint : g # f => records'[g] = records[g]
  BY <1>1, <1>2
<1>7. /\ records'[f] \in Seq(Record) /\ Len(records'[f]) = n /\ DOMAIN records'[f] = 1 .. n
      /\ records'[f][n] = NewRecord
      /\ \A m \in 1 .. k : records'[f][m] = records[f][m]
  BY <1>1, <1>3, <1>6
<1>8. \A m \in 1 .. k : records[f][m].done /\ records[f][m].phase = "FAILED_PRE_SUBMIT"
  <2>1. ASSUME k # 0 PROVE records[f][k].done /\ records[f][k].phase = "FAILED_PRE_SUBMIT"
    BY <1>1, <1>2, <2>1 DEF Reopens, last
  <2> QED BY <1>1, <2>1 DEF Core, RecordInv, Fates
<1>9. \A m \in DOMAIN VerdictsOf(records)[f] : VerdictsOf(records)[f][m] = "FAILED_PRE_SUBMIT"
  BY <1>1, <1>8 DEF VerdictOf
<1>10. VerdictsOf(records') = [VerdictsOf(records) EXCEPT ![f] = Append(@, "OPEN")]
  <2> DEFINE old == VerdictsOf(records)
             new == VerdictsOf(records')
  <2>1. new[f] = [m \in 1 .. n |-> VerdictOf(records'[f][m])]
    BY <1>7 DEF VerdictsOf
  <2>2. \A g \in Fingerprint : g # f => new[g] = old[g]
    BY <1>6 DEF VerdictsOf
  <2>3. old = [g \in Fingerprint |-> old[g]] /\ new = [g \in Fingerprint |-> new[g]]
    BY DEF VerdictsOf
  <2> HIDE DEF old, new
  <2>4. /\ old[f] = [m \in 1 .. k |-> VerdictOf(records[f][m])]
        /\ old[f] \in Seq(Phase) /\ Len(old[f]) = k
    BY <1>1 DEF old
  <2>5. "OPEN" \in Phase
    BY Steps
  <2>6. new[f] = Append(old[f], "OPEN")
    <3>1. /\ Append(old[f], "OPEN") \in Seq(Phase) /\ Len(Append(old[f], "OPEN")) = n
          /\ Append(old[f], "OPEN")[n] = "OPEN"
          /\ \A m \in 1 .. k : Append(old[f], "OPEN")[m] = old[f][m]
      BY <1>1, <2>4, <2>5
    <3>2. Append(old[f], "OPEN") = [m \in 1 .. n |-> Append(old[f], "OPEN")[m]]
      BY <3>1
    <3>3. \A m \in 1 .. n : VerdictOf(records'[f][m]) = Append(old[f], "OPEN")[m]
      BY <1>1, <1>3, <1>7, <2>4, <3>1
    <3> QED BY <2>1, <3>2, <3>3
  <2>7. new = [old EXCEPT ![f] = Append(old[f], "OPEN")]
    BY <2>2, <2>3, <2>6
  <2> QED BY <2>7 DEF old, new
<1>11. SameTold
  <2>1. \A d \in Caller : Said(call'[d]) = Said(call[d])
    BY <1>4, <1>5
  <2> QED BY <2>1 DEF SameTold, ToldBy
<1>12. ASSUME NEW d \in Caller, call'[d].step \in Leading PROVE FateOf(d)'
  <2>1. CASE d = c
    BY <1>4, <1>5, <2>1 DEF FateOf, Beyond
  <2>2. CASE d # c
    <3>1. call'[d] = call[d] /\ Leads(d)
      BY <1>5, <1>12, <2>2 DEF Leads
    <3>2. /\ call[d].fp \in Fingerprint /\ call[d].attempt = Len(records[call[d].fp])
          /\ call[d].attempt \in Attempt /\ ~ mine(d).done
      BY <3>1 DEF Core, LeaderInv
    <3>3. call[d].fp # f
      <4> SUFFICES ASSUME call[d].fp = f PROVE FALSE
        OBVIOUS
      <4>1. k \in 1 .. k
        BY <1>1, <3>2, ConstantsAssumption DEF Attempt
      <4> QED BY <1>8, <3>2, <4>1 DEF mine
    <3>4. records'[call[d].fp] = records[call[d].fp] /\ FateOf(d)
      BY <1>6, <3>1, <3>2, <3>3 DEF Fates
    <3> QED BY <3>1, <3>4 DEF FateOf, mine
  <2> QED BY <2>1, <2>2
<1>13. ASSUME NEW g \in Fingerprint, NEW m \in 1 .. Len(records'[g])
       PROVE  /\ records'[g][m].done => records'[g][m].phase \in Verdicts
              /\ m # Len(records'[g]) => records'[g][m].phase = "FAILED_PRE_SUBMIT"
  <2>1. CASE g # f
    BY <1>6, <1>13, <2>1 DEF Fates
  <2>2. CASE g = f
    <3>1. CASE m = n
      BY <1>3, <1>7, <2>2, <3>1
    <3>2. CASE m # n
      <4>1. m \in 1 .. k
        BY <1>1, <1>7, <1>13, <2>2, <3>2
      <4> QED BY <1>7, <1>8, <2>2, <4>1 DEF Verdicts
    <3> QED BY <3>1, <3>2
  <2> QED BY <2>1, <2>2
<1>14. Fates'
  BY <1>12, <1>13 DEF Fates, Leads
<1> QED BY <1>9, <1>10, <1>11, <1>14 DEF Attempts

\* A joiner that reads the records again, or the event, is told of an attempt that
\* is settled, or of nothing.
LEMMA JoinerSeen ==
  ASSUME Core, Fates, NEW c \in Caller, LookUp(c) \/ Awake(c) \/ WaitTimesOut(c) \/ Leave(c)
  PROVE  Seen /\ Fates'
<1>1. CASE LookUp(c)
  <2> DEFINE v == [call[c] EXCEPT !.step = "await", !.attempt = Len(records[call[c].fp])]
  <2>1. call[c] \in Call /\ call \in [Caller -> Call] /\ call[c].step = "join"
    BY <1>1 DEF LookUp, Core, CoreTypes
  <2>2. call' = [call EXCEPT ![c] = v] /\ records' = records /\ posts' = posts
    BY <1>1, <2>1 DEF LookUp
  <2>3. v.step = "await"
    BY <2>1 DEF Call
  <2>4. Said(v) = <<>> /\ Said(call[c]) = <<>>
    BY <2>1, <2>3 DEF Said
  <2> HIDE DEF v
  <2> QED BY <2>2, <2>3, <2>4, Steps, CallFates DEF Seen
<1>2. CASE Awake(c)
  <2> DEFINE f == call[c].fp
             n == call[c].attempt
             v == Answered(call[c].fp, call[c].attempt, mine(c).phase, mine(c).result, TRUE)
  <2>1. call[c].step = "await" /\ mine(c).done
    BY <1>2 DEF Awake
  <2>2. f \in Fingerprint /\ n \in 1 .. Len(records[f])
    BY <2>1 DEF Core, JoinerInv
  <2>3. mine(c).phase \in Verdicts /\ mine(c) = records[f][n]
    BY <2>1, <2>2 DEF Fates, mine
  <2>4. VerdictsOf(records)[f][n] = mine(c).phase /\ mine(c).phase # "OPEN"
    <3>1. VerdictsOf(records)[f][n] = VerdictOf(records[f][n])
      BY <2>2, Counted DEF Core
    <3> QED BY <2>1, <2>3, <3>1 DEF VerdictOf, Verdicts
  <2>5. v.step = "returned" /\ Said(v) = <<f, n, mine(c).phase>>
    BY DEF Answered, Said
  <2>6. call' = [call EXCEPT ![c] = v] /\ records' = records /\ posts' = posts
    BY <1>2 DEF Awake
  <2> HIDE DEF v, f, n
  <2>7. /\ SameRecords /\ Fates'
        /\ ToldBy(call') = [ToldBy(call) EXCEPT ![c] = <<f, n, mine(c).phase>>]
    BY <2>5, <2>6, Steps, CallFates
  <2>8. Tells(c, f, n)
    BY <2>4, <2>6, <2>7 DEF Tells
  <2> QED BY <2>2, <2>7, <2>8 DEF Seen
<1>3. CASE WaitTimesOut(c)
  <2> DEFINE v == Answered(call[c].fp, call[c].attempt, mine(c).phase, FALSE, FALSE)
  <2>1. call[c].step = "await" /\ call' = [call EXCEPT ![c] = v]
        /\ records' = records /\ posts' = posts
    BY <1>3 DEF WaitTimesOut
  <2>2. v.step = "returned" /\ Said(v) = <<>> /\ Said(call[c]) = <<>>
    BY <2>1 DEF Answered, Said
  <2> HIDE DEF v
  <2> QED BY <2>1, <2>2, Steps, CallFates DEF Seen
<1>4. CASE Leave(c)
  <2>1. call' = [call EXCEPT ![c] = Idle] /\ records' = records /\ posts' = posts
    BY <1>4 DEF Leave
  <2>2. Idle.step = "idle" /\ Said(Idle) = <<>>
    BY DEF Idle, Said
  <2>3. SameRecords /\ Fates' /\ ToldBy(call') = [ToldBy(call) EXCEPT ![c] = <<>>]
    BY <2>1, <2>2, Steps, CallFates
  <2> QED BY <2>1, <2>3 DEF Seen, Forgets
<1> QED BY <1>1, <1>2, <1>3, <1>4

\* A leader submits, settles, or is not seen.
LEMMA LeaderSeen ==
  ASSUME Core, Fates, NEW c \in Caller, Run(c), ~ LookUp(c), ~ Awake(c)
  PROVE  Seen /\ Fates'
<1> USE LeadingSteps, PhasesAtEach
<1>1. CASE Reserve(c)
  BY <1>1, LeaderIdles DEF Reserve, Beyond, Verdicts, Seen
<1>2. CASE ReserveRefused(c)
  BY <1>2, LeaderIdles DEF ReserveRefused, Beyond, Verdicts, Seen
<1>3. CASE GiveUp(c)
  <2>1. /\ At(c, "give up", "fail job") /\ posts' = posts
        /\ SetRecord(c, [mine(c) EXCEPT !.phase = "FAILED_PRE_SUBMIT"])
    BY <1>3 DEF GiveUp
  <2>2. "FAILED_PRE_SUBMIT" \in Phase /\ "fail job" \notin Beyond
    BY DEF Phase, Beyond
  <2> QED BY <2>1, <2>2, PhaseUnseen DEF Seen
<1>4. CASE FailJob(c)
  BY <1>4, LeaderIdles DEF FailJob, Beyond, Verdicts, Seen
<1>5. CASE TakeSlot(c)
  <2>1. /\ At(c, "take slot", "submit") /\ posts' = posts
        /\ SetRecord(c, [mine(c) EXCEPT !.phase = "SUBMITTING"])
    BY <1>5 DEF TakeSlot
  <2>2. "SUBMITTING" \in Phase /\ "submit" \notin Beyond
    BY DEF Phase, Beyond
  <2> QED BY <2>1, <2>2, PhaseUnseen DEF Seen
<1>6. CASE Submit(c)
  BY <1>6, PostIsSubmit
<1>7. CASE MarkUncertain(c)
  <2>1. /\ At(c, "uncertain", "interrupt") /\ posts' = posts
        /\ SetRecord(c, [mine(c) EXCEPT !.phase = "UNKNOWN_VENDOR_STATE"])
    BY <1>7 DEF MarkUncertain
  <2>2. /\ "UNKNOWN_VENDOR_STATE" \in Phase /\ "uncertain" \in Leading /\ "interrupt" \in Leading
        /\ "interrupt" \in Beyond => "uncertain" \in Beyond
        /\ "interrupt" = "done" => "UNKNOWN_VENDOR_STATE" \in Verdicts /\ ("UNKNOWN_VENDOR_STATE" = "FAILED_PRE_SUBMIT" \/ "uncertain" \in Beyond)
    BY DEF Phase, Lost, Beyond
  <2>3. Stutters /\ Fates'
    BY <2>1, <2>2, PhaseUnseen
  <2> QED BY <2>3 DEF Seen
<1>8. CASE Interrupt(c)
  <2>1. PICK s \in {"done", "lost"} : At(c, "interrupt", s)
    BY <1>8 DEF Interrupt
  <2>2. records' = records /\ posts' = posts
    BY <1>8 DEF Interrupt
  <2>3. "interrupt" \in Beyond /\ "UNKNOWN_VENDOR_STATE" \in Verdicts
    BY DEF Beyond, Verdicts
  <2> QED BY <2>1, <2>2, <2>3, LeaderIdles DEF Seen
<1>9. CASE PersistActivity(c)
  <2>1. /\ At(c, "acknowledged", "fetch") /\ posts' = posts
        /\ SetRecord(c, [mine(c) EXCEPT !.phase = "ACTIVITY_ID_PERSISTED"])
    BY <1>9 DEF PersistActivity
  <2>2. /\ "ACTIVITY_ID_PERSISTED" \in Phase /\ "acknowledged" \in Leading /\ "fetch" \in Leading
        /\ "fetch" \in Beyond => "acknowledged" \in Beyond
        /\ "fetch" = "done" => "ACTIVITY_ID_PERSISTED" \in Verdicts /\ ("ACTIVITY_ID_PERSISTED" = "FAILED_PRE_SUBMIT" \/ "acknowledged" \in Beyond)
    BY DEF Phase, Beyond
  <2>3. Stutters /\ Fates'
    BY <2>1, <2>2, PhaseUnseen
  <2> QED BY <2>3 DEF Seen
<1>10. CASE Fetch(c)
  <2>1. PICK s \in {"cache", "lost"} : At(c, "fetch", s)
    BY <1>10 DEF Fetch
  <2>2. records' = records /\ posts' = posts
    BY <1>10 DEF Fetch
  <2>3. "fetch" \in Beyond
    BY DEF Beyond
  <2> QED BY <2>1, <2>2, <2>3, LeaderIdles DEF Seen
<1>11. CASE CachePut(c)
  BY <1>11, LeaderIdles DEF CachePut, Beyond, Seen
<1>12. CASE Consume(c)
  BY <1>12, LeaderIdles DEF Consume, Beyond, Seen
<1>13. CASE ConsumeRaises(c)
  BY <1>13, LeaderIdles DEF ConsumeRaises, Beyond, Seen
<1>14. CASE Succeed(c)
  <2>1. /\ At(c, "succeed", "complete") /\ posts' = posts
        /\ SetRecord(c, [mine(c) EXCEPT !.phase = "SUCCEEDED", !.result = TRUE])
    BY <1>14 DEF Succeed
  <2>2. /\ "SUCCEEDED" \in Phase /\ "succeed" \in Leading /\ "complete" \in Leading
        /\ "complete" \in Beyond => "succeed" \in Beyond
        /\ "complete" = "done" => "SUCCEEDED" \in Verdicts /\ ("SUCCEEDED" = "FAILED_PRE_SUBMIT" \/ "succeed" \in Beyond)
    BY DEF Phase, Beyond
  <2>3. Stutters /\ Fates'
    BY <2>1, <2>2, PhaseUnseen
  <2> QED BY <2>3 DEF Seen
<1>15. CASE Complete(c)
  <2>1. PICK s \in {"done", "lost"} : At(c, "complete", s)
    BY <1>15 DEF Complete
  <2>2. records' = records /\ posts' = posts
    BY <1>15 DEF Complete
  <2>3. "complete" \in Beyond /\ "SUCCEEDED" \in Verdicts
    BY DEF Beyond, Verdicts
  <2> QED BY <2>1, <2>2, <2>3, LeaderIdles DEF Seen
<1>16. CASE Lose(c)
  <2>1. /\ At(c, "lost", "done") /\ posts' = posts
        /\ SetRecord(c, [mine(c) EXCEPT !.phase = "FAILED_POST_SUBMIT"])
    BY <1>16 DEF Lose
  <2>2. "FAILED_POST_SUBMIT" \in Phase /\ "FAILED_POST_SUBMIT" \in Verdicts /\ "lost" \in Beyond
    BY DEF Phase, Lost, Verdicts, Beyond
  <2> QED BY <2>1, <2>2, PhaseUnseen DEF Seen
<1>17. CASE Done(c)
  BY <1>17, EventSettles
<1> QED
  BY <1>1, <1>2, <1>3, <1>4, <1>5, <1>6, <1>7, <1>8, <1>9, <1>10, <1>11, <1>12, <1>13, <1>14,
     <1>15, <1>16, <1>17 DEF Run

\* A claim makes an attempt, or is not seen: who hits or recovers waited for nothing.
LEMMA ClaimSeen ==
  ASSUME Core, Fates, NEW c \in Caller, NEW f \in Fingerprint, Claim(c, f)
  PROVE  Seen /\ Fates'
<1>1. call[c].step = "idle" /\ posts' = posts /\ Said(call[c]) = <<>>
  BY DEF Claim, Said
<1>2. ASSUME NEW allowReopen \in BOOLEAN, Lead(c, f, allowReopen) PROVE Seen /\ Fates'
  BY <1>1, <1>2, LeadAttempts DEF Seen
<1>3. ASSUME NEW v, call' = [call EXCEPT ![c] = v], records' = records,
             v.step \notin Leading, Said(v) = <<>>
      PROVE  Seen /\ Fates'
  BY <1>1, <1>3, CallFates DEF Seen
<1>4. ASSUME NEW allowReopen \in BOOLEAN, Join(c, f, allowReopen) PROVE Seen /\ Fates'
  <2> DEFINE v == [Idle EXCEPT !.step = "join", !.fp = f]
  <2>1. call' = [call EXCEPT ![c] = v] /\ records' = records
    BY <1>4 DEF Join
  <2>2. v.step = "join" /\ Said(v) = <<>>
    BY DEF Idle, Said
  <2> HIDE DEF v
  <2> QED BY <1>3, <2>1, <2>2, Steps
<1>5. CASE Hit(c, f)
  <2> DEFINE v == Answered(f, Other, "SUCCEEDED", TRUE, FALSE)
  <2>1. call' = [call EXCEPT ![c] = v] /\ records' = records
    BY <1>5 DEF Hit
  <2>2. v.step = "returned" /\ Said(v) = <<>>
    BY DEF Answered, Said
  <2> HIDE DEF v
  <2> QED BY <1>3, <2>1, <2>2, Steps
<1>6. CASE Recover(c, f)
  <2> DEFINE v == Answered(f, Len(records[f]), last(f).phase, last(f).result, FALSE)
  <2>1. call' = [call EXCEPT ![c] = v] /\ records' = records
    BY <1>6 DEF Recover
  <2>2. v.step = "returned" /\ Said(v) = <<>>
    BY DEF Answered, Said
  <2> HIDE DEF v
  <2> QED BY <1>3, <2>1, <2>2, Steps
<1> QED BY <1>2, <1>4, <1>5, <1>6 DEF Claim

\* Every step is one of JoinedSubmit or is not seen, and keeps the fates.
LEMMA StepSeen == Core /\ Fates /\ [Next]_vars => Seen /\ Fates'
<1> SUFFICES ASSUME Core, Fates, [Next]_vars PROVE Seen /\ Fates'
  OBVIOUS
<1>1. ASSUME NEW c \in Caller, NEW f \in Fingerprint, Claim(c, f) PROVE Seen /\ Fates'
  BY <1>1, ClaimSeen
<1>2. ASSUME NEW c \in Caller, Run(c) \/ WaitTimesOut(c) \/ Leave(c) PROVE Seen /\ Fates'
  BY <1>2, JoinerSeen, LeaderSeen
<1>3. CASE UNCHANGED core
  <2>1. Stutters
    BY <1>3 DEF Stutters, SameRecords, SameTold, core
  <2>2. Fates'
    BY <1>3 DEF Fates, FateOf, Leads, mine, core
  <2> QED BY <2>1, <2>2 DEF Seen
<1>4. CASE \/ \E f \in Fingerprint : OtherReserves(f) \/ OtherReleases(f) \/ OtherConsumes(f)
           \/ PolicyEnds
           \/ UNCHANGED vars
  BY <1>3, <1>4 DEF OtherReserves, OtherReleases, OtherConsumes, PolicyEnds, vars, core
<1> QED BY <1>1, <1>2, <1>4 DEF Next

\* Nothing leads and nothing is recorded at first.
LEMMA InitFates == Init => Fates
<1> SUFFICES ASSUME Init PROVE Fates
  OBVIOUS
<1>1. \A c \in Caller : ~ Leads(c)
  BY Steps DEF Init, Idle, Leads
<1>2. \A f \in Fingerprint : records[f] = <<>> /\ Len(records[f]) = 0
  BY DEF Init
<1> QED BY <1>1, <1>2 DEF Fates

\* The invariant with which every step of the coordinator can be told in JoinedSubmit.
LEMMA FatesInvariant == Spec => [](Core /\ Fates)
<1>1. ASSUME Core, [Next]_vars PROVE Core'
  BY <1>1, ClaimKept, RunKept, JoinerKept, OthersKept DEF Next
<1> QED BY <1>1, CoreInit, InitFates, StepSeen, PTL DEF Spec

\* What the instance substitutes for the verdicts and for what callers were told.
LEMMA Mapped ==
  /\ VerdictsOf(records) =
       [f \in Fingerprint |->
          [n \in DOMAIN records[f] |-> IF records[f][n].done THEN records[f][n].phase ELSE "OPEN"]]
  /\ VerdictsOf(records') =
       [f \in Fingerprint |->
          [n \in DOMAIN records[f] |-> IF records[f][n].done THEN records[f][n].phase ELSE "OPEN"]]'
  /\ ToldBy(call) =
       [c \in Caller |-> IF call[c].step = "returned" /\ call[c].waited
                         THEN <<call[c].fp, call[c].attempt, call[c].phase>> ELSE <<>>]
  /\ ToldBy(call') =
       [c \in Caller |-> IF call[c].step = "returned" /\ call[c].waited
                         THEN <<call[c].fp, call[c].attempt, call[c].phase>> ELSE <<>>]'
BY DEF VerdictsOf, VerdictOf, ToldBy, Said

\* Before any claim there is no attempt, no submit, and nobody was told of one.
LEMMA InitMaps == Init => Joined!Init
<1> SUFFICES ASSUME Init PROVE Joined!Init
  OBVIOUS
<1>1. VerdictsOf(records) = [f \in Fingerprint |-> <<>>]
  BY DEF Init, VerdictsOf
<1>2. ToldBy(call) = [c \in Caller |-> <<>>]
  BY DEF Init, Idle, ToldBy, Said
<1>3. posts = [f \in Fingerprint |-> <<>>]
  BY DEF Init
<1> QED BY <1>1, <1>2, <1>3, Mapped DEF Joined!Init, Joined!Nothing

\* The attempt that is pending is the last record while its event is not set.
LEMMA PendingIsOpen ==
  ASSUME Core, NEW f \in Fingerprint
  PROVE  Joined!latest(f) = Len(records[f]) /\ (IsOpen(f) => Joined!Pending(f))
<1>1. /\ Len(VerdictsOf(records)[f]) = Len(records[f]) /\ Len(records[f]) \in Nat
      /\ VerdictsOf(records)[f] = [n \in 1 .. Len(records[f]) |-> VerdictOf(records[f][n])]
  BY Counted DEF Core
<1>2. Joined!latest(f) = Len(records[f])
  BY <1>1, Mapped DEF Joined!latest
<1>3. IsOpen(f) => VerdictsOf(records)[f][Len(records[f])] = "OPEN" /\ Len(records[f]) # 0
  BY <1>1 DEF IsOpen, last, VerdictOf
<1>4. IsOpen(f) => Joined!Pending(f)
  BY <1>2, <1>3, Mapped DEF Joined!Pending
<1> QED BY <1>2, <1>4

\* Every step of the coordinator is a step of JoinedSubmit, or a stutter.
LEMMA StepMaps == Core /\ Fates /\ [Next]_vars => [Joined!Next]_(Joined!vars)
<1> SUFFICES ASSUME Core, Fates, [Next]_vars PROVE [Joined!Next]_(Joined!vars)
  OBVIOUS
<1>1. CASE Stutters
  <2>1. UNCHANGED Joined!vars
    BY <1>1, Mapped DEF Stutters, SameRecords, SameTold, Joined!vars
  <2> QED BY <2>1
<1>2. ASSUME NEW f \in Fingerprint, Attempts(f) PROVE Joined!Next
  <2>1. Joined!Attempt(f)
    BY <1>2, Mapped DEF Attempts, SameTold, Joined!Attempt
  <2> QED BY <2>1 DEF Joined!Next
<1>3. ASSUME NEW f \in Fingerprint, Submits(f) PROVE Joined!Next
  <2>1. Joined!latest(f) = Len(records[f]) /\ Joined!Pending(f)
    BY <1>3, PendingIsOpen DEF Submits
  <2>2. Joined!Submit(f)
    BY <1>3, <2>1, Mapped DEF Submits, SameRecords, SameTold, Joined!Submit
  <2> QED BY <2>2 DEF Joined!Next
<1>4. ASSUME NEW f \in Fingerprint, NEW c \in Caller, NEW v \in Verdicts, Settles(c, f, v)
      PROVE  Joined!Next
  <2>1. Joined!latest(f) = Len(records[f]) /\ Joined!Pending(f)
    BY <1>4, PendingIsOpen DEF Settles
  <2>2. Joined!Settle(c, f, v)
    BY <1>4, <2>1, Mapped DEF Settles, Joined!Settle
  <2>3. v \in Joined!Verdict
    BY DEF Verdicts, Joined!Verdict
  <2> QED BY <2>2, <2>3 DEF Joined!Next
<1>5. ASSUME NEW f \in Fingerprint, NEW c \in Caller, NEW n \in 1 .. Len(records[f]), Tells(c, f, n)
      PROVE  Joined!Next
  <2>1. Joined!Tell(c, f, n)
    BY <1>5, Mapped DEF Tells, SameRecords, Joined!Tell
  <2>2. n \in DOMAIN VerdictsOf(records)[f]
    BY Counted DEF Core
  <2> QED BY <2>1, <2>2, Mapped DEF Joined!Next
<1>6. ASSUME NEW c \in Caller, Forgets(c) PROVE Joined!Next
  <2>1. Joined!Forget(c)
    BY <1>6, Mapped DEF Forgets, SameRecords, Joined!Forget, Joined!Nothing
  <2> QED BY <2>1 DEF Joined!Next
<1> QED BY <1>1, <1>2, <1>3, <1>4, <1>5, <1>6, StepSeen DEF Seen

\* The coordinator implements JoinedSubmit, for any callers, fingerprints, units
\* and number of records: a fingerprint is submitted once at most, another attempt
\* is made only when all before failed without a submit, and leader and joiners
\* are told the one verdict of an attempt, which tells whether it submitted.
THEOREM CoordinatorImplementsJoined == Spec => JoinedSpec
<1>1. Init => Joined!Init
  BY InitMaps
<1>2. Core /\ Fates /\ [Next]_vars => [Joined!Next]_(Joined!vars)
  BY StepMaps
<1> QED BY <1>1, <1>2, FatesInvariant, PTL DEF Spec, JoinedSpec, Joined!Spec
=============================================================================
