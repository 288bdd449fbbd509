------------------------ MODULE ActivityLedgerProofs ------------------------
(***************************************************************************)
(* What the activity-id ledger and its reconciler keep, for every set of   *)
(* workers, requests and ids: once a submit left, the binding says so.     *)
(***************************************************************************)
EXTENDS ActivityLedger, TLAPS

\* A binding as TypeOK wants it: id and attempt follow from the phase.
Sound(b) ==
  /\ b \in Binding
  /\ b.phase \in Resumable \cup {"RESULT_RECEIVED", "FAILED_POST_SUBMIT"} <=> b.id # NoId
  /\ b.attempted <=> b.phase \notin PreSubmit \cup {"NONE"}

\* The intent is durable before the submit leaves.
SubmitsAreRecorded == \A f \in Fingerprint : posts[f] > 0 => bindings[f].attempted

\* What a worker relies on after its last look at the ledger still holds.
Relies(w) ==
  /\ pc[w] \in {"submit", "note", "persist", "park"} => bindings[aim[w]].attempted
  /\ pc[w] \in {"note", "persist"} => hand[w] \in given[aim[w]]
  /\ pc[w] \in {"begin", "look", "resume", "poll", "succeed", "fail"} => bindings[aim[w]].id # NoId
WorkersRelyOnIt == \A w \in Worker : Relies(w)

IInv == TypeOK /\ IdsMapOneToOne /\ SubmitsAreRecorded /\ WorkersRelyOnIt

\* One binding's way forward: it stays sound, keeps its id, its verdict and its
\* attempt, and a new id is one the vendor gave for it and nobody holds.
Forward(f, b) ==
  /\ Sound(b)
  /\ Keeps(bindings[f], b)
  /\ bindings[f].attempted => b.attempted
  /\ b.id # NoId /\ b.id # bindings[f].id =>
       b.id \in given[f] /\ \A g \in Fingerprint \ {f} : bindings[g].id # b.id

\* A step either leaves the bindings alone or takes one of them forward.
Stores(f, b) == Forward(f, b) /\ bindings' = [bindings EXCEPT ![f] = b]

\* What every step does to the bindings.
Ahead ==
  /\ bindings' \in [Fingerprint -> Binding]
  /\ \A f \in Fingerprint : /\ Sound(bindings'[f])
                            /\ Keeps(bindings[f], bindings'[f])
                            /\ bindings[f].attempted => bindings'[f].attempted
  /\ IdsMapOneToOne'

\* Ids are only ever given, never taken back.
GivesIds ==
  /\ given' \in [Fingerprint -> SUBSET ActivityId]
  /\ \A f \in Fingerprint : given[f] \subseteq given'[f]

\* The sets of phases, written out for the provers.
LEMMA StringsDiffer ==
  /\ PreSubmit = {"REQUESTED", "VALIDATED", "ALLOWANCE_RESERVED"}
  /\ InWindow = {"SUBMITTING", "SUBMITTED"}
  /\ Resumable = {"ACTIVITY_ID_PERSISTED", "PROCESSING"}
BY DEF PreSubmit, InWindow, Resumable

\* What the type invariant says of one binding.
LEMMA Soundness ==
  ASSUME TypeOK, NEW f \in Fingerprint
  PROVE  Sound(bindings[f])
BY DEF TypeOK, Sound

\* A sound binding may always stay as it is.
LEMMA Staying ==
  ASSUME TypeOK, NEW f \in Fingerprint
  PROVE  Forward(f, bindings[f])
BY Soundness DEF Forward, Keeps

\* Publish is the only way a binding changes; what it needs to be a step forward.
LEMMA StoreKeeps ==
  ASSUME IInv, NEW f \in Fingerprint, NEW b, Stores(f, b), GivesIds
  PROVE  Ahead
<1>1. b \in Binding /\ bindings \in [Fingerprint -> Binding]
  BY DEF Stores, Forward, Sound, IInv, TypeOK
<1>2. bindings' = [bindings EXCEPT ![f] = b] /\ Forward(f, b)
  BY DEF Stores
<1>3. bindings' \in [Fingerprint -> Binding]
  BY <1>1, <1>2
<1>4. bindings'[f] = b /\ \A g \in Fingerprint \ {f} : bindings'[g] = bindings[g]
  BY <1>1, <1>2
<1>5. ASSUME NEW g \in Fingerprint
      PROVE  Sound(bindings'[g]) /\ Keeps(bindings[g], bindings'[g])
             /\ (bindings[g].attempted => bindings'[g].attempted)
  <2>1. CASE g = f
    BY <1>2, <1>4, <2>1 DEF Forward
  <2>2. CASE g # f
    <3>1. Forward(g, bindings[g])
      BY Staying DEF IInv
    <3> QED BY <1>4, <2>2, <3>1 DEF Forward
  <2> QED BY <2>1, <2>2
<1>6. IdsMapOneToOne'
  <2> USE DEF GivesIds
  <2> SUFFICES ASSUME NEW g \in Fingerprint, bindings'[g].id # NoId
               PROVE  /\ bindings'[g].id \in given'[g]
                      /\ \A h \in Fingerprint \ {g} : bindings'[h].id # bindings'[g].id
    BY DEF IdsMapOneToOne
  <2>1. IdsMapOneToOne
    BY DEF IInv
  <2>2. b.id # NoId => b.id \in given[f] /\ \A h \in Fingerprint \ {f} : bindings[h].id # b.id
    BY <1>2, <2>1 DEF Forward, IdsMapOneToOne
  <2>3. CASE g = f
    BY <1>4, <2>2, <2>3
  <2>4. CASE g # f
    BY <1>4, <2>1, <2>2, <2>4 DEF IdsMapOneToOne
  <2> QED BY <2>3, <2>4
<1> QED BY <1>3, <1>5, <1>6 DEF Ahead

\* A step that stores nothing, or takes one binding forward.
LEMMA StepKeeps ==
  ASSUME IInv, GivesIds,
         UNCHANGED bindings \/ \E f \in Fingerprint, b \in Binding : Stores(f, b)
  PROVE  Ahead
<1>1. CASE UNCHANGED bindings
  <2>1. \A f \in Fingerprint : Sound(bindings[f]) /\ Keeps(bindings[f], bindings[f])
    BY Soundness DEF IInv, Keeps
  <2>2. bindings \in [Fingerprint -> Binding] /\ IdsMapOneToOne
    BY DEF IInv, TypeOK
  <2>3. IdsMapOneToOne'
    BY <1>1, <2>2 DEF IdsMapOneToOne, GivesIds
  <2> QED BY <1>1, <2>1, <2>2, <2>3 DEF Ahead
<1>2. CASE \E f \in Fingerprint, b \in Binding : Stores(f, b)
  BY <1>2, StoreKeeps
<1> QED BY <1>1, <1>2

-----------------------------------------------------------------------------
(* Every action leaves the bindings alone or takes one of them forward.    *)

\* A caller that opens or joins a binding stores at most one legal successor of one binding.
LEMMA Opening ==
  ASSUME IInv, NEW w \in Worker, NEW f \in Fingerprint, OpenOrJoin(w, f)
  PROVE  UNCHANGED bindings \/ \E g \in Fingerprint, b \in Binding : Stores(g, b)
<1>1. CASE bindings[f] # Absent
  BY <1>1 DEF OpenOrJoin
<1>2. CASE bindings[f] = Absent
  <2>1. PICK phase \in PreSubmit :
          bindings' = [bindings EXCEPT ![f] = [bindings[f] EXCEPT !.phase = phase]]
    BY <1>2 DEF OpenOrJoin
  <2> DEFINE b == [bindings[f] EXCEPT !.phase = phase]
  <2>2. bindings[f].id = NoId /\ bindings[f].phase = "NONE"
    BY <1>2 DEF Absent
  <2>3. Sound(bindings[f]) /\ ~bindings[f].attempted
    BY <2>2, Soundness DEF IInv, Sound
  <2>4. b \in Binding /\ b.phase = phase /\ b.attempted = bindings[f].attempted /\ b.id = NoId
    BY <2>2, <2>3, StringsDiffer DEF Sound, Binding, Phase
  <2>5. Sound(b)
    BY <2>3, <2>4, StringsDiffer DEF Sound
  <2>6. Forward(f, b)
    BY <2>2, <2>3, <2>4, <2>5 DEF Forward, Keeps
  <2> QED BY <2>1, <2>4, <2>6 DEF Stores
<1> QED BY <1>1, <1>2

\* mark_submitting: one legal successor, and who goes on to submit left `attempted` behind.
LEMMA Marking ==
  ASSUME IInv, NEW w \in Worker, MarkSubmitting(w)
  PROVE  /\ UNCHANGED bindings \/ \E g \in Fingerprint, b \in Binding : Stores(g, b)
         /\ pc'[w] = "submit" => bindings'[aim[w]].attempted
<1> DEFINE f == aim[w]
<1> DEFINE b == bindings[f]
<1> DEFINE n == [b EXCEPT !.phase = "SUBMITTING", !.attempted = TRUE]
<1>1. f \in Fingerprint /\ bindings \in [Fingerprint -> Binding] /\ pc \in [Worker -> Step]
  BY DEF IInv, TypeOK
<1>2. Sound(b)
  BY <1>1, Soundness DEF IInv
<1>3. CASE b.phase = "SUBMITTING" /\ b.id = NoId
  BY <1>1, <1>2, <1>3, StringsDiffer DEF MarkSubmitting, Mine, Sound
<1>4. CASE ~(b.phase = "SUBMITTING" /\ b.id = NoId) /\ (b.phase \notin PreSubmit \/ b.id # NoId)
  BY <1>1, <1>4 DEF MarkSubmitting, Mine, Raise, Goto
<1>5. CASE b.phase \in PreSubmit /\ b.id = NoId
  <2>1. bindings' = [bindings EXCEPT ![f] = n]
    BY <1>5, StringsDiffer DEF MarkSubmitting, Mine, Publish
  <2>2. n \in Binding /\ n.phase = "SUBMITTING" /\ n.attempted = TRUE /\ n.id = NoId
    BY <1>2, <1>5, StringsDiffer DEF Sound, Binding, Phase
  <2>3. Sound(n)
    BY <2>2, StringsDiffer DEF Sound
  <2>4. Forward(f, n)
    BY <1>5, <2>2, <2>3, StringsDiffer DEF Forward, Keeps
  <2>5. bindings'[f] = n
    BY <1>1, <2>1
  <2> QED BY <1>1, <2>1, <2>2, <2>4, <2>5 DEF Stores
<1> QED BY <1>3, <1>4, <1>5

\* note_submitted writes at most one legal successor.
LEMMA Noting ==
  ASSUME IInv, NEW w \in Worker, NoteSubmitted(w)
  PROVE  UNCHANGED bindings \/ \E g \in Fingerprint, b \in Binding : Stores(g, b)
<1> DEFINE f == aim[w]
<1> DEFINE b == bindings[f]
<1> DEFINE n == [b EXCEPT !.phase = "SUBMITTED"]
<1>1. f \in Fingerprint /\ bindings \in [Fingerprint -> Binding]
  BY DEF IInv, TypeOK
<1>2. Sound(b)
  BY <1>1, Soundness DEF IInv
<1>3. CASE b.phase = "SUBMITTING" /\ b.id = NoId
  <2>1. bindings' = [bindings EXCEPT ![f] = n]
    BY <1>3 DEF NoteSubmitted, Mine, Publish
  <2>2. n \in Binding /\ n.phase = "SUBMITTED" /\ n.attempted = b.attempted /\ n.id = NoId
    BY <1>2, <1>3, StringsDiffer DEF Sound, Binding, Phase
  <2>3. b.attempted
    BY <1>2, <1>3, StringsDiffer DEF Sound
  <2>4. Sound(n)
    BY <2>2, <2>3, StringsDiffer DEF Sound
  <2>5. Forward(f, n)
    BY <1>3, <2>2, <2>4 DEF Forward, Keeps
  <2> QED BY <1>1, <2>1, <2>2, <2>5 DEF Stores
<1>4. CASE ~(b.phase = "SUBMITTING" /\ b.id = NoId)
  BY <1>4 DEF NoteSubmitted, Mine, Raise
<1> QED BY <1>3, <1>4

\* persist_activity_id: one legal successor, and who goes on to poll left an id behind.
LEMMA Persisting ==
  ASSUME IInv, NEW w \in Worker, PersistActivityId(w)
  PROVE  /\ UNCHANGED bindings \/ \E g \in Fingerprint, b \in Binding : Stores(g, b)
         /\ pc'[w] = "begin" => bindings'[aim[w]].id # NoId
<1> DEFINE f == aim[w]
<1> DEFINE b == bindings[f]
<1> DEFINE n == [phase |-> "ACTIVITY_ID_PERSISTED", attempted |-> TRUE, id |-> hand[w]]
<1> DEFINE taken == \E g \in Fingerprint \ {f} : bindings[g].id = hand[w]
<1>1. f \in Fingerprint /\ bindings \in [Fingerprint -> Binding] /\ pc \in [Worker -> Step]
  BY DEF IInv, TypeOK
<1>2. Sound(b)
  BY <1>1, Soundness DEF IInv
<1>3. hand[w] \in given[f] /\ hand[w] \in ActivityId /\ hand[w] # NoId
  <2>1. hand[w] \in given[f]
    BY DEF PersistActivityId, At, IInv, WorkersRelyOnIt, Relies
  <2> QED BY <1>1, <2>1, ConstantsAssumption DEF IInv, TypeOK
<1>4. CASE b.id # NoId
  BY <1>1, <1>4 DEF PersistActivityId, Mine, Raise, Goto
<1>5. CASE b.id = NoId /\ (b.phase \notin InWindow \/ taken)
  BY <1>1, <1>5 DEF PersistActivityId, Mine, Raise, Goto
<1>6. CASE b.id = NoId /\ b.phase \in InWindow /\ ~taken
  <2>1. bindings' = [bindings EXCEPT ![f] = n]
    BY <1>6 DEF PersistActivityId, Mine, Publish
  <2>2. Sound(n)
    BY <1>3, StringsDiffer DEF Sound, Binding, Phase
  <2>3. \A g \in Fingerprint \ {f} : bindings[g].id # n.id
    BY <1>6
  <2>4. Forward(f, n)
    BY <1>3, <1>6, <2>2, <2>3, StringsDiffer DEF Forward, Keeps
  <2>5. bindings'[f].id = hand[w]
    BY <1>1, <2>1
  <2> QED BY <1>1, <1>3, <2>1, <2>2, <2>4, <2>5 DEF Stores, Sound
<1> QED BY <1>4, <1>5, <1>6

\* mark_processing, mark_result_received, mark_failed_post_submit: an identified
\* binding goes to another phase of those that have an id.
LEMMA Rephasing ==
  ASSUME IInv, NEW f \in Fingerprint, bindings[f].id # NoId,
         NEW phase \in Resumable \cup {"RESULT_RECEIVED", "FAILED_POST_SUBMIT"},
         bindings[f].phase \in {"RECOVERY_REQUIRED", "FAILED_POST_SUBMIT"} => phase = bindings[f].phase,
         bindings' = [bindings EXCEPT ![f] = [bindings[f] EXCEPT !.phase = phase]]
  PROVE  \E g \in Fingerprint, b \in Binding : Stores(g, b)
<1> DEFINE b == bindings[f]
<1> DEFINE n == [b EXCEPT !.phase = phase]
<1>1. Sound(b)
  BY Soundness DEF IInv
<1>2. n \in Binding /\ n.phase = phase /\ n.attempted = b.attempted /\ n.id = b.id
  BY <1>1, StringsDiffer DEF Sound, Binding, Phase
<1>3. Sound(n)
  BY <1>1, <1>2, StringsDiffer DEF Sound
<1>4. Forward(f, n)
  BY <1>2, <1>3 DEF Forward, Keeps
<1> QED BY <1>2, <1>4 DEF Stores

\* mark_processing: one legal successor, and who goes on saw an id.
LEMMA Processing ==
  ASSUME IInv, NEW w \in Worker, NEW next, MarkProcessing(w, next)
  PROVE  /\ UNCHANGED bindings \/ \E g \in Fingerprint, b \in Binding : Stores(g, b)
         /\ pc' = [pc EXCEPT ![w] = "idle"] \/ (pc' = [pc EXCEPT ![w] = next] /\ bindings[aim[w]].id # NoId)
<1> DEFINE f == aim[w]
<1>1. f \in Fingerprint
  BY DEF IInv, TypeOK
<1>2. CASE bindings[f].id = NoId \/ bindings[f].phase \notin Resumable
  BY <1>2 DEF MarkProcessing, Mine, Raise, Goto
<1>3. CASE bindings[f].id # NoId /\ bindings[f].phase \in Resumable
  <2>1. bindings' = [bindings EXCEPT ![f] = [bindings[f] EXCEPT !.phase = "PROCESSING"]]
    BY <1>3 DEF MarkProcessing, Mine, Publish
  <2>2. \E g \in Fingerprint, b \in Binding : Stores(g, b)
    BY <1>1, <1>3, <2>1, Rephasing, StringsDiffer
  <2> QED BY <1>3, <2>2 DEF MarkProcessing, Mine, Goto
<1> QED BY <1>2, <1>3

\* mark_result_received writes at most one legal successor.
LEMMA Receiving ==
  ASSUME IInv, NEW w \in Worker, MarkResultReceived(w)
  PROVE  UNCHANGED bindings \/ \E g \in Fingerprint, b \in Binding : Stores(g, b)
<1> DEFINE f == aim[w]
<1>1. f \in Fingerprint
  BY DEF IInv, TypeOK
<1>2. CASE bindings[f].id = NoId \/ bindings[f].phase \notin Resumable \cup {"RESULT_RECEIVED"}
  BY <1>2 DEF MarkResultReceived, Mine, Raise
<1>3. CASE bindings[f].id # NoId /\ bindings[f].phase \in Resumable \cup {"RESULT_RECEIVED"}
  <2>1. bindings' = [bindings EXCEPT ![f] = [bindings[f] EXCEPT !.phase = "RESULT_RECEIVED"]]
    BY <1>3 DEF MarkResultReceived, Mine, Publish
  <2> QED BY <1>1, <1>3, <2>1, Rephasing, StringsDiffer
<1> QED BY <1>2, <1>3

\* mark_failed_post_submit writes at most one legal successor.
LEMMA Failing ==
  ASSUME IInv, NEW w \in Worker, MarkFailedPostSubmit(w)
  PROVE  UNCHANGED bindings \/ \E g \in Fingerprint, b \in Binding : Stores(g, b)
<1> DEFINE f == aim[w]
<1>1. f \in Fingerprint /\ bindings[f].id # NoId
  BY DEF MarkFailedPostSubmit, At, IInv, TypeOK, WorkersRelyOnIt, Relies
<1>2. bindings' = [bindings EXCEPT ![f] = [bindings[f] EXCEPT !.phase = "FAILED_POST_SUBMIT"]]
  BY <1>1 DEF MarkFailedPostSubmit, Mine, Publish
<1>3. bindings[f].phase # "RECOVERY_REQUIRED"
  BY <1>1, Soundness, StringsDiffer DEF IInv, Sound
<1> QED BY <1>1, <1>2, <1>3, Rephasing

\* park_missing_activity_id_after_submitted writes at most one legal successor.
LEMMA Parking ==
  ASSUME IInv, NEW w \in Worker, Park(w)
  PROVE  UNCHANGED bindings \/ \E g \in Fingerprint, b \in Binding : Stores(g, b)
<1> DEFINE f == aim[w]
<1> DEFINE b == bindings[f]
<1> DEFINE n == [b EXCEPT !.phase = "RECOVERY_REQUIRED"]
<1>1. f \in Fingerprint /\ b.attempted
  BY DEF Park, At, IInv, TypeOK, WorkersRelyOnIt, Relies
<1>2. Sound(b)
  BY <1>1, Soundness DEF IInv
<1>3. CASE b.id # NoId
  BY <1>3 DEF Park, Mine, Raise
<1>4. CASE b.id = NoId
  <2>1. bindings' = [bindings EXCEPT ![f] = n]
    BY <1>4 DEF Park, Mine, Publish
  <2>2. n \in Binding /\ n.phase = "RECOVERY_REQUIRED" /\ n.attempted = b.attempted /\ n.id = NoId
    BY <1>2, <1>4 DEF Sound, Binding, Phase
  <2>3. Sound(n)
    BY <1>1, <2>2, StringsDiffer DEF Sound
  <2>4. b.phase # "FAILED_POST_SUBMIT"
    BY <1>2, <1>4 DEF Sound
  <2>5. Forward(f, n)
    BY <1>4, <2>2, <2>3, <2>4 DEF Forward, Keeps
  <2> QED BY <1>1, <2>1, <2>2, <2>5 DEF Stores
<1> QED BY <1>3, <1>4

-----------------------------------------------------------------------------
(* The workers.                                                            *)

\* What one worker relies on survives every other worker's step: the bindings only move ahead.
LEMMA OthersRely ==
  ASSUME IInv, Ahead, GivesIds, NEW v \in Worker,
         pc'[v] = pc[v], aim'[v] = aim[v], hand'[v] = hand[v]
  PROVE  Relies(v)'
<1> DEFINE f == aim[v]
<1>1. f \in Fingerprint /\ Relies(v)
  BY DEF IInv, TypeOK, WorkersRelyOnIt
<1>2. /\ bindings[f].attempted => bindings'[f].attempted
      /\ bindings[f].id # NoId => bindings'[f].id # NoId
      /\ given[f] \subseteq given'[f]
  BY <1>1 DEF Ahead, Keeps, GivesIds
<1> QED BY <1>1, <1>2 DEF Relies

\* One worker's step keeps the invariant when its own reliance is met.
LEMMA WorkerStep ==
  ASSUME IInv, Ahead, GivesIds, NEW w \in Worker,
         pc' \in [Worker -> Step], aim' \in [Worker -> Fingerprint],
         hand' \in [Worker -> ActivityId \cup {NoId}], posts' \in [Fingerprint -> Nat],
         \A v \in Worker \ {w} : pc'[v] = pc[v] /\ aim'[v] = aim[v] /\ hand'[v] = hand[v],
         \A f \in Fingerprint : posts'[f] > 0 => posts[f] > 0 \/ bindings[f].attempted,
         Relies(w)'
  PROVE  IInv'
<1>1. TypeOK'
  BY DEF TypeOK, Ahead, Sound, GivesIds
<1>2. SubmitsAreRecorded'
  BY DEF SubmitsAreRecorded, IInv, Ahead
<1>3. WorkersRelyOnIt'
  BY OthersRely DEF WorkersRelyOnIt
<1> QED BY <1>1, <1>2, <1>3 DEF IInv, Ahead

\* Locals of a step that changes nothing but the bindings and one worker's place.
LEMMA PlaceStep ==
  ASSUME IInv, NEW w \in Worker, NEW s \in Step, pc' = [pc EXCEPT ![w] = s],
         UNCHANGED <<aim, hand, posts, given>>,
         UNCHANGED bindings \/ \E f \in Fingerprint, b \in Binding : Stores(f, b),
         s \in {"submit", "note", "persist", "park"} => bindings'[aim[w]].attempted,
         s \in {"note", "persist"} => hand[w] \in given[aim[w]],
         s \in {"begin", "look", "resume", "poll", "succeed", "fail"} => bindings'[aim[w]].id # NoId
  PROVE  IInv' /\ Ahead
<1>1. TypeOK
  BY DEF IInv
<1>2. GivesIds
  BY <1>1 DEF GivesIds, TypeOK
<1>3. Ahead
  BY <1>2, StepKeeps
<1>4. pc'[w] = s /\ pc' \in [Worker -> Step] /\ \A v \in Worker \ {w} : pc'[v] = pc[v]
  BY <1>1 DEF TypeOK
<1>5. Relies(w)'
  BY <1>4 DEF Relies
<1>6. IInv'
  BY <1>1, <1>2, <1>3, <1>4, <1>5, WorkerStep DEF TypeOK
<1> QED BY <1>3, <1>6

\* The ledger and its reconciler keep the invariant; every step takes the bindings ahead.
LEMMA Inductive ==
  ASSUME IInv, [Next]_vars
  PROVE  IInv' /\ Ahead
<1>1. TypeOK /\ WorkersRelyOnIt
  BY DEF IInv
<1>2. \A w \in Worker : aim[w] \in Fingerprint
  BY <1>1 DEF TypeOK
<1>3. CASE UNCHANGED vars
  <2>1. GivesIds
    BY <1>1, <1>3 DEF GivesIds, TypeOK, vars
  <2>2. Ahead
    BY <1>3, <2>1, StepKeeps DEF vars
  <2>3. IInv'
    BY <1>3 DEF vars, local, IInv, TypeOK, IdsMapOneToOne, SubmitsAreRecorded, WorkersRelyOnIt, Relies
  <2> QED BY <2>2, <2>3
<1>4. CASE Restart
  <2>1. GivesIds
    BY <1>1, <1>4 DEF GivesIds, TypeOK, Restart
  <2>2. Ahead
    BY <1>4, <2>1, StepKeeps DEF Restart
  <2>3. TypeOK'
    BY <1>1, <1>4 DEF TypeOK, Restart, Step
  <2>4. SubmitsAreRecorded' /\ WorkersRelyOnIt'
    BY <1>1, <1>4 DEF IInv, SubmitsAreRecorded, WorkersRelyOnIt, Relies, Restart
  <2> QED BY <2>2, <2>3, <2>4 DEF IInv, Ahead
<1>5. ASSUME NEW w \in Worker, NEW f \in Fingerprint, OpenOrJoin(w, f)
      PROVE  IInv' /\ Ahead
  <2>1. GivesIds
    BY <1>1, <1>5 DEF GivesIds, TypeOK, OpenOrJoin
  <2>2. Ahead
    BY <1>5, <2>1, Opening, StepKeeps
  <2>3. pc' = [pc EXCEPT ![w] = "mark"] /\ aim' = [aim EXCEPT ![w] = f] /\ UNCHANGED <<hand, posts, given>>
    BY <1>5 DEF OpenOrJoin, Goto, Aim
  <2>4. pc' \in [Worker -> Step] /\ aim' \in [Worker -> Fingerprint] /\ pc'[w] = "mark"
    BY <1>1, <2>3 DEF TypeOK, Step
  <2>5. Relies(w)'
    BY <2>4 DEF Relies
  <2>6. \A v \in Worker \ {w} : pc'[v] = pc[v] /\ aim'[v] = aim[v] /\ hand'[v] = hand[v]
    BY <1>1, <2>3 DEF TypeOK
  <2> QED BY <1>1, <2>1, <2>2, <2>3, <2>4, <2>5, <2>6, WorkerStep DEF TypeOK
<1>6. ASSUME NEW w \in Worker, MarkSubmitting(w)
      PROVE  IInv' /\ Ahead
  <2>1. PICK s \in {"idle", "submit"} : pc' = [pc EXCEPT ![w] = s]
    BY <1>6 DEF MarkSubmitting, Raise, Goto
  <2>2. pc'[w] = s
    BY <1>1, <2>1 DEF TypeOK
  <2>3. UNCHANGED <<aim, hand, posts, given>> /\ s \in Step
    BY <1>6 DEF MarkSubmitting, Step
  <2>4. s \in {"submit", "note", "persist", "park"} => bindings'[aim[w]].attempted
    BY <1>6, <2>2, Marking
  <2> QED BY <1>6, <2>1, <2>3, <2>4, Marking, PlaceStep
<1>7. ASSUME NEW w \in Worker, Submit(w)
      PROVE  IInv' /\ Ahead
  <2> DEFINE f == aim[w]
  <2>1. /\ UNCHANGED <<bindings, aim>>
        /\ posts' = [posts EXCEPT ![f] = @ + 1]
        /\ \/ \E id \in ActivityId : /\ hand' = [hand EXCEPT ![w] = id]
                                     /\ given' = [given EXCEPT ![f] = @ \cup {id}]
                                     /\ pc' = [pc EXCEPT ![w] = "note"]
           \/ pc' = [pc EXCEPT ![w] = "idle"] /\ UNCHANGED <<hand, given>>
    BY <1>7 DEF Submit, Goto
  <2>2. bindings[f].attempted
    BY <1>1, <1>7 DEF Submit, At, WorkersRelyOnIt, Relies
  <2>3. GivesIds
    BY <1>1, <1>2, <2>1 DEF GivesIds, TypeOK
  <2>4. Ahead
    BY <2>1, <2>3, StepKeeps
  <2>5. posts' \in [Fingerprint -> Nat] /\ \A g \in Fingerprint : posts'[g] > 0 => posts[g] > 0 \/ g = f
    BY <1>1, <1>2, <2>1 DEF TypeOK
  <2>6. pc' \in [Worker -> Step] /\ hand' \in [Worker -> ActivityId \cup {NoId}]
    BY <1>1, <2>1 DEF TypeOK, Step
  <2>7. \A v \in Worker \ {w} : pc'[v] = pc[v] /\ aim'[v] = aim[v] /\ hand'[v] = hand[v]
    BY <1>1, <2>1 DEF TypeOK
  <2>8. pc'[w] = "idle" \/ (pc'[w] = "note" /\ hand'[w] \in given'[f])
    BY <1>1, <1>2, <2>1 DEF TypeOK
  <2>9. Relies(w)'
    BY <2>1, <2>2, <2>8 DEF Relies
  <2> QED BY <1>1, <2>1, <2>2, <2>3, <2>4, <2>5, <2>6, <2>7, <2>9, WorkerStep DEF TypeOK
<1>8. ASSUME NEW w \in Worker, NoteSubmitted(w)
      PROVE  IInv' /\ Ahead
  <2>1. PICK s \in {"idle", "persist"} : pc' = [pc EXCEPT ![w] = s]
    BY <1>8 DEF NoteSubmitted, Raise, Goto
  <2>2. UNCHANGED <<aim, hand, posts, given>> /\ s \in Step
    BY <1>8 DEF NoteSubmitted, Step
  <2>3. bindings[aim[w]].attempted /\ hand[w] \in given[aim[w]]
    BY <1>1, <1>8 DEF NoteSubmitted, At, WorkersRelyOnIt, Relies
  <2>4. GivesIds
    BY <1>1, <2>2 DEF GivesIds, TypeOK
  <2>5. bindings'[aim[w]].attempted
    BY <1>2, <1>8, <2>3, <2>4, Noting, StepKeeps DEF Ahead
  <2> QED BY <1>8, <2>1, <2>2, <2>3, <2>5, Noting, PlaceStep
<1>9. ASSUME NEW w \in Worker, PersistActivityId(w)
      PROVE  IInv' /\ Ahead
  <2>1. PICK s \in {"idle", "begin"} : pc' = [pc EXCEPT ![w] = s]
    BY <1>9 DEF PersistActivityId, Raise, Goto
  <2>2. pc'[w] = s
    BY <1>1, <2>1 DEF TypeOK
  <2>3. UNCHANGED <<aim, hand, posts, given>> /\ s \in Step
    BY <1>9 DEF PersistActivityId, Step
  <2>4. s = "begin" => bindings'[aim[w]].id # NoId
    BY <1>9, <2>2, Persisting
  <2> QED BY <1>9, <2>1, <2>3, <2>4, Persisting, PlaceStep
<1>10. ASSUME NEW w \in Worker, NEW next \in {"idle", "poll"}, MarkProcessing(w, next)
       PROVE  IInv' /\ Ahead
  <2>1. PICK s \in {"idle", next} : pc' = [pc EXCEPT ![w] = s] /\ (s = "poll" => bindings[aim[w]].id # NoId)
    BY <1>10, Processing
  <2>2. UNCHANGED <<aim, hand, posts, given>> /\ s \in Step
    BY <1>10 DEF MarkProcessing, Step
  <2>3. GivesIds
    BY <1>1, <2>2 DEF GivesIds, TypeOK
  <2>4. s = "poll" => bindings'[aim[w]].id # NoId
    BY <1>2, <1>10, <2>1, <2>3, Processing, StepKeeps DEF Ahead, Keeps
  <2> QED BY <1>10, <2>1, <2>2, <2>4, Processing, PlaceStep
<1>11. ASSUME NEW w \in Worker, NEW f \in Fingerprint, Inspect(w, f)
       PROVE  IInv' /\ Ahead
  <2>1. /\ UNCHANGED <<bindings, posts, given>>
        /\ pc' = [pc EXCEPT ![w] = "look"] /\ aim' = [aim EXCEPT ![w] = f]
        /\ hand' = [hand EXCEPT ![w] = bindings[f].id]
    BY <1>11 DEF Inspect, Goto, Aim
  <2>2. bindings[f].id # NoId /\ bindings[f].id \in ActivityId
    BY <1>1, <1>11, Soundness DEF Inspect, Decide, Sound, Binding
  <2>3. GivesIds
    BY <1>1, <2>1 DEF GivesIds, TypeOK
  <2>4. Ahead
    BY <2>1, <2>3, StepKeeps
  <2>5. /\ pc' \in [Worker -> Step] /\ aim' \in [Worker -> Fingerprint]
        /\ hand' \in [Worker -> ActivityId \cup {NoId}]
        /\ pc'[w] = "look" /\ aim'[w] = f
    BY <1>1, <2>1, <2>2 DEF TypeOK, Step
  <2>6. Relies(w)'
    BY <2>1, <2>2, <2>5 DEF Relies
  <2>7. \A v \in Worker \ {w} : pc'[v] = pc[v] /\ aim'[v] = aim[v] /\ hand'[v] = hand[v]
    BY <1>1, <2>1 DEF TypeOK
  <2> QED BY <1>1, <2>1, <2>3, <2>4, <2>5, <2>6, <2>7, WorkerStep DEF TypeOK
<1>12. ASSUME NEW w \in Worker, Look(w) \/ Poll(w)
       PROVE  IInv' /\ Ahead
  <2>1. PICK s \in {"idle", "resume", "poll", "succeed", "fail"} : pc' = [pc EXCEPT ![w] = s]
    BY <1>12 DEF Look, Poll, Goto
  <2>2. UNCHANGED <<bindings, aim, hand, posts, given>> /\ s \in Step
    BY <1>12 DEF Look, Poll, Step
  <2>3. bindings[aim[w]].id # NoId
    BY <1>1, <1>12 DEF Look, Poll, At, WorkersRelyOnIt, Relies
  <2> QED BY <2>1, <2>2, <2>3, PlaceStep
<1>13. ASSUME NEW w \in Worker, MarkResultReceived(w) \/ MarkFailedPostSubmit(w) \/ Park(w)
       PROVE  IInv' /\ Ahead
  <2>1. pc' = [pc EXCEPT ![w] = "idle"] /\ UNCHANGED <<aim, hand, posts, given>>
    BY <1>13 DEF MarkResultReceived, MarkFailedPostSubmit, Park, Raise, Goto
  <2>2. UNCHANGED bindings \/ \E f \in Fingerprint, b \in Binding : Stores(f, b)
    BY <1>13, Receiving, Failing, Parking
  <2>3. "idle" \in Step
    BY DEF Step
  <2> QED BY <2>1, <2>2, <2>3, PlaceStep
<1>14. ASSUME NEW w \in Worker, NEW f \in Fingerprint, Assess(w, f)
       PROVE  IInv' /\ Ahead
  <2>1. PICK s \in {"park", "begin"} :
          /\ pc' = [pc EXCEPT ![w] = s] /\ aim' = [aim EXCEPT ![w] = f]
          /\ UNCHANGED <<bindings, hand, posts, given>>
          /\ s = "park" => Decide(bindings[f]) \in {"HOLD_UNKNOWN", "REQUIRE_OPERATOR_RECOVERY"}
          /\ s = "begin" => Decide(bindings[f]) = "RESUME_POLL"
    BY <1>14 DEF Assess, Goto, Aim
  <2>2. s = "begin" => bindings[f].id # NoId
    BY <2>1 DEF Decide
  <2>3. s = "park" => bindings[f].attempted
    BY <1>1, <2>1, Soundness, StringsDiffer DEF Decide, Sound
  <2>4. GivesIds
    BY <1>1, <2>1 DEF GivesIds, TypeOK
  <2>5. Ahead
    BY <2>1, <2>4, StepKeeps
  <2>6. pc' \in [Worker -> Step] /\ aim' \in [Worker -> Fingerprint] /\ pc'[w] = s /\ aim'[w] = f
    BY <1>1, <2>1 DEF TypeOK, Step
  <2>7. Relies(w)'
    BY <2>1, <2>2, <2>3, <2>6 DEF Relies
  <2>8. \A v \in Worker \ {w} : pc'[v] = pc[v] /\ aim'[v] = aim[v] /\ hand'[v] = hand[v]
    BY <1>1, <2>1 DEF TypeOK
  <2> QED BY <1>1, <2>1, <2>4, <2>5, <2>6, <2>7, <2>8, WorkerStep DEF TypeOK
<1> QED BY <1>3, <1>4, <1>5, <1>6, <1>7, <1>8, <1>9, <1>10, <1>11, <1>12, <1>13, <1>14
        DEF Next, BeginProcessing, Resume

\* The empty ledger satisfies the invariant.
LEMMA Initial == Init => IInv
<1> SUFFICES ASSUME Init PROVE IInv
  OBVIOUS
<1>1. Absent \in Binding /\ Absent.phase = "NONE" /\ Absent.id = NoId
  BY DEF Absent, Binding, Phase
<1>2. ~Absent.attempted
  BY Zenon DEF Absent
<1>3. \A f \in Fingerprint : bindings[f] = Absent /\ posts[f] = 0
  BY DEF Init
<1>4. TypeOK
  <2>1. /\ bindings \in [Fingerprint -> Binding] /\ pc \in [Worker -> Step]
        /\ hand \in [Worker -> ActivityId \cup {NoId}] /\ posts \in [Fingerprint -> Nat]
        /\ given \in [Fingerprint -> SUBSET ActivityId]
    BY <1>1 DEF Init, Step
  <2>2. aim \in [Worker -> Fingerprint]
    BY DEF Init
  <2> QED BY <1>1, <1>2, <1>3, <2>1, <2>2, StringsDiffer DEF TypeOK
<1>5. IdsMapOneToOne /\ SubmitsAreRecorded
  BY <1>1, <1>3 DEF IdsMapOneToOne, SubmitsAreRecorded
<1>6. WorkersRelyOnIt
  BY DEF Init, WorkersRelyOnIt, Relies
<1> QED BY <1>4, <1>5, <1>6 DEF IInv

\* The invariant that the theorems below rest on.
THEOREM Invariant == Spec => []IInv
<1>1. IInv /\ [Next]_vars => IInv'
  BY Inductive
<1> QED BY Initial, <1>1, PTL DEF Spec

-----------------------------------------------------------------------------
(* The theorems.                                                           *)

\* Bindings are well typed, an id stands exactly in the phases past the save of
\* it, and the attempt flag exactly past mark_submitting.
THEOREM TypeCorrect == Spec => []TypeOK
<1>1. IInv => TypeOK
  BY DEF IInv
<1> QED BY Invariant, <1>1, PTL

\* Once a submit left, neither a restart nor an inspection offers a submit, and
\* the reported risk is never that of an unspent request.
THEOREM SubmitsAreNotOffered == Spec => []NoSubmitIsOfferedAgain
<1>1. ASSUME IInv PROVE NoSubmitIsOfferedAgain
  <2> SUFFICES ASSUME NEW f \in Fingerprint, posts[f] > 0
               PROVE  /\ Decide(bindings[f]) # "SUBMIT_ALLOWED"
                      /\ Risk(bindings[f]) \notin {"NONE", "RESERVED_NOT_SUBMITTED"}
    BY DEF NoSubmitIsOfferedAgain
  <2> DEFINE b == bindings[f]
  <2>1. b.attempted
    BY <1>1 DEF IInv, SubmitsAreRecorded
  <2>2. Decide(b) # "SUBMIT_ALLOWED"
    BY <2>1 DEF Decide
  <2>3. Risk(b) \notin {"NONE", "RESERVED_NOT_SUBMITTED"}
    BY <2>1 DEF Risk
  <2> QED BY <2>2, <2>3
<1> QED BY Invariant, <1>1, PTL

\* An id is bound to one request, and to one that the vendor gave it for.
THEOREM IdsOneToOne == Spec => []IdsMapOneToOne
<1>1. IInv => IdsMapOneToOne
  BY DEF IInv
<1> QED BY Invariant, <1>1, PTL

\* No step changes a bound id or takes a binding out of a verdict.
THEOREM VerdictsAndIdsKept == Spec => VerdictsAndIdsAreKept
<1>1. ASSUME IInv, [Next]_vars
      PROVE  [\A f \in Fingerprint : Keeps(bindings[f], bindings'[f])]_vars
  BY <1>1, Inductive DEF Ahead
<1> QED BY Invariant, <1>1, PTL DEF Spec, VerdictsAndIdsAreKept
=============================================================================
