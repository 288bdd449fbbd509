---------------------------- MODULE GeographyJobs ----------------------------
(***************************************************************************)
(* Create-or-join geography jobs (services/geography_jobs.py) behind the   *)
(* routes of api/routes/geographies.py.                                    *)
(*                                                                         *)
(* POST runs on the event loop and creates or joins a place's record under *)
(* the module's lock; the worker of a new record runs in a thread after    *)
(* the response; GET runs in a thread, takes the lock only to look up the  *)
(* record and then reads its fields one by one, while the worker may be    *)
(* writing them, and so does a POST that has stored an UNSUPPORTED record. *)
(*                                                                         *)
(* Every call parses the index file again, whose places may be others by   *)
(* then: a POST of a place that it lacks replaces the place's record, and  *)
(* a worker settles the record that its place has when it is done.         *)
(*                                                                         *)
(* A package stands for the identity, provenance and geometry of one       *)
(* result.  Left out: answers that depend on no record (422, 503, 404 and  *)
(* NOT_STARTED), the 304 for an ETag that still matches, supported, which  *)
(* is assigned after the outcome (a read between the two may raise: then   *)
(* there is no answer), texts, the seeds of the tests, and what            *)
(* _apply_materialize does with a record that is gone or SUPPORTED         *)
(* already, which takes a second worker of one place.                      *)
(***************************************************************************)
EXTENDS Naturals, Sequences, FiniteSets

CONSTANTS
  Place,
  InScope,       \* places of the states in scope
  Reader,        \* threads that serve GET
  EventLoop,     \* the thread that serves POST
  Package,       \* what a materializer can return as supported
  MaxRecords,    \* bound: records ever created
  None           \* no package, no reason

ASSUME ConstantsAssumption ==
  /\ InScope \subseteq Place /\ MaxRecords \in Nat /\ EventLoop \notin Reader
  /\ Package \cap {"raised", "unsupported", "unknown", "scope", "resolver"} = {}
  /\ None \notin Package \cup {"raised", "unsupported", "unknown", "scope", "resolver"}

Terminal == {"SUPPORTED", "UNSUPPORTED", "FAILED"}

\* reason.code: UNKNOWN_PLACE, UNSUPPORTED_SCOPE, or one that a worker writes
Reason == {"unknown", "scope", "resolver"}

\* GeographyStoreRecord
Record == [place : Place, outcome : {"PENDING"} \cup Terminal, identity : Package \cup {None},
           geometry : Package \cup {None}, reason : Reason \cup {None}]

VARIABLES
  gazetteer,     \* the index file: "there", "missing" or "unreadable"
  known,         \* the places in it
  materializer,  \* _materialize_fn is set
  heap,          \* every GeographyStoreRecord ever made
  store,         \* _records: the number of a place's record, or 0
  lock,          \* 0, or the worker that holds _lock over several writes
  worker,        \* worker[i]: the background task of record i
  reader,        \* reader[t]: what thread t reads without the lock
  answers        \* history: the documents that were served to be kept for a day

environment == <<gazetteer, known, materializer>>
vars == <<environment, heap, store, lock, worker, reader, answers>>

\* A task: its step, its result, and the record it has settled (current).
NoWorker == [step |-> "none", result |-> None, record |-> 0]
NoReader == [step |-> "idle", record |-> 0, outcome |-> "PENDING", identity |-> None]

Init ==
  /\ gazetteer = "there" /\ known = Place
  /\ materializer \in BOOLEAN
  /\ heap = <<>>
  /\ store = [p \in Place |-> 0]
  /\ lock = 0
  /\ worker = <<>>
  /\ reader = [t \in Reader \cup {EventLoop} |-> NoReader]
  /\ answers = {}

-----------------------------------------------------------------------------
\* The documents.

\* CACHE_CONTROL_TERMINAL is for these outcomes.
Cacheable(r) == r.outcome \in {"SUPPORTED", "UNSUPPORTED"}

\* _etag_for
Etag(r) ==
  CASE r.outcome = "SUPPORTED" -> r.identity
    [] r.outcome = "UNSUPPORTED" -> r.reason
    [] OTHER -> None

Shown(r) == IF r.outcome = "SUPPORTED" THEN r.identity ELSE None

Answer(kind, i, outcome, identity, r) ==
  [kind |-> kind, record |-> i, outcome |-> outcome, identity |-> identity,
   cached |-> Cacheable(r), etag |-> Etag(r)]

Send(a) == answers' = IF a.cached THEN answers \cup {a} ELSE answers

\* resource_http of a record that nobody is writing.
Whole(i, r) == Answer("post", i, r.outcome, Shown(r), r)

-----------------------------------------------------------------------------
\* create_or_join

NewRecord(p, outcome, reason) ==
  [place |-> p, outcome |-> outcome, identity |-> None, geometry |-> None, reason |-> reason]

Publish(p, record, task) ==
  LET i == Len(heap) + 1
  IN /\ i <= MaxRecords
     /\ heap' = Append(heap, record)
     /\ store' = [store EXCEPT ![p] = i]
     /\ worker' = Append(worker, task)

\* A POST has loaded the index, has the lock, and has the event loop for itself
\* until it has its answer.
Loaded == gazetteer = "there" /\ lock = 0 /\ reader[EventLoop].step = "idle"

\* An unknown or out-of-scope place: its record is replaced, whatever it says, and
\* then read without the lock.
PostUnsupported(p) ==
  /\ Loaded /\ p \notin known \cap InScope
  /\ Publish(p, NewRecord(p, "UNSUPPORTED", IF p \in known THEN "scope" ELSE "unknown"), NoWorker)
  /\ reader' = [reader EXCEPT ![EventLoop] = [NoReader EXCEPT !.step = "outcome",
                                                              !.record = Len(heap) + 1]]
  /\ UNCHANGED <<environment, lock, answers>>

\* Fault: a record that is PENDING is not joined.
CreateAnew(p) ==
  /\ Loaded /\ p \in known \cap InScope
  /\ store[p] # 0 => heap[store[p]].outcome = "PENDING"
  /\ Publish(p, NewRecord(p, "PENDING", None), [NoWorker EXCEPT !.step = "queued"])
  /\ UNCHANGED <<environment, lock, reader, answers>>

\* A new record and its background task; the substrate of its state is there.  The
\* answer is PENDING and not to be kept.
Create(p) ==
  /\ Loaded /\ p \in known \cap InScope
  /\ store[p] = 0
  /\ Publish(p, NewRecord(p, "PENDING", None), [NoWorker EXCEPT !.step = "queued"])
  /\ UNCHANGED <<environment, lock, reader, answers>>

\* The existing record, whatever its outcome, read under the lock.
Join(p) ==
  /\ Loaded /\ p \in known \cap InScope
  /\ store[p] # 0
  /\ Send(Whole(store[p], heap[store[p]]))
  /\ UNCHANGED <<environment, heap, store, lock, worker, reader>>

-----------------------------------------------------------------------------
\* run_geography_worker

GoTo(i, from, to) == worker[i].step = from /\ worker' = [worker EXCEPT ![i].step = to]

current(i) == store[heap[i].place]

Pending(i) == current(i) # 0 /\ heap[current(i)].outcome = "PENDING"

\* The worker starts after the response.
Begin(i) ==
  /\ lock = 0
  /\ GoTo(i, "queued", IF Pending(i) THEN "look" ELSE "done")
  /\ UNCHANGED <<environment, heap, store, lock, reader, answers>>

\* The index is read again, without the lock and outside of the try: a file that
\* cannot be read ends the task.
LoadIndex(i) ==
  /\ GoTo(i, "look", IF gazetteer = "unreadable" THEN "died"
                     ELSE IF heap[i].place \in known /\ materializer THEN "materialize" ELSE "drop")
  /\ UNCHANGED <<environment, heap, store, lock, reader, answers>>

\* Fault: the record stays.
KeepRecord(i) ==
  /\ lock = 0
  /\ GoTo(i, "drop", "done")
  /\ UNCHANGED <<environment, heap, store, lock, reader, answers>>

\* No index, no such place or no materializer: the job is forgotten.
DropRecord(i) ==
  /\ lock = 0
  /\ GoTo(i, "drop", "done")
  /\ store' = [store EXCEPT ![heap[i].place] = IF Pending(i) THEN 0 ELSE @]
  /\ UNCHANGED <<environment, heap, lock, reader, answers>>

\* _materialize_fn returns or raises.
Materialize(i) ==
  /\ worker[i].step = "materialize"
  /\ \E result \in Package \cup {"unsupported", "raised"} :
       worker' = [worker EXCEPT ![i].step = "outcome", ![i].result = result]
  /\ UNCHANGED <<environment, heap, store, lock, reader, answers>>

Write(n, field, value) == heap' = [heap EXCEPT ![n] = [@ EXCEPT ![field] = value]]

\* _apply_materialize and the exception handler, one assignment after the other
\* under the lock, of the record that the place has now.  One is there: only this
\* worker could forget it.
WriteOutcome(i) ==
  /\ lock = 0
  /\ current(i) # 0
  /\ worker[i].step = "outcome"
  /\ worker' = [worker EXCEPT ![i].record = current(i),
                              ![i].step = IF worker[i].result \in Package
                                          THEN "identity" ELSE "reason"]
  /\ Write(current(i), "outcome", CASE worker[i].result = "unsupported" -> "UNSUPPORTED"
                                    [] worker[i].result = "raised" -> "FAILED"
                                    [] OTHER -> "SUPPORTED")
  /\ lock' = i
  /\ UNCHANGED <<environment, store, reader, answers>>

WriteIdentity(i) ==
  /\ GoTo(i, "identity", "geometry")
  /\ Write(worker[i].record, "identity", worker[i].result)
  /\ UNCHANGED <<environment, store, lock, reader, answers>>

WriteGeometry(i) ==
  /\ GoTo(i, "geometry", "reason")
  /\ Write(worker[i].record, "geometry", worker[i].result)
  /\ UNCHANGED <<environment, store, lock, reader, answers>>

WriteReason(i) ==
  /\ GoTo(i, "reason", "done")
  /\ Write(worker[i].record, "reason", "resolver")
  /\ lock' = 0
  /\ UNCHANGED <<environment, store, reader, answers>>

-----------------------------------------------------------------------------
\* get_geography and get_geography_geometry; the answer of PostUnsupported

Find(t, p) ==
  /\ lock = 0
  /\ store[p] # 0
  /\ reader[t].step = "idle"
  /\ \E next \in {"outcome", "ready"} :
       reader' = [reader EXCEPT ![t].step = next, ![t].record = store[p]]
  /\ UNCHANGED <<environment, heap, store, lock, worker, answers>>

seen(t) == heap[reader[t].record]

\* build_resource: the outcome of the document, then its identity.
ReadOutcome(t) ==
  /\ reader[t].step = "outcome"
  /\ reader' = [reader EXCEPT ![t].step = "identity", ![t].outcome = seen(t).outcome]
  /\ UNCHANGED <<environment, heap, store, lock, worker, answers>>

ReadIdentity(t) ==
  /\ reader[t].step = "identity"
  /\ reader' = [reader EXCEPT ![t].step = "headers", ![t].identity = Shown(seen(t))]
  /\ UNCHANGED <<environment, heap, store, lock, worker, answers>>

\* resource_http: the headers, in one read.
ReadHeaders(t) ==
  /\ reader[t].step = "headers"
  /\ Send(Answer(IF t = EventLoop THEN "post" ELSE "get", reader[t].record,
                 reader[t].outcome, reader[t].identity, seen(t)))
  /\ reader' = [reader EXCEPT ![t] = NoReader]
  /\ UNCHANGED <<environment, heap, store, lock, worker>>

\* GEOGRAPHY_NOT_READY, or on to the geometry.
ReadReady(t) ==
  /\ reader[t].step = "ready"
  /\ reader' = [reader EXCEPT ![t] = IF Shown(seen(t)) = None THEN NoReader
                                     ELSE [@ EXCEPT !.step = "geometry"]]
  /\ UNCHANGED <<environment, heap, store, lock, worker, answers>>

\* The geometry, or an empty one, under the package's ETag.
ReadGeometry(t) ==
  /\ reader[t].step = "geometry"
  /\ Send([Answer("geometry", reader[t].record, "SUPPORTED", seen(t).geometry, seen(t))
             EXCEPT !.cached = TRUE, !.etag = seen(t).identity])
  /\ reader' = [reader EXCEPT ![t] = NoReader]
  /\ UNCHANGED <<environment, heap, store, lock, worker>>

\* The file is put there, replaced by one of other places, or removed: no load is
\* cached.
GazetteerChanges ==
  /\ \/ gazetteer' = "there" /\ known' \in SUBSET Place
     \/ gazetteer' \in {"missing", "unreadable"} /\ known' = {}
  /\ UNCHANGED <<materializer, heap, store, lock, worker, reader, answers>>

-----------------------------------------------------------------------------

Work(i) ==
  /\ i <= Len(heap)
  /\ \/ Begin(i) \/ LoadIndex(i) \/ DropRecord(i) \/ Materialize(i)
     \/ WriteOutcome(i) \/ WriteIdentity(i) \/ WriteGeometry(i) \/ WriteReason(i)

Serve(t) == ReadOutcome(t) \/ ReadIdentity(t) \/ ReadHeaders(t)

Get(t) == Serve(t) \/ ReadReady(t) \/ ReadGeometry(t) \/ \E p \in Place : Find(t, p)

Post(p) == PostUnsupported(p) \/ Create(p) \/ Join(p)

Next ==
  \/ \E p \in Place : Post(p)
  \/ \E i \in 1 .. MaxRecords : Work(i)
  \/ \E t \in Reader : Get(t)
  \/ Serve(EventLoop)
  \/ GazetteerChanges

Spec == Init /\ [][Next]_vars

\* A task of a response that was sent runs to its end, and _materialize_fn
\* returns or raises.
FairSpec == Spec /\ \A i \in 1 .. MaxRecords : WF_vars(Work(i))

-----------------------------------------------------------------------------

\* A record that the task of another one has settled: a POST stored it while that
\* task was under way, since the index had lost the place.
Overruled(k) == \E i \in DOMAIN worker : i # k /\ worker[i].record = k

\* What a client may keep for a day is not taken back while its record is the
\* place's.  The ETag of a package stays its record's for good; so do the ETag of a
\* refusal and the whole of a cacheable answer to a POST, unless the record was an
\* UNSUPPORTED one that a task under way has settled since (create_or_join,
\* _apply_materialize, _etag_for).
AnswersStay ==
  \A a \in answers :
    LET r == heap[a.record]
        overruled == Overruled(a.record)
    IN /\ a.etag # None /\ (overruled => a.etag \in Package) => a.etag = Etag(r)
       /\ a.kind = "post" /\ ~ overruled => a = Whole(a.record, r)

\* A PENDING record is settled or forgotten, unless its task could not read the
\* index: then, and only then, later requests join a job that nobody works on
\* (run_geography_worker).
PendingEnds ==
  \A p \in Place :
    (store[p] # 0 /\ heap[store[p]].outcome = "PENDING")
      ~> \/ store[p] = 0
         \/ heap[store[p]].outcome # "PENDING"
         \/ worker[store[p]].step = "died"
=============================================================================
