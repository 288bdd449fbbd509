------------------------ MODULE GeographyJobsProofs ------------------------
(***************************************************************************)
(* Proofs about GeographyJobs, for every set of places, readers and        *)
(* packages and every number of records.                                   *)
(***************************************************************************)
EXTENDS GeographyJobs, SequenceTheorems, TLAPS

Waiting == {"queued", "look", "drop", "materialize", "outcome"}
Writing == {"identity", "geometry", "reason"}
Result == Package \cup {"raised", "unsupported", None}
Worker == [step : {"none", "done", "died"} \cup Waiting \cup Writing, result : Result,
           record : Nat]

Thread == Reader \cup {EventLoop}
Request == [step : {"idle", "outcome", "identity", "headers", "ready", "geometry"}, record : Nat,
            outcome : {"PENDING"} \cup Terminal, identity : Package \cup {None}]

\* Every record has its task, a place's record is of that place, and a thread
\* reads a record that was made.
Shapes ==
  /\ heap \in Seq(Record) /\ worker \in Seq(Worker) /\ Len(worker) = Len(heap)
  /\ store \in [Place -> 0 .. Len(heap)] /\ lock \in 0 .. Len(heap)
  /\ \A p \in Place : store[p] # 0 => heap[store[p]].place = p
  /\ reader \in [Thread -> Request]
  /\ \A t \in Thread : reader[t].step # "idle" => reader[t].record \in 1 .. Len(heap)

Unfinished(i) == worker[i].step \in Waiting \cup Writing

\* A record that a POST stored for a place that the index lacked, and that no task
\* has written.
Stored(k) ==
  worker[k].step = "none" /\ heap[k].outcome = "UNSUPPORTED" /\ heap[k].identity = None

\* While a task waits, its record is as it was made, and is the one of its place
\* or was replaced by a stored one.  While it writes it holds the lock, and what it
\* writes is the record its place has.
Task(i) ==
  /\ worker[i].step \in Waiting =>
       /\ current(i) = i \/ (current(i) # 0 /\ Stored(current(i)))
       /\ worker[i].record = 0
  /\ worker[i].step \in Waiting \cup {"died"} => heap[i].outcome = "PENDING"
  /\ worker[i].step \in Writing <=> lock = i

\* The record that a task is writing.
Written(i) ==
  LET n == worker[i].record
  IN worker[i].step \in Writing =>
       /\ n # 0 /\ n = current(i)
       /\ n = i \/ worker[n].step = "none"
       /\ heap[n].outcome # "PENDING"
       /\ worker[i].step \in {"identity", "geometry"} =>
            heap[n].outcome = "SUPPORTED" /\ worker[i].result \in Package
       /\ worker[i].step = "identity" => heap[n].identity = None
       /\ worker[i].step = "reason" =>
            heap[n].outcome = "SUPPORTED" \/ n # i \/ heap[n].reason = None

\* A record has no fields before its outcome, and an identity when it is SUPPORTED.
Filled(i) ==
  /\ heap[i].outcome = "PENDING" => heap[i].identity = None /\ heap[i].reason = None
  /\ heap[i].identity # None => heap[i].outcome = "SUPPORTED"

\* No place has two unfinished tasks.
Apart ==
  \A i, j \in 1 .. Len(heap) :
    Unfinished(i) /\ Unfinished(j) /\ heap[i].place = heap[j].place => i = j

Tasks == Apart /\ \A i \in 1 .. Len(heap) : Task(i) /\ Written(i) /\ Filled(i)

\* A record whose task has ended, and one that is not being written either.
Settled(i) == worker[i].step \in {"none", "done"}
Still(i) == Settled(i) /\ (lock # 0 => worker[lock].record # i)

\* A POST that has stored a record reads it as it was stored, until a task overrules
\* it.
Posting ==
  LET c == reader[EventLoop]
      k == c.record
  IN c.step # "idle" =>
       /\ c.step \in {"outcome", "identity", "headers"} /\ worker[k].step = "none"
       /\ ~ Overruled(k) =>
            /\ Stored(k)
            /\ c.step \in {"identity", "headers"} => c.outcome = "UNSUPPORTED"
            /\ c.step = "headers" => c.identity = None

\* What was served is still so, unless it was overruled; a POST was answered with a
\* record that was not being written.
Kept(a) ==
  /\ a.record \in 1 .. Len(heap)
  /\ a.etag # None /\ (Overruled(a.record) => a.etag \in Package) => a.etag = Etag(heap[a.record])
  /\ a.kind = "post" /\ ~ Overruled(a.record) =>
       Still(a.record) /\ a = Whole(a.record, heap[a.record])

Served == \A a \in answers : Kept(a)

Known == Shapes /\ Tasks /\ Posting /\ Served

\* The record k stays what it is for clients, or is overruled by a task; the ETag of
\* a package stays all the same.
Stays(k) ==
  /\ Etag(heap[k]) \in Package => Etag(heap'[k]) = Etag(heap[k])
  /\ \/ /\ Etag(heap[k]) # None => Etag(heap'[k]) = Etag(heap[k])
        /\ Still(k) => /\ worker'[k].step \in {"none", "done"}
                       /\ lock' # 0 => worker'[lock'].record # k
                       /\ heap'[k] = heap[k]
     \/ \E i \in 1 .. Len(heap) : i # k /\ worker'[i].record = k

\* What happens to records and tasks: an ETag stays, or is overruled; a record that
\* was settled is settled; a record without a task gets none; and a task that has
\* settled a record has settled it.
Ahead ==
  /\ Len(heap) <= Len(heap')
  /\ \A i \in 1 .. Len(heap) :
       /\ Stays(i)
       /\ worker[i].step = "none" => worker'[i].step = "none"
       /\ worker[i].record # 0 => worker'[i].record = worker[i].record

-----------------------------------------------------------------------------
(* Records and tasks.                                                      *)

\* Records and tasks are numbered alike.
LEMMA Numbered ==
    ASSUME Shapes
    PROVE  /\ Len(heap) \in Nat /\ Len(worker) = Len(heap)
           /\ \A i \in 1 .. Len(heap) : /\ heap[i] \in Record /\ heap[i].place \in Place
                                      /\ worker[i] \in Worker
<1>1. \A i \in 1 .. Len(heap) : heap[i] \in Record /\ worker[i] \in Worker
  BY DEF Shapes
<1>2. Len(heap) \in Nat
  BY DEF Shapes
<1> QED BY <1>1, <1>2 DEF Shapes, Record

\* What changing one record does.
LEMMA RecordEffect ==
    ASSUME Shapes, NEW i \in 1 .. Len(heap), NEW r \in Record,
           heap' = [heap EXCEPT ![i] = r]
    PROVE  /\ heap' \in Seq(Record) /\ Len(heap') = Len(heap) /\ heap'[i] = r
           /\ \A j \in 1 .. Len(heap) : j # i => heap'[j] = heap[j]
BY ExceptSeq DEF Shapes

\* What changing one task does.
LEMMA TaskEffect ==
    ASSUME Shapes, NEW i \in 1 .. Len(heap), NEW w \in Worker,
           worker' = [worker EXCEPT ![i] = w]
    PROVE  /\ worker' \in Seq(Worker) /\ Len(worker') = Len(heap) /\ worker'[i] = w
           /\ \A j \in 1 .. Len(heap) : j # i => worker'[j] = worker[j]
<1>1. worker \in Seq(Worker) /\ i \in 1 .. Len(worker)
  BY DEF Shapes
<1> QED BY <1>1, ExceptSeq DEF Shapes

\* Tasks have numbers of records.
LEMMA Domains ==
    ASSUME Shapes, Shapes', Ahead
    PROVE  /\ DOMAIN worker = 1 .. Len(heap) /\ DOMAIN worker' = 1 .. Len(heap')
           /\ 1 .. Len(heap) \subseteq 1 .. Len(heap') /\ 0 \notin 1 .. Len(heap)
<1>1. Len(heap) \in Nat /\ Len(heap') \in Nat /\ Len(heap) <= Len(heap')
  BY DEF Shapes, Ahead
<1>2. DOMAIN worker = 1 .. Len(heap) /\ DOMAIN worker' = 1 .. Len(heap')
  BY DEF Shapes
<1> QED BY <1>1, <1>2

\* A record that was overruled is so for good, and the record of a task that settles
\* another one is overruled.
LEMMA OverruledStays ==
    ASSUME Shapes, Shapes', Ahead, NEW k \in 1 .. Len(heap),
           Overruled(k) \/ \E i \in 1 .. Len(heap) : i # k /\ worker'[i].record = k
    PROVE  \E i \in DOMAIN worker' : i # k /\ worker'[i].record = k
<1>1. CASE Overruled(k)
  <2>1. PICK i \in 1 .. Len(heap) : i # k /\ worker[i].record = k
    BY <1>1, Domains DEF Overruled
  <2>2. worker'[i].record = k
    BY <2>1, Domains DEF Ahead
  <2> QED BY <2>1, <2>2, Domains
<1>2. CASE \E i \in 1 .. Len(heap) : i # k /\ worker'[i].record = k
  BY <1>2, Domains
<1> QED BY <1>1, <1>2

\* What was served is kept while records go ahead.
LEMMA KeptAhead ==
    ASSUME Shapes, Shapes', Ahead, NEW a, Kept(a)
    PROVE  Kept(a)'
<1> DEFINE k == a.record
           Lost == \E i \in DOMAIN worker' : i # k /\ worker'[i].record = k
<1>1. k \in 1 .. Len(heap) /\ k \in 1 .. Len(heap')
  BY Domains DEF Kept
<1>2. Stays(k)
  BY <1>1 DEF Ahead
<1>3. Overruled(k) => Lost
  BY <1>1, OverruledStays
<1>4. /\ a.etag # None /\ (Overruled(k) => a.etag \in Package) => a.etag = Etag(heap[k])
      /\ a.kind = "post" /\ ~ Overruled(k) => Still(k) /\ a = Whole(k, heap[k])
  BY DEF Kept
<1>5. ~ Lost => /\ Etag(heap[k]) # None => Etag(heap'[k]) = Etag(heap[k])
                /\ Still(k) => /\ worker'[k].step \in {"none", "done"}
                               /\ lock' # 0 => worker'[lock'].record # k
                               /\ heap'[k] = heap[k]
  BY <1>1, <1>2, Domains DEF Stays
<1> HIDE DEF k, Lost
<1>6. a.etag # None /\ (Lost => a.etag \in Package) => a.etag = Etag(heap'[k])
  BY <1>2, <1>3, <1>4, <1>5 DEF Stays
<1>7. a.kind = "post" /\ ~ Lost =>
        /\ worker'[k].step \in {"none", "done"}
        /\ lock' # 0 => worker'[lock'].record # k
        /\ a = Whole(k, heap'[k])
  BY <1>3, <1>4, <1>5
<1> QED BY <1>1, <1>6, <1>7
        DEF k, Lost, Kept, Overruled, Settled, Still, Etag, Whole, Answer, Shown, Cacheable

\* What a POST reads goes ahead too.
LEMMA PostingAhead ==
    ASSUME Known, Shapes', Ahead, reader'[EventLoop] = reader[EventLoop]
    PROVE  Posting'
<1> DEFINE c == reader[EventLoop]
           k == c.record
           Lost == \E i \in DOMAIN worker' : i # k /\ worker'[i].record = k
<1> SUFFICES ASSUME c.step # "idle"
             PROVE  /\ c.step \in {"outcome", "identity", "headers"} /\ worker'[k].step = "none"
                    /\ ~ Lost =>
                         /\ worker'[k].step = "none"
                         /\ heap'[k].outcome = "UNSUPPORTED" /\ heap'[k].identity = None
                         /\ c.step \in {"identity", "headers"} => c.outcome = "UNSUPPORTED"
                         /\ c.step = "headers" => c.identity = None
  BY DEF Posting, Overruled, Stored
<1>1. k \in 1 .. Len(heap) /\ Shapes
  BY DEF Known, Shapes, Thread
<1>2. /\ c.step \in {"outcome", "identity", "headers"} /\ worker[k].step = "none"
      /\ ~ Overruled(k) =>
            /\ Stored(k)
            /\ c.step \in {"identity", "headers"} => c.outcome = "UNSUPPORTED"
            /\ c.step = "headers" => c.identity = None
  BY DEF Known, Posting
<1>3. worker'[k].step = "none"
  BY <1>1, <1>2 DEF Ahead
<1>4. Overruled(k) => Lost
  BY <1>1, OverruledStays DEF Known
<1>5. ~ Overruled(k) => Still(k)
  <2>1. lock # 0 => lock \in DOMAIN worker
    BY <1>1, Domains DEF Shapes
  <2>2. lock # k
    BY <1>1, <1>2 DEF Known, Tasks, Task, Writing
  <2> QED BY <1>2, <2>1, <2>2 DEF Still, Settled, Overruled
<1>6. ~ Lost /\ Still(k) => heap'[k] = heap[k]
  BY <1>1, Domains DEF Ahead, Stays
<1> HIDE DEF c, k, Lost
<1> QED BY <1>2, <1>3, <1>4, <1>5, <1>6 DEF Stored

\* A cacheable answer to a POST is of a record that is not being written, if nobody
\* holds the lock.
LEMMA WholeIsKept ==
    ASSUME Shapes, Tasks, NEW i \in 1 .. Len(heap), lock = 0, Cacheable(heap[i])
    PROVE  Kept(Whole(i, heap[i]))
<1> DEFINE a == Whole(i, heap[i])
<1>1. a.record = i /\ a.etag = Etag(heap[i])
  BY DEF Whole, Answer
<1>2. Still(i)
  <2>1. worker[i] \in Worker /\ Task(i) /\ i # 0
    BY Numbered DEF Tasks
  <2> QED BY <2>1 DEF Task, Worker, Waiting, Writing, Cacheable, Settled, Still
<1> HIDE DEF a
<1>3. a = Whole(i, heap[i])
  BY DEF a
<1> QED BY <1>1, <1>2, <1>3 DEF Kept

-----------------------------------------------------------------------------
(* Readers.                                                                *)

\* What a thread may do to itself: go on with the record it has, or find one.
ReaderMoves(t) ==
  /\ reader' \in [Thread -> Request]
  /\ \A u \in Thread : u # t => reader'[u] = reader[u]
  /\ reader'[t].step # "idle" => reader'[t].record \in 1 .. Len(heap)

\* A step that leaves records and tasks alone, and serves what is so, is safe.
LEMMA QuietStep ==
    ASSUME Known, UNCHANGED <<heap, store, lock, worker>>,
           \/ reader' = reader
           \/ \E t \in Thread : ReaderMoves(t) /\ (t \in Reader \/ Posting'),
           \A a \in answers' : a \in answers \/ Kept(a)
    PROVE  Known'
<1>1. Shapes'
  BY DEF Known, Shapes, ReaderMoves
<1>2. Tasks'
  BY DEF Known, Tasks, Apart, Unfinished, Task, Stored, Written, Filled, current
<1>3. Posting'
  <2>1. CASE Posting'
    BY <2>1
  <2>2. CASE reader'[EventLoop] = reader[EventLoop]
    BY <2>2 DEF Known, Posting, Overruled, Stored
  <2>3. Posting' \/ reader'[EventLoop] = reader[EventLoop]
    BY ConstantsAssumption DEF ReaderMoves, Thread
  <2> QED BY <2>1, <2>2, <2>3
<1>4. \A a : Kept(a) => Kept(a)'
  BY DEF Kept, Overruled, Still, Settled, Etag, Whole, Answer, Shown, Cacheable
<1>5. Served'
  BY <1>4 DEF Known, Served
<1> QED BY <1>1, <1>2, <1>3, <1>5 DEF Known

\* The record of a request under way, and what a step of it does.
LEMMA RequestEffect ==
    ASSUME Shapes, NEW t \in Thread, NEW r \in Request, reader' = [reader EXCEPT ![t] = r],
           r.step # "idle" => r.record \in 1 .. Len(heap)
    PROVE  ReaderMoves(t)
BY DEF Shapes, ReaderMoves

\* What a reader sees.
LEMMA SeenRecord ==
    ASSUME Known, NEW t \in Thread, reader[t].step # "idle"
    PROVE  /\ reader[t].record \in 1 .. Len(heap)
           /\ seen(t) \in Record
           /\ seen(t).identity # None => seen(t).outcome = "SUPPORTED"
BY Numbered DEF Known, Shapes, Tasks, Filled, seen

\* What a POST that has stored a record goes on with, while its record is as it is.
LEMMA PostingGoesOn ==
    ASSUME Known, UNCHANGED <<heap, worker>>, NEW c, reader'[EventLoop] = c,
           c.step # "idle" =>
             /\ c.step \in {"outcome", "identity", "headers"} /\ c.record = reader[EventLoop].record
             /\ reader[EventLoop].step # "idle"
             /\ ~ Overruled(c.record) =>
                  /\ c.step \in {"identity", "headers"} => c.outcome = "UNSUPPORTED"
                  /\ c.step = "headers" => c.identity = None
    PROVE  Posting'
BY DEF Known, Posting, Overruled, Stored

\* Every step of a document that is read without the lock is safe.
LEMMA ServeStep == ASSUME Known, NEW t \in Thread, Serve(t) PROVE Known'
<1>0. Shapes /\ reader[t] \in Request /\ (t \in Reader \/ t = EventLoop)
  BY DEF Known, Shapes, Thread
<1>p. ASSUME t = EventLoop, reader[t].step # "idle"
      PROVE  LET c == reader[t]
                 k == c.record
             IN /\ worker[k].step = "none" /\ seen(t) = heap[k]
                /\ ~ Overruled(k) =>
                     /\ heap[k].outcome = "UNSUPPORTED" /\ heap[k].identity = None
                     /\ c.step \in {"identity", "headers"} => c.outcome = "UNSUPPORTED"
                     /\ c.step = "headers" => c.identity = None
  BY <1>p DEF Known, Posting, Stored, seen
<1>2. CASE ReadOutcome(t)
  <2>1. /\ seen(t).outcome \in {"PENDING"} \cup Terminal /\ reader[t].record \in 1 .. Len(heap)
        /\ reader[t].step = "outcome"
    BY <1>2, SeenRecord DEF ReadOutcome, Record
  <2> DEFINE r == [reader[t] EXCEPT !.step = "identity", !.outcome = seen(t).outcome]
  <2>2. /\ r \in Request /\ r.record = reader[t].record /\ reader' = [reader EXCEPT ![t] = r]
        /\ r.step = "identity" /\ r.outcome = seen(t).outcome
    BY <1>0, <1>2, <2>1 DEF Request, ReadOutcome, Shapes
  <2> HIDE DEF r
  <2>3. ReaderMoves(t) /\ reader'[t] = r
    BY <1>0, <2>1, <2>2, RequestEffect DEF Shapes
  <2>4. t \in Reader \/ Posting'
    BY <1>0, <1>2, <1>p, <2>1, <2>2, <2>3, PostingGoesOn DEF ReadOutcome
  <2> QED BY <1>2, <2>3, <2>4, QuietStep DEF ReadOutcome
<1>3. CASE ReadIdentity(t)
  <2>1. /\ Shown(seen(t)) \in Package \cup {None} /\ reader[t].record \in 1 .. Len(heap)
        /\ reader[t].step = "identity"
    BY <1>3, SeenRecord DEF ReadIdentity, Record, Shown
  <2> DEFINE r == [reader[t] EXCEPT !.step = "headers", !.identity = Shown(seen(t))]
  <2>2. /\ r \in Request /\ r.record = reader[t].record /\ reader' = [reader EXCEPT ![t] = r]
        /\ r.step = "headers" /\ r.outcome = reader[t].outcome /\ r.identity = Shown(seen(t))
    BY <1>0, <1>3, <2>1 DEF Request, ReadIdentity, Shapes
  <2> HIDE DEF r
  <2>3. ReaderMoves(t) /\ reader'[t] = r
    BY <1>0, <2>1, <2>2, RequestEffect DEF Shapes
  <2>4. ASSUME t = EventLoop, ~ Overruled(reader[t].record)
        PROVE  Shown(seen(t)) = None /\ reader[t].outcome = "UNSUPPORTED"
    BY <1>p, <2>1, <2>4 DEF Shown
  <2>5. t \in Reader \/ Posting'
    BY <1>0, <1>3, <2>1, <2>2, <2>3, <2>4, PostingGoesOn DEF ReadIdentity
  <2> QED BY <1>3, <2>3, <2>5, QuietStep DEF ReadIdentity
<1>4. CASE ReadHeaders(t)
  <2>1. NoReader \in Request /\ NoReader.step = "idle" /\ reader' = [reader EXCEPT ![t] = NoReader]
        /\ reader[t].step = "headers"
    BY <1>4 DEF NoReader, Request, ReadHeaders
  <2>2. ReaderMoves(t) /\ reader'[t] = NoReader
    BY <1>0, <2>1, RequestEffect DEF Shapes
  <2> DEFINE kind == IF t = EventLoop THEN "post" ELSE "get"
             c == reader[t]
             k == reader[t].record
             a == Answer(kind, k, c.outcome, c.identity, seen(t))
  <2>3. k \in 1 .. Len(heap) /\ seen(t) = heap[k]
    BY <1>0, <2>1 DEF Shapes, seen
  <2>4. a.record = k /\ a.kind = kind /\ a.etag = Etag(heap[k])
    BY <2>3 DEF Answer
  <2>5. ASSUME t = EventLoop, ~ Overruled(k)
        PROVE  Still(k) /\ a = Whole(k, heap[k])
    <3>1. /\ worker[k].step = "none" /\ heap[k].outcome = "UNSUPPORTED" /\ heap[k].identity = None
          /\ c.outcome = "UNSUPPORTED" /\ c.identity = None
      BY <1>p, <2>1, <2>5
    <3>2. Still(k)
      <4>1. lock # 0 => lock \in DOMAIN worker
        BY <1>0 DEF Shapes
      <4>2. lock # k
        BY <2>3, <3>1 DEF Known, Tasks, Task, Writing
      <4> QED BY <2>5, <3>1, <4>1, <4>2 DEF Still, Settled, Overruled
    <3> QED BY <2>3, <2>5, <3>1, <3>2 DEF Whole, Shown
  <2>6. kind = "post" => t = EventLoop
    OBVIOUS
  <2>7. answers' = answers \/ answers' = answers \cup {a}
    BY <1>4 DEF ReadHeaders, Send
  <2> HIDE DEF a, k, kind
  <2>8. Kept(a)
    BY <2>3, <2>4, <2>5, <2>6 DEF Kept
  <2>9. t \in Reader \/ Posting'
    BY <1>0, <1>4, <2>1, <2>2, PostingGoesOn DEF ReadHeaders
  <2> QED BY <1>4, <2>2, <2>7, <2>8, <2>9, QuietStep DEF ReadHeaders
<1> QED BY <1>2, <1>3, <1>4 DEF Serve

\* Every step of a GET is safe.
LEMMA GetStep == ASSUME Known, NEW t \in Reader, Get(t) PROVE Known'
<1>0. Shapes /\ reader[t] \in Request /\ t \in Thread
  BY DEF Known, Shapes, Thread
<1>1. ASSUME NEW p \in Place, Find(t, p) PROVE Known'
  <2>1. PICK next \in {"outcome", "ready"} :
          reader' = [reader EXCEPT ![t].step = next, ![t].record = store[p]]
    BY <1>1 DEF Find
  <2>2. store[p] \in 1 .. Len(heap) /\ store[p] \in Nat
    BY <1>0, <1>1, Numbered DEF Find, Shapes
  <2> DEFINE i == store[p]
             r == [reader[t] EXCEPT !.step = next, !.record = i]
  <2>3. i \in Nat /\ reader' = [reader EXCEPT ![t] = r]
    BY <1>0, <2>1, <2>2 DEF Shapes
  <2>4. r \in Request /\ r.record = i
    <3> HIDE DEF i
    <3> QED BY <1>0, <2>3 DEF Request
  <2> HIDE DEF r
  <2>5. ReaderMoves(t)
    BY <1>0, <2>2, <2>3, <2>4, RequestEffect
  <2> QED BY <1>0, <1>1, <2>5, QuietStep DEF Find
<1>2. CASE ReadReady(t)
  <2> DEFINE r == [reader[t] EXCEPT !.step = "geometry"]
  <2>1. /\ reader' = [reader EXCEPT ![t] = NoReader] \/ reader' = [reader EXCEPT ![t] = r]
        /\ reader[t].step = "ready"
    BY <1>0, <1>2 DEF ReadReady, Shapes
  <2>2. r \in Request /\ r.record \in 1 .. Len(heap)
    BY <1>0, <2>1 DEF Request, Shapes
  <2>3. NoReader \in Request /\ NoReader.step = "idle"
    BY DEF NoReader, Request
  <2> HIDE DEF r
  <2>4. ReaderMoves(t)
    BY <1>0, <2>1, <2>2, <2>3, RequestEffect
  <2> QED BY <1>0, <1>2, <2>4, QuietStep DEF ReadReady
<1>3. CASE ReadGeometry(t)
  <2>1. NoReader \in Request /\ NoReader.step = "idle"
    BY DEF NoReader, Request
  <2>2. ReaderMoves(t)
    BY <1>0, <1>3, <2>1, RequestEffect DEF ReadGeometry
  <2> DEFINE a == [Answer("geometry", reader[t].record, "SUPPORTED", seen(t).geometry, seen(t))
                     EXCEPT !.cached = TRUE, !.etag = seen(t).identity]
  <2>3. a.record = reader[t].record /\ a.kind = "geometry" /\ a.etag = seen(t).identity
    BY DEF Answer
  <2>4. reader[t].step # "idle"
    BY <1>3 DEF ReadGeometry
  <2>5. answers' = answers \/ answers' = answers \cup {a}
    BY <1>3 DEF ReadGeometry, Send
  <2> HIDE DEF a
  <2>6. Kept(a)
    BY <1>0, <2>3, <2>4, SeenRecord DEF Kept, Etag, seen
  <2> QED BY <1>0, <1>3, <2>2, <2>5, <2>6, QuietStep DEF ReadGeometry
<1> QED BY <1>0, <1>1, <1>2, <1>3, ServeStep DEF Get

-----------------------------------------------------------------------------
(* Tasks.                                                                  *)

\* A step of a waiting task, which may forget the record it works on.
LEMMA WaitingStep ==
    ASSUME Known, NEW i \in 1 .. Len(heap), NEW w \in Worker,
           worker[i].step \in Waiting, w.step \in Waiting \cup {"died", "done"}, w.record = 0,
           worker' = [worker EXCEPT ![i] = w],
           UNCHANGED <<heap, lock, reader, answers>>,
           \/ store' = store
           \/ w.step = "done" /\ store' = [store EXCEPT ![heap[i].place] = 0]
    PROVE  Known'
<1>0. /\ Shapes /\ Task(i) /\ i # 0 /\ heap[i].place \in Place
      /\ heap[i].outcome = "PENDING" /\ lock # i /\ worker[i].record = 0
      /\ worker[i].step \notin Writing /\ worker[i].step # "none" /\ ~ Settled(i)
  BY Numbered DEF Known, Tasks, Task, Waiting, Writing, Settled
<1>1. /\ worker' \in Seq(Worker) /\ Len(worker') = Len(heap) /\ worker'[i] = w
      /\ \A j \in 1 .. Len(heap) : j # i => worker'[j] = worker[j]
  BY <1>0, TaskEffect
<1>2. Len(heap) \in Nat /\ w.step \notin Writing
  BY <1>0, Numbered DEF Waiting, Writing
<1>3. Shapes'
  <2>1. store \in [Place -> 0 .. Len(heap)] /\ 0 \in 0 .. Len(heap)
    BY <1>0, <1>2 DEF Shapes
  <2>2. store' \in [Place -> 0 .. Len(heap)]
    BY <2>1
  <2>3. \A p \in Place : store'[p] \in {0, store[p]}
    BY <2>1, <1>0
  <2> QED BY <1>0, <1>1, <2>2, <2>3 DEF Shapes
<1>4. ASSUME NEW j \in 1 .. Len(heap), j # i PROVE Task(j)' /\ Written(j)' /\ Filled(j)'
  <2>1. Task(j) /\ Written(j) /\ Filled(j) /\ worker'[j] = worker[j] /\ heap[j].place \in Place
    BY <1>0, <1>1, <1>4, Numbered DEF Known, Tasks
  <2>2. Unfinished(j) => current(j)' = current(j)
    <3> SUFFICES ASSUME Unfinished(j) PROVE current(j)' = current(j)
      OBVIOUS
    <3>1. heap[j].place # heap[i].place
      BY <1>4 DEF Known, Tasks, Apart, Unfinished
    <3>2. store'[heap[j].place] = store[heap[j].place]
      BY <1>0, <2>1, <3>1 DEF Shapes
    <3> QED BY <3>2 DEF current
  <2>3. \A k \in 1 .. Len(heap) : worker[k].step = "none" => worker'[k].step = "none"
    BY <1>0, <1>1
  <2>4. current(j) \in 0 .. Len(heap)
    BY <1>0, <2>1 DEF current, Shapes
  <2>5. ASSUME worker[j].step \in Waiting
        PROVE  current(j)' = j \/ (current(j)' # 0 /\ Stored(current(j))')
    <3> DEFINE k == current(j)
    <3>1. k = j \/ (k # 0 /\ Stored(k))
      BY <2>1, <2>5 DEF Task
    <3>2. current(j)' = k /\ k \in 0 .. Len(heap)
      BY <2>2, <2>4, <2>5 DEF Unfinished
    <3> HIDE DEF k
    <3>3. k # 0 => k \in 1 .. Len(heap)
      BY <1>2, <3>2
    <3> QED BY <2>3, <3>1, <3>2, <3>3 DEF Stored
  <2>6. Task(j)'
    BY <2>1, <2>5 DEF Task
  <2>7. Written(j)'
    <3> SUFFICES ASSUME worker[j].step \in Writing PROVE Written(j)'
      BY <2>1 DEF Written
    <3>1. worker[j].record = current(j) /\ current(j) # 0 /\ current(j) \in 1 .. Len(heap)
      BY <1>2, <2>1, <2>4 DEF Written
    <3>2. current(j)' = current(j)
      BY <2>2 DEF Unfinished
    <3> QED BY <2>1, <2>3, <3>1, <3>2 DEF Written
  <2> QED BY <2>1, <2>6, <2>7 DEF Filled
<1>5. Task(i)' /\ Written(i)' /\ Filled(i)'
  <2>1. w.step \in Waiting => store' = store
    BY DEF Waiting
  <2>2. w.step \in Waiting => (current(i)' = i \/ (current(i)' # 0 /\ Stored(current(i))'))
    <3> SUFFICES ASSUME w.step \in Waiting, current(i) # i
                 PROVE  current(i)' # 0 /\ Stored(current(i))'
      BY <1>0, <2>1 DEF current
    <3> DEFINE k == current(i)
    <3>1. k \in 1 .. Len(heap) /\ Stored(k)
      BY <1>0, <1>2 DEF Task, current, Shapes
    <3>2. current(i)' = k
      BY <2>1 DEF current
    <3> HIDE DEF k
    <3>3. worker'[k] = worker[k] /\ k # 0
      BY <1>0, <1>1, <3>1 DEF Stored
    <3> QED BY <3>1, <3>2, <3>3 DEF Stored
  <2>3. Filled(i)'
    BY DEF Known, Tasks, Filled
  <2> QED BY <1>0, <1>1, <1>2, <2>2, <2>3 DEF Task, Written
<1>6. Apart'
  BY <1>0, <1>1, <1>2 DEF Known, Tasks, Apart, Unfinished
<1>7. Ahead
  <2> SUFFICES ASSUME NEW k \in 1 .. Len(heap)
               PROVE  /\ Stays(k) /\ (worker[k].step = "none" => worker'[k].step = "none")
                      /\ worker[k].record # 0 => worker'[k].record = worker[k].record
    BY <1>2 DEF Ahead
  <2>1. Still(k) => worker'[k].step \in {"none", "done"}
    BY <1>0, <1>1 DEF Still, Settled
  <2>2. lock # 0 => worker'[lock] = worker[lock]
    BY <1>0, <1>1, <1>2 DEF Shapes
  <2> QED BY <1>0, <1>1, <2>1, <2>2 DEF Stays, Still
<1>8. Served' /\ Posting'
  BY <1>0, <1>3, <1>7, KeptAhead, PostingAhead DEF Known, Served
<1> QED BY <1>3, <1>4, <1>5, <1>6, <1>8 DEF Known, Tasks

\* A step of a task that writes: it has the lock, or takes it, and writes the record
\* that its place has.  That keeps the record's ETag, or overrules a stored one.
LEMMA WritingStep ==
    ASSUME Known, NEW i \in 1 .. Len(heap), NEW n \in 1 .. Len(heap), n = current(i),
           NEW w \in Worker, NEW r \in Record,
           worker[i].step \in Writing \cup {"outcome"}, lock \in {0, i},
           worker' = [worker EXCEPT ![i] = w], heap' = [heap EXCEPT ![n] = r],
           UNCHANGED <<store, reader, answers>>,
           w.record = n, w.step \in Writing \cup {"done"},
           lock' = IF w.step = "done" THEN 0 ELSE i,
           w.step \in {"identity", "geometry"} => r.outcome = "SUPPORTED" /\ w.result \in Package,
           w.step = "identity" => r.identity = None,
           w.step = "reason" => r.outcome = "SUPPORTED" \/ n # i \/ r.reason = None,
           r.place = heap[n].place, r.outcome # "PENDING",
           r.identity # None => r.outcome = "SUPPORTED",
           Etag(heap[n]) # None /\ (n # i => Etag(heap[n]) \in Package) => Etag(r) = Etag(heap[n])
    PROVE  Known'
<1>0. /\ Shapes /\ Task(i) /\ Written(i) /\ i # 0 /\ n # 0 /\ Len(heap) \in Nat
      /\ Unfinished(i) /\ worker[i].step # "none" /\ ~ Settled(i)
      /\ worker[i].record \in {0, n}
      /\ n = i \/ worker[n].step = "none"
  <2>1. Shapes /\ Task(i) /\ Written(i) /\ i # 0 /\ n # 0 /\ Len(heap) \in Nat
    BY Numbered DEF Known, Tasks
  <2>2. Unfinished(i) /\ worker[i].step # "none" /\ ~ Settled(i)
    BY DEF Unfinished, Waiting, Writing, Settled
  <2>3. worker[i].record \in {0, n}
    BY <2>1 DEF Task, Written, Waiting
  <2>4. n = i \/ worker[n].step = "none"
    BY <2>1 DEF Task, Written, Waiting, Stored
  <2> QED BY <2>1, <2>2, <2>3, <2>4
<1>1. /\ worker' \in Seq(Worker) /\ Len(worker') = Len(heap) /\ worker'[i] = w
      /\ \A j \in 1 .. Len(heap) : j # i => worker'[j] = worker[j]
  BY <1>0, TaskEffect
<1>2. /\ heap' \in Seq(Record) /\ Len(heap') = Len(heap) /\ heap'[n] = r
      /\ \A j \in 1 .. Len(heap) : j # n => heap'[j] = heap[j]
  BY <1>0, RecordEffect
<1>3. \A j \in 1 .. Len(heap) : heap'[j].place = heap[j].place /\ current(j)' = current(j)
  BY <1>2 DEF current
<1>4. Shapes'
  <2>1. \A p \in Place : store[p] # 0 => heap'[store[p]].place = p
    <3> SUFFICES ASSUME NEW p \in Place, store[p] # 0 PROVE heap'[store[p]].place = p
      OBVIOUS
    <3>1. store[p] \in 1 .. Len(heap)
      BY <1>0 DEF Shapes
    <3> QED BY <1>0, <1>3, <3>1 DEF Shapes
  <2>2. lock' \in 0 .. Len(heap)
    BY <1>0
  <2> QED BY <1>0, <1>1, <1>2, <2>1, <2>2 DEF Shapes
<1>5. w.step \in Writing <=> lock' = i
  BY <1>0 DEF Writing
<1>6. heap[n].place = heap[i].place
  BY <1>0, Numbered DEF Shapes, current
<1>7. ASSUME NEW j \in 1 .. Len(heap), j # i PROVE Task(j)' /\ Written(j)' /\ Filled(j)'
  <2>1. /\ Task(j) /\ Written(j) /\ Filled(j) /\ worker'[j] = worker[j] /\ j # 0
        /\ heap[j].place \in Place
    BY <1>0, <1>1, <1>7, Numbered DEF Known, Tasks
  <2>2. worker[j].step \notin Writing /\ lock' # j
    BY <1>7, <2>1 DEF Task
  <2>3. worker[j].step \in Waiting => worker[j].record = 0
                                      /\ (current(j)' = j \/ (current(j)' # 0 /\ Stored(current(j))'))
    <3> SUFFICES ASSUME worker[j].step \in Waiting, current(j) # j
                 PROVE  current(j)' # 0 /\ Stored(current(j))'
      BY <1>3, <2>1 DEF Task
    <3> DEFINE k == current(j)
    <3>1. k \in 1 .. Len(heap) /\ Stored(k) /\ heap[k].place = heap[j].place
      BY <1>0, <2>1 DEF Task, current, Shapes
    <3>2. heap[j].place # heap[i].place
      BY <1>0, <1>7 DEF Known, Tasks, Apart, Unfinished
    <3>3. current(j)' = k
      BY <1>3
    <3> HIDE DEF k
    <3>4. k # n /\ k # i /\ k # 0
      BY <1>0, <1>6, <3>1, <3>2 DEF Stored
    <3>5. worker'[k] = worker[k] /\ heap'[k] = heap[k]
      BY <1>1, <1>2, <3>1, <3>4
    <3> QED BY <3>1, <3>3, <3>4, <3>5 DEF Stored
  <2>4. worker[j].step \in Waiting \cup {"died"} => heap'[j].outcome = "PENDING"
    <3> SUFFICES ASSUME worker[j].step \in Waiting \cup {"died"} PROVE heap'[j] = heap[j]
      BY <2>1 DEF Task
    <3>1. j # n
      BY <1>0, <1>7 DEF Waiting
    <3> QED BY <1>2, <3>1
  <2>5. Filled(j)'
    BY <1>2, <2>1 DEF Filled
  <2> QED BY <2>1, <2>2, <2>3, <2>4, <2>5 DEF Task, Written
<1>8. Task(i)' /\ Written(i)' /\ Filled(i)'
  <2>1. w.step \notin Waiting /\ w.step # "died"
    BY DEF Waiting, Writing
  <2>2. Task(i)'
    BY <1>1, <1>5, <2>1 DEF Task
  <2>3. Filled(i)'
    BY <1>0, <1>2 DEF Known, Tasks, Filled
  <2>4. n = i \/ worker'[n].step = "none"
    BY <1>0, <1>1
  <2>5. Written(i)'
    BY <1>0, <1>1, <1>2, <1>3, <2>4 DEF Written
  <2> QED BY <2>2, <2>3, <2>5
<1>9. Apart'
  BY <1>0, <1>1, <1>2, <1>3 DEF Known, Tasks, Apart, Unfinished
<1>10. Ahead
  <2> SUFFICES ASSUME NEW k \in 1 .. Len(heap)
               PROVE  /\ Stays(k) /\ (worker[k].step = "none" => worker'[k].step = "none")
                      /\ worker[k].record # 0 => worker'[k].record = worker[k].record
    BY <1>0, <1>2 DEF Ahead
  <2>0. worker[k].step = "none" => worker'[k].step = "none"
    BY <1>0, <1>1
  <2>1. worker[k].record # 0 => worker'[k].record = worker[k].record
    <3>1. CASE k = i
      <4>1. worker'[i].record = n
        BY <1>1
      <4>2. worker[i].record # 0 => worker[i].record = n
        BY <1>0
      <4> QED BY <3>1, <4>1, <4>2
    <3>2. CASE k # i
      BY <1>1, <3>2
    <3> QED BY <3>1, <3>2
  <2>2. CASE k # n
    <3>1. heap'[k] = heap[k]
      BY <1>2, <2>2
    <3>2. lock' # 0 => worker'[lock'].record # k
      BY <1>1, <2>2
    <3>3. Still(k) => worker'[k].step \in {"none", "done"}
      BY <1>0, <1>1 DEF Still, Settled
    <3> QED BY <2>0, <2>1, <3>1, <3>2, <3>3 DEF Stays
  <2>3. CASE k = n /\ n # i
    <3>1. Etag(heap[n]) \in Package => Etag(r) = Etag(heap[n])
      BY <2>3, ConstantsAssumption
    <3> QED BY <1>1, <1>2, <2>0, <2>1, <2>3, <3>1 DEF Stays
  <2>4. CASE k = n /\ n = i
    <3>1. Etag(heap[n]) # None => Etag(r) = Etag(heap[n])
      BY <2>4
    <3>2. ~ Still(n)
      BY <1>0, <2>4 DEF Still
    <3>3. Etag(heap[n]) \in Package => Etag(heap[n]) # None
      BY ConstantsAssumption
    <3> QED BY <1>2, <2>0, <2>1, <2>4, <3>1, <3>2, <3>3 DEF Stays
  <2> QED BY <2>2, <2>3, <2>4
<1>11. Served' /\ Posting'
  BY <1>0, <1>4, <1>10, KeptAhead, PostingAhead DEF Known, Served
<1>12. Tasks'
  BY <1>2, <1>7, <1>8, <1>9 DEF Tasks
<1> QED BY <1>4, <1>11, <1>12 DEF Known

\* A task that is none, and one that starts.
LEMMA NoWorkerType == /\ NoWorker \in Worker /\ NoWorker.step = "none" /\ NoWorker.record = 0
                      /\ [NoWorker EXCEPT !.step = "queued"] \in Worker
                      /\ [NoWorker EXCEPT !.step = "queued"].step = "queued"
                      /\ [NoWorker EXCEPT !.step = "queued"].record = 0
BY DEF NoWorker, Worker, Result, Waiting, Writing

\* The outcome that a task writes, as a record.
LEMMA OutcomeWritten ==
    ASSUME Shapes, NEW n \in 1 .. Len(heap), NEW v \in {"PENDING"} \cup Terminal,
           Write(n, "outcome", v)
    PROVE  /\ [heap[n] EXCEPT !.outcome = v] \in Record
           /\ heap' = [heap EXCEPT ![n] = [heap[n] EXCEPT !.outcome = v]]
<1>1. heap[n] \in Record
  BY Numbered
<1> QED BY <1>1 DEF Write, Record

\* The identity that a task writes, as a record.
LEMMA IdentityWritten ==
    ASSUME Shapes, NEW n \in 1 .. Len(heap), NEW v \in Package, Write(n, "identity", v)
    PROVE  /\ [heap[n] EXCEPT !.identity = v] \in Record
           /\ heap' = [heap EXCEPT ![n] = [heap[n] EXCEPT !.identity = v]]
<1>1. heap[n] \in Record
  BY Numbered
<1> QED BY <1>1 DEF Write, Record

\* The geometry that a task writes, as a record.
LEMMA GeometryWritten ==
    ASSUME Shapes, NEW n \in 1 .. Len(heap), NEW v \in Package, Write(n, "geometry", v)
    PROVE  /\ [heap[n] EXCEPT !.geometry = v] \in Record
           /\ heap' = [heap EXCEPT ![n] = [heap[n] EXCEPT !.geometry = v]]
<1>1. heap[n] \in Record
  BY Numbered
<1> QED BY <1>1 DEF Write, Record

\* The reason that a task writes, as a record.
LEMMA ReasonWritten ==
    ASSUME Shapes, NEW n \in 1 .. Len(heap), NEW v \in Reason, Write(n, "reason", v)
    PROVE  /\ [heap[n] EXCEPT !.reason = v] \in Record
           /\ heap' = [heap EXCEPT ![n] = [heap[n] EXCEPT !.reason = v]]
<1>1. heap[n] \in Record
  BY Numbered
<1> QED BY <1>1 DEF Write, Record

\* The next step of a task, as a task.
LEMMA GoToTask ==
    ASSUME Shapes, NEW i \in 1 .. Len(heap), NEW from,
           NEW to \in {"died", "done"} \cup Waiting \cup Writing, GoTo(i, from, to)
    PROVE  LET w == [worker[i] EXCEPT !.step = to]
           IN /\ w \in Worker /\ w.step = to
              /\ w.result = worker[i].result /\ w.record = worker[i].record
              /\ worker' = [worker EXCEPT ![i] = w] /\ worker[i].step = from
<1>1. worker[i] \in Worker
  BY Numbered
<1>2. worker' = [worker EXCEPT ![i] = [worker[i] EXCEPT !.step = to]] /\ worker[i].step = from
  BY DEF GoTo
<1> QED BY <1>1, <1>2 DEF Worker

\* Every step of a waiting task is safe.
LEMMA WaitStep ==
    ASSUME Known, NEW i \in 1 .. Len(heap),
           Begin(i) \/ LoadIndex(i) \/ DropRecord(i) \/ Materialize(i)
    PROVE  Known'
<1>0. /\ Shapes /\ worker[i] \in Worker
      /\ worker[i].step \in Waiting => worker[i].record = 0
  BY Numbered DEF Known, Tasks, Task
<1>1. CASE Begin(i)
  <2>1. PICK to \in {"look", "done"} : GoTo(i, "queued", to)
    BY <1>1 DEF Begin
  <2> DEFINE w == [worker[i] EXCEPT !.step = to]
  <2>2. /\ w \in Worker /\ worker' = [worker EXCEPT ![i] = w] /\ worker[i].step = "queued"
        /\ w.step = to /\ w.record = worker[i].record
    BY <1>0, <2>1, GoToTask DEF Waiting
  <2>3. worker[i].step \in Waiting /\ w.step \in Waiting \cup {"died", "done"}
    BY <2>2 DEF Waiting
  <2> HIDE DEF w
  <2> QED BY <1>0, <1>1, <2>2, <2>3, WaitingStep DEF Begin
<1>2. CASE LoadIndex(i)
  <2>1. PICK to \in {"died", "materialize", "drop"} : GoTo(i, "look", to)
    BY <1>2 DEF LoadIndex
  <2> DEFINE w == [worker[i] EXCEPT !.step = to]
  <2>2. /\ w \in Worker /\ worker' = [worker EXCEPT ![i] = w] /\ worker[i].step = "look"
        /\ w.step = to /\ w.record = worker[i].record
    BY <1>0, <2>1, GoToTask DEF Waiting
  <2>3. worker[i].step \in Waiting /\ w.step \in Waiting \cup {"died", "done"}
    BY <2>2 DEF Waiting
  <2> HIDE DEF w
  <2> QED BY <1>0, <1>2, <2>2, <2>3, WaitingStep DEF LoadIndex
<1>3. CASE DropRecord(i)
  <2>1. store' = store \/ store' = [store EXCEPT ![heap[i].place] = 0]
    BY <1>0, <1>3, Numbered DEF DropRecord, Shapes
  <2>2. GoTo(i, "drop", "done")
    BY <1>3 DEF DropRecord
  <2> DEFINE w == [worker[i] EXCEPT !.step = "done"]
  <2>3. /\ w \in Worker /\ worker' = [worker EXCEPT ![i] = w] /\ worker[i].step = "drop"
        /\ w.step = "done" /\ w.record = worker[i].record
    BY <1>0, <2>2, GoToTask DEF Waiting
  <2>4. worker[i].step \in Waiting /\ w.step \in Waiting \cup {"died", "done"}
    BY <2>3 DEF Waiting
  <2> HIDE DEF w
  <2> QED BY <1>0, <1>3, <2>1, <2>3, <2>4, WaitingStep DEF DropRecord
<1>4. CASE Materialize(i)
  <2>1. PICK result \in Package \cup {"unsupported", "raised"} :
          worker' = [worker EXCEPT ![i].step = "outcome", ![i].result = result]
    BY <1>4 DEF Materialize
  <2> DEFINE w == [worker[i] EXCEPT !.step = "outcome", !.result = result]
  <2>2. w \in Worker /\ w.step = "outcome" /\ w.record = worker[i].record
    BY <1>0 DEF Worker, Waiting, Result
  <2>3. worker' = [worker EXCEPT ![i] = w] /\ worker[i].step = "materialize"
    BY <1>0, <1>4, <2>1 DEF Materialize, Shapes
  <2>4. worker[i].step \in Waiting /\ w.step \in Waiting \cup {"died", "done"}
    BY <2>2, <2>3 DEF Waiting
  <2> HIDE DEF w
  <2> QED BY <1>0, <1>4, <2>2, <2>3, <2>4, WaitingStep DEF Materialize
<1> QED BY <1>1, <1>2, <1>3, <1>4

\* Every write of a task is safe.
LEMMA WriteStep ==
    ASSUME Known, NEW i \in 1 .. Len(heap),
           WriteOutcome(i) \/ WriteIdentity(i) \/ WriteGeometry(i) \/ WriteReason(i)
    PROVE  Known'
<1> DEFINE n == current(i)
<1>0. /\ Shapes /\ Task(i) /\ Written(i) /\ Filled(i) /\ worker[i] \in Worker /\ i # 0
      /\ Len(heap) \in Nat /\ n \in 0 .. Len(heap)
      /\ n # 0 => /\ n \in 1 .. Len(heap) /\ heap[n] \in Record /\ Filled(n)
  <2>1. /\ Shapes /\ Task(i) /\ Written(i) /\ Filled(i) /\ worker[i] \in Worker /\ i # 0
        /\ Len(heap) \in Nat /\ heap[i].place \in Place
    BY Numbered DEF Known, Tasks
  <2>2. n \in 0 .. Len(heap)
    BY <2>1 DEF Shapes, current
  <2> QED BY <2>1, <2>2, Numbered DEF Known, Tasks
\* A task that writes holds the lock, and writes the record of its place.
<1>w. worker[i].step \in Writing =>
        /\ lock = i /\ n \in 1 .. Len(heap) /\ worker[i].record = n /\ heap[n] \in Record
        /\ heap[n].outcome # "PENDING" /\ (heap[n].identity # None => heap[n].outcome = "SUPPORTED")
  BY <1>0 DEF Task, Written, Filled
<1>1. CASE WriteOutcome(i)
  <2> DEFINE to == IF worker[i].result \in Package THEN "identity" ELSE "reason"
             v == CASE worker[i].result = "unsupported" -> "UNSUPPORTED"
                    [] worker[i].result = "raised" -> "FAILED"
                    [] OTHER -> "SUPPORTED"
             w == [worker[i] EXCEPT !.record = n, !.step = to]
             r == [heap[n] EXCEPT !.outcome = v]
  <2>1. /\ to \in {"identity", "reason"} /\ v \in Terminal
        /\ to = "identity" => v = "SUPPORTED" /\ worker[i].result \in Package
    BY ConstantsAssumption DEF Terminal
  <2>2. /\ Write(n, "outcome", v) /\ lock = 0 /\ lock' = i /\ n # 0
        /\ worker[i].step = "outcome" /\ UNCHANGED <<store, reader, answers>>
        /\ worker' = [worker EXCEPT ![i].record = n, ![i].step = to]
    BY <1>1 DEF WriteOutcome
  <2> HIDE DEF to, v
  <2>3. n \in 1 .. Len(heap) /\ heap[n] \in Record /\ Filled(n)
    BY <1>0, <2>2
  <2>4. n = i \/ Stored(n)
    BY <1>0, <2>2 DEF Task, Waiting
  <2>5. heap[n].identity = None /\ (n = i => heap[n].outcome = "PENDING" /\ heap[n].reason = None)
    BY <1>0, <2>2, <2>3, <2>4 DEF Task, Waiting, Stored, Filled
  <2>6. Etag(heap[n]) \notin Package
    BY <2>3, <2>4, <2>5, ConstantsAssumption DEF Etag, Stored, Record, Reason
  <2>7. n = i => Etag(heap[n]) = None
    BY <2>5 DEF Etag
  <2>8. r \in Record /\ heap' = [heap EXCEPT ![n] = r]
    <3> HIDE DEF n
    <3> QED BY <1>0, <2>1, <2>2, <2>3, OutcomeWritten
  <2> HIDE DEF n
  <2>9. worker' = [worker EXCEPT ![i] = w]
    BY <1>0, <2>2 DEF Shapes
  <2>10. w \in Worker /\ w.step = to /\ w.record = n /\ w.result = worker[i].result
    <3>1. n \in Nat /\ worker[i] \in Worker
      BY <1>0, <2>3
    <3>2. to \in {"none", "done", "died"} \cup Waiting \cup Writing
      BY <2>1 DEF Writing
    <3> QED BY <3>1, <3>2 DEF Worker
  <2>11. r.outcome = v /\ r.identity = None /\ r.reason = heap[n].reason /\ r.place = heap[n].place
    BY <2>3, <2>5 DEF Record
  <2> HIDE DEF w, r
  <2>12. v # "PENDING" /\ to \in Writing /\ to # "geometry" /\ to # "done"
    BY <2>1 DEF Terminal, Writing
  <2>13. to = "reason" => n # i \/ r.reason = None
    BY <2>5, <2>11
  <2>14. n = current(i)
    BY DEF n
  <2> QED BY <2>1, <2>2, <2>3, <2>6, <2>7, <2>8, <2>9, <2>10, <2>11, <2>12, <2>13, <2>14,
             WritingStep
<1>2. CASE WriteIdentity(i)
  <2> DEFINE v == worker[i].result
             w == [worker[i] EXCEPT !.step = "geometry"]
             r == [heap[n] EXCEPT !.identity = v]
  <2>1. /\ GoTo(i, "identity", "geometry") /\ UNCHANGED <<store, lock, reader, answers>>
        /\ worker[i].step = "identity" /\ worker[i].step \in Writing
    BY <1>2 DEF WriteIdentity, GoTo, Writing
  <2>2. /\ lock = i /\ n \in 1 .. Len(heap) /\ worker[i].record = n /\ heap[n] \in Record
        /\ heap[n].outcome = "SUPPORTED" /\ heap[n].identity = None /\ v \in Package
    BY <1>0, <1>w, <2>1 DEF Written
  <2>3. Write(n, "identity", v)
    BY <1>2, <2>2 DEF WriteIdentity
  <2> HIDE DEF v
  <2>4. /\ w \in Worker /\ w.step = "geometry" /\ w.result = v /\ w.record = n
        /\ worker' = [worker EXCEPT ![i] = w]
    BY <1>0, <2>1, <2>2, GoToTask DEF Writing, v
  <2>5. Etag(heap[n]) = None
    BY <2>2 DEF Etag
  <2>6. r \in Record /\ heap' = [heap EXCEPT ![n] = r]
    <3> HIDE DEF n
    <3> QED BY <1>0, <2>2, <2>3, IdentityWritten
  <2>7. r.outcome = "SUPPORTED" /\ r.place = heap[n].place
    BY <2>2 DEF Record
  <2> HIDE DEF n, w, r
  <2>8. n = current(i) /\ w.step \in Writing \cup {"done"} /\ w.step # "done"
    BY <2>4 DEF n, Writing
  <2> QED BY <1>0, <2>1, <2>2, <2>4, <2>5, <2>6, <2>7, <2>8, WritingStep
<1>3. CASE WriteGeometry(i)
  <2> DEFINE v == worker[i].result
             w == [worker[i] EXCEPT !.step = "reason"]
             r == [heap[n] EXCEPT !.geometry = v]
  <2>1. /\ GoTo(i, "geometry", "reason") /\ UNCHANGED <<store, lock, reader, answers>>
        /\ worker[i].step = "geometry" /\ worker[i].step \in Writing
    BY <1>3 DEF WriteGeometry, GoTo, Writing
  <2>2. /\ lock = i /\ n \in 1 .. Len(heap) /\ worker[i].record = n /\ heap[n] \in Record
        /\ heap[n].outcome = "SUPPORTED" /\ v \in Package
    BY <1>0, <1>w, <2>1 DEF Written
  <2>3. Write(n, "geometry", v)
    BY <1>3, <2>2 DEF WriteGeometry
  <2> HIDE DEF v
  <2>4. /\ w \in Worker /\ w.step = "reason" /\ w.record = n
        /\ worker' = [worker EXCEPT ![i] = w]
    BY <1>0, <2>1, <2>2, GoToTask DEF Writing
  <2>5. r \in Record /\ heap' = [heap EXCEPT ![n] = r]
    <3> HIDE DEF n
    <3> QED BY <1>0, <2>2, <2>3, GeometryWritten
  <2>6. r.outcome = "SUPPORTED" /\ r.place = heap[n].place /\ r.identity = heap[n].identity
    BY <2>2 DEF Record
  <2> HIDE DEF n, w, r
  <2>7. Etag(r) = Etag(heap[n])
    BY <2>2, <2>6 DEF Etag
  <2>8. n = current(i) /\ w.step \in Writing \cup {"done"} /\ w.step # "done"
    BY <2>4 DEF n, Writing
  <2> QED BY <1>0, <2>1, <2>2, <2>4, <2>5, <2>6, <2>7, <2>8, WritingStep
<1>4. CASE WriteReason(i)
  <2> DEFINE w == [worker[i] EXCEPT !.step = "done"]
             r == [heap[n] EXCEPT !.reason = "resolver"]
  <2>1. /\ GoTo(i, "reason", "done") /\ lock' = 0 /\ UNCHANGED <<store, reader, answers>>
        /\ worker[i].step = "reason" /\ worker[i].step \in Writing
    BY <1>4 DEF WriteReason, GoTo, Writing
  <2>2. /\ lock = i /\ n \in 1 .. Len(heap) /\ worker[i].record = n /\ heap[n] \in Record
        /\ heap[n].outcome # "PENDING" /\ (heap[n].identity # None => heap[n].outcome = "SUPPORTED")
        /\ heap[n].outcome = "SUPPORTED" \/ n # i \/ heap[n].reason = None
    BY <1>0, <1>w, <2>1 DEF Written
  <2>3. Write(n, "reason", "resolver")
    BY <1>4, <2>2 DEF WriteReason
  <2>4. /\ w \in Worker /\ w.step = "done" /\ w.record = n
        /\ worker' = [worker EXCEPT ![i] = w]
    BY <1>0, <2>1, <2>2, GoToTask
  <2>5. r \in Record /\ heap' = [heap EXCEPT ![n] = r]
    <3> HIDE DEF n
    <3> QED BY <1>0, <2>2, <2>3, ReasonWritten DEF Reason
  <2>6. /\ r.outcome = heap[n].outcome /\ r.place = heap[n].place
        /\ r.identity = heap[n].identity
    BY <2>2 DEF Record
  <2> HIDE DEF n, w, r
  <2>7. Etag(heap[n]) # None /\ (n # i => Etag(heap[n]) \in Package) => Etag(r) = Etag(heap[n])
    <3>1. CASE heap[n].outcome = "SUPPORTED"
      BY <2>2, <2>6, <3>1 DEF Etag
    <3>2. CASE heap[n].outcome = "UNSUPPORTED"
      <4>1. Etag(heap[n]) = heap[n].reason /\ heap[n].reason \in Reason \cup {None}
        BY <2>2, <3>2 DEF Etag, Record
      <4> QED BY <2>2, <3>2, <4>1, ConstantsAssumption DEF Reason
    <3>3. CASE heap[n].outcome = "FAILED"
      BY <3>3 DEF Etag
    <3> QED BY <2>2, <3>1, <3>2, <3>3 DEF Record, Terminal
  <2>8. n = current(i)
    BY DEF n
  <2> QED BY <2>1, <2>2, <2>4, <2>5, <2>6, <2>7, <2>8, WritingStep
<1> QED BY <1>1, <1>2, <1>3, <1>4

-----------------------------------------------------------------------------
(* POST.                                                                   *)

\* A new record that is settled already replaces whatever its place had; one that
\* is PENDING comes where there is none.
LEMMA PublishStep ==
    ASSUME Known, lock = 0, NEW p \in Place, NEW record \in Record, NEW task \in Worker,
           Publish(p, record, task), UNCHANGED <<lock, answers>>, reader[EventLoop].step = "idle",
           record.place = p, record.identity = None, task.record = 0,
           \/ /\ task.step = "none" /\ record.outcome = "UNSUPPORTED"
              /\ reader' = [reader EXCEPT ![EventLoop] = [NoReader EXCEPT !.step = "outcome",
                                                                         !.record = Len(heap) + 1]]
           \/ /\ task.step = "queued" /\ store[p] = 0 /\ reader' = reader
              /\ record.outcome = "PENDING" /\ record.reason = None
    PROVE  Known'
<1> DEFINE n == Len(heap) + 1
<1>0. /\ Shapes /\ Len(heap) \in Nat /\ n \in Nat /\ n # 0 /\ n \notin 1 .. Len(heap)
      /\ 1 .. n = (1 .. Len(heap)) \cup {n}
  BY Numbered DEF Known
<1>1. /\ heap' = Append(heap, record) /\ worker' = Append(worker, task)
      /\ store' = [store EXCEPT ![p] = n]
  BY DEF Publish
<1>2. /\ heap' \in Seq(Record) /\ Len(heap') = n /\ heap'[n] = record
      /\ \A j \in 1 .. Len(heap) : heap'[j] = heap[j]
  <2>1. heap \in Seq(Record)
    BY <1>0 DEF Shapes
  <2> QED BY <1>1, <2>1, AppendProperties
<1>3. /\ worker' \in Seq(Worker) /\ Len(worker') = n /\ worker'[n] = task
      /\ \A j \in 1 .. Len(heap) : worker'[j] = worker[j]
  <2>1. worker \in Seq(Worker) /\ Len(worker) = Len(heap)
    BY <1>0 DEF Shapes
  <2> QED BY <1>1, <2>1, AppendProperties
<1> DEFINE c == [NoReader EXCEPT !.step = "outcome", !.record = n]
<1>r. /\ c \in Request /\ c.step = "outcome" /\ c.record = n
      /\ reader' = reader \/ (reader' = [reader EXCEPT ![EventLoop] = c] /\ task.step = "none"
                              /\ record.outcome = "UNSUPPORTED")
  BY <1>0 DEF NoReader, Request
<1> HIDE DEF n, c
<1>4. /\ store' \in [Place -> 0 .. n] /\ store'[p] = n
      /\ \A q \in Place : q # p => store'[q] = store[q] /\ store[q] \in 0 .. Len(heap)
  BY <1>0, <1>1 DEF Shapes
<1>5. Shapes'
  <2>1. \A q \in Place : store'[q] # 0 => heap'[store'[q]].place = q
    BY <1>0, <1>2, <1>4 DEF Shapes
  <2>2. /\ reader' \in [Thread -> Request]
        /\ \A t \in Thread : reader'[t].step # "idle" => reader'[t].record \in 1 .. n
    BY <1>0, <1>r DEF Shapes
  <2>3. lock' \in 0 .. n
    BY <1>0
  <2> QED BY <1>0, <1>2, <1>3, <1>4, <2>1, <2>2, <2>3 DEF Shapes
<1>6. ASSUME NEW j \in 1 .. Len(heap)
      PROVE  /\ worker[j].step \notin Writing
             /\ worker[j].step \in Waiting => heap[j].place # p \/ task.step = "none"
             /\ heap'[j] = heap[j] /\ worker'[j] = worker[j]
             /\ Task(j) /\ Filled(j) /\ heap[j].place \in Place /\ j # 0
  <2>1. Task(j) /\ Filled(j) /\ heap[j].place \in Place /\ j # 0
    BY <1>0, Numbered DEF Known, Tasks
  <2>2. worker[j].step \in Waiting => store[heap[j].place] # 0
    BY <2>1 DEF Task, current
  <2> QED BY <1>2, <1>3, <2>1, <2>2 DEF Task
<1>7. ASSUME NEW j \in 1 .. Len(heap) PROVE Task(j)' /\ Written(j)' /\ Filled(j)'
  <2>1. ASSUME worker[j].step \in Waiting
        PROVE  current(j)' = j \/ (current(j)' # 0 /\ Stored(current(j))')
    <3>1. CASE heap[j].place = p
      <4>1. current(j)' = n
        BY <1>4, <1>6, <3>1 DEF current
      <4>2. task.step = "none" /\ record.outcome = "UNSUPPORTED"
        BY <1>6, <2>1, <3>1
      <4> QED BY <1>0, <1>2, <1>3, <4>1, <4>2 DEF Stored
    <3>2. CASE heap[j].place # p
      <4> DEFINE k == current(j)
      <4>1. k = j \/ (k # 0 /\ Stored(k))
        BY <1>6, <2>1 DEF Task
      <4>2. current(j)' = k /\ k \in 0 .. Len(heap)
        BY <1>4, <1>6, <3>2 DEF current
      <4> HIDE DEF k
      <4>3. k # 0 => k \in 1 .. Len(heap)
        BY <1>0, <4>2
      <4> QED BY <1>6, <4>1, <4>2, <4>3, <1>2, <1>3 DEF Stored
    <3> QED BY <3>1, <3>2
  <2> QED BY <1>6, <2>1 DEF Task, Written, Filled
<1>8. ASSUME NEW j, j = n PROVE Task(j)' /\ Written(j)' /\ Filled(j)'
  <2>1. current(j)' = j
    BY <1>2, <1>4, <1>8 DEF current
  <2>2. lock' # j /\ task.step \notin Writing /\ task.step # "died"
    BY <1>0, <1>8 DEF Writing
  <2> QED BY <1>2, <1>3, <1>8, <2>1, <2>2 DEF Task, Waiting, Written, Filled
<1>9. Apart'
  <2>1. ASSUME NEW i, i = n, NEW j \in 1 .. Len(heap), Unfinished(i)', Unfinished(j)'
        PROVE  heap'[j].place # heap'[i].place
    <3>1. task.step = "queued"
      BY <1>3, <2>1 DEF Unfinished, Waiting, Writing
    <3>2. worker[j].step \in Waiting
      BY <1>6, <2>1 DEF Unfinished
    <3> QED BY <1>2, <1>6, <2>1, <3>1, <3>2
  <2>2. ASSUME NEW i \in 1 .. Len(heap), NEW j \in 1 .. Len(heap),
               Unfinished(i)', Unfinished(j)', heap'[i].place = heap'[j].place
        PROVE  i = j
    BY <1>6, <2>2 DEF Known, Tasks, Apart, Unfinished
  <2>3. ASSUME NEW i \in 1 .. n, NEW j \in 1 .. n,
               Unfinished(i)', Unfinished(j)', heap'[i].place = heap'[j].place
        PROVE  i = j
    BY <1>0, <2>1, <2>2, <2>3
  <2> QED BY <1>2, <2>3 DEF Apart
<1>10. Tasks'
  BY <1>0, <1>2, <1>7, <1>8, <1>9 DEF Tasks
<1>11. Ahead
  BY <1>0, <1>2, <1>3 DEF Ahead, Stays, Still, Settled
<1>12. Served'
  BY <1>0, <1>5, <1>11, KeptAhead DEF Known, Served
<1>13. Posting'
  <2>1. CASE reader' = reader
    BY <1>5, <1>11, <2>1, PostingAhead
  <2>2. CASE /\ reader' = [reader EXCEPT ![EventLoop] = c] /\ task.step = "none"
             /\ record.outcome = "UNSUPPORTED"
    <3>1. reader'[EventLoop] = c
      BY <1>0, <2>2 DEF Shapes, Thread
    <3>2. worker'[n].step = "none" /\ heap'[n].outcome = "UNSUPPORTED" /\ heap'[n].identity = None
      BY <1>2, <1>3, <2>2
    <3> QED BY <1>r, <3>1, <3>2 DEF Posting, Stored
  <2> QED BY <1>r, <2>1, <2>2
<1> QED BY <1>5, <1>10, <1>12, <1>13 DEF Known

\* Every POST is safe.
LEMMA PostStep == ASSUME Known, NEW p \in Place, Post(p) PROVE Known'
<1>1. CASE PostUnsupported(p)
  <2> DEFINE reason == IF p \in known THEN "scope" ELSE "unknown"
             r == NewRecord(p, "UNSUPPORTED", reason)
  <2>1. reason \in Reason
    BY DEF Reason
  <2>2. Publish(p, r, NoWorker)
    BY <1>1 DEF PostUnsupported
  <2> HIDE DEF reason
  <2>3. /\ r \in Record /\ r.place = p /\ r.identity = None /\ r.outcome = "UNSUPPORTED"
    BY <2>1 DEF NewRecord, Record, Terminal
  <2> HIDE DEF r
  <2> QED BY <1>1, <2>2, <2>3, NoWorkerType, PublishStep DEF PostUnsupported, Loaded
<1>2. CASE Create(p)
  <2> DEFINE r == NewRecord(p, "PENDING", None)
             w == [NoWorker EXCEPT !.step = "queued"]
  <2>1. /\ r \in Record /\ r.place = p /\ r.identity = None /\ r.outcome = "PENDING"
        /\ r.reason = None
    BY DEF NewRecord, Record
  <2>2. Publish(p, r, w) /\ w \in Worker /\ w.step = "queued" /\ w.record = 0
    BY <1>2, NoWorkerType DEF Create
  <2> HIDE DEF r, w
  <2> QED BY <1>2, <2>1, <2>2, PublishStep DEF Create, Loaded
<1>3. CASE Join(p)
  <2> DEFINE i == store[p]
             a == Whole(i, heap[i])
  <2>1. i \in 1 .. Len(heap) /\ lock = 0
    BY <1>3, Numbered DEF Join, Loaded, Known, Shapes
  <2>2. Cacheable(heap[i]) => Kept(a)
    BY <2>1, WholeIsKept DEF Known
  <2>3. answers' = answers \/ (answers' = answers \cup {a} /\ Cacheable(heap[i]))
    BY <1>3 DEF Join, Send, Whole, Answer
  <2> HIDE DEF i, a
  <2> QED BY <1>3, <2>2, <2>3, QuietStep DEF Join
<1> QED BY <1>1, <1>2, <1>3 DEF Post

-----------------------------------------------------------------------------
\* Nothing is made yet.
LEMMA KnownInit == Init => Known
<1> SUFFICES ASSUME Init PROVE Known
  OBVIOUS
<1>1. NoReader \in Request /\ NoReader.step = "idle"
  BY DEF NoReader, Request
<1>2. heap = <<>> /\ worker = <<>> /\ Len(heap) = 0
  BY DEF Init
<1>3. heap \in Seq(Record) /\ worker \in Seq(Worker) /\ Len(worker) = Len(heap)
  BY <1>2
<1>4. store \in [Place -> 0 .. Len(heap)] /\ \A p \in Place : store[p] = 0
  BY <1>2 DEF Init
<1>5. reader \in [Thread -> Request] /\ \A t \in Thread : reader[t].step = "idle"
  BY <1>1 DEF Init, Thread
<1>6. Shapes
  BY <1>2, <1>3, <1>4, <1>5 DEF Init, Shapes
<1>7. Tasks
  BY <1>2 DEF Tasks, Apart
<1>8. Served
  BY DEF Init, Served
<1>9. Posting
  BY <1>5 DEF Posting, Thread
<1> QED BY <1>6, <1>7, <1>8, <1>9 DEF Known

\* Every step is safe.
LEMMA KnownStep == Known /\ [Next]_vars => Known'
<1> SUFFICES ASSUME Known, [Next]_vars PROVE Known'
  OBVIOUS
<1>1. ASSUME NEW p \in Place, Post(p) PROVE Known'
  BY <1>1, PostStep
<1>2. ASSUME NEW i \in 1 .. MaxRecords, Work(i) PROVE Known'
  <2>1. i \in 1 .. Len(heap)
    BY <1>2, ConstantsAssumption, Numbered DEF Work, Known
  <2> QED BY <1>2, <2>1, WaitStep, WriteStep DEF Work
<1>3. ASSUME NEW t \in Reader, Get(t) PROVE Known'
  BY <1>3, GetStep
<1>4. CASE Serve(EventLoop)
  BY <1>4, ServeStep DEF Thread
<1>5. CASE GazetteerChanges \/ UNCHANGED vars
  BY <1>5, QuietStep DEF GazetteerChanges, vars
<1> QED BY <1>1, <1>2, <1>3, <1>4, <1>5 DEF Next

\* What is known holds throughout.
LEMMA KnownInvariant == Spec => []Known
BY KnownInit, KnownStep, PTL DEF Spec

\* Records, tasks and requests keep their types, a place's record is of that place,
\* and a thread reads a record that was made.
THEOREM TypeCorrect == Spec => []Shapes
<1>1. Known => Shapes
  BY DEF Known
<1> QED BY <1>1, KnownInvariant, PTL

\* No ETag of a package that was served is taken back, and no refusal or cacheable
\* answer to a POST unless a task overrules it, for any number of places, readers
\* and records, whatever the index names at each load, and wherever a request was
\* between its reads when the task wrote (_etag_for, resource_http,
\* _apply_materialize).
THEOREM AnswersAreNotTakenBack == Spec => []AnswersStay
<1>1. Known => AnswersStay
  BY DEF Known, Served, Kept, AnswersStay
<1> QED BY <1>1, KnownInvariant, PTL

\* Of the unfinished tasks of a place there is one.  While it waits, its own record
\* is as it was made, and the place has that record or one that no task is for;
\* while it writes, it has the lock, and writes the record that the place has.
TaskIsAlone ==
  \A i \in 1 .. Len(heap) : Unfinished(i) =>
    /\ \A j \in 1 .. Len(heap) : Unfinished(j) /\ heap[j].place = heap[i].place => j = i
    /\ current(i) = i \/ (current(i) # 0 /\ worker[current(i)].step = "none")
    /\ worker[i].step \in Waiting => heap[i].outcome = "PENDING"
    /\ worker[i].step \in Writing => lock = i /\ worker[i].record = current(i)

\* A place has no more than one task under way, whatever the index names at each
\* POST: its record is that task's own or one that was stored since, which the task
\* then settles, under the lock (create_or_join, run_geography_worker).
THEOREM TasksAreAlone == Spec => []TaskIsAlone
<1>1. Known => TaskIsAlone
  BY DEF Known, Tasks, Apart, Task, Written, Stored, TaskIsAlone, Unfinished
<1> QED BY <1>1, KnownInvariant, PTL
=============================================================================
