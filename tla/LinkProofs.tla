------------------------------- MODULE LinkProofs -------------------------------
(***************************************************************************)
(* Proofs about CandidateLink, for every number of requests and workers    *)
(* and every number of attempts: one worker at a time runs the fetch job   *)
(* of a link, what is left behind of a link has the causes that its        *)
(* properties name, and a Job Match that counts as current saw the content *)
(* the link has.                                                           *)
(***************************************************************************)
EXTENDS CandidateLink, TLAPS

LinkFields == {"url", "status", "content"}

LinkShape ==
    /\ Exists => DOMAIN row = LinkFields /\ row.status \in Statuses
    /\ request = [r \in Requests |-> request[r]]
    /\ worker = [w \in Workers |-> worker[w]]
    /\ fetchJob \in {NoJob, Kept} \/ fetchJob.state \in {"waiting", "active"}
    /\ evictJob \in {NoJob, Kept} \/ evictJob.state = "waiting"

\* A worker in a run of the fetch job is the one that holds the job.
Holds == \A w \in Workers : Busy(w) => fetchJob.state = "active" /\ fetchJob.owner = w

\* Nothing happens before the link is created, and a deletion is for good.
Created ==
    /\ fetchJob # NoJob => row # Absent
    /\ \A r \in Requests : /\ ~At(r, "idle") => row # Absent
                           /\ At(r, "leave") => row = Gone
    /\ \A w \in Workers : AtWork(w, "cleanup") => row = Gone

Asking(r) == request[r].at \in {"bump", "add", "evict", "invalidate", "lookup", "remove"}

\* A link in flight has a fetch ahead, unless one was lost.
FetchComes ==
    Exists /\ row.status \in InFlight =>
        \/ "fetch" \in lost
        \/ \E r \in Requests : Asking(r)
        \/ fetchJob.state = "waiting"
        \/ \E w \in Workers : Busy(w) /\ worker[w].at \in {"fetch", "index", "commit"}

\* Chunks of a link that is gone have an eviction ahead, unless one was lost.
EvictionComes ==
    row = Gone /\ vectors # None =>
        \/ "eviction" \in lost
        \/ \E r \in Requests : At(r, "leave")
        \/ evictJob.state = "waiting" \/ fetchJob.state = "waiting"
        \/ fetchJob = NoJob /\ \E r \in Requests : At(r, "add")
        \/ \E w \in Workers : Busy(w) /\ worker[w].at \in {"commit", "cleanup"}

LinkInv == LinkShape /\ Holds /\ Created /\ FetchComes /\ EvictionComes

LEMMA LinkStart == Init => LinkInv
BY DEF Init, LinkInv, LinkShape, Holds, Created, FetchComes, EvictionComes, Exists, Absent,
       Gone, NoJob, Kept, Busy, AtWork, Idle, At

LEMMA JobKinds ==
    /\ NoJob.state = "none" /\ Kept.state = "kept" /\ NoJob # Kept
    /\ \A n : Waiting(n).state = "waiting" /\ Waiting(n) # NoJob /\ Waiting(n) # Kept
    /\ \A n, w : Active(n, w).state = "active" /\ Active(n, w).owner = w /\ Active(n, w) # NoJob
BY DEF NoJob, Kept, Waiting, Active

LEMMA RowKinds ==
    /\ Absent # Gone
    /\ \A u : LET x == Fresh(u)
              IN  x \notin {Absent, Gone} /\ DOMAIN x = LinkFields /\ x.status = "PENDING"
    /\ \A x : x.status \in Statuses => x \notin {Absent, Gone}
BY DEF Absent, Gone, Fresh, LinkFields, Statuses, InFlight

\* A request goes on, and the others stay where they are.
LEMMA Goes ==
    ASSUME LinkShape, NEW r \in Requests, NEW step, Go(r, step)
    PROVE  /\ request'[r].at = step /\ \A q \in Requests \ {r} : request'[q] = request[q]
           /\ request' = [q \in Requests |-> request'[q]]
BY DEF LinkShape, Go

LEMMA StepsOn ==
    ASSUME LinkShape, NEW w \in Workers, NEW run, Step(w, run)
    PROVE  /\ worker'[w] = run /\ \A v \in Workers \ {w} : worker'[v] = worker[v]
           /\ worker' = [v \in Workers |-> worker'[v]]
BY DEF LinkShape, Step

LEMMA SetsStatus ==
    ASSUME LinkShape, NEW s \in Statuses, SetStatus(s)
    PROVE  /\ ~Exists => row' = row
           /\ Exists => Exists' /\ DOMAIN row' = LinkFields /\ row'.status = s
<1>1. CASE Exists
  <2>1. row' = [row EXCEPT !.status = s] /\ DOMAIN row = LinkFields
    BY <1>1 DEF LinkShape, SetStatus
  <2>2. DOMAIN row' = LinkFields /\ row'.status = s
    BY <2>1 DEF LinkFields
  <2>3. QED
    BY <1>1, <2>2, RowKinds DEF Exists
<1>2. CASE ~Exists
  BY <1>2 DEF SetStatus
<1>3. QED
  BY <1>1, <1>2

-----------------------------------------------------------------------------
(* Requests.                                                               *)

LEMMA CreateKeeps ==
    ASSUME LinkInv, NEW r \in Requests, NEW u, Create(r, u) \/ Update(r, u) PROVE LinkInv'
<1>1. /\ row' = Fresh(u) /\ At(r, "idle")
      /\ UNCHANGED <<fetchJob, evictJob, worker, vectors, lost>>
      /\ row # Gone
  BY RowKinds DEF Create, Update, Exists
<1>2. PICK step \in {"bump", "evict"} : Go(r, step)
  BY DEF Create, Update
<1>3. /\ request'[r].at = step /\ \A q \in Requests \ {r} : request'[q] = request[q]
      /\ request' = [q \in Requests |-> request'[q]]
  BY <1>2, Goes DEF LinkInv
<1>4. Exists' /\ row' # Absent /\ row' # Gone
      /\ DOMAIN row' = LinkFields /\ row'.status \in Statuses
  BY <1>1, RowKinds DEF Exists, Statuses, InFlight
<1>5. LinkShape'
  BY <1>1, <1>3, <1>4 DEF LinkInv, LinkShape
<1>6. Holds'
  BY <1>1 DEF LinkInv, Holds, Busy
<1>7. Created'
  BY <1>1, <1>3, <1>4 DEF LinkInv, Created, At, AtWork, Busy
<1>8. FetchComes' /\ EvictionComes'
  BY <1>3, <1>4 DEF FetchComes, EvictionComes, Asking
<1>9. QED
  BY <1>5, <1>6, <1>7, <1>8 DEF LinkInv

LEMMA RemoveKeeps == ASSUME LinkInv, NEW r \in Requests, Remove(r) PROVE LinkInv'
<1>1. /\ row' = Gone /\ UNCHANGED <<fetchJob, evictJob, worker, vectors, lost>> /\ ~Exists'
  BY DEF Remove, Exists
<1>2. /\ request'[r].at = "leave" /\ \A q \in Requests \ {r} : request'[q] = request[q]
      /\ request' = [q \in Requests |-> request'[q]]
  BY Goes DEF Remove, LinkInv
<1>3. LinkShape' /\ Holds'
  BY <1>1, <1>2 DEF LinkInv, LinkShape, Holds, Busy
<1>4. Created'
  BY <1>1, RowKinds DEF Created
<1>5. FetchComes' /\ EvictionComes'
  BY <1>1, <1>2 DEF FetchComes, EvictionComes, At
<1>6. QED
  BY <1>3, <1>4, <1>5 DEF LinkInv

LEMMA ReprocessKeeps ==
    ASSUME LinkInv, NEW r \in Requests, Reprocess(r) \/ MarkPending(r) PROVE LinkInv'
<1>1. /\ UNCHANGED <<fetchJob, evictJob, worker, vectors, lost>>
      /\ At(r, "idle") \/ At(r, "retry")
  BY DEF Reprocess, MarkPending
<1>2. PICK step \in {"retry", "lookup", "idle"} :
          /\ Go(r, step)
          /\ \/ step = "retry" /\ Exists /\ row' = row
             \/ step = "lookup" /\ Exists /\ row' = [row EXCEPT !.status = "PENDING"]
             \/ step = "idle" /\ row' = row
  BY DEF Reprocess, MarkPending
<1>3. /\ request'[r].at = step /\ \A q \in Requests \ {r} : request'[q] = request[q]
      /\ request' = [q \in Requests |-> request'[q]]
  BY <1>2, Goes DEF LinkInv
<1>4. step = "lookup" => Exists' /\ DOMAIN row' = LinkFields /\ row'.status = "PENDING"
  <2>1. SUFFICES ASSUME step = "lookup"
                 PROVE  Exists' /\ DOMAIN row' = LinkFields /\ row'.status = "PENDING"
    OBVIOUS
  <2>2. SetStatus("PENDING")
    BY <1>2, <2>1 DEF SetStatus
  <2>3. QED
    BY <1>2, <2>1, <2>2, SetsStatus DEF LinkInv, Statuses, InFlight
<1>5. LinkShape'
  BY <1>1, <1>2, <1>3, <1>4 DEF LinkInv, LinkShape, Exists, Statuses, InFlight
<1>6. Holds'
  BY <1>1 DEF LinkInv, Holds, Busy
<1>7. (row' = Absent <=> row = Absent) /\ (row' = Gone <=> row = Gone)
  BY <1>2, <1>4 DEF Exists
<1>8. Created'
  BY <1>1, <1>2, <1>3, <1>7 DEF LinkInv, Created, At, AtWork, Busy, Exists
<1>9. FetchComes'
  <2>1. CASE step = "lookup"
    BY <1>3, <2>1 DEF FetchComes, Asking
  <2>2. CASE row' = row
    BY <1>1, <1>3, <2>2 DEF LinkInv, FetchComes, Asking, At, Exists, Busy
  <2>3. QED
    BY <1>2, <2>1, <2>2
<1>10. EvictionComes'
  BY <1>1, <1>3, <1>7 DEF LinkInv, EvictionComes, At, Busy
<1>11. QED
  BY <1>5, <1>6, <1>8, <1>9, <1>10 DEF LinkInv

\* A request that has changed the row goes on, one call after another.
LEMMA RequestGoesOn ==
    ASSUME LinkInv, NEW r \in Requests, NEW step, Go(r, step), ~At(r, "idle"), step # "leave",
           UNCHANGED <<row, worker>>, lost \subseteq lost',
           fetchJob' \in {NoJob, Kept} \/ fetchJob'.state = "waiting" \/ fetchJob' = fetchJob,
           evictJob' \in {NoJob, Kept} \/ evictJob'.state = "waiting",
           fetchJob.state = "active" => fetchJob' = fetchJob,
           FetchComes', EvictionComes'
    PROVE  LinkInv'
<1>1. /\ request'[r].at = step /\ \A q \in Requests \ {r} : request'[q] = request[q]
      /\ request' = [q \in Requests |-> request'[q]]
  BY Goes DEF LinkInv
<1>2. LinkShape'
  BY <1>1 DEF LinkInv, LinkShape, Exists
<1>3. Holds'
  BY DEF LinkInv, Holds, Busy
<1>4. row # Absent
  BY DEF LinkInv, Created
<1>5. Created'
  BY <1>1, <1>4 DEF LinkInv, Created, At, AtWork, Busy
<1>6. QED
  BY <1>2, <1>3, <1>5 DEF LinkInv

LEMMA BumpRevisionKeeps == ASSUME LinkInv, NEW r \in Requests, BumpRevision(r) PROVE LinkInv'
<1>1. /\ At(r, "bump") \/ At(r, "invalidate")
      /\ UNCHANGED <<row, fetchJob, evictJob, worker, vectors, lost>>
  BY DEF BumpRevision
<1>2. PICK step \in {"add", "lookup"} : Go(r, step)
  BY DEF BumpRevision
<1>3. request'[r].at = step /\ \A q \in Requests \ {r} : request'[q] = request[q]
  BY <1>2, Goes DEF LinkInv
<1>4. FetchComes'
  BY <1>3 DEF FetchComes, Asking
<1>5. EvictionComes'
  BY <1>1, <1>3 DEF LinkInv, EvictionComes, At, Busy
<1>6. QED
  BY <1>1, <1>2, <1>4, <1>5, RequestGoesOn DEF At, LinkInv, LinkShape

LEMMA EvictKeeps ==
    ASSUME LinkInv, NEW r \in Requests, EnqueueEviction(r) \/ EvictInline(r) PROVE LinkInv'
<1>1. /\ At(r, "evict") \/ At(r, "leave")
      /\ Go(r, AfterEviction(r))
      /\ UNCHANGED <<row, fetchJob, worker>>
      /\ lost \subseteq lost'
      /\ vectors' = vectors \/ vectors' = None
      /\ evictJob' = Waiting(0) \/ evictJob' = evictJob
      /\ "eviction" \in lost' \/ vectors' = None \/ evictJob'.state = "waiting"
  BY JobKinds DEF EnqueueEviction, EvictInline, LinkInv, LinkShape
<1>2. /\ request'[r].at = AfterEviction(r)
      /\ \A q \in Requests \ {r} : request'[q] = request[q]
  BY <1>1, Goes DEF LinkInv
<1>3. FetchComes'
  <2>1. CASE At(r, "evict")
    BY <1>2, <2>1 DEF FetchComes, Asking, AfterEviction
  <2>2. CASE At(r, "leave")
    BY <1>1, <2>2 DEF FetchComes, LinkInv, Created, Exists
  <2>3. QED
    BY <1>1, <2>1, <2>2
<1>4. EvictionComes'
  BY <1>1 DEF EvictionComes
<1>5. AfterEviction(r) # "leave" /\ ~At(r, "idle")
  BY <1>1 DEF AfterEviction, At
<1>6. evictJob' \in {NoJob, Kept} \/ evictJob'.state = "waiting"
  BY <1>1, JobKinds DEF LinkInv, LinkShape
<1>7. QED
  BY <1>1, <1>3, <1>4, <1>5, <1>6, RequestGoesOn

\* LookupJob, RemoveJob and AddJob: while the job is under way, none of them
\* touches it, and a fetch that gives way to it counts as lost.
LEMMA QueueKeeps ==
    ASSUME LinkInv, NEW r \in Requests, LookupJob(r) \/ RemoveJob(r) \/ AddJob(r) PROVE LinkInv'
<1>1. /\ UNCHANGED <<row, evictJob, worker, vectors>> /\ lost \subseteq lost'
      /\ At(r, "lookup") \/ At(r, "remove") \/ At(r, "add")
  BY DEF LookupJob, RemoveJob, AddJob
<1>2. PICK step \in {"idle", "remove", "add"} :
          /\ Go(r, step)
          /\ \/ step # "idle"
             \/ "fetch" \in lost' \/ fetchJob'.state = "waiting"
          /\ \/ fetchJob' = fetchJob
             \/ fetchJob' = NoJob /\ step = "add" /\ fetchJob.state # "active"
             \/ fetchJob = NoJob /\ fetchJob' = Waiting(0)
          /\ At(r, "add") => step = "idle" /\ (fetchJob = NoJob => fetchJob' = Waiting(0))
  BY JobKinds DEF LookupJob, RemoveJob, AddJob, Live, Removable, LinkInv, LinkShape, At
<1>3. request'[r].at = step /\ \A q \in Requests \ {r} : request'[q] = request[q]
  BY <1>2, Goes DEF LinkInv
<1>4. FetchComes'
  BY <1>2, <1>3 DEF FetchComes, Asking
<1>5. EvictionComes'
  <2>1. CASE fetchJob' = NoJob /\ step = "add"
    BY <1>3, <2>1 DEF EvictionComes, At
  <2>2. CASE fetchJob'.state = "waiting"
    BY <2>2 DEF EvictionComes
  <2>3. CASE fetchJob' = fetchJob /\ (At(r, "add") => fetchJob # NoJob)
    BY <1>1, <1>3, <2>3 DEF LinkInv, EvictionComes, At, Busy
  <2>4. QED
    BY <1>2, <2>1, <2>2, <2>3, JobKinds
<1>6. fetchJob' \in {NoJob, Kept} \/ fetchJob'.state = "waiting" \/ fetchJob' = fetchJob
  BY <1>2, JobKinds
<1>7. fetchJob.state = "active" => fetchJob' = fetchJob
  BY <1>2, JobKinds
<1>8. QED
  BY <1>1, <1>2, <1>4, <1>5, <1>6, <1>7, RequestGoesOn DEF At, LinkInv, LinkShape

LEMMA RequestEndsKeeps == ASSUME LinkInv, NEW r \in Requests, RequestEnds(r) PROVE LinkInv'
<1>1. /\ ~At(r, "idle") /\ Go(r, "idle") /\ lost \subseteq lost'
      /\ UNCHANGED <<row, fetchJob, evictJob, worker, vectors>>
  BY DEF RequestEnds
<1>2. request'[r].at = "idle" /\ \A q \in Requests \ {r} : request'[q] = request[q]
  BY <1>1, Goes DEF LinkInv
<1>3. FetchComes'
  <2>1. CASE At(r, "leave")
    BY <1>1, <2>1 DEF FetchComes, LinkInv, Created, Exists
  <2>2. CASE At(r, "retry")
    BY <1>1, <1>2, <2>2 DEF LinkInv, FetchComes, Asking, At, Exists, Busy
  <2>3. CASE ~At(r, "leave") /\ ~At(r, "retry")
    BY <2>3 DEF RequestEnds, FetchComes
  <2>4. QED
    BY <2>1, <2>2, <2>3
<1>4. EvictionComes'
  <2>1. CASE At(r, "retry")
    BY <1>1, <1>2, <2>1 DEF LinkInv, EvictionComes, At, Busy
  <2>2. CASE ~At(r, "retry")
    BY <2>2 DEF RequestEnds, EvictionComes
  <2>3. QED
    BY <2>1, <2>2
<1>5. QED
  BY <1>1, <1>3, <1>4, RequestGoesOn DEF LinkInv, LinkShape

-----------------------------------------------------------------------------
(* The worker that holds the job.                                          *)

LEMMA OnlyWorker ==
    ASSUME LinkInv, NEW w \in Workers, Busy(w)
    PROVE  /\ fetchJob.state = "active" /\ fetchJob.owner = w
           /\ fetchJob \notin {NoJob, Kept} /\ row # Absent
           /\ \A v \in Workers \ {w} : ~Busy(v)
BY JobKinds DEF LinkInv, Holds, Created

\* What a write of the status leaves as it was.
RowIsKept ==
    /\ row' = Absent <=> row = Absent
    /\ row' = Gone <=> row = Gone
    /\ (Exists => DOMAIN row = LinkFields /\ row.status \in Statuses)'

LEMMA StatusKeepsRow ==
    ASSUME LinkInv, NEW s \in Statuses, SetStatus(s)
    PROVE  RowIsKept /\ (Exists' => row'.status = s)
<1>1. /\ ~Exists => row' = row
      /\ Exists => Exists' /\ DOMAIN row' = LinkFields /\ row'.status = s
  BY SetsStatus DEF LinkInv
<1>2. QED
  BY <1>1 DEF RowIsKept, Exists

\* A run ends, and the job with it or with another attempt to come.
LEMMA RunEnds ==
    ASSUME LinkInv, NEW w \in Workers, Busy(w), Step(w, Idle),
           UNCHANGED <<evictJob, request>>, fetchJob' = Kept \/ fetchJob'.state = "waiting",
           RowIsKept, FetchComes', EvictionComes'
    PROVE  LinkInv'
<1>1. /\ worker'[w] = Idle /\ \A v \in Workers \ {w} : worker'[v] = worker[v]
      /\ worker' = [v \in Workers |-> worker'[v]]
  BY StepsOn DEF LinkInv
<1>2. \A v \in Workers : worker'[v] = Idle
  BY <1>1, OnlyWorker DEF Busy
<1>3. LinkShape'
  BY <1>1 DEF LinkInv, LinkShape, RowIsKept
<1>4. Holds' /\ row # Absent
  BY <1>2, OnlyWorker DEF Holds, Busy
<1>5. Created'
  BY <1>2, <1>4 DEF LinkInv, Created, RowIsKept, At, AtWork, Busy
<1>6. QED
  BY <1>3, <1>4, <1>5 DEF LinkInv

LEMMA Outcomes ==
    ASSUME NEW w \in Workers, fetchJob.owner = w, Finish(w) \/ Retry(w)
    PROVE  fetchJob' = Kept \/ fetchJob'.state = "waiting"
BY JobKinds DEF Finish, Retry

\* Chunks of a link that is gone do not wait for a run that has not indexed.
LEMMA NotForThisRun ==
    ASSUME LinkInv, NEW w \in Workers, AtWork(w, "fetch") \/ AtWork(w, "bump"),
           UNCHANGED <<evictJob, request, vectors, lost>>, RowIsKept
    PROVE  EvictionComes'
<1>1. Busy(w) /\ worker[w].at \in {"fetch", "bump"}
  BY DEF AtWork
<1>2. \A v \in Workers : Busy(v) => worker[v].at \notin {"commit", "cleanup"}
  BY <1>1, OnlyWorker
<1>3. fetchJob.state # "waiting" /\ fetchJob # NoJob
  BY <1>1, OnlyWorker
<1>4. QED
  BY <1>2, <1>3 DEF LinkInv, EvictionComes, RowIsKept, At

LEMMA IngestFailsKeeps == ASSUME LinkInv, NEW w \in Workers, IngestFails(w) PROVE LinkInv'
<1>1. /\ AtWork(w, "fetch") /\ Busy(w) /\ Step(w, Idle)
      /\ UNCHANGED <<evictJob, request, vectors, lost>>
      /\ Finish(w) \/ Retry(w)
  BY DEF IngestFails, AtWork
<1>2. PICK s \in {"FAILED", "BLOCKED"} : SetStatus(s)
  BY DEF IngestFails
<1>3. RowIsKept /\ (Exists' => row'.status = s)
  BY <1>2, StatusKeepsRow DEF Statuses
<1>4. FetchComes'
  BY <1>3 DEF FetchComes, InFlight
<1>5. EvictionComes'
  BY <1>1, <1>3, NotForThisRun
<1>6. fetchJob' = Kept \/ fetchJob'.state = "waiting"
  BY <1>1, OnlyWorker, Outcomes
<1>7. QED
  BY <1>1, <1>3, <1>4, <1>5, <1>6, RunEnds

LEMMA SkipKeeps ==
    ASSUME LinkInv, NEW w \in Workers, NEW v \in Versions, SkipUnchanged(w, v) PROVE LinkInv'
<1>1. /\ AtWork(w, "fetch") /\ Busy(w) /\ Step(w, Idle)
      /\ UNCHANGED <<evictJob, request, vectors, lost>>
      /\ Finish(w) /\ SetStatus("COMPLETED")
  BY DEF SkipUnchanged, AtWork, AfterSkip
<1>2. RowIsKept /\ (Exists' => row'.status = "COMPLETED")
  BY <1>1, StatusKeepsRow DEF Statuses
<1>3. FetchComes'
  BY <1>2 DEF FetchComes, InFlight
<1>4. EvictionComes'
  BY <1>1, <1>2, NotForThisRun
<1>5. fetchJob' = Kept \/ fetchJob'.state = "waiting"
  BY <1>1, OnlyWorker, Outcomes
<1>6. QED
  BY <1>1, <1>2, <1>3, <1>4, <1>5, RunEnds

LEMMA IndexFailsKeeps == ASSUME LinkInv, NEW w \in Workers, IndexFails(w) PROVE LinkInv'
<1>1. /\ Busy(w) /\ Step(w, Idle) /\ UNCHANGED <<evictJob, request>>
      /\ Retry(w) /\ SetStatus("FAILED")
      /\ Live(fetchJob') \/ "eviction" \in lost'
  BY DEF IndexFails, AtWork
<1>2. RowIsKept /\ (Exists' => row'.status = "FAILED")
  BY <1>1, StatusKeepsRow DEF Statuses
<1>3. fetchJob' = Kept \/ fetchJob'.state = "waiting"
  BY <1>1, OnlyWorker, Outcomes
<1>4. FetchComes' /\ EvictionComes'
  BY <1>1, <1>2, <1>3, JobKinds DEF FetchComes, EvictionComes, InFlight, Live
<1>5. QED
  BY <1>1, <1>2, <1>3, <1>4, RunEnds

LEMMA CleanupKeeps == ASSUME LinkInv, NEW w \in Workers, Cleanup(w) PROVE LinkInv'
<1>1. /\ Busy(w) /\ Step(w, Idle) /\ UNCHANGED <<row, evictJob, request>> /\ row = Gone
      /\ Finish(w) \/ Retry(w)
      /\ vectors' = None \/ Live(fetchJob') \/ "eviction" \in lost'
  BY DEF Cleanup, AtWork, LinkInv, Created
<1>2. fetchJob' = Kept \/ fetchJob'.state = "waiting"
  BY <1>1, OnlyWorker, Outcomes
<1>3. RowIsKept /\ FetchComes'
  BY <1>1 DEF RowIsKept, FetchComes, Exists
<1>4. EvictionComes'
  BY <1>1, <1>2, JobKinds DEF EvictionComes, Live
<1>5. QED
  BY <1>1, <1>2, <1>3, <1>4, RunEnds

LEMMA BumpKeeps == ASSUME LinkInv, NEW w \in Workers, BumpAfterCommit(w) PROVE LinkInv'
<1>1. /\ AtWork(w, "bump") /\ Busy(w) /\ worker[w].at = "bump" /\ Step(w, Idle)
      /\ UNCHANGED <<row, evictJob, request, vectors>>
      /\ Finish(w) /\ lost \subseteq lost' /\ ("eviction" \in lost' => "eviction" \in lost)
  BY DEF BumpAfterCommit, AtWork
<1>2. fetchJob' = Kept \/ fetchJob'.state = "waiting"
  BY <1>1, OnlyWorker, Outcomes
<1>3. RowIsKept
  BY DEF RowIsKept, BumpAfterCommit, LinkInv, LinkShape, Exists
<1>4. /\ \A v \in Workers : Busy(v) => worker[v].at \notin {"fetch", "index", "commit", "cleanup"}
      /\ fetchJob.state # "waiting" /\ fetchJob # NoJob
  BY <1>1, OnlyWorker
<1>5. FetchComes' /\ EvictionComes'
  BY <1>1, <1>4 DEF LinkInv, FetchComes, EvictionComes, Exists, Asking, At
<1>6. QED
  BY <1>1, <1>2, <1>3, <1>5, RunEnds

LEMMA DeathKeeps == ASSUME LinkInv, NEW w \in Workers, WorkerDies(w) PROVE LinkInv'
<1>1. /\ Busy(w) /\ Step(w, Idle) /\ UNCHANGED <<row, evictJob, request>>
      /\ \/ fetchJob'.state = "waiting"
         \/ Finish(w) /\ "fetch" \in lost' /\ "eviction" \in lost'
  BY JobKinds DEF WorkerDies
<1>2. fetchJob' = Kept \/ fetchJob'.state = "waiting"
  BY <1>1, OnlyWorker, Outcomes
<1>3. RowIsKept
  BY DEF RowIsKept, WorkerDies, LinkInv, LinkShape, Exists
<1>4. FetchComes' /\ EvictionComes'
  BY <1>1 DEF FetchComes, EvictionComes
<1>5. QED
  BY <1>1, <1>2, <1>3, <1>4, RunEnds

\* A run goes on, and keeps the job.
LEMMA RunGoesOn ==
    ASSUME LinkInv, NEW w \in Workers, NEW run, Step(w, run), run # Idle,
           \/ Busy(w) /\ fetchJob' = fetchJob
           \/ fetchJob.state = "waiting" /\ fetchJob' = Active(fetchJob.tries, w),
           UNCHANGED <<evictJob, request>>, RowIsKept,
           run.at = "cleanup" => row' = Gone,
           FetchComes', EvictionComes'
    PROVE  LinkInv'
<1>1. /\ worker'[w] = run /\ \A v \in Workers \ {w} : worker'[v] = worker[v]
      /\ worker' = [v \in Workers |-> worker'[v]]
  BY StepsOn DEF LinkInv
<1>2. /\ fetchJob'.state = "active" /\ fetchJob'.owner = w /\ fetchJob # NoJob
      /\ \A v \in Workers \ {w} : ~Busy(v)
  BY OnlyWorker, JobKinds DEF LinkInv, Holds
<1>3. LinkShape'
  BY <1>1, <1>2 DEF LinkInv, LinkShape, RowIsKept
<1>4. Holds'
  BY <1>1, <1>2 DEF Holds, Busy
<1>5. row' # Absent
  BY <1>2 DEF LinkInv, Created, RowIsKept
<1>6. Created'
  BY <1>1, <1>2, <1>5 DEF LinkInv, Created, RowIsKept, At, AtWork, Busy
<1>7. QED
  BY <1>3, <1>4, <1>6 DEF LinkInv

LEMMA Runs ==
    \A step, content : /\ Run(step, content).at = step
                       /\ step # "idle" => Run(step, content) # Idle
BY DEF Run, Idle

LEMMA ReadLinkKeeps == ASSUME LinkInv, NEW w \in Workers, ReadLink(w) PROVE LinkInv'
<1>1. /\ fetchJob.state = "waiting" /\ fetchJob' = Active(fetchJob.tries, w)
      /\ UNCHANGED <<evictJob, request, vectors, lost>> /\ SetStatus("FETCHING")
  BY DEF ReadLink
<1>2. RowIsKept
  BY <1>1, StatusKeepsRow DEF Statuses, InFlight
<1>3. PICK run : /\ Step(w, run) /\ run # Idle
                 /\ run.at = IF Exists THEN "fetch" ELSE "cleanup"
  <2>1. CASE Exists
    <3> DEFINE x == [at |-> "fetch", url |-> row.url, got |-> None,
                     unchanged |-> IF row.status = "COMPLETED" THEN row.content ELSE None]
    <3>1. Step(w, x) /\ x.at = "fetch" /\ x # Idle
      BY <2>1 DEF ReadLink, Idle
    <3> HIDE DEF x
    <3>2. QED
      BY <2>1, <3>1
  <2>2. CASE ~Exists
    BY <2>2, Runs DEF ReadLink
  <2>3. QED
    BY <2>1, <2>2
<1>4. ~Exists => row = Gone
  BY <1>1, JobKinds DEF LinkInv, Created, Exists
<1>5. worker'[w] = run
  BY <1>3, StepsOn DEF LinkInv
<1>6. FetchComes' /\ EvictionComes'
  BY <1>2, <1>3, <1>4, <1>5 DEF FetchComes, EvictionComes, Busy, RowIsKept, Exists
<1>7. QED
  BY <1>1, <1>2, <1>3, <1>4, <1>6, RunGoesOn DEF RowIsKept, Exists

LEMMA IngestKeeps ==
    ASSUME LinkInv, NEW w \in Workers, NEW v \in Versions, Ingest(w, v) PROVE LinkInv'
<1> DEFINE run == Run("index", Page(w, v))
<1>1. /\ AtWork(w, "fetch") /\ Busy(w) /\ Step(w, run) /\ SetStatus("PROCESSING")
      /\ UNCHANGED <<fetchJob, evictJob, request, vectors, lost>>
  BY DEF Ingest, AtWork
<1>2. RowIsKept
  BY <1>1, StatusKeepsRow DEF Statuses, InFlight
<1>3. run.at = "index" /\ run # Idle
  BY Runs
<1> HIDE DEF run
<1>4. worker'[w] = run
  BY <1>1, StepsOn DEF LinkInv
<1>5. FetchComes'
  BY <1>3, <1>4 DEF FetchComes, Busy
<1>6. EvictionComes'
  BY <1>1, <1>2, NotForThisRun
<1>7. QED
  BY <1>1, <1>2, <1>3, <1>5, <1>6, RunGoesOn

LEMMA IndexKeeps == ASSUME LinkInv, NEW w \in Workers, Index(w) PROVE LinkInv'
<1> DEFINE run == Run("commit", worker[w].got)
<1>1. /\ Busy(w) /\ Step(w, run) /\ UNCHANGED <<row, fetchJob, evictJob, request>>
  BY DEF Index, AtWork
<1>2. RowIsKept
  BY <1>1 DEF RowIsKept, LinkInv, LinkShape, Exists
<1>3. run.at = "commit" /\ run # Idle
  BY Runs
<1> HIDE DEF run
<1>4. worker'[w] = run
  BY <1>1, StepsOn DEF LinkInv
<1>5. FetchComes' /\ EvictionComes'
  BY <1>3, <1>4 DEF FetchComes, EvictionComes, Busy
<1>6. QED
  BY <1>1, <1>2, <1>3, <1>5, RunGoesOn

LEMMA CommitKeeps == ASSUME LinkInv, NEW w \in Workers, Commit(w) PROVE LinkInv'
<1> DEFINE run == Run(AfterCommit, None)
           new == [row EXCEPT !.status = "COMPLETED", !.content = worker[w].got]
<1>1. /\ Busy(w) /\ Step(w, run) /\ UNCHANGED <<fetchJob, evictJob, request, vectors, lost>>
      /\ row' = IF Exists THEN new ELSE row
  BY DEF Commit, AtWork
<1>2. Exists => DOMAIN new = LinkFields /\ new.status = "COMPLETED" /\ new \notin {Absent, Gone}
  <2> SUFFICES ASSUME Exists
               PROVE  DOMAIN new = LinkFields /\ new.status = "COMPLETED"
    BY RowKinds DEF Statuses
  <2>1. DOMAIN row = LinkFields
    BY DEF LinkInv, LinkShape
  <2>2. QED
    BY <2>1 DEF LinkFields
<1>3. run.at = AfterCommit /\ run # Idle
  BY Runs DEF AfterCommit
<1> HIDE DEF run, new
<1>4. RowIsKept /\ (Exists' => row'.status = "COMPLETED")
  BY <1>1, <1>2 DEF RowIsKept, Exists, Statuses
<1>5. worker'[w] = run
  BY <1>1, StepsOn DEF LinkInv
<1>6. row = Gone => run.at = "cleanup"
  BY <1>3 DEF AfterCommit, Exists
<1>7. run.at = "cleanup" => row' = Gone
  BY <1>1, <1>3, OnlyWorker DEF AfterCommit, Exists
<1>8. FetchComes' /\ EvictionComes'
  BY <1>3, <1>4, <1>5, <1>6 DEF FetchComes, EvictionComes, Busy, RowIsKept, InFlight
<1>9. QED
  BY <1>1, <1>3, <1>4, <1>7, <1>8, RunGoesOn

-----------------------------------------------------------------------------

\* The eviction job, the expiry of finished jobs, and a Job Match.
LEMMA OthersKeep ==
    ASSUME LinkInv, RunEviction \/ JobExpires \/ Analyse \/ UNCHANGED vars PROVE LinkInv'
<1>1. UNCHANGED <<row, worker, request>> /\ lost \subseteq lost'
  BY DEF RunEviction, JobExpires, Analyse, vars
<1>2. /\ fetchJob' = fetchJob \/ (fetchJob = Kept /\ fetchJob' = NoJob)
      /\ evictJob' \in {NoJob, Kept, evictJob} \/ evictJob'.state = "waiting"
      /\ \/ vectors' = None \/ "eviction" \in lost' \/ evictJob'.state = "waiting"
         \/ vectors' = vectors /\ (evictJob.state # "waiting" \/ evictJob' = evictJob)
  BY JobKinds DEF RunEviction, JobExpires, Analyse, vars
<1>3. LinkShape' /\ Holds' /\ Created'
  BY <1>1, <1>2, JobKinds DEF LinkInv, LinkShape, Holds, Created, Exists, Busy, At, AtWork
<1>4. FetchComes'
  BY <1>1, <1>2, JobKinds DEF LinkInv, FetchComes, Exists, Asking, Busy
<1>5. EvictionComes'
  BY <1>1, <1>2, JobKinds DEF LinkInv, EvictionComes, At, Busy
<1>6. QED
  BY <1>3, <1>4, <1>5 DEF LinkInv

LEMMA LinkStep == LinkInv /\ [Next]_vars => LinkInv'
<1> SUFFICES ASSUME LinkInv, [Next]_vars PROVE LinkInv'
  OBVIOUS
<1>1. ASSUME NEW r \in Requests,
             \/ \E u \in Urls : Create(r, u) \/ Update(r, u)
             \/ Remove(r) \/ Reprocess(r) \/ RequestStep(r) \/ RequestEnds(r)
      PROVE  LinkInv'
  BY <1>1, CreateKeeps, RemoveKeeps, ReprocessKeeps, BumpRevisionKeeps, EvictKeeps, QueueKeeps,
     RequestEndsKeeps
     DEF RequestStep
<1>2. ASSUME NEW w \in Workers, WorkerStep(w) \/ WorkerDies(w) PROVE LinkInv'
  BY <1>2, ReadLinkKeeps, IngestFailsKeeps, SkipKeeps, IngestKeeps, IndexKeeps,
     IndexFailsKeeps, CommitKeeps, BumpKeeps, CleanupKeeps, DeathKeeps
     DEF WorkerStep
<1>3. QED
  BY <1>1, <1>2, OthersKeep DEF Next

\* enqueueCandidateLink looks, removes and adds in three calls: however requests
\* interleave with them and workers die, one worker at a time runs the fetch job.
THEOREM FetchIsSingle == Spec => []SingleFetch
<1>1. LinkInv => SingleFetch
  BY DEF LinkInv, Holds, SingleFetch
<1>2. QED
  BY <1>1, LinkStart, LinkStep, PTL DEF Spec

\* processCandidateLink and the evictions: a deleted link keeps no chunks once
\* everything has run, unless an eviction was not taken or failed for good.
THEOREM LeftoversAreExplained == Spec => []LeftoversExplained
<1>1. LinkInv => LeftoversExplained
  <2> SUFFICES ASSUME LinkInv, Quiet, row = Gone, vectors # None PROVE "eviction" \in lost
    BY DEF LeftoversExplained
  <2>1. QED
    BY DEF LinkInv, EvictionComes, Quiet, Live, At
<1>2. QED
  BY <1>1, LinkStart, LinkStep, PTL DEF Spec

\* reprocess and update: a link that is left in flight with no job lost its fetch
\* to a job under way or to a request that ended early.
THEOREM StuckLinksAreExplained == Spec => []StuckExplained
<1>1. LinkInv => StuckExplained
  <2> SUFFICES ASSUME LinkInv, Quiet, Exists, row.status \in InFlight PROVE "fetch" \in lost
    BY DEF StuckExplained
  <2>1. QED
    BY DEF LinkInv, FetchComes, Quiet, Live, At, Asking
<1>2. QED
  BY <1>1, LinkStart, LinkStep, PTL DEF Spec

-----------------------------------------------------------------------------
(* The types.                                                              *)

Rows == [url : Urls, status : Statuses, content : Content \cup {None}]
Jobs == [state : {"none", "waiting", "active", "kept"}, tries : 0 .. MaxAttempts - 1,
         owner : Workers \cup {None}]
FetchRuns == [at : {"fetch", "index", "commit", "cleanup", "bump"}, url : Urls \cup {None},
              unchanged : Content \cup {None}, got : Content \cup {None}]
Duties == {"idle", "bump", "evict", "leave", "invalidate", "retry", "lookup", "remove", "add"}

\* The types, and that a run that has read the link knows an address.
LinkTypes ==
    /\ row \in {Absent, Gone} \cup Rows
    /\ fetchJob \in Jobs /\ evictJob \in Jobs
    /\ worker \in [Workers -> {Idle} \cup FetchRuns]
    /\ request \in [Requests -> [at : Duties]]
    /\ vectors \in Content \cup {None} /\ analysed \in Content \cup {None}
    /\ lost \subseteq {"fetch", "eviction", "bump"} /\ faults \in 0 .. MaxFaults
    /\ \A w \in Workers : AtWork(w, "fetch") => worker[w].url \in Urls

LEMMA TypesAre == LinkTypes => TypeOK
BY DEF LinkTypes, TypeOK, Rows, Jobs, FetchRuns, Duties

LEMMA RowsAre ==
    /\ \A x \in Rows : /\ x \notin {Absent, Gone} /\ x.url \in Urls
                       /\ x.status \in Statuses /\ x.content \in Content \cup {None}
    /\ \A u \in Urls : Fresh(u) \in Rows
<1>1. ASSUME NEW x \in Rows
      PROVE  x.status \in Statuses /\ x.url \in Urls /\ x.content \in Content \cup {None}
  BY DEF Rows
<1>2. ASSUME NEW u \in Urls PROVE Fresh(u) \in Rows
  BY DEF Rows, Fresh, Statuses, InFlight
<1>3. QED
  BY <1>1, <1>2, RowKinds

LEMMA JobsAre ==
    /\ NoJob \in Jobs /\ Kept \in Jobs
    /\ \A n \in 0 .. MaxAttempts - 1 : Waiting(n) \in Jobs
    /\ \A n \in 0 .. MaxAttempts - 1, w \in Workers : Active(n, w) \in Jobs
    /\ \A x \in Jobs : x.tries \in 0 .. MaxAttempts - 1
    /\ \A x \in Jobs : MoreAttempts(x.tries) => x.tries + 1 \in 0 .. MaxAttempts - 1
BY AttemptAssumption DEF Jobs, NoJob, Kept, Waiting, Active, MoreAttempts

LEMMA RunsAre ==
    /\ \A step \in {"index", "commit", "cleanup", "bump"}, c \in Content \cup {None} :
          Run(step, c) \in FetchRuns
    /\ \A x \in FetchRuns : /\ x # Idle /\ x.got \in Content \cup {None}
                            /\ x.unchanged \in Content \cup {None}
BY DEF Run, FetchRuns, Idle

LEMMA LinkTypesStart == Init => LinkTypes
<1> SUFFICES ASSUME Init PROVE LinkTypes
  OBVIOUS
<1>1. request \in [Requests -> [at : Duties]]
  BY DEF Init, Idle, Duties
<1>2. worker \in [Workers -> {Idle} \cup FetchRuns] /\ \A w \in Workers : ~Busy(w)
  BY DEF Init, Busy
<1>3. faults \in 0 .. MaxFaults
  BY AttemptAssumption DEF Init
<1>4. QED
  BY <1>1, <1>2, <1>3, JobsAre DEF Init, LinkTypes, AtWork

LEMMA DutyTyped ==
    ASSUME LinkTypes, NEW r \in Requests, NEW step \in Duties, Go(r, step)
    PROVE  request' \in [Requests -> [at : Duties]]
BY DEF LinkTypes, Go

LEMMA WorkerTyped ==
    ASSUME LinkTypes, NEW w \in Workers, NEW run \in {Idle} \cup FetchRuns, Step(w, run),
           run.at = "fetch" => run.url \in Urls
    PROVE  /\ worker' \in [Workers -> {Idle} \cup FetchRuns]
           /\ \A v \in Workers : AtWork(v, "fetch")' => worker'[v].url \in Urls
BY DEF LinkTypes, Step, AtWork, Busy

LEMMA RowTyped ==
    ASSUME LinkTypes, NEW s \in Statuses, SetStatus(s)
    PROVE  row' \in {Absent, Gone} \cup Rows
<1> DEFINE new == [row EXCEPT !.status = s]
<1>1. row \in Rows => new \in Rows
  BY DEF Rows
<1>2. Exists => row \in Rows
  BY DEF LinkTypes, Exists
<1>3. row' = IF Exists THEN new ELSE row
  BY DEF SetStatus
<1> HIDE DEF new
<1>4. QED
  BY <1>1, <1>2, <1>3 DEF LinkTypes

LEMMA JobTyped ==
    ASSUME LinkTypes, NEW w \in Workers, Finish(w) \/ Retry(w)
    PROVE  fetchJob' \in Jobs
<1>1. CASE Finish(w)
  BY <1>1, JobsAre DEF LinkTypes, Finish
<1>2. CASE Retry(w)
  BY <1>2, JobsAre DEF LinkTypes, Retry
<1>3. QED
  BY <1>1, <1>2

LEMMA FaultTyped == ASSUME LinkTypes, Fault PROVE faults' \in 0 .. MaxFaults
BY AttemptAssumption DEF LinkTypes, Fault

LEMMA RequestTypes ==
    ASSUME LinkTypes, NEW r \in Requests,
           \/ \E u \in Urls : Create(r, u) \/ Update(r, u)
           \/ Remove(r) \/ Reprocess(r) \/ RequestStep(r) \/ RequestEnds(r)
    PROVE  LinkTypes'
<1>1. PICK step \in Duties : Go(r, step)
  BY DEF Create, Update, Remove, Reprocess, RequestStep, RequestEnds, MarkPending, BumpRevision,
         EnqueueEviction, EvictInline, LookupJob, RemoveJob, AddJob, AfterEviction, Duties
<1>2. request' \in [Requests -> [at : Duties]]
  BY <1>1, DutyTyped
<1>3. worker' = worker
  BY DEF Create, Update, Remove, Reprocess, RequestStep, RequestEnds, MarkPending, BumpRevision,
         EnqueueEviction, EvictInline, LookupJob, RemoveJob, AddJob
<1>4. row' \in {Absent, Gone} \cup Rows
  <2>1. CASE MarkPending(r)
    <3>1. row' = row \/ SetStatus("PENDING")
      BY <2>1 DEF MarkPending, SetStatus
    <3>2. QED
      BY <3>1, RowTyped DEF LinkTypes, Statuses, InFlight
  <2>2. CASE \E u \in Urls : Create(r, u) \/ Update(r, u)
    BY <2>2, RowsAre DEF Create, Update
  <2>3. CASE row' \in {row, Gone}
    BY <2>3 DEF LinkTypes
  <2>4. QED
    BY <2>1, <2>2, <2>3 DEF Remove, Reprocess, RequestStep, RequestEnds, BumpRevision,
         EnqueueEviction, EvictInline, LookupJob, RemoveJob, AddJob
<1>5. fetchJob' \in {fetchJob, NoJob, Waiting(0)} /\ evictJob' \in {evictJob, Waiting(0)}
  BY DEF Create, Update, Remove, Reprocess, RequestStep, RequestEnds, MarkPending, BumpRevision,
         EnqueueEviction, EvictInline, LookupJob, RemoveJob, AddJob
<1>6. Waiting(0) \in Jobs /\ NoJob \in Jobs
  BY JobsAre, AttemptAssumption
<1>7. vectors' \in {vectors, None} /\ analysed' \in {analysed, None}
  BY DEF Create, Update, Remove, Reprocess, RequestStep, RequestEnds, MarkPending, BumpRevision,
         EnqueueEviction, EvictInline, LookupJob, RemoveJob, AddJob
<1>8. lost' \subseteq lost \cup {"fetch", "eviction", "bump"}
  BY DEF Create, Update, Remove, Reprocess, RequestStep, RequestEnds, MarkPending, BumpRevision,
         EnqueueEviction, EvictInline, LookupJob, RemoveJob, AddJob
<1>9. faults' \in 0 .. MaxFaults
  <2>1. faults' = faults \/ Fault
    BY DEF Create, Update, Remove, Reprocess, RequestStep, RequestEnds, MarkPending, BumpRevision,
         EnqueueEviction, EvictInline, LookupJob, RemoveJob, AddJob
  <2>2. QED
    BY <2>1, FaultTyped DEF LinkTypes
<1>10. QED
  BY <1>2, <1>3, <1>4, <1>5, <1>6, <1>7, <1>8, <1>9 DEF LinkTypes, AtWork, Busy

LEMMA RunTypes ==
    ASSUME LinkTypes, NEW w \in Workers,
           NEW run \in {Idle} \cup FetchRuns, Step(w, run),
           run.at = "fetch" => run.url \in Urls,
           fetchJob' \in Jobs, UNCHANGED <<evictJob, request>>,
           row' \in {Absent, Gone} \cup Rows,
           vectors' \in Content \cup {None}, analysed' \in {analysed, None},
           lost' \subseteq lost \cup {"fetch", "eviction", "bump"}, faults' = faults \/ Fault
    PROVE  LinkTypes'
<1>1. /\ worker' \in [Workers -> {Idle} \cup FetchRuns]
      /\ \A v \in Workers : AtWork(v, "fetch")' => worker'[v].url \in Urls
  BY WorkerTyped
<1>2. faults' \in 0 .. MaxFaults
  BY FaultTyped DEF LinkTypes
<1>3. QED
  BY <1>1, <1>2 DEF LinkTypes

LEMMA ReadTyped == ASSUME LinkTypes, NEW w \in Workers, ReadLink(w) PROVE LinkTypes'
<1>1. fetchJob' \in Jobs
  BY JobsAre DEF ReadLink, LinkTypes
<1>2. row' \in {Absent, Gone} \cup Rows
  BY RowTyped DEF ReadLink, Statuses, InFlight
<1>3. PICK run \in {Idle} \cup FetchRuns : Step(w, run) /\ (run.at = "fetch" => run.url \in Urls)
  <2>1. CASE Exists
    <3> DEFINE x == [at |-> "fetch", url |-> row.url, got |-> None,
                     unchanged |-> IF row.status = "COMPLETED" THEN row.content ELSE None]
    <3>1. row.url \in Urls /\ row.content \in Content \cup {None}
      BY <2>1, RowsAre DEF LinkTypes, Exists
    <3>2. Step(w, x) /\ x \in FetchRuns /\ x.url \in Urls
      BY <2>1, <3>1 DEF ReadLink, FetchRuns
    <3> HIDE DEF x
    <3>3. QED
      BY <3>2
  <2>2. CASE ~Exists
    BY <2>2, RunsAre, Runs DEF ReadLink
  <2>3. QED
    BY <2>1, <2>2
<1>4. QED
  BY <1>1, <1>2, <1>3, RunTypes DEF ReadLink, LinkTypes

LEMMA GoesOnTyped ==
    ASSUME LinkTypes, NEW w \in Workers, Index(w) \/ \E v \in Versions : Ingest(w, v)
    PROVE  LinkTypes'
<1>1. PICK step \in {"index", "commit"}, c \in Content \cup {None} :
          Step(w, Run(step, c)) /\ vectors' \in {vectors, c}
  <2>1. CASE Index(w)
    <3>1. worker[w] \in FetchRuns
      BY <2>1 DEF Index, AtWork, Busy, LinkTypes
    <3>2. QED
      BY <2>1, <3>1, RunsAre DEF Index
  <2>2. ASSUME NEW v \in Versions, Ingest(w, v)
        PROVE  /\ Step(w, Run("index", Page(w, v))) /\ Page(w, v) \in Content
               /\ vectors' = vectors
    BY <2>2 DEF Ingest, Page, Content, LinkTypes
  <2>3. QED
    BY <2>1, <2>2
<1>2. row' \in {Absent, Gone} \cup Rows
  BY RowTyped DEF Index, Ingest, LinkTypes, Statuses, InFlight
<1>3. Run(step, c) \in FetchRuns /\ Run(step, c).at # "fetch"
  BY RunsAre, Runs
<1>4. QED
  BY <1>1, <1>2, <1>3, RunTypes DEF Index, Ingest, LinkTypes

LEMMA CommitTyped == ASSUME LinkTypes, NEW w \in Workers, Commit(w) PROVE LinkTypes'
<1> DEFINE new == [row EXCEPT !.status = "COMPLETED", !.content = worker[w].got]
<1>1. worker[w].got \in Content \cup {None}
  BY RunsAre DEF Commit, AtWork, Busy, LinkTypes
<1>2. row \in Rows => new \in Rows
  BY <1>1 DEF Rows, Statuses
<1>3. row' = IF Exists THEN new ELSE row
  BY DEF Commit
<1> HIDE DEF new
<1>4. row' \in {Absent, Gone} \cup Rows
  BY <1>2, <1>3 DEF LinkTypes, Exists
<1>5. Run(AfterCommit, None) \in FetchRuns /\ Run(AfterCommit, None).at # "fetch"
  BY RunsAre, Runs DEF AfterCommit
<1>6. QED
  BY <1>4, <1>5, RunTypes DEF Commit, LinkTypes

LEMMA EndsTyped ==
    ASSUME LinkTypes, NEW w \in Workers,
           \/ IngestFails(w) \/ IndexFails(w) \/ BumpAfterCommit(w) \/ Cleanup(w) \/ WorkerDies(w)
           \/ \E v \in Versions : SkipUnchanged(w, v)
    PROVE  LinkTypes'
<1>1. Step(w, Idle) /\ UNCHANGED <<evictJob, request>> /\ Idle.at # "fetch"
  BY DEF IngestFails, IndexFails, BumpAfterCommit, Cleanup, WorkerDies, SkipUnchanged, Idle
<1>2. fetchJob' \in Jobs
  <2>1. CASE WorkerDies(w)
    BY <2>1, JobTyped, JobsAre DEF WorkerDies, LinkTypes
  <2>2. CASE Finish(w) \/ Retry(w)
    BY <2>2, JobTyped
  <2>3. QED
    BY <2>1, <2>2 DEF IngestFails, IndexFails, BumpAfterCommit, Cleanup, SkipUnchanged
<1>3. row' \in {Absent, Gone} \cup Rows
  <2>1. row' = row \/ \E s \in {"FAILED", "BLOCKED", "COMPLETED"} : SetStatus(s)
    BY DEF IngestFails, IndexFails, BumpAfterCommit, Cleanup, WorkerDies, SkipUnchanged, AfterSkip
  <2>2. QED
    BY <2>1, RowTyped DEF LinkTypes, Statuses
<1>4. vectors' \in Content \cup {None}
  <2>1. CASE IndexFails(w)
    BY <2>1, RunsAre DEF IndexFails, AtWork, Busy, LinkTypes
  <2>2. CASE vectors' \in {vectors, None}
    BY <2>2 DEF LinkTypes
  <2>3. QED
    BY <2>1, <2>2 DEF IngestFails, BumpAfterCommit, Cleanup, WorkerDies, SkipUnchanged
<1>5. /\ analysed' \in {analysed, None} /\ (faults' = faults \/ Fault)
      /\ lost' \subseteq lost \cup {"fetch", "eviction", "bump"}
  BY DEF IngestFails, IndexFails, BumpAfterCommit, Cleanup, WorkerDies, SkipUnchanged, Invalidated
<1>6. QED
  BY <1>1, <1>2, <1>3, <1>4, <1>5, RunTypes

LEMMA OthersTyped ==
    ASSUME LinkTypes, RunEviction \/ JobExpires \/ Analyse \/ UNCHANGED vars PROVE LinkTypes'
<1>1. UNCHANGED <<row, worker, request>>
  BY DEF RunEviction, JobExpires, Analyse, vars
<1>2. fetchJob' \in Jobs /\ evictJob' \in Jobs
  BY JobsAre DEF RunEviction, JobExpires, Analyse, vars, LinkTypes
<1>3. /\ vectors' \in {vectors, None} /\ analysed' \in {analysed, vectors}
      /\ lost' \subseteq lost \cup {"eviction"}
  BY DEF RunEviction, JobExpires, Analyse, vars
<1>4. faults' \in 0 .. MaxFaults
  BY FaultTyped DEF RunEviction, JobExpires, Analyse, vars, LinkTypes
<1>5. QED
  BY <1>1, <1>2, <1>3, <1>4 DEF LinkTypes, AtWork, Busy

LEMMA LinkTypesStep == LinkTypes /\ [Next]_vars => LinkTypes'
<1> SUFFICES ASSUME LinkTypes, [Next]_vars PROVE LinkTypes'
  OBVIOUS
<1>1. ASSUME NEW w \in Workers, WorkerStep(w) \/ WorkerDies(w) PROVE LinkTypes'
  BY <1>1, ReadTyped, GoesOnTyped, CommitTyped, EndsTyped DEF WorkerStep
<1>2. QED
  BY <1>1, RequestTypes, OthersTyped DEF Next

\* Every handler of a link writes rows, jobs, runs and requests of the shapes the service
\* declares, and no job counts more attempts than it is allowed.
THEOREM LinkTypesHold == Spec => []TypeOK
BY LinkTypesStart, LinkTypesStep, TypesAre, PTL DEF Spec

-----------------------------------------------------------------------------
(* The content a Job Match saw.                                            *)

\* The Job Match of the current revision saw this content, if any.
Agrees(c) == analysed \in {None, c} \/ "bump" \in lost

\* Another fetch is on its way to the queue, or was lost.
Served == "fetch" \in lost \/ \E r \in Requests : Asking(r)

\* A run holds what it fetched, nothing else is indexed until its final update, and
\* the link is not completed before it.
RunKnows ==
    \A w \in Workers :
        /\ AtWork(w, "index") \/ AtWork(w, "commit") => worker[w].got \in Content
        /\ AtWork(w, "commit") => vectors \in {None, worker[w].got}
        /\ AtWork(w, "fetch") \/ AtWork(w, "index") \/ AtWork(w, "commit")
              => ~(Exists /\ row.status = "COMPLETED")

\* What a completed link says of the chunks and of the Job Match.
CompletedAgrees ==
    Exists /\ row.status = "COMPLETED" =>
        IF row.content = None
        THEN Served \/ fetchJob.state = "waiting"
        ELSE /\ vectors \in {None, row.content}
             /\ Agrees(row.content) \/ \E w \in Workers : AtWork(w, "bump")

\* The same while a worker may skip: the address is the one it read, or another
\* fetch has been asked for.
SkipAgrees ==
    \A w \in Workers : AtWork(w, "fetch") /\ worker[w].unchanged # None /\ Exists =>
        IF row.content = None THEN Served
        ELSE /\ row.content = worker[w].unchanged
             /\ vectors \in {None, row.content} /\ Agrees(row.content)

CurrentInv == RunKnows /\ CompletedAgrees /\ SkipAgrees
Known == LinkTypes /\ LinkInv /\ CurrentInv

LEMMA CurrentStart == Init => CurrentInv
BY DEF Init, CurrentInv, RunKnows, CompletedAgrees, SkipAgrees, Exists, AtWork, Busy

LEMMA Contents ==
    ASSUME LinkTypes, Exists PROVE row \in Rows
BY DEF LinkTypes, Exists

LEMMA NoneIsNoContent == None \notin Content
BY NoneAssumption

\* Steps that leave the row and the workers alone.
LEMMA RowStays ==
    ASSUME Known, UNCHANGED <<row, worker>>, vectors' \in {vectors, None},
           analysed' \in {analysed, None, vectors}, lost \subseteq lost',
           Served \/ fetchJob.state = "waiting" => Served' \/ fetchJob'.state = "waiting",
           Served /\ fetchJob.state = "active" => Served'
    PROVE  CurrentInv'
<1>1. RunKnows'
  BY DEF Known, CurrentInv, RunKnows, AtWork, Busy, Exists
<1>2. /\ Exists' <=> Exists
      /\ \A w \in Workers, step \in {"fetch", "bump"} : AtWork(w, step)' <=> AtWork(w, step)
  BY DEF Exists, AtWork, Busy
<1>3. ASSUME NEW c, vectors \in {None, c}
      PROVE  /\ vectors' \in {None, c}
             /\ Agrees(c) => Agrees(c)'
  BY <1>3 DEF Agrees
<1>4. CompletedAgrees'
  BY <1>2, <1>3 DEF Known, CurrentInv, CompletedAgrees
<1>5. ASSUME NEW w \in Workers, AtWork(w, "fetch") PROVE fetchJob.state = "active"
  BY <1>5 DEF Known, LinkInv, Holds, AtWork
<1>6. SkipAgrees'
  BY <1>2, <1>3, <1>5 DEF Known, CurrentInv, SkipAgrees
<1>7. QED
  BY <1>1, <1>4, <1>6 DEF CurrentInv

LEMMA CreatedAgrees ==
    ASSUME Known, NEW r \in Requests, NEW u, Create(r, u) \/ Update(r, u) PROVE CurrentInv'
<1>1. /\ row' = Fresh(u) /\ row'.status = "PENDING" /\ row'.content = None
      /\ UNCHANGED <<fetchJob, worker, vectors, analysed, lost>>
      /\ Go(r, "bump") \/ Go(r, "evict")
  BY RowKinds DEF Create, Update, Fresh
<1>2. Served'
  BY <1>1, Goes DEF Known, LinkInv, Served, Asking
<1>3. RunKnows' /\ CompletedAgrees' /\ SkipAgrees'
  BY <1>1, <1>2 DEF Known, CurrentInv, RunKnows, CompletedAgrees, SkipAgrees, AtWork, Busy
<1>4. QED
  BY <1>3 DEF CurrentInv

LEMMA RemovedAgrees == ASSUME Known, NEW r \in Requests, Remove(r) PROVE CurrentInv'
<1>1. ~Exists' /\ UNCHANGED <<worker, vectors>>
  BY DEF Remove, Exists
<1>2. RunKnows' /\ CompletedAgrees' /\ SkipAgrees'
  BY <1>1 DEF Known, CurrentInv, RunKnows, CompletedAgrees, SkipAgrees, AtWork, Busy
<1>3. QED
  BY <1>2 DEF CurrentInv

\* A write of a status other than COMPLETED leaves the content.
LEMMA StatusKeepsContent ==
    ASSUME Known, NEW s, SetStatus(s)
    PROVE  /\ ~Exists => row' = row
           /\ Exists => Exists' /\ row'.status = s /\ row'.content = row.content
<1>1. CASE Exists
  <2> DEFINE new == [row EXCEPT !.status = s]
  <2>1. row \in Rows
    BY <1>1, Contents DEF Known
  <2>2. new.status = s /\ new.content = row.content /\ DOMAIN new = LinkFields
    BY <2>1 DEF Rows, LinkFields
  <2>3. row' = new
    BY <1>1 DEF SetStatus
  <2> HIDE DEF new
  <2>4. row' \notin {Absent, Gone}
    BY <2>2, <2>3 DEF Absent, Gone, LinkFields
  <2>5. QED
    BY <1>1, <2>2, <2>3, <2>4 DEF Exists
<1>2. CASE ~Exists
  BY <1>2 DEF SetStatus
<1>3. QED
  BY <1>1, <1>2

LEMMA PendingAgrees == ASSUME Known, NEW r \in Requests, MarkPending(r) PROVE CurrentInv'
<1>1. UNCHANGED <<fetchJob, worker, vectors, analysed, lost>>
  BY DEF MarkPending
<1>2. PICK step \in {"idle", "lookup"} : Go(r, step)
  BY DEF MarkPending
<1>3. request'[r].at = step /\ \A q \in Requests \ {r} : request'[q] = request[q]
  BY <1>2, Goes DEF Known, LinkInv
<1>4. Served => Served'
  BY <1>1, <1>3 DEF Served, Asking, At, MarkPending
<1>5. CASE ~Exists
  <2>1. row' = row
    BY <1>5 DEF MarkPending
  <2>2. QED
    BY <1>1, <1>4, <1>5, <2>1, RowStays
<1>6. CASE Exists
  <2>1. Exists' /\ row'.status = "PENDING" /\ row'.content = row.content
    BY <1>6, StatusKeepsContent DEF MarkPending, SetStatus
  <2>2. RunKnows' /\ CompletedAgrees' /\ SkipAgrees'
    BY <1>1, <1>4, <1>6, <2>1
       DEF Known, CurrentInv, RunKnows, CompletedAgrees, SkipAgrees, AtWork, Busy, Agrees
  <2>3. QED
    BY <2>2 DEF CurrentInv
<1>7. QED
  BY <1>5, <1>6

\* Once a fetch is asked for, it is queued, lost or still asked for.
LEMMA AskedAgrees ==
    ASSUME Known, NEW r \in Requests,
           \/ Reprocess(r) \/ BumpRevision(r) \/ EnqueueEviction(r) \/ EvictInline(r)
           \/ LookupJob(r) \/ RemoveJob(r) \/ AddJob(r) \/ RequestEnds(r)
    PROVE  CurrentInv'
<1>1. /\ UNCHANGED <<row, worker>> /\ vectors' \in {vectors, None}
      /\ analysed' \in {analysed, None} /\ lost \subseteq lost'
  BY DEF Reprocess, BumpRevision, EnqueueEviction, EvictInline, LookupJob, RemoveJob, AddJob,
         RequestEnds
<1>2. PICK step : Go(r, step)
  BY DEF Reprocess, BumpRevision, EnqueueEviction, EvictInline, LookupJob, RemoveJob, AddJob,
         RequestEnds
<1>3. request'[r].at = step /\ \A q \in Requests \ {r} : request'[q] = request[q]
  BY <1>2, Goes DEF Known, LinkInv
<1>4. Served => Served' \/ (fetchJob'.state = "waiting" /\ fetchJob.state # "active")
  <2>1. CASE RequestEnds(r)
    BY <1>1, <1>3, <2>1 DEF RequestEnds, Served, Asking, At
  <2>2. CASE LookupJob(r) \/ RemoveJob(r) \/ AddJob(r)
    BY <1>1, <1>2, <1>3, <2>2, Goes, JobKinds
       DEF Known, LinkInv, LinkShape, LookupJob, RemoveJob, AddJob, Served, Asking, Live, Removable
  <2>3. CASE BumpRevision(r) \/ EnqueueEviction(r) \/ EvictInline(r) \/ Reprocess(r)
    BY <1>1, <1>3, <2>3, Goes
       DEF Known, LinkInv, Reprocess, BumpRevision, EnqueueEviction, EvictInline, AfterEviction,
           Served, Asking, At
  <2>4. QED
    BY <2>1, <2>2, <2>3
<1>5. fetchJob.state = "waiting" => Served' \/ fetchJob'.state = "waiting"
  <2>1. CASE RemoveJob(r)
    BY <2>1, Goes DEF RemoveJob, Removable, Known, LinkInv, Served, Asking
  <2>2. CASE fetchJob' = fetchJob
    BY <2>2
  <2>3. QED
    BY <2>1, <2>2, JobKinds DEF Reprocess, BumpRevision, EnqueueEviction, EvictInline, LookupJob,
       AddJob, RequestEnds
<1>6. QED
  BY <1>1, <1>4, <1>5, RowStays

\* A run that ends, with a status that is not COMPLETED or with the row as it was.
LEMMA EndAgrees ==
    ASSUME Known, NEW w \in Workers, Busy(w), Step(w, Idle), CompletedAgrees'
    PROVE  CurrentInv'
<1>1. \A v \in Workers : worker'[v] = Idle
  BY StepsOn, OnlyWorker DEF Known, LinkInv, Busy
<1>2. RunKnows' /\ SkipAgrees'
  BY <1>1 DEF RunKnows, SkipAgrees, AtWork, Busy
<1>3. QED
  BY <1>2 DEF CurrentInv

LEMMA FailedAgrees ==
    ASSUME Known, NEW w \in Workers, IngestFails(w) \/ IndexFails(w) PROVE CurrentInv'
<1>1. PICK s \in {"FAILED", "BLOCKED"} : SetStatus(s) /\ Busy(w) /\ Step(w, Idle)
  BY DEF IngestFails, IndexFails, AtWork
<1>2. Exists' => row'.status # "COMPLETED"
  BY <1>1, StatusKeepsContent DEF Exists
<1>3. CompletedAgrees'
  BY <1>2 DEF CompletedAgrees
<1>4. QED
  BY <1>1, <1>3, EndAgrees

LEMMA SkippedAgrees ==
    ASSUME Known, NEW w \in Workers, NEW v \in Versions, SkipUnchanged(w, v) PROVE CurrentInv'
<1>1. /\ AtWork(w, "fetch") /\ Busy(w) /\ Step(w, Idle) /\ SetStatus("COMPLETED")
      /\ worker[w].unchanged = Page(w, v)
      /\ UNCHANGED <<request, vectors, analysed, lost>>
  BY DEF SkipUnchanged, AtWork, AfterSkip
<1>2. Page(w, v) \in Content
  BY <1>1 DEF Known, LinkTypes, Page, Content
<1>3. worker[w].unchanged # None
  BY <1>1, <1>2, NoneIsNoContent
<1>4. (Exists' => Exists) /\ (Exists => row'.content = row.content)
  BY <1>1, StatusKeepsContent DEF Exists
<1>5. CompletedAgrees'
  BY <1>1, <1>3, <1>4
     DEF Known, CurrentInv, SkipAgrees, CompletedAgrees, Served, Asking, Agrees
<1>6. QED
  BY <1>1, <1>5, EndAgrees

LEMMA BumpedAgrees ==
    ASSUME Known, NEW w \in Workers, BumpAfterCommit(w) PROVE CurrentInv'
<1>1. /\ AtWork(w, "bump") /\ Busy(w) /\ Step(w, Idle) /\ UNCHANGED <<row, request, vectors>>
      /\ lost \subseteq lost' /\ (analysed' = None \/ "bump" \in lost')
  BY DEF BumpAfterCommit, AtWork, Invalidated
<1>2. fetchJob.state # "waiting" /\ (Exists' <=> Exists)
  BY <1>1, OnlyWorker DEF Known, Exists
<1>3. Served => Served'
  BY <1>1 DEF Served, Asking
<1>4. CompletedAgrees'
  BY <1>1, <1>2, <1>3 DEF Known, CurrentInv, CompletedAgrees, Agrees
<1>5. QED
  BY <1>1, <1>4, EndAgrees

LEMMA CleanedAgrees ==
    ASSUME Known, NEW w \in Workers, Cleanup(w) PROVE CurrentInv'
<1>1. Busy(w) /\ Step(w, Idle) /\ row' = row /\ row = Gone
  BY DEF Cleanup, AtWork, Known, LinkInv, Created
<1>2. CompletedAgrees'
  BY <1>1 DEF CompletedAgrees, Exists
<1>3. QED
  BY <1>1, <1>2, EndAgrees

LEMMA DeathAgrees ==
    ASSUME Known, NEW w \in Workers, WorkerDies(w) PROVE CurrentInv'
<1>1. /\ Busy(w) /\ Step(w, Idle) /\ UNCHANGED <<row, request, vectors, analysed>>
      /\ lost \subseteq lost' /\ (AtWork(w, "bump") => "bump" \in lost')
  BY DEF WorkerDies
<1>2. /\ fetchJob.state # "waiting" /\ (Exists' <=> Exists)
      /\ \A v \in Workers : AtWork(v, "bump") => v = w
  BY <1>1, OnlyWorker DEF Known, Exists, AtWork
<1>3. Served => Served'
  BY <1>1 DEF Served, Asking
<1>4. CompletedAgrees'
  BY <1>1, <1>2, <1>3 DEF Known, CurrentInv, CompletedAgrees, Agrees
<1>5. QED
  BY <1>1, <1>4, EndAgrees
LEMMA ReadAgrees == ASSUME Known, NEW w \in Workers, ReadLink(w) PROVE CurrentInv'
<1>1. /\ fetchJob.state = "waiting" /\ SetStatus("FETCHING")
      /\ UNCHANGED <<request, vectors, analysed, lost>>
      /\ \A v \in Workers : ~Busy(v)
  BY DEF ReadLink, Known, LinkInv, Holds
<1>2. (Exists' <=> Exists) /\ (Exists => row'.status = "FETCHING" /\ row'.content = row.content)
  BY <1>1, StatusKeepsContent DEF Exists
<1>3. PICK run : /\ Step(w, run)
                 /\ run.at \in {"fetch", "cleanup"}
                 /\ run.at = "fetch" => Exists /\ run.unchanged \in {None, row.content}
                 /\ run.at = "fetch" /\ run.unchanged # None => row.status = "COMPLETED"
  <2>1. CASE Exists
    <3> DEFINE x == [at |-> "fetch", url |-> row.url, got |-> None,
                     unchanged |-> IF row.status = "COMPLETED" THEN row.content ELSE None]
    <3>1. /\ Step(w, x) /\ x.at = "fetch" /\ x.unchanged \in {None, row.content}
          /\ x.unchanged # None => row.status = "COMPLETED"
      BY <2>1 DEF ReadLink
    <3> HIDE DEF x
    <3>2. QED
      BY <2>1, <3>1
  <2>2. CASE ~Exists
    BY <2>2, Runs DEF ReadLink
  <2>3. QED
    BY <2>1, <2>2
<1>4. worker'[w] = run /\ \A v \in Workers \ {w} : worker'[v] = worker[v]
  BY <1>3, StepsOn DEF Known, LinkInv
<1>5. \A v \in Workers : \A step : AtWork(v, step)' => v = w /\ step = run.at
  BY <1>1, <1>4 DEF AtWork, Busy
<1>6. RunKnows'
  BY <1>2, <1>3, <1>5 DEF RunKnows
<1>7. CompletedAgrees'
  BY <1>2 DEF CompletedAgrees
<1>8. SkipAgrees'
  <2> SUFFICES ASSUME NEW v \in Workers, AtWork(v, "fetch")', worker'[v].unchanged # None
               PROVE  /\ row'.content = worker'[v].unchanged
                      /\ vectors' \in {None, row'.content}
                      /\ analysed' \in {None, row'.content} \/ "bump" \in lost'
    BY DEF SkipAgrees, Agrees
  <2>1. worker'[v] = run /\ run.at = "fetch"
    BY <1>4, <1>5
  <2>2. Exists /\ row.status = "COMPLETED" /\ row.content = run.unchanged
          /\ row'.content = row.content /\ row.content # None
    BY <1>2, <1>3, <2>1
  <2>3. vectors \in {None, row.content} /\ Agrees(row.content)
    BY <1>1, <2>2 DEF Known, CurrentInv, CompletedAgrees, AtWork
  <2>4. QED
    BY <1>1, <2>1, <2>2, <2>3 DEF Agrees
<1>9. QED
  BY <1>6, <1>7, <1>8 DEF CurrentInv

LEMMA IngestAgrees ==
    ASSUME Known, NEW w \in Workers, NEW v \in Versions, Ingest(w, v) PROVE CurrentInv'
<1> DEFINE run == Run("index", Page(w, v))
<1>1. Busy(w) /\ Step(w, run) /\ SetStatus("PROCESSING")
  BY DEF Ingest, AtWork
<1>2. run.at = "index" /\ run.got \in Content
  BY DEF Run, Page, Content, Ingest, Known, LinkTypes
<1> HIDE DEF run
<1>3. worker'[w] = run /\ \A u \in Workers \ {w} : worker'[u] = Idle
  BY <1>1, StepsOn, OnlyWorker DEF Known, LinkInv, Busy
<1>4. \A u \in Workers : \A step : AtWork(u, step)' => u = w /\ step = "index"
  BY <1>2, <1>3 DEF AtWork, Busy
<1>5. ~(Exists /\ row.status = "COMPLETED")'
  BY <1>1, StatusKeepsContent DEF Exists
<1>6. RunKnows' /\ SkipAgrees' /\ CompletedAgrees'
  BY <1>2, <1>3, <1>4, <1>5 DEF RunKnows, SkipAgrees, CompletedAgrees
<1>7. QED
  BY <1>6 DEF CurrentInv

LEMMA IndexAgrees == ASSUME Known, NEW w \in Workers, Index(w) PROVE CurrentInv'
<1> DEFINE run == Run("commit", worker[w].got)
<1>1. /\ Busy(w) /\ AtWork(w, "index") /\ Step(w, run) /\ vectors' = worker[w].got
      /\ UNCHANGED <<row, fetchJob, request, analysed, lost>>
  BY DEF Index, AtWork
<1>2. run.at = "commit" /\ run.got \in Content /\ vectors' = run.got
  BY <1>1 DEF Run, Known, CurrentInv, RunKnows
<1> HIDE DEF run
<1>3. worker'[w] = run /\ \A u \in Workers \ {w} : worker'[u] = Idle
  BY <1>1, StepsOn, OnlyWorker DEF Known, LinkInv, Busy
<1>4. \A u \in Workers : \A step : AtWork(u, step)' => u = w /\ step = "commit"
  BY <1>2, <1>3 DEF AtWork, Busy
<1>5. ~(Exists /\ row.status = "COMPLETED")'
  BY <1>1 DEF Known, CurrentInv, RunKnows, Exists
<1>6. RunKnows' /\ SkipAgrees' /\ CompletedAgrees'
  BY <1>2, <1>3, <1>4, <1>5 DEF RunKnows, SkipAgrees, CompletedAgrees
<1>7. QED
  BY <1>6 DEF CurrentInv

LEMMA CommitAgrees == ASSUME Known, NEW w \in Workers, Commit(w) PROVE CurrentInv'
<1> DEFINE run == Run(AfterCommit, None)
           new == [row EXCEPT !.status = "COMPLETED", !.content = worker[w].got]
<1>1. /\ Busy(w) /\ AtWork(w, "commit") /\ Step(w, run) /\ UNCHANGED <<vectors, analysed, lost>>
      /\ row' = IF Exists THEN new ELSE row
  BY DEF Commit, AtWork
<1>2. row \in Rows => new.content = worker[w].got
  BY DEF Rows
<1>3. run.at = AfterCommit /\ run # Idle
  BY Runs DEF AfterCommit
<1> HIDE DEF run, new
<1>4. worker'[w] = run /\ \A u \in Workers \ {w} : worker'[u] = Idle
  BY <1>1, StepsOn, OnlyWorker DEF Known, LinkInv, Busy
<1>5. /\ \A u \in Workers : \A step : AtWork(u, step)' => step \in {"bump", "cleanup"}
      /\ Exists => AtWork(w, "bump")'
  BY <1>3, <1>4 DEF AtWork, Busy, AfterCommit
<1>6. RunKnows' /\ SkipAgrees'
  BY <1>5 DEF RunKnows, SkipAgrees
<1>7. /\ Exists' => Exists
      /\ Exists => row'.content = worker[w].got
  BY <1>1, <1>2, Contents DEF Known, Exists
<1>8. worker[w].got \in Content /\ vectors \in {None, worker[w].got}
  BY <1>1 DEF Known, CurrentInv, RunKnows
<1>9. CompletedAgrees'
  BY <1>1, <1>5, <1>7, <1>8, NoneIsNoContent DEF CompletedAgrees
<1>10. QED
  BY <1>6, <1>9 DEF CurrentInv

\* An analysis may see the chunks that a run under way has indexed: what is said of a
\* completed link then holds all the same, for it says what its chunks are.
LEMMA AnalyseAgrees ==
    ASSUME Known, RunEviction \/ JobExpires \/ Analyse \/ UNCHANGED vars PROVE CurrentInv'
<1>1. /\ UNCHANGED <<row, worker, request>> /\ lost \subseteq lost'
      /\ vectors' \in {vectors, None} /\ analysed' \in {analysed, None, vectors}
      /\ fetchJob' = fetchJob \/ fetchJob = Kept
  BY DEF RunEviction, JobExpires, Analyse, vars
<1>2. Served => Served'
  BY <1>1 DEF Served, Asking
<1>3. QED
  BY <1>1, <1>2, JobKinds, RowStays

LEMMA CurrentStep == Known /\ [Next]_vars => CurrentInv'
<1> SUFFICES ASSUME Known, [Next]_vars PROVE CurrentInv'
  OBVIOUS
<1>1. ASSUME NEW r \in Requests,
             \/ \E u \in Urls : Create(r, u) \/ Update(r, u)
             \/ Remove(r) \/ Reprocess(r) \/ RequestStep(r) \/ RequestEnds(r)
      PROVE  CurrentInv'
  BY <1>1, CreatedAgrees, RemovedAgrees, PendingAgrees, AskedAgrees DEF RequestStep
<1>2. ASSUME NEW w \in Workers, WorkerStep(w) \/ WorkerDies(w) PROVE CurrentInv'
  BY <1>2, ReadAgrees, FailedAgrees, SkippedAgrees, IngestAgrees, IndexAgrees, CommitAgrees,
     BumpedAgrees, CleanedAgrees, DeathAgrees
     DEF WorkerStep
<1>3. QED
  BY <1>1, <1>2, AnalyseAgrees DEF Next

\* What the evidence revision is for: when everything has run, a Job Match that counts as
\* current saw the content the link has, unless a bump or a fetch was lost.
THEOREM AnalysesAreCurrent == Spec => []AnalysisIsCurrent
<1>1. Known => AnalysisIsCurrent
  <2> SUFFICES ASSUME Known, Quiet, Exists, row.status = "COMPLETED", analysed # None
               PROVE  analysed = row.content \/ lost \cap {"bump", "fetch"} # {}
    BY DEF AnalysisIsCurrent
  <2>1. ~(\E r \in Requests : Asking(r)) /\ ~(\E w \in Workers : AtWork(w, "bump"))
    BY DEF Quiet, Asking, At, AtWork
  <2>2. QED
    BY <2>1 DEF Known, CurrentInv, CompletedAgrees, Served, Agrees, Quiet, Live
<1>2. Init => Known
  BY LinkStart, LinkTypesStart, CurrentStart DEF Known
<1>3. Known /\ [Next]_vars => Known'
  BY LinkStep, LinkTypesStep, CurrentStep DEF Known
<1>4. QED
  BY <1>1, <1>2, <1>3, PTL DEF Spec
=============================================================================
