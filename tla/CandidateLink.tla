----------------------------- MODULE CandidateLink -----------------------------
(***************************************************************************)
(* One professional link of a candidate: the row, the BullMQ jobs that     *)
(* fetch it and evict it, and the chunks the AI service holds for it.      *)
(*                                                                         *)
(* A request changes the row and then talks to the queue, one call after   *)
(* another.  A worker reads the row, fetches, indexes and writes back with *)
(* the row's id as its only condition.  The two jobs have fixed ids, and a *)
(* finished job keeps its id for hours.                                    *)
(*                                                                         *)
(* Content is an address and the version of the page found there.  Writes  *)
(* of a status in flight are taken with the read or the fetch before them. *)
(***************************************************************************)
EXTENDS Naturals, FiniteSets

CONSTANTS
    Urls,
    Versions,       \* what a page can say
    Requests,       \* threads serving the candidate
    Workers,
    MaxAttempts,    \* 3 attempts per job
    MaxFaults,      \* bound on failed calls and crashes
    None

Content == [url : Urls, version : Versions]

ASSUME AttemptAssumption == MaxAttempts \in Nat \ {0} /\ MaxFaults \in Nat
ASSUME NoneAssumption == None \notin Content

VARIABLES
    row,        \* candidate_links
    fetchJob,   \* the job link-<id>
    evictJob,   \* the job link-delete-<id>
    worker,     \* the run of a fetch job each worker is in
    request,    \* what each request still has to do
    vectors,    \* the chunks in the candidate-scoped collection
    analysed,   \* what the stored Job Match of the current evidence revision saw
    lost,       \* which duties were dropped (observation)
    faults

vars == <<row, fetchJob, evictJob, worker, request, vectors, analysed, lost, faults>>

InFlight == {"PENDING", "FETCHING", "PROCESSING"}
\* BLOCKED is FAILED with a failure code that retrying cannot fix.
Statuses == InFlight \cup {"COMPLETED", "FAILED", "BLOCKED"}

Absent == [status |-> "ABSENT"]
Gone == [status |-> "GONE"]
Exists == row \notin {Absent, Gone}

NoJob == [state |-> "none", tries |-> 0, owner |-> None]
Waiting(n) == [state |-> "waiting", tries |-> n, owner |-> None]
Active(n, w) == [state |-> "active", tries |-> n, owner |-> w]
Kept == [state |-> "kept", tries |-> 0, owner |-> None]
Live(job) == job.state \in {"waiting", "active"}

Idle == [at |-> "idle"]

TypeOK ==
    /\ row \in {Absent, Gone} \cup
          [url : Urls, status : Statuses, content : Content \cup {None}]
    /\ {fetchJob, evictJob} \subseteq
          [state : {"none", "waiting", "active", "kept"}, tries : 0 .. MaxAttempts - 1,
           owner : Workers \cup {None}]
    /\ worker \in [Workers -> {Idle} \cup
          [at : {"fetch", "index", "commit", "cleanup", "bump"}, url : Urls \cup {None},
           unchanged : Content \cup {None}, got : Content \cup {None}]]
    /\ request \in [Requests ->
          [at : {"idle", "bump", "evict", "leave", "invalidate", "retry",
                 "lookup", "remove", "add"}]]
    /\ vectors \in Content \cup {None}
    /\ analysed \in Content \cup {None}
    /\ lost \subseteq {"fetch", "eviction", "bump"}
    /\ faults \in 0 .. MaxFaults

Init ==
    /\ row = Absent
    /\ fetchJob = NoJob /\ evictJob = NoJob
    /\ worker = [w \in Workers |-> Idle]
    /\ request = [r \in Requests |-> Idle]
    /\ vectors = None /\ analysed = None
    /\ lost = {} /\ faults = 0

Fault == faults < MaxFaults /\ faults' = faults + 1

-----------------------------------------------------------------------------
(* Requests of the candidate.                                              *)

Go(r, step) == request' = [request EXCEPT ![r] = [at |-> step]]
At(r, step) == request[r].at = step

Fresh(u) == [url |-> u, status |-> "PENDING", content |-> None]

Create(r, u) ==
    /\ At(r, "idle") /\ row = Absent
    /\ row' = Fresh(u)
    /\ Go(r, "bump")
    /\ UNCHANGED <<fetchJob, evictJob, worker, vectors, analysed, lost, faults>>

\* update with another address.
Update(r, u) ==
    /\ At(r, "idle") /\ Exists /\ u # row.url
    /\ row' = Fresh(u)
    /\ Go(r, "evict")
    /\ UNCHANGED <<fetchJob, evictJob, worker, vectors, analysed, lost, faults>>

\* remove: the row and the revision go in one transaction.
Remove(r) ==
    /\ At(r, "idle") /\ Exists
    /\ row' = Gone
    /\ analysed' = None
    /\ Go(r, "leave")
    /\ UNCHANGED <<fetchJob, evictJob, worker, vectors, lost, faults>>

\* reprocess: the two refusals, and later the update.
Refused == \/ row.status = "BLOCKED"
           \/ row.status \in InFlight /\ Live(fetchJob)

Reprocess(r) ==
    /\ At(r, "idle") /\ Exists /\ ~Refused
    /\ Go(r, "retry")
    /\ UNCHANGED <<row, fetchJob, evictJob, worker, vectors, analysed, lost, faults>>

MarkPending(r) ==
    /\ At(r, "retry")
    /\ IF Exists
       THEN row' = [row EXCEPT !.status = "PENDING"] /\ Go(r, "lookup")
       ELSE Go(r, "idle") /\ UNCHANGED row
    /\ UNCHANGED <<fetchJob, evictJob, worker, vectors, analysed, lost, faults>>

\* bumpRevision of create, and the transaction of cascadeDerivedCopyRemoval.
BumpRevision(r) ==
    /\ At(r, "bump") \/ At(r, "invalidate")
    /\ analysed' = None
    /\ Go(r, IF At(r, "bump") THEN "add" ELSE "lookup")
    /\ UNCHANGED <<row, fetchJob, evictJob, worker, vectors, lost, faults>>

AfterEviction(r) == IF At(r, "evict") THEN "invalidate" ELSE "idle"

\* evictPersonalVectors and evictPersonalLinkVectors: a job with a fixed id,
\* which an unfinished or a finished job of that id swallows.
EnqueueEviction(r) ==
    /\ At(r, "evict") \/ At(r, "leave")
    /\ evictJob' = IF evictJob = NoJob THEN Waiting(0) ELSE evictJob
    /\ lost' = IF evictJob = Kept THEN lost \cup {"eviction"} ELSE lost
    /\ Go(r, AfterEviction(r))
    /\ UNCHANGED <<row, fetchJob, worker, vectors, analysed, faults>>

\* The queue is unreachable: the eviction is done inline, or given up.
EvictInline(r) ==
    /\ At(r, "evict") \/ At(r, "leave")
    /\ Fault
    /\ \/ vectors' = None /\ UNCHANGED lost
       \/ lost' = lost \cup {"eviction"} /\ UNCHANGED vectors
    /\ Go(r, AfterEviction(r))
    /\ UNCHANGED <<row, fetchJob, evictJob, worker, analysed>>

\* enqueueCandidateLink with replaceExisting: getJob and getState ...
LookupJob(r) ==
    /\ At(r, "lookup")
    /\ IF Live(fetchJob)
       THEN /\ Go(r, "idle")
            /\ lost' = IF fetchJob.state = "active" THEN lost \cup {"fetch"} ELSE lost
       ELSE /\ Go(r, IF fetchJob = NoJob THEN "add" ELSE "remove")
            /\ UNCHANGED lost
    /\ UNCHANGED <<row, fetchJob, evictJob, worker, vectors, analysed, faults>>

\* Mutant: a job that a worker holds can be removed.
Removable_Any(job) == TRUE

Removable(job) == job.state # "active"

\* ... then remove, which throws for a job that meanwhile became active ...
RemoveJob(r) ==
    /\ At(r, "remove")
    /\ IF Removable(fetchJob)
       THEN fetchJob' = NoJob /\ Go(r, "add") /\ UNCHANGED lost
       ELSE lost' = lost \cup {"fetch"} /\ Go(r, "idle") /\ UNCHANGED fetchJob
    /\ UNCHANGED <<row, evictJob, worker, vectors, analysed, faults>>

\* ... then add, a no-op while the id is taken.
AddJob(r) ==
    /\ At(r, "add")
    /\ fetchJob' = IF fetchJob = NoJob THEN Waiting(0) ELSE fetchJob
    /\ lost' = IF fetchJob.state \in {"active", "kept"} THEN lost \cup {"fetch"} ELSE lost
    /\ Go(r, "idle")
    /\ UNCHANGED <<row, evictJob, worker, vectors, analysed, faults>>

\* The process ends, or a call to the database or the queue fails.
RequestEnds(r) ==
    /\ ~At(r, "idle")
    /\ Fault
    /\ lost' = lost \cup (CASE At(r, "leave") -> {"eviction"}
                            [] At(r, "retry") -> {}
                            [] OTHER -> {"eviction", "bump", "fetch"})
    /\ Go(r, "idle")
    /\ UNCHANGED <<row, fetchJob, evictJob, worker, vectors, analysed>>

-----------------------------------------------------------------------------
(* processCandidateLink.                                                   *)

Busy(w) == worker[w] # Idle
AtWork(w, step) == Busy(w) /\ worker[w].at = step
Step(w, run) == worker' = [worker EXCEPT ![w] = run]
Run(step, content) == [at |-> step, url |-> None, unchanged |-> None, got |-> content]

\* Mutant: one attempt too many.
MoreAttempts_OffByOne(n) == n < MaxAttempts

MoreAttempts(n) == n + 1 < MaxAttempts

\* The outcome of an attempt, for the worker that still holds the job.
Finish(w) ==
    fetchJob' = IF fetchJob.owner = w THEN Kept ELSE fetchJob
Retry(w) ==
    fetchJob' = IF fetchJob.owner # w THEN fetchJob
                ELSE IF MoreAttempts(fetchJob.tries) THEN Waiting(fetchJob.tries + 1)
                ELSE Kept

SetStatus(s) == row' = IF Exists THEN [row EXCEPT !.status = s] ELSE row

\* The row is read, or found missing.  The unchanged-content skip is open only
\* to a link that was COMPLETED when it was read.
ReadLink(w) ==
    /\ ~Busy(w) /\ fetchJob.state = "waiting"
    /\ fetchJob' = Active(fetchJob.tries, w)
    /\ IF Exists
       THEN Step(w, [at |-> "fetch", url |-> row.url, got |-> None,
                     unchanged |-> IF row.status = "COMPLETED" THEN row.content ELSE None])
       ELSE Step(w, Run("cleanup", None))
    /\ SetStatus("FETCHING")
    /\ UNCHANGED <<evictJob, request, vectors, analysed, lost, faults>>

IngestFails(w) ==
    /\ AtWork(w, "fetch")
    /\ Fault
    /\ \/ SetStatus("FAILED") /\ Retry(w)
       \/ SetStatus("BLOCKED") /\ Finish(w)
    /\ Step(w, Idle)
    /\ UNCHANGED <<evictJob, request, vectors, analysed, lost>>

Page(w, v) == [url |-> worker[w].url, version |-> v]

\* Mutant: the skip returns without writing the status back.
AfterSkip_Forgotten == "FETCHING"

AfterSkip == "COMPLETED"

\* The page says what it said when it was indexed.
SkipUnchanged(w, v) ==
    /\ AtWork(w, "fetch") /\ worker[w].unchanged = Page(w, v)
    /\ SetStatus(AfterSkip)
    /\ Finish(w)
    /\ Step(w, Idle)
    /\ UNCHANGED <<evictJob, request, vectors, analysed, lost, faults>>

Ingest(w, v) ==
    /\ AtWork(w, "fetch") /\ worker[w].unchanged # Page(w, v)
    /\ SetStatus("PROCESSING")
    /\ Step(w, Run("index", Page(w, v)))
    /\ UNCHANGED <<fetchJob, evictJob, request, vectors, analysed, lost, faults>>

Index(w) ==
    /\ AtWork(w, "index")
    /\ vectors' = worker[w].got
    /\ Step(w, Run("commit", worker[w].got))
    /\ UNCHANGED <<row, fetchJob, evictJob, request, analysed, lost, faults>>

\* The AI service fails, or has indexed and its answer is lost.  The last
\* attempt may leave chunks of a link that is gone.
IndexFails(w) ==
    /\ AtWork(w, "index")
    /\ Fault
    /\ vectors' \in {vectors, worker[w].got}
    /\ SetStatus("FAILED")
    /\ Retry(w)
    /\ lost' = IF Live(fetchJob') THEN lost ELSE lost \cup {"eviction"}
    /\ Step(w, Idle)
    /\ UNCHANGED <<evictJob, request, analysed>>

\* Mutant: the count of the final update is not looked at.
AfterCommit_Unchecked == "bump"

AfterCommit == IF Exists THEN "bump" ELSE "cleanup"

\* The final update asks for the id only.
Commit(w) ==
    /\ AtWork(w, "commit")
    /\ row' = IF Exists THEN [row EXCEPT !.status = "COMPLETED", !.content = worker[w].got]
                        ELSE row
    /\ Step(w, Run(AfterCommit, None))
    /\ UNCHANGED <<fetchJob, evictJob, request, vectors, analysed, lost, faults>>

\* Mutant: the worker leaves the evidence revision alone.
Invalidated_Never(a) == a

Invalidated(a) == None

BumpAfterCommit(w) ==
    /\ AtWork(w, "bump")
    /\ \/ analysed' = Invalidated(analysed) /\ UNCHANGED <<lost, faults>>
       \/ Fault /\ lost' = lost \cup {"bump"} /\ UNCHANGED analysed
    /\ Finish(w)
    /\ Step(w, Idle)
    /\ UNCHANGED <<row, evictJob, request, vectors>>

\* The row is gone: the chunks go too.
Cleanup(w) ==
    /\ AtWork(w, "cleanup")
    /\ \/ vectors' = None /\ Finish(w) /\ UNCHANGED <<lost, faults>>
       \/ /\ Fault /\ Retry(w) /\ UNCHANGED vectors
          /\ lost' = IF Live(fetchJob') THEN lost ELSE lost \cup {"eviction"}
    /\ Step(w, Idle)
    /\ UNCHANGED <<row, evictJob, request, analysed>>

\* A worker dies: the stalled job is handed out again, or failed when it stalls
\* repeatedly.
WorkerDies(w) ==
    /\ Busy(w)
    /\ Fault
    /\ LET dropped == IF AtWork(w, "bump") THEN {"bump"} ELSE {} IN
       \/ /\ fetchJob.owner = w /\ fetchJob' = Waiting(fetchJob.tries)
          /\ lost' = lost \cup dropped
       \/ /\ Finish(w)
          /\ lost' = lost \cup dropped \cup {"fetch", "eviction"}
    /\ Step(w, Idle)
    /\ UNCHANGED <<row, evictJob, request, vectors, analysed>>

\* deleteCandidateLinkIndex, one attempt.
RunEviction ==
    /\ evictJob.state = "waiting"
    /\ \/ vectors' = None /\ evictJob' = Kept /\ UNCHANGED <<lost, faults>>
       \/ /\ Fault /\ UNCHANGED vectors
          /\ IF MoreAttempts(evictJob.tries)
             THEN evictJob' = Waiting(evictJob.tries + 1) /\ UNCHANGED lost
             ELSE evictJob' = Kept /\ lost' = lost \cup {"eviction"}
    /\ UNCHANGED <<row, fetchJob, worker, request, analysed>>

\* removeOnComplete and removeOnFail.
JobExpires ==
    /\ \/ fetchJob = Kept /\ fetchJob' = NoJob /\ UNCHANGED evictJob
       \/ evictJob = Kept /\ evictJob' = NoJob /\ UNCHANGED fetchJob
    /\ UNCHANGED <<row, worker, request, vectors, analysed, lost, faults>>

\* A Job Match of the candidate retrieves what is indexed of an existing link.
Analyse ==
    /\ Exists
    /\ analysed' = vectors
    /\ UNCHANGED <<row, fetchJob, evictJob, worker, request, vectors, lost, faults>>

-----------------------------------------------------------------------------
RequestStep(r) ==
    \/ MarkPending(r) \/ BumpRevision(r)
    \/ EnqueueEviction(r) \/ EvictInline(r)
    \/ LookupJob(r) \/ RemoveJob(r) \/ AddJob(r)

WorkerStep(w) ==
    \/ ReadLink(w) \/ IngestFails(w)
    \/ \E v \in Versions : SkipUnchanged(w, v) \/ Ingest(w, v)
    \/ Index(w) \/ IndexFails(w) \/ Commit(w) \/ BumpAfterCommit(w) \/ Cleanup(w)

Next ==
    \/ \E r \in Requests :
        \/ \E u \in Urls : Create(r, u) \/ Update(r, u)
        \/ Remove(r) \/ Reprocess(r)
        \/ RequestStep(r) \/ RequestEnds(r)
    \/ \E w \in Workers : WorkerStep(w) \/ WorkerDies(w)
    \/ RunEviction \/ JobExpires \/ Analyse

Spec == Init /\ [][Next]_vars
-----------------------------------------------------------------------------
(* Properties.                                                             *)

\* A retry never double-processes: one worker at a time runs the fetch job of a
\* link, although enqueueCandidateLink looks, removes and adds in three calls.
SingleFetch == \A v, w \in Workers : Busy(v) /\ Busy(w) => v = w

Quiet ==
    /\ \A w \in Workers : ~Busy(w)
    /\ \A r \in Requests : At(r, "idle")
    /\ ~Live(fetchJob) /\ ~Live(evictJob)

\* A deletion stays authoritative: once everything has run, a deleted link has
\* no chunks in the AI service, also when its fetch was under way.  The only way
\* to leave some is an eviction that was not taken or that failed for good.
LeftoversExplained ==
    Quiet /\ row = Gone /\ vectors # None => "eviction" \in lost

\* A link is left in flight with no job only if its fetch was not taken: a
\* request met its job in the hands of a worker, or ended early.
StuckExplained ==
    Quiet /\ Exists /\ row.status \in InFlight => "fetch" \in lost

\* What the evidence revision is for: a Job Match that counts as current speaks of
\* the content the link has now, unless a bump of the revision was lost or the
\* fetch of a new address gave way to one under way for the old.
AnalysisIsCurrent ==
    Quiet /\ Exists /\ row.status = "COMPLETED" /\ analysed # None
        => analysed = row.content \/ lost \cap {"bump", "fetch"} # {}

\* candidate-links.service.ts on update: keeping the old content under a new URL
\* would make every citation a lie.
ContentIsOfItsAddress ==
    Exists /\ row.status = "COMPLETED" => row.content.url = row.url
=============================================================================
