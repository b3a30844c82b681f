----------------------------- MODULE DocumentQueue -----------------------------
(***************************************************************************)
(* One document of an organization on its way through the processing queue *)
(* (documents.service.ts, processing.service.ts, and processOrgDocument of *)
(* document-processing.processor.ts).  Its status is written by the        *)
(* request that queues it, by the worker, and by the reports of the AI     *)
(* service, none of which looks at what the others wrote.                  *)
(*                                                                         *)
(* PARSING to INDEXING are one status.  The calls by which a job is looked *)
(* up, removed and added are those of CandidateLink; here they are a step. *)
(***************************************************************************)
EXTENDS Absence, Naturals, FiniteSets

CONSTANTS
    Demands,            \* requests under way at once
    JobAttempts,        \* attempts of a job
    MaxDocFaults        \* bound on failed calls and crashes

ASSUME DocAssumption ==
    JobAttempts \in Nat \ {0} /\ MaxDocFaults \in Nat /\ None \notin STRING

VARIABLES
    document,           \* its status
    tracking,           \* the status of its newest processing_jobs row
    queued,             \* its BullMQ job
    work,               \* what the worker of that job is about to do
    stray,              \* a call of the AI service that nobody awaits any more, a
                        \* report that the AI service no longer awaits
    chunks,             \* the document is in the vector store
    demand,
    blame,              \* why a status or chunks may be left behind (observation)
    docFaults

docVars == <<document, tracking, queued, work, stray, chunks, demand, blame, docFaults>>

InProgress == {"QUEUED", "INDEXING"}
Present == document # "GONE"

NotQueued == [state |-> "none", tries |-> 0]
InLine(n) == [state |-> "waiting", tries |-> n]
OverAndDone == [state |-> "kept", tries |-> 0]
Underway == queued.state \in {"waiting", "active"}

NoDemand == [at |-> "idle", late |-> FALSE, newest |-> FALSE]

DocTypeOK ==
    /\ document \in {"UPLOADED", "COMPLETED", "FAILED", "GONE"} \cup InProgress
    /\ tracking \in {None, "PENDING", "QUEUED", "RUNNING", "COMPLETED", "FAILED"}
    /\ queued \in [state : {"none", "waiting", "active", "kept"}, tries : 0 .. JobAttempts - 1]
    /\ work \in {"idle", "ai", "check", "complete", "evict", "missing"}
    /\ stray \subseteq {"call", "report"}
    /\ chunks \in BOOLEAN
    /\ demand \in [Demands ->
          [at : {"idle", "create", "enqueue", "job", "document", "evict"},
           late : BOOLEAN, newest : BOOLEAN]]
    /\ blame \subseteq {"overtaken", "late", "request", "worker", "eviction"}
    /\ docFaults \in 0 .. MaxDocFaults

DocInit ==
    /\ document = "UPLOADED" /\ tracking = None
    /\ queued = NotQueued /\ work = "idle" /\ stray = {}
    /\ chunks = FALSE
    /\ demand = [q \in Demands |-> NoDemand]
    /\ blame = {} /\ docFaults = 0

DocFault == docFaults < MaxDocFaults /\ docFaults' = docFaults + 1

-----------------------------------------------------------------------------
(* Requests.                                                               *)

DemandAt(q, step) == demand[q].at = step
Proceed(q, step) == demand' = [demand EXCEPT ![q].at = step]
Served(q) == demand' = [demand EXCEPT ![q] = NoDemand]

\* reprocess: not what is COMPLETED, nor what a live job is about.
AskReprocess(q) ==
    /\ DemandAt(q, "idle") /\ Present
    /\ document # "COMPLETED"
    /\ ~(document \in InProgress /\ Underway)
    /\ Proceed(q, "create")
    /\ UNCHANGED <<document, tracking, queued, work, stray, chunks, blame, docFaults>>

\* createJob; it fails for a document that is gone by now.
CreateTracking(q) ==
    /\ DemandAt(q, "create")
    /\ IF Present
       THEN /\ tracking' = "PENDING"
            /\ demand' = [p \in Demands |->
                  IF p = q THEN [demand[p] EXCEPT !.at = "enqueue", !.newest = TRUE]
                           ELSE [demand[p] EXCEPT !.newest = FALSE]]
       ELSE Served(q) /\ UNCHANGED tracking
    /\ UNCHANGED <<document, queued, work, stray, chunks, blame, docFaults>>

\* Mutant: a job kept after it ended is not removed before the add.
Replaces_Nothing == queued = NotQueued

\* enqueueDocument with replaceExisting.
Replaces == ~Underway

EnqueueDocument(q) ==
    /\ DemandAt(q, "enqueue")
    /\ queued' = IF Replaces THEN InLine(0) ELSE queued
    /\ demand' = [demand EXCEPT ![q].at = "job", ![q].late = (queued.state = "active")]
    /\ UNCHANGED <<document, tracking, work, stray, chunks, blame, docFaults>>

\* markQueued: the row of the request, then the document.
MarkJobQueued(q) ==
    /\ DemandAt(q, "job")
    /\ IF Present THEN Proceed(q, "document") ELSE Served(q)
    /\ tracking' = IF Present /\ demand[q].newest THEN "QUEUED" ELSE tracking
    /\ UNCHANGED <<document, queued, work, stray, chunks, blame, docFaults>>

MarkDocumentQueued(q) ==
    /\ DemandAt(q, "document")
    /\ document' = IF Present THEN "QUEUED" ELSE document
    /\ blame' = IF demand[q].late THEN blame \cup {"overtaken"} ELSE blame
    /\ Served(q)
    /\ UNCHANGED <<tracking, queued, work, stray, chunks, docFaults>>

\* remove: the row and the file, then the chunks as far as possible.
DeleteDocument(q) ==
    /\ DemandAt(q, "idle") /\ Present
    /\ document' = "GONE" /\ tracking' = None
    /\ Proceed(q, "evict")
    /\ UNCHANGED <<queued, work, stray, chunks, blame, docFaults>>

EvictChunks(q) ==
    /\ DemandAt(q, "evict")
    /\ \/ chunks' = FALSE /\ UNCHANGED <<blame, docFaults>>
       \/ DocFault /\ blame' = blame \cup {"eviction"} /\ UNCHANGED chunks
    /\ Served(q)
    /\ UNCHANGED <<document, tracking, queued, work, stray>>

\* The process ends, or a call to the database or the queue fails.
DemandFails(q) ==
    /\ ~DemandAt(q, "idle")
    /\ DocFault
    /\ blame' = blame \cup (IF DemandAt(q, "evict") THEN {"eviction"} ELSE {"request"})
    /\ Served(q)
    /\ UNCHANGED <<document, tracking, queued, work, stray, chunks>>

-----------------------------------------------------------------------------
(* The worker and the AI service.                                          *)

\* A status written by the worker, which leaves nothing to explain.
Settle(status) ==
    /\ document' = IF Present THEN status ELSE document
    /\ tracking' = IF Present /\ tracking # None THEN status ELSE tracking

Attempt == blame \ {"overtaken", "late", "request", "worker"}

TakeJob ==
    /\ queued.state = "waiting" /\ work = "idle"
    /\ queued' = [queued EXCEPT !.state = "active"]
    /\ work' = IF Present THEN "ai" ELSE "missing"
    /\ demand' = [q \in Demands |->
          IF demand[q].at \in {"job", "document"} THEN [demand[q] EXCEPT !.late = TRUE]
                                                  ELSE demand[q]]
    /\ UNCHANGED <<document, tracking, stray, chunks, blame, docFaults>>

\* recordStage and advance: whatever the status was.
ReportStage ==
    /\ work = "ai" \/ stray # {}
    /\ Present
    /\ document' = "INDEXING"
    /\ tracking' = IF tracking = None THEN None ELSE "RUNNING"
    /\ blame' = IF work = "ai" THEN blame ELSE blame \cup {"late"}
    /\ UNCHANGED <<queued, work, stray, chunks, demand, docFaults>>

\* A report takes longer than the AI service waits for it.
ReportLags ==
    /\ work = "ai" /\ "report" \notin stray
    /\ DocFault
    /\ stray' = stray \cup {"report"}
    /\ UNCHANGED <<document, tracking, queued, work, chunks, demand, blame>>

IndexChunks ==
    /\ work = "ai"
    /\ chunks' = TRUE /\ work' = "check"
    /\ UNCHANGED <<document, tracking, queued, stray, demand, blame, docFaults>>

\* A call that was given up goes on in the AI service.
StrayIndexes ==
    /\ "call" \in stray
    /\ chunks' = TRUE /\ stray' = stray \ {"call"}
    /\ blame' = IF Present THEN blame ELSE blame \cup {"eviction"}
    /\ UNCHANGED <<document, tracking, queued, work, demand, docFaults>>

StrayEnds ==
    /\ \E k \in stray : stray' = stray \ {k}
    /\ UNCHANGED <<document, tracking, queued, work, chunks, demand, blame, docFaults>>

\* Mutant: one attempt too many.
Again_OffByOne ==
    /\ work' = "idle"
    /\ queued' = IF queued.tries < JobAttempts THEN InLine(queued.tries + 1)
                                               ELSE OverAndDone

\* A failed attempt is followed by another, or was the last.
Again ==
    /\ work' = "idle"
    /\ queued' = IF queued.tries + 1 < JobAttempts THEN InLine(queued.tries + 1)
                                                   ELSE OverAndDone

\* An unusable file, a failing service, or no answer within ai.timeoutMs.
AiFails ==
    /\ work = "ai"
    /\ \/ chunks' \in {chunks, FALSE} /\ UNCHANGED <<stray, docFaults>>
       \/ DocFault /\ stray' = stray \cup {"call"} /\ UNCHANGED chunks
    /\ Settle("FAILED")
    /\ blame' = Attempt
    /\ Again
    /\ UNCHANGED demand

CheckExists ==
    /\ work = "check"
    /\ work' = IF Present THEN "complete" ELSE "evict"
    /\ UNCHANGED <<document, tracking, queued, stray, chunks, demand, blame, docFaults>>

\* markCompleted, and markFailed in its place, throw for a document that is gone.
CompleteDocument ==
    /\ work = "complete"
    /\ Settle("COMPLETED")
    /\ IF Present THEN work' = "idle" /\ queued' = OverAndDone /\ blame' = Attempt
                  ELSE Again /\ UNCHANGED blame
    /\ UNCHANGED <<stray, chunks, demand, docFaults>>

\* Mutant: a document deleted while it was indexed keeps its chunks.
Evicted_Never(c) == c

Evicted(c) == FALSE

\* The deletion stays authoritative.  Without a row there is nothing to mark as
\* failed either, which makes one more attempt of it.
WorkerEvicts ==
    /\ work \in {"evict", "missing"}
    /\ \/ /\ chunks' = Evicted(chunks) /\ UNCHANGED <<blame, docFaults>>
          /\ IF work = "missing" THEN Again ELSE work' = "idle" /\ queued' = OverAndDone
       \/ /\ DocFault /\ Again /\ UNCHANGED chunks
          /\ blame' = blame \cup {"eviction"}
    /\ UNCHANGED <<document, tracking, stray, demand>>

\* The worker's process ends: its job is handed out again, or failed.
WorkerStalls ==
    /\ work # "idle"
    /\ DocFault
    /\ stray' = IF work = "ai" THEN stray \cup {"call"} ELSE stray
    /\ work' = "idle"
    /\ \/ queued' = InLine(queued.tries) /\ UNCHANGED blame
       \/ queued' = OverAndDone /\ blame' = blame \cup {"worker", "eviction"}
    /\ UNCHANGED <<document, tracking, chunks, demand>>

DocNext ==
    \/ \E q \in Demands :
        \/ AskReprocess(q) \/ CreateTracking(q) \/ EnqueueDocument(q)
        \/ MarkJobQueued(q) \/ MarkDocumentQueued(q)
        \/ DeleteDocument(q) \/ EvictChunks(q) \/ DemandFails(q)
    \/ TakeJob \/ ReportStage \/ ReportLags \/ IndexChunks \/ StrayIndexes \/ StrayEnds
    \/ AiFails \/ CheckExists \/ CompleteDocument \/ WorkerEvicts \/ WorkerStalls

DocSpec == DocInit /\ [][DocNext]_docVars
-----------------------------------------------------------------------------
(* Properties.                                                             *)

AtRest ==
    /\ \A q \in Demands : DemandAt(q, "idle")
    /\ work = "idle" /\ stray = {} /\ ~Underway

\* Once everything has run, a document says that it is queued or in progress
\* only if a request was overtaken by the worker it woke, a stage was reported
\* late, or a request or a worker died; and a deleted document leaves no chunks,
\* also when it was deleted while it was indexed, unless an eviction failed or
\* the AI service indexed it after all.
LeftBehindExplained ==
    AtRest =>
        /\ document \in InProgress => blame \cap {"overtaken", "late", "request", "worker"} # {}
        /\ document = "GONE" /\ chunks => "eviction" \in blame
===============================================================================
