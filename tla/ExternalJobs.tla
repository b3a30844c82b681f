----------------------------- MODULE ExternalJobs -----------------------------
(***************************************************************************)
(* One requisition of the external catalogue and the sweeps that ingest it *)
(* from the boards of several providers and retire what a complete listing *)
(* no longer has.  Each provider lists it on a home board, swept before    *)
(* its other boards.  A sweep is a chain of separate database calls; one   *)
(* worker runs one at a time, a second one is another process.  A sweep    *)
(* whose first fetch throws does nothing and is left out.                  *)
(***************************************************************************)
EXTENDS Absence, Naturals, FiniteSets

CONSTANTS
    Providers,
    Sweepers,       \* processes that can run a sweep
    MaxJobs         \* bound on how often the requisition is created

VARIABLES
    job,            \* external_jobs: its id and status, or None
    created,        \* jobs created so far
    source,         \* external_job_sources: the status of each provider's sighting
    sweep,
    deadline,       \* the employer's own deadline has passed
    looked,         \* what the last fetched page showed (observation)
    overlapped      \* two sweeps were under way together (observation)

jobsVars == <<job, created, source, sweep, deadline, looked, overlapped>>

SourceStatuses == {"ACTIVE", "CLOSED", "GONE"}
JobStatuses == {"ACTIVE", "STALE", "CLOSED", "EXPIRED", "UNAVAILABLE"}
Searchable == {"ACTIVE", "STALE"}
Sights == {"open", "closed", "absent", "rejected"}
Job == [id : 1 .. MaxJobs, status : JobStatuses]

ASSUME JobsAssumption == MaxJobs \in Nat /\ None \notin Job /\ None \notin SourceStatuses

Off == [at |-> "idle"]

JobsTypeOK ==
    /\ job \in {None} \cup Job
    /\ created \in 0 .. MaxJobs
    /\ source \in [Providers -> {None} \cup SourceStatuses]
    /\ sweep \in [Sweepers -> {Off} \cup
          [at : {"find", "touch", "create", "read", "write", "enforce", "delete", "others",
                 "retire"},
           provider : Providers, id : 0 .. MaxJobs, sight : Sights, complete : BOOLEAN,
           ingesting : BOOLEAN, status : JobStatuses]]
    /\ deadline \in BOOLEAN /\ overlapped \in BOOLEAN
    /\ looked \in [Providers -> {None} \cup Sights]

JobsInit ==
    /\ job = None /\ created = 0
    /\ source = [p \in Providers |-> None]
    /\ sweep = [w \in Sweepers |-> Off]
    /\ deadline = FALSE /\ overlapped = FALSE
    /\ looked = [p \in Providers |-> None]

Doing(w, step) == sweep[w] # Off /\ sweep[w].at = step
Now(w, step) == sweep' = [sweep EXCEPT ![w].at = step]
Exists(id) == job # None /\ job.id = id

\* The ingestion of the page, or the retirement, is over.
Over(w) == [sweep EXCEPT ![w] = IF @.ingesting
                                THEN [@ EXCEPT !.at = "others", !.id = 0, !.status = "ACTIVE"]
                                ELSE Off]

-----------------------------------------------------------------------------
\* A sweep fetches the home board: a complete or partial listing that shows the
\* posting, does not, or shows one the provider cannot normalize.
Begin(w, p, sight, complete) ==
    /\ sweep[w] = Off
    /\ sweep' = [sweep EXCEPT ![w] =
          [at |-> IF sight \in {"open", "closed"} THEN "find" ELSE "others",
           provider |-> p, id |-> 0, sight |-> sight, complete |-> complete,
           ingesting |-> TRUE, status |-> "ACTIVE"]]
    /\ overlapped' = (overlapped \/ \E v \in Sweepers : sweep[v] # Off)
    /\ looked' = IF overlapped' THEN [q \in Providers |-> None]
                                ELSE [looked EXCEPT ![p] = sight]
    /\ UNCHANGED <<job, created, source, deadline>>

-----------------------------------------------------------------------------
(* ingestOne.  An error costs the posting, not the page.                   *)

Find(w) ==
    /\ Doing(w, "find")
    /\ sweep' = [sweep EXCEPT ![w].id = IF job = None THEN 0 ELSE job.id,
                              ![w].at = IF job = None THEN "create" ELSE "touch"]
    /\ UNCHANGED <<job, created, source, deadline, looked, overlapped>>

Sighted(w) == IF sweep[w].sight = "closed" THEN "CLOSED" ELSE "ACTIVE"

\* createJob: the fingerprint is unique.
CreateJob(w) ==
    /\ Doing(w, "create")
    /\ IF job = None
       THEN /\ created < MaxJobs
            /\ job' = [id |-> created + 1, status |-> Sighted(w)]
            /\ created' = created + 1
            /\ source' = [source EXCEPT ![sweep[w].provider] = Sighted(w)]
            /\ sweep' = [sweep EXCEPT ![w].id = created + 1, ![w].at = "read"]
       ELSE sweep' = Over(w) /\ UNCHANGED <<job, created, source>>
    /\ UNCHANGED <<deadline, looked, overlapped>>

\* touchSource: a sighting of a job that is gone violates its foreign key.
TouchSource(w) ==
    /\ Doing(w, "touch")
    /\ IF source[sweep[w].provider] # None \/ Exists(sweep[w].id)
       THEN /\ source' = [source EXCEPT ![sweep[w].provider] = Sighted(w)]
            /\ Now(w, "read")
       ELSE sweep' = Over(w) /\ UNCHANGED source
    /\ UNCHANGED <<job, created, deadline, looked, overlapped>>

\* Mutant: a job is active only when every source is.
Resolve_All(sources) ==
    IF \A p \in Providers : sources[p] \in {None, "ACTIVE"} THEN "ACTIVE" ELSE "UNAVAILABLE"

\* resolveJobStatus; STALE is left to Age.
Resolve(sources) ==
    IF deadline THEN "EXPIRED"
    ELSE IF \E p \in Providers : sources[p] = "ACTIVE" THEN "ACTIVE"
    ELSE IF \E p \in Providers : sources[p] = "CLOSED" THEN "CLOSED"
    ELSE "UNAVAILABLE"

\* reconcileJob reads the job with its sources ...
ReconcileRead(w) ==
    /\ Doing(w, "read")
    /\ sweep' = IF Exists(sweep[w].id)
                THEN [sweep EXCEPT ![w].status = Resolve(source), ![w].at = "write"]
                ELSE Over(w)
    /\ UNCHANGED <<job, created, source, deadline, looked, overlapped>>

\* ... and writes by id.
ReconcileWrite(w) ==
    /\ Doing(w, "write")
    /\ IF Exists(sweep[w].id)
       THEN /\ job' = [job EXCEPT !.status = sweep[w].status]
            /\ sweep' = [sweep EXCEPT ![w].at = "enforce", ![w].status = "ACTIVE"]
       ELSE sweep' = Over(w) /\ UNCHANGED job
    /\ UNCHANGED <<created, source, deadline, looked, overlapped>>

\* enforceLiveOnly reads the status ...
EnforceRead(w) ==
    /\ Doing(w, "enforce")
    /\ IF Exists(sweep[w].id) /\ job.status \notin Searchable
       THEN Now(w, "delete") ELSE sweep' = Over(w)
    /\ UNCHANGED <<job, created, source, deadline, looked, overlapped>>

\* Sources go with their job.
DeleteJob == job' = None /\ source' = [p \in Providers |-> None]

\* ... and deletes by id.
EnforceDelete(w) ==
    /\ Doing(w, "delete")
    /\ IF Exists(sweep[w].id) THEN DeleteJob ELSE UNCHANGED <<job, source>>
    /\ sweep' = Over(w)
    /\ UNCHANGED <<created, deadline, looked, overlapped>>

-----------------------------------------------------------------------------
\* The fetch of a later board throws: the run has failed, and nothing is absent.
FetchThrows(w) ==
    /\ Doing(w, "others")
    /\ sweep' = [sweep EXCEPT ![w] = Off]
    /\ UNCHANGED <<job, created, source, deadline, looked, overlapped>>

\* Mutant: a partial listing counts as an absence.
Actionable_Partial(w) == TRUE

\* A complete scope, which is what absenceVerdict asks of a run that succeeded.
Actionable(w) == sweep[w].complete

\* The other boards are fetched, and markAbsent looks for active sources that
\* were not observed ...
MarkAbsent(w) ==
    /\ Doing(w, "others")
    /\ sweep' = IF /\ Actionable(w)
                   /\ source[sweep[w].provider] = "ACTIVE"
                   /\ sweep[w].sight \notin {"open", "closed"}
                THEN [sweep EXCEPT ![w].at = "retire", ![w].id = job.id]
                ELSE [sweep EXCEPT ![w] = Off]
    /\ UNCHANGED <<job, created, source, deadline, looked, overlapped>>

\* ... and retires them by id.
Retire(w) ==
    /\ Doing(w, "retire")
    /\ source' = IF Exists(sweep[w].id) /\ source[sweep[w].provider] # None
                 THEN [source EXCEPT ![sweep[w].provider] = "GONE"] ELSE source
    /\ sweep' = [sweep EXCEPT ![w].ingesting = FALSE, ![w].complete = FALSE,
                              ![w].at = "read"]
    /\ UNCHANGED <<job, created, deadline, looked, overlapped>>

-----------------------------------------------------------------------------
(* ExternalRevalidateService, a job of the same queue.                     *)

Purge ==
    /\ \E w \in Sweepers : sweep[w] = Off
    /\ job # None /\ (deadline \/ job.status \notin Searchable)
    /\ DeleteJob
    /\ UNCHANGED <<created, sweep, deadline, looked, overlapped>>

Age ==
    /\ job # None /\ job.status = "ACTIVE"
    /\ job' = [job EXCEPT !.status = "STALE"]
    /\ UNCHANGED <<created, source, sweep, deadline, looked, overlapped>>

DeadlinePasses ==
    /\ job # None /\ ~deadline
    /\ deadline' = TRUE
    /\ UNCHANGED <<job, created, source, sweep, looked, overlapped>>

JobsNext ==
    \/ \E w \in Sweepers :
        \/ \E p \in Providers, sight \in Sights, complete \in BOOLEAN :
              Begin(w, p, sight, complete)
        \/ Find(w) \/ CreateJob(w) \/ TouchSource(w)
        \/ ReconcileRead(w) \/ ReconcileWrite(w) \/ EnforceRead(w) \/ EnforceDelete(w)
        \/ FetchThrows(w) \/ MarkAbsent(w) \/ Retire(w)
    \/ Purge \/ Age \/ DeadlinePasses

JobsSpec == JobsInit /\ [][JobsNext]_jobsVars
-----------------------------------------------------------------------------
(* Properties.                                                             *)

\* A job with a live source is not deleted before its deadline, whatever the
\* other sources say, unless two sweeps overlap: then the status one of them
\* derived is written, and acted upon, after the other revived a source.
LiveSourceKeepsItsJob ==
    [][job # None /\ job' = None =>
          deadline \/ overlapped \/ \A p \in Providers : source[p] # "ACTIVE"]_jobsVars

\* An outage or a partial listing costs freshness, never inventory: a source is
\* retired only if the last page that covered it did not have the posting, or
\* had one that could not be normalized.
RetiredWasAbsent ==
    [][\A p \in Providers : source[p] # "GONE" /\ source'[p] = "GONE" =>
          overlapped \/ \E w \in Sweepers :
              /\ sweep[w] # Off /\ sweep[w].provider = p /\ sweep[w].complete
              /\ looked[p] \in {"absent", "rejected"}]_jobsVars
===============================================================================
