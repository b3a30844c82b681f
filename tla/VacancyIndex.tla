------------------------------ MODULE VacancyIndex ------------------------------
(***************************************************************************)
(* The job index of the AI service as seen from one vacancy: every change  *)
(* of the vacancy queues a sync (vacancies.service.ts), and a worker of    *)
(* the queue brings the index in line with the row as it reads it          *)
(* (syncVacancyIndex).  Syncs of one vacancy run side by side.             *)
(***************************************************************************)
EXTENDS Absence, Naturals, FiniteSets

CONSTANTS
    Syncers,            \* concurrency of the workers
    MaxEdits,           \* bound on changes of the vacancy
    SyncAttempts,
    MaxSyncFaults       \* bound on failed calls and crashes

ASSUME SyncAssumption ==
    /\ MaxEdits \in Nat /\ SyncAttempts \in Nat \ {0} /\ MaxSyncFaults \in Nat
    /\ None \notin Nat

VARIABLES
    posting,            \* what the vacancy says, None unless it is OPEN
    edits,              \* changes made so far
    indexed,            \* what the index says
    due,                \* sync jobs that wait, by attempts made
    sync,
    written,            \* the latest that a sync which has written had read
                        \* (observation)
    crossed,            \* the index was last written by a sync that had read earlier
                        \* than that (observation)
    dropped,            \* the last change of the vacancy has no sync that will
                        \* succeed (observation)
    syncFaults

syncVars == <<posting, edits, indexed, due, sync, crossed, written, dropped, syncFaults>>

Postings == {None} \cup 0 .. MaxEdits
Resting == [at |-> "idle"]

SyncTypeOK ==
    /\ posting \in Postings /\ indexed \in Postings
    /\ {edits, written} \subseteq 0 .. MaxEdits
    /\ due \in [0 .. SyncAttempts - 1 -> Nat]
    /\ sync \in [Syncers -> {Resting} \cup
          [at : {"read", "call"}, tries : 0 .. SyncAttempts - 1, saw : Postings,
           when : 0 .. MaxEdits]]
    /\ crossed \in BOOLEAN /\ dropped \in BOOLEAN
    /\ syncFaults \in 0 .. MaxSyncFaults

SyncInit ==
    /\ posting = None /\ edits = 0 /\ indexed = None
    /\ due = [n \in 0 .. SyncAttempts - 1 |-> 0]
    /\ sync = [w \in Syncers |-> Resting]
    /\ crossed = FALSE /\ written = 0 /\ dropped = FALSE /\ syncFaults = 0

SyncFault == syncFaults < MaxSyncFaults /\ syncFaults' = syncFaults + 1

\* Mutant: a closed or a deleted vacancy queues no sync.
Queues_Open(p) == p # None

\* queueIndexSync after create, update, setStatus and remove.
Queues(p) == TRUE

\* The vacancy is opened or edited, or it leaves OPEN.  The sync is best effort.
EditVacancy ==
    /\ edits < MaxEdits /\ edits' = edits + 1
    /\ posting' \in {edits + 1, None}
    /\ \/ /\ due' = IF Queues(posting') THEN [due EXCEPT ![0] = @ + 1] ELSE due
          /\ dropped' = FALSE /\ UNCHANGED syncFaults
       \/ SyncFault /\ dropped' = TRUE /\ UNCHANGED due
    /\ UNCHANGED <<indexed, sync, crossed, written>>

TakeSync(w) ==
    /\ sync[w] = Resting
    /\ \E n \in DOMAIN due :
        /\ due[n] > 0
        /\ due' = [due EXCEPT ![n] = @ - 1]
        /\ sync' = [sync EXCEPT ![w] =
              [at |-> "read", tries |-> n, saw |-> None, when |-> 0]]
    /\ UNCHANGED <<posting, edits, indexed, crossed, written, dropped, syncFaults>>

ReadVacancy(w) ==
    /\ sync[w] # Resting /\ sync[w].at = "read"
    /\ sync' = [sync EXCEPT ![w].at = "call", ![w].saw = posting, ![w].when = edits]
    /\ UNCHANGED <<posting, edits, indexed, due, crossed, written, dropped, syncFaults>>

Write(w) ==
    /\ indexed' = sync[w].saw
    /\ crossed' = (sync[w].when < written)
    /\ written' = IF sync[w].when < written THEN written ELSE sync[w].when

\* indexVacancy or deleteVacancyIndex.
CallIndex(w) ==
    /\ sync[w] # Resting /\ sync[w].at = "call"
    /\ Write(w)
    /\ sync' = [sync EXCEPT ![w] = Resting]
    /\ UNCHANGED <<posting, edits, due, dropped, syncFaults>>

\* Another sync will read the vacancy, or has read its last change.
Covered(w) ==
    \/ \E n \in DOMAIN due : due[n] > 0
    \/ \E v \in Syncers \ {w} : sync[v] # Resting /\ (sync[v].at = "read" \/ sync[v].when = edits)

\* The attempt fails, perhaps only after it has written: once more, or no more.
SyncFails(w) ==
    /\ sync[w] # Resting
    /\ SyncFault
    /\ \/ sync[w].at = "call" /\ Write(w)
       \/ UNCHANGED <<indexed, written, crossed>>
    /\ IF sync[w].tries + 1 < SyncAttempts
       THEN due' = [due EXCEPT ![sync[w].tries + 1] = @ + 1] /\ UNCHANGED dropped
       ELSE /\ dropped' = (dropped \/ ~(Covered(w) \/ written' = edits))
            /\ UNCHANGED due
    /\ sync' = [sync EXCEPT ![w] = Resting]
    /\ UNCHANGED <<posting, edits>>

SyncNext ==
    \/ EditVacancy
    \/ \E w \in Syncers : TakeSync(w) \/ ReadVacancy(w) \/ CallIndex(w) \/ SyncFails(w)

SyncSpec == SyncInit /\ [][SyncNext]_syncVars
-----------------------------------------------------------------------------
(* Properties.                                                             *)

Synced == (\A w \in Syncers : sync[w] = Resting) /\ \A n \in DOMAIN due : due[n] = 0

\* However often a vacancy is edited, closed and reopened while syncs are under
\* way, the index ends up saying what the vacancy says, unless a sync that had
\* read earlier wrote last or a sync was lost for good.
IndexFollows == Synced => indexed = posting \/ crossed \/ dropped
===============================================================================
