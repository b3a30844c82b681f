------------------------------- MODULE JobMatch -------------------------------
(***************************************************************************)
(* The job matches of one candidate: readers ask for the ranking, reuse    *)
(* the stored run while it describes the current inputs, share a ranking   *)
(* under way, or make one and replace the stored run.                      *)
(*                                                                         *)
(* A run is the inputs it was made from.  The catalogue stands for the     *)
(* fingerprint of the open vacancies.  A ranking under way is shared by    *)
(* the readers of one process only, so that a reader may also start one.   *)
(***************************************************************************)
EXTENDS Absence, Naturals, FiniteSets

CONSTANTS
    Readers,
    Sources,        \* files and links, each added once
    Intents,        \* what the candidate is looking for
    MaxRevision,    \* bound on evidence revisions
    MaxRuns         \* bound on rankings

ASSUME RunsAssumption == MaxRevision \in Nat /\ MaxRuns \in Nat

VARIABLES
    revision,       \* evidenceRevision of the account
    active,         \* its active sources
    intent,
    catalogue,
    stored,         \* candidate_job_match_runs, one row at most
    runs,           \* rankings stored so far
    reader

matchVars == <<revision, active, intent, catalogue, stored, runs, reader>>

Revisions == 0 .. MaxRevision
Run == [id : 0 .. MaxRuns, revision : Revisions, sources : SUBSET Sources,
        intent : Intents, catalogue : BOOLEAN]

NoReader == [at |-> "idle"]
\* What a reader knows: its inputs as it reads them one after another, and the
\* run it was given.  retried: the second attempt to store a run.
Knowledge == [at : {"sources", "intent", "universe", "lookup", "compute", "begin",
                    "commit", "wait", "recheck", "page", "end"},
              revision : Revisions, sources : SUBSET Sources,
              intent : Intents, catalogue : BOOLEAN, refresh : BOOLEAN,
              run : Run \cup {None}, entries : BOOLEAN,
              joined : Readers \cup {None}, seen : 0 .. MaxRuns, retried : BOOLEAN]

MatchTypeOK ==
    /\ revision \in Revisions
    /\ active \subseteq Sources
    /\ intent \in Intents /\ catalogue \in BOOLEAN
    /\ stored \in Run \cup {None}
    /\ runs \in 0 .. MaxRuns
    /\ reader \in [Readers -> {NoReader} \cup Knowledge]

MatchInit ==
    /\ revision = 0 /\ active \in SUBSET Sources /\ intent \in Intents
    /\ catalogue = FALSE
    /\ stored = None /\ runs = 0
    /\ reader = [r \in Readers |-> NoReader]

Reads(r, step) == reader[r] # NoReader /\ reader[r].at = step
Learn(r, knowledge) == reader' = [reader EXCEPT ![r] = knowledge]
Inputs == <<revision, active, intent, catalogue>>

-----------------------------------------------------------------------------
\* requireAccount: the revision comes first.
ReadAccount(r, refresh) ==
    /\ reader[r] = NoReader
    /\ Learn(r, [at |-> "sources", revision |-> revision, sources |-> {},
                 intent |-> intent, catalogue |-> FALSE, refresh |-> refresh,
                 run |-> None, entries |-> FALSE, joined |-> None, seen |-> 0,
                 retried |-> FALSE])
    /\ UNCHANGED <<Inputs, stored, runs>>

\* The evidence gate, then the sources the ranking may use.
ReadSources(r) ==
    /\ Reads(r, "sources")
    /\ IF active = {} THEN Learn(r, NoReader)
       ELSE Learn(r, [reader[r] EXCEPT !.at = "intent", !.sources = active])
    /\ UNCHANGED <<Inputs, stored, runs>>

ReadIntent(r) ==
    /\ Reads(r, "intent")
    /\ Learn(r, [reader[r] EXCEPT !.at = "universe", !.intent = intent])
    /\ UNCHANGED <<Inputs, stored, runs>>

LoadUniverse(r) ==
    /\ Reads(r, "universe")
    /\ Learn(r, [reader[r] EXCEPT !.catalogue = catalogue,
                                  !.at = IF reader[r].refresh THEN "compute" ELSE "lookup"])
    /\ UNCHANGED <<Inputs, stored, runs>>

\* currentRun.
Current(run, asked) ==
    /\ run # None
    /\ run.revision = asked.revision
    /\ run.catalogue = asked.catalogue
    /\ run.intent = asked.intent

Lookup(r) ==
    /\ Reads(r, "lookup")
    /\ Learn(r, IF Current(stored, reader[r])
                THEN [reader[r] EXCEPT !.at = "page", !.run = stored]
                ELSE [reader[r] EXCEPT !.at = "compute"])
    /\ UNCHANGED <<Inputs, stored, runs>>

\* Mutant: the key of a ranking under way leaves out the intent.
SameKey_AnyIntent(mine, other) ==
    mine.revision = other.revision /\ mine.catalogue = other.catalogue

\* The key of a ranking under way.
SameKey(mine, other) ==
    /\ mine.revision = other.revision
    /\ mine.catalogue = other.catalogue
    /\ mine.intent = other.intent

Join(r, s) ==
    /\ Reads(r, "compute")
    /\ Reads(s, "begin") \/ Reads(s, "commit")
    /\ SameKey(reader[r], reader[s])
    /\ Learn(r, [reader[r] EXCEPT !.at = "wait", !.joined = s])
    /\ UNCHANGED <<Inputs, stored, runs>>

Compute(r) ==
    /\ Reads(r, "compute")
    /\ Learn(r, [reader[r] EXCEPT !.at = "begin"])
    /\ UNCHANGED <<Inputs, stored, runs>>

IdOf(run) == IF run = None THEN 0 ELSE run.id

\* The transaction that replaces the stored run sees the run it will delete ...
BeginStore(r) ==
    /\ Reads(r, "begin")
    /\ Learn(r, [reader[r] EXCEPT !.at = "commit", !.seen = IdOf(stored)])
    /\ UNCHANGED <<Inputs, stored, runs>>

Made(r) == [id |-> runs + 1, revision |-> reader[r].revision, sources |-> reader[r].sources,
            intent |-> reader[r].intent, catalogue |-> reader[r].catalogue]

Waiting(r) == {s \in Readers : Reads(s, "wait") /\ reader[s].joined = r}

\* ... and inserts its own: every reader that shares it looks it up.
CommitStore(r) ==
    /\ Reads(r, "commit") /\ reader[r].seen = IdOf(stored)
    /\ runs < MaxRuns
    /\ stored' = Made(r) /\ runs' = runs + 1
    /\ reader' = [s \in Readers |->
          IF s \in Waiting(r) \cup {r}
          THEN [reader[s] EXCEPT !.at = "recheck", !.joined = None, !.run = Made(r)]
          ELSE reader[s]]
    /\ UNCHANGED <<Inputs>>

\* Another run was stored meanwhile (P2002): once more, then an error.
StoreConflict(r) ==
    /\ Reads(r, "commit") /\ reader[r].seen # IdOf(stored)
    /\ IF reader[r].retried
       THEN reader' = [s \in Readers |-> IF s \in Waiting(r) \cup {r}
                                         THEN NoReader ELSE reader[s]]
       ELSE Learn(r, [reader[r] EXCEPT !.at = "begin", !.retried = TRUE])
    /\ UNCHANGED <<Inputs, stored, runs>>

\* The stored run has the inputs of the ranking just made.
StillCurrent(made, r) == Current(stored, [made EXCEPT !.revision = reader[r].revision])

\* currentRun again: or an empty page.
Recheck(r) ==
    /\ Reads(r, "recheck")
    /\ Learn(r, IF StillCurrent(reader[r].run, r)
                THEN [reader[r] EXCEPT !.at = "page", !.run = stored]
                ELSE [reader[r] EXCEPT !.at = "end", !.run = None])
    /\ UNCHANGED <<Inputs, stored, runs>>

\* The entries of the run, none when it was replaced since.
Page(r) ==
    /\ Reads(r, "page")
    /\ Learn(r, [reader[r] EXCEPT !.at = "end",
                                  !.entries = (stored # None /\ stored.id = reader[r].run.id)])
    /\ UNCHANGED <<Inputs, stored, runs>>

\* The revision is read again, and the answer is given.
Stale(r) == revision # reader[r].revision

Finish(r) ==
    /\ Reads(r, "end")
    /\ Learn(r, NoReader)
    /\ UNCHANGED <<Inputs, stored, runs>>

-----------------------------------------------------------------------------
(* What changes meanwhile.                                                 *)

\* Mutant: a deletion leaves the revision to a later call.
AfterDeletion_Later(n) == n

\* The cascade of a deletion bumps the revision in its transaction.
AfterDeletion(n) == n + 1

DeleteSource(s) ==
    /\ s \in active /\ revision < MaxRevision
    /\ active' = active \ {s}
    /\ revision' = AfterDeletion(revision)
    /\ UNCHANGED <<intent, catalogue, stored, runs, reader>>

\* New or refreshed evidence.
BumpEvidence ==
    /\ revision < MaxRevision
    /\ revision' = revision + 1
    /\ UNCHANGED <<active, intent, catalogue, stored, runs, reader>>

ChangeIntent(i) ==
    /\ i # intent /\ intent' = i
    /\ UNCHANGED <<revision, active, catalogue, stored, runs, reader>>

ChangeCatalogue ==
    /\ ~catalogue /\ catalogue' = TRUE
    /\ UNCHANGED <<revision, active, intent, stored, runs, reader>>

MatchNext ==
    \/ \E r \in Readers :
        \/ \E refresh \in BOOLEAN : ReadAccount(r, refresh)
        \/ ReadSources(r) \/ ReadIntent(r) \/ LoadUniverse(r) \/ Lookup(r)
        \/ \E s \in Readers : Join(r, s)
        \/ Compute(r) \/ BeginStore(r) \/ CommitStore(r) \/ StoreConflict(r)
        \/ Recheck(r) \/ Page(r) \/ Finish(r)
    \/ \E s \in Sources : DeleteSource(s)
    \/ \E i \in Intents : ChangeIntent(i)
    \/ BumpEvidence \/ ChangeCatalogue

MatchSpec == MatchInit /\ [][MatchNext]_matchVars
-----------------------------------------------------------------------------
(* Properties.                                                             *)

\* A deletion that lands while a ranking is made never yields one that counts as
\* current and rests on what was deleted: neither the stored run nor an answer
\* that is not marked stale.
CurrentRunIsClean ==
    /\ stored # None /\ stored.revision = revision => stored.sources \subseteq active
    /\ \A r \in Readers :
        Reads(r, "end") /\ ~Stale(r) /\ reader[r].run # None
            => reader[r].run.sources \subseteq active

\* A reader is shown a ranking for what the candidate looked for when it asked,
\* never for a neighbour's intent.
NeverANeighboursIntent ==
    \A r \in Readers : (Reads(r, "page") \/ Reads(r, "end")) /\ reader[r].run # None
        => reader[r].run.intent = reader[r].intent
===============================================================================
