----------------------------- MODULE MCRecruiting -----------------------------
(***************************************************************************)
(* Vacancies, applications, documents, the external catalogue and the job  *)
(* matches, for TLC: five components that share no state, in one run.  A   *)
(* behaviour begins in one of them and stays there while the others rest   *)
(* in an initial state, so that what is checked of each is what a run of   *)
(* its own would check.                                                    *)
(***************************************************************************)
EXTENDS JobMatch, ExternalJobs, Hiring, DocumentQueue, VacancyIndex, TLC

VARIABLE component

Init ==
    /\ component \in {"match", "jobs", "hiring", "documents", "vacancies"}
    /\ MatchInit /\ JobsInit /\ HireInit /\ DocInit /\ SyncInit
    /\ component # "match" => active = {} /\ intent = CHOOSE i \in Intents : TRUE

MatchMoves ==
    /\ component = "match" /\ MatchNext
    /\ UNCHANGED <<component, jobsVars, hireVars, docVars, syncVars>>

JobsMove ==
    /\ component = "jobs" /\ JobsNext
    /\ UNCHANGED <<component, matchVars, hireVars, docVars, syncVars>>

HiringMoves ==
    /\ component = "hiring" /\ HireNext
    /\ UNCHANGED <<component, matchVars, jobsVars, docVars, syncVars>>

DocumentMoves ==
    /\ component = "documents" /\ DocNext
    /\ UNCHANGED <<component, matchVars, jobsVars, hireVars, syncVars>>

VacancyMoves ==
    /\ component = "vacancies" /\ SyncNext
    /\ UNCHANGED <<component, matchVars, jobsVars, hireVars, docVars>>

Next == MatchMoves \/ JobsMove \/ HiringMoves \/ DocumentMoves \/ VacancyMoves

Spec == Init /\ [][Next]_<<component, matchVars, jobsVars, hireVars, docVars, syncVars>>

\* The type invariants of the components, and with them their counters stay
\* within their bounds: a job is never attempted more often than it may be.
TypesOK == MatchTypeOK /\ JobsTypeOK /\ HireTypeOK /\ DocTypeOK /\ SyncTypeOK

\* The sets of these components take their values from three pairs.
Symmetry == Permutations(Providers) \cup Permutations(Readers) \cup Permutations(Sweepers)
===============================================================================
