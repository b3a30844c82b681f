----------------------------- MODULE LoginAttempts -----------------------------
(***************************************************************************)
(* The brute-force lock of the sign-in (login-attempts.service.ts): one of *)
(* its scopes, that of an identity or of an identity at an address.        *)
(* Attempts run their Redis calls one by one between each other's; when    *)
(* Redis fails the service lets the attempt through.  No attempt outlives  *)
(* a lock.                                                                 *)
(***************************************************************************)
EXTENDS Naturals, FiniteSets

CONSTANTS
    Attempts,           \* sign-ins under way at once
    FirstThreshold,     \* 5
    SecondThreshold,    \* 3
    MaxOutages

ASSUME ThresholdAssumption ==
    /\ IsFiniteSet(Attempts)
    /\ FirstThreshold \in Nat \ {0} /\ SecondThreshold \in Nat \ {0}
    /\ MaxOutages \in Nat

VARIABLES
    failures,           \* the fail key, 0 when absent
    hasTtl,             \* the fail key will expire
    locked,             \* the lock key
    level,              \* the escalation key, 0 when absent
    attempt,
    guesses,            \* wrong passwords compared since a lock began or ended, a
                        \* success, or the expiry of the count (observation)
    outages

loginVars == <<failures, hasTtl, locked, level, attempt, guesses, outages>>

NoAttempt == [at |-> "idle", count |-> 0, level |-> 0]
MaxCount == FirstThreshold + MaxOutages + Cardinality(Attempts)

LoginTypeOK ==
    /\ failures \in 0 .. MaxCount /\ guesses \in 0 .. MaxCount
    /\ hasTtl \in BOOLEAN /\ locked \in BOOLEAN
    /\ level \in 0 .. 2
    /\ attempt \in [Attempts ->
          [at : {"idle", "compare", "count", "expire", "level", "lock", "clear",
                 "escalate", "success"},
           count : 0 .. MaxCount, level : 0 .. 2]]
    /\ outages \in 0 .. MaxOutages

LoginInit ==
    /\ failures = 0 /\ hasTtl = FALSE /\ locked = FALSE /\ level = 0
    /\ attempt = [a \in Attempts |-> NoAttempt]
    /\ guesses = 0 /\ outages = 0

AttemptAt(a, step) == attempt[a].at = step
Then(a, step) == attempt' = [attempt EXCEPT ![a].at = step]
Done(a) == attempt' = [attempt EXCEPT ![a] = NoAttempt]

-----------------------------------------------------------------------------
\* checkBeforeAttempt: a locked caller is turned away.
Check(a) ==
    /\ AttemptAt(a, "idle") /\ ~locked
    /\ Then(a, "compare")
    /\ UNCHANGED <<failures, hasTtl, locked, level, guesses, outages>>

\* bcrypt says no, and login awaits recordFailure; or yes, and recordSuccess.
Compare(a) ==
    /\ AttemptAt(a, "compare")
    /\ \/ Then(a, "count") /\ guesses' = guesses + 1
       \/ Then(a, "success") /\ UNCHANGED guesses
    /\ UNCHANGED <<failures, hasTtl, locked, level, outages>>

\* Mutant: the first failure of a window gets no expiry.
AfterIncr_NoExpiry(count) == "level"

AfterIncr(count) == IF count = 1 THEN "expire" ELSE "level"

Incr(a) ==
    /\ AttemptAt(a, "count")
    /\ failures' = failures + 1
    /\ attempt' = [attempt EXCEPT ![a] = [@ EXCEPT !.at = AfterIncr(failures + 1),
                                                   !.count = failures + 1]]
    /\ UNCHANGED <<hasTtl, locked, level, guesses, outages>>

Expire(a) ==
    /\ AttemptAt(a, "expire")
    /\ hasTtl' = (failures > 0)
    /\ Then(a, "level")
    /\ UNCHANGED <<failures, locked, level, guesses, outages>>

Least(m, n) == IF m < n THEN m ELSE n

Threshold(l) == IF l = 0 THEN FirstThreshold ELSE Least(FirstThreshold, SecondThreshold)

\* Mutant: the lock comes one failure late.
Reached_Late(count, l) == count > Threshold(l)

Reached(count, l) == count >= Threshold(l)

ReadLevel(a) ==
    /\ AttemptAt(a, "level")
    /\ IF Reached(attempt[a].count, level)
       THEN attempt' = [attempt EXCEPT ![a] = [@ EXCEPT !.at = "lock", !.level = level]]
       ELSE Done(a)
    /\ UNCHANGED <<failures, hasTtl, locked, level, guesses, outages>>

Lock(a) ==
    /\ AttemptAt(a, "lock")
    /\ locked' = TRUE /\ guesses' = 0
    /\ Then(a, "clear")
    /\ UNCHANGED <<failures, hasTtl, level, outages>>

ClearFailures(a) ==
    /\ AttemptAt(a, "clear")
    /\ failures' = 0 /\ hasTtl' = FALSE
    /\ Then(a, "escalate")
    /\ UNCHANGED <<locked, level, guesses, outages>>

\* Mutant: the escalation has no highest level.
Escalated_Uncapped(l) == l + 1

Escalated(l) == Least(l + 1, 2)

Escalate(a) ==
    /\ AttemptAt(a, "escalate")
    /\ level' = Escalated(attempt[a].level)
    /\ Done(a)
    /\ UNCHANGED <<failures, hasTtl, locked, guesses, outages>>

\* recordSuccess: one DEL of the count and the escalation.
Success(a) ==
    /\ AttemptAt(a, "success")
    /\ failures' = 0 /\ hasTtl' = FALSE /\ level' = 0 /\ guesses' = 0
    /\ Done(a)
    /\ UNCHANGED <<locked, outages>>

\* Redis does not answer: failOpen.
FailOpen(a) ==
    /\ outages < MaxOutages /\ outages' = outages + 1
    /\ \/ AttemptAt(a, "idle") /\ Then(a, "compare")
       \/ ~AttemptAt(a, "idle") /\ ~AttemptAt(a, "compare") /\ Done(a)
    /\ UNCHANGED <<failures, hasTtl, locked, level, guesses>>

LockExpires ==
    /\ locked /\ \A a \in Attempts : AttemptAt(a, "idle")
    /\ locked' = FALSE /\ guesses' = 0
    /\ UNCHANGED <<failures, hasTtl, level, attempt, outages>>

\* The window of the count passes.
WindowPasses ==
    /\ hasTtl
    /\ failures' = 0 /\ hasTtl' = FALSE /\ guesses' = 0
    /\ UNCHANGED <<locked, level, attempt, outages>>

\* The escalation outlives its lock by a window.
EscalationDecays ==
    /\ level > 0 /\ ~locked
    /\ level' = 0
    /\ UNCHANGED <<failures, hasTtl, locked, attempt, guesses, outages>>

LoginNext ==
    \/ \E a \in Attempts :
        \/ Check(a) \/ Compare(a) \/ Incr(a) \/ Expire(a) \/ ReadLevel(a)
        \/ Lock(a) \/ ClearFailures(a) \/ Escalate(a) \/ Success(a) \/ FailOpen(a)
    \/ LockExpires \/ WindowPasses \/ EscalationDecays

LoginSpec == LoginInit /\ [][LoginNext]_loginVars
-----------------------------------------------------------------------------
(* Properties.                                                             *)

\* However attempts overlap, fewer wrong passwords than the threshold and the
\* attempts under way are compared before the lock comes, and each call to Redis
\* that fails lets at most one more through.
GuessesBounded ==
    guesses < FirstThreshold + Cardinality(Attempts) + outages

\* A count of failures that will never expire, so that typos of months add up to
\* a lock, is only left behind by a call to Redis that failed.
ImmortalCountExplained ==
    failures > 0 /\ ~hasTtl /\ outages = 0
        => \E a \in Attempts : AttemptAt(a, "expire")
===============================================================================
