----------------------------- MODULE ClientProofs -----------------------------
(***************************************************************************)
(* Proofs about the sign-in and the clients, for every set of attempts,    *)
(* tabs, calls and sessions, every threshold and every page size: what the *)
(* throttle of the sign-in allows, what a refresh may do to a session, why *)
(* a browser and a phone stay signed in, where a message of a conversation *)
(* can be, and the types of their variables.                               *)
(***************************************************************************)
EXTENDS MCClients, Integers, FiniteSetTheorems, TLAPS

-----------------------------------------------------------------------------
(* The throttle of the sign-in.                                            *)

Steps == {"idle", "compare", "count", "expire", "level", "lock", "clear", "escalate", "success"}

\* The shape of the variables, without the bounds of the type invariant.
LoginShape ==
    /\ failures \in Nat /\ guesses \in Nat /\ level \in Nat /\ outages \in Nat
    /\ attempt \in [Attempts -> [at : Steps, count : Nat, level : Nat]]

LEMMA ShapeInit == LoginInit => LoginShape
BY DEF LoginInit, LoginShape, NoAttempt, Steps

LEMMA ShapeStep == LoginShape /\ [LoginNext]_loginVars => LoginShape'
<1> SUFFICES ASSUME LoginShape, [LoginNext]_loginVars PROVE LoginShape'
  OBVIOUS
<1> USE DEF LoginShape, Steps, AttemptAt, Then, Done, NoAttempt
<1>1. ASSUME NEW a \in Attempts, Check(a) PROVE LoginShape'
  BY <1>1 DEF Check
<1>2. ASSUME NEW a \in Attempts, Compare(a) PROVE LoginShape'
  BY <1>2 DEF Compare
<1>3. ASSUME NEW a \in Attempts, Incr(a) PROVE LoginShape'
  <2>1. AfterIncr(failures + 1) \in Steps /\ failures + 1 \in Nat
    BY DEF AfterIncr
  <2>2. [attempt[a] EXCEPT !.at = AfterIncr(failures + 1), !.count = failures + 1]
           \in [at : Steps, count : Nat, level : Nat]
    BY <2>1
  <2>3. QED
    BY <1>3, <2>1, <2>2 DEF Incr
<1>4. ASSUME NEW a \in Attempts, Expire(a) PROVE LoginShape'
  BY <1>4 DEF Expire
<1>5. ASSUME NEW a \in Attempts, ReadLevel(a) PROVE LoginShape'
  <2>1. CASE Reached(attempt[a].count, level)
    BY <1>5, <2>1 DEF ReadLevel
  <2>2. CASE ~Reached(attempt[a].count, level)
    BY <1>5, <2>2 DEF ReadLevel
  <2>3. QED
    BY <2>1, <2>2
<1>6. ASSUME NEW a \in Attempts, Lock(a) PROVE LoginShape'
  BY <1>6 DEF Lock
<1>7. ASSUME NEW a \in Attempts, ClearFailures(a) PROVE LoginShape'
  BY <1>7 DEF ClearFailures
<1>8. ASSUME NEW a \in Attempts, Escalate(a) PROVE LoginShape'
  BY <1>8 DEF Escalate, Escalated, Least
<1>9. ASSUME NEW a \in Attempts, Success(a) PROVE LoginShape'
  BY <1>9 DEF Success
<1>10. ASSUME NEW a \in Attempts, FailOpen(a) PROVE LoginShape'
  BY <1>10 DEF FailOpen
<1>11. CASE LockExpires \/ WindowPasses \/ EscalationDecays
  BY <1>11 DEF LockExpires, WindowPasses, EscalationDecays
<1>12. CASE UNCHANGED loginVars
  BY <1>12 DEF loginVars
<1>13. QED
  BY <1>1, <1>2, <1>3, <1>4, <1>5, <1>6, <1>7, <1>8, <1>9, <1>10, <1>11, <1>12 DEF LoginNext

\* What happens to one attempt, and what its step leaves alone.
LEMMA CountExpires ==
    LoginShape /\ ImmortalCountExplained /\ [LoginNext]_loginVars => ImmortalCountExplained'
<1> SUFFICES ASSUME LoginShape, ImmortalCountExplained, [LoginNext]_loginVars,
                    failures' > 0, ~hasTtl', outages' = 0
             PROVE  \E a \in Attempts : attempt'[a].at = "expire"
  BY DEF ImmortalCountExplained, AttemptAt
<1> USE DEF LoginShape, Steps, AttemptAt, Then, Done, NoAttempt, ImmortalCountExplained
<1>1. ASSUME NEW a \in Attempts, Incr(a) PROVE \E b \in Attempts : attempt'[b].at = "expire"
  <2>1. CASE failures = 0
    BY <1>1, <2>1 DEF Incr, AfterIncr
  <2>2. CASE failures > 0
    <3>1. PICK b \in Attempts : attempt[b].at = "expire"
      BY <1>1, <2>2 DEF Incr
    <3>2. attempt'[b].at = "expire"
      BY <1>1, <3>1 DEF Incr
    <3>3. QED
      BY <3>2
  <2>3. QED
    BY <2>1, <2>2
<1>2. ASSUME NEW a \in Attempts, Success(a) \/ ClearFailures(a) \/ FailOpen(a)
      PROVE  FALSE
  BY <1>2 DEF Success, ClearFailures, FailOpen
<1>6. ASSUME NEW a \in Attempts, Expire(a) PROVE FALSE
  <2>1. failures > 0
    BY <1>6 DEF Expire
  <2>2. hasTtl'
    BY <1>6, <2>1, Zenon DEF Expire
  <2>3. QED
    BY <2>2
<1>3. ASSUME NEW a \in Attempts,
             Check(a) \/ Compare(a) \/ ReadLevel(a) \/ Lock(a) \/ Escalate(a)
      PROVE  \E b \in Attempts : attempt'[b].at = "expire"
  <2>1. PICK b \in Attempts : attempt[b].at = "expire"
    BY <1>3 DEF Check, Compare, ReadLevel, Lock, Escalate
  <2>2. attempt'[b].at = "expire"
    BY <1>3, <2>1 DEF Check, Compare, ReadLevel, Lock, Escalate
  <2>3. QED
    BY <2>2
<1>4. CASE LockExpires \/ WindowPasses \/ EscalationDecays \/ UNCHANGED loginVars
  BY <1>4 DEF LockExpires, WindowPasses, EscalationDecays, loginVars
<1>5. QED
  BY <1>1, <1>2, <1>3, <1>4, <1>6 DEF LoginNext

\* login-attempts.service.ts: a count of failed passwords without a window is one that
\* an attempt is about to give its window, unless a call to Redis failed.
THEOREM CountsExpire == LoginSpec => []ImmortalCountExplained
<1>1. LoginInit => LoginShape /\ ImmortalCountExplained
  BY ShapeInit DEF LoginInit, ImmortalCountExplained
<1>2. QED
  BY <1>1, ShapeStep, CountExpires, PTL DEF LoginSpec

-----------------------------------------------------------------------------
Comparing == {a \in Attempts : attempt[a].at = "compare"}
Counting == {a \in Attempts : attempt[a].at = "count"}
Reaching == {a \in Attempts : /\ attempt[a].at \in {"expire", "level", "lock", "clear"}
                              /\ attempt[a].count >= FirstThreshold}

\* Of the wrong passwords compared without a lock, so many were never counted because
\* Redis failed; the other failures of Redis can each have prevented one lock.
Uncounted(missed) ==
    /\ failures < FirstThreshold + Cardinality(Reaching) + outages - missed
    /\ ~locked => guesses <= failures + Cardinality(Counting) + missed

GuessInv ==
    /\ \E missed \in 0 .. outages : Uncounted(missed)
    /\ locked => guesses + Cardinality(Comparing) <= Cardinality(Attempts) + outages
    /\ \A a \in Attempts : attempt[a].at \in {"clear", "escalate"} => locked

LEMMA Sizes ==
    /\ IsFiniteSet(Attempts) /\ Cardinality(Attempts) \in Nat
    /\ \A S \in SUBSET Attempts :
          IsFiniteSet(S) /\ Cardinality(S) \in Nat /\ Cardinality(S) <= Cardinality(Attempts)
<1>1. IsFiniteSet(Attempts)
  BY ThresholdAssumption
<1>2. QED
  BY <1>1, FS_CardinalityType, FS_Subset

LEMMA GuessStep == LoginShape /\ GuessInv /\ [LoginNext]_loginVars => GuessInv'
<1> SUFFICES ASSUME LoginShape, GuessInv, [LoginNext]_loginVars PROVE GuessInv'
  OBVIOUS
<1>g. PICK x \in 0 .. outages :
      /\ failures < FirstThreshold + Cardinality(Reaching) + outages - x
      /\ ~locked => guesses <= failures + Cardinality(Counting) + x
      /\ locked => guesses + Cardinality(Comparing) <= Cardinality(Attempts) + outages
      /\ \A a \in Attempts : attempt[a].at \in {"clear", "escalate"} => locked
  BY DEF GuessInv, Uncounted
<1> DEFINE After(y) ==
             /\ y \in 0 .. outages'
             /\ failures' < FirstThreshold + Cardinality(Reaching') + outages' - y
             /\ ~locked' => guesses' <= failures' + Cardinality(Counting') + y
             /\ locked' => guesses' + Cardinality(Comparing') <= Cardinality(Attempts) + outages'
             /\ \A a \in Attempts : attempt'[a].at \in {"clear", "escalate"} => locked'
<1> DEFINE Goal == After(x)
<1> DEFINE Result == \E y : After(y)
<1> USE DEF LoginShape, Steps, AttemptAt, Then, Done, NoAttempt
<1>s. /\ FirstThreshold \in Nat \ {0} /\ Cardinality(Attempts) \in Nat
      /\ \A S \in {Reaching, Counting, Comparing, Reaching', Counting', Comparing'} :
            IsFiniteSet(S) /\ Cardinality(S) \in Nat /\ Cardinality(S) <= Cardinality(Attempts)
  BY Sizes, ThresholdAssumption DEF Reaching, Counting, Comparing
<1>1. ASSUME NEW a \in Attempts, Check(a) PROVE Goal
  <2>1. Reaching' = Reaching /\ Counting' = Counting
    BY <1>1 DEF Check, Reaching, Counting
  <2>2. QED
    BY <1>1, <1>g, <1>s, <2>1 DEF Check
<1>2. ASSUME NEW a \in Attempts, Compare(a) PROVE Goal
  <2>1. Reaching' = Reaching /\ Comparing' = Comparing \ {a} /\ a \in Comparing
    BY <1>2 DEF Compare, Reaching, Comparing
  <2>2. Cardinality(Comparing') = Cardinality(Comparing) - 1
    BY <2>1, <1>s, FS_RemoveElement
  <2>3. CASE Then(a, "count") /\ guesses' = guesses + 1
    <3>1. Counting' = Counting \cup {a} /\ a \notin Counting
      BY <1>2, <2>3 DEF Compare, Counting
    <3>2. Cardinality(Counting') = Cardinality(Counting) + 1
      BY <3>1, <1>s, FS_AddElement
    <3>3. QED
      BY <1>2, <1>g, <1>s, <2>1, <2>2, <2>3, <3>2 DEF Compare
  <2>4. CASE Then(a, "success") /\ UNCHANGED guesses
    <3>1. Counting' = Counting
      BY <1>2, <2>4 DEF Compare, Counting
    <3>2. QED
      BY <1>2, <1>g, <1>s, <2>1, <2>2, <2>4, <3>1 DEF Compare
  <2>5. QED
    BY <1>2, <2>3, <2>4 DEF Compare
<1>3. ASSUME NEW a \in Attempts, Incr(a) PROVE Goal
  <2>1. Comparing' = Comparing /\ Counting' = Counting \ {a} /\ a \in Counting
    BY <1>3 DEF Incr, AfterIncr, Comparing, Counting
  <2>2. Cardinality(Counting') = Cardinality(Counting) - 1
    BY <2>1, <1>s, FS_RemoveElement
  <2>3. CASE failures + 1 >= FirstThreshold
    <3>1. Reaching' = Reaching \cup {a} /\ a \notin Reaching
      BY <1>3, <2>3 DEF Incr, AfterIncr, Reaching
    <3>2. Cardinality(Reaching') = Cardinality(Reaching) + 1
      BY <3>1, <1>s, FS_AddElement
    <3>3. QED
      BY <1>3, <1>g, <1>s, <2>1, <2>2, <3>2 DEF Incr, AfterIncr
  <2>4. CASE failures + 1 < FirstThreshold
    BY <1>3, <1>g, <1>s, <2>1, <2>2, <2>4 DEF Incr, AfterIncr
  <2>5. QED
    BY <2>3, <2>4, <1>s
<1>4. ASSUME NEW a \in Attempts, Expire(a) PROVE Goal
  <2>1. Reaching' = Reaching /\ Counting' = Counting /\ Comparing' = Comparing
    BY <1>4 DEF Expire, Reaching, Counting, Comparing
  <2>2. QED
    BY <1>4, <1>g, <2>1 DEF Expire
<1>5. ASSUME NEW a \in Attempts, ReadLevel(a) PROVE Goal
  <2>1. Threshold(level) \in Nat /\ Threshold(level) <= FirstThreshold
    BY ThresholdAssumption DEF Threshold, Least
  <2>2. PICK n \in [at : {"lock", "idle"}, count : Nat, level : Nat] :
           /\ attempt' = [attempt EXCEPT ![a] = n]
           /\ n.at = "lock" => n.count = attempt[a].count
           /\ n.at = "idle" => attempt[a].count < FirstThreshold
    <3>1. CASE Reached(attempt[a].count, level)
      <4> DEFINE n == [attempt[a] EXCEPT !.at = "lock", !.level = level]
      <4>1. n \in [at : {"lock", "idle"}, count : Nat, level : Nat]
        OBVIOUS
      <4>2. n.at = "lock" /\ n.count = attempt[a].count
        OBVIOUS
      <4>3. attempt' = [attempt EXCEPT ![a] = n]
        BY <1>5, <3>1 DEF ReadLevel
      <4>4. QED
        BY <4>1, <4>2, <4>3
    <3>2. CASE ~Reached(attempt[a].count, level)
      <4>1. attempt[a].count < FirstThreshold
        BY <3>2, <2>1, <1>s DEF Reached
      <4>2. QED
        BY <1>5, <3>2, <4>1 DEF ReadLevel
    <3>3. QED
      BY <3>1, <3>2
  <2>3. Counting' = Counting /\ Comparing' = Comparing
    BY <1>5, <2>2 DEF ReadLevel, Counting, Comparing
  <2>4. Reaching' = Reaching
    BY <1>5, <1>s, <2>2 DEF ReadLevel, Reaching
  <2>5. \A b \in Attempts : attempt'[b].at \in {"clear", "escalate"} => locked'
    BY <1>5, <1>g, <2>2 DEF ReadLevel
  <2>6. QED
    BY <1>5, <1>g, <2>3, <2>4, <2>5 DEF ReadLevel
<1>6. ASSUME NEW a \in Attempts, Lock(a) PROVE Goal
  <2>1. Reaching' = Reaching /\ Comparing' = Comparing
    BY <1>6 DEF Lock, Reaching, Comparing
  <2>2. QED
    BY <1>6, <1>g, <1>s, <2>1 DEF Lock
<1>7. ASSUME NEW a \in Attempts, ClearFailures(a) PROVE Goal
  <2>1. Comparing' = Comparing /\ locked
    BY <1>7, <1>g DEF ClearFailures, Comparing
  <2>2. failures' = 0 /\ 0 < FirstThreshold + Cardinality(Reaching') + outages - x
    BY <1>7, <1>s DEF ClearFailures
  <2>3. QED
    BY <1>7, <1>g, <1>s, <2>1, <2>2 DEF ClearFailures
<1>8. ASSUME NEW a \in Attempts, Escalate(a) PROVE Goal
  <2>1. Reaching' = Reaching /\ Counting' = Counting /\ Comparing' = Comparing
    BY <1>8 DEF Escalate, Reaching, Counting, Comparing
  <2>2. QED
    BY <1>8, <1>g, <2>1 DEF Escalate
<1>9. ASSUME NEW a \in Attempts, Success(a) PROVE Goal
  <2>1. Reaching' = Reaching /\ Counting' = Counting /\ Comparing' = Comparing
    BY <1>9 DEF Success, Reaching, Counting, Comparing
  <2>2. QED
    BY <1>9, <1>g, <1>s, <2>1 DEF Success
<1>10. ASSUME NEW a \in Attempts, FailOpen(a) PROVE Result
  <2>1. outages' = outages + 1 /\ UNCHANGED <<failures, locked, guesses>>
    BY <1>10 DEF FailOpen
  <2>2. \A b \in Attempts : attempt'[b].at \in {"clear", "escalate"} => locked'
    BY <1>10, <1>g DEF FailOpen
  <2>3. CASE AttemptAt(a, "idle")
    <3>1. /\ Reaching' = Reaching /\ Counting' = Counting
          /\ Comparing' = Comparing \cup {a} /\ a \notin Comparing
      BY <1>10, <2>3 DEF FailOpen, Reaching, Counting, Comparing
    <3>2. Cardinality(Comparing') = Cardinality(Comparing) + 1
      BY <3>1, <1>s, FS_AddElement
    <3>3. Goal
      BY <1>g, <1>s, <2>1, <2>2, <3>1, <3>2
    <3>4. QED
      BY <3>3
  <2>4. CASE AttemptAt(a, "count")
    <3>1. /\ Reaching' = Reaching /\ Comparing' = Comparing
          /\ Counting' = Counting \ {a} /\ a \in Counting
      BY <1>10, <2>4 DEF FailOpen, Reaching, Counting, Comparing
    <3>2. Cardinality(Counting') = Cardinality(Counting) - 1
      BY <3>1, <1>s, FS_RemoveElement
    <3>3. After(x + 1)
      BY <1>g, <1>s, <2>1, <2>2, <3>1, <3>2
    <3>4. QED
      BY <3>3
  <2>5. CASE ~AttemptAt(a, "idle") /\ ~AttemptAt(a, "count")
    <3>1. /\ Counting' = Counting /\ Comparing' = Comparing
          /\ Reaching' = Reaching \ {a}
      BY <1>10, <2>5 DEF FailOpen, Reaching, Counting, Comparing
    <3>2. Cardinality(Reaching') >= Cardinality(Reaching) - 1
      BY <3>1, <1>s, FS_RemoveElement
    <3>3. Goal
      BY <1>g, <1>s, <2>1, <2>2, <3>1, <3>2
    <3>4. QED
      BY <3>3
  <2>6. QED
    BY <2>3, <2>4, <2>5
<1>11. ASSUME LockExpires \/ WindowPasses \/ EscalationDecays \/ UNCHANGED loginVars PROVE Goal
  <2>1. Reaching' = Reaching /\ Counting' = Counting /\ Comparing' = Comparing
    BY <1>11 DEF LockExpires, WindowPasses, EscalationDecays, loginVars, Reaching, Counting,
                 Comparing
  <2>2. /\ outages' = outages
        /\ \/ locked' = locked /\ guesses' = guesses /\ failures' = failures
           \/ locked' = locked /\ guesses' = 0 /\ failures' = 0
           \/ locked' = FALSE /\ locked /\ guesses' = 0 /\ failures' = failures
    BY <1>11 DEF LockExpires, WindowPasses, EscalationDecays, loginVars
  <2>3. \A a \in Attempts : attempt'[a].at \in {"clear", "escalate"} => locked'
    BY <1>11, <1>g DEF LockExpires, WindowPasses, EscalationDecays, loginVars
  <2>4. QED
    BY <1>g, <1>s, <2>1, <2>2, <2>3
<1>12. Result => GuessInv'
  BY DEF GuessInv, Uncounted, Reaching, Counting, Comparing
<1>13. Goal => Result
  OBVIOUS
<1> HIDE DEF After, Goal, Result, AttemptAt, Then, Done, NoAttempt, LoginShape
<1>14. Result
  BY <1>1, <1>2, <1>3, <1>4, <1>5, <1>6, <1>7, <1>8, <1>9, <1>10, <1>11, <1>13 DEF LoginNext
<1>15. QED
  BY <1>12, <1>14

LEMMA GuessStart == LoginInit => GuessInv
<1> SUFFICES ASSUME LoginInit PROVE GuessInv
  OBVIOUS
<1>1. Cardinality(Reaching) \in Nat /\ Cardinality(Counting) \in Nat
  BY Sizes DEF Reaching, Counting
<1>2. \A a \in Attempts : attempt[a].at = "idle"
  BY DEF LoginInit, NoAttempt
<1>3. Uncounted(0) /\ 0 \in 0 .. outages
  BY <1>1, ThresholdAssumption DEF LoginInit, Uncounted
<1>4. QED
  BY <1>2, <1>3 DEF LoginInit, GuessInv

\* What the invariant says of the two counts.
FewGuesses ==
    /\ guesses < FirstThreshold + Cardinality(Attempts) + outages
    /\ failures < FirstThreshold + Cardinality(Attempts) + outages

LEMMA LoginBounds == LoginShape /\ GuessInv => FewGuesses
<1> SUFFICES ASSUME LoginShape, GuessInv PROVE FewGuesses
  OBVIOUS
<1>1. /\ Reaching \in SUBSET Attempts /\ Counting \in SUBSET Attempts
      /\ Comparing \in SUBSET Attempts /\ Reaching \cup Counting \in SUBSET Attempts
      /\ Reaching \cap Counting = {}
  BY DEF Reaching, Counting, Comparing
<1>2. Cardinality(Reaching \cup Counting) = Cardinality(Reaching) + Cardinality(Counting)
  <2>1. IsFiniteSet(Reaching) /\ IsFiniteSet(Counting) /\ Cardinality({}) = 0
    BY <1>1, Sizes, FS_EmptySet
  <2>2. Cardinality(Reaching \cup Counting)
           = Cardinality(Reaching) + Cardinality(Counting) - Cardinality(Reaching \cap Counting)
    BY <2>1, FS_Union
  <2>3. Cardinality(Reaching \cap Counting) = 0
    BY <1>1, <2>1
  <2>4. Cardinality(Reaching) \in Nat /\ Cardinality(Counting) \in Nat
    BY <1>1, Sizes
  <2>5. QED
    BY <2>2, <2>3, <2>4
<1>3. QED
  BY <1>1, <1>2, Sizes, ThresholdAssumption DEF GuessInv, Uncounted, LoginShape, FewGuesses

\* However attempts overlap, fewer wrong passwords than the threshold and the attempts
\* under way are compared before the lock comes, and each call to Redis that fails lets
\* at most one more through.
THEOREM GuessesAreBounded == LoginSpec => []GuessesBounded
<1>1. FewGuesses => GuessesBounded
  BY DEF FewGuesses, GuessesBounded
<1>2. QED
  BY <1>1, ShapeInit, GuessStart, LoginBounds, ShapeStep, GuessStep, PTL DEF LoginSpec

-----------------------------------------------------------------------------
(* Calls of /auth/refresh.                                                 *)

LEMMA CallKinds ==
    ASSUME NEW call \in Call
    PROVE  /\ call.at \in {"none", "sent", "found", "answered"}
           /\ call.at = "sent" => call.token \in Token
           /\ call.at = "found" => call.token \in Token /\ call.seen \in Row
           /\ call.at = "answered" => call.answer \in Token \cup {None}
BY DEF Call, NotMade

LEMMA NewTokens ==
    ASSUME NEW s \in Sessions
    PROVE  First(s) \in Token
BY BoundAssumption DEF First, Token, Secrets

LEMMA SetTypes ==
    ASSUME AuthTypeOK, NEW c \in Calls, NEW call \in Call, Set(c, call)
    PROVE  calls' \in [Calls -> Call]
BY DEF AuthTypeOK, Set

LEMMA SendTypes ==
    ASSUME AuthTypeOK, NEW c \in Calls, NEW token \in Token, SendRefresh(c, token)
    PROVE  calls' \in [Calls -> Call]
<1>1. [at |-> "sent", token |-> token] \in Call
  BY DEF Call
<1>2. QED
  BY <1>1, SetTypes DEF SendRefresh

LEMMA NoCall == NotMade \in Call
BY DEF Call

LEMMA AnswerTypes ==
    ASSUME AuthTypeOK, NEW c \in Calls, NEW a \in Token \cup {None}, Answer(c, a)
    PROVE  calls' \in [Calls -> Call]
<1>1. [at |-> "answered", answer |-> a] \in Call
  BY DEF Call
<1>2. QED
  BY <1>1, SetTypes DEF Answer

LEMMA RevokeTypes ==
    ASSUME AuthTypeOK, NEW s \in Sessions, Revoke(s)
    PROVE  sessions' \in [Sessions -> Row]
<1>1. [sessions[s] EXCEPT !.revoked = TRUE] \in Row
  BY DEF AuthTypeOK, Row
<1>2. QED
  BY <1>1 DEF AuthTypeOK, Revoke

LEMMA RotateEffect ==
    ASSUME AuthTypeOK, NEW c \in Calls, Rotate(c)
    PROVE  /\ AuthTypeOK'
           /\ \A s \in Sessions : Exchanged(s) =>
                 sessions'[s].previous = sessions[s].hash /\ ~sessions[s].revoked
<1> DEFINE call == calls[c]
           s == call.token.session
           new == [sessions[s] EXCEPT !.hash = sessions[s].hash + 1, !.previous = call.seen.hash]
<1>1. call \in Call /\ call.at = "found"
  BY DEF AuthTypeOK, Rotate
<1>2. call.token \in Token /\ call.seen \in Row
  BY <1>1, CallKinds
<1>3. s \in Sessions /\ sessions[s] \in Row /\ call.seen.hash \in Secrets
  BY <1>2 DEF AuthTypeOK, Token, Row
<1>4. sessions[s].hash + 1 \in Secrets
  BY <1>3, BoundAssumption DEF Rotate, Row, Secrets
<1>5. CASE Unrotated(sessions[s], call.seen)
  <2>1. new \in Row
    BY <1>3, <1>4 DEF Row
  <2>2. sessions' = [sessions EXCEPT ![s] = new]
    BY <1>5 DEF Rotate
  <2>3. sessions' \in [Sessions -> Row]
    BY <2>1, <2>2 DEF AuthTypeOK
  <2>4. [session |-> s, secret |-> sessions[s].hash + 1] \in Token
    BY <1>3, <1>4 DEF Token
  <2>5. Answer(c, [session |-> s, secret |-> sessions[s].hash + 1])
    BY <1>5 DEF Rotate
  <2>6. calls' \in [Calls -> Call]
    BY <2>4, <2>5, AnswerTypes
  <2>7. \A r \in Sessions \ {s} : ~Exchanged(r)
    BY <2>2 DEF Exchanged, AuthTypeOK
  <2>8. sessions'[s].previous = sessions[s].hash /\ ~sessions[s].revoked
    BY <1>3, <1>5, <2>2 DEF Unrotated, AuthTypeOK, Row
  <2>9. QED
    BY <2>3, <2>6, <2>7, <2>8 DEF AuthTypeOK
<1>6. CASE ~Unrotated(sessions[s], call.seen)
  <2>1. Answer(c, None) /\ UNCHANGED sessions
    BY <1>6 DEF Rotate
  <2>2. QED
    BY <2>1, AnswerTypes DEF AuthTypeOK, Exchanged
<1>7. QED
  BY <1>5, <1>6

\* What serving a call does to the rows.
LEMMA ServeEffect ==
    ASSUME AuthTypeOK, NEW c \in Calls, ServeRefresh(c)
    PROVE  /\ AuthTypeOK'
           /\ \A s \in Sessions : Exchanged(s) =>
                 sessions'[s].previous = sessions[s].hash /\ ~sessions[s].revoked
<1>1. calls[c] \in Call
  BY DEF AuthTypeOK
<1>2. CASE FindSession(c)
  <2>1. calls[c].token \in Token
    BY <1>1, <1>2, CallKinds DEF FindSession
  <2>2. [at |-> "found", token |-> calls[c].token,
         seen |-> sessions[calls[c].token.session]] \in Call
    BY <2>1 DEF AuthTypeOK, Token, Call
  <2>3. QED
    BY <1>2, <2>2, SetTypes DEF FindSession, Exchanged, AuthTypeOK
<1>3. CASE RejectReuse(c)
  <2>1. calls[c].token.session \in Sessions
    BY <1>1, <1>3, CallKinds DEF RejectReuse, Token
  <2>2. sessions' \in [Sessions -> Row]
    BY <1>3, <2>1, RevokeTypes DEF RejectReuse, AuthTypeOK
  <2>3. \A s \in Sessions : ~Exchanged(s)
    BY <1>3, <2>1 DEF RejectReuse, Revoke, Exchanged, AuthTypeOK, Row
  <2>4. QED
    BY <1>3, <2>2, <2>3, AnswerTypes DEF RejectReuse, AuthTypeOK
<1>4. CASE Reject(c)
  BY <1>4, AnswerTypes DEF Reject, Exchanged, AuthTypeOK
<1>5. CASE Rotate(c)
  BY <1>5, RotateEffect
<1>6. QED
  BY <1>2, <1>3, <1>4, <1>5 DEF ServeRefresh

\* A revocation or an expiry exchanges nothing.
LEMMA RevokeKeepsChain ==
    ASSUME AuthTypeOK, NEW s \in Sessions, Revoke(s)
    PROVE  \A r \in Sessions : ~Exchanged(r)
BY DEF Revoke, Exchanged, AuthTypeOK, Row

LEMMA ExpiryEffect ==
    ASSUME AuthTypeOK, NEW s \in Sessions, SessionExpires(s)
    PROVE  sessions' \in [Sessions -> Row] /\ \A r \in Sessions : ~Exchanged(r)
<1>1. [sessions[s] EXCEPT !.expired = TRUE] \in Row
  BY DEF AuthTypeOK, Row
<1>2. QED
  BY <1>1 DEF SessionExpires, Exchanged, AuthTypeOK, Row

LEMMA AuthStart == AuthInit => AuthTypeOK
<1> SUFFICES ASSUME AuthInit PROVE AuthTypeOK
  OBVIOUS
<1>1. NewRow \in Row
  BY BoundAssumption DEF NewRow, Row, Secrets
<1>2. QED
  BY <1>1, NoCall DEF AuthInit, AuthTypeOK

\* What ChainIsLinear says of one step.
Chained == \A s \in Sessions : Exchanged(s) =>
              sessions'[s].previous = sessions[s].hash /\ ~sessions[s].revoked

LEMMA IdleChained == AuthTypeOK /\ UNCHANGED sessions => Chained
BY DEF Chained, Exchanged

-----------------------------------------------------------------------------
(* The browser.                                                            *)

TabRequest == [at : {"proxy", "render", "retry", "respond"}, token : Token,
               call : Calls \cup {None}, set : Token \cup {Keep, Drop}]

WebShape ==
    /\ AuthTypeOK
    /\ cookie \in Token \cup {None} /\ memory \in Token \cup {None}
    /\ inflight \in Calls \cup {None}
    /\ pending \subseteq Calls
    /\ tab \in [Tabs -> {Closed} \cup TabRequest]

LEMMA TabKinds ==
    ASSUME WebShape, NEW t \in Tabs, tab[t] # Closed
    PROVE  tab[t] \in TabRequest
BY DEF WebShape

LEMMA ShowTypes ==
    ASSUME WebShape, NEW t \in Tabs, NEW state \in {Closed} \cup TabRequest, Show(t, state)
    PROVE  tab' \in [Tabs -> {Closed} \cup TabRequest]
BY DEF WebShape, Show

LEMMA RefreshTypes ==
    ASSUME WebShape, NEW t \in Tabs, NEW token \in Token, NEW waiting \in TabRequest,
           NEW done, memory # None => done \in TabRequest,
           Refresh(t, token, waiting, done)
    PROVE  /\ calls' \in [Calls -> Call] /\ inflight' \in Calls \cup {None}
           /\ pending' \subseteq Calls /\ tab' \in [Tabs -> {Closed} \cup TabRequest]
<1>1. \A c \in Calls : [waiting EXCEPT !.call = c] \in TabRequest
  BY DEF TabRequest
<1>2. CASE Behind(token) /\ Show(t, done) /\ UNCHANGED <<calls, inflight, pending>>
  <2>1. done \in TabRequest
    BY <1>2 DEF Behind
  <2>2. QED
    BY <1>2, <2>1, ShowTypes DEF WebShape, AuthTypeOK
<1>3. CASE /\ inflight # None /\ Show(t, [waiting EXCEPT !.call = inflight])
           /\ UNCHANGED <<calls, inflight, pending>>
  <2>1. [waiting EXCEPT !.call = inflight] \in TabRequest
    BY <1>1, <1>3 DEF WebShape
  <2>2. QED
    BY <1>3, <2>1, ShowTypes DEF WebShape, AuthTypeOK
<1>4. ASSUME NEW c \in Calls, SendRefresh(c, token), inflight' = c,
             pending' = pending \cup {c}, Show(t, [waiting EXCEPT !.call = c])
      PROVE  /\ calls' \in [Calls -> Call] /\ inflight' \in Calls \cup {None}
             /\ pending' \subseteq Calls /\ tab' \in [Tabs -> {Closed} \cup TabRequest]
  <2>1. calls' \in [Calls -> Call]
    BY <1>4, SendTypes DEF WebShape
  <2>2. tab' \in [Tabs -> {Closed} \cup TabRequest]
    BY <1>1, <1>4, ShowTypes
  <2>3. QED
    BY <1>4, <2>1, <2>2 DEF WebShape
<1>5. QED
  BY <1>2, <1>3, <1>4 DEF Refresh

LEMMA WebStart == WebInit => WebShape
BY AuthStart, NewTokens DEF WebInit, WebShape

LEMMA WebStep == WebShape /\ [WebNext]_webVars => WebShape' /\ Chained
<1> SUFFICES ASSUME WebShape, [WebNext]_webVars PROVE WebShape' /\ Chained
  OBVIOUS
<1>a. AuthTypeOK /\ sessions \in [Sessions -> Row] /\ calls \in [Calls -> Call]
  BY DEF WebShape, AuthTypeOK
<1>1. ASSUME NEW t \in Tabs, Navigate(t) PROVE WebShape' /\ Chained
  <2>1. cookie \in Token
    BY <1>1 DEF Navigate, WebShape
  <2>2. /\ Request("proxy", cookie, Keep) \in TabRequest
        /\ Request("render", cookie, Keep) \in TabRequest
        /\ memory # None => Request("render", memory, Persisted(memory)) \in TabRequest
    BY <2>1 DEF Request, TabRequest, Persisted, WebShape
  <2>3. /\ calls' \in [Calls -> Call] /\ inflight' \in Calls \cup {None}
        /\ pending' \subseteq Calls /\ tab' \in [Tabs -> {Closed} \cup TabRequest]
    <3>1. CASE NeedsRefresh(cookie)
      BY <1>1, <2>1, <2>2, <3>1, RefreshTypes DEF Navigate
    <3>2. CASE ~NeedsRefresh(cookie)
      BY <1>1, <1>a, <2>2, <3>2, ShowTypes DEF Navigate, WebShape
    <3>3. QED
      BY <3>1, <3>2
  <2>4. QED
    BY <1>1, <1>a, <2>3, IdleChained DEF Navigate, WebShape, AuthTypeOK
<1>2. ASSUME NEW t \in Tabs, Render(t) PROVE WebShape' /\ Chained
  <2>1. tab[t] \in TabRequest
    <3>1. tab[t].at = "render"
      BY <1>2 DEF Render
    <3>2. tab[t] # Closed
      BY <3>1 DEF Closed
    <3>3. QED
      BY <3>2, TabKinds
  <2>2. /\ [tab[t] EXCEPT !.at = "retry"] \in TabRequest
        /\ [tab[t] EXCEPT !.at = "respond"] \in TabRequest
        /\ tab[t].token \in Token
        /\ \A set \in Token \cup {Keep, Drop} :
              [tab[t] EXCEPT !.at = "respond", !.set = set] \in TabRequest
    BY <2>1 DEF TabRequest
  <2>3. \A set \in {tab[t].set} \cup ({memory} \ {None}) : set \in Token \cup {Keep, Drop}
    BY <2>1 DEF TabRequest, WebShape
  <2>4. /\ calls' \in [Calls -> Call] /\ inflight' \in Calls \cup {None}
        /\ pending' \subseteq Calls /\ tab' \in [Tabs -> {Closed} \cup TabRequest]
    <3>1. CASE NeedsRefresh(tab[t].token)
      BY <1>2, <2>2, <2>3, <3>1, RefreshTypes DEF Render
    <3>2. CASE ~NeedsRefresh(tab[t].token)
      BY <1>2, <1>a, <2>2, <3>2, ShowTypes DEF Render, WebShape
    <3>3. QED
      BY <3>1, <3>2
  <2>5. QED
    BY <1>2, <1>a, <2>4, IdleChained DEF Render, WebShape, AuthTypeOK
<1>3. ASSUME NEW t \in Tabs, Respond(t) PROVE WebShape' /\ Chained
  <2>1. tab[t] \in TabRequest
    BY <1>3, TabKinds DEF Respond, Closed
  <2>2. cookie' \in Token \cup {None}
    BY <1>3, <2>1 DEF Respond, TabRequest, WebShape
  <2>3. tab' \in [Tabs -> {Closed} \cup TabRequest]
    BY <1>3, ShowTypes DEF Respond
  <2>4. QED
    BY <1>3, <1>a, <2>2, <2>3, IdleChained DEF Respond, WebShape, AuthTypeOK
<1>4. ASSUME NEW t \in Tabs, LogOut(t) PROVE WebShape' /\ Chained
  <2>1. cookie.session \in Sessions
    BY <1>4 DEF LogOut, WebShape, Token
  <2>2. sessions' \in [Sessions -> Row] /\ Chained
    BY <1>4, <1>a, <2>1, RevokeTypes, RevokeKeepsChain, IdleChained DEF LogOut, Chained
  <2>3. QED
    BY <1>4, <1>a, <2>2 DEF LogOut, WebShape, AuthTypeOK
<1>5. ASSUME NEW c \in Calls, WebServe(c) PROVE WebShape' /\ Chained
  BY <1>5, <1>a, ServeEffect DEF WebServe, WebShape, Chained
<1>6. ASSUME NEW c \in Calls, ReceivePair(c) PROVE WebShape' /\ Chained
  <2> DEFINE token == calls[c].answer
  <2>1. token \in Token
    BY <1>6, <1>a, CallKinds DEF ReceivePair
  <2>2. ASSUME NEW t \in Tabs, tab[t] # Closed, NEW writable \in BOOLEAN
        PROVE  Continued(tab[t], token, writable) \in TabRequest
    BY <2>1, <2>2, TabKinds DEF Continued, Request, Persisted, TabRequest
  <2>3. tab' \in [Tabs -> {Closed} \cup TabRequest]
    BY <1>6, <2>2 DEF ReceivePair, WebShape
  <2>4. calls' \in [Calls -> Call]
    BY <1>6, <1>a, NoCall, SetTypes DEF ReceivePair
  <2>5. QED
    BY <1>6, <1>a, <2>1, <2>3, <2>4, IdleChained DEF ReceivePair, WebShape, AuthTypeOK
<1>7. ASSUME NEW c \in Calls, ReceiveRefusal(c) PROVE WebShape' /\ Chained
  <2>1. ASSUME NEW t \in Tabs, tab[t] # Closed PROVE Denied(tab[t]) \in TabRequest
    BY <2>1, TabKinds DEF Denied, TabRequest
  <2>2. tab' \in [Tabs -> {Closed} \cup TabRequest]
    BY <1>7, <2>1 DEF ReceiveRefusal, WebShape
  <2>3. calls' \in [Calls -> Call]
    BY <1>7, <1>a, NoCall, SetTypes DEF ReceiveRefusal
  <2>4. QED
    BY <1>7, <1>a, <2>2, <2>3, IdleChained DEF ReceiveRefusal, WebShape, AuthTypeOK
<1>8. ASSUME NEW c \in Calls, Blip(c) PROVE WebShape' /\ Chained
  <2>1. ASSUME NEW t \in Tabs, tab[t] # Closed PROVE Unreachable(tab[t]) \in TabRequest
    BY <2>1, TabKinds DEF Unreachable, TabRequest
  <2>2. tab' \in [Tabs -> {Closed} \cup TabRequest]
    BY <1>8, <2>1 DEF Blip, WebShape
  <2>3. calls' \in [Calls -> Call]
    BY <1>8, <1>a, NoCall, SetTypes DEF Blip
  <2>4. QED
    BY <1>8, <1>a, <2>2, <2>3, IdleChained DEF Blip, WebShape, AuthTypeOK
<1>9. ASSUME NEW c \in Calls, DropAnswer(c) PROVE WebShape' /\ Chained
  <2>1. calls' \in [Calls -> Call]
    BY <1>9, <1>a, NoCall, SetTypes DEF DropAnswer
  <2>2. QED
    BY <1>9, <1>a, <2>1, IdleChained DEF DropAnswer, WebShape, AuthTypeOK
<1>10. CASE Restart \/ MemoryExpires \/ AccessTokenExpires
  BY <1>10, <1>a, IdleChained
     DEF Restart, MemoryExpires, AccessTokenExpires, WebShape, AuthTypeOK
<1>11. CASE WebSessionEnds
  <2>1. cookie.session \in Sessions
    BY <1>11 DEF WebSessionEnds, WebShape, Token
  <2>2. sessions' \in [Sessions -> Row] /\ Chained
    BY <1>11, <1>a, <2>1, ExpiryEffect DEF WebSessionEnds, Chained
  <2>3. QED
    BY <1>11, <1>a, <2>2 DEF WebSessionEnds, WebShape, AuthTypeOK
<1>12. CASE UNCHANGED webVars
  BY <1>12, <1>a, IdleChained DEF webVars, WebShape, AuthTypeOK
<1>13. QED
  BY <1>1, <1>2, <1>3, <1>4, <1>5, <1>6, <1>7, <1>8, <1>9, <1>10, <1>11, <1>12 DEF WebNext

\* auth-session.service.ts, called by tabs and the proxy that race: the refresh
\* secrets of a session are exchanged one for the next, and never after the
\* session was revoked.
THEOREM WebChains == WebSpec => ChainIsLinear
<1>1. WebShape /\ [WebNext]_webVars => [Chained]_authVars
  BY WebStep
<1>2. QED
  BY <1>1, WebStart, WebStep, PTL DEF WebSpec, ChainIsLinear, Chained

-----------------------------------------------------------------------------
(* The phone.                                                              *)

FetchRequest == [at : {"sent", "wait", "replay"}, logout : BOOLEAN,
                 token : Token \cup {None}, call : Calls \cup {None}]

PhoneShape ==
    /\ AuthTypeOK
    /\ tokens \in Token \cup {None} /\ keychain \in Token \cup {None}
    /\ saving \in Token \cup {None}
    /\ flight \in Calls \cup {None}
    /\ awaited \subseteq Calls
    /\ fetch \in [Fetches -> {Quit} \cup FetchRequest]

LEMMA FetchKinds ==
    ASSUME PhoneShape, NEW q \in Fetches, fetch[q] # Quit
    PROVE  fetch[q] \in FetchRequest
BY DEF PhoneShape

LEMMA UnderWay ==
    ASSUME PhoneShape, NEW q \in Fetches, fetch[q].at \in {"sent", "wait", "replay"}
    PROVE  fetch[q] \in FetchRequest
<1>1. fetch[q] # Quit
  BY DEF Quit
<1>2. QED
  BY <1>1, FetchKinds

LEMMA EndTypes ==
    ASSUME PhoneShape, NEW over, EndSession(over)
    PROVE  /\ tokens' = None /\ keychain' = None /\ saving' = None /\ flight' = None
           /\ fetch' \in [Fetches -> {Quit} \cup FetchRequest]
BY DEF PhoneShape, EndSession

LEMMA OverTypes ==
    ASSUME PhoneShape, NEW q \in Fetches, Over(q)
    PROVE  /\ tokens' \in Token \cup {None} /\ keychain' \in Token \cup {None}
           /\ saving' \in Token \cup {None} /\ flight' \in Calls \cup {None}
           /\ fetch' \in [Fetches -> {Quit} \cup FetchRequest]
<1>1. CASE Clears(q)
  BY <1>1, EndTypes DEF Over
<1>2. CASE ~Clears(q)
  BY <1>2 DEF Over, PhoneShape
<1>3. QED
  BY <1>1, <1>2

LEMMA PhoneStart == PhoneInit => PhoneShape
BY AuthStart DEF PhoneInit, PhoneShape

LEMMA PhoneStep == PhoneShape /\ [PhoneNext]_phoneVars => PhoneShape' /\ Chained
<1> SUFFICES ASSUME PhoneShape, [PhoneNext]_phoneVars PROVE PhoneShape' /\ Chained
  OBVIOUS
<1>a. AuthTypeOK /\ sessions \in [Sessions -> Row] /\ calls \in [Calls -> Call]
  BY DEF PhoneShape, AuthTypeOK
<1>1. ASSUME NEW s \in Sessions, SignIn(s) \/ AccessExpires(s) PROVE PhoneShape' /\ Chained
  BY <1>1, <1>a, NewTokens, IdleChained DEF SignIn, AccessExpires, PhoneShape, AuthTypeOK
<1>2. ASSUME NEW q \in Fetches, NEW logout \in BOOLEAN, Send(q, logout)
      PROVE  PhoneShape' /\ Chained
  <2>1. [at |-> "sent", logout |-> logout, token |-> tokens, call |-> None] \in FetchRequest
    BY DEF FetchRequest, PhoneShape
  <2>2. fetch' \in [Fetches -> {Quit} \cup FetchRequest]
    BY <1>2, <2>1 DEF Send, PhoneShape
  <2>3. QED
    BY <1>2, <1>a, <2>2, IdleChained DEF Send, PhoneShape, AuthTypeOK
<1>3. ASSUME NEW q \in Fetches, Accepted(q) PROVE PhoneShape' /\ Chained
  <2>1. fetch[q].token.session \in Sessions
    BY <1>3, UnderWay DEF Accepted, Valid, FetchRequest, Token
  <2>2. sessions' \in [Sessions -> Row] /\ Chained
    BY <1>3, <1>a, <2>1, RevokeTypes, RevokeKeepsChain, IdleChained DEF Accepted, Chained
  <2>3. QED
    BY <1>3, <1>a, <2>2, OverTypes DEF Accepted, PhoneShape, AuthTypeOK
<1>4. ASSUME NEW q \in Fetches, FetchFails(q) \/ Rejected(q) PROVE PhoneShape' /\ Chained
  <2>1. Over(q) /\ UNCHANGED <<sessions, calls>> /\ awaited' = awaited
    BY <1>4 DEF FetchFails, Rejected
  <2>2. QED
    BY <1>a, <2>1, OverTypes, IdleChained DEF PhoneShape, AuthTypeOK
<1>5. ASSUME NEW q \in Fetches, Unauthorized(q) PROVE PhoneShape' /\ Chained
  <2>1. fetch[q] \in FetchRequest
    BY <1>5, UnderWay DEF Unauthorized
  <2>2. \A c \in Calls : [fetch[q] EXCEPT !.at = "wait", !.call = c] \in FetchRequest
    BY <2>1 DEF FetchRequest
  <2>3. CASE Shared # None
    <3>1. Shared \in Calls
      BY <2>3 DEF Shared, PhoneShape
    <3>2. fetch' = [fetch EXCEPT ![q] = [fetch[q] EXCEPT !.at = "wait", !.call = Shared]]
      BY <1>5, <2>3 DEF Unauthorized, PhoneShape
    <3>3. fetch' \in [Fetches -> {Quit} \cup FetchRequest]
      BY <2>2, <3>1, <3>2 DEF PhoneShape
    <3>4. QED
      BY <1>5, <1>a, <2>3, <3>3, IdleChained DEF Unauthorized, PhoneShape, AuthTypeOK
  <2>4. CASE Shared = None /\ tokens = None
    BY <1>5, <1>a, <2>4, EndTypes, IdleChained DEF Unauthorized, PhoneShape, AuthTypeOK
  <2>5. CASE Shared = None /\ tokens # None
    <3>1. PICK c \in Calls : /\ SendRefresh(c, tokens)
                             /\ fetch' = [fetch EXCEPT ![q].at = "wait", ![q].call = c]
                             /\ flight' = c /\ awaited' = awaited \cup {c}
      BY <1>5, <2>5 DEF Unauthorized
    <3>2. tokens \in Token
      BY <2>5 DEF PhoneShape
    <3>3. calls' \in [Calls -> Call]
      BY <1>a, <3>1, <3>2, SendTypes
    <3>4. fetch' = [fetch EXCEPT ![q] = [fetch[q] EXCEPT !.at = "wait", !.call = c]]
      BY <3>1 DEF PhoneShape
    <3>5. fetch' \in [Fetches -> {Quit} \cup FetchRequest]
      BY <2>2, <3>4 DEF PhoneShape
    <3>6. QED
      BY <1>5, <1>a, <2>5, <3>1, <3>3, <3>5, IdleChained DEF Unauthorized, PhoneShape, AuthTypeOK
  <2>6. QED
    BY <2>3, <2>4, <2>5
<1>6. ASSUME NEW c \in Calls, PhoneServe(c) PROVE PhoneShape' /\ Chained
  BY <1>6, <1>a, ServeEffect DEF PhoneServe, PhoneShape, Chained
<1>7. ASSUME NEW c \in Calls, ReceiveTokens(c) PROVE PhoneShape' /\ Chained
  <2>1. calls[c].answer \in Token
    BY <1>7, <1>a, CallKinds DEF ReceiveTokens
  <2>2. QED
    BY <1>7, <1>a, <2>1, IdleChained DEF ReceiveTokens, PhoneShape, AuthTypeOK
<1>8. ASSUME NEW c \in Calls, Resume(c) PROVE PhoneShape' /\ Chained
  <2>1. ASSUME NEW q \in Joined(c)
        PROVE  [fetch[q] EXCEPT !.at = "replay", !.call = None, !.token = tokens] \in FetchRequest
    <3>1. fetch[q] \in FetchRequest
      BY FetchKinds DEF Joined, Waits
    <3>2. QED
      BY <3>1 DEF FetchRequest, PhoneShape
  <2>2. fetch' \in [Fetches -> {Quit} \cup FetchRequest]
    BY <1>8, <2>1 DEF Resume, PhoneShape
  <2>3. calls' \in [Calls -> Call]
    BY <1>8, <1>a, NoCall, SetTypes DEF Resume
  <2>4. QED
    BY <1>8, <1>a, <2>2, <2>3, IdleChained DEF Resume, PhoneShape, AuthTypeOK
<1>9. ASSUME NEW c \in Calls, RefreshFails(c) PROVE PhoneShape' /\ Chained
  <2>1. calls' \in [Calls -> Call]
    BY <1>9, <1>a, NoCall, SetTypes DEF RefreshFails
  <2>2. EndSession(Joined(c)) /\ UNCHANGED sessions /\ awaited' \subseteq awaited
    BY <1>9 DEF RefreshFails
  <2>3. QED
    BY <1>a, <2>1, <2>2, EndTypes, IdleChained DEF PhoneShape, AuthTypeOK
<1>10. ASSUME NEW c \in Calls, DropTokens(c) PROVE PhoneShape' /\ Chained
  <2>1. calls' \in [Calls -> Call]
    BY <1>10, <1>a, NoCall, SetTypes DEF DropTokens
  <2>2. QED
    BY <1>10, <1>a, <2>1, IdleChained DEF DropTokens, PhoneShape, AuthTypeOK
<1>11. CASE Save \/ Relaunch
  BY <1>11, <1>a, IdleChained DEF Save, Relaunch, PhoneShape, AuthTypeOK
<1>12. CASE UNCHANGED phoneVars
  BY <1>12, <1>a, IdleChained DEF phoneVars, PhoneShape, AuthTypeOK
<1>13. QED
  BY <1>1, <1>2, <1>3, <1>4, <1>5, <1>6, <1>7, <1>8, <1>9, <1>10, <1>11, <1>12 DEF PhoneNext

\* The same for the mobile client, its single flight and its keychain.
THEOREM PhoneChains == PhoneSpec => ChainIsLinear
<1>1. PhoneShape /\ [PhoneNext]_phoneVars => [Chained]_authVars
  BY PhoneStep
<1>2. QED
  BY <1>1, PhoneStart, PhoneStep, PTL DEF PhoneSpec, ChainIsLinear, Chained

\* A call speaks of one session from its beginning to its answer.
About(call, s) ==
    /\ call.at \in {"sent", "found"} => call.token.session = s
    /\ call.at = "answered" => call.answer = None \/ call.answer.session = s

\* Whatever the phone holds or still waits for is of the person who is signed in.
HeldInv ==
    ~orphaned =>
        /\ \A k \in {tokens, keychain, saving} : k # None => user # None /\ k.session = user
        /\ \A c \in awaited : user # None /\ About(calls[c], user)

LEMMA ServeKeepsSession ==
    ASSUME AuthTypeOK, NEW c \in Calls, ServeRefresh(c), NEW b \in Calls, NEW s,
           About(calls[b], s)
    PROVE  About(calls'[b], s)
<1>1. CASE FindSession(c)
  BY <1>1 DEF FindSession, Set, About, AuthTypeOK
<1>2. ASSUME Answer(c, None) PROVE About(calls'[b], s)
  BY <1>2 DEF Answer, Set, About, AuthTypeOK
<1>3. CASE Rotate(c)
  <2> DEFINE r == calls[c].token.session
  <2>1. CASE Unrotated(sessions[r], calls[c].seen)
    <3>1. Answer(c, [session |-> r, secret |-> sessions[r].hash + 1]) /\ calls[c].at = "found"
      BY <1>3, <2>1 DEF Rotate
    <3>2. QED
      BY <3>1 DEF Answer, Set, About, AuthTypeOK
  <2>2. CASE ~Unrotated(sessions[r], calls[c].seen)
    BY <1>2, <1>3, <2>2 DEF Rotate
  <2>3. QED
    BY <2>1, <2>2
<1>4. QED
  BY <1>1, <1>2, <1>3 DEF ServeRefresh, RejectReuse, Reject

\* After the end of a session nothing is held, and nothing is awaited.
LEMMA EndHeld ==
    ASSUME NEW over, EndSession(over)
    PROVE  HeldInv'
BY DEF EndSession, HeldInv

LEMMA OverHeld ==
    ASSUME HeldInv, NEW q \in Fetches, Over(q), UNCHANGED calls, awaited' = awaited
    PROVE  HeldInv'
<1>1. CASE Clears(q)
  BY <1>1, EndHeld DEF Over
<1>2. CASE ~Clears(q)
  BY <1>2 DEF Over, Clears, Leaves, HeldInv
<1>3. QED
  BY <1>1, <1>2

LEMMA HeldStep == PhoneShape /\ HeldInv /\ [PhoneNext]_phoneVars => HeldInv'
<1> SUFFICES ASSUME PhoneShape, HeldInv, [PhoneNext]_phoneVars PROVE HeldInv'
  OBVIOUS
<1>1. ASSUME NEW s \in Sessions, SignIn(s) PROVE HeldInv'
  BY <1>1, MarkAssumption DEF SignIn, HeldInv, First
<1>2. ASSUME NEW q \in Fetches, Accepted(q) PROVE HeldInv'
  BY <1>2, OverHeld DEF Accepted
<1>3. ASSUME NEW q \in Fetches, FetchFails(q) \/ Rejected(q) PROVE HeldInv'
  BY <1>3, OverHeld DEF FetchFails, Rejected
<1>4. ASSUME NEW q \in Fetches, Unauthorized(q) PROVE HeldInv'
  <2>1. CASE Shared # None
    BY <1>4, <2>1 DEF Unauthorized, HeldInv
  <2>2. CASE Shared = None /\ tokens = None
    BY <1>4, <2>2, EndHeld DEF Unauthorized
  <2>3. CASE Shared = None /\ tokens # None
    <3>1. PICK c \in Calls : SendRefresh(c, tokens) /\ awaited' = awaited \cup {c}
      BY <1>4, <2>3 DEF Unauthorized
    <3>2. UNCHANGED <<tokens, keychain, saving, orphaned, user>>
      BY <1>4, <2>3 DEF Unauthorized
    <3>3. calls' = [calls EXCEPT ![c] = [at |-> "sent", token |-> tokens]]
      BY <3>1 DEF SendRefresh, Set
    <3>4. QED
      BY <2>3, <3>1, <3>2, <3>3 DEF HeldInv, About, PhoneShape, AuthTypeOK
  <2>4. QED
    BY <2>1, <2>2, <2>3
<1>5. ASSUME NEW c \in Calls, PhoneServe(c) PROVE HeldInv'
  BY <1>5, ServeKeepsSession DEF PhoneServe, HeldInv, PhoneShape
<1>6. ASSUME NEW c \in Calls, ReceiveTokens(c) PROVE HeldInv'
  BY <1>6 DEF ReceiveTokens, HeldInv, About
<1>7. ASSUME NEW c \in Calls, Resume(c) PROVE HeldInv'
  <2>1. c \notin awaited /\ calls' = [calls EXCEPT ![c] = NotMade]
    BY <1>7 DEF Resume, Received, Set
  <2>2. QED
    BY <1>7, <2>1 DEF Resume, HeldInv, PhoneShape, AuthTypeOK
<1>8. ASSUME NEW c \in Calls, RefreshFails(c) PROVE HeldInv'
  BY <1>8, EndHeld DEF RefreshFails
<1>9. ASSUME NEW c \in Calls, DropTokens(c) PROVE HeldInv'
  BY <1>9 DEF DropTokens, Set, HeldInv, PhoneShape, AuthTypeOK
<1>10. ASSUME NEW q \in Fetches, NEW logout \in BOOLEAN, Send(q, logout) PROVE HeldInv'
  BY <1>10 DEF Send, HeldInv
<1>11. CASE Save \/ Relaunch \/ \E s \in Sessions : AccessExpires(s)
  BY <1>11 DEF Save, Relaunch, AccessExpires, HeldInv
<1>12. CASE UNCHANGED phoneVars
  BY <1>12 DEF phoneVars, HeldInv
<1>13. QED
  BY <1>1, <1>2, <1>3, <1>4, <1>5, <1>6, <1>7, <1>8, <1>9, <1>10, <1>11, <1>12 DEF PhoneNext

\* After a sign-out and a sign-in as someone else, a late refresh never brings the
\* earlier tokens back, unless the flight outlived its sign-out (lib/auth/session.ts).
THEOREM TokensStayWithTheirUser == PhoneSpec => []TokensAreOfTheUser
<1>1. PhoneInit => HeldInv
  BY DEF PhoneInit, HeldInv
<1>2. HeldInv => TokensAreOfTheUser
  BY DEF HeldInv, TokensAreOfTheUser
<1>3. QED
  BY <1>1, <1>2, PhoneStart, PhoneStep, HeldStep, PTL DEF PhoneSpec

-----------------------------------------------------------------------------
(* A browser stays signed in: while no pair is lost, its cookie is the      *)
(* newest secret of a session that still refreshes.                        *)

\* A session that still lets its holder refresh.
Good(s) == ~sessions[s].revoked /\ ~sessions[s].expired

\* A call that carries the newest secret of its session, or the pair that replaced it.
Trusted(call, s) ==
    /\ call.at \in {"sent", "found", "answered"}
    /\ call.at # "answered" => call.token = Newest(s)
    /\ call.at = "found" => call.seen = sessions[s]
    /\ call.at = "answered" => call.answer = Newest(s)

\* Such a call is not refused.
LEMMA NewestIsServed ==
    ASSUME AuthTypeOK, NEW c \in Calls, ServeRefresh(c), NEW s \in Sessions,
           Trusted(calls[c], s), Good(s)
    PROVE  /\ Trusted(calls[c], s)' /\ Good(s)'
           /\ \A r \in Sessions \ {s} : sessions'[r] = sessions[r]
           /\ \A b \in Calls \ {c} : calls'[b] = calls[b]
           /\ \/ calls[c].at = "sent" /\ calls'[c].at = "found" /\ sessions' = sessions
              \/ calls[c].at = "found" /\ calls'[c].at = "answered" /\ Exchanged(s)
<1>a. sessions \in [Sessions -> Row] /\ calls \in [Calls -> Call]
  BY DEF AuthTypeOK
<1>1. CASE FindSession(c)
  <2> DEFINE x == [at |-> "found", token |-> calls[c].token,
                   seen |-> sessions[calls[c].token.session]]
  <2>1. calls[c].token = Newest(s) /\ calls[c].token.session = s /\ calls[c].at = "sent"
    BY <1>1 DEF FindSession, Trusted, Newest
  <2>2. calls'[c] = x /\ \A b \in Calls \ {c} : calls'[b] = calls[b]
    BY <1>1, <1>a DEF FindSession, Set
  <2>3. x.at = "found" /\ x.token = Newest(s) /\ x.seen = sessions[s] /\ sessions' = sessions
    BY <1>1, <2>1 DEF FindSession
  <2> HIDE DEF x
  <2>4. QED
    BY <2>1, <2>2, <2>3 DEF Trusted, Good, Newest
<1>2. CASE ~FindSession(c)
  <2>1. calls[c].at = "found" /\ calls[c].token = Newest(s) /\ calls[c].seen = sessions[s]
    BY <1>2 DEF ServeRefresh, RejectReuse, Reject, Rotate, Trusted
  <2>2. MatchesCurrent(calls[c]) /\ calls[c].token.session = s
    BY <2>1 DEF MatchesCurrent, Newest
  <2>3. Rotate(c)
    BY <1>2, <2>1, <2>2 DEF ServeRefresh, RejectReuse, Reject, MatchesPrevious, Good
  <2> DEFINE new == [sessions[s] EXCEPT !.hash = sessions[s].hash + 1,
                                        !.previous = calls[c].seen.hash]
             x == [at |-> "answered", answer |-> [session |-> s, secret |-> sessions[s].hash + 1]]
  <2>4. sessions' = [sessions EXCEPT ![s] = new] /\ Set(c, x)
    BY <2>1, <2>2, <2>3 DEF Rotate, Unrotated, Answer, Good
  <2>5. /\ new.hash = sessions[s].hash + 1 /\ ~new.revoked /\ ~new.expired
        /\ sessions[s].hash \in Nat
    BY <1>a DEF Row, Good, Secrets
  <2>6. x.at = "answered" /\ x.answer = [session |-> s, secret |-> sessions[s].hash + 1]
    OBVIOUS
  <2> HIDE DEF new, x
  <2>7. /\ sessions'[s] = new /\ \A r \in Sessions \ {s} : sessions'[r] = sessions[r]
        /\ calls'[c] = x /\ \A b \in Calls \ {c} : calls'[b] = calls[b]
    BY <1>a, <2>4 DEF Set
  <2>8. Exchanged(s)
    BY <2>5, <2>7 DEF Exchanged
  <2>9. QED
    BY <2>1, <2>5, <2>6, <2>7, <2>8 DEF Trusted, Good, Newest
<1>3. QED
  BY <1>1, <1>2

Open(t) == tab[t] # Closed
Asks(t) == Open(t) /\ tab[t].at \in {"proxy", "retry"}
Ours == Newest(cookie.session)

\* One call is under way, and every tab that waits for one waits for it.
OneCall ==
    /\ pending = {inflight} \ {None}
    /\ \A c \in Calls : calls[c] # NotMade => c = inflight
    /\ inflight # None => \E t \in Tabs : Asks(t)
    /\ \A t \in Tabs : Asks(t) => inflight # None /\ tab[t].call = inflight
    /\ \A t \in Tabs : Open(t) /\ ~Asks(t) => tab[t].call = None

NotAnswered == inflight # None => calls[inflight].at # "answered"

CallIsServed ==
    inflight # None =>
        /\ memory = None /\ Trusted(calls[inflight], cookie.session)
        /\ aged <=> calls[inflight].at # "answered"

\* The newest pair is where the browser is, or on its way there.
PairArrives ==
    IF memory = None
    THEN /\ \A t \in Tabs : Open(t) => tab[t].set = Keep
         /\ NotAnswered => cookie = Ours /\ \A t \in Tabs : Open(t) => tab[t].token = cookie
    ELSE /\ memory = Ours /\ ~aged
         /\ \A t \in Tabs : Open(t) => tab[t].set \in {Keep, memory}
         /\ cookie = memory \/ \E t \in Tabs : Open(t) /\ tab[t].set = memory

Calm == cookie # None /\ Good(cookie.session) /\ OneCall /\ CallIsServed /\ PairArrives

CalmInv == ~asked /\ mislaid = {} => Calm

LEMMA CalmStart == WebInit => CalmInv
<1> SUFFICES ASSUME WebInit PROVE Calm
  BY DEF CalmInv
<1>1. PICK s \in Sessions : cookie = First(s)
  BY DEF WebInit
<1>2. cookie \in Token /\ cookie.session = s
  BY <1>1, NewTokens DEF First
<1>3. cookie # None
  BY <1>2, MarkAssumption
<1>4. sessions[s].hash = 0 /\ ~sessions[s].revoked /\ ~sessions[s].expired
  BY DEF WebInit, AuthInit, NewRow
<1>5. cookie = Ours /\ Good(cookie.session)
  BY <1>1, <1>2, <1>4 DEF Ours, Newest, First, Good
<1>6. OneCall
  BY DEF WebInit, AuthInit, OneCall, Open, Asks
<1>7. QED
  BY <1>3, <1>5, <1>6 DEF WebInit, Calm, CallIsServed, PairArrives, Open


LEMMA CallMarks == None \notin Calls /\ \A k \in Token : k # None /\ k # Keep /\ k # Drop
BY MarkAssumption, ResponseAssumption

\* What the shape says of a tab that is open.
LEMMA OpenKinds ==
    ASSUME WebShape, NEW t \in Tabs, Open(t)
    PROVE  /\ tab[t] \in TabRequest /\ tab[t].at \in {"proxy", "render", "retry", "respond"}
           /\ tab[t].token \in Token /\ tab[t].set \in Token \cup {Keep, Drop}
BY DEF WebShape, Open, TabRequest

LEMMA Shown ==
    ASSUME WebShape, NEW t \in Tabs, NEW state, Show(t, state)
    PROVE  tab'[t] = state /\ \A u \in Tabs \ {t} : tab'[u] = tab[u]
BY DEF WebShape, Show

\* The pair of a call that was remembered answers a tab that holds an older one.
LEMMA RemembersCalm ==
    ASSUME WebShape, Calm, NEW t \in Tabs, memory # None, NEW done \in TabRequest,
           Show(t, done), done.at \in {"render", "respond"}, done.call = None,
           done.set \in {Keep, memory}, Open(t) => ~Asks(t),
           Open(t) /\ tab[t].set = memory => done.set = memory,
           UNCHANGED <<sessions, calls, cookie, memory, inflight, pending, aged>>
    PROVE  Calm'
<1>1. tab'[t] = done /\ \A u \in Tabs \ {t} : tab'[u] = tab[u]
  BY Shown
<1>2. done # Closed /\ inflight = None /\ ~Asks(t)
  BY DEF TabRequest, Closed, Calm, CallIsServed, Asks
<1>3. OneCall'
  BY <1>1, <1>2 DEF Calm, OneCall, Asks, Open
<1>4. PairArrives'
  BY <1>1, <1>2 DEF Calm, PairArrives, Open, Ours, Newest
<1>5. Good(cookie.session)' /\ CallIsServed'
  BY <1>2 DEF Calm, Good, CallIsServed
<1>6. QED
  BY <1>3, <1>4, <1>5 DEF Calm

\* A tab joins the call under way, or starts one with the newest secret.
LEMMA AsksCalm ==
    ASSUME WebShape, Calm, NEW t \in Tabs, ~Asks(t), memory = None,
           NEW waiting \in TabRequest, NEW c \in Calls, Show(t, [waiting EXCEPT !.call = c]),
           waiting.at \in {"proxy", "retry"}, waiting.set = Keep,
           inflight = None \/ NotAnswered => waiting.token = cookie,
           \/ inflight = c /\ UNCHANGED <<calls, inflight, pending>>
           \/ /\ inflight = None /\ aged
              /\ SendRefresh(c, waiting.token)
              /\ inflight' = c /\ pending' = pending \cup {c},
           UNCHANGED <<sessions, cookie, memory, aged>>
    PROVE  Calm'
<1> DEFINE x == [waiting EXCEPT !.call = c]
<1>1. /\ x.at \in {"proxy", "retry"} /\ x.call = c /\ x.set = Keep
      /\ x.token = waiting.token /\ x # Closed
  BY DEF TabRequest, Closed
<1>2. Show(t, x)
  OBVIOUS
<1> HIDE DEF x
<1>3. tab'[t] = x /\ \A u \in Tabs \ {t} : tab'[u] = tab[u]
  BY <1>2, Shown
<1>4. inflight' = c /\ c # None /\ Asks(t)'
  BY <1>1, <1>3, CallMarks DEF Asks, Open
<1>5. OneCall'
  <2>1. CASE inflight = c /\ UNCHANGED <<calls, inflight, pending>>
    BY <1>1, <1>3, <1>4, <2>1 DEF Calm, OneCall, Asks, Open
  <2>2. CASE /\ inflight = None /\ SendRefresh(c, waiting.token)
             /\ inflight' = c /\ pending' = pending \cup {c}
    <3>1. \A u \in Tabs : ~Asks(u)
      BY <2>2 DEF Calm, OneCall
    <3>2. pending' = {inflight'} \ {None}
      BY <1>4, <2>2 DEF Calm, OneCall
    <3>3. \A b \in Calls : calls'[b] # NotMade => b = c
      BY <2>2, CallMarks DEF Calm, OneCall, SendRefresh, Set, WebShape, AuthTypeOK
    <3>4. \A u \in Tabs : Asks(u)' => u = t
      BY <1>3, <3>1 DEF Asks, Open
    <3>5. QED
      BY <1>1, <1>3, <1>4, <3>1, <3>2, <3>3, <3>4 DEF Calm, OneCall, Asks, Open
  <2>3. QED
    BY <2>1, <2>2
<1>6. CallIsServed'
  <2>1. CASE inflight = c /\ UNCHANGED <<calls, inflight, pending>>
    BY <2>1 DEF Calm, CallIsServed, Trusted, Newest
  <2>2. CASE inflight = None /\ aged /\ SendRefresh(c, waiting.token) /\ inflight' = c
    <3> DEFINE y == [at |-> "sent", token |-> waiting.token]
    <3>1. waiting.token = Ours
      BY <2>2 DEF Calm, PairArrives, NotAnswered
    <3>2. y.at = "sent" /\ y.token = waiting.token
      OBVIOUS
    <3>3. calls' = [calls EXCEPT ![c] = y]
      BY <2>2 DEF SendRefresh, Set
    <3> HIDE DEF y
    <3>4. calls'[c] = y
      BY <3>3 DEF WebShape, AuthTypeOK
    <3>5. QED
      BY <2>2, <3>1, <3>2, <3>4 DEF CallIsServed, Trusted, Ours, Newest
  <2>3. QED
    BY <2>1, <2>2
<1>7. PairArrives'
  <2>1. \A u \in Tabs : Open(u)' => tab'[u].set = Keep
    BY <1>1, <1>3 DEF Calm, PairArrives, Open
  <2>2. NotAnswered' => inflight = None \/ NotAnswered
    BY DEF NotAnswered
  <2>3. inflight = None => NotAnswered
    BY DEF NotAnswered
  <2>4. QED
    BY <1>1, <1>3, <2>1, <2>2, <2>3 DEF Calm, PairArrives, Open, Ours, Newest
<1>8. Good(cookie.session)'
  BY DEF Calm, Good
<1>9. QED
  BY <1>5, <1>6, <1>7, <1>8 DEF Calm

\* refreshSession, for a tab whose token is the one the browser holds as long as nothing
\* newer has been minted.
LEMMA RefreshCalm ==
    ASSUME WebShape, Calm, NEW t \in Tabs, ~Asks(t), NEW token \in Token, NeedsRefresh(token),
           NEW waiting \in TabRequest, waiting.at \in {"proxy", "retry"}, waiting.token = token,
           memory = None => waiting.set = Keep,
           memory = None /\ NotAnswered => token = cookie,
           NEW done, memory # None => done \in TabRequest,
           done.at \in {"render", "respond"}, done.call = None,
           memory # None => done.set \in {Keep, memory},
           Open(t) /\ memory # None /\ tab[t].set = memory => done.set = memory,
           Refresh(t, token, waiting, done),
           UNCHANGED <<sessions, cookie, memory, aged>>
    PROVE  Calm'
<1>1. CASE memory # None
  <2>1. Behind(token)
    BY <1>1 DEF Calm, PairArrives, NeedsRefresh, Behind, Ours, Newest
  <2>2. Show(t, done) /\ UNCHANGED <<calls, inflight, pending>>
    BY <2>1 DEF Refresh
  <2>3. QED
    BY <1>1, <2>2, RemembersCalm
<1>2. CASE memory = None
  <2>1. ~Behind(token)
    BY <1>2 DEF Behind
  <2>2. CASE inflight # None
    <3>1. /\ Show(t, [waiting EXCEPT !.call = inflight])
          /\ UNCHANGED <<calls, inflight, pending>>
          /\ inflight \in Calls
      BY <2>1, <2>2 DEF Refresh, WebShape
    <3>2. QED
      BY <1>2, <2>2, <3>1, AsksCalm
  <2>3. CASE inflight = None
    <3>1. PICK c \in Calls : /\ SendRefresh(c, token) /\ inflight' = c
                             /\ pending' = pending \cup {c}
                             /\ Show(t, [waiting EXCEPT !.call = c])
      BY <2>1, <2>3 DEF Refresh
    <3>2. token = cookie /\ NotAnswered
      BY <1>2, <2>3 DEF NotAnswered
    <3>3. aged
      BY <1>2, <3>2 DEF Calm, PairArrives, NeedsRefresh, Ours, Newest
    <3>4. QED
      BY <1>2, <2>3, <3>1, <3>2, <3>3, AsksCalm
  <2>4. QED
    BY <2>2, <2>3
<1>3. QED
  BY <1>1, <1>2

LEMMA NavigateCalm == ASSUME WebShape, Calm, NEW t \in Tabs, Navigate(t) PROVE Calm'
<1>1. /\ ~Open(t) /\ ~Asks(t) /\ cookie \in Token
      /\ UNCHANGED <<sessions, cookie, memory, aged>>
  BY DEF Navigate, Open, Asks, WebShape
<1>2. /\ Request("proxy", cookie, Keep) \in TabRequest
      /\ Request("render", cookie, Keep) \in TabRequest
      /\ memory # None => Request("render", memory, memory) \in TabRequest
  BY <1>1 DEF Request, TabRequest, WebShape
<1>3. \A at, token, set :
          /\ Request(at, token, set).at = at /\ Request(at, token, set).token = token
          /\ Request(at, token, set).set = set /\ Request(at, token, set).call = None
  BY DEF Request
<1>4. CASE NeedsRefresh(cookie)
  <2>1. Refresh(t, cookie, Request("proxy", cookie, Keep), Request("render", memory, memory))
    BY <1>4 DEF Navigate, Persisted
  <2>2. QED
    BY <1>1, <1>2, <1>3, <1>4, <2>1, RefreshCalm
<1>5. CASE ~NeedsRefresh(cookie)
  <2> DEFINE x == Request("render", cookie, Keep)
  <2>1. Show(t, x) /\ UNCHANGED <<calls, inflight, pending>>
    BY <1>5 DEF Navigate
  <2>2. x.at = "render" /\ x.token = cookie /\ x.set = Keep /\ x.call = None /\ x # Closed
    BY <1>3 DEF Closed
  <2> HIDE DEF x
  <2>3. tab'[t] = x /\ \A u \in Tabs \ {t} : tab'[u] = tab[u]
    BY <2>1, Shown
  <2>4. OneCall'
    BY <1>1, <2>1, <2>2, <2>3 DEF Calm, OneCall, Open, Asks
  <2>5. PairArrives'
    BY <1>1, <2>1, <2>2, <2>3 DEF Calm, PairArrives, NotAnswered, Open, Ours, Newest
  <2>6. Good(cookie.session)' /\ CallIsServed'
    BY <1>1, <2>1 DEF Calm, Good, CallIsServed, Trusted, Newest
  <2>7. QED
    BY <1>1, <2>4, <2>5, <2>6 DEF Calm
<1>6. QED
  BY <1>4, <1>5

LEMMA RenderCalm == ASSUME WebShape, Calm, NEW t \in Tabs, Render(t) PROVE Calm'
<1>a. tab[t].at = "render" /\ UNCHANGED <<sessions, cookie, memory, aged>>
  BY DEF Render
<1>1. /\ tab[t].at = "render" /\ UNCHANGED <<sessions, cookie, memory, aged>>
      /\ Open(t) /\ ~Asks(t)
  BY <1>a DEF Open, Asks, Closed
<1>2. tab[t] \in TabRequest /\ tab[t].token \in Token /\ tab[t].call = None
  BY <1>1, OpenKinds DEF Calm, OneCall
<1>3. CASE NeedsRefresh(tab[t].token)
  <2>1. PICK set \in {tab[t].set} \cup ({memory} \ {None}) :
           Refresh(t, tab[t].token, [tab[t] EXCEPT !.at = "retry"],
                      [tab[t] EXCEPT !.at = "respond", !.set = set])
    BY <1>3 DEF Render
  <2> DEFINE waiting == [tab[t] EXCEPT !.at = "retry"]
             done == [tab[t] EXCEPT !.at = "respond", !.set = set]
  <2>2. set \in Token \cup {Keep, Drop}
    BY <1>2 DEF TabRequest, WebShape
  <2>3. /\ waiting \in TabRequest /\ waiting.at = "retry" /\ waiting.token = tab[t].token
        /\ waiting.set = tab[t].set
        /\ done \in TabRequest /\ done.at = "respond" /\ done.call = None /\ done.set = set
    BY <1>2, <2>2 DEF TabRequest
  <2>4. Refresh(t, tab[t].token, waiting, done)
    BY <2>1
  <2> HIDE DEF waiting, done
  <2>5. memory = None => tab[t].set = Keep /\ (NotAnswered => tab[t].token = cookie)
    BY <1>1 DEF Calm, PairArrives
  <2>6. memory # None => set \in {Keep, memory} /\ (tab[t].set = memory => set = memory)
    BY <1>1 DEF Calm, PairArrives
  <2>7. QED
    BY <1>1, <1>2, <1>3, <2>3, <2>4, <2>5, <2>6, RefreshCalm
<1>4. CASE ~NeedsRefresh(tab[t].token)
  <2> DEFINE x == [tab[t] EXCEPT !.at = "respond"]
  <2>1. Show(t, x) /\ UNCHANGED <<calls, inflight, pending>>
    BY <1>4 DEF Render
  <2>2. /\ x.at = "respond" /\ x.token = tab[t].token /\ x.set = tab[t].set /\ x.call = None
        /\ x # Closed
    BY <1>2 DEF TabRequest, Closed
  <2> HIDE DEF x
  <2>3. tab'[t] = x /\ \A u \in Tabs \ {t} : tab'[u] = tab[u]
    BY <2>1, Shown
  <2>4. OneCall'
    BY <1>1, <2>1, <2>2, <2>3 DEF Calm, OneCall, Open, Asks
  <2>5. PairArrives'
    BY <1>1, <2>1, <2>2, <2>3 DEF Calm, PairArrives, NotAnswered, Open, Ours, Newest
  <2>6. Good(cookie.session)' /\ CallIsServed'
    BY <1>1, <2>1 DEF Calm, Good, CallIsServed, Trusted, Newest
  <2>7. QED
    BY <1>1, <2>4, <2>5, <2>6 DEF Calm
<1>5. QED
  BY <1>3, <1>4

LEMMA RespondCalm ==
    ASSUME WebShape, Calm, NEW t \in Tabs, Respond(t), mislaid' = {} PROVE Calm'
<1>1. /\ tab[t].at = "respond" /\ Show(t, Closed)
      /\ UNCHANGED <<sessions, calls, memory, inflight, pending, aged>>
      /\ cookie' = CASE tab[t].set = Keep -> cookie
                      [] tab[t].set = Drop -> None
                      [] OTHER -> tab[t].set
      /\ Open(t) /\ ~Asks(t)
  BY DEF Respond, Open, Asks, Closed
<1>2. tab'[t] = Closed /\ \A u \in Tabs \ {t} : tab'[u] = tab[u]
  BY <1>1, Shown
<1>3. OneCall'
  BY <1>1, <1>2 DEF Calm, OneCall, Open, Asks
<1>4. CASE memory = None
  <2>1. cookie' = cookie
    BY <1>1, <1>4, ResponseAssumption DEF Calm, PairArrives
  <2>2. PairArrives'
    BY <1>1, <1>2, <1>4, <2>1 DEF Calm, PairArrives, NotAnswered, Open, Ours, Newest
  <2>3. Good(cookie.session)' /\ CallIsServed'
    BY <1>1, <2>1 DEF Calm, Good, CallIsServed, Trusted, Newest
  <2>4. QED
    BY <1>3, <2>1, <2>2, <2>3 DEF Calm
<1>5. CASE memory # None
  <2>1. memory = Ours /\ memory # Keep /\ memory # Drop
    BY <1>5, CallMarks DEF Calm, PairArrives, WebShape
  <2>2. tab[t].set \in {Keep, memory}
    BY <1>1, <1>5 DEF Calm, PairArrives
  <2>3. /\ tab[t].set = Keep => cookie' = cookie
        /\ tab[t].set = memory => cookie' = memory
    BY <1>1, <2>1, ResponseAssumption
  <2>4. cookie' # None /\ cookie'.session = cookie.session
    BY <1>5, <2>1, <2>2, <2>3 DEF Calm, Ours, Newest
  <2>5. PairArrives'
    BY <1>1, <1>2, <1>5, <2>1, <2>2, <2>3, <2>4 DEF Calm, PairArrives, Open, Ours, Newest
  <2>6. Good(cookie.session)' /\ CallIsServed'
    BY <1>1, <1>5, <2>4 DEF Calm, Good, CallIsServed
  <2>7. QED
    BY <1>3, <2>4, <2>5, <2>6 DEF Calm
<1>6. QED
  BY <1>4, <1>5

LEMMA ServeCalm == ASSUME WebShape, Calm, NEW c \in Calls, WebServe(c) PROVE Calm'
<1>1. /\ ServeRefresh(c) /\ UNCHANGED <<cookie, memory, inflight, pending, tab>>
      /\ aged' = (aged /\ ~\E s \in Sessions : Exchanged(s))
  BY DEF WebServe
<1>2. calls[c].at \in {"sent", "found"} /\ calls[c] # NotMade
  BY <1>1 DEF ServeRefresh, FindSession, RejectReuse, Reject, Rotate, NotMade
<1>3. c = inflight /\ inflight # None /\ memory = None
  BY <1>2, CallMarks DEF Calm, OneCall, CallIsServed
<1>4. cookie \in Token /\ cookie.session \in Sessions
  BY DEF Calm, WebShape, Token
<1> DEFINE s == cookie.session
<1>5. /\ Trusted(calls[c], s)' /\ Good(s)'
      /\ \A b \in Calls \ {c} : calls'[b] = calls[b]
      /\ \/ calls[c].at = "sent" /\ calls'[c].at = "found" /\ sessions' = sessions
         \/ calls[c].at = "found" /\ calls'[c].at = "answered" /\ Exchanged(s)
  BY <1>1, <1>3, <1>4, NewestIsServed DEF Calm, CallIsServed, WebShape
<1>6. OneCall'
  BY <1>1, <1>2, <1>3, <1>5 DEF Calm, OneCall, Open, Asks
<1>7. aged' <=> calls'[c].at # "answered"
  <2>1. aged
    BY <1>2, <1>3 DEF Calm, CallIsServed
  <2>2. CASE calls'[c].at = "found" /\ sessions' = sessions
    BY <1>1, <2>1, <2>2 DEF Exchanged
  <2>3. CASE calls'[c].at = "answered" /\ Exchanged(s)
    BY <1>1, <1>4, <2>3
  <2>4. QED
    BY <1>5, <2>2, <2>3
<1>8. CallIsServed'
  BY <1>1, <1>3, <1>5, <1>7 DEF CallIsServed
<1>9. PairArrives'
  BY <1>1, <1>2, <1>3, <1>5 DEF Calm, PairArrives, NotAnswered, Open, Ours, Newest
<1>10. QED
  BY <1>1, <1>5, <1>6, <1>8, <1>9 DEF Calm

\* A tab that waited for the pair takes it to the browser.
LEMMA CarriesPair ==
    ASSUME NEW request \in TabRequest, request.at \in {"proxy", "retry"},
           NEW token \in Token, NEW writable \in BOOLEAN, request.at = "retry" => writable
    PROVE  LET next == Continued(request, token, writable)
           IN  /\ next.at \in {"render", "respond"} /\ next.call = None /\ next.set = token
               /\ next # Closed
<1> DEFINE next == Continued(request, token, writable)
<1>1. CASE request.at = "proxy"
  <2>1. next = Request("render", token, token)
    BY <1>1 DEF Continued, Persisted
  <2>2. QED
    BY <2>1 DEF Request, Closed
<1>2. CASE request.at = "retry"
  <2> DEFINE x == [request EXCEPT !.at = "respond", !.call = None,
                                  !.set = IF writable THEN token ELSE request.set]
  <2>1. next = x
    BY <1>2 DEF Continued
  <2>2. x.at = "respond" /\ x.call = None /\ x.set = token
    BY <1>2 DEF TabRequest
  <2> HIDE DEF x
  <2>3. QED
    BY <2>1, <2>2 DEF Closed
<1>3. QED
  BY <1>1, <1>2

\* The tabs that wait for a call are the ones it answers.
LEMMA AwaitingTabs ==
    ASSUME Calm, NEW c \in Calls, c \in pending, NEW t \in Tabs
    PROVE  /\ inflight = c /\ c # None /\ memory = None
           /\ (tab[t] # Closed /\ tab[t].call = c) <=> Asks(t)
<1>1. inflight = c /\ c # None /\ memory = None
  BY DEF Calm, OneCall, CallIsServed
<1>2. QED
  BY <1>1 DEF Calm, OneCall, Open, Asks

LEMMA PairCalm ==
    ASSUME WebShape, Calm, NEW c \in Calls, ReceivePair(c), mislaid' = {} PROVE Calm'
<1> DEFINE token == calls[c].answer
           awaiting == {t \in Tabs : tab[t] # Closed /\ tab[t].call = c}
           retrying == {t \in awaiting : tab[t].at = "retry"}
<1>1. /\ c \in pending /\ calls[c].at = "answered"
      /\ memory' = token /\ inflight' = None /\ pending' = pending \ {c}
      /\ Set(c, NotMade) /\ UNCHANGED <<sessions, cookie, aged>>
  BY DEF ReceivePair
<1>2. PICK writable \in BOOLEAN :
          /\ tab' = [t \in Tabs |-> IF t \in awaiting
                                    THEN Continued(tab[t], token, writable) ELSE tab[t]]
          /\ retrying # {} => writable
  BY DEF ReceivePair
<1>3. /\ inflight = c /\ c # None /\ memory = None
      /\ \A t \in Tabs : t \in awaiting <=> Asks(t)
  BY <1>1, AwaitingTabs DEF Calm, OneCall, CallIsServed
<1>4. token = Ours /\ ~aged
  BY <1>1, <1>3 DEF Calm, CallIsServed, Trusted, Ours
<1>5. token \in Token
  BY <1>1, CallKinds, <1>4, CallMarks DEF WebShape, AuthTypeOK, ReceivePair
<1> HIDE DEF token
<1>6. ASSUME NEW t \in Tabs, Asks(t)
      PROVE  /\ tab'[t].at \in {"render", "respond"} /\ tab'[t].call = None
             /\ tab'[t].set = token /\ tab'[t] # Closed
  <2>1. tab[t] \in TabRequest /\ tab[t].at \in {"proxy", "retry"}
    BY <1>6, OpenKinds DEF Asks
  <2>2. tab[t].at = "retry" => writable
    BY <1>2, <1>3, <1>6
  <2>3. tab'[t] = Continued(tab[t], token, writable)
    BY <1>2, <1>3, <1>6
  <2>4. QED
    BY <1>5, <2>1, <2>2, <2>3, CarriesPair
<1>7. ASSUME NEW t \in Tabs, ~Asks(t) PROVE tab'[t] = tab[t]
  BY <1>2, <1>3, <1>7
<1> HIDE DEF awaiting, retrying
<1>8. \A b \in Calls : calls'[b] # NotMade => calls[b] # NotMade /\ b # c
  BY <1>1 DEF Set, WebShape, AuthTypeOK
<1>9. OneCall'
  <2>1. pending' = {}
    BY <1>1, <1>3 DEF Calm, OneCall
  <2>2. \A b \in Calls : calls'[b] = NotMade
    BY <1>3, <1>8 DEF Calm, OneCall
  <2>3. \A t \in Tabs : ~Asks(t)' /\ (Open(t)' => tab'[t].call = None)
    BY <1>6, <1>7 DEF Calm, OneCall, Asks, Open
  <2>4. QED
    BY <1>1, <2>1, <2>2, <2>3 DEF OneCall
<1>10. PairArrives'
  <2>1. PICK t \in Tabs : Asks(t)
    BY <1>3 DEF Calm, OneCall
  <2>2. Open(t)' /\ tab'[t].set = memory'
    BY <1>1, <1>6, <2>1 DEF Open
  <2>3. \A u \in Tabs : Open(u)' => tab'[u].set \in {Keep, memory'}
    BY <1>1, <1>3, <1>6, <1>7 DEF Calm, PairArrives, Open
  <2>4. memory' # None /\ memory' = Ours' /\ ~aged'
    BY <1>1, <1>4, <1>5, CallMarks DEF Ours, Newest
  <2>5. QED
    BY <2>2, <2>3, <2>4 DEF PairArrives
<1>11. Good(cookie.session)' /\ CallIsServed'
  BY <1>1 DEF Calm, Good, CallIsServed
<1>12. QED
  BY <1>1, <1>9, <1>10, <1>11 DEF Calm

\* The call was lost on its way: nothing was rotated.
LEMMA BlipCalm ==
    ASSUME WebShape, Calm, NEW c \in Calls, Blip(c), mislaid' = {} PROVE Calm'
<1>1. /\ c \in pending /\ calls[c].at = "sent" /\ Set(c, NotMade)
      /\ inflight' = None /\ pending' = pending \ {c}
      /\ UNCHANGED <<sessions, cookie, memory, aged>>
      /\ tab' = [t \in Tabs |-> IF tab[t] # Closed /\ tab[t].call = c
                                THEN Unreachable(tab[t]) ELSE tab[t]]
  BY DEF Blip
<1>3. /\ inflight = c /\ c # None /\ memory = None
      /\ \A t \in Tabs : (tab[t] # Closed /\ tab[t].call = c) <=> Asks(t)
  BY <1>1, AwaitingTabs DEF Calm, OneCall, CallIsServed
<1>6. ASSUME NEW t \in Tabs, Asks(t)
      PROVE  /\ tab'[t].at \in {"render", "respond"} /\ tab'[t].call = None
             /\ tab'[t].set = tab[t].set /\ tab'[t].token = tab[t].token
  <2>1. tab[t] \in TabRequest
    BY <1>6, OpenKinds DEF Asks
  <2> DEFINE x == Unreachable(tab[t])
  <2>2. /\ x.at \in {"render", "respond"} /\ x.call = None
        /\ x.set = tab[t].set /\ x.token = tab[t].token
    BY <2>1 DEF Unreachable, TabRequest
  <2> HIDE DEF x
  <2>3. tab'[t] = x
    BY <1>1, <1>3, <1>6 DEF x
  <2>4. QED
    BY <2>2, <2>3
<1>7. ASSUME NEW t \in Tabs, ~Asks(t) PROVE tab'[t] = tab[t]
  BY <1>1, <1>3, <1>7
<1>8. \A b \in Calls : calls'[b] # NotMade => calls[b] # NotMade /\ b # c
  BY <1>1 DEF Set, WebShape, AuthTypeOK
<1>9. OneCall'
  <2>1. pending' = {}
    BY <1>1, <1>3 DEF Calm, OneCall
  <2>2. \A b \in Calls : calls'[b] = NotMade
    BY <1>3, <1>8 DEF Calm, OneCall
  <2>3. \A t \in Tabs : ~Asks(t)' /\ (Open(t)' => tab'[t].call = None)
    BY <1>6, <1>7 DEF Calm, OneCall, Asks, Open
  <2>4. QED
    BY <1>1, <2>1, <2>2, <2>3 DEF OneCall
<1>10. PairArrives'
  <2>1. NotAnswered
    BY <1>1, <1>3 DEF NotAnswered
  <2>2. \A t \in Tabs : Open(t)' => Open(t)
    BY <1>7 DEF Open, Asks
  <2>3. \A t \in Tabs : Open(t)' => tab'[t].set = tab[t].set /\ tab'[t].token = tab[t].token
    BY <1>6, <1>7
  <2>4. QED
    BY <1>1, <1>3, <2>1, <2>2, <2>3 DEF Calm, PairArrives, Ours, Newest
<1>11. Good(cookie.session)' /\ CallIsServed'
  BY <1>1 DEF Calm, Good, CallIsServed
<1>12. QED
  BY <1>1, <1>9, <1>10, <1>11 DEF Calm

\* Between requests the browser holds the newest pair, and nothing is under way.
LEMMA RestCalm ==
    ASSUME WebShape, Calm, Restart \/ MemoryExpires \/ AccessTokenExpires, mislaid' = {}
    PROVE  Calm'
<1>1. \A t \in Tabs : ~Open(t) /\ ~Open(t)'
  BY DEF Restart, MemoryExpires, AccessTokenExpires, Still, Open
<1>2. inflight = None /\ pending = {} /\ \A c \in Calls : calls[c] = NotMade
  BY <1>1, CallMarks DEF Calm, OneCall, Asks
<1>3. cookie = Ours
  BY <1>1, <1>2 DEF Calm, PairArrives, NotAnswered
<1>4. /\ UNCHANGED <<sessions, calls, cookie>> /\ inflight' = None /\ pending' = {}
      /\ memory' = None
  BY <1>2 DEF Restart, MemoryExpires, AccessTokenExpires
<1>5. OneCall'
  BY <1>1, <1>2, <1>4 DEF OneCall, Asks
<1>6. PairArrives' /\ CallIsServed' /\ Good(cookie.session)'
  BY <1>1, <1>3, <1>4 DEF Calm, PairArrives, CallIsServed, Ours, Newest, Good
<1>7. QED
  BY <1>4, <1>5, <1>6 DEF Calm

LEMMA CalmStep == WebShape /\ CalmInv /\ [WebNext]_webVars => CalmInv'
<1> SUFFICES ASSUME WebShape, CalmInv, [WebNext]_webVars, ~asked', mislaid' = {} PROVE Calm'
  BY DEF CalmInv
<1>1. ~asked /\ mislaid = {}
  <2>1. asked' = asked
    BY DEF WebNext, Navigate, Render, Respond, LogOut, WebServe, ReceivePair, ReceiveRefusal,
           Blip, DropAnswer, Restart, MemoryExpires, AccessTokenExpires, WebSessionEnds, webVars
  <2>2. mislaid \subseteq mislaid'
    <3>1. ASSUME NEW t \in Tabs, Navigate(t) \/ Render(t) \/ Respond(t) \/ LogOut(t)
          PROVE  mislaid \subseteq mislaid'
      BY <3>1 DEF Navigate, Render, Respond, LogOut
    <3>2. ASSUME NEW c \in Calls,
                 \/ WebServe(c) \/ ReceivePair(c) \/ ReceiveRefusal(c) \/ Blip(c)
                 \/ DropAnswer(c)
          PROVE  mislaid \subseteq mislaid'
      BY <3>2 DEF WebServe, ReceivePair, ReceiveRefusal, Blip, DropAnswer
    <3>3. CASE Restart \/ MemoryExpires \/ AccessTokenExpires \/ WebSessionEnds
      BY <3>3 DEF Restart, MemoryExpires, AccessTokenExpires, WebSessionEnds
    <3>4. QED
      BY <3>1, <3>2, <3>3 DEF WebNext, webVars
  <2>3. QED
    BY <2>1, <2>2
<1>2. Calm
  BY <1>1 DEF CalmInv
<1>3. ASSUME NEW t \in Tabs, Navigate(t) \/ Render(t) \/ Respond(t) \/ LogOut(t) PROVE Calm'
  BY <1>2, <1>3, NavigateCalm, RenderCalm, RespondCalm DEF LogOut
<1>4. ASSUME NEW c \in Calls, WebServe(c) \/ ReceivePair(c) \/ Blip(c) PROVE Calm'
  BY <1>2, <1>4, ServeCalm, PairCalm, BlipCalm
<1>5. ASSUME NEW c \in Calls, ReceiveRefusal(c) PROVE FALSE
  <2>1. c \in pending /\ calls[c].at = "answered" /\ calls[c].answer = None
    BY <1>5 DEF ReceiveRefusal
  <2>2. calls[c].answer = Ours
    BY <1>2, <2>1 DEF Calm, OneCall, CallIsServed, Trusted, Ours
  <2>3. Ours \in Token
    BY <1>2 DEF Calm, Ours, Newest, WebShape, AuthTypeOK, Token, Row
  <2>4. QED
    BY <2>1, <2>2, <2>3, CallMarks
<1>6. ASSUME NEW c \in Calls, DropAnswer(c) PROVE FALSE
  BY <1>2, <1>6, CallMarks DEF DropAnswer, Calm, OneCall, NotMade
<1>7. CASE Restart \/ MemoryExpires \/ AccessTokenExpires
  BY <1>2, <1>7, RestCalm
<1>8. CASE WebSessionEnds
  BY <1>8 DEF WebSessionEnds
<1>9. CASE UNCHANGED webVars
  BY <1>2, <1>9 DEF webVars, Calm, Good, OneCall, CallIsServed, PairArrives, NotAnswered, Trusted,
                    Ours, Newest, Open, Asks
<1>10. QED
  BY <1>3, <1>4, <1>5, <1>6, <1>7, <1>8, <1>9 DEF WebNext

\* lib/auth/refresh.ts with the proxy and the renders of any number of tabs: a user who did
\* not ask for it is signed out only if a rotated pair failed to reach the browser.
THEOREM TabsStaySignedIn == WebSpec => []SignOutExplained
<1>1. CalmInv => SignOutExplained
  BY DEF CalmInv, Calm, SignOutExplained
<1>2. QED
  BY <1>1, WebStart, WebStep, CalmStart, CalmStep, PTL DEF WebSpec

-----------------------------------------------------------------------------
(* A phone stays signed in: while nothing fails, one refresh is under way   *)
(* at a time and its answer reaches every request that waits for it.       *)

\* One refresh is under way, and every request that waits for one waits for it.
OneFlight ==
    /\ awaited \subseteq {flight}
    /\ \A c \in Calls : calls[c] # NotMade => c = flight
    /\ flight # None => calls[flight] # NotMade /\ Joined(flight) # {} /\ tokens # None
    /\ \A q \in Fetches : Waits(q) => flight # None /\ fetch[q].call = flight

\* The person who is signed in holds tokens of a session that still refreshes.
HoldsTokens ==
    /\ user = None <=> tokens = None
    /\ tokens # None => user = tokens.session /\ user \in opened /\ Good(user)
    /\ tokens # None /\ flight = None => tokens = Newest(user)

FlightIsServed ==
    flight # None =>
        /\ Trusted(calls[flight], user)
        /\ calls[flight].at # "answered" => flight \in awaited
        /\ calls[flight].at # "answered" \/ flight \notin awaited => tokens = Newest(user)

\* A session nobody opened is new, and only sessions that were opened are spoken of.
Untouched ==
    /\ \A s \in Sessions \ opened : sessions[s].hash = 0 /\ Good(s)
    /\ \A q \in Fetches : fetch[q] # Quit /\ fetch[q].token # None
                              => fetch[q].token.session \in opened

Smooth == OneFlight /\ HoldsTokens /\ FlightIsServed /\ Untouched

SmoothInv == phoneFaults \in Nat /\ (phoneFaults = 0 /\ ~orphaned => Smooth)

LEMMA SmoothStart == PhoneInit => SmoothInv
<1> SUFFICES ASSUME PhoneInit PROVE SmoothInv
  OBVIOUS
<1>1. \A s \in Sessions : sessions[s].hash = 0 /\ Good(s)
  BY DEF PhoneInit, AuthInit, NewRow, Good
<1>2. \A q \in Fetches : fetch[q] = Quit
  BY DEF PhoneInit
<1>3. \A c \in Calls : calls[c] = NotMade
  BY DEF PhoneInit, AuthInit
<1>4. OneFlight /\ Untouched
  BY <1>1, <1>2, <1>3 DEF PhoneInit, OneFlight, Untouched, Waits
<1>5. HoldsTokens /\ FlightIsServed
  BY DEF PhoneInit, HoldsTokens, FlightIsServed
<1>6. QED
  BY <1>4, <1>5 DEF SmoothInv, Smooth, PhoneInit

LEMMA NewestIsAToken ==
    ASSUME AuthTypeOK, NEW s \in Sessions
    PROVE  Newest(s) \in Token /\ Newest(s) # None /\ Newest(s).session = s
<1>1. Newest(s) \in Token /\ Newest(s).session = s
  BY DEF AuthTypeOK, Newest, Token, Row
<1>2. QED
  BY <1>1, CallMarks

\* Without anything under way nobody waits.
LEMMA NobodyWaits ==
    ASSUME Smooth, \A q \in Fetches : ~Waits(q)
    PROVE  flight = None /\ \A c \in Calls : calls[c] = NotMade
BY CallMarks DEF Smooth, OneFlight, Joined

\* New requests carry tokens of sessions that were opened.
LEMMA StaysUntouched ==
    ASSUME Untouched, UNCHANGED <<sessions, opened>>,
           \A q \in Fetches : \/ fetch'[q] = fetch[q] \/ fetch'[q].token = None
                              \/ fetch'[q].token.session \in opened
    PROVE  Untouched'
<1>1. \A s \in Sessions \ opened' : sessions'[s].hash = 0 /\ Good(s)'
  BY DEF Untouched, Good
<1>2. ASSUME NEW q \in Fetches, fetch'[q] # Quit, fetch'[q].token # None
      PROVE  fetch'[q].token.session \in opened'
  BY <1>2 DEF Untouched
<1>3. QED
  BY <1>1, <1>2 DEF Untouched

\* What holds of the phone when nobody is signed in on it.
LEMMA SignedOut ==
    ASSUME Untouched', tokens' = None, user' = None, flight' = None, awaited' = {},
           \A c \in Calls : calls'[c] = NotMade, \A q \in Fetches : ~Waits(q)'
    PROVE  Smooth'
BY DEF Smooth, OneFlight, HoldsTokens, FlightIsServed

\* A request is over that nobody joined: the phone goes on, or signs out.
LEMMA OverSmooth ==
    ASSUME PhoneShape, Smooth, NEW q \in Fetches, ~Waits(q), fetch[q] # Quit, Over(q),
           UNCHANGED <<calls, opened>>, awaited' = awaited, ~orphaned', Untouched',
           ~fetch[q].logout => UNCHANGED sessions
    PROVE  Smooth'
<1>1. CASE Clears(q)
  <2>1. EndSession({q}) /\ user' = None
    BY <1>1 DEF Over, Leaves, Clears
  <2>2. awaited' = {} /\ \A p \in Fetches : ~Waits(p)
    BY <2>1 DEF EndSession
  <2>3. tokens' = None /\ flight' = None /\ \A c \in Calls : calls'[c] = NotMade
    BY <2>1, <2>2, NobodyWaits DEF EndSession
  <2>4. \A p \in Fetches : ~Waits(p)'
    BY <2>1, <2>2 DEF EndSession, Waits
  <2>5. QED
    BY <2>1, <2>2, <2>3, <2>4, SignedOut
<1>2. CASE ~Clears(q)
  <2>1. /\ UNCHANGED <<tokens, flight, user, sessions>>
        /\ fetch' = [fetch EXCEPT ![q] = Quit]
    BY <1>2 DEF Over, Leaves, Clears
  <2>2. \A p \in Fetches : /\ Waits(p)' <=> Waits(p)
                           /\ Waits(p) => fetch'[p] = fetch[p]
    BY <2>1 DEF Waits, PhoneShape
  <2>3. \A c : Joined(c)' = Joined(c)
    BY <2>2 DEF Joined
  <2>4. OneFlight'
    BY <2>1, <2>2, <2>3 DEF Smooth, OneFlight
  <2>5. HoldsTokens' /\ FlightIsServed'
    BY <2>1 DEF Smooth, HoldsTokens, FlightIsServed, Good, Trusted, Newest
  <2>6. QED
    BY <2>4, <2>5 DEF Smooth
<1>3. QED
  BY <1>1, <1>2

LEMMA SignInSmooth ==
    ASSUME PhoneShape, Smooth, NEW s \in Sessions, SignIn(s) PROVE Smooth'
<1>1. /\ s \notin opened /\ tokens' = First(s) /\ user' = s /\ opened' = opened \cup {s}
      /\ UNCHANGED <<sessions, calls, flight, awaited, fetch>>
      /\ tokens = None /\ flight = None
  BY DEF SignIn, Smooth, HoldsTokens, OneFlight
<1>2. sessions[s].hash = 0 /\ Good(s)
  BY <1>1 DEF Smooth, Untouched
<1>3. First(s) \in Token /\ First(s) # None /\ First(s).session = s /\ s # None
  BY NewTokens, CallMarks, MarkAssumption DEF First
<1>4. First(s) = Newest(s)
  BY <1>2 DEF First, Newest
<1>5. OneFlight'
  BY <1>1 DEF Smooth, OneFlight, Waits
<1>6. HoldsTokens'
  BY <1>1, <1>2, <1>3, <1>4 DEF HoldsTokens, Good, Newest
<1>7. FlightIsServed' /\ Untouched'
  BY <1>1 DEF Smooth, FlightIsServed, Untouched, Good
<1>8. QED
  BY <1>5, <1>6, <1>7 DEF Smooth

LEMMA SendSmooth ==
    ASSUME PhoneShape, Smooth, NEW q \in Fetches, NEW logout \in BOOLEAN, Send(q, logout)
    PROVE  Smooth'
<1> DEFINE x == [at |-> "sent", logout |-> logout, token |-> tokens, call |-> None]
<1>1. /\ fetch' = [fetch EXCEPT ![q] = x] /\ fetch[q] = Quit
      /\ UNCHANGED <<sessions, calls, tokens, flight, awaited, user, opened>>
  BY DEF Send
<1>2. x.at = "sent" /\ x.token = tokens
  OBVIOUS
<1> HIDE DEF x
<1>3. fetch'[q] = x /\ \A p \in Fetches \ {q} : fetch'[p] = fetch[p]
  BY <1>1 DEF PhoneShape
<1>4. \A p \in Fetches : (Waits(p)' <=> Waits(p)) /\ (Waits(p) => fetch'[p] = fetch[p])
  BY <1>1, <1>2, <1>3 DEF Waits
<1>5. \A c : Joined(c)' = Joined(c)
  BY <1>4 DEF Joined
<1>6. OneFlight'
  BY <1>1, <1>4, <1>5 DEF Smooth, OneFlight
<1>7. Untouched'
  BY <1>1, <1>2, <1>3 DEF Smooth, HoldsTokens, Untouched, Good
<1>8. HoldsTokens' /\ FlightIsServed'
  BY <1>1 DEF Smooth, HoldsTokens, FlightIsServed, Good, Trusted, Newest
<1>9. QED
  BY <1>6, <1>7, <1>8 DEF Smooth

LEMMA AcceptedSmooth ==
    ASSUME PhoneShape, Smooth, NEW q \in Fetches, ~orphaned', Accepted(q) \/ Rejected(q)
    PROVE  Smooth'
<1>1. /\ fetch[q].at \in {"sent", "replay"} /\ Over(q)
      /\ awaited' = awaited /\ UNCHANGED <<calls, opened>>
      /\ ~fetch[q].logout => UNCHANGED sessions
  BY DEF Accepted, Rejected
<1>2. ~Waits(q) /\ fetch[q] # Quit
  BY <1>1 DEF Waits, Quit
<1>3. \A p \in Fetches : fetch'[p] \in {fetch[p], Quit}
  BY <1>1 DEF Over, EndSession, PhoneShape
<1>4. Untouched'
  <2>1. CASE sessions' = sessions
    BY <1>1, <1>3, <2>1 DEF Smooth, Untouched, Good
  <2>2. CASE Revoke(fetch[q].token.session) /\ Accepted(q)
    <3>1. fetch[q].token.session \in opened
      BY <1>2, <2>2 DEF Accepted, Valid, Smooth, Untouched
    <3>2. \A s \in Sessions \ opened : sessions'[s] = sessions[s]
      BY <2>2, <3>1 DEF Revoke, PhoneShape, AuthTypeOK
    <3>3. QED
      BY <1>1, <1>3, <3>2 DEF Smooth, Untouched, Good
  <2>3. QED
    BY <2>1, <2>2 DEF Accepted, Rejected
<1>5. QED
  BY <1>1, <1>2, <1>4, OverSmooth

\* Two requests that meet the same 401 wait for one refresh of the newest tokens.
LEMMA UnauthorizedSmooth ==
    ASSUME PhoneShape, Smooth, NEW q \in Fetches, ~orphaned', Unauthorized(q)
    PROVE  Smooth'
<1>1. /\ fetch[q].at = "sent" /\ UNCHANGED <<sessions, opened>>
      /\ fetch[q] \in FetchRequest
  BY UnderWay DEF Unauthorized
<1>2. ~Waits(q) /\ fetch[q] # Quit
  BY <1>1 DEF Waits, Quit
<1>3. ASSUME NEW c \in Calls, fetch' = [fetch EXCEPT ![q].at = "wait", ![q].call = c]
      PROVE  /\ Waits(q)' /\ fetch'[q].call = c /\ fetch'[q].token = fetch[q].token
             /\ \A p \in Fetches \ {q} : fetch'[p] = fetch[p]
             /\ q \in Joined(c)'
  <2> DEFINE x == [fetch[q] EXCEPT !.at = "wait", !.call = c]
  <2>1. x.at = "wait" /\ x.call = c /\ x.token = fetch[q].token /\ x # Quit
    BY <1>1 DEF FetchRequest, Quit
  <2>2. fetch' = [fetch EXCEPT ![q] = x]
    BY <1>3 DEF PhoneShape
  <2> HIDE DEF x
  <2>3. fetch'[q] = x /\ \A p \in Fetches \ {q} : fetch'[p] = fetch[p]
    BY <2>2 DEF PhoneShape
  <2>4. Waits(q)'
    BY <2>1, <2>3 DEF Waits
  <2>5. q \in Joined(c)'
    BY <2>1, <2>3, <2>4 DEF Joined
  <2>6. QED
    BY <2>1, <2>3, <2>4, <2>5
<1>4. fetch[q].token = None \/ fetch[q].token.session \in opened
  BY <1>2 DEF Smooth, Untouched
<1>5. CASE flight # None
  <2>1. /\ fetch' = [fetch EXCEPT ![q].at = "wait", ![q].call = flight]
        /\ UNCHANGED <<calls, tokens, flight, awaited, user>> /\ flight \in Calls
    BY <1>5 DEF Unauthorized, Shared, PhoneShape
  <2>2. OneFlight'
    BY <1>3, <1>5, <2>1 DEF Smooth, OneFlight, Waits
  <2>3. Untouched'
    BY <1>1, <1>3, <1>4, <2>1, StaysUntouched DEF Smooth
  <2>4. HoldsTokens' /\ FlightIsServed'
    BY <1>1, <2>1 DEF Smooth, HoldsTokens, FlightIsServed, Good, Trusted, Newest
  <2>5. QED
    BY <2>2, <2>3, <2>4 DEF Smooth
<1>6. CASE flight = None /\ tokens = None
  <2>1. EndSession({q}) /\ Leaves({q}) /\ UNCHANGED calls /\ awaited' = awaited
    BY <1>6 DEF Unauthorized, Shared
  <2>2. user' = None /\ awaited' = {} /\ tokens' = None /\ flight' = None
    BY <1>6, <2>1 DEF EndSession, Leaves, Smooth, HoldsTokens
  <2>3. (\A p \in Fetches : ~Waits(p)) /\ \A c \in Calls : calls[c] = NotMade
    BY <1>6, CallMarks DEF Smooth, OneFlight
  <2>4. \A p \in Fetches : fetch'[p] \in {fetch[p], Quit}
    BY <2>1 DEF EndSession
  <2>5. Untouched' /\ \A p \in Fetches : ~Waits(p)'
    BY <1>1, <2>3, <2>4 DEF Smooth, Untouched, Good, Waits
  <2>6. QED
    BY <2>1, <2>2, <2>3, <2>5, SignedOut
<1>7. CASE flight = None /\ tokens # None
  <2>1. PICK c \in Calls : /\ SendRefresh(c, tokens)
                           /\ fetch' = [fetch EXCEPT ![q].at = "wait", ![q].call = c]
                           /\ flight' = c /\ awaited' = awaited \cup {c}
    BY <1>7 DEF Unauthorized, Shared
  <2>2. UNCHANGED <<tokens, user>> /\ c # None
    BY <1>7, CallMarks DEF Unauthorized, Shared
  <2> DEFINE y == [at |-> "sent", token |-> tokens]
  <2>3. y.at = "sent" /\ y.token = tokens /\ y # NotMade
    BY DEF NotMade
  <2>4. calls' = [calls EXCEPT ![c] = y]
    BY <2>1 DEF SendRefresh, Set
  <2> HIDE DEF y
  <2>5. calls'[c] = y /\ \A b \in Calls \ {c} : calls'[b] = calls[b]
    BY <2>4 DEF PhoneShape, AuthTypeOK
  <2>6. (\A p \in Fetches : ~Waits(p)) /\ \A b \in Calls : calls[b] = NotMade
    BY <1>7, CallMarks DEF Smooth, OneFlight
  <2>7. OneFlight'
    <3>1. \A p \in Fetches : Waits(p)' => p = q
      BY <1>3, <2>1, <2>6 DEF Waits
    <3>2. awaited' \subseteq {c}
      <4>1. awaited \subseteq {None} /\ awaited \subseteq Calls
        BY <1>7 DEF Smooth, OneFlight, PhoneShape
      <4>2. QED
        BY <2>1, <4>1, CallMarks
    <3>3. Joined(c)' # {} /\ fetch'[q].call = c
      BY <1>3, <2>1
    <3>4. QED
      BY <1>7, <2>1, <2>2, <2>3, <2>5, <2>6, <3>1, <3>2, <3>3 DEF OneFlight
  <2>8. HoldsTokens'
    <3>1. flight' # None
      BY <2>1, <2>2
    <3>2. QED
      BY <1>1, <2>2, <3>1 DEF Smooth, HoldsTokens, Good
  <2>9. FlightIsServed'
    BY <1>1, <1>7, <2>1, <2>2, <2>3, <2>5
       DEF Smooth, HoldsTokens, FlightIsServed, Trusted, Newest
  <2>10. Untouched'
    BY <1>1, <1>3, <1>4, <2>1, StaysUntouched DEF Smooth
  <2>11. QED
    BY <2>7, <2>8, <2>9, <2>10 DEF Smooth
<1>8. QED
  BY <1>5, <1>6, <1>7

LEMMA ServeSmooth == ASSUME PhoneShape, Smooth, NEW c \in Calls, PhoneServe(c) PROVE Smooth'
<1>1. /\ ServeRefresh(c)
      /\ UNCHANGED <<tokens, flight, awaited, fetch, user, opened>>
  BY DEF PhoneServe
<1>2. calls[c].at \in {"sent", "found"} /\ calls[c] # NotMade
  BY <1>1 DEF ServeRefresh, FindSession, RejectReuse, Reject, Rotate, NotMade
<1>3. /\ c = flight /\ flight # None /\ tokens # None /\ user = tokens.session
      /\ tokens = Newest(user) /\ flight \in awaited
  BY <1>2, CallMarks DEF Smooth, OneFlight, HoldsTokens, FlightIsServed
<1>4. user \in Sessions /\ user \in opened
  BY <1>3 DEF PhoneShape, Token, Smooth, HoldsTokens
<1>5. /\ Trusted(calls[c], user)' /\ Good(user)'
      /\ \A r \in Sessions \ {user} : sessions'[r] = sessions[r]
      /\ \A b \in Calls \ {c} : calls'[b] = calls[b]
      /\ \/ calls[c].at = "sent" /\ calls'[c].at = "found" /\ sessions' = sessions
         \/ calls[c].at = "found" /\ calls'[c].at = "answered" /\ Exchanged(user)
  <2>1. Trusted(calls[c], user) /\ Good(user) /\ UNCHANGED user
    BY <1>1, <1>3 DEF Smooth, FlightIsServed, HoldsTokens
  <2>2. QED
    BY <1>1, <1>4, <2>1, NewestIsServed DEF PhoneShape, Trusted, Newest, Good
<1>6. calls'[c] # NotMade
  BY <1>5 DEF NotMade
<1>7. OneFlight'
  BY <1>1, <1>2, <1>3, <1>5, <1>6 DEF Smooth, OneFlight, Joined, Waits
<1>8. HoldsTokens'
  BY <1>1, <1>3, <1>4, <1>5 DEF Smooth, HoldsTokens
<1>9. FlightIsServed'
  BY <1>1, <1>3, <1>5 DEF FlightIsServed, Newest
<1>10. Untouched'
  BY <1>1, <1>4, <1>5 DEF Smooth, Untouched, Good
<1>11. QED
  BY <1>7, <1>8, <1>9, <1>10 DEF Smooth

LEMMA ReceiveSmooth ==
    ASSUME PhoneShape, Smooth, NEW c \in Calls, ReceiveTokens(c) PROVE Smooth'
<1>1. /\ c \in awaited /\ calls[c].at = "answered" /\ tokens' = calls[c].answer
      /\ awaited' = awaited \ {c}
      /\ UNCHANGED <<sessions, calls, flight, fetch, user, opened>>
  BY DEF ReceiveTokens
<1>2. c = flight /\ flight # None /\ tokens # None /\ user = tokens.session /\ user \in Sessions
  BY <1>1, CallMarks DEF Smooth, OneFlight, HoldsTokens, PhoneShape, Token
<1>3. calls[c].answer = Newest(user)
  BY <1>1, <1>2 DEF Smooth, FlightIsServed, Trusted
<1>4. tokens' = Newest(user) /\ tokens' # None /\ tokens'.session = user
  BY <1>1, <1>2, <1>3, NewestIsAToken DEF PhoneShape
<1>5. OneFlight'
  BY <1>1, <1>2, <1>4 DEF Smooth, OneFlight, Joined, Waits
<1>6. HoldsTokens'
  BY <1>1, <1>2, <1>4 DEF Smooth, HoldsTokens, Good
<1>7. FlightIsServed'
  BY <1>1, <1>2, <1>4 DEF Smooth, FlightIsServed, Trusted, Newest
<1>8. Untouched'
  BY <1>1 DEF Smooth, Untouched, Good
<1>9. QED
  BY <1>5, <1>6, <1>7, <1>8 DEF Smooth

LEMMA ResumeSmooth ==
    ASSUME PhoneShape, Smooth, NEW c \in Calls, Resume(c) PROVE Smooth'
<1>1. /\ c \notin awaited /\ Joined(c) # {} /\ flight' = None /\ Set(c, NotMade)
      /\ UNCHANGED <<sessions, tokens, awaited, user, opened>>
      /\ fetch' = [q \in Fetches |->
            IF q \in Joined(c)
            THEN [fetch[q] EXCEPT !.at = "replay", !.call = None, !.token = tokens]
            ELSE fetch[q]]
  BY DEF Resume, Received
<1>2. c = flight /\ flight # None
  BY <1>1, CallMarks DEF Joined, Smooth, OneFlight
<1>3. tokens # None /\ tokens = Newest(user)
  BY <1>1, <1>2 DEF Smooth, OneFlight, FlightIsServed
<1>4. \A q \in Fetches : Waits(q) <=> q \in Joined(c)
  BY <1>2 DEF Smooth, OneFlight, Joined
<1>5. ASSUME NEW q \in Fetches
      PROVE  /\ fetch'[q] = fetch[q] \/ (fetch'[q].at = "replay" /\ fetch'[q].token = tokens)
             /\ ~Waits(q)'
  <2>1. CASE q \notin Joined(c)
    BY <1>1, <1>4, <2>1 DEF Waits
  <2>2. CASE q \in Joined(c)
    <3> DEFINE x == [fetch[q] EXCEPT !.at = "replay", !.call = None, !.token = tokens]
    <3>1. fetch[q] \in FetchRequest
      BY <2>2, FetchKinds DEF Joined, Waits
    <3>2. x.at = "replay" /\ x.token = tokens
      BY <3>1 DEF FetchRequest
    <3>3. fetch'[q] = x
      BY <1>1, <2>2
    <3> HIDE DEF x
    <3>4. QED
      BY <3>2, <3>3 DEF Waits
  <2>3. QED
    BY <2>1, <2>2
<1>6. \A b \in Calls : calls'[b] = NotMade
  BY <1>1, <1>2 DEF Set, Smooth, OneFlight, PhoneShape, AuthTypeOK
<1>7. OneFlight'
  BY <1>1, <1>2, <1>5, <1>6 DEF Smooth, OneFlight
<1>8. HoldsTokens' /\ FlightIsServed'
  BY <1>1, <1>3 DEF Smooth, HoldsTokens, FlightIsServed, Good, Newest
<1>9. Untouched'
  <2>1. tokens.session \in opened
    BY <1>3 DEF Smooth, HoldsTokens
  <2>2. QED
    BY <1>1, <1>5, <2>1, StaysUntouched DEF Smooth
<1>10. QED
  BY <1>7, <1>8, <1>9 DEF Smooth

LEMMA SmoothStep == PhoneShape /\ SmoothInv /\ [PhoneNext]_phoneVars => SmoothInv'
<1> SUFFICES ASSUME PhoneShape, SmoothInv, [PhoneNext]_phoneVars PROVE SmoothInv'
  OBVIOUS
<1>1. phoneFaults \in Nat /\ phoneFaults' \in {phoneFaults, phoneFaults + 1}
  <2>1. PhoneFault \/ phoneFaults' = phoneFaults
    BY DEF PhoneNext, SignIn, AccessExpires, Send, Accepted, FetchFails, Unauthorized, Rejected,
           PhoneServe, ReceiveTokens, Resume, RefreshFails, DropTokens, Save, Relaunch, phoneVars
  <2>2. QED
    BY <2>1 DEF PhoneFault, SmoothInv
<1>2. orphaned => orphaned'
  BY DEF PhoneNext, SignIn, AccessExpires, Send, Accepted, FetchFails, Unauthorized, Rejected,
         PhoneServe, ReceiveTokens, Resume, RefreshFails, DropTokens, Save, Relaunch, phoneVars,
         Over, EndSession
<1> SUFFICES ASSUME phoneFaults' = 0, ~orphaned' PROVE Smooth'
  BY <1>1 DEF SmoothInv
<1>3. Smooth /\ ~PhoneFault
  BY <1>1, <1>2 DEF SmoothInv, PhoneFault
<1>4. ASSUME NEW s \in Sessions, SignIn(s) PROVE Smooth'
  BY <1>3, <1>4, SignInSmooth
<1>5. ASSUME NEW q \in Fetches, Accepted(q) \/ FetchFails(q) \/ Unauthorized(q) \/ Rejected(q)
      PROVE  Smooth'
  BY <1>3, <1>5, AcceptedSmooth, UnauthorizedSmooth DEF FetchFails
<1>6. ASSUME NEW q \in Fetches, NEW logout \in BOOLEAN, Send(q, logout) PROVE Smooth'
  BY <1>3, <1>6, SendSmooth
<1>7. ASSUME NEW c \in Calls, PhoneServe(c) \/ ReceiveTokens(c) \/ Resume(c) PROVE Smooth'
  BY <1>3, <1>7, ServeSmooth, ReceiveSmooth, ResumeSmooth
<1>8. ASSUME NEW c \in Calls, RefreshFails(c) PROVE FALSE
  <2>1. c \in awaited /\ calls[c].at = "answered" /\ calls[c].answer = None
    BY <1>3, <1>8 DEF RefreshFails
  <2>2. c = flight /\ flight # None /\ user = tokens.session /\ user \in Sessions
    BY <1>3, <2>1, CallMarks DEF Smooth, OneFlight, HoldsTokens, PhoneShape, Token
  <2>3. calls[c].answer = Newest(user)
    BY <1>3, <2>1, <2>2 DEF Smooth, FlightIsServed, Trusted
  <2>4. QED
    BY <2>1, <2>2, <2>3, NewestIsAToken DEF PhoneShape
<1>9. ASSUME NEW c \in Calls, DropTokens(c) PROVE FALSE
  <2>1. calls[c].at = "answered" /\ c \notin awaited /\ ~Received(c)
    BY <1>9 DEF DropTokens
  <2>2. c = flight /\ flight # None
    BY <1>3, <2>1, CallMarks DEF Smooth, OneFlight, NotMade
  <2>3. QED
    BY <1>3, <2>1, <2>2 DEF Smooth, OneFlight, Received
<1>10. CASE Save \/ Relaunch \/ (\E s \in Sessions : AccessExpires(s)) \/ UNCHANGED phoneVars
  <2>1. UNCHANGED <<sessions, calls, tokens, flight, awaited, fetch, user, opened>>
    BY <1>3, <1>10 DEF Save, Relaunch, AccessExpires, phoneVars
  <2>2. OneFlight' /\ Untouched'
    BY <1>3, <2>1 DEF Smooth, OneFlight, Untouched, Joined, Waits, Good
  <2>3. HoldsTokens' /\ FlightIsServed'
    BY <1>3, <2>1 DEF Smooth, HoldsTokens, FlightIsServed, Good, Trusted, Newest
  <2>4. QED
    BY <2>2, <2>3 DEF Smooth
<1>11. QED
  BY <1>4, <1>5, <1>6, <1>7, <1>8, <1>9, <1>10 DEF PhoneNext

\* lib/api/client.ts: requests that meet an expired access token together never sign the
\* person out, unless a call failed, the app was killed, or a session ended on the phone
\* while a refresh of it was under way.
THEOREM PhoneStaysSignedIn == PhoneSpec => []PhoneSignOutExplained
<1>1. SmoothInv => PhoneSignOutExplained
  BY DEF SmoothInv, Smooth, HoldsTokens, PhoneSignOutExplained
<1>2. QED
  BY <1>1, PhoneStart, PhoneStep, SmoothStart, SmoothStep, PTL DEF PhoneSpec

-----------------------------------------------------------------------------
(* The transcript of a conversation.                                       *)

ChatShape ==
    /\ said \in Nat /\ said <= MaxMessages
    /\ page \in {None} \cup Int
    /\ held \in {None} \cup SUBSET Messages
    /\ reading \in {None} \cup Reading
    /\ events \subseteq Messages /\ replies \subseteq Messages /\ unsaid \subseteq Messages
    /\ held # None => page # None
    /\ reading # None => page # None
    /\ joined => link = "up"
    /\ link \in {"up", "down"}
    /\ link = "up" => connectedOnce

Before(m) == m <= (page - 1) * PageSize
After(m) == m > page * PageSize

\* Where a message is that the transcript may still lack.
Accounted(m) ==
    \/ m \in excused \cup unsaid \cup events
    \/ held # None /\ m \in held
    \/ page = None \/ Before(m)
    \/ reading # None /\ reading.at = "asked"
    \/ reading # None /\ reading.at = "answered" /\ (m \in reading.found \/ After(m))
    \/ link = "down" /\ connectedOnce

AllAccounted == \A m \in 1 .. said : Accounted(m)

LEMMA OnePage ==
    ASSUME NEW m \in Nat, NEW p \in Int
    PROVE  \/ m <= (p - 1) * PageSize \/ m > p * PageSize
           \/ m > (p - 1) * PageSize /\ m <= p * PageSize
<1>1. (p - 1) * PageSize \in Int /\ p * PageSize \in Int
  BY ChatAssumption
<1>2. QED
  BY <1>1

LEMMA ChatStart == ChatInit => ChatShape /\ AllAccounted
BY ChatAssumption DEF ChatInit, ChatShape, AllAccounted

LEMMA LastPageIsANumber ==
    ASSUME said \in Nat
    PROVE  LastPage \in Int
BY ChatAssumption DEF LastPage

LEMMA ChatShapeStep == ChatShape /\ [ChatNext]_chatVars => ChatShape'
<1> SUFFICES ASSUME ChatShape, [ChatNext]_chatVars PROVE ChatShape'
  OBVIOUS
<1> USE ChatAssumption, MissingAssumption DEF ChatShape
<1>0. Unanswered \in Reading /\ Messages = 1 .. MaxMessages
  BY DEF Reading, Unanswered, Messages
<1>1. CASE StoreMessage
  BY <1>0, <1>1 DEF StoreMessage
<1>2. CASE JoinRoom \/ Disconnect
  BY <1>2 DEF JoinRoom, Disconnect
<1>3. CASE ProbeBounds
  BY <1>0, <1>3, LastPageIsANumber DEF ProbeBounds
<1>4. CASE ReadPage
  <2>1. {m \in 1 .. said : OfThePage(m)} \subseteq Messages
    BY <1>0
  <2>2. reading' \in Reading
    BY <1>4, <2>1 DEF ReadPage, Reading
  <2>3. QED
    BY <1>4, <2>2 DEF ReadPage
<1>5. CASE LandPage
  <2>1. reading.found \subseteq Messages
    BY <1>5 DEF LandPage, Reading
  <2>2. QED
    BY <1>5, <2>1 DEF LandPage
<1>6. CASE ReadFails
  BY <1>0, <1>6 DEF ReadFails
<1>7. CASE Connect
  BY <1>0, <1>7 DEF Connect
<1>8. ASSUME NEW m \in Messages, PublishMessage(m) PROVE ChatShape'
  BY <1>8 DEF PublishMessage
<1>9. ASSUME NEW m \in Messages, DeliverEvent(m) \/ DeliverReply(m) PROVE ChatShape'
  BY <1>9 DEF DeliverEvent, DeliverReply, AppendMessage
<1>10. CASE UNCHANGED chatVars
  BY <1>10 DEF chatVars
<1>11. QED
  BY <1>1, <1>2, <1>3, <1>4, <1>5, <1>6, <1>7, <1>8, <1>9, <1>10 DEF ChatNext

LEMMA AccountedStep ==
    ChatShape /\ ChatShape' /\ AllAccounted /\ [ChatNext]_chatVars => AllAccounted'
<1> SUFFICES ASSUME ChatShape, ChatShape', AllAccounted, [ChatNext]_chatVars,
                    NEW m \in 1 .. said'
             PROVE  Accounted(m)'
  BY DEF AllAccounted
<1>a. said \in Nat /\ m \in Nat
  BY DEF ChatShape
<1>b. m \in 1 .. said => Accounted(m)
  BY DEF AllAccounted
<1>1. CASE StoreMessage
  <2>1. said' = said + 1 /\ unsaid' = unsaid \cup {said + 1}
    BY <1>1 DEF StoreMessage
  <2>2. CASE m = said + 1
    BY <2>1, <2>2 DEF Accounted
  <2>3. CASE m # said + 1
    <3>1. m \in 1 .. said
      BY <1>a, <2>1, <2>3
    <3>2. QED
      BY <1>1, <1>b, <2>1, <3>1 DEF StoreMessage, Accounted, Before, After
  <2>4. QED
    BY <2>2, <2>3
<1>2. ASSUME said' = said, NEW k \in Messages, PublishMessage(k) PROVE Accounted(m)'
  <2>1. CASE m = k
    <3>1. CASE joined
      BY <1>2, <2>1, <3>1 DEF PublishMessage, Accounted
    <3>2. CASE ~joined /\ (link = "up" \/ ~connectedOnce)
      BY <1>2, <2>1, <3>2 DEF PublishMessage, Accounted
    <3>3. CASE link = "down" /\ connectedOnce
      BY <1>2, <3>3 DEF PublishMessage, Accounted
    <3>4. QED
      BY <3>1, <3>2, <3>3 DEF ChatShape
  <2>2. CASE m # k
    BY <1>2, <1>b, <2>2 DEF PublishMessage, Accounted, Before, After
  <2>3. QED
    BY <2>1, <2>2
<1>3. CASE JoinRoom
  BY <1>3, <1>b DEF JoinRoom, Accounted, Before, After
<1>4. CASE ProbeBounds
  <2>1. reading' = Unanswered /\ reading' # None
    BY <1>4, MissingAssumption DEF ProbeBounds, Reading, Unanswered
  <2>2. QED
    BY <2>1 DEF Accounted, Unanswered
<1>5. CASE ReadPage
  <2>1. m \in 1 .. said /\ page' = page
    BY <1>5 DEF ReadPage
  <2>2. page \in Int
    BY <1>5 DEF ReadPage, ChatShape
  <2>3. reading' # None /\ reading'.at = "answered"
    <3>1. {i \in 1 .. said : OfThePage(i)} \subseteq Messages
      BY ChatAssumption DEF ChatShape, Messages
    <3>2. reading' \in Reading
      BY <1>5, <3>1 DEF ReadPage, Reading
    <3>3. QED
      BY <1>5, <3>2, MissingAssumption DEF ReadPage
  <2>4. OfThePage(m) => m \in reading'.found
    BY <1>5, <2>1 DEF ReadPage
  <2>5. QED
    BY <1>a, <2>1, <2>2, <2>3, <2>4, OnePage DEF Accounted, Before, After, OfThePage
<1>6. CASE LandPage
  <2>1. m \in 1 .. said /\ Accounted(m) /\ reading # None /\ reading.at = "answered"
    BY <1>6, <1>b DEF LandPage
  <2>2. /\ held' = reading.found
        /\ excused \subseteq excused'
        /\ After(m) => m \in excused'
        /\ held # None /\ m \in held => m \in excused' \cup held'
        /\ UNCHANGED <<unsaid, events, page, link, connectedOnce>>
    BY <1>6, <2>1 DEF LandPage, After
  <2>3. held' # None
    BY <2>1, <2>2, MissingAssumption DEF ChatShape, Reading
  <2>4. QED
    BY <2>1, <2>2, <2>3 DEF Accounted, Before, After
<1>7. CASE ReadFails
  <2>1. m \in 1 .. said /\ Accounted(m)
    BY <1>7, <1>b DEF ReadFails
  <2>2. CASE held = None
    <3>1. reading' = Unanswered /\ reading' # None
      BY <1>7, <2>2, MissingAssumption DEF ReadFails, Reading, Unanswered
    <3>2. QED
      BY <3>1 DEF Accounted, Unanswered
  <2>3. CASE held # None
    BY <1>7, <2>1, <2>3 DEF ReadFails, Accounted
  <2>4. QED
    BY <2>2, <2>3
<1>8. CASE Connect
  <2>1. m \in 1 .. said /\ Accounted(m)
    BY <1>8, <1>b DEF Connect
  <2>2. CASE page # None /\ Resyncs
    <3>1. reading' = Unanswered /\ reading' # None
      BY <1>8, <2>2, MissingAssumption DEF Connect, Reading, Unanswered
    <3>2. QED
      BY <3>1 DEF Accounted, Unanswered
  <2>3. CASE page = None
    BY <1>8, <2>3 DEF Connect, Accounted
  <2>4. CASE page # None /\ ~Resyncs
    BY <1>8, <2>1, <2>4 DEF Connect, Resyncs, Accounted, Before, After
  <2>5. QED
    BY <2>2, <2>3, <2>4
<1>9. CASE Disconnect
  BY <1>9 DEF Disconnect, Accounted, ChatShape
<1>10. ASSUME NEW k \in Messages, DeliverEvent(k) \/ DeliverReply(k) PROVE Accounted(m)'
  <2>1. /\ AppendMessage(k) /\ events \ {k} \subseteq events'
        /\ m \in 1 .. said /\ Accounted(m)
    BY <1>10, <1>b DEF DeliverEvent, DeliverReply, AppendMessage
  <2>2. UNCHANGED <<unsaid, page, reading, link, connectedOnce>>
    BY <2>1 DEF AppendMessage
  <2>3. CASE held = None
    BY <2>1, <2>2, <2>3 DEF AppendMessage, Accounted, Before, After
  <2>4. CASE held # None
    <3>1. held' = held \cup {k} /\ held' # None
      BY <2>1, <2>4, MissingAssumption DEF AppendMessage, ChatShape
    <3>2. QED
      BY <2>1, <2>2, <2>4, <3>1 DEF AppendMessage, Accounted, Before, After
  <2>5. QED
    BY <2>3, <2>4
<1>11. CASE UNCHANGED chatVars
  BY <1>11, <1>b DEF chatVars, Accounted, Before, After
<1>12. (\E k \in Messages : PublishMessage(k)) => said' = said
  BY DEF PublishMessage
<1>13. QED
  BY <1>1, <1>2, <1>3, <1>4, <1>5, <1>6, <1>7, <1>8, <1>9, <1>10, <1>11, <1>12 DEF ChatNext

\* When everything has arrived, a transcript that lacks a stored message does so for
\* a reason the clients know: socket.ts, messages.ts and ChatThread.tsx lose nothing
\* else.
THEOREM HolesAreExplained == ChatSpec => []HolesExplained
<1>1. ChatShape /\ AllAccounted => HolesExplained
  <2> SUFFICES ASSUME ChatShape, AllAccounted, Arrived, NEW m \in Missing
               PROVE  m \in excused
    BY DEF HolesExplained
  <2>1. m \in 1 .. said /\ m > (page - 1) * PageSize /\ m \notin held
    BY DEF Missing
  <2>2. page \in Int /\ m \in Nat /\ (page - 1) * PageSize \in Int
    BY <2>1, ChatAssumption DEF Arrived, ChatShape
  <2>3. ~Before(m)
    BY <2>1, <2>2 DEF Before
  <2>4. page # None
    BY DEF Arrived, ChatShape
  <2>5. QED
    BY <2>1, <2>3, <2>4 DEF AllAccounted, Accounted, Arrived, ChatShape
<1>2. QED
  BY <1>1, ChatStart, ChatShapeStep, AccountedStep, PTL DEF ChatSpec

-----------------------------------------------------------------------------
(* The types of all four, and the bounds of their counters.               *)

LEMMA DivisionWithRest ==
    ASSUME NEW m \in Int, NEW d \in Nat, d > 0
    PROVE  m = d * (m \div d) + (m % d) /\ (m % d) \in 0 .. d - 1
BY SMT

LEMMA LastPageBounded ==
    ASSUME ChatShape PROVE LastPage \in 1 .. MaxMessages + 1
<1> DEFINE n == said + PageSize - 1
<1> DEFINE q == n \div PageSize
<1>1. /\ said \in Nat /\ said <= MaxMessages /\ PageSize \in Nat /\ PageSize > 0
      /\ MaxMessages \in Nat
  BY ChatAssumption DEF ChatShape
<1>2. CASE said = 0
  BY <1>1, <1>2 DEF LastPage
<1>3. CASE said > 0
  <2>1. n \in Nat /\ q \in Int /\ n = said + PageSize - 1 /\ LastPage = q
    BY <1>1, <1>3 DEF LastPage
  <2> HIDE DEF n
  <2>2. n = PageSize * q + (n % PageSize) /\ n % PageSize \in 0 .. PageSize - 1
    BY <1>1, <2>1, DivisionWithRest
  <2>3. q >= 1
    <3>1. PageSize * q > 0
      BY <1>1, <1>3, <2>1, <2>2
    <3>2. QED
      BY <1>1, <2>1, <3>1
  <2>4. q <= said
    <3> SUFFICES ASSUME q >= said + 1 PROVE FALSE
      BY <1>1, <2>1
    <3>1. PageSize * q >= PageSize * (said + 1)
      BY <1>1, <2>1
    <3>2. PageSize * (said + 1) = PageSize * said + PageSize
      BY <1>1
    <3>3. PageSize * said >= said
      BY <1>1
    <3>4. QED
      BY <1>1, <2>1, <2>2, <3>1, <3>2, <3>3
  <2>5. QED
    BY <1>1, <2>1, <2>3, <2>4
<1>4. QED
  BY <1>1, <1>2, <1>3

LEMMA ChatTypes == ChatInit => ChatTypeOK
<1> SUFFICES ASSUME ChatInit PROVE ChatTypeOK
  OBVIOUS
<1>1. said = 0 /\ said \in 0 .. MaxMessages /\ drops \in 0 .. MaxDrops
  BY ChatAssumption DEF ChatInit
<1>2. {unsaid, replies, events} \subseteq SUBSET Messages /\ excused \subseteq Messages
  BY DEF ChatInit
<1>3. /\ link \in {"up", "down"} /\ joined \in BOOLEAN /\ connectedOnce \in BOOLEAN
      /\ page = None /\ held = None /\ reading = None
  BY DEF ChatInit
<1>4. QED
  BY <1>1, <1>2, <1>3 DEF ChatTypeOK

LEMMA ChatTypesStep ==
    ChatShape /\ ChatTypeOK /\ [ChatNext]_chatVars => ChatTypeOK'
<1> SUFFICES ASSUME ChatShape, ChatTypeOK, [ChatNext]_chatVars PROVE ChatTypeOK'
  OBVIOUS
<1>0. ChatShape'
  BY ChatShapeStep
<1>1. said' \in 0 .. MaxMessages /\ {unsaid', replies', events'} \subseteq SUBSET Messages
      /\ link' \in {"up", "down"} /\ held' \in {None} \cup SUBSET Messages
      /\ reading' \in {None} \cup Reading
  BY <1>0 DEF ChatShape
<1>2. page' \in {None} \cup 1 .. MaxMessages + 1
  BY LastPageBounded
     DEF ChatTypeOK, ChatNext, StoreMessage, JoinRoom, ProbeBounds, ReadPage, LandPage, ReadFails,
         Connect, Disconnect, PublishMessage, DeliverEvent, DeliverReply, AppendMessage, chatVars
<1>3. drops' \in 0 .. MaxDrops
  BY ChatAssumption
     DEF ChatTypeOK, ChatNext, StoreMessage, JoinRoom, ProbeBounds, ReadPage, LandPage, ReadFails,
         Connect, Disconnect, PublishMessage, DeliverEvent, DeliverReply, AppendMessage, chatVars
<1>4. joined' \in BOOLEAN /\ connectedOnce' \in BOOLEAN
  <2>1. /\ joined' \in {joined, TRUE, FALSE} /\ connectedOnce' \in {connectedOnce, TRUE}
    BY DEF ChatNext, StoreMessage, JoinRoom, ProbeBounds, ReadPage, LandPage, ReadFails,
         Connect, Disconnect, PublishMessage, DeliverEvent, DeliverReply, AppendMessage, chatVars
  <2>2. QED
    BY <2>1 DEF ChatTypeOK
<1>5. excused' \subseteq Messages
  <2>1. 1 .. said \subseteq Messages /\ 1 .. said' \subseteq Messages
    BY <1>1, ChatAssumption DEF ChatShape, Messages
  <2>2. reading # None => reading \in Reading /\ reading.found \subseteq Messages
    BY DEF ChatShape, Reading
  <2>3. QED
    BY <2>1, <2>2
     DEF ChatShape, ChatTypeOK, ChatNext, StoreMessage, JoinRoom, ProbeBounds, ReadPage, LandPage,
         ReadFails, Connect, Disconnect, PublishMessage, DeliverEvent, DeliverReply,
         AppendMessage, chatVars
<1>6. QED
  BY <1>1, <1>2, <1>3, <1>4, <1>5 DEF ChatTypeOK

\* What the shape of the browser leaves out.
WebMarks ==
    /\ aged \in BOOLEAN /\ asked \in BOOLEAN
    /\ mislaid \subseteq {"answer", "restart", "browser", "render"}
    /\ webFaults \in 0 .. MaxWebFaults

LEMMA WebMarksStep == ASSUME WebMarks, [WebNext]_webVars PROVE WebMarks'
<1>1. /\ aged' \in {aged, TRUE, FALSE} /\ asked' \in {asked, TRUE}
  <2>1. ASSUME NEW c \in Calls, WebServe(c) PROVE aged' \in {TRUE, FALSE} /\ asked' = asked
    BY <2>1 DEF WebServe
  <2>2. QED
    BY <2>1 DEF WebNext, Navigate, Render, Respond, LogOut, ReceivePair, ReceiveRefusal, Blip,
                DropAnswer, Restart, MemoryExpires, AccessTokenExpires, WebSessionEnds, webVars
<1>2. mislaid' \subseteq mislaid \cup {"answer", "restart", "browser", "render"}
  BY DEF WebNext, Navigate, Render, Respond, LogOut, ReceivePair, ReceiveRefusal, Blip, WebServe,
         DropAnswer, Restart, MemoryExpires, AccessTokenExpires, WebSessionEnds, webVars
<1>3. webFaults' = webFaults \/ WebFault
  BY DEF WebNext, Navigate, Render, Respond, LogOut, ReceivePair, ReceiveRefusal, Blip, WebServe,
         DropAnswer, Restart, MemoryExpires, AccessTokenExpires, WebSessionEnds, webVars
<1>4. webFaults' \in 0 .. MaxWebFaults
  BY <1>3, WebBoundAssumption DEF WebMarks, WebFault
<1>5. aged' \in BOOLEAN /\ asked' \in BOOLEAN
  BY <1>1 DEF WebMarks
<1>6. QED
  BY <1>2, <1>4, <1>5 DEF WebMarks

LEMMA WebTypeParts == WebTypeOK <=> WebShape /\ WebMarks
BY DEF WebTypeOK, WebShape, WebMarks, TabRequest

PhoneMarks ==
    /\ stale \subseteq Sessions /\ opened \subseteq Sessions
    /\ user \in Sessions \cup {None}
    /\ orphaned \in BOOLEAN
    /\ phoneFaults \in 0 .. MaxPhoneFaults

LEMMA PhoneMarksStep == ASSUME PhoneMarks, [PhoneNext]_phoneVars PROVE PhoneMarks'
<1>1. stale' \subseteq Sessions /\ opened' \subseteq Sessions
  BY DEF PhoneMarks, PhoneNext, SignIn, AccessExpires, Send, Accepted, FetchFails, Unauthorized,
         Rejected, PhoneServe, ReceiveTokens, Resume, RefreshFails, DropTokens, Save, Relaunch,
         phoneVars
<1>2. user' \in Sessions \cup {None}
  BY DEF PhoneMarks, PhoneNext, SignIn, AccessExpires, Send, Accepted, FetchFails, Unauthorized,
         Rejected, PhoneServe, ReceiveTokens, Resume, RefreshFails, DropTokens, Save, Relaunch,
         phoneVars, Over, Leaves
<1>3. orphaned' \in {orphaned, TRUE, FALSE}
  <2>1. ASSUME NEW S, EndSession(S) PROVE orphaned' \in {TRUE, FALSE}
    BY <2>1 DEF EndSession
  <2>2. QED
    BY <2>1
       DEF PhoneMarks, PhoneNext, SignIn, AccessExpires, Send, Accepted, FetchFails, Unauthorized,
         Rejected, PhoneServe, ReceiveTokens, Resume, RefreshFails, DropTokens, Save, Relaunch,
         phoneVars, Over
<1>4. phoneFaults' = phoneFaults \/ PhoneFault
  BY DEF PhoneMarks, PhoneNext, SignIn, AccessExpires, Send, Accepted, FetchFails, Unauthorized,
         Rejected, PhoneServe, ReceiveTokens, Resume, RefreshFails, DropTokens, Save, Relaunch,
         phoneVars
<1>5. phoneFaults' \in 0 .. MaxPhoneFaults
  BY <1>4, PhoneBoundAssumption DEF PhoneMarks, PhoneFault
<1>6. orphaned' \in BOOLEAN
  BY <1>3 DEF PhoneMarks
<1>7. QED
  BY <1>1, <1>2, <1>5, <1>6 DEF PhoneMarks

LEMMA PhoneTypeParts == PhoneTypeOK <=> PhoneShape /\ PhoneMarks
BY DEF PhoneTypeOK, PhoneShape, PhoneMarks, FetchRequest
LoginMarks ==
    /\ hasTtl \in BOOLEAN /\ locked \in BOOLEAN
    /\ level \in 0 .. 2 /\ outages \in 0 .. MaxOutages
    /\ attempt \in [Attempts -> [at : Steps, count : 0 .. MaxCount, level : 0 .. 2]]

LEMMA LoginTypeParts ==
    ASSUME LoginShape, GuessInv, LoginMarks PROVE LoginTypeOK
<1>1. /\ failures \in Nat /\ guesses \in Nat /\ outages \in Nat /\ outages <= MaxOutages
      /\ Cardinality(Attempts) \in Nat
  BY Sizes, ThresholdAssumption DEF LoginShape, LoginMarks
<1>2. failures \in 0 .. MaxCount /\ guesses \in 0 .. MaxCount
  BY <1>1, LoginBounds, ThresholdAssumption DEF MaxCount, FewGuesses
<1>3. QED
  BY <1>2 DEF LoginTypeOK, LoginMarks, Steps

LEMMA LoginMarksStep ==
    ASSUME LoginShape, LoginShape', FewGuesses', LoginMarks, [LoginNext]_loginVars
    PROVE  LoginMarks'
<1>0. outages \in 0 .. MaxOutages /\ level \in 0 .. 2 /\ MaxOutages \in Nat
  BY ThresholdAssumption DEF LoginMarks
<1>1. outages' \in 0 .. MaxOutages
  <2>1. outages' = outages \/ (outages < MaxOutages /\ outages' = outages + 1)
    BY DEF LoginNext, Check, Compare, Incr, Expire, ReadLevel, Lock, ClearFailures,
         Escalate, Success, FailOpen, LockExpires, WindowPasses, EscalationDecays, loginVars
  <2>2. QED
    BY <1>0, <2>1
<1>2. hasTtl' \in {hasTtl, FALSE, failures > 0} /\ locked' \in {locked, TRUE, FALSE}
  BY DEF LoginNext, Check, Compare, Incr, Expire, ReadLevel, Lock, ClearFailures,
         Escalate, Success, FailOpen, LockExpires, WindowPasses, EscalationDecays, loginVars
<1>3. hasTtl' \in BOOLEAN /\ locked' \in BOOLEAN
  <2>1. (failures > 0) \in BOOLEAN /\ hasTtl \in BOOLEAN /\ locked \in BOOLEAN
    BY DEF LoginMarks, LoginShape
  <2>2. QED
    BY <1>2, <2>1
<1>4. level' \in 0 .. 2
  <2>1. ASSUME NEW a \in Attempts, Escalate(a) PROVE level' \in 0 .. 2
    <3>1. attempt[a].level \in 0 .. 2
      BY DEF LoginMarks
    <3>2. QED
      BY <2>1, <3>1 DEF Escalate, Escalated, Least
  <2>2. level' = level \/ level' = 0 \/ \E a \in Attempts : Escalate(a)
    BY DEF LoginNext, Check, Compare, Incr, Expire, ReadLevel, Lock, ClearFailures,
           Success, FailOpen, LockExpires, WindowPasses, EscalationDecays, loginVars
  <2>3. QED
    BY <1>0, <2>1, <2>2
<1>5. failures' \in 0 .. MaxCount
  BY <1>1, Sizes, ThresholdAssumption DEF LoginShape, FewGuesses, MaxCount
<1> DEFINE N == [at : Steps, count : 0 .. MaxCount, level : 0 .. 2]
<1>6. ASSUME NEW a \in Attempts, NEW n \in N, attempt' = [attempt EXCEPT ![a] = n]
      PROVE  attempt' \in [Attempts -> N]
  BY <1>6 DEF LoginMarks
<1>7. attempt' \in [Attempts -> N]
  <2>1. \A a \in Attempts : attempt[a] \in N
    BY DEF LoginMarks
  <2>2. NoAttempt \in N
    BY Sizes, ThresholdAssumption DEF NoAttempt, Steps, MaxCount
  <2>3. ASSUME NEW a \in Attempts, NEW step \in Steps, Then(a, step)
        PROVE  attempt' \in [Attempts -> N]
    <3>1. [attempt[a] EXCEPT !.at = step] \in N
      BY <2>1
    <3>2. attempt' = [attempt EXCEPT ![a] = [attempt[a] EXCEPT !.at = step]]
      BY <2>3 DEF Then, LoginMarks
    <3>3. QED
      BY <1>6, <3>1, <3>2
  <2>4. ASSUME NEW a \in Attempts, Done(a) PROVE attempt' \in [Attempts -> N]
    BY <1>6, <2>2, <2>4 DEF Done
  <2>5. ASSUME NEW a \in Attempts, Incr(a) PROVE attempt' \in [Attempts -> N]
    <3> DEFINE n == [attempt[a] EXCEPT !.at = AfterIncr(failures + 1), !.count = failures + 1]
    <3>1. n \in N
      BY <1>5, <2>1, <2>5 DEF AfterIncr, Steps, Incr
    <3>2. QED
      BY <1>6, <2>5, <3>1 DEF Incr
  <2>6. ASSUME NEW a \in Attempts, ReadLevel(a) PROVE attempt' \in [Attempts -> N]
    <3>1. [attempt[a] EXCEPT !.at = "lock", !.level = level] \in N
      BY <1>0, <2>1 DEF Steps
    <3>2. QED
      BY <1>6, <2>4, <2>6, <3>1 DEF ReadLevel
  <2>7. UNCHANGED attempt => attempt' \in [Attempts -> N]
    BY DEF LoginMarks
  <2> HIDE DEF N
  <2>8. QED
    BY <2>3, <2>4, <2>5, <2>6, <2>7
       DEF LoginNext, Check, Compare, Expire, Lock, ClearFailures, Escalate, Success, FailOpen,
           LockExpires, WindowPasses, EscalationDecays, loginVars, Steps
<1>8. QED
  BY <1>1, <1>3, <1>4, <1>7 DEF LoginMarks

\* Every variable of every component, whichever of them the behaviour began in.
Kinds ==
    /\ WebTypeOK /\ PhoneTypeOK
    /\ LoginShape /\ GuessInv /\ LoginMarks
    /\ ChatShape /\ ChatTypeOK

LEMMA KindsStart == Init => Kinds
<1> SUFFICES ASSUME Init PROVE Kinds
  OBVIOUS
<1>1. WebTypeOK
  <2>1. WebShape
    BY WebStart, AuthStart DEF Init, WebRests, WebShape
  <2>2. aged \in BOOLEAN /\ asked \in BOOLEAN /\ mislaid = {}
    BY DEF Init, WebInit, WebRests
  <2>3. webFaults \in 0 .. MaxWebFaults
    BY WebBoundAssumption DEF Init, WebInit, WebRests
  <2>4. WebMarks
    BY <2>2, <2>3 DEF WebMarks
  <2>5. QED
    BY <2>1, <2>4, WebTypeParts
<1>2. PhoneTypeOK
  <2>1. PhoneShape
    BY PhoneStart DEF Init
  <2>2. stale = {} /\ opened = {} /\ user = None /\ orphaned \in BOOLEAN
    BY DEF Init, PhoneInit
  <2>3. phoneFaults \in 0 .. MaxPhoneFaults
    BY PhoneBoundAssumption DEF Init, PhoneInit
  <2>4. PhoneMarks
    BY <2>2, <2>3 DEF PhoneMarks
  <2>5. QED
    BY <2>1, <2>4, PhoneTypeParts
<1>3. LoginMarks
  <2>1. LoginInit /\ MaxCount \in Nat
    BY Sizes, ThresholdAssumption DEF Init, MaxCount
  <2>2. NoAttempt \in [at : Steps, count : 0 .. MaxCount, level : 0 .. 2]
    BY <2>1 DEF NoAttempt, Steps
  <2>3. attempt \in [Attempts -> [at : Steps, count : 0 .. MaxCount, level : 0 .. 2]]
    BY <2>1, <2>2 DEF LoginInit
  <2>4. level \in 0 .. 2 /\ outages \in 0 .. MaxOutages
    BY <2>1, ThresholdAssumption DEF LoginInit
  <2>5. hasTtl \in BOOLEAN /\ locked \in BOOLEAN
    BY <2>1 DEF LoginInit
  <2>6. QED
    BY <2>3, <2>4, <2>5 DEF LoginMarks
<1>4. QED
  BY <1>1, <1>2, <1>3, ShapeInit, GuessStart, ChatStart, ChatTypes DEF Init, Kinds

LEMMA KindsStep ==
    Kinds /\ [Next]_<<component, webVars, phoneOnly, loginVars, chatVars>> => Kinds'
<1> SUFFICES ASSUME Kinds, [Next]_<<component, webVars, phoneOnly, loginVars, chatVars>>
             PROVE  Kinds'
  OBVIOUS
<1>1. UNCHANGED <<authVars, webOnly>> => UNCHANGED webVars
  BY DEF authVars, webOnly, webVars
<1>2. ASSUME [WebNext]_webVars PROVE WebTypeOK'
  <2>1. WebShape /\ WebMarks
    BY WebTypeParts DEF Kinds
  <2>2. WebShape'
    BY <1>2, <2>1, WebStep
  <2>3. WebMarks'
    BY <1>2, <2>1, WebMarksStep
  <2>4. QED
    BY <2>2, <2>3, WebTypeParts, PTL
<1>3. ASSUME [PhoneNext]_phoneVars PROVE PhoneTypeOK'
  <2>1. PhoneShape /\ PhoneMarks
    BY PhoneTypeParts DEF Kinds
  <2>2. PhoneShape'
    BY <1>3, <2>1, PhoneStep
  <2>3. PhoneMarks'
    BY <1>3, <2>1, PhoneMarksStep
  <2>4. QED
    BY <2>2, <2>3, PhoneTypeParts, PTL
<1>4. ASSUME [LoginNext]_loginVars PROVE LoginShape' /\ GuessInv' /\ LoginMarks'
  <2>1. LoginShape' /\ GuessInv'
    BY <1>4, ShapeStep, GuessStep DEF Kinds
  <2>2. FewGuesses'
    BY <2>1, LoginBounds, PTL
  <2>3. LoginMarks'
    BY <1>4, <2>1, <2>2, LoginMarksStep DEF Kinds
  <2>4. QED
    BY <2>1, <2>3
<1>5. [ChatNext]_chatVars => ChatShape' /\ ChatTypeOK'
  BY ChatShapeStep, ChatTypesStep DEF Kinds
\* The browser and the phone share the sessions of the backend and their calls.
<1>6. AuthTypeOK' /\ UNCHANGED webOnly => WebTypeOK'
  BY DEF Kinds, WebTypeOK, webOnly
<1>7. AuthTypeOK' /\ UNCHANGED phoneOnly => PhoneTypeOK'
  BY DEF Kinds, PhoneTypeOK, phoneOnly
<1>8. CASE WebMoves
  BY <1>2, <1>4, <1>5, <1>7, <1>8 DEF WebMoves, Kinds, WebTypeOK
<1>9. CASE PhoneMoves
  BY <1>3, <1>4, <1>5, <1>6, <1>9 DEF PhoneMoves, Kinds, PhoneTypeOK
<1>10. CASE \/ LoginMoves \/ ChatMoves
            \/ UNCHANGED <<component, webVars, phoneOnly, loginVars, chatVars>>
  <2>1. UNCHANGED <<authVars, webOnly, phoneOnly>>
    BY <1>10 DEF LoginMoves, ChatMoves, webVars, authVars, webOnly
  <2>2. AuthTypeOK'
    BY <2>1 DEF Kinds, WebTypeOK, AuthTypeOK, authVars
  <2>3. QED
    BY <1>4, <1>5, <1>6, <1>7, <1>10, <2>1, <2>2 DEF LoginMoves, ChatMoves, Kinds
<1>11. QED
  BY <1>8, <1>9, <1>10 DEF Next

\* The variables of the sign-in, the clients and the transcript keep their types, and with
\* them their counters their bounds: the escalation of a lock has a highest level, a page
\* of the transcript exists.
THEOREM ClientTypesHold == Spec => []TypesOK
<1>1. Kinds => TypesOK
  BY LoginTypeParts DEF Kinds, TypesOK
<1>2. QED
  BY <1>1, KindsStart, KindsStep, PTL DEF Spec
===============================================================================
