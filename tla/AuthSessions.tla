----------------------------- MODULE AuthSessions -----------------------------
(***************************************************************************)
(* The sessions of the backend (auth-session.service.ts) and the calls to  *)
(* POST /auth/refresh.  A call reads the row, decides, and writes with the *)
(* hash it read as condition.  Secrets are numbered in the order they are  *)
(* minted.  WebSession and MobileSession are the two callers.              *)
(***************************************************************************)
EXTENDS Absence, Naturals, FiniteSets

CONSTANTS
    Sessions,       \* ids of sign-ins
    Calls,          \* calls of /auth/refresh that can be under way at once
    MaxSecret       \* bound on rotations of a session

VARIABLES
    sessions,       \* auth_sessions
    calls           \* each call: not made, sent, past its read, or answered with
                    \* a pair or, None, a refusal

authVars == <<sessions, calls>>

Secrets == 0 .. MaxSecret
Token == [session : Sessions, secret : Secrets]
ASSUME BoundAssumption == MaxSecret \in Nat
ASSUME MarkAssumption == None \notin Token \cup Sessions \cup Calls \cup Secrets

Row == [hash : Secrets, previous : Secrets \cup {None}, revoked : BOOLEAN, expired : BOOLEAN]

NotMade == [at |-> "none"]
Call == {NotMade} \cup
        [at : {"sent"}, token : Token] \cup
        [at : {"found"}, token : Token, seen : Row] \cup
        [at : {"answered"}, answer : Token \cup {None}]

AuthTypeOK ==
    /\ sessions \in [Sessions -> Row]
    /\ calls \in [Calls -> Call]

\* createSession.
NewRow == [hash |-> 0, previous |-> None, revoked |-> FALSE, expired |-> FALSE]
First(s) == [session |-> s, secret |-> 0]
Newest(s) == [session |-> s, secret |-> sessions[s].hash]

AuthInit ==
    /\ sessions = [s \in Sessions |-> NewRow]
    /\ calls = [c \in Calls |-> NotMade]

Set(c, call) == calls' = [calls EXCEPT ![c] = call]
Answer(c, a) == Set(c, [at |-> "answered", answer |-> a])

SendRefresh(c, token) ==
    /\ calls[c] = NotMade
    /\ Set(c, [at |-> "sent", token |-> token])

FindSession(c) ==
    /\ calls[c].at = "sent"
    /\ Set(c, [at |-> "found", token |-> calls[c].token,
               seen |-> sessions[calls[c].token.session]])
    /\ UNCHANGED sessions

MatchesCurrent(call) == call.token.secret = call.seen.hash
MatchesPrevious(call) == ~MatchesCurrent(call) /\ call.token.secret = call.seen.previous

Revoke(s) == sessions' = [sessions EXCEPT ![s].revoked = TRUE]

\* A replay of a rotated token ends the session.
RejectReuse(c) ==
    /\ calls[c].at = "found" /\ MatchesPrevious(calls[c])
    /\ IF calls[c].seen.revoked THEN UNCHANGED sessions
                                ELSE Revoke(calls[c].token.session)
    /\ Answer(c, None)

Reject(c) ==
    /\ calls[c].at = "found" /\ ~MatchesPrevious(calls[c])
    /\ ~MatchesCurrent(calls[c]) \/ calls[c].seen.revoked \/ calls[c].seen.expired
    /\ Answer(c, None)
    /\ UNCHANGED sessions

\* Mutant: the update asks for the id only.
Unrotated_Any(row, seen) == TRUE

\* The condition of the guarded update.
Unrotated(row, seen) == row.hash = seen.hash /\ ~row.revoked

Rotate(c) ==
    LET call == calls[c]
        s == call.token.session
        row == sessions[s]
    IN  /\ call.at = "found" /\ MatchesCurrent(call)
        /\ ~call.seen.revoked /\ ~call.seen.expired
        /\ row.hash < MaxSecret
        /\ IF Unrotated(row, call.seen)
           THEN /\ sessions' = [sessions EXCEPT ![s] =
                      [row EXCEPT !.hash = row.hash + 1, !.previous = call.seen.hash]]
                /\ Answer(c, [session |-> s, secret |-> row.hash + 1])
           ELSE Answer(c, None) /\ UNCHANGED sessions

ServeRefresh(c) == FindSession(c) \/ RejectReuse(c) \/ Reject(c) \/ Rotate(c)

\* The absolute expiry passes.
SessionExpires(s) ==
    /\ ~sessions[s].expired
    /\ sessions' = [sessions EXCEPT ![s].expired = TRUE]

Exchanged(s) == sessions'[s].hash # sessions[s].hash

\* A secret is exchanged for one successor at most, and never once its session
\* was revoked, whatever calls race: the secrets of a session form a chain.
ChainIsLinear ==
    [][\A s \in Sessions : Exchanged(s) =>
          sessions'[s].previous = sessions[s].hash /\ ~sessions[s].revoked]_authVars
===============================================================================
