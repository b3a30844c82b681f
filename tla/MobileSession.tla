----------------------------- MODULE MobileSession -----------------------------
(***************************************************************************)
(* The session of the mobile app (lib/api/client.ts, lib/auth/session.ts): *)
(* tokens in memory and in the keychain, and one refresh that concurrent   *)
(* requests share.  The phone passes from one account to another.          *)
(***************************************************************************)
EXTENDS AuthSessions

CONSTANTS
    Fetches,        \* requests of screens, and of the sign-out
    MaxPhoneFaults

ASSUME PhoneBoundAssumption == MaxPhoneFaults \in Nat

VARIABLES
    tokens,         \* memoryTokens
    keychain,
    flight,         \* refreshInFlight
    awaited,        \* calls whose answer the app still waits for
    saving,         \* a pair on its way to the keychain
    fetch,
    stale,          \* sessions whose newest access token has expired
    user,           \* the session the person holding the phone believes in
    opened,         \* sign-ins made so far
    orphaned,       \* a session ended while its refresh was under way (observation)
    phoneFaults

phoneVars == <<sessions, calls, tokens, keychain, flight, awaited, saving, fetch,
               stale, user, opened, orphaned, phoneFaults>>

Quit == [at |-> "closed"]

PhoneTypeOK ==
    /\ AuthTypeOK
    /\ {tokens, keychain, saving} \subseteq Token \cup {None}
    /\ flight \in Calls \cup {None}
    /\ awaited \subseteq Calls
    /\ fetch \in [Fetches -> {Quit} \cup
          [at : {"sent", "wait", "replay"}, logout : BOOLEAN, token : Token \cup {None},
           call : Calls \cup {None}]]
    /\ stale \subseteq Sessions /\ opened \subseteq Sessions
    /\ user \in Sessions \cup {None}
    /\ orphaned \in BOOLEAN
    /\ phoneFaults \in 0 .. MaxPhoneFaults

PhoneInit ==
    /\ AuthInit
    /\ tokens = None /\ keychain = None /\ saving = None
    /\ flight = None /\ awaited = {}
    /\ fetch = [q \in Fetches |-> Quit]
    /\ stale = {} /\ opened = {}
    /\ user = None /\ orphaned = FALSE /\ phoneFaults = 0

PhoneFault == phoneFaults < MaxPhoneFaults /\ phoneFaults' = phoneFaults + 1

-----------------------------------------------------------------------------
\* login: setSession of a new pair.
SignIn(s) ==
    /\ user = None /\ s \notin opened
    /\ \A q \in Fetches : fetch[q] # Quit => ~fetch[q].logout
    /\ tokens' = First(s) /\ keychain' = First(s)
    /\ user' = s /\ opened' = opened \cup {s}
    /\ saving' = None
    /\ UNCHANGED <<sessions, calls, flight, awaited, fetch, stale, orphaned, phoneFaults>>

\* A screen asks for data, or the person signs out.
Send(q, logout) ==
    /\ fetch[q] = Quit /\ tokens # None /\ user # None
    /\ fetch' = [fetch EXCEPT ![q] = [at |-> "sent", logout |-> logout,
                                      token |-> tokens, call |-> None]]
    /\ UNCHANGED <<sessions, calls, tokens, keychain, flight, awaited, saving, stale,
                   user, opened, orphaned, phoneFaults>>

Waits(q) == fetch[q] # Quit /\ fetch[q].at = "wait"

\* endSession, after which these requests are over.
EndSession(over) ==
    /\ tokens' = None /\ keychain' = None /\ saving' = None /\ flight' = None
    /\ fetch' = [q \in Fetches |-> IF q \in over THEN Quit ELSE fetch[q]]
    /\ orphaned' = (orphaned \/ awaited' # {} \/ \E q \in Fetches \ over : Waits(q))

\* With a sign-out among the requests that are over, the person has left.
Leaves(over) == user' = IF \E q \in over : fetch[q].logout THEN None ELSE user

\* Mutant: a sign-out leaves the tokens where they are.
Clears_Never(q) == FALSE

\* logout catches every failure and clears the device.
Clears(q) == fetch[q].logout

Over(q) ==
    /\ IF Clears(q)
       THEN EndSession({q})
       ELSE /\ fetch' = [fetch EXCEPT ![q] = Quit]
            /\ UNCHANGED <<tokens, keychain, saving, flight, orphaned>>
    /\ Leaves({q})

\* The server takes the access token that is sent, if one is.
Valid(token) ==
    token # None /\ token = Newest(token.session) /\ token.session \notin stale

Accepted(q) ==
    /\ fetch[q].at \in {"sent", "replay"} /\ Valid(fetch[q].token)
    /\ awaited' = awaited
    /\ IF fetch[q].logout THEN Revoke(fetch[q].token.session) ELSE UNCHANGED sessions
    /\ Over(q)
    /\ UNCHANGED <<calls, stale, opened, phoneFaults>>

\* No answer within REQUEST_TIMEOUT_MS, or no network.
FetchFails(q) ==
    /\ fetch[q].at \in {"sent", "replay"}
    /\ PhoneFault
    /\ awaited' = awaited
    /\ Over(q)
    /\ UNCHANGED <<sessions, calls, stale, opened>>

\* Mutant: every caller refreshes for itself.
Shared_Never == None

\* The refresh concurrent callers join.
Shared == flight

\* 401: join the refresh under way, or start one.
Unauthorized(q) ==
    /\ fetch[q].at = "sent" /\ ~Valid(fetch[q].token)
    /\ IF Shared # None
       THEN /\ fetch' = [fetch EXCEPT ![q].at = "wait", ![q].call = Shared]
            /\ UNCHANGED <<calls, tokens, keychain, saving, flight, awaited, orphaned, user>>
       ELSE IF tokens = None
       THEN awaited' = awaited /\ EndSession({q}) /\ Leaves({q}) /\ UNCHANGED calls
       ELSE /\ \E c \in Calls :
                  /\ SendRefresh(c, tokens)
                  /\ fetch' = [fetch EXCEPT ![q].at = "wait", ![q].call = c]
                  /\ flight' = c /\ awaited' = awaited \cup {c}
            /\ UNCHANGED <<tokens, keychain, saving, orphaned, user>>
    /\ UNCHANGED <<sessions, stale, opened, phoneFaults>>

\* The one replay met 401 again.
Rejected(q) ==
    /\ fetch[q].at = "replay" /\ ~Valid(fetch[q].token)
    /\ awaited' = awaited
    /\ Over(q)
    /\ UNCHANGED <<sessions, calls, stale, opened, phoneFaults>>

\* setSession of the refreshed pair: memory now, the keychain later.
ReceiveTokens(c) ==
    /\ c \in awaited /\ calls[c].at = "answered" /\ calls[c].answer # None
    /\ tokens' = calls[c].answer /\ saving' = calls[c].answer
    /\ awaited' = awaited \ {c}
    /\ UNCHANGED <<sessions, calls, keychain, flight, fetch, stale, user, opened, orphaned,
                   phoneFaults>>

Save ==
    /\ saving # None
    /\ keychain' = saving /\ saving' = None
    /\ UNCHANGED <<sessions, calls, tokens, flight, awaited, fetch, stale, user, opened,
                   orphaned, phoneFaults>>

Joined(c) == {q \in Fetches : Waits(q) /\ fetch[q].call = c}
Received(c) == c \notin awaited /\ Joined(c) # {}

\* The pair is written: the callers repeat their requests with the tokens of now.
Resume(c) ==
    /\ Received(c) /\ saving # calls[c].answer
    /\ fetch' = [q \in Fetches |->
          IF q \in Joined(c)
          THEN [fetch[q] EXCEPT !.at = "replay", !.call = None, !.token = tokens]
          ELSE fetch[q]]
    /\ flight' = None
    /\ Set(c, NotMade)
    /\ UNCHANGED <<sessions, tokens, keychain, awaited, saving, stale, user, opened,
                   orphaned, phoneFaults>>

\* The refresh is refused, or its call or the keychain fails: every caller that
\* awaits it ends the session.
RefreshFails(c) ==
    /\ \/ /\ c \in awaited /\ calls[c].at = "answered" /\ calls[c].answer = None
          /\ Set(c, NotMade) /\ UNCHANGED phoneFaults
       \/ /\ c \in awaited \/ (Received(c) /\ saving = calls[c].answer)
          /\ PhoneFault
          /\ IF c \in awaited /\ calls[c].at # "sent"
             THEN UNCHANGED calls ELSE Set(c, NotMade)
    /\ awaited' = awaited \ {c}
    /\ EndSession(Joined(c)) /\ Leaves(Joined(c))
    /\ UNCHANGED <<sessions, stale, opened>>

\* The app is killed and launched again: restoreSession.
Relaunch ==
    /\ PhoneFault
    /\ tokens' = keychain /\ saving' = None
    /\ flight' = None /\ awaited' = {}
    /\ fetch' = [q \in Fetches |-> Quit]
    /\ UNCHANGED <<sessions, calls, keychain, stale, user, opened, orphaned>>

DropTokens(c) ==
    /\ calls[c].at = "answered" /\ c \notin awaited /\ ~Received(c)
    /\ Set(c, NotMade)
    /\ UNCHANGED <<sessions, tokens, keychain, flight, awaited, saving, fetch, stale, user,
                   opened, orphaned, phoneFaults>>

AccessExpires(s) ==
    /\ s \in opened \ stale /\ sessions[s].hash < MaxSecret
    /\ stale' = stale \cup {s}
    /\ UNCHANGED <<sessions, calls, tokens, keychain, flight, awaited, saving, fetch, user,
                   opened, orphaned, phoneFaults>>

PhoneServe(c) ==
    /\ ServeRefresh(c)
    /\ stale' = {s \in stale : ~Exchanged(s)}
    /\ UNCHANGED <<tokens, keychain, flight, awaited, saving, fetch, user, opened, orphaned,
                   phoneFaults>>

PhoneNext ==
    \/ \E s \in Sessions : SignIn(s) \/ AccessExpires(s)
    \/ \E q \in Fetches : \/ \E logout \in BOOLEAN : Send(q, logout)
                          \/ Accepted(q) \/ FetchFails(q) \/ Unauthorized(q) \/ Rejected(q)
    \/ \E c \in Calls : PhoneServe(c) \/ ReceiveTokens(c) \/ Resume(c)
                          \/ RefreshFails(c) \/ DropTokens(c)
    \/ Save \/ Relaunch

PhoneSpec == PhoneInit /\ [][PhoneNext]_phoneVars
-----------------------------------------------------------------------------
(* Properties.                                                             *)

\* The phone holds the tokens of the person who signed in on it, or none, unless
\* a session ended on it while a refresh of that session was under way.
TokensAreOfTheUser ==
    tokens # None /\ ~orphaned => user # None /\ tokens.session = user

\* Requests that meet an expired access token together never sign the person
\* out: it takes a failed call, the app being killed, or such an earlier session.
PhoneSignOutExplained ==
    user # None /\ tokens = None => phoneFaults > 0 \/ orphaned
===============================================================================
