------------------------------ MODULE WebSession ------------------------------
(***************************************************************************)
(* One browser signed in to the web app: its cookies, the Next.js process  *)
(* that refreshes on its behalf (lib/auth/refresh.ts), and the proxy and   *)
(* the renders of its tabs.                                                *)
(*                                                                         *)
(* A call of a render is answered within the minute for which a rotation   *)
(* is remembered, and a request is over before an access token ages.  The  *)
(* call by which a sign-out revokes the session needs no refresh.          *)
(***************************************************************************)
EXTENDS AuthSessions

CONSTANTS
    Tabs,
    MaxWebFaults,   \* bound on lost answers, responses and processes
    Keep, Drop      \* what a response does to the cookies, other than set them

ASSUME WebBoundAssumption == MaxWebFaults \in Nat
ASSUME ResponseAssumption == {Keep, Drop} \cap Token = {} /\ Keep # Drop

VARIABLES
    cookie,     \* the refresh cookie, or None: signed out
    memory,     \* rotated: the pair that answers for the one it replaced
    inflight,   \* the call concurrent callers join
    pending,    \* calls whose answer the process still waits for
    tab,
    aged,       \* the access token of the newest pair has expired
    asked,      \* the user signed out, or the session ran out (observation)
    mislaid,    \* how a rotated pair failed to reach the browser (observation)
    webFaults

webVars == <<sessions, calls, cookie, memory, inflight, pending, tab, aged,
             asked, mislaid, webFaults>>

Closed == [at |-> "closed"]

WebTypeOK ==
    /\ AuthTypeOK
    /\ {cookie, memory} \subseteq Token \cup {None}
    /\ inflight \in Calls \cup {None}
    /\ pending \subseteq Calls
    /\ tab \in [Tabs -> {Closed} \cup
          [at : {"proxy", "render", "retry", "respond"}, token : Token,
           call : Calls \cup {None}, set : Token \cup {Keep, Drop}]]
    /\ aged \in BOOLEAN /\ asked \in BOOLEAN
    /\ mislaid \subseteq {"answer", "restart", "browser", "render"}
    /\ webFaults \in 0 .. MaxWebFaults

WebInit ==
    /\ AuthInit
    /\ \E s \in Sessions : cookie = First(s)
    /\ memory = None /\ inflight = None /\ pending = {}
    /\ tab = [t \in Tabs |-> Closed]
    /\ aged = FALSE /\ asked = FALSE /\ mislaid = {} /\ webFaults = 0

WebFault == webFaults < MaxWebFaults /\ webFaults' = webFaults + 1

-----------------------------------------------------------------------------
Show(t, state) == tab' = [tab EXCEPT ![t] = state]
NeedsRefresh(token) == aged \/ token # Newest(token.session)

\* Mutant: rotations are not remembered.
Behind_Never(token) == FALSE

\* The caller holds an older pair than the one remembered.
Behind(token) == memory # None /\ memory # token

\* refreshSession: the remembered pair, the call under way, or a call.
Refresh(t, token, waiting, done) ==
    \/ Behind(token) /\ Show(t, done) /\ UNCHANGED <<calls, inflight, pending>>
    \/ /\ ~Behind(token) /\ inflight # None
       /\ Show(t, [waiting EXCEPT !.call = inflight])
       /\ UNCHANGED <<calls, inflight, pending>>
    \/ /\ ~Behind(token) /\ inflight = None
       /\ \E c \in Calls : /\ SendRefresh(c, token)
                           /\ inflight' = c /\ pending' = pending \cup {c}
                           /\ Show(t, [waiting EXCEPT !.call = c])

Request(at, token, set) == [at |-> at, token |-> token, call |-> None, set |-> set]

\* The Set-Cookie of the proxy's response.
Persisted(token) == token

\* proxy.
Navigate(t) ==
    /\ tab[t] = Closed /\ cookie # None
    /\ IF NeedsRefresh(cookie)
       THEN Refresh(t, cookie, Request("proxy", cookie, Keep),
                    Request("render", memory, Persisted(memory)))
       ELSE Show(t, Request("render", cookie, Keep)) /\ UNCHANGED <<calls, inflight, pending>>
    /\ UNCHANGED <<sessions, cookie, memory, aged, asked, mislaid, webFaults>>

\* apiFetch of a page or an action: an expired access token is refreshed once.
Render(t) ==
    /\ tab[t].at = "render"
    /\ IF NeedsRefresh(tab[t].token)
       THEN \E set \in {tab[t].set} \cup ({memory} \ {None}) :
               Refresh(t, tab[t].token, [tab[t] EXCEPT !.at = "retry"],
                       [tab[t] EXCEPT !.at = "respond", !.set = set])
       ELSE Show(t, [tab[t] EXCEPT !.at = "respond"]) /\ UNCHANGED <<calls, inflight, pending>>
    /\ UNCHANGED <<sessions, cookie, memory, aged, asked, mislaid, webFaults>>

\* A server action can write cookies, the render of a page cannot.
Continued(request, token, writable) ==
    IF request.at = "proxy" THEN Request("render", token, Persisted(token))
    ELSE [request EXCEPT !.at = "respond", !.call = None,
                         !.set = IF writable THEN token ELSE request.set]

\* Every caller that awaits the call gets its pair.
ReceivePair(c) ==
    /\ c \in pending /\ calls[c].at = "answered" /\ calls[c].answer # None
    /\ LET token == calls[c].answer
           awaiting == {t \in Tabs : tab[t] # Closed /\ tab[t].call = c}
           retrying == {t \in awaiting : tab[t].at = "retry"}
       IN  /\ memory' = token
           /\ \E writable \in BOOLEAN :
                /\ tab' = [t \in Tabs |-> IF t \in awaiting
                                          THEN Continued(tab[t], token, writable) ELSE tab[t]]
                /\ mislaid' = IF retrying # {} /\ ~writable
                              THEN mislaid \cup {"render"} ELSE mislaid
    /\ inflight' = None /\ pending' = pending \ {c}
    /\ Set(c, NotMade)
    /\ UNCHANGED <<sessions, cookie, aged, asked, webFaults>>

\* The proxy signs out, a render shows its 401.
Denied(request) ==
    [request EXCEPT !.at = "respond", !.call = None,
                    !.set = IF request.at = "proxy" THEN Drop ELSE request.set]

ReceiveRefusal(c) ==
    /\ c \in pending /\ calls[c].at = "answered" /\ calls[c].answer = None
    /\ tab' = [t \in Tabs |-> IF tab[t] # Closed /\ tab[t].call = c
                              THEN Denied(tab[t]) ELSE tab[t]]
    /\ inflight' = None /\ pending' = pending \ {c}
    /\ Set(c, NotMade)
    /\ UNCHANGED <<sessions, cookie, memory, aged, asked, mislaid, webFaults>>

\* The network fails: the proxy lets the request through, a render shows its
\* 401.  The call may have reached the API, which then carries on alone.
Unreachable(request) ==
    [request EXCEPT !.at = IF request.at = "proxy" THEN "render" ELSE "respond",
                    !.call = None]

Blip(c) ==
    /\ c \in pending
    /\ WebFault
    /\ \/ calls[c].at = "sent" /\ Set(c, NotMade) /\ UNCHANGED mislaid
       \/ mislaid' = mislaid \cup {"answer"} /\ UNCHANGED calls
    /\ tab' = [t \in Tabs |-> IF tab[t] # Closed /\ tab[t].call = c
                              THEN Unreachable(tab[t]) ELSE tab[t]]
    /\ inflight' = None /\ pending' = pending \ {c}
    /\ UNCHANGED <<sessions, cookie, memory, aged, asked>>

Respond(t) ==
    /\ tab[t].at = "respond"
    /\ \/ /\ cookie' = CASE tab[t].set = Keep -> cookie
                         [] tab[t].set = Drop -> None
                         [] OTHER -> tab[t].set
          /\ UNCHANGED <<mislaid, webFaults>>
       \/ /\ WebFault
          /\ mislaid' = mislaid \cup {"browser"} /\ UNCHANGED cookie
    /\ Show(t, Closed)
    /\ UNCHANGED <<sessions, calls, memory, inflight, pending, aged, asked>>

\* logoutAction: the revocation may fail, the rest does not.
LogOut(t) ==
    /\ tab[t] = Closed /\ cookie # None
    /\ \/ Revoke(cookie.session) /\ UNCHANGED webFaults
       \/ WebFault /\ UNCHANGED sessions
    /\ cookie' = None /\ memory' = None /\ inflight' = None
    /\ asked' = TRUE
    /\ UNCHANGED <<calls, pending, tab, aged, mislaid>>

\* A call nobody waits for is answered into the void.
DropAnswer(c) ==
    /\ calls[c].at = "answered" /\ c \notin pending
    /\ Set(c, NotMade)
    /\ UNCHANGED <<sessions, cookie, memory, inflight, pending, tab, aged, asked,
                   mislaid, webFaults>>

\* The Next.js process restarts.
Restart ==
    /\ WebFault
    /\ memory' = None /\ inflight' = None /\ pending' = {}
    /\ tab' = [t \in Tabs |-> Closed]
    /\ mislaid' = IF \E t \in Tabs : tab[t] # Closed THEN mislaid \cup {"restart"} ELSE mislaid
    /\ UNCHANGED <<sessions, calls, cookie, aged, asked>>

Still == \A t \in Tabs : tab[t] = Closed

\* ROTATION_MEMORY_MS passes.
MemoryExpires ==
    /\ Still /\ memory # None
    /\ memory' = None
    /\ UNCHANGED <<sessions, calls, cookie, inflight, pending, tab, aged, asked,
                   mislaid, webFaults>>

AccessTokenExpires ==
    /\ Still /\ memory = None /\ pending = {} /\ ~aged
    /\ cookie # None /\ sessions[cookie.session].hash < MaxSecret
    /\ aged' = TRUE
    /\ UNCHANGED <<sessions, calls, cookie, memory, inflight, pending, tab, asked,
                   mislaid, webFaults>>

WebServe(c) ==
    /\ ServeRefresh(c)
    /\ aged' = (aged /\ ~\E s \in Sessions : Exchanged(s))
    /\ UNCHANGED <<cookie, memory, inflight, pending, tab, asked, mislaid, webFaults>>

WebSessionEnds ==
    /\ cookie # None
    /\ SessionExpires(cookie.session)
    /\ asked' = TRUE
    /\ UNCHANGED <<calls, cookie, memory, inflight, pending, tab, aged, mislaid, webFaults>>

WebNext ==
    \/ \E t \in Tabs : Navigate(t) \/ Render(t) \/ Respond(t) \/ LogOut(t)
    \/ \E c \in Calls : WebServe(c) \/ ReceivePair(c) \/ ReceiveRefusal(c)
                          \/ Blip(c) \/ DropAnswer(c)
    \/ Restart \/ MemoryExpires \/ AccessTokenExpires \/ WebSessionEnds

WebSpec == WebInit /\ [][WebNext]_webVars
-----------------------------------------------------------------------------
(* Properties.                                                             *)

\* Concurrent tabs never sign their user out: a user who did not ask for it is
\* signed out only if a rotated pair failed to reach the browser.
SignOutExplained == cookie = None /\ ~asked => mislaid # {}
===============================================================================
