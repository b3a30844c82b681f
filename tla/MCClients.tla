------------------------------- MODULE MCClients -------------------------------
(***************************************************************************)
(* How a person stays signed in and reads a chat, for TLC: four components *)
(* that share no state, in one run.  A behaviour begins in one of them and *)
(* stays there while the others rest in an initial state, so that what is  *)
(* checked of each is what a run of its own would check.                   *)
(***************************************************************************)
EXTENDS WebSession, MobileSession, LoginAttempts, ChatTranscript, TLC

VARIABLE component

webOnly == <<cookie, memory, inflight, pending, tab, aged, asked, mislaid, webFaults>>
phoneOnly == <<tokens, keychain, flight, awaited, saving, fetch, stale, user, opened,
               orphaned, phoneFaults>>

\* The browser rests signed out.
WebRests ==
    /\ AuthInit
    /\ cookie = None /\ memory = None /\ inflight = None /\ pending = {}
    /\ tab = [t \in Tabs |-> Closed]
    /\ aged = FALSE /\ asked = TRUE /\ mislaid = {} /\ webFaults = 0

Init ==
    /\ component \in {"web", "phone", "login", "chat"}
    /\ IF component = "web" THEN WebInit ELSE WebRests
    /\ PhoneInit /\ LoginInit /\ ChatInit

WebMoves ==
    /\ component = "web" /\ WebNext
    /\ UNCHANGED <<component, phoneOnly, loginVars, chatVars>>

PhoneMoves ==
    /\ component = "phone" /\ PhoneNext
    /\ UNCHANGED <<component, webOnly, loginVars, chatVars>>

LoginMoves ==
    /\ component = "login" /\ LoginNext
    /\ UNCHANGED <<component, webOnly, phoneOnly, authVars, chatVars>>

ChatMoves ==
    /\ component = "chat" /\ ChatNext
    /\ UNCHANGED <<component, webOnly, phoneOnly, authVars, loginVars>>

Next == WebMoves \/ PhoneMoves \/ LoginMoves \/ ChatMoves

Spec == Init /\ [][Next]_<<component, webVars, phoneOnly, loginVars, chatVars>>

\* The type invariants of the components, and with them their counters stay
\* within their bounds: the escalation of a lock has a highest level.
TypesOK == WebTypeOK /\ PhoneTypeOK /\ LoginTypeOK /\ ChatTypeOK

\* The sets of these components take their values from three pairs.
Symmetry == Permutations(Sessions) \cup Permutations(Calls) \cup Permutations(Tabs)
===============================================================================
