----------------------------- MODULE ChatTranscript -----------------------------
(***************************************************************************)
(* The transcript of one conversation on a phone (lib/realtime/socket.ts,  *)
(* features/chat/messages.ts, ChatThread.tsx): the newest page as it was   *)
(* read, and what the socket and the answers to POSTs append to it, while  *)
(* the socket comes and goes.  A message is numbered in the order in which *)
(* chat.service.ts stores it.                                              *)
(***************************************************************************)
EXTENDS Absence, Integers, FiniteSets

CONSTANTS
    MaxMessages,        \* bound on messages
    PageSize,
    MaxDrops            \* bound on lost connections and failed reads

ASSUME ChatAssumption ==
    MaxMessages \in Nat /\ PageSize \in Nat \ {0} /\ MaxDrops \in Nat

VARIABLES
    said,               \* messages stored
    unsaid,             \* those whose event is not published yet
    replies,            \* those whose POST is not answered yet
    link,               \* the socket of the phone
    joined,             \* it is in the room of the conversation
    connectedOnce,      \* hadConnected
    events,             \* message.new on their way to the phone
    page,               \* the page the transcript begins with, None before the probe
    held,               \* messages of the transcript, None before the first read
    reading,            \* None, or a read that is asked for or answered
    excused,            \* messages that may be missing (observation)
    drops

chatVars == <<said, unsaid, replies, link, joined, connectedOnce, events, page, held,
              reading, excused, drops>>

Messages == 1 .. MaxMessages
Reading == [at : {"asked", "answered"}, found : SUBSET Messages]
Unanswered == [at |-> "asked", found |-> {}]
ASSUME MissingAssumption == None \notin Int \cup Reading /\ \A S \in SUBSET Messages : None # S

ChatTypeOK ==
    /\ said \in 0 .. MaxMessages
    /\ {unsaid, replies, events} \subseteq SUBSET Messages
    /\ link \in {"up", "down"} /\ joined \in BOOLEAN /\ connectedOnce \in BOOLEAN
    /\ page \in {None} \cup 1 .. MaxMessages + 1
    /\ held \in {None} \cup SUBSET Messages
    /\ reading \in {None} \cup Reading
    /\ excused \subseteq Messages
    /\ drops \in 0 .. MaxDrops

ChatInit ==
    /\ said = 0 /\ unsaid = {} /\ replies = {}
    /\ link = "down" /\ joined = FALSE /\ connectedOnce = FALSE /\ events = {}
    /\ page = None /\ held = None /\ reading = None
    /\ excused = {} /\ drops = 0

-----------------------------------------------------------------------------
(* The backend.                                                            *)

\* persistMessage, of the other party or of this phone.
StoreMessage ==
    /\ said < MaxMessages /\ said' = said + 1
    /\ unsaid' = unsaid \cup {said + 1}
    /\ replies' \in {replies, replies \cup {said + 1}}
    /\ UNCHANGED <<link, joined, connectedOnce, events, page, held, reading, excused, drops>>

\* message.new goes to the sockets in the room.  Missing it, a phone learns of
\* the message by the read that follows a reconnect, if there will be one.
PublishMessage(m) ==
    /\ m \in unsaid
    /\ unsaid' = unsaid \ {m}
    /\ events' = IF joined THEN events \cup {m} ELSE events
    /\ excused' = IF ~joined /\ (link = "up" \/ ~connectedOnce)
                  THEN excused \cup {m} ELSE excused
    /\ UNCHANGED <<said, replies, link, joined, connectedOnce, page, held, reading, drops>>

JoinRoom ==
    /\ link = "up" /\ ~joined
    /\ joined' = TRUE
    /\ UNCHANGED <<said, unsaid, replies, link, connectedOnce, events, page, held, reading,
                   excused, drops>>

-----------------------------------------------------------------------------
(* The phone.                                                              *)

LastPage == IF said = 0 THEN 1 ELSE (said + PageSize - 1) \div PageSize

\* messageBounds, and the first read of the transcript.
ProbeBounds ==
    /\ page = None
    /\ page' = LastPage /\ reading' = Unanswered
    /\ UNCHANGED <<said, unsaid, replies, link, joined, connectedOnce, events, held, excused,
                   drops>>

OfThePage(m) == m > (page - 1) * PageSize /\ m <= page * PageSize

ReadPage ==
    /\ reading # None /\ reading.at = "asked"
    /\ reading' = [at |-> "answered", found |-> {m \in 1 .. said : OfThePage(m)}]
    /\ UNCHANGED <<said, unsaid, replies, link, joined, connectedOnce, events, page, held,
                   excused, drops>>

\* The page replaces what was held.  Read again, an infinite query reads the
\* pages it has.
LandPage ==
    /\ reading # None /\ reading.at = "answered"
    /\ held' = reading.found /\ reading' = None
    /\ excused' = excused \cup {m \in 1 .. said : m > page * PageSize}
                          \cup (IF held = None THEN {} ELSE held \ reading.found)
    /\ UNCHANGED <<said, unsaid, replies, link, joined, connectedOnce, events, page, drops>>

\* The read fails for good; a first one is asked for again.
ReadFails ==
    /\ reading # None /\ drops < MaxDrops /\ drops' = drops + 1
    /\ reading' = IF held = None THEN Unanswered ELSE None
    /\ excused' = IF held = None THEN excused ELSE excused \cup (1 .. said \ held)
    /\ UNCHANGED <<said, unsaid, replies, link, joined, connectedOnce, events, page, held>>

\* appendMessage: nothing to append to before the first read.
AppendMessage(m) ==
    /\ held' = IF held = None THEN None ELSE held \cup {m}
    /\ excused' = IF held = None THEN excused \cup {m} ELSE excused
    /\ UNCHANGED <<said, unsaid, link, joined, connectedOnce, page, reading, drops>>

DeliverEvent(m) ==
    /\ m \in events /\ events' = events \ {m}
    /\ AppendMessage(m)
    /\ UNCHANGED replies

DeliverReply(m) ==
    /\ m \in replies \ unsaid /\ replies' = replies \ {m}
    /\ AppendMessage(m)
    /\ UNCHANGED events

\* Mutant: the transcript is not read again after a reconnect.
Resyncs_Never == FALSE

\* onResync: only a RE-connect.
Resyncs == connectedOnce

\* The read begins anew if one is under way.
Connect ==
    /\ link = "down"
    /\ link' = "up" /\ connectedOnce' = TRUE
    /\ reading' = IF page # None /\ Resyncs THEN Unanswered ELSE reading
    /\ UNCHANGED <<said, unsaid, replies, joined, events, page, held, excused, drops>>

\* The network, a suspension of the app, or a rotated access token.
Disconnect ==
    /\ link = "up" /\ drops < MaxDrops /\ drops' = drops + 1
    /\ link' = "down" /\ joined' = FALSE /\ events' = {}
    /\ UNCHANGED <<said, unsaid, replies, connectedOnce, page, held, reading, excused>>

ChatNext ==
    \/ StoreMessage \/ JoinRoom \/ ProbeBounds \/ ReadPage \/ LandPage \/ ReadFails
    \/ Connect \/ Disconnect
    \/ \E m \in Messages : PublishMessage(m) \/ DeliverEvent(m) \/ DeliverReply(m)

ChatSpec == ChatInit /\ [][ChatNext]_chatVars
-----------------------------------------------------------------------------
(* Properties.                                                             *)

Arrived ==
    /\ unsaid = {} /\ replies = {} /\ events = {}
    /\ reading = None /\ held # None /\ joined

Missing == {m \in 1 .. said : m > (page - 1) * PageSize} \ held

\* When everything has arrived, a message is missing from the transcript only if
\* it was published before the room was joined, came before the first read, was
\* overwritten by an older read, belongs to a later page, or the read that was
\* to bring it failed.
HolesExplained == Arrived => Missing \subseteq excused
===============================================================================
