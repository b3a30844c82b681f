-------------------------------- MODULE Hiring --------------------------------
(***************************************************************************)
(* One candidate and one vacancy: the applications, the recruiter's        *)
(* pipeline, and the interview chat that an invitation opens and the end   *)
(* of the vacancy or of the application deletes (applications.service.ts,  *)
(* vacancies.service.ts, chat.service.ts, public-jobs.service.ts).         *)
(*                                                                         *)
(* A request reads, and acts on what it read in a transaction that         *)
(* PostgreSQL runs at READ COMMITTED: one that purges the chat is split    *)
(* between finding it and committing.  Statuses without effects of their   *)
(* own are one: NEW for an application, OPEN for a vacancy.                *)
(***************************************************************************)
EXTENDS Absence, Naturals, FiniteSets

CONSTANTS
    Requests,           \* requests under way at once
    MaxTries,           \* bound on the applications of the candidate
    MaxChats            \* bound on conversations

VARIABLES
    vacancy,            \* its status
    application,        \* the status of each attempt, None before it is made
    chat,               \* the conversation of the pair, or None
    chats,              \* conversations made so far
    request,
    entangled,          \* an invitation or a removal overlapped another request
                        \* (observation)
    purgedBy            \* who purged since the last invitation: the vacancy, or
                        \* an attempt other than the one invited (observation)

hireVars == <<vacancy, application, chat, chats, request, entangled, purgedBy>>

Tries == 1 .. MaxTries
Ended == {"CLOSED", "ARCHIVED"}
Stages == {"NEW", "INTERVIEW", "REJECTED"}
Chats == {None} \cup 1 .. MaxChats

ASSUME HireAssumption ==
    MaxTries \in Nat \ {0} /\ MaxChats \in Nat /\ None \notin Nat \cup Stages \cup {"DELETED"}

NoRequest == [at |-> "idle"]

HireTypeOK ==
    /\ vacancy \in {"OPEN", "DELETED"} \cup Ended
    /\ application \in [Tries -> Stages \cup {None, "DELETED"}]
    /\ chat \in Chats /\ chats \in 0 .. MaxChats
    /\ request \in [Requests -> {NoRequest} \cup
          [at : {"read", "commit"},
           op : {"apply", "invite", "stage", "reject", "remove", "status", "patch", "delete"},
           attempt : Tries, to : {"OPEN"} \cup Ended, write : BOOLEAN, doomed : Chats]]
    /\ entangled \in BOOLEAN /\ purgedBy \subseteq {"vacancy", "attempt"}

HireInit ==
    /\ vacancy = "OPEN"
    /\ application = [a \in Tries |-> None]
    /\ chat = None /\ chats = 0
    /\ request = [q \in Requests |-> NoRequest]
    /\ entangled = FALSE /\ purgedBy = {}

At(q, step, op) == request[q] # NoRequest /\ request[q].at = step /\ request[q].op = op
Under(op) == {q \in Requests : At(q, "commit", op)}
InPipeline(a) == application[a] \in Stages
Alive(a) == application[a] \in {"NEW", "INTERVIEW"}

Asked(op) == [at |-> "read", op |-> op, attempt |-> 1, to |-> "OPEN", write |-> TRUE,
              doomed |-> None]
About(op, a) == [Asked(op) EXCEPT !.attempt = a]

Delicate(op) == op \in {"invite", "remove"}

Ask(q, r) ==
    /\ request[q] = NoRequest
    /\ request' = [request EXCEPT ![q] = r]
    /\ entangled' = (entangled \/ \E p \in Requests \ {q} :
                        request[p] # NoRequest /\ (Delicate(r.op) \/ Delicate(request[p].op)))
    /\ UNCHANGED <<vacancy, application, chat, chats, purgedBy>>

Answered(q) == request' = [request EXCEPT ![q] = NoRequest]

-----------------------------------------------------------------------------
(* What a request reads first.                                             *)

\* apply: the vacancy is open, and every earlier attempt was rejected.
AskApply(q, a) ==
    /\ vacancy = "OPEN"
    /\ application[a] = None /\ \A b \in Tries : b < a => application[b] # None
    /\ ~\E b \in Tries : Alive(b)
    /\ Ask(q, About("apply", a))

\* inviteToInterview: refused when the vacancy has ended.
AskInvite(q, a) == InPipeline(a) /\ vacancy \notin Ended /\ Ask(q, About("invite", a))

\* updateStatus and remove.
AskStage(q, op, a) == InPipeline(a) /\ Ask(q, About(op, a))

\* setStatus: an archived vacancy keeps its status.
AskStatus(q, to) ==
    /\ vacancy \notin {to, "ARCHIVED", "DELETED"}
    /\ Ask(q, [Asked("status") EXCEPT !.to = to])

\* update: a patch with a status, or without; then the one read here counts.
AskPatch(q, to, write) ==
    /\ vacancy # "DELETED" /\ (write \/ to = vacancy)
    /\ Ask(q, [Asked("patch") EXCEPT !.to = to, !.write = write])

AskDelete(q) == vacancy # "DELETED" /\ Ask(q, Asked("delete"))

-----------------------------------------------------------------------------
(* Transactions and the locks they wait for.                               *)

\* Mutant: a rejection purges before it updates.
RowLocked_Never(a) == FALSE

\* A rejection has updated the row of its attempt.
RowLocked(a) == \E q \in Under("reject") : request[q].attempt = a

\* A purge has deleted the row of the chat.
ChatLocked ==
    chat # None /\ \E q \in Requests :
        request[q] # NoRequest /\ request[q].at = "commit" /\ request[q].doomed = chat

VacancyLocked == Under("status") \cup Under("patch") # {}

\* applications_active_attempt_key.
UniqueAttempt(a) == \A b \in Tries \ {a} : ~Alive(b)

Move(a, status) ==
    /\ InPipeline(a) /\ ~RowLocked(a)
    /\ UniqueAttempt(a)
    /\ application' = [application EXCEPT ![a] = status]

CommitApply(q) ==
    /\ At(q, "read", "apply")
    /\ application[request[q].attempt] = None
    /\ UniqueAttempt(request[q].attempt) /\ vacancy # "DELETED"
    /\ application' = [application EXCEPT ![request[q].attempt] = "NEW"]
    /\ Answered(q)
    /\ UNCHANGED <<vacancy, chat, chats, entangled, purgedBy>>

\* Mutant: inviting again opens no chat.
Opens_Once(a) == chat = None /\ application[a] # "INTERVIEW"

\* createForInvitationTx is an upsert.
Opens(a) == chat = None

CommitInvite(q) ==
    /\ At(q, "read", "invite") /\ ~ChatLocked
    /\ Move(request[q].attempt, "INTERVIEW")
    /\ IF Opens(request[q].attempt)
       THEN chats < MaxChats /\ chat' = chats + 1 /\ chats' = chats + 1
       ELSE UNCHANGED <<chat, chats>>
    /\ purgedBy' = {}
    /\ Answered(q)
    /\ UNCHANGED <<vacancy, entangled>>

CommitStage(q) ==
    /\ At(q, "read", "stage")
    /\ Move(request[q].attempt, "NEW")
    /\ Answered(q)
    /\ UNCHANGED <<vacancy, chat, chats, entangled, purgedBy>>

Found(q, doomed) == request' = [request EXCEPT ![q].at = "commit", ![q].doomed = doomed]

\* A rejection updates the attempt and then finds the chat of the pair.
FindForReject(q) ==
    /\ At(q, "read", "reject") /\ InPipeline(request[q].attempt)
    /\ ~RowLocked(request[q].attempt) /\ ~ChatLocked
    /\ Found(q, chat)
    /\ UNCHANGED <<vacancy, application, chat, chats, entangled, purgedBy>>

\* A removal finds the chat and then deletes the attempt.
FindForRemove(q) ==
    /\ At(q, "read", "remove") /\ ~ChatLocked
    /\ Found(q, chat)
    /\ UNCHANGED <<vacancy, application, chat, chats, entangled, purgedBy>>

\* Mutant: a patch that carries a status is no end of the vacancy.
Ends_StatusOnly(r) == r.op = "status" /\ r.to \in Ended

\* applyStatusChange.
Ends(r) == r.to \in Ended

\* A new status is written before the chats are found.
FindForStatus(q) ==
    /\ At(q, "read", "status") \/ At(q, "read", "patch")
    /\ vacancy # "DELETED" /\ ~VacancyLocked
    /\ IF Ends(request[q]) THEN ~ChatLocked /\ Found(q, chat) ELSE Found(q, None)
    /\ UNCHANGED <<vacancy, application, chat, chats, entangled, purgedBy>>

PurgeChat(q, by) ==
    /\ chat' = IF request[q].doomed = chat THEN None ELSE chat
    /\ purgedBy' = IF chat' # chat THEN purgedBy \cup by ELSE purgedBy

CommitReject(q) ==
    /\ At(q, "commit", "reject")
    /\ application' = [application EXCEPT ![request[q].attempt] = "REJECTED"]
    /\ PurgeChat(q, {"attempt" : b \in {c \in Tries \ {request[q].attempt} : Alive(c)}})
    /\ Answered(q)
    /\ UNCHANGED <<vacancy, chats, entangled>>

\* An attempt that is gone by now rolls the removal back.
CommitRemove(q) ==
    /\ At(q, "commit", "remove") /\ InPipeline(request[q].attempt)
    /\ ~RowLocked(request[q].attempt)
    /\ application' = [application EXCEPT ![request[q].attempt] = "DELETED"]
    /\ PurgeChat(q, {"attempt" : b \in {c \in Tries \ {request[q].attempt} : Alive(c)}})
    /\ Answered(q)
    /\ UNCHANGED <<vacancy, chats, entangled>>

CommitStatus(q) ==
    /\ At(q, "commit", "status") \/ At(q, "commit", "patch")
    /\ vacancy' = IF request[q].write THEN request[q].to ELSE vacancy
    /\ PurgeChat(q, {"vacancy"})
    /\ Answered(q)
    /\ UNCHANGED <<application, chats, entangled>>

\* The attempts and the chat go with the vacancy.
CommitDelete(q) ==
    /\ At(q, "read", "delete") /\ vacancy # "DELETED"
    /\ ~VacancyLocked /\ ~ChatLocked /\ \A a \in Tries : ~RowLocked(a)
    /\ vacancy' = "DELETED"
    /\ application' = [a \in Tries |-> IF InPipeline(a) THEN "DELETED" ELSE application[a]]
    /\ chat' = None /\ purgedBy' = purgedBy \cup {"vacancy"}
    /\ Answered(q)
    /\ UNCHANGED <<chats, entangled>>

\* A unique index, a row that is gone, a deadlock or a lost connection.
RollBack(q) ==
    /\ request[q] # NoRequest
    /\ Answered(q)
    /\ UNCHANGED <<vacancy, application, chat, chats, entangled, purgedBy>>

HireNext ==
    \E q \in Requests :
        \/ \E a \in Tries : \/ AskApply(q, a) \/ AskInvite(q, a)
                            \/ \E op \in {"stage", "reject", "remove"} : AskStage(q, op, a)
        \/ \E to \in {"OPEN"} \cup Ended :
              AskStatus(q, to) \/ \E write \in BOOLEAN : AskPatch(q, to, write)
        \/ AskDelete(q)
        \/ CommitApply(q) \/ CommitInvite(q) \/ CommitStage(q)
        \/ FindForReject(q) \/ FindForRemove(q) \/ FindForStatus(q)
        \/ CommitReject(q) \/ CommitRemove(q) \/ CommitStatus(q) \/ CommitDelete(q)
        \/ RollBack(q)

HireSpec == HireInit /\ [][HireNext]_hireVars
-----------------------------------------------------------------------------
(* Properties.                                                             *)

\* No route ends a vacancy and leaves its chat, and no route opens a chat on an
\* ended one, unless an invitation or a removal was under way meanwhile.
EndedHasNoChat == vacancy # "OPEN" /\ ~entangled => chat = None

\* An invitation and a rejection of one attempt may race: when every attempt is
\* rejected, there is no chat.  A removal gives no such promise.
RejectedHasNoChat ==
    (\A a \in Tries : application[a] \in {None, "REJECTED"}) => chat = None

\* A candidate in the interview stage has the chat, unless the vacancy or
\* another attempt of the candidate purged it since the invitation.
InterviewKeepsChat ==
    (\E a \in Tries : application[a] = "INTERVIEW") /\ chat = None => purgedBy # {}
===============================================================================
