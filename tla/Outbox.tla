-------------------------------- MODULE Outbox --------------------------------
(***************************************************************************)
(* The transactional outbox of the payment service and of the notification *)
(* service: rows committed with the state change they announce, and        *)
(* publishers that carry them to Kafka.                                    *)
(*                                                                         *)
(* A publisher's poll is one transaction: it locks a batch of due rows     *)
(* (SKIP LOCKED), sends them one by one and waits for each answer, and     *)
(* what it marks becomes visible when it commits.  A row is named by its   *)
(* creation order.                                                         *)
(*                                                                         *)
(* The backoff of a row starts when it is marked and the batch may go on   *)
(* for longer than any backoff, so at the commit any part of it may have   *)
(* passed.                                                                 *)
(***************************************************************************)
EXTENDS Integers, FiniteSets

CONSTANTS
    Rows,
    Poison,         \* rows the broker always rejects
    Publishers,     \* instances of the service
    BatchSize,
    BaseDelay,      \* 5 seconds
    MaxDelay,       \* 300 seconds
    MaxAttempts,    \* attempts are counted up to here
    MaxFaults       \* bound on crashes, interrupts and failed or unanswered sends

ASSUME RowAssumption == Rows \subseteq Nat /\ Poison \subseteq Rows
ASSUME DelayAssumption == BaseDelay \in Nat /\ MaxDelay \in Nat
ASSUME AttemptAssumption == MaxAttempts \in Nat \ {0}

VARIABLES
    status,         \* absent, pending or published, per row
    attempts,       \* attempt_count of each row
    wait,           \* time until next_attempt_at of each row
    tx,             \* the transaction each publisher has open
    copies,         \* how often each row is in the Kafka topic
    unnoticed,      \* how often a row reached Kafka without the table learning of it
    faults

table == <<status, attempts, wait>>
vars == <<table, tx, copies, unnoticed, faults>>

NoTx == [batch |-> {}, todo |-> {}, sent |-> {}, failed |-> {}]

TypeOK ==
    /\ status \in [Rows -> {"absent", "pending", "published"}]
    /\ attempts \in [Rows -> 0 .. MaxAttempts]
    /\ wait \in [Rows -> Nat]
    /\ tx \in [Publishers -> [batch : SUBSET Rows, todo : SUBSET Rows,
                              sent : SUBSET Rows, failed : SUBSET Rows]]
    /\ copies \in [Rows -> Nat]
    /\ unnoticed \in [Rows -> Nat]
    /\ faults \in Nat

Init ==
    /\ status = [r \in Rows |-> "absent"]
    /\ attempts = [r \in Rows |-> 0]
    /\ wait = [r \in Rows |-> 0]
    /\ tx = [p \in Publishers |-> NoTx]
    /\ copies = [r \in Rows |-> 0]
    /\ unnoticed = [r \in Rows |-> 0]
    /\ faults = 0

-----------------------------------------------------------------------------
\* append, in the transaction of the state change: absent until that commits.
Append(r) ==
    /\ status[r] = "absent"
    /\ status' = [status EXCEPT ![r] = "pending"]
    /\ UNCHANGED <<attempts, wait, tx, copies, unnoticed, faults>>

\* Mutant: a row that failed too often is given up.
Due_GivesUp(r) == status[r] = "pending" /\ wait[r] = 0 /\ attempts[r] < MaxAttempts

Due(r) == status[r] = "pending" /\ wait[r] = 0

Locked(r) == \E p \in Publishers : r \in tx[p].batch

\* Mutant: no lock, so that another instance takes the same rows.
Selectable_Unlocked == {r \in Rows : Due(r)}

Selectable == {r \in Rows : Due(r) /\ ~Locked(r)}

Oldest(S, n) == {r \in S : Cardinality({q \in S : q <= r}) <= n}

LockPendingBatch(p) ==
    /\ tx[p] = NoTx
    /\ LET batch == Oldest(Selectable, BatchSize)
       IN /\ batch # {}
          /\ tx' = [tx EXCEPT ![p] =
                [batch |-> batch, todo |-> batch, sent |-> {}, failed |-> {}]]
    /\ UNCHANGED <<table, copies, unnoticed, faults>>

-----------------------------------------------------------------------------
(* Sending the oldest row of the batch that is left.                       *)

IsNext(p, r) == r \in tx[p].todo /\ \A q \in tx[p].todo : r <= q

MarkPublished(t, r) ==
    [batch |-> t.batch, todo |-> t.todo \ {r}, sent |-> t.sent \cup {r}, failed |-> t.failed]
MarkFailed(t, r) ==
    [batch |-> t.batch, todo |-> t.todo \ {r}, sent |-> t.sent, failed |-> t.failed \cup {r}]

Fault == faults < MaxFaults /\ faults' = faults + 1

SendAcked(p, r) ==
    /\ IsNext(p, r) /\ r \notin Poison
    /\ copies' = [copies EXCEPT ![r] = @ + 1]
    /\ tx' = [tx EXCEPT ![p] = MarkPublished(tx[p], r)]
    /\ UNCHANGED <<table, unnoticed, faults>>

\* Mutant: the result of the send is not awaited.
SendRejected_NotAwaited(p, r) ==
    /\ IsNext(p, r)
    /\ tx' = [tx EXCEPT ![p] = MarkPublished(tx[p], r)]
    /\ IF r \in Poison THEN UNCHANGED faults ELSE Fault
    /\ UNCHANGED <<table, copies, unnoticed>>

SendRejected(p, r) ==
    /\ IsNext(p, r)
    /\ tx' = [tx EXCEPT ![p] = MarkFailed(tx[p], r)]
    /\ IF r \in Poison THEN UNCHANGED faults ELSE Fault
    /\ UNCHANGED <<table, copies, unnoticed>>

\* The broker has it, its answer is lost or late.
SendUnanswered(p, r) ==
    /\ IsNext(p, r) /\ r \notin Poison
    /\ copies' = [copies EXCEPT ![r] = @ + 1]
    /\ unnoticed' = [unnoticed EXCEPT ![r] = @ + 1]
    /\ tx' = [tx EXCEPT ![p] = MarkFailed(tx[p], r)]
    /\ Fault
    /\ UNCHANGED table

\* Shutdown while a send is awaited: that row counts as failed, whether or not
\* the broker has it, the rest of the batch stays as it is, and the transaction
\* ends normally.
Interrupted(p, r) ==
    /\ IsNext(p, r)
    /\ tx' = [tx EXCEPT ![p] =
            [batch |-> tx[p].batch, todo |-> {}, sent |-> tx[p].sent,
             failed |-> tx[p].failed \cup {r}]]
    /\ \/ UNCHANGED <<copies, unnoticed>>
       \/ /\ r \notin Poison
          /\ copies' = [copies EXCEPT ![r] = @ + 1]
          /\ unnoticed' = [unnoticed EXCEPT ![r] = @ + 1]
    /\ Fault
    /\ UNCHANGED table

-----------------------------------------------------------------------------
(* The end of the transaction.                                             *)

Doublings == <<1, 2, 4, 8, 16, 32, 64>>

\* Mutant: Math.max for Math.min.
Least_Greatest(m, n) == IF m < n THEN n ELSE m

Least(m, n) == IF m < n THEN m ELSE n

\* markFailed: the backoff after the given number of attempts.
Delay(n) == Least(MaxDelay, BaseDelay * Doublings[Least(n, 7)])

\* Mutant: a failed row is marked published with the others.
PublishedBy_All(t) == t.sent \cup t.failed

PublishedBy(t) == t.sent

Commit(p) ==
    LET t == tx[p] IN
    /\ t.batch # {} /\ t.todo = {}
    /\ status' = [r \in Rows |-> IF r \in PublishedBy(t) THEN "published" ELSE status[r]]
    /\ attempts' = [r \in Rows |->
            IF r \in t.failed THEN Least(attempts[r] + 1, MaxAttempts) ELSE attempts[r]]
    /\ \E passed \in 0 .. MaxDelay :
        wait' = [r \in Rows |->
            IF r \in t.failed THEN Delay(attempts'[r]) - Least(passed, Delay(attempts'[r]))
                              ELSE wait[r]]
    /\ tx' = [tx EXCEPT ![p] = NoTx]
    /\ UNCHANGED <<copies, unnoticed, faults>>

\* The process or its database connection ends: every mark is lost.
Crash(p) ==
    /\ tx[p] # NoTx
    /\ Fault
    /\ unnoticed' = [r \in Rows |->
            IF r \in tx[p].sent THEN unnoticed[r] + 1 ELSE unnoticed[r]]
    /\ tx' = [tx EXCEPT ![p] = NoTx]
    /\ UNCHANGED <<table, copies>>

Tick ==
    /\ \E r \in Rows : wait[r] > 0
    /\ wait' = [r \in Rows |-> IF wait[r] > 0 THEN wait[r] - 1 ELSE 0]
    /\ UNCHANGED <<status, attempts, tx, copies, unnoticed, faults>>

-----------------------------------------------------------------------------
Send(p, r) == SendAcked(p, r) \/ SendRejected(p, r) \/ SendUnanswered(p, r) \/ Interrupted(p, r)
PublishPending(p) ==
    \/ LockPendingBatch(p)
    \/ \E r \in Rows : Send(p, r)
    \/ Commit(p)

Next ==
    \/ \E r \in Rows : Append(r)
    \/ \E p \in Publishers : PublishPending(p) \/ Crash(p)
    \/ Tick

Spec == Init /\ [][Next]_vars

\* Publishers are polled for ever and the clock does not stop.
FairSpec == Spec /\ WF_vars(Tick) /\ \A p \in Publishers : WF_vars(PublishPending(p))

-----------------------------------------------------------------------------
(* Properties.                                                             *)

Marked(r) == \E p \in Publishers : r \in tx[p].sent

\* What is in Kafka is what the table knows of, or is about to, plus one copy
\* for each crash, interrupt or lost answer that hid a send: a row the table
\* calls published has been sent, and without faults it was sent once.
CopiesAccounted ==
    \A r \in Rows :
        copies[r] = unnoticed[r] + (IF status[r] = "published" THEN 1 ELSE 0)
                                 + (IF Marked(r) THEN 1 ELSE 0)

\* "Nothing is published twice from the table": a row committed as published is
\* never sent again, however many publishers run.
NeverSentAgain ==
    [][\A r \in Rows : status[r] = "published"
            => status'[r] = "published" /\ copies'[r] = copies[r]]_vars

\* Rows the broker does not reject get there, behind rows that are rejected for
\* ever and in spite of crashes ("a billing event is never discarded").
EveryEventGoesOut ==
    \A r \in Rows \ Poison : status[r] = "pending" ~> status[r] = "published"
=============================================================================
