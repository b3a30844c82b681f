----------------------------- MODULE OutboxProofs -----------------------------
(***************************************************************************)
(* Proofs about Outbox, for every set of rows and publishers, every batch  *)
(* size and every backoff: what is in Kafka is accounted for, and a row    *)
(* published once is never sent again.                                     *)
(***************************************************************************)
EXTENDS Outbox, TLAPS

Tx == [batch : SUBSET Rows, todo : SUBSET Rows, sent : SUBSET Rows, failed : SUBSET Rows]

\* What a transaction still has to send, and what it marked, are rows it has
\* locked; what it marked published it has not still to send.
TxInv ==
    \A p \in Publishers :
        /\ tx[p].todo \subseteq tx[p].batch
        /\ tx[p].sent \subseteq tx[p].batch
        /\ tx[p].sent \cap tx[p].todo = {}

\* Locked rows are pending, and locked by one transaction.
LockInv ==
    /\ \A p \in Publishers : \A r \in tx[p].batch : status[r] = "pending"
    /\ \A p, q \in Publishers : p # q => tx[p].batch \cap tx[q].batch = {}

\* The strengthening of CopiesAccounted that every step preserves.
Inv == TypeOK /\ TxInv /\ LockInv /\ CopiesAccounted

-----------------------------------------------------------------------------
(* Types.                                                                  *)

\* markFailed's backoff is a duration.
LEMMA DelayType == \A n \in 1 .. MaxAttempts : Delay(n) \in Nat
<1> SUFFICES ASSUME NEW n \in 1 .. MaxAttempts PROVE Delay(n) \in Nat
  OBVIOUS
<1>1. Least(n, 7) \in 1 .. 7
  BY AttemptAssumption DEF Least
<1>2. \A k \in 1 .. 7 : BaseDelay * Doublings[k] \in Nat
  BY DelayAssumption DEF Doublings
<1>3. BaseDelay * Doublings[Least(n, 7)] \in Nat
  BY <1>1, <1>2
<1>4. QED
  BY <1>3, DelayAssumption DEF Delay, Least

\* The marks keep a transaction a transaction.
LEMMA MarkTypes ==
    ASSUME NEW t \in Tx, NEW r \in Rows
    PROVE  MarkPublished(t, r) \in Tx /\ MarkFailed(t, r) \in Tx
BY DEF Tx, MarkPublished, MarkFailed

\* Every action keeps the types.
LEMMA TypeStep == TypeOK /\ [Next]_vars => TypeOK'
<1> SUFFICES ASSUME TypeOK, [Next]_vars PROVE TypeOK'
  OBVIOUS
<1>t. tx \in [Publishers -> Tx]
  BY DEF TypeOK, Tx
<1>n. NoTx \in Tx
  BY DEF NoTx, Tx
<1>1. ASSUME NEW r \in Rows, Append(r) PROVE TypeOK'
  BY <1>1 DEF Append, TypeOK
<1>2. ASSUME NEW p \in Publishers, LockPendingBatch(p) PROVE TypeOK'
  <2> DEFINE batch == Oldest(Selectable, BatchSize)
  <2>1. batch \subseteq Rows
    BY DEF Oldest, Selectable
  <2>2. [batch |-> batch, todo |-> batch, sent |-> {}, failed |-> {}] \in Tx
    BY <2>1 DEF Tx
  <2>3. tx' \in [Publishers -> Tx]
    BY <1>2, <1>t, <2>2 DEF LockPendingBatch
  <2>4. QED
    BY <1>2, <2>3 DEF LockPendingBatch, TypeOK, table, Tx
<1>3. ASSUME NEW p \in Publishers, NEW r \in Rows, Send(p, r) PROVE TypeOK'
  <2>1. tx' \in [Publishers -> Tx]
    <3>1. [batch |-> tx[p].batch, todo |-> {}, sent |-> tx[p].sent,
           failed |-> tx[p].failed \cup {r}] \in Tx
      BY <1>t DEF Tx
    <3>2. tx[p] \in Tx
      BY <1>t
    <3>3. \E t \in Tx : tx' = [tx EXCEPT ![p] = t]
      BY <1>3, <3>1, <3>2, MarkTypes
         DEF Send, SendAcked, SendRejected, SendUnanswered, Interrupted
    <3>4. QED
      BY <1>t, <3>3
  <2>2. copies' \in [Rows -> Nat] /\ unnoticed' \in [Rows -> Nat]
    BY <1>3 DEF Send, SendAcked, SendRejected, SendUnanswered, Interrupted, TypeOK
  <2>3. faults' \in Nat
    BY <1>3 DEF Send, SendAcked, SendRejected, SendUnanswered, Interrupted, Fault, TypeOK
  <2>4. UNCHANGED table
    BY <1>3 DEF Send, SendAcked, SendRejected, SendUnanswered, Interrupted
  <2>5. QED
    BY <2>1, <2>2, <2>3, <2>4 DEF TypeOK, table, Tx
<1>4. ASSUME NEW p \in Publishers, Commit(p) PROVE TypeOK'
  <2>1. \A r \in Rows : r \in tx[p].failed => attempts'[r] \in 1 .. MaxAttempts
    BY <1>4, AttemptAssumption DEF Commit, TypeOK, Least
  <2>2. attempts' \in [Rows -> 0 .. MaxAttempts]
    BY <1>4, AttemptAssumption DEF Commit, TypeOK, Least
  <2>3. status' \in [Rows -> {"absent", "pending", "published"}]
    BY <1>4 DEF Commit, TypeOK
  <2>4. wait' \in [Rows -> Nat]
    <3>1. PICK passed \in 0 .. MaxDelay : wait' = [r \in Rows |->
              IF r \in tx[p].failed
              THEN Delay(attempts'[r]) - Least(passed, Delay(attempts'[r])) ELSE wait[r]]
      BY <1>4 DEF Commit
    <3>2. \A d \in Nat : d - Least(passed, d) \in Nat
      BY <3>1, DelayAssumption DEF Least
    <3>3. \A r \in Rows : r \in tx[p].failed => Delay(attempts'[r]) \in Nat
      BY <2>1, DelayType
    <3>4. QED
      BY <3>1, <3>2, <3>3 DEF TypeOK
  <2>5. tx' \in [Publishers -> Tx]
    BY <1>4, <1>t, <1>n DEF Commit
  <2>6. QED
    BY <1>4, <2>2, <2>3, <2>4, <2>5 DEF Commit, TypeOK, Tx
<1>5. ASSUME NEW p \in Publishers, Crash(p) PROVE TypeOK'
  <2>1. tx' \in [Publishers -> Tx]
    BY <1>5, <1>t, <1>n DEF Crash
  <2>2. unnoticed' \in [Rows -> Nat] /\ faults' \in Nat
    BY <1>5 DEF Crash, Fault, TypeOK
  <2>3. QED
    BY <1>5, <2>1, <2>2 DEF Crash, TypeOK, table, Tx
<1>6. CASE Tick
  BY <1>6 DEF Tick, TypeOK
<1>7. CASE UNCHANGED vars
  BY <1>7 DEF vars, table, TypeOK
<1>8. QED
  BY <1>1, <1>2, <1>3, <1>4, <1>5, <1>6, <1>7 DEF Next, PublishPending

-----------------------------------------------------------------------------
(* Locks.                                                                  *)

\* A step that leaves the table and the locks alone keeps the locks right.
LEMMA SendKeepsTx ==
    ASSUME Inv, NEW p \in Publishers, NEW r \in Rows, Send(p, r)
    PROVE  TxInv' /\ LockInv'
<1>1. \A q \in Publishers : q # p => tx'[q] = tx[q]
  BY DEF Send, SendAcked, SendRejected, SendUnanswered, Interrupted, Inv, TypeOK
<1>2. /\ tx'[p].batch = tx[p].batch
      /\ tx'[p].todo \subseteq tx[p].todo \ {r}
      /\ tx'[p].sent \subseteq tx[p].sent \cup {r}
  BY DEF Send, SendAcked, SendRejected, SendUnanswered, Interrupted, MarkPublished, MarkFailed,
         Inv, TypeOK
<1>3. r \in tx[p].todo
  BY DEF Send, SendAcked, SendRejected, SendUnanswered, Interrupted, IsNext
<1>4. UNCHANGED status
  BY DEF Send, SendAcked, SendRejected, SendUnanswered, Interrupted, table
<1>5. TxInv'
  BY <1>1, <1>2, <1>3 DEF Inv, TxInv
<1>6. LockInv'
  BY <1>1, <1>2, <1>4 DEF Inv, LockInv
<1>7. QED
  BY <1>5, <1>6

\* Ending a transaction releases its locks and touches no other.
LEMMA EndKeepsTx ==
    ASSUME Inv, NEW p \in Publishers, Commit(p) \/ Crash(p)
    PROVE  TxInv' /\ LockInv'
<1>1. tx' = [tx EXCEPT ![p] = NoTx]
  BY DEF Commit, Crash
<1>2. tx'[p] = NoTx /\ \A q \in Publishers : q # p => tx'[q] = tx[q]
  BY <1>1 DEF Inv, TypeOK
<1>3. \A r \in Rows : r \notin tx[p].batch => status'[r] = status[r]
  BY DEF Commit, Crash, table, PublishedBy, Inv, TxInv, TypeOK
<1>4. \A q \in Publishers : tx[q].batch \subseteq Rows
  BY DEF Inv, TypeOK
<1>5. TxInv'
  BY <1>2 DEF NoTx, Inv, TxInv
<1>6. LockInv'
  BY <1>2, <1>3, <1>4 DEF NoTx, Inv, LockInv
<1>7. QED
  BY <1>5, <1>6

\* Every step keeps locked rows pending and locked once.
LEMMA LockStep == Inv /\ [Next]_vars => TxInv' /\ LockInv'
<1> SUFFICES ASSUME Inv, [Next]_vars PROVE TxInv' /\ LockInv'
  OBVIOUS
<1>1. ASSUME NEW r \in Rows, Append(r) PROVE TxInv' /\ LockInv'
  BY <1>1 DEF Append, Inv, TypeOK, TxInv, LockInv
<1>2. ASSUME NEW p \in Publishers, LockPendingBatch(p) PROVE TxInv' /\ LockInv'
  <2> DEFINE batch == Oldest(Selectable, BatchSize)
  <2>1. \A r \in batch : status[r] = "pending" /\ \A q \in Publishers : r \notin tx[q].batch
    BY DEF Oldest, Selectable, Due, Locked
  <2>2. /\ tx'[p] = [batch |-> batch, todo |-> batch, sent |-> {}, failed |-> {}]
        /\ \A q \in Publishers : q # p => tx'[q] = tx[q]
        /\ UNCHANGED status
    BY <1>2 DEF LockPendingBatch, table, Inv, TypeOK
  <2> HIDE DEF batch
  <2>3. TxInv'
    BY <2>2 DEF Inv, TxInv
  <2>4. LockInv'
    BY <2>1, <2>2 DEF Inv, LockInv
  <2>5. QED
    BY <2>3, <2>4
<1>3. ASSUME NEW p \in Publishers, Crash(p) PROVE TxInv' /\ LockInv'
  BY <1>3, EndKeepsTx
<1>4. ASSUME NEW p \in Publishers, Commit(p) PROVE TxInv' /\ LockInv'
  BY <1>4, EndKeepsTx
<1>5. ASSUME NEW p \in Publishers, NEW r \in Rows, Send(p, r) PROVE TxInv' /\ LockInv'
  BY <1>5, SendKeepsTx
<1>6. CASE Tick
  BY <1>6 DEF Tick, Inv, TxInv, LockInv
<1>7. CASE UNCHANGED vars
  BY <1>7 DEF vars, table, Inv, TxInv, LockInv
<1>8. QED
  BY <1>1, <1>2, <1>3, <1>4, <1>5, <1>6, <1>7 DEF Next, PublishPending

-----------------------------------------------------------------------------
(* The account of the copies in Kafka.                                     *)

\* A row about to be sent is not yet marked by anybody.
LEMMA NotMarked ==
    ASSUME Inv, NEW p \in Publishers, NEW r \in tx[p].todo
    PROVE  ~Marked(r) /\ status[r] = "pending"
<1>1. r \in tx[p].batch /\ r \notin tx[p].sent
  BY DEF Inv, TxInv
<1>2. \A q \in Publishers : q # p => r \notin tx[q].sent
  BY <1>1 DEF Inv, TxInv, LockInv
<1>3. QED
  BY <1>1, <1>2 DEF Marked, Inv, LockInv

\* What a transaction marked published is pending, and marked by no other.
LEMMA MarkedOnce ==
    ASSUME Inv, NEW p \in Publishers, NEW r \in tx[p].sent
    PROVE  /\ Marked(r) /\ status[r] = "pending"
           /\ \A q \in Publishers : q # p => r \notin tx[q].sent
<1>1. r \in tx[p].batch
  BY DEF Inv, TxInv
<1>2. \A q \in Publishers : q # p => r \notin tx[q].sent
  BY <1>1 DEF Inv, TxInv, LockInv
<1>3. QED
  BY <1>1, <1>2 DEF Marked, Inv, LockInv

\* The account of one row.
Accounted(r) ==
    copies[r] = unnoticed[r] + (IF status[r] = "published" THEN 1 ELSE 0)
                             + (IF Marked(r) THEN 1 ELSE 0)

\* A step that changes nothing about a row leaves its account right.
LEMMA AccountKept ==
    ASSUME NEW r \in Rows, Accounted(r), Marked(r)' <=> Marked(r),
           copies'[r] = copies[r], unnoticed'[r] = unnoticed[r],
           status'[r] = "published" <=> status[r] = "published"
    PROVE  Accounted(r)'
BY DEF Accounted

\* A send adds a copy the transaction has marked, or one nobody knows of, or none.
LEMMA SendAccounts ==
    ASSUME Inv, NEW p \in Publishers, NEW r \in Rows, Send(p, r), NEW s \in Rows
    PROVE  Accounted(s)'
<1>1. Accounted(s) /\ copies[s] \in Nat /\ unnoticed[s] \in Nat
  BY DEF Inv, CopiesAccounted, Accounted, TypeOK
<1>2. \A q \in Publishers : q # p => tx'[q] = tx[q]
  BY DEF Send, SendAcked, SendRejected, SendUnanswered, Interrupted, Inv, TypeOK
<1>3. UNCHANGED status
  BY DEF Send, SendAcked, SendRejected, SendUnanswered, Interrupted, table
<1>4. r \in tx[p].todo /\ ~Marked(r) /\ status[r] = "pending"
  BY NotMarked DEF Send, SendAcked, SendRejected, SendUnanswered, Interrupted, IsNext
<1>5. CASE SendAcked(p, r)
  <2>1. tx'[p].sent = tx[p].sent \cup {r}
    BY <1>5 DEF SendAcked, MarkPublished, Inv, TypeOK
  <2>2. CASE s = r
    <3>1. Marked(s)'
      BY <2>1, <2>2 DEF Marked
    <3>2. copies'[s] = copies[s] + 1 /\ unnoticed'[s] = unnoticed[s]
      BY <1>5, <2>2 DEF SendAcked, Inv, TypeOK
    <3>3. QED
      BY <1>1, <1>3, <1>4, <2>2, <3>1, <3>2 DEF Accounted
  <2>3. CASE s # r
    <3>1. Marked(s)' <=> Marked(s)
      BY <1>2, <2>1, <2>3 DEF Marked
    <3>2. copies'[s] = copies[s] /\ unnoticed'[s] = unnoticed[s]
      BY <1>5, <2>3 DEF SendAcked, Inv, TypeOK
    <3>3. QED
      BY <1>1, <1>3, <3>1, <3>2, AccountKept
  <2>4. QED
    BY <2>2, <2>3
<1>6. CASE SendRejected(p, r) \/ SendUnanswered(p, r) \/ Interrupted(p, r)
  <2>1. tx'[p].sent = tx[p].sent
    BY <1>6 DEF SendRejected, SendUnanswered, Interrupted, MarkFailed, Inv, TypeOK
  <2>2. Marked(s)' <=> Marked(s)
    BY <1>2, <2>1 DEF Marked
  <2>3. CASE copies' = copies /\ unnoticed' = unnoticed
    BY <1>1, <1>3, <2>2, <2>3, AccountKept
  <2>4. CASE copies' = [copies EXCEPT ![r] = @ + 1] /\ unnoticed' = [unnoticed EXCEPT ![r] = @ + 1]
    <3>1. CASE s = r
      <4>1. copies'[s] = copies[s] + 1 /\ unnoticed'[s] = unnoticed[s] + 1
        BY <2>4, <3>1 DEF Inv, TypeOK
      <4>2. QED
        BY <1>1, <1>3, <2>2, <4>1 DEF Accounted
    <3>2. CASE s # r
      <4>1. copies'[s] = copies[s] /\ unnoticed'[s] = unnoticed[s]
        BY <2>4, <3>2 DEF Inv, TypeOK
      <4>2. QED
        BY <1>1, <1>3, <2>2, <4>1, AccountKept
    <3>3. QED
      BY <3>1, <3>2
  <2>5. QED
    BY <1>6, <2>3, <2>4 DEF SendRejected, SendUnanswered, Interrupted
<1>7. QED
  BY <1>5, <1>6 DEF Send

\* A commit lets the table learn of what was marked, a crash hides it for good.
LEMMA EndAccounts ==
    ASSUME Inv, NEW p \in Publishers, Commit(p) \/ Crash(p), NEW s \in Rows
    PROVE  Accounted(s)'
<1>1. Accounted(s) /\ copies[s] \in Nat /\ unnoticed[s] \in Nat
  BY DEF Inv, CopiesAccounted, Accounted, TypeOK
<1>2. tx'[p] = NoTx /\ \A q \in Publishers : q # p => tx'[q] = tx[q]
  BY DEF Commit, Crash, Inv, TypeOK
<1>3. UNCHANGED copies
  BY DEF Commit, Crash
<1>4. CASE s \in tx[p].sent
  <2>1. Marked(s) /\ ~Marked(s)' /\ status[s] = "pending"
    BY <1>2, <1>4, MarkedOnce DEF Marked, NoTx
  <2>2. CASE Commit(p)
    <3>1. status'[s] = "published" /\ unnoticed'[s] = unnoticed[s]
      BY <1>4, <2>2 DEF Commit, PublishedBy
    <3>2. QED
      BY <1>1, <1>3, <2>1, <3>1 DEF Accounted
  <2>3. CASE Crash(p)
    <3>1. status'[s] = status[s] /\ unnoticed'[s] = unnoticed[s] + 1
      BY <1>4, <2>3 DEF Crash, table
    <3>2. QED
      BY <1>1, <1>3, <2>1, <3>1 DEF Accounted
  <2>4. QED
    BY <2>2, <2>3
<1>5. CASE s \notin tx[p].sent
  <2>1. Marked(s)' <=> Marked(s)
    BY <1>2, <1>5 DEF Marked, NoTx
  <2>2. status'[s] = status[s] /\ unnoticed'[s] = unnoticed[s]
    BY <1>5 DEF Commit, Crash, table, PublishedBy, Inv, TypeOK
  <2>3. QED
    BY <1>1, <1>3, <2>1, <2>2, AccountKept
<1>6. QED
  BY <1>4, <1>5

\* Every step keeps the account.
LEMMA AccountStep == Inv /\ [Next]_vars => CopiesAccounted'
<1> SUFFICES ASSUME Inv, [Next]_vars, NEW s \in Rows PROVE Accounted(s)'
  BY DEF CopiesAccounted, Accounted
<1>0. Accounted(s)
  BY DEF Inv, CopiesAccounted, Accounted
<1>1. ASSUME NEW r \in Rows, Append(r) PROVE Accounted(s)'
  <2>1. Marked(s)' <=> Marked(s)
    BY <1>1 DEF Append, Marked
  <2>2. status'[s] = "published" <=> status[s] = "published"
    BY <1>1 DEF Append, Inv, TypeOK
  <2>3. QED
    BY <1>0, <1>1, <2>1, <2>2, AccountKept DEF Append
<1>2. ASSUME NEW p \in Publishers, LockPendingBatch(p) PROVE Accounted(s)'
  <2>1. tx[p].sent = {} /\ tx'[p].sent = {} /\ \A q \in Publishers : q # p => tx'[q] = tx[q]
    BY <1>2 DEF LockPendingBatch, NoTx, Inv, TypeOK
  <2>2. Marked(s)' <=> Marked(s)
    BY <2>1 DEF Marked
  <2>3. QED
    BY <1>0, <1>2, <2>2, AccountKept DEF LockPendingBatch, table
<1>3. ASSUME NEW p \in Publishers, NEW r \in Rows, Send(p, r) PROVE Accounted(s)'
  BY <1>3, SendAccounts
<1>4. ASSUME NEW p \in Publishers, Commit(p) \/ Crash(p) PROVE Accounted(s)'
  BY <1>4, EndAccounts
<1>5. CASE Tick \/ UNCHANGED vars
  <2>1. UNCHANGED <<status, tx, copies, unnoticed>>
    BY <1>5 DEF Tick, vars, table
  <2>2. Marked(s)' <=> Marked(s)
    BY <2>1 DEF Marked
  <2>3. QED
    BY <1>0, <2>1, <2>2, AccountKept
<1>6. QED
  BY <1>1, <1>2, <1>3, <1>4, <1>5 DEF Next, PublishPending

\* No step sends a row that is published, or forgets that it is.
LEMMA SentStays ==
    ASSUME Inv, [Next]_vars, NEW s \in Rows, status[s] = "published"
    PROVE  status'[s] = "published" /\ copies'[s] = copies[s]
<1>1. ASSUME NEW p \in Publishers, NEW r \in Rows, Send(p, r)
      PROVE  status'[s] = "published" /\ copies'[s] = copies[s]
  <2>1. r \in tx[p].todo
    BY <1>1 DEF Send, SendAcked, SendRejected, SendUnanswered, Interrupted, IsNext
  <2>2. r # s
    BY <2>1, NotMarked
  <2>3. QED
    BY <1>1, <2>2 DEF Send, SendAcked, SendRejected, SendUnanswered, Interrupted, table,
                      Inv, TypeOK
<1>2. ASSUME NEW p \in Publishers, Commit(p) \/ Crash(p)
      PROVE  status'[s] = "published" /\ copies'[s] = copies[s]
  BY <1>2 DEF Commit, Crash, table
<1>3. ASSUME NEW r \in Rows, Append(r)
      PROVE  status'[s] = "published" /\ copies'[s] = copies[s]
  BY <1>3 DEF Append, Inv, TypeOK
<1>4. QED
  BY <1>1, <1>2, <1>3 DEF Next, PublishPending, LockPendingBatch, Tick, vars, table

\* The inductive invariant holds throughout.
LEMMA Invariance == Spec => []Inv
<1>1. Init => Inv
  BY AttemptAssumption
     DEF Init, Inv, TypeOK, TxInv, LockInv, CopiesAccounted, Marked, NoTx
<1>2. Inv /\ [Next]_vars => Inv'
  BY TypeStep, LockStep, AccountStep DEF Inv
<1>3. QED
  BY <1>1, <1>2, PTL DEF Spec

\* Types, for any rows, publishers and backoff.
THEOREM TypeCorrect == Spec => []TypeOK
BY Invariance, PTL DEF Inv

\* Kafka holds each row as often as the table knows of plus once for every fault
\* that hid a send; in particular every row marked published is there.
THEOREM CopiesAreAccounted == Spec => []CopiesAccounted
BY Invariance, PTL DEF Inv

\* No publisher ever sends a row again once it is committed as published.
THEOREM NothingIsSentAgain == Spec => NeverSentAgain
<1>1. Inv /\ [Next]_vars =>
        [\A r \in Rows : status[r] = "published"
            => status'[r] = "published" /\ copies'[r] = copies[r]]_vars
  BY SentStays
<1>2. QED
  BY <1>1, Invariance, PTL DEF Spec, NeverSentAgain
=============================================================================
