---------------------------- MODULE BillingSafety ----------------------------
(***************************************************************************)
(* The safety of orders and subscriptions, for every set of users, orders, *)
(* keys and request handlers: an order is activated exactly once, no       *)
(* verdict contradicts the provider, no update of a subscription is lost   *)
(* and none changes what a user holds unannounced.  The argument is two    *)
(* inductive invariants over the types of BillingProofs: OrderInv for the  *)
(* orders and, on top of it, RowInv for the subscription rows.             *)
(***************************************************************************)
EXTENDS BillingProofs

Inv == TypeInv /\ OrderInv

\* What OrderInv asks of the request a handler h holds.
GoodRequest(h, r) ==
    /\ r.op = "apply" => /\ PendingAt(r.order) /\ Captured(r.order)
                         /\ \A g \in Handlers : handler[g].op = "apply"
                                /\ handler[g].order = r.order => g = h
    /\ r.op = "event" => /\ r.truth = "DONE" => Captured(r.order)
                         /\ r.truth \in {"REFUNDED", "ABORTED"}
                                => psp[r.order] \in {"REFUNDED", "ABORTED"}
    /\ r.op \in {"checkout", "checkoutSave"} =>
            /\ payments[r.order] = None
            /\ r.op = "checkout" => psp[r.order] = "NONE"
            /\ \A g \in Handlers : CheckingOut(g) /\ handler[g].order = r.order => g = h
    /\ r.op = "confirm" => payments[r.order] # None
    /\ r.op = "change" => r.next.version = Base(r.seen, "ACTIVE").version + 1

\* A step that changes no order and leaves a good request keeps the invariant.
LEMMA FrameStep ==
    ASSUME Inv, NEW h \in Handlers, NEW r, GoodRequest(h, r),
           handler' = [handler EXCEPT ![h] = r],
           UNCHANGED <<payments, psp, outbox>>,
           \A o \in shown' : o \in shown \/ payments[o] # None
    PROVE  OrderInv'
<1> DEFINE Same(o) == /\ PendingAt(o)' = PendingAt(o) /\ Captured(o)' = Captured(o)
                      /\ SucceededAt(o)' = SucceededAt(o) /\ FailedAt(o)' = FailedAt(o)
<1>1. \A o : Same(o)
  BY DEF PendingAt, SucceededAt, FailedAt, Captured
<1>2. \A g \in Handlers : handler'[g] = IF g = h THEN r ELSE handler[g]
  BY DEF Inv, TypeInv, TypeOK
<1>3. ActivatedOnce' /\ VerdictMatchesProvider'
  BY <1>1 DEF Inv, OrderInv, ActivatedOnce, VerdictMatchesProvider
<1>4. LockExclusive' /\ ApplyPending'
  BY <1>1, <1>2 DEF Inv, OrderInv, LockExclusive, ApplyPending, GoodRequest
<1>5. EventTruth'
  BY <1>1, <1>2 DEF Inv, OrderInv, EventTruth, GoodRequest
<1>6. CheckoutFresh'
  BY <1>2 DEF Inv, OrderInv, CheckoutFresh, CheckingOut, GoodRequest
<1>7. OpenedOrders'
  BY <1>1, <1>2 DEF Inv, OrderInv, OpenedOrders, GoodRequest
<1>8. ChangeCounts'
  BY <1>2 DEF Inv, OrderInv, ChangeCounts, GoodRequest, Base
<1>9. QED
  BY <1>3, <1>4, <1>5, <1>6, <1>7, <1>8 DEF OrderInv

\* In particular one that leaves the handler idle.
LEMMA FinishStep ==
    ASSUME Inv, NEW h \in Handlers, Finish(h), UNCHANGED <<payments, psp, outbox>>,
           \A o \in shown' : o \in shown \/ payments[o] # None
    PROVE  OrderInv'
<1>1. GoodRequest(h, Idle)
  BY DEF GoodRequest, Idle
<1>2. QED
  BY <1>1, FrameStep DEF Finish

\* The moves of an order at the provider, and what they leave a request.
Moves(from, to) ==
    \/ from = "NONE" /\ to = "READY"
    \/ from = "READY" /\ to \in {"DONE", "ABORTED"}
    \/ from = "DONE" /\ to = "REFUNDED"

Bystander(g, o, to) ==
    \/ /\ handler'[g] = handler[g]
       /\ to = "READY" => ~(handler[g].op = "checkout" /\ handler[g].order = o)
    \/ /\ handler'[g].op = "event" /\ handler'[g].order = o
       /\ handler'[g].truth = "DONE" /\ to = "DONE"
    \/ /\ handler'[g].op = "checkoutSave" /\ handler'[g].order = handler[g].order
       /\ handler[g].op = "checkout"

\* A step of the provider on one order: it never takes back a capture or a
\* failure, and captures only opened orders.
LEMMA ProviderStep ==
    ASSUME Inv, NEW o \in Orders, NEW s \in ProviderStatuses, Moves(psp[o], s),
           psp' = [psp EXCEPT ![o] = s], s = "DONE" => payments[o] # None,
           UNCHANGED <<payments, outbox, shown>>,
           \A g \in Handlers : Bystander(g, o, s)
    PROVE  OrderInv'
<1>1. \A x : /\ PendingAt(x)' = PendingAt(x) /\ SucceededAt(x)' = SucceededAt(x)
             /\ FailedAt(x)' = FailedAt(x)
  BY DEF PendingAt, SucceededAt, FailedAt
<1>2. \A x \in Orders : psp'[x] = IF x = o THEN s ELSE psp[x]
  BY DEF Inv, TypeInv, TypeOK
<1>3. \A x \in Orders :
        /\ Captured(x) => Captured(x)'
        /\ psp[x] \in {"REFUNDED", "ABORTED"} => psp'[x] \in {"REFUNDED", "ABORTED"}
        /\ Captured(x)' => Captured(x) \/ payments[x] # None
  BY <1>2 DEF Moves, Captured, Inv, OrderInv, OpenedOrders
<1>4. \A g \in Handlers : handler[g].op \in {"apply", "event", "checkout", "checkoutSave"}
                            => handler[g].order \in Orders
  BY HandlerShape DEF Inv, TypeInv, ApplyState, EventState, CheckoutState
<1>5. ActivatedOnce' /\ VerdictMatchesProvider'
  BY <1>1, <1>3 DEF Inv, OrderInv, ActivatedOnce, VerdictMatchesProvider
<1>6. \A g \in Handlers : handler'[g].op \in {"apply", "confirm", "change"} => handler'[g] = handler[g]
  BY DEF Bystander
<1>7. LockExclusive' /\ ApplyPending'
  BY <1>1, <1>3, <1>4, <1>6 DEF Inv, OrderInv, LockExclusive, ApplyPending
<1>8. EventTruth'
  <2> SUFFICES ASSUME NEW g \in Handlers, handler'[g].op = "event"
               PROVE  /\ handler'[g].truth = "DONE" => psp'[handler'[g].order] \in {"DONE", "REFUNDED"}
                      /\ handler'[g].truth \in {"REFUNDED", "ABORTED"}
                            => psp'[handler'[g].order] \in {"REFUNDED", "ABORTED"}
    BY DEF EventTruth, Captured
  <2>1. CASE handler'[g] = handler[g]
    BY <1>3, <1>4, <2>1 DEF Inv, OrderInv, EventTruth, Captured
  <2>2. CASE handler'[g].order = o /\ handler'[g].truth = "DONE" /\ s = "DONE"
    BY <1>2, <2>2
  <2>3. QED
    BY <2>1, <2>2 DEF Bystander
<1>9. CheckoutFresh'
  <2>1. \A g \in Handlers : CheckingOut(g)' => /\ CheckingOut(g)
                                              /\ handler'[g].order = handler[g].order
    BY DEF CheckingOut, Bystander
  <2>2. \A g \in Handlers : handler'[g].op = "checkout" => psp'[handler'[g].order] = "NONE"
    BY <1>2, <1>4 DEF Bystander, Moves, Inv, OrderInv, CheckoutFresh, CheckingOut
  <2>3. QED
    BY <2>1, <2>2 DEF Inv, OrderInv, CheckoutFresh
<1>10. OpenedOrders'
  BY <1>3, <1>6 DEF Inv, OrderInv, OpenedOrders
<1>11. ChangeCounts'
  BY <1>6 DEF Inv, OrderInv, ChangeCounts, Base
<1>12. QED
  BY <1>5, <1>7, <1>8, <1>9, <1>10, <1>11 DEF OrderInv

\* The verdict on a pending order, given by the one request that may give it.
LEMMA VerdictStep ==
    ASSUME Inv, NEW h \in Handlers, Finish(h), NEW o \in Orders, PendingAt(o),
           \A g \in Handlers : g # h => ~(handler[g].op = "apply" /\ handler[g].order = o),
           UNCHANGED <<psp, shown>>, NEW status \in {"SUCCEEDED", "FAILED"},
           payments' = [payments EXCEPT ![o] = Payment(payments[o], status)],
           status = "SUCCEEDED" => /\ Captured(o)
                                   /\ outbox' = [outbox EXCEPT ![o] = outbox[o] + 1],
           status = "FAILED" => psp[o] \in {"REFUNDED", "ABORTED"} /\ outbox' = outbox
    PROVE  OrderInv'
<1>1. \A x \in Orders : payments'[x] = IF x = o THEN Payment(payments[o], status) ELSE payments[x]
  BY DEF Inv, TypeInv, TypeOK
<1>2. payments[o] \in PaymentRow
  BY DEF PendingAt, Inv, TypeInv, TypeOK
<1>3. Payment(payments[o], status).status = status /\ Payment(payments[o], status) # None
  BY <1>2, PaymentType DEF Payment, PaymentRow
<1>4. \A x \in Orders : x # o => /\ PendingAt(x)' = PendingAt(x) /\ SucceededAt(x)' = SucceededAt(x)
                                  /\ FailedAt(x)' = FailedAt(x)
  BY <1>1 DEF PendingAt, SucceededAt, FailedAt
<1>5. /\ SucceededAt(o)' <=> status = "SUCCEEDED"
      /\ FailedAt(o)' <=> status = "FAILED"
      /\ ~SucceededAt(o) /\ payments'[o] # None
  BY <1>1, <1>3 DEF SucceededAt, FailedAt, PendingAt
<1>6. \A x : Captured(x)' = Captured(x)
  BY DEF Captured
<1>7. \A g \in Handlers : handler'[g] = IF g = h THEN Idle ELSE handler[g]
  BY DEF Finish, Inv, TypeInv, TypeOK
<1>8. \A g \in Handlers : handler[g].op \in {"apply", "confirm", "checkout", "checkoutSave"}
                            => handler[g].order \in Orders
  BY HandlerShape DEF Inv, TypeInv, ApplyState, ConfirmState, CheckoutState
<1>9. ActivatedOnce'
  <2>1. outbox[o] = 0 /\ outbox \in [Orders -> Nat]
    BY <1>5 DEF Inv, OrderInv, ActivatedOnce, TypeInv, TypeOK
  <2>2. outbox'[o] = IF SucceededAt(o)' THEN 1 ELSE 0
    BY <1>5, <2>1
  <2>3. \A x \in Orders : x # o => outbox'[x] = outbox[x]
    BY <2>1
  <2>4. QED
    BY <1>4, <2>2, <2>3 DEF Inv, OrderInv, ActivatedOnce
<1>10. VerdictMatchesProvider'
  BY <1>4, <1>5, <1>6 DEF Inv, OrderInv, VerdictMatchesProvider
<1>11. LockExclusive' /\ ApplyPending' /\ EventTruth'
  BY <1>4, <1>6, <1>7, <1>8 DEF Idle, Inv, OrderInv, LockExclusive, ApplyPending, EventTruth
<1>12. CheckoutFresh'
  <2>1. payments[o] # None
    BY DEF PendingAt
  <2>2. QED
    BY <1>1, <1>7, <1>8, <2>1 DEF Idle, Inv, OrderInv, CheckoutFresh, CheckingOut
<1>13. OpenedOrders'
  BY <1>1, <1>3, <1>6, <1>7, <1>8 DEF Idle, Inv, OrderInv, OpenedOrders
<1>14. ChangeCounts'
  BY <1>7 DEF Idle, Inv, OrderInv, ChangeCounts, Base
<1>15. QED
  BY <1>9, <1>10, <1>11, <1>12, <1>13, <1>14 DEF OrderInv

-----------------------------------------------------------------------------
(* OrderInv is kept, one lemma per group of actions.                       *)

LEMMA CheckoutOrders ==
    ASSUME Inv, NEW h \in Handlers, Checkout(h)
    PROVE  OrderInv'
<1>0. \A u, k : \A o \in PaymentFor(u, k) : payments[o] # None
  BY DEF PaymentFor
<1>1. ASSUME NEW u \in Users, NEW k \in Keys, CheckoutReuse(h, u, k)
      PROVE  OrderInv'
  <2>1. handler[h] = Idle /\ handler' = [handler EXCEPT ![h] = Idle]
    BY <1>1 DEF CheckoutReuse, Inv, TypeInv, TypeOK
  <2>2. /\ UNCHANGED <<payments, psp, outbox>>
        /\ \A o \in shown' : o \in shown \/ payments[o] # None
    BY <1>0, <1>1 DEF CheckoutReuse, rows, provider
  <2>3. QED
    BY <2>1, <2>2, FinishStep DEF Finish
<1>2. ASSUME NEW u \in Users, NEW plan \in PaidPlans, NEW k \in Keys, NEW o \in Orders,
             CheckoutBegin(h, u, plan, k, o)
      PROVE  OrderInv'
  <2> DEFINE r == CheckoutRequest("checkout", u, plan, k, o, u \in accounts)
  <2>1. /\ handler' = [handler EXCEPT ![h] = r] /\ UNCHANGED <<payments, psp, outbox, shown>>
        /\ payments[o] = None /\ psp[o] = "NONE" /\ ~InUse(o)
    BY <1>2 DEF CheckoutBegin, rows, provider
  <2>2. r.op = "checkout" /\ r.order = o
    BY DEF CheckoutRequest
  <2> HIDE DEF r
  <2>3. GoodRequest(h, r)
    BY <2>1, <2>2 DEF GoodRequest, InUse, CheckingOut
  <2>4. QED
    BY <2>1, <2>3, FrameStep
<1>3. CASE CheckoutAtProvider(h)
  <2> DEFINE q == handler[h]
             o == q.order
             r == CheckoutRequest("checkoutSave", q.user, q.plan, q.key, o, q.hadAccount)
  <2>1. /\ q.op = "checkout" /\ handler' = [handler EXCEPT ![h] = r]
        /\ psp' = [psp EXCEPT ![o] = "READY"] /\ UNCHANGED <<payments, outbox, shown>>
    BY <1>3 DEF CheckoutAtProvider, rows
  <2>2. o \in Orders /\ psp[o] = "NONE"
    BY <2>1, HandlerShape DEF Inv, TypeInv, CheckoutState, OrderInv, CheckoutFresh, CheckingOut
  <2>3. r.op = "checkoutSave" /\ r.order = o
    BY DEF CheckoutRequest
  <2>4. \A g \in Handlers : handler'[g] = IF g = h THEN r ELSE handler[g]
    BY <2>1 DEF Inv, TypeInv, TypeOK
  <2>5. \A g \in Handlers : g # h => ~(handler[g].op = "checkout" /\ handler[g].order = o)
    BY <2>1 DEF Inv, OrderInv, CheckoutFresh, CheckingOut
  <2> HIDE DEF r
  <2>6. \A g \in Handlers : Bystander(g, o, "READY")
    BY <2>1, <2>3, <2>4, <2>5 DEF Bystander
  <2>7. Moves(psp[o], "READY") /\ "READY" \in ProviderStatuses /\ "READY" # "DONE"
    BY <2>2 DEF Moves, ProviderStatuses
  <2> HIDE DEF o
  <2>8. QED
    BY <2>1, <2>2, <2>6, <2>7, ProviderStep
<1>4. CASE CheckoutRefused(h)
  BY <1>4, FinishStep DEF CheckoutRefused, rows, provider
<1>5. CASE CheckoutSave(h)
  <2> DEFINE r == handler[h]
             o == r.order
  <2>1. /\ r.op = "checkoutSave" /\ Finish(h) /\ shown' = shown \cup {o}
        /\ payments' = [payments EXCEPT ![o] = Payment(r, "PENDING")]
        /\ UNCHANGED <<psp, outbox>>
    BY <1>5 DEF CheckoutSave, provider
  <2>2. r \in CheckoutState
    BY <2>1, HandlerShape DEF Inv, TypeInv
  <2>3. o \in Orders /\ Payment(r, "PENDING") # None /\ Payment(r, "PENDING").status = "PENDING"
    BY <2>2, PaymentType DEF CheckoutState, Payment
  <2>4. /\ payments[o] = None
        /\ \A g \in Handlers : CheckingOut(g) /\ handler[g].order = o => g = h
    BY <2>1 DEF Inv, OrderInv, CheckoutFresh, CheckingOut
  <2>5. \A x \in Orders : payments'[x] = IF x = o THEN Payment(r, "PENDING") ELSE payments[x]
    BY <2>1 DEF Inv, TypeInv, TypeOK
  <2>6. \A g \in Handlers : handler'[g] = IF g = h THEN Idle ELSE handler[g]
    BY <2>1 DEF Finish, Inv, TypeInv, TypeOK
  <2>7. \A g \in Handlers : handler[g].op \in {"apply", "confirm", "checkout", "checkoutSave"}
                            => handler[g].order \in Orders
    BY HandlerShape DEF Inv, TypeInv, ApplyState, ConfirmState, CheckoutState
  <2> HIDE DEF r, o
  <2>8. \A x \in Orders : /\ SucceededAt(x)' <=> SucceededAt(x)
                          /\ FailedAt(x)' <=> FailedAt(x)
                          /\ PendingAt(x) => PendingAt(x)'
                          /\ payments[x] # None => payments'[x] # None
    BY <2>3, <2>4, <2>5 DEF SucceededAt, FailedAt, PendingAt
  <2>9. \A x : Captured(x)' = Captured(x)
    BY <2>1 DEF Captured
  <2>10. ActivatedOnce' /\ VerdictMatchesProvider'
    BY <2>1, <2>8, <2>9 DEF Inv, OrderInv, ActivatedOnce, VerdictMatchesProvider
  <2>11. LockExclusive' /\ ApplyPending' /\ EventTruth'
    BY <2>1, <2>6, <2>7, <2>8, <2>9
    DEF Idle, Inv, OrderInv, LockExclusive, ApplyPending, EventTruth
  <2>12. CheckoutFresh'
    BY <2>1, <2>4, <2>5, <2>6, <2>7 DEF Idle, Inv, OrderInv, CheckoutFresh, CheckingOut
  <2>13. OpenedOrders'
    BY <2>1, <2>3, <2>5, <2>6, <2>7, <2>8, <2>9 DEF Idle, Inv, OrderInv, OpenedOrders
  <2>14. ChangeCounts'
    BY <2>6 DEF Idle, Inv, OrderInv, ChangeCounts, Base
  <2>15. QED
    BY <2>10, <2>11, <2>12, <2>13, <2>14 DEF OrderInv
<1>6. CASE CheckoutLostRace(h)
  <2>1. /\ Finish(h) /\ UNCHANGED <<payments, psp, outbox>>
        /\ shown' = shown \cup PaymentFor(handler[h].user, handler[h].key)
    BY <1>6 DEF CheckoutLostRace, rows, provider
  <2>2. QED
    BY <1>0, <2>1, FinishStep
<1>7. QED
  BY <1>1, <1>2, <1>3, <1>4, <1>5, <1>6 DEF Checkout

LEMMA ConfirmOrders ==
    ASSUME Inv, NEW h \in Handlers,
           (\E o \in Orders : ConfirmBegin(h, o)) \/ ConfirmAtProvider(h)
    PROVE  OrderInv'
<1>1. ASSUME NEW o \in Orders, ConfirmBegin(h, o)
      PROVE  OrderInv'
  <2> DEFINE r == [op |-> "confirm", order |-> o]
  <2>1. /\ PendingAt(o) /\ handler' = [handler EXCEPT ![h] = r]
        /\ UNCHANGED <<payments, psp, outbox, shown>>
    BY <1>1 DEF ConfirmBegin, rows, provider
  <2>2. GoodRequest(h, r)
    BY <2>1 DEF GoodRequest, PendingAt
  <2> HIDE DEF r
  <2>3. QED
    BY <2>1, <2>2, FrameStep
<1>2. CASE ConfirmAtProvider(h)
  <2> DEFINE o == handler[h].order
  <2>1. o \in Orders /\ payments[o] # None
    BY <1>2, HandlerShape
    DEF ConfirmAtProvider, Inv, TypeInv, ConfirmState, OrderInv, OpenedOrders
  <2>2. UNCHANGED <<payments, outbox, shown>>
    BY <1>2 DEF ConfirmAtProvider, rows
  <2>3. CASE /\ psp[o] = "READY" /\ psp' = [psp EXCEPT ![o] = "DONE"]
             /\ handler' = [handler EXCEPT ![h] = Event(o, "DONE", None)]
    <3>1. \A g \in Handlers : handler'[g] = IF g = h THEN Event(o, "DONE", None) ELSE handler[g]
      BY <2>3 DEF Inv, TypeInv, TypeOK
    <3>2. /\ Event(o, "DONE", None).op = "event" /\ Event(o, "DONE", None).order = o
          /\ Event(o, "DONE", None).truth = "DONE"
      BY DEF Event
    <3>3. \A g \in Handlers : Bystander(g, o, "DONE")
      BY <3>1, <3>2 DEF Bystander
    <3>4. Moves(psp[o], "DONE") /\ "DONE" \in ProviderStatuses
      BY <2>3 DEF Moves, ProviderStatuses
    <3> HIDE DEF o
    <3>5. QED
      BY <2>1, <2>2, <2>3, <3>3, <3>4, ProviderStep
  <2>4. CASE psp[o] = "READY" /\ psp' = psp /\ handler' = [handler EXCEPT ![h] = Event(o, "READY", None)]
    <3>1. GoodRequest(h, Event(o, "READY", None))
      BY DEF GoodRequest, Event
    <3>2. QED
      BY <2>2, <2>4, <3>1, FrameStep
  <2>5. CASE /\ psp[o] \in {"DONE", "REFUNDED"} /\ psp' = psp
             /\ handler' = [handler EXCEPT ![h] = Event(o, "DONE", None)]
    <3>1. GoodRequest(h, Event(o, "DONE", None))
      BY <2>5 DEF GoodRequest, Event, Captured
    <3>2. QED
      BY <2>2, <2>5, <3>1, FrameStep
  <2>6. CASE psp' = psp /\ Finish(h)
    BY <2>2, <2>6, FinishStep
  <2>7. QED
    BY <1>2, <2>3, <2>4, <2>5, <2>6 DEF ConfirmAtProvider
<1>3. QED
  BY <1>1, <1>2

LEMMA WebhookOrders ==
    ASSUME Inv, NEW h \in Handlers, NEW n \in Notices, WebhookFetch(h, n)
    PROVE  OrderInv'
<1>1. GoodRequest(h, Event(n[1], psp[n[1]], n))
  BY DEF GoodRequest, Event, Captured
<1>2. /\ handler' = [handler EXCEPT ![h] = Event(n[1], psp[n[1]], n)]
      /\ UNCHANGED <<payments, psp, outbox, shown>>
  BY DEF WebhookFetch, rows, provider
<1>3. QED
  BY <1>1, <1>2, FrameStep

LEMMA EventOrders ==
    ASSUME Inv, NEW h \in Handlers, HandleEvent(h)
    PROVE  OrderInv'
<1> DEFINE e == handler[h]
<1>1. e \in EventState /\ e.op = "event" /\ e.order \in Orders
  BY HandlerShape
  DEF Inv, TypeInv, HandleEvent, EventPending, EventDuplicate, EventRefused, EventFails,
      ApplyBegin, EventState
<1>2. CASE EventPending(h) \/ EventDuplicate(h) \/ EventRefused(h)
  BY <1>2, FinishStep DEF EventPending, EventDuplicate, EventRefused, rows, provider
<1>3. CASE EventFails(h)
  <2>1. /\ Finish(h) /\ UNCHANGED <<psp, shown, outbox>>
        /\ PendingAt(e.order) /\ ~Locked(e.order) /\ e.truth \in {"REFUNDED", "ABORTED"}
        /\ \/ payments' = payments
           \/ payments' = [payments EXCEPT ![e.order] = Payment(payments[e.order], "FAILED")]
    BY <1>3 DEF EventFails, provider
  <2>2. CASE payments' = payments
    BY <2>1, <2>2, FinishStep
  <2>3. CASE payments' = [payments EXCEPT ![e.order] = Payment(payments[e.order], "FAILED")]
    <3>1. psp[e.order] \in {"REFUNDED", "ABORTED"}
      BY <1>1, <2>1 DEF Inv, OrderInv, EventTruth
    <3>2. \A g \in Handlers : ~(handler[g].op = "apply" /\ handler[g].order = e.order)
      BY <2>1 DEF Locked
    <3> HIDE DEF e
    <3>3. QED
      BY <1>1, <2>1, <2>3, <3>1, <3>2, VerdictStep
  <2>4. QED
    BY <2>1, <2>2, <2>3
<1>4. CASE ApplyBegin(h)
  <2> DEFINE r == [op |-> "apply", order |-> e.order, notice |-> e.notice,
                   seen |-> subscriptions[payments[e.order].user]]
  <2>1. /\ handler' = [handler EXCEPT ![h] = r] /\ UNCHANGED <<payments, psp, outbox, shown>>
        /\ PendingAt(e.order) /\ ~Locked(e.order) /\ e.truth = "DONE"
    BY <1>4 DEF ApplyBegin, rows, provider
  <2>2. Captured(e.order)
    BY <1>1, <2>1 DEF Inv, OrderInv, EventTruth
  <2>3. GoodRequest(h, r)
    BY <2>1, <2>2 DEF GoodRequest, Locked
  <2> HIDE DEF r
  <2>4. QED
    BY <2>1, <2>3, FrameStep
<1>5. QED
  BY <1>2, <1>3, <1>4 DEF HandleEvent

LEMMA ApplyOrders ==
    ASSUME Inv, NEW h \in Handlers, Apply(h)
    PROVE  OrderInv'
<1> DEFINE o == handler[h].order
<1>1. handler[h].op = "apply" /\ o \in Orders
  BY HandlerShape DEF Inv, TypeInv, Apply, ApplyCommit, ApplyConflict, ApplyStale, ApplyState
<1>2. CASE ApplyCommit(h)
  <2>1. PendingAt(o) /\ Captured(o)
    BY <1>1 DEF Inv, OrderInv, ApplyPending
  <2>2. \A g \in Handlers : g # h => ~(handler[g].op = "apply" /\ handler[g].order = o)
    BY <1>1 DEF Inv, OrderInv, LockExclusive
  <2>3. /\ Finish(h) /\ UNCHANGED <<psp, shown>>
        /\ payments' = [payments EXCEPT ![o] = Payment(payments[o], "SUCCEEDED")]
        /\ outbox' = [outbox EXCEPT ![o] = outbox[o] + 1]
    BY <1>2 DEF ApplyCommit, provider
  <2> HIDE DEF o
  <2>4. QED
    BY <1>1, <2>1, <2>2, <2>3, VerdictStep
<1>3. CASE ApplyConflict(h) \/ ApplyStale(h)
  BY <1>3, FinishStep DEF ApplyConflict, ApplyStale, rows, provider
<1>4. QED
  BY <1>2, <1>3 DEF Apply

\* A change holds the version it will write.
LEMMA ChangeRequestGood ==
    ASSUME NEW h \in Handlers, NEW u, NEW next, NEW plan,
           next.version = Base(subscriptions[u], "ACTIVE").version + 1
    PROVE  GoodRequest(h, Change(u, next, plan))
<1> DEFINE r == Change(u, next, plan)
<1>1. r.op = "change" /\ r.next = next /\ r.seen = subscriptions[u]
  BY DEF Change
<1> HIDE DEF r
<1>2. GoodRequest(h, r)
  BY <1>1 DEF GoodRequest
<1>3. QED
  BY <1>2 DEF r

LEMMA SelfServiceOrders ==
    ASSUME Inv, NEW h \in Handlers, SelfService(h)
    PROVE  OrderInv'
<1>1. ASSUME NEW u \in Users, NEW target \in PaidPlans, ScheduleDowngrade(h, u, target)
      PROVE  OrderInv'
  <2> DEFINE sub == subscriptions[u]
             at == IF sub.currentPeriodEnd # None THEN sub.currentPeriodEnd ELSE now
             next == schedulePlanChange(sub, target, at)
  <2>1. /\ sub # None /\ UNCHANGED <<payments, psp, outbox, shown>>
        /\ handler' = [handler EXCEPT ![h] = Change(u, next, None)]
    BY <1>1 DEF ScheduleDowngrade, rows, provider
  <2>2. next.version = Base(sub, "ACTIVE").version + 1
    BY <2>1 DEF schedulePlanChange, Base
  <2> HIDE DEF next
  <2>3. GoodRequest(h, Change(u, next, None))
    BY <2>2, ChangeRequestGood
  <2>4. QED
    BY <2>1, <2>3, FrameStep
<1>2. ASSUME NEW u \in Users, CancelAtPeriodEnd(h, u)
      PROVE  OrderInv'
  <2> DEFINE next == scheduleCancellation(subscriptions[u])
  <2>1. /\ subscriptions[u] # None /\ UNCHANGED <<payments, psp, outbox, shown>>
        /\ handler' = [handler EXCEPT ![h] = Change(u, next, None)]
    BY <1>2 DEF CancelAtPeriodEnd, rows, provider
  <2>2. next.version = Base(subscriptions[u], "ACTIVE").version + 1
    BY <2>1 DEF scheduleCancellation, Base
  <2> HIDE DEF next
  <2>3. GoodRequest(h, Change(u, next, None))
    BY <2>2, ChangeRequestGood
  <2>4. QED
    BY <2>1, <2>3, FrameStep
<1>3. ASSUME NEW u \in Users, NEW target \in Plans, SwitchPlan(h, u, target)
      PROVE  OrderInv'
  <2> DEFINE next == activate(Base(subscriptions[u], "ACTIVE"), target, now)
  <2>1. /\ UNCHANGED <<payments, psp, outbox, shown>>
        /\ handler' = [handler EXCEPT ![h] = Change(u, next, target)]
    BY <1>3 DEF SwitchPlan, rows, provider
  <2>2. next.version = Base(subscriptions[u], "ACTIVE").version + 1
    BY DEF activate
  <2> HIDE DEF next
  <2>3. GoodRequest(h, Change(u, next, target))
    BY <2>2, ChangeRequestGood
  <2>4. QED
    BY <2>1, <2>3, FrameStep
<1>4. ASSUME NEW u \in Users, SwitchToFree(h, u)
      PROVE  OrderInv'
  <2>1. handler[h] = Idle /\ handler' = [handler EXCEPT ![h] = Idle]
    BY <1>4 DEF SwitchToFree, Inv, TypeInv, TypeOK
  <2>2. UNCHANGED <<payments, psp, outbox, shown>>
    BY <1>4 DEF SwitchToFree, provider
  <2>3. QED
    BY <2>1, <2>2, FinishStep DEF Finish
<1>5. CASE ChangeCommit(h) \/ ChangeStale(h)
  BY <1>5, FinishStep DEF ChangeCommit, ChangeStale, rows, provider
<1>6. QED
  BY <1>1, <1>2, <1>3, <1>4, <1>5 DEF SelfService

\* A step that touches none of what the invariant speaks of.
LEMMA StutterOrders ==
    ASSUME OrderInv, UNCHANGED <<payments, psp, outbox, shown, handler>>
    PROVE  OrderInv'
BY DEF OrderInv, ActivatedOnce, VerdictMatchesProvider, LockExclusive, ApplyPending, EventTruth,
       CheckoutFresh, CheckingOut, OpenedOrders, ChangeCounts, Base,
       PendingAt, SucceededAt, FailedAt, Captured

LEMMA EnvironmentOrders ==
    ASSUME Inv, Tick \/ (\E o \in Orders, s \in ProviderStatuses : ProviderMoves(o, s))
                \/ (\E h \in Handlers : Crash(h)) \/ Calm
    PROVE  OrderInv'
<1>1. CASE Tick \/ Calm
  BY <1>1, StutterOrders DEF Tick, Calm, Inv, rows, provider
<1>2. ASSUME NEW o \in Orders, NEW s \in ProviderStatuses, ProviderMoves(o, s)
      PROVE  OrderInv'
  <2>1. /\ Moves(psp[o], s) /\ s # "READY"
        /\ s = "DONE" => o \in shown
        /\ psp' = [psp EXCEPT ![o] = s] /\ UNCHANGED <<payments, outbox, shown, handler>>
    BY <1>2 DEF ProviderMoves, Moves, rows
  <2>2. s = "DONE" => payments[o] # None
    BY <2>1 DEF Inv, OrderInv, OpenedOrders
  <2>3. \A g \in Handlers : Bystander(g, o, s)
    BY <2>1 DEF Bystander
  <2>4. QED
    BY <2>1, <2>2, <2>3, ProviderStep
<1>3. ASSUME NEW h \in Handlers, Crash(h)
      PROVE  OrderInv'
  BY <1>3, FinishStep DEF Crash, rows, provider
<1>4. QED
  BY <1>1, <1>2, <1>3

LEMMA OrderInit == Init => OrderInv
<1> SUFFICES ASSUME Init PROVE OrderInv
  OBVIOUS
<1>1. \A h \in Handlers : handler[h].op = "idle"
  BY DEF Init, Idle
<1>2. \A o \in Orders : ~SucceededAt(o) /\ ~FailedAt(o) /\ ~Captured(o)
  BY DEF Init, SucceededAt, FailedAt, Captured
<1>3. ActivatedOnce /\ VerdictMatchesProvider
  BY <1>2 DEF Init, ActivatedOnce, VerdictMatchesProvider
<1>4. OpenedOrders
  BY <1>1, <1>2 DEF Init, OpenedOrders
<1>5. LockExclusive /\ ApplyPending /\ EventTruth /\ CheckoutFresh /\ ChangeCounts
  BY <1>1 DEF LockExclusive, ApplyPending, EventTruth, CheckoutFresh, CheckingOut, ChangeCounts
<1>6. QED
  BY <1>3, <1>4, <1>5 DEF OrderInv

LEMMA InvNext == Inv /\ [Next \/ Calm]_vars => Inv'
<1> SUFFICES ASSUME Inv, [Next \/ Calm]_vars PROVE Inv'
  OBVIOUS
<1>1. TypeInv'
  BY TypeNext DEF Inv
<1>2. ASSUME UNCHANGED vars PROVE OrderInv'
  <2>1. UNCHANGED <<payments, psp, outbox, shown, handler>>
    BY <1>2 DEF vars, rows, provider
  <2>2. OrderInv
    BY DEF Inv
  <2>3. QED
    BY <2>1, <2>2, StutterOrders
<1>3. ASSUME Next \/ Calm PROVE OrderInv'
  BY <1>3, CheckoutOrders, ConfirmOrders, WebhookOrders, EventOrders, ApplyOrders,
     SelfServiceOrders, EnvironmentOrders DEF Next
<1>4. OrderInv'
  BY <1>2, <1>3
<1>5. QED
  BY <1>1, <1>4 DEF Inv

\* The inductive invariant holds of every run.
LEMMA SpecInv == Spec => []Inv
<1>1. Init => Inv
  BY TypeInit, OrderInit DEF Inv
<1>2. Inv /\ [Next]_vars => Inv'
  BY InvNext
<1>3. QED
  BY <1>1, <1>2, PTL DEF Spec

\* An order is activated once if its payment succeeded and never otherwise,
\* under any interleaving of confirmations, webhooks, redeliveries and crashes.
THEOREM ActivationIsOnce == Spec => []ActivatedOnce
<1>1. Inv => ActivatedOnce
  BY DEF Inv, OrderInv
<1>2. QED
  BY <1>1, SpecInv, PTL

\* No payment succeeds without captured money, and none fails that can still
\* be captured.
THEOREM VerdictsMatch == Spec => []VerdictMatchesProvider
<1>1. Inv => VerdictMatchesProvider
  BY DEF Inv, OrderInv
<1>2. QED
  BY <1>1, SpecInv, PTL

\* PaymentConfirmationService and WebhookProcessingService: the lock of the payment
\* row, what a request was told and what an apply has read hold together at every
\* step, whatever confirmations, webhooks and checkouts race.
THEOREM OrdersAreSound == Spec => []OrderInv
<1>1. Inv => OrderInv
  BY DEF Inv
<1>2. QED
  BY <1>1, SpecInv, PTL

-----------------------------------------------------------------------------
(* The subscriptions.                                                      *)

\* What every row looks like.  A row without a period was never paid for.
Sound(sub) ==
    /\ sub.currentPlan \in Plans
    /\ sub.status \in {"ACTIVE", "CANCEL_AT_PERIOD_END"}
    /\ sub.cancelAtPeriodEnd <=> sub.status = "CANCEL_AT_PERIOD_END"
    /\ sub.currentPeriodEnd = None => sub.currentPlan = "FREE"
    /\ sub.pendingPlan # None => /\ sub.effectiveAt # None
                                 /\ sub.effectiveAt = sub.currentPeriodEnd

\* The plan that the events of a row have announced.
Told(sub) == IF sub = None \/ sub.currentPeriodEnd = None THEN None ELSE sub.currentPlan

\* A change that appends no event keeps the plan and the period; one that appends
\* an event begins a period and schedules nothing.
SoundChange(c) ==
    /\ Sound(c.next)
    /\ c.next.version = Base(c.seen, "ACTIVE").version + 1
    /\ c.plan = None => /\ c.seen # None
                        /\ c.next.currentPlan = c.seen.currentPlan
                        /\ c.next.currentPeriodEnd = c.seen.currentPeriodEnd
    /\ c.plan # None => /\ c.next.currentPlan = c.plan
                        /\ c.next.currentPeriodEnd # None
                        /\ c.next.status = "ACTIVE" /\ c.next.pendingPlan = None

\* A row that was read is older than the row that is there, or is that row.
Known(u, seen) ==
    seen # None =>
        /\ subscriptions[u] # None
        /\ seen.version <= subscriptions[u].version
        /\ seen.version = subscriptions[u].version => seen = subscriptions[u]

RowsAreSound == \A u \in Users : subscriptions[u] # None => Sound(subscriptions[u])
ChangesAreSound ==
    \A g \in Handlers : handler[g].op = "change" =>
        SoundChange(handler[g]) /\ Known(handler[g].user, handler[g].seen)
AppliesAreKnown ==
    \A g \in Handlers : handler[g].op = "apply" =>
        Known(payments[handler[g].order].user, handler[g].seen)

\* The unique index on the account and the key.
KeysAreUnique ==
    \A o1, o2 \in Orders :
        (/\ payments[o1] # None /\ payments[o2] # None
         /\ payments[o1].user = payments[o2].user /\ payments[o1].key = payments[o2].key)
        => o1 = o2

RowInv ==
    /\ VersionCountsTransitions /\ AnnouncedIsHeld
    /\ RowsAreSound /\ ChangesAreSound /\ AppliesAreKnown /\ KeysAreUnique

\* A payment keeps its user and its key.
PaymentsAreKept ==
    \A o \in Orders : payments[o] # None =>
        /\ payments'[o] # None
        /\ payments'[o].user = payments[o].user /\ payments'[o].key = payments[o].key

LEMMA SameKeys ==
    ASSUME KeysAreUnique, PaymentsAreKept,
           \A o \in Orders : payments'[o] # None => payments[o] # None
    PROVE  KeysAreUnique'
BY DEF KeysAreUnique, PaymentsAreKept

\* A step that leaves the subscriptions alone, and the request in good order.
LEMMA RowFrame ==
    ASSUME Inv, RowInv, NEW h \in Handlers, NEW r,
           handler' = [handler EXCEPT ![h] = r],
           UNCHANGED <<subscriptions, auditLog, announced>>,
           PaymentsAreKept, KeysAreUnique',
           r.op = "change" => SoundChange(r) /\ Known(r.user, r.seen),
           r.op = "apply" => Known(payments'[r.order].user, r.seen)
    PROVE  RowInv'
<1>1. \A g \in Handlers : handler'[g] = IF g = h THEN r ELSE handler[g]
  BY DEF Inv, TypeInv, TypeOK
<1>2. VersionCountsTransitions' /\ AnnouncedIsHeld' /\ RowsAreSound'
  BY DEF RowInv, VersionCountsTransitions, AnnouncedIsHeld, RowsAreSound, Sound
<1>3. \A u, seen : Known(u, seen) => Known(u, seen)'
  BY DEF Known
<1>4. \A c : SoundChange(c) => SoundChange(c)'
  BY DEF SoundChange, Sound, Base, create
<1>5. ChangesAreSound'
  BY <1>1, <1>3, <1>4 DEF RowInv, ChangesAreSound
<1>6. AppliesAreKnown'
  <2> SUFFICES ASSUME NEW g \in Handlers, handler'[g].op = "apply"
               PROVE  Known(payments[handler[g].order].user, handler[g].seen)'
    BY DEF AppliesAreKnown
  <2>1. CASE g = h
    BY <1>1, <1>3, <2>1
  <2>2. CASE g # h
    <3>1. handler'[g] = handler[g] /\ handler[g].order \in Orders
      BY <1>1, <2>2, HandlerShape DEF Inv, TypeInv, ApplyState
    <3>2. payments[handler[g].order] # None
      BY <3>1 DEF Inv, TypeInv
    <3>3. payments'[handler'[g].order].user = payments[handler[g].order].user
      BY <3>1, <3>2 DEF PaymentsAreKept
    <3>4. Known(payments[handler[g].order].user, handler[g].seen)
      BY <3>1 DEF RowInv, AppliesAreKnown
    <3>5. QED
      BY <1>3, <3>1, <3>3, <3>4
  <2>3. QED
    BY <2>1, <2>2
<1>7. QED
  BY <1>2, <1>5, <1>6 DEF RowInv

\* A transaction writes the row that follows the one it read.
LEMMA RowStep ==
    ASSUME Inv, RowInv, NEW h \in Handlers, Finish(h), PaymentsAreKept, KeysAreUnique',
           NEW u \in Users, NEW seen, NEW status, RowUnchanged(u, seen),
           NEW row \in SubscriptionRow, Sound(row), seen \in SubscriptionRow \cup {None},
           row.version = Base(seen, status).version + 1,
           subscriptions' = [subscriptions EXCEPT ![u] = row],
           auditLog' = [auditLog EXCEPT ![u] = auditLog[u] + 1],
           announced' = [announced EXCEPT ![u] = Told(row)]
    PROVE  RowInv'
<1>0. \A x \in Users : subscriptions[x] \in SubscriptionRow \cup {None}
  BY DEF Inv, TypeInv, TypeOK
<1>1. \A g \in Handlers : handler'[g] = IF g = h THEN Idle ELSE handler[g]
  BY DEF Finish, Inv, TypeInv, TypeOK
<1>2. \A x \in Users : /\ subscriptions'[x] = IF x = u THEN row ELSE subscriptions[x]
                       /\ auditLog'[x] = IF x = u THEN auditLog[u] + 1 ELSE auditLog[x]
                       /\ announced'[x] = IF x = u THEN Told(row) ELSE announced[x]
  BY DEF Inv, TypeInv, TypeOK
<1>3. row # None /\ row.version \in Nat
  BY NoneAssumption DEF SubscriptionRow
<1>4. /\ subscriptions[u] = None => row.version = 1
      /\ subscriptions[u] # None => row.version = subscriptions[u].version + 1
  BY DEF RowUnchanged, Base, create
<1>5. VersionCountsTransitions'
  BY <1>2, <1>3, <1>4 DEF RowInv, VersionCountsTransitions
<1>6. AnnouncedIsHeld'
  BY <1>2, <1>3 DEF RowInv, AnnouncedIsHeld, Told
<1>7. RowsAreSound'
  BY <1>2 DEF RowInv, RowsAreSound, Sound
<1>8. ASSUME NEW x \in Users, NEW old \in SubscriptionRow \cup {None}, Known(x, old)
      PROVE  Known(x, old)'
  <2>1. CASE x # u \/ old = None
    BY <1>2, <1>8, <2>1 DEF Known
  <2>2. CASE x = u /\ old # None
    <3>1. /\ subscriptions[u] # None /\ old.version <= subscriptions[u].version
          /\ old.version \in Nat /\ subscriptions[u].version \in Nat
      BY <1>0, <1>8, <2>2 DEF Known, SubscriptionRow
    <3>2. old.version < row.version
      BY <1>4, <3>1
    <3>3. QED
      BY <1>2, <1>3, <2>2, <3>1, <3>2 DEF Known
  <2>3. QED
    BY <2>1, <2>2
<1>9. ChangesAreSound'
  <2> SUFFICES ASSUME NEW g \in Handlers, handler'[g].op = "change"
               PROVE  (SoundChange(handler[g]) /\ Known(handler[g].user, handler[g].seen))'
    BY DEF ChangesAreSound
  <2>1. handler'[g] = handler[g]
    BY <1>1 DEF Idle
  <2>2. handler[g].user \in Users /\ handler[g].seen \in SubscriptionRow \cup {None}
    BY <2>1, HandlerShape DEF Inv, TypeInv, ChangeState
  <2>3. SoundChange(handler[g]) /\ Known(handler[g].user, handler[g].seen)
    BY <2>1 DEF RowInv, ChangesAreSound
  <2>4. SoundChange(handler[g])'
    BY <2>1, <2>3 DEF SoundChange, Sound, Base, create
  <2>5. QED
    BY <1>8, <2>1, <2>2, <2>3, <2>4
<1>10. AppliesAreKnown'
  <2> SUFFICES ASSUME NEW g \in Handlers, handler'[g].op = "apply"
               PROVE  Known(payments[handler[g].order].user, handler[g].seen)'
    BY DEF AppliesAreKnown
  <2>1. handler'[g] = handler[g]
    BY <1>1 DEF Idle
  <2>2. handler[g].order \in Orders /\ handler[g].seen \in SubscriptionRow \cup {None}
    BY <2>1, HandlerShape DEF Inv, TypeInv, ApplyState
  <2>3. payments[handler[g].order] # None
    BY <2>1 DEF Inv, TypeInv
  <2>4. payments[handler[g].order].user \in Users
    BY <2>2, <2>3 DEF Inv, TypeInv, TypeOK, PaymentRow
  <2>5. payments'[handler'[g].order].user = payments[handler[g].order].user
    BY <2>1, <2>2, <2>3 DEF PaymentsAreKept
  <2>6. Known(payments[handler[g].order].user, handler[g].seen)
    BY <2>1 DEF RowInv, AppliesAreKnown
  <2>7. QED
    BY <1>8, <2>1, <2>2, <2>4, <2>5, <2>6
<1>11. QED
  BY <1>5, <1>6, <1>7, <1>9, <1>10 DEF RowInv

\* Payments stay as they are.
LEMMA PaymentsStay ==
    ASSUME KeysAreUnique, UNCHANGED payments
    PROVE  PaymentsAreKept /\ KeysAreUnique'
BY DEF KeysAreUnique, PaymentsAreKept

\* The verdict on a payment leaves its user and its key.
LEMMA VerdictKeeps ==
    ASSUME Inv, KeysAreUnique, NEW o \in Orders, payments[o] # None,
           NEW status \in {"SUCCEEDED", "FAILED"},
           payments' = [payments EXCEPT ![o] = Payment(payments[o], status)]
    PROVE  PaymentsAreKept /\ KeysAreUnique'
<1> DEFINE p == Payment(payments[o], status)
<1>1. payments[o] \in PaymentRow
  BY DEF Inv, TypeInv, TypeOK
<1>2. p.user = payments[o].user /\ p.key = payments[o].key
  BY DEF Payment
<1>3. p # None
  BY <1>1, PaymentType DEF PaymentRow
<1> HIDE DEF p
<1>4. payments' = [payments EXCEPT ![o] = p]
  BY DEF p
<1>5. \A x \in Orders : payments'[x] = IF x = o THEN p ELSE payments[x]
  BY <1>4 DEF Inv, TypeInv, TypeOK
<1>6. PaymentsAreKept
  BY <1>2, <1>3, <1>5 DEF PaymentsAreKept
<1>7. \A x \in Orders : payments'[x] # None => payments[x] # None
  BY <1>5
<1>8. QED
  BY <1>6, <1>7, SameKeys

\* A request that ends without writing a subscription.
LEMMA RowIdle ==
    ASSUME Inv, RowInv, NEW h \in Handlers, Finish(h),
           UNCHANGED <<subscriptions, auditLog, announced>>, PaymentsAreKept, KeysAreUnique'
    PROVE  RowInv'
<1>1. Idle.op # "change" /\ Idle.op # "apply"
  BY DEF Idle
<1>2. QED
  BY <1>1, RowFrame DEF Finish

\* A request that goes on to a state without a subscription in it.
LEMMA RowQuiet ==
    ASSUME Inv, RowInv, NEW h \in Handlers, NEW r, r.op # "change", r.op # "apply",
           handler' = [handler EXCEPT ![h] = r],
           UNCHANGED <<subscriptions, auditLog, announced, payments>>
    PROVE  RowInv'
<1>1. PaymentsAreKept /\ KeysAreUnique'
  BY PaymentsStay DEF RowInv
<1>2. QED
  BY <1>1, RowFrame

LEMMA RowStutter ==
    ASSUME RowInv, UNCHANGED <<subscriptions, auditLog, announced, payments, handler>>
    PROVE  RowInv'
BY DEF RowInv, VersionCountsTransitions, AnnouncedIsHeld, RowsAreSound, ChangesAreSound,
       AppliesAreKnown, KeysAreUnique, Sound, SoundChange, Known, Base, create

LEMMA CheckoutRows ==
    ASSUME Inv, RowInv, NEW h \in Handlers, Checkout(h)
    PROVE  RowInv'
<1>1. ASSUME NEW u \in Users, NEW k \in Keys, CheckoutReuse(h, u, k)
      PROVE  RowInv'
  BY <1>1, RowStutter DEF CheckoutReuse, rows
<1>2. ASSUME NEW u \in Users, NEW plan \in PaidPlans, NEW k \in Keys, NEW o \in Orders,
             CheckoutBegin(h, u, plan, k, o)
      PROVE  RowInv'
  <2> DEFINE r == CheckoutRequest("checkout", u, plan, k, o, u \in accounts)
  <2>1. /\ handler' = [handler EXCEPT ![h] = r]
        /\ UNCHANGED <<subscriptions, auditLog, announced, payments>>
    BY <1>2 DEF CheckoutBegin, rows
  <2>2. r.op = "checkout"
    BY DEF CheckoutRequest
  <2> HIDE DEF r
  <2>3. QED
    BY <2>1, <2>2, RowQuiet
<1>3. CASE CheckoutAtProvider(h)
  <2> DEFINE q == handler[h]
             r == CheckoutRequest("checkoutSave", q.user, q.plan, q.key, q.order, q.hadAccount)
  <2>1. /\ handler' = [handler EXCEPT ![h] = r]
        /\ UNCHANGED <<subscriptions, auditLog, announced, payments>>
    BY <1>3 DEF CheckoutAtProvider, rows
  <2>2. r.op = "checkoutSave"
    BY DEF CheckoutRequest
  <2> HIDE DEF r
  <2>3. QED
    BY <2>1, <2>2, RowQuiet
<1>4. CASE CheckoutRefused(h) \/ CheckoutLostRace(h)
  <2>1. Finish(h) /\ UNCHANGED <<subscriptions, auditLog, announced, payments>>
    BY <1>4 DEF CheckoutRefused, CheckoutLostRace, rows
  <2>2. PaymentsAreKept /\ KeysAreUnique'
    BY <2>1, PaymentsStay DEF RowInv
  <2>3. QED
    BY <2>1, <2>2, RowIdle
<1>5. CASE CheckoutSave(h)
  <2> DEFINE r == handler[h]
             p == Payment(r, "PENDING")
  <2>1. /\ r.op = "checkoutSave" /\ Finish(h) /\ PaymentFor(r.user, r.key) = {}
        /\ payments' = [payments EXCEPT ![r.order] = p]
        /\ UNCHANGED <<subscriptions, auditLog, announced>>
    BY <1>5 DEF CheckoutSave, CheckoutConflict
  <2>2. r \in CheckoutState
    BY <2>1, HandlerShape DEF Inv, TypeInv
  <2>3. r.order \in Orders /\ p # None /\ p.user = r.user /\ p.key = r.key
    BY <2>2, PaymentType DEF CheckoutState, Payment
  <2>4. payments[r.order] = None
    BY <2>1 DEF Inv, OrderInv, CheckoutFresh, CheckingOut
  <2> HIDE DEF p
  <2>5. \A x \in Orders : payments'[x] = IF x = r.order THEN p ELSE payments[x]
    BY <2>1 DEF Inv, TypeInv, TypeOK
  <2>6. PaymentsAreKept
    BY <2>4, <2>5 DEF PaymentsAreKept
  <2>7. \A x \in Orders : payments[x] # None => ~(payments[x].user = r.user /\ payments[x].key = r.key)
    BY <2>1 DEF PaymentFor
  <2>8. KeysAreUnique'
    BY <2>3, <2>5, <2>7 DEF RowInv, KeysAreUnique
  <2>9. QED
    BY <2>1, <2>6, <2>8, RowIdle
<1>6. QED
  BY <1>1, <1>2, <1>3, <1>4, <1>5 DEF Checkout

LEMMA ConfirmRows ==
    ASSUME Inv, RowInv, NEW h \in Handlers,
           (\E o \in Orders : ConfirmBegin(h, o)) \/ ConfirmAtProvider(h)
           \/ (\E n \in Notices : WebhookFetch(h, n))
    PROVE  RowInv'
<1>1. ASSUME NEW o \in Orders, ConfirmBegin(h, o)
      PROVE  RowInv'
  <2> DEFINE r == [op |-> "confirm", order |-> o]
  <2>1. /\ handler' = [handler EXCEPT ![h] = r] /\ r.op = "confirm"
        /\ UNCHANGED <<subscriptions, auditLog, announced, payments>>
    BY <1>1 DEF ConfirmBegin, rows
  <2> HIDE DEF r
  <2>2. QED
    BY <2>1, RowQuiet
<1>2. ASSUME NEW o, NEW truth, NEW n, handler' = [handler EXCEPT ![h] = Event(o, truth, n)],
             UNCHANGED rows
      PROVE  RowInv'
  <2>1. Event(o, truth, n).op = "event"
    BY DEF Event
  <2>2. UNCHANGED <<subscriptions, auditLog, announced, payments>>
    BY <1>2 DEF rows
  <2>3. QED
    BY <1>2, <2>1, <2>2, RowQuiet
<1>3. ASSUME Finish(h), UNCHANGED rows
      PROVE  RowInv'
  <2>1. Idle.op = "idle" /\ UNCHANGED <<subscriptions, auditLog, announced, payments>>
    BY <1>3 DEF Idle, rows
  <2>2. QED
    BY <1>3, <2>1, RowQuiet DEF Finish
<1>4. CASE ConfirmAtProvider(h)
  BY <1>2, <1>3, <1>4 DEF ConfirmAtProvider
<1>5. ASSUME NEW n \in Notices, WebhookFetch(h, n)
      PROVE  RowInv'
  BY <1>2, <1>5 DEF WebhookFetch
<1>6. QED
  BY <1>1, <1>4, <1>5

LEMMA EventRows ==
    ASSUME Inv, RowInv, NEW h \in Handlers, HandleEvent(h)
    PROVE  RowInv'
<1> DEFINE e == handler[h]
<1>1. e \in EventState
  BY HandlerShape DEF Inv, TypeInv, HandleEvent, EventPending, EventDuplicate, EventRefused,
                      EventFails, ApplyBegin
<1>2. e.order \in Orders
  BY <1>1 DEF EventState
<1>3. CASE EventPending(h) \/ EventDuplicate(h) \/ EventRefused(h)
  <2>1. Finish(h) /\ UNCHANGED <<subscriptions, auditLog, announced, payments>>
    BY <1>3 DEF EventPending, EventDuplicate, EventRefused, rows
  <2>2. PaymentsAreKept /\ KeysAreUnique'
    BY <2>1, PaymentsStay DEF RowInv
  <2>3. QED
    BY <2>1, <2>2, RowIdle
<1>4. CASE EventFails(h)
  <2>1. /\ Finish(h) /\ UNCHANGED <<subscriptions, auditLog, announced>>
        /\ payments[e.order] # None
        /\ \/ payments' = payments
           \/ payments' = [payments EXCEPT ![e.order] = Payment(payments[e.order], "FAILED")]
    BY <1>4 DEF EventFails, PendingAt
  <2>2. PaymentsAreKept /\ KeysAreUnique'
    BY <1>2, <2>1, PaymentsStay, VerdictKeeps DEF RowInv
  <2>3. QED
    BY <2>1, <2>2, RowIdle
<1>5. CASE ApplyBegin(h)
  <2> DEFINE u == payments[e.order].user
             r == [op |-> "apply", order |-> e.order, notice |-> e.notice,
                   seen |-> subscriptions[u]]
  <2>1. /\ payments[e.order] # None /\ handler' = [handler EXCEPT ![h] = r]
        /\ UNCHANGED <<subscriptions, auditLog, announced, payments>>
    BY <1>5 DEF ApplyBegin, PendingAt, rows
  <2>2. r.op = "apply" /\ r.seen = subscriptions[u] /\ r.order = e.order
    OBVIOUS
  <2> HIDE DEF r
  <2>3. u \in Users
    BY <1>2, <2>1 DEF Inv, TypeInv, TypeOK, PaymentRow
  <2>4. Known(payments'[r.order].user, r.seen)
    <3>1. payments'[r.order].user = u
      BY <2>1, <2>2
    <3>2. subscriptions[u] \in SubscriptionRow \cup {None}
      BY <2>3 DEF Inv, TypeInv, TypeOK
    <3>3. Known(u, subscriptions[u])
      BY <3>2 DEF Known, SubscriptionRow
    <3>4. QED
      BY <2>2, <3>1, <3>3
  <2>5. PaymentsAreKept /\ KeysAreUnique'
    BY <2>1, PaymentsStay DEF RowInv
  <2>6. QED
    BY <2>1, <2>2, <2>4, <2>5, RowFrame
<1>6. QED
  BY <1>3, <1>4, <1>5 DEF HandleEvent

\* An activation begins a period with nothing scheduled in it.
LEMMA ActivateSound ==
    ASSUME NEW sub \in SubscriptionRow, NEW plan \in Plans, NEW t \in Nat
    PROVE  LET row == activate(sub, plan, t)
           IN  /\ Sound(row) /\ Told(row) = plan
               /\ row.currentPlan = plan /\ row.currentPeriodEnd # None
               /\ row.status = "ACTIVE" /\ row.pendingPlan = None
               /\ row.version = sub.version + 1
<1> DEFINE row == activate(sub, plan, t)
<1>1. t + PeriodLength \in Nat
  BY PeriodAssumption
<1>2. /\ row.currentPlan = plan /\ row.pendingPlan = None /\ row.effectiveAt = None
      /\ row.status = "ACTIVE" /\ row.currentPeriodEnd = t + PeriodLength
      /\ row.cancelAtPeriodEnd = FALSE /\ row.version = sub.version + 1
  BY DEF activate
<1>3. row.currentPeriodEnd # None
  BY <1>1, <1>2, NoneAssumption
<1>4. row # None
  BY RowTypes, NoneAssumption
<1> HIDE DEF row
<1>5. Sound(row) /\ Told(row) = plan
  BY <1>2, <1>3, <1>4 DEF Sound, Told
<1>6. QED
  BY <1>2, <1>3, <1>5 DEF row

\* The fields of a change request.
LEMMA ChangeFields ==
    ASSUME NEW u, NEW next, NEW plan
    PROVE  LET c == Change(u, next, plan)
           IN  /\ c.op = "change" /\ c.user = u /\ c.next = next
               /\ c.seen = subscriptions[u] /\ c.plan = plan
BY DEF Change

\* A request that reads a row and decides on a change of it.
LEMMA ChangeRequestRows ==
    ASSUME Inv, RowInv, NEW h \in Handlers, NEW u \in Users, NEW next, NEW plan,
           handler' = [handler EXCEPT ![h] = Change(u, next, plan)], UNCHANGED rows,
           SoundChange(Change(u, next, plan))
    PROVE  RowInv'
<1> DEFINE c == Change(u, next, plan)
<1>1. c.op = "change" /\ c.user = u /\ c.seen = subscriptions[u]
  BY ChangeFields
<1>2. SoundChange(c) /\ handler' = [handler EXCEPT ![h] = c]
  OBVIOUS
<1> HIDE DEF c
<1>3. UNCHANGED <<subscriptions, auditLog, announced, payments>>
  BY DEF rows
<1>4. subscriptions[u] \in SubscriptionRow \cup {None}
  BY DEF Inv, TypeInv, TypeOK
<1>5. Known(c.user, c.seen)
  BY <1>1, <1>4 DEF Known, SubscriptionRow
<1>6. PaymentsAreKept /\ KeysAreUnique'
  BY <1>3, PaymentsStay DEF RowInv
<1>7. QED
  BY <1>1, <1>2, <1>3, <1>5, <1>6, RowFrame

LEMMA ApplyRows ==
    ASSUME Inv, RowInv, NEW h \in Handlers, Apply(h)
    PROVE  RowInv'
<1> DEFINE a == handler[h]
           p == payments[a.order]
           row == activate(Base(a.seen, "PENDING"), p.plan, now)
<1>1. a.op = "apply" /\ a \in ApplyState
  BY HandlerShape DEF Inv, TypeInv, Apply, ApplyCommit, ApplyConflict, ApplyStale
<1>2. a.order \in Orders /\ a.seen \in SubscriptionRow \cup {None}
  BY <1>1 DEF ApplyState
<1>3. CASE ApplyCommit(h)
  <2>1. p # None /\ p \in PaymentRow
    BY <1>1, <1>2 DEF Inv, TypeInv, TypeOK
  <2>2. p.user \in Users /\ p.plan \in Plans /\ now \in Nat
    BY <2>1 DEF PaymentRow, PaidPlans, Inv, TypeInv, TypeOK
  <2>3. Base(a.seen, "PENDING") \in SubscriptionRow
    BY <1>2, CreateType DEF Base, Statuses
  <2>4. /\ row \in SubscriptionRow /\ Sound(row) /\ Told(row) = p.plan
        /\ row.version = Base(a.seen, "PENDING").version + 1
    BY <2>2, <2>3, RowTypes, ActivateSound
  <2>5. /\ Finish(h) /\ RowUnchanged(p.user, a.seen)
        /\ subscriptions' = [subscriptions EXCEPT ![p.user] = row]
        /\ auditLog' = [auditLog EXCEPT ![p.user] = auditLog[p.user] + 1]
        /\ announced' = [announced EXCEPT ![p.user] = p.plan]
        /\ payments' = [payments EXCEPT ![a.order] = Payment(p, "SUCCEEDED")]
    BY <1>3 DEF ApplyCommit
  <2>6. PaymentsAreKept /\ KeysAreUnique'
    BY <1>2, <2>1, <2>5, VerdictKeeps DEF RowInv
  <2> HIDE DEF row, p, a
  <2>7. QED
    BY <1>2, <2>2, <2>4, <2>5, <2>6, RowStep
<1>4. CASE ApplyConflict(h) \/ ApplyStale(h)
  <2>1. Finish(h) /\ UNCHANGED <<subscriptions, auditLog, announced, payments>>
    BY <1>4 DEF ApplyConflict, ApplyStale, rows
  <2>2. PaymentsAreKept /\ KeysAreUnique'
    BY <2>1, PaymentsStay DEF RowInv
  <2>3. QED
    BY <2>1, <2>2, RowIdle
<1>5. QED
  BY <1>3, <1>4 DEF Apply

LEMMA SelfServiceRows ==
    ASSUME Inv, RowInv, NEW h \in Handlers, SelfService(h)
    PROVE  RowInv'
<1>1. ASSUME NEW u \in Users, NEW target \in PaidPlans, ScheduleDowngrade(h, u, target)
      PROVE  RowInv'
  <2> DEFINE sub == subscriptions[u]
             at == IF sub.currentPeriodEnd # None THEN sub.currentPeriodEnd ELSE now
             next == schedulePlanChange(sub, target, at)
             c == Change(u, next, None)
  <2>1. /\ sub # None /\ sub.status = "ACTIVE" /\ UNCHANGED rows
        /\ monthlyPriceCents(target) < monthlyPriceCents(parseOrFree(sub.currentPlan))
        /\ handler' = [handler EXCEPT ![h] = Change(u, next, None)]
    BY <1>1 DEF ScheduleDowngrade
  <2>2. Sound(sub) /\ sub \in SubscriptionRow
    BY <2>1 DEF RowInv, RowsAreSound, Inv, TypeInv, TypeOK
  <2>3. sub.currentPeriodEnd # None
    <3>1. sub.currentPlan # "FREE"
      BY <1>1, <2>1 DEF monthlyPriceCents, parseOrFree, PaidPlans, Plans
    <3>2. QED
      BY <2>2, <3>1 DEF Sound
  <2>4. /\ next.currentPlan = sub.currentPlan /\ next.effectiveAt = sub.currentPeriodEnd
        /\ next.status = sub.status /\ next.currentPeriodEnd = sub.currentPeriodEnd
        /\ next.cancelAtPeriodEnd = sub.cancelAtPeriodEnd
        /\ next.version = sub.version + 1
    BY <2>3 DEF schedulePlanChange
  <2>5. c.next = next /\ c.seen = sub /\ c.plan = None
    BY ChangeFields
  <2> HIDE DEF next, c
  <2>6. Sound(next)
    BY <2>2, <2>3, <2>4 DEF Sound
  <2>7. SoundChange(c)
    BY <2>1, <2>4, <2>5, <2>6 DEF SoundChange, Base
  <2>8. QED
    BY <2>1, <2>7, ChangeRequestRows DEF c
<1>2. ASSUME NEW u \in Users, CancelAtPeriodEnd(h, u)
      PROVE  RowInv'
  <2> DEFINE sub == subscriptions[u]
             next == scheduleCancellation(sub)
             c == Change(u, next, None)
  <2>1. /\ sub # None /\ UNCHANGED rows
        /\ handler' = [handler EXCEPT ![h] = Change(u, next, None)]
    BY <1>2 DEF CancelAtPeriodEnd
  <2>2. Sound(sub) /\ sub \in SubscriptionRow
    BY <2>1 DEF RowInv, RowsAreSound, Inv, TypeInv, TypeOK
  <2>3. /\ next.currentPlan = sub.currentPlan /\ next.effectiveAt = sub.effectiveAt
        /\ next.pendingPlan = sub.pendingPlan
        /\ next.status = "CANCEL_AT_PERIOD_END" /\ next.currentPeriodEnd = sub.currentPeriodEnd
        /\ next.cancelAtPeriodEnd = TRUE /\ next.version = sub.version + 1
    BY DEF scheduleCancellation
  <2>4. c.next = next /\ c.seen = sub /\ c.plan = None
    BY ChangeFields
  <2> HIDE DEF next, c
  <2>5. Sound(next)
    BY <2>2, <2>3 DEF Sound
  <2>6. SoundChange(c)
    BY <2>1, <2>3, <2>4, <2>5 DEF SoundChange, Base
  <2>7. QED
    BY <2>1, <2>6, ChangeRequestRows DEF c
<1>3. ASSUME NEW u \in Users, NEW target \in Plans, SwitchPlan(h, u, target)
      PROVE  RowInv'
  <2> DEFINE sub == Base(subscriptions[u], "ACTIVE")
             next == activate(sub, target, now)
             c == Change(u, next, target)
  <2>1. UNCHANGED rows /\ handler' = [handler EXCEPT ![h] = Change(u, next, target)]
    BY <1>3 DEF SwitchPlan
  <2>2. sub \in SubscriptionRow /\ now \in Nat
    BY CreateType DEF Base, Statuses, Inv, TypeInv, TypeOK
  <2>3. /\ Sound(next) /\ next.currentPlan = target /\ next.currentPeriodEnd # None
        /\ next.status = "ACTIVE" /\ next.pendingPlan = None
        /\ next.version = sub.version + 1
    BY <2>2, ActivateSound
  <2>4. c.next = next /\ c.seen = subscriptions[u] /\ c.plan = target /\ target # None
    BY ChangeFields, NoneAssumption
  <2> HIDE DEF next, c
  <2>5. SoundChange(c)
    BY <2>3, <2>4 DEF SoundChange
  <2>6. QED
    BY <2>1, <2>5, ChangeRequestRows DEF c
<1>4. ASSUME NEW u \in Users, SwitchToFree(h, u)
      PROVE  RowInv'
  <2> DEFINE row == create("ACTIVE")
  <2>1. /\ subscriptions[u] = None /\ subscriptions' = [subscriptions EXCEPT ![u] = row]
        /\ UNCHANGED <<payments, auditLog, announced, handler>>
    BY <1>4 DEF SwitchToFree
  <2>2. row # None
    BY CreateType, NoneAssumption DEF Statuses
  <2>3. /\ Sound(row) /\ row.version = 0 /\ row.currentPeriodEnd = None
    BY DEF create, Sound, Plans
  <2> HIDE DEF row
  <2>4. \A x \in Users : subscriptions'[x] = IF x = u THEN row ELSE subscriptions[x]
    BY <2>1 DEF Inv, TypeInv, TypeOK
  <2>5. VersionCountsTransitions' /\ AnnouncedIsHeld'
    BY <2>1, <2>2, <2>3, <2>4 DEF RowInv, VersionCountsTransitions, AnnouncedIsHeld
  <2>6. RowsAreSound'
    BY <2>3, <2>4 DEF RowInv, RowsAreSound, Sound
  <2>7. \A x \in Users : \A seen : Known(x, seen) => Known(x, seen)'
    BY <2>1, <2>4 DEF Known
  <2>8. ChangesAreSound'
    <3> SUFFICES ASSUME NEW g \in Handlers, handler'[g].op = "change"
                 PROVE  (SoundChange(handler[g]) /\ Known(handler[g].user, handler[g].seen))'
      BY DEF ChangesAreSound
    <3>1. handler[g].user \in Users /\ handler'[g] = handler[g]
      BY <2>1, HandlerShape DEF Inv, TypeInv, ChangeState
    <3>2. SoundChange(handler[g]) /\ Known(handler[g].user, handler[g].seen)
      BY <3>1 DEF RowInv, ChangesAreSound
    <3>3. SoundChange(handler[g])'
      BY <3>1, <3>2 DEF SoundChange, Sound, Base, create
    <3>4. QED
      BY <2>7, <3>1, <3>2, <3>3
  <2>9. AppliesAreKnown'
    <3> SUFFICES ASSUME NEW g \in Handlers, handler'[g].op = "apply"
                 PROVE  Known(payments[handler[g].order].user, handler[g].seen)'
      BY DEF AppliesAreKnown
    <3>1. handler[g].order \in Orders /\ payments[handler[g].order] # None
      BY <2>1, HandlerShape DEF Inv, TypeInv, ApplyState
    <3>2. payments[handler[g].order].user \in Users
      BY <3>1 DEF Inv, TypeInv, TypeOK, PaymentRow
    <3>3. Known(payments[handler[g].order].user, handler[g].seen)
      BY <2>1 DEF RowInv, AppliesAreKnown
    <3>4. QED
      BY <2>1, <2>7, <3>2, <3>3
  <2>10. KeysAreUnique'
    BY <2>1, PaymentsStay DEF RowInv
  <2>11. QED
    BY <2>5, <2>6, <2>8, <2>9, <2>10 DEF RowInv
<1>5. CASE ChangeCommit(h)
  <2> DEFINE c == handler[h]
             u == c.user
             row == c.next
  <2>1. /\ c.op = "change" /\ Finish(h) /\ RowUnchanged(u, c.seen)
        /\ subscriptions' = [subscriptions EXCEPT ![u] = row]
        /\ auditLog' = [auditLog EXCEPT ![u] = auditLog[u] + 1]
        /\ announced' = [announced EXCEPT ![u] = IF c.plan = None THEN announced[u] ELSE c.plan]
        /\ UNCHANGED payments
    BY <1>5 DEF ChangeCommit, ChangeGoesThrough
  <2>2. c \in ChangeState
    BY <2>1, HandlerShape DEF Inv, TypeInv
  <2>3. u \in Users /\ row \in SubscriptionRow /\ c.seen \in SubscriptionRow \cup {None}
    BY <2>2 DEF ChangeState
  <2>4. SoundChange(c) /\ Known(u, c.seen)
    BY <2>1 DEF RowInv, ChangesAreSound
  <2>5. row # None
    BY <2>3, NoneAssumption
  <2>6. Told(row) = IF c.plan = None THEN announced[u] ELSE c.plan
    <3>1. CASE c.plan = None
      <4>1. c.seen = subscriptions[u] /\ subscriptions[u] # None
        BY <2>1, <2>4, <3>1 DEF SoundChange, Known, RowUnchanged
      <4>2. announced[u] = Told(subscriptions[u])
        BY <2>3 DEF RowInv, AnnouncedIsHeld, Told
      <4>3. QED
        BY <2>4, <2>5, <3>1, <4>1, <4>2 DEF SoundChange, Told
    <3>2. CASE c.plan # None
      BY <2>4, <2>5, <3>2 DEF SoundChange, Told
    <3>3. QED
      BY <3>1, <3>2
  <2>7. Sound(row) /\ row.version = Base(c.seen, "ACTIVE").version + 1
    BY <2>4 DEF SoundChange
  <2>8. PaymentsAreKept /\ KeysAreUnique'
    BY <2>1, PaymentsStay DEF RowInv
  <2> HIDE DEF row, u, c
  <2>9. announced' = [announced EXCEPT ![u] = Told(row)]
    BY <2>1, <2>6
  <2>10. QED
    BY <2>1, <2>3, <2>7, <2>8, <2>9, RowStep
<1>6. CASE ChangeStale(h)
  <2>1. Finish(h) /\ UNCHANGED <<subscriptions, auditLog, announced, payments>>
    BY <1>6 DEF ChangeStale, rows
  <2>2. PaymentsAreKept /\ KeysAreUnique'
    BY <2>1, PaymentsStay DEF RowInv
  <2>3. QED
    BY <2>1, <2>2, RowIdle
<1>7. QED
  BY <1>1, <1>2, <1>3, <1>4, <1>5, <1>6 DEF SelfService

LEMMA EnvironmentRows ==
    ASSUME Inv, RowInv, Tick \/ (\E o \in Orders, s \in ProviderStatuses : ProviderMoves(o, s))
                        \/ (\E h \in Handlers : Crash(h))
    PROVE  RowInv'
<1>1. CASE Tick \/ (\E o \in Orders, s \in ProviderStatuses : ProviderMoves(o, s))
  BY <1>1, RowStutter DEF Tick, ProviderMoves, rows
<1>2. ASSUME NEW h \in Handlers, Crash(h)
      PROVE  RowInv'
  <2>1. Finish(h) /\ UNCHANGED <<subscriptions, auditLog, announced, payments>>
    BY <1>2 DEF Crash, rows
  <2>2. PaymentsAreKept /\ KeysAreUnique'
    BY <2>1, PaymentsStay DEF RowInv
  <2>3. QED
    BY <2>1, <2>2, RowIdle
<1>3. QED
  BY <1>1, <1>2

LEMMA RowInit == Init => RowInv
<1> SUFFICES ASSUME Init PROVE RowInv
  OBVIOUS
<1>1. \A h \in Handlers : handler[h].op = "idle"
  BY DEF Init, Idle
<1>2. VersionCountsTransitions /\ AnnouncedIsHeld /\ RowsAreSound
  BY DEF Init, VersionCountsTransitions, AnnouncedIsHeld, RowsAreSound
<1>3. ChangesAreSound /\ AppliesAreKnown
  BY <1>1 DEF ChangesAreSound, AppliesAreKnown
<1>4. KeysAreUnique
  BY DEF Init, KeysAreUnique
<1>5. QED
  BY <1>2, <1>3, <1>4 DEF RowInv

LEMMA RowNext == Inv /\ RowInv /\ [Next]_vars => RowInv'
<1> SUFFICES ASSUME Inv, RowInv, [Next]_vars PROVE RowInv'
  OBVIOUS
<1>1. CASE UNCHANGED vars
  BY <1>1, RowStutter DEF vars, rows
<1>2. CASE Next
  BY <1>2, CheckoutRows, ConfirmRows, EventRows, ApplyRows, SelfServiceRows, EnvironmentRows
  DEF Next
<1>3. QED
  BY <1>1, <1>2

LEMMA SpecRows == Spec => [](Inv /\ RowInv)
<1>1. Init => Inv /\ RowInv
  BY TypeInit, OrderInit, RowInit DEF Inv
<1>2. Inv /\ RowInv /\ [Next]_vars => (Inv /\ RowInv)'
  BY InvNext, RowNext
<1>3. QED
  BY <1>1, <1>2, PTL DEF Spec

\* A subscription loses no update: PaymentConfirmationService and
\* SubscriptionService write only over the version they read, so the
\* version counts the entries of the audit log.
THEOREM NoUpdateIsLost == Spec => []VersionCountsTransitions
<1>1. RowInv => VersionCountsTransitions
  BY DEF RowInv
<1>2. QED
  BY <1>1, SpecRows, PTL

\* The newest entitlement event a user's row has appended names the plan the row
\* holds: a commit that appends none keeps the plan of the row it overwrote.
THEOREM EventsNameTheRow == Spec => []AnnouncedIsHeld
<1>1. RowInv => AnnouncedIsHeld
  BY DEF RowInv
<1>2. QED
  BY <1>1, SpecRows, PTL

\* A downgrade scheduled by SubscriptionService waits for the boundary of
\* the period it was scheduled in, whatever re-activates the row meanwhile.
THEOREM DowngradesWait == Spec => []ScheduledAtBoundary
<1>1. RowInv => ScheduledAtBoundary
  BY DEF RowInv, RowsAreSound, Sound, ScheduledAtBoundary
<1>2. QED
  BY <1>1, SpecRows, PTL

\* CheckoutService: no two orders handed out for payment belong to one account and
\* Idempotency-Key, however its requests race.
THEOREM OneOrderForAKey == Spec => []OneOrderPerKey
<1>1. Inv /\ RowInv => OneOrderPerKey
  <2> SUFFICES ASSUME Inv, RowInv PROVE OneOrderPerKey
    OBVIOUS
  <2>1. shown \subseteq Orders /\ \A o \in shown : payments[o] # None
    BY DEF Inv, TypeInv, TypeOK, OrderInv, OpenedOrders
  <2>2. QED
    BY <2>1 DEF RowInv, KeysAreUnique, OneOrderPerKey
<1>2. QED
  BY <1>1, SpecRows, PTL

-----------------------------------------------------------------------------
(* Inside the paid period.                                                 *)

\* Within its period a sound row resolves to its plan.
LEMMA ResolvesInPeriod ==
    ASSUME NEW sub \in SubscriptionRow, Sound(sub), NEW t \in Nat, withinPeriod(sub, t)
    PROVE  resolve(sub, t) = sub.currentPlan
<1>1. sub # None /\ sub.status \in Statuses /\ sub.currentPlan \in Plans
  BY NoneAssumption DEF Sound, Statuses
<1>2. sub.currentPeriodEnd \in Nat /\ sub.currentPeriodEnd > t
  BY DEF withinPeriod, SubscriptionRow
<1>3. planConsideringPending(sub, t) = sub.currentPlan
  BY <1>2 DEF planConsideringPending, Sound
<1>4. sub.status = "ACTIVE" \/ sub.status = "CANCEL_AT_PERIOD_END"
  BY DEF Sound
<1>5. QED
  BY <1>1, <1>3, <1>4 DEF resolve

\* So does a row with nothing scheduled, from its activation on.
LEMMA ResolvesWhenActive ==
    ASSUME NEW sub \in SubscriptionRow, Sound(sub), sub.status = "ACTIVE",
           sub.pendingPlan = None, NEW t \in Nat
    PROVE  resolve(sub, t) = sub.currentPlan
<1>1. sub # None /\ sub.status \in Statuses /\ sub.currentPlan \in Plans
  BY NoneAssumption DEF Sound, Statuses
<1>2. planConsideringPending(sub, t) = sub.currentPlan
  BY DEF planConsideringPending
<1>3. QED
  BY <1>1, <1>2 DEF resolve

\* What a step may do to the row of a user: nothing, insert it, begin a period
\* and announce its plan, or keep plan and period.
RowMoves(u) ==
    \/ subscriptions'[u] = subscriptions[u]
    \/ subscriptions[u] = None
    \/ /\ subscriptions'[u] \in SubscriptionRow /\ Sound(subscriptions'[u])
       /\ \/ /\ subscriptions'[u].status = "ACTIVE" /\ subscriptions'[u].pendingPlan = None
             /\ announced'[u] = subscriptions'[u].currentPlan
          \/ /\ subscriptions'[u].currentPlan = subscriptions[u].currentPlan
             /\ subscriptions'[u].currentPeriodEnd = subscriptions[u].currentPeriodEnd

LEMMA RowsMove ==
    ASSUME Inv, RowInv, [Next]_vars, NEW u \in Users
    PROVE  RowMoves(u)
<1>1. ASSUME NEW h \in Handlers, ApplyCommit(h) PROVE RowMoves(u)
  <2> DEFINE a == handler[h]
             p == payments[a.order]
             row == activate(Base(a.seen, "PENDING"), p.plan, now)
  <2>1. a \in ApplyState /\ a.op = "apply"
    BY <1>1, HandlerShape DEF Inv, TypeInv, ApplyCommit
  <2>2. a.order \in Orders /\ a.seen \in SubscriptionRow \cup {None}
    BY <2>1 DEF ApplyState
  <2>3. p \in PaymentRow
    BY <2>1, <2>2 DEF Inv, TypeInv, TypeOK
  <2>4. p.user \in Users /\ p.plan \in Plans /\ now \in Nat
    BY <2>3 DEF PaymentRow, PaidPlans, Inv, TypeInv, TypeOK
  <2>5. Base(a.seen, "PENDING") \in SubscriptionRow
    BY <2>2, CreateType DEF Base, Statuses
  <2>6. /\ row \in SubscriptionRow /\ Sound(row) /\ row.currentPlan = p.plan
        /\ row.status = "ACTIVE" /\ row.pendingPlan = None
    BY <2>4, <2>5, RowTypes, ActivateSound
  <2>7. /\ subscriptions' = [subscriptions EXCEPT ![p.user] = row]
        /\ announced' = [announced EXCEPT ![p.user] = p.plan]
    BY <1>1 DEF ApplyCommit
  <2> HIDE DEF row, p
  <2>8. CASE u = p.user
    <3>1. subscriptions'[u] = row /\ announced'[u] = p.plan
      BY <2>7, <2>8 DEF Inv, TypeInv, TypeOK
    <3>2. QED
      BY <2>6, <3>1 DEF RowMoves
  <2>9. CASE u # p.user
    BY <2>7, <2>9 DEF RowMoves, Inv, TypeInv, TypeOK
  <2>10. QED
    BY <2>8, <2>9
<1>2. ASSUME NEW h \in Handlers, ChangeCommit(h) PROVE RowMoves(u)
  <2> DEFINE c == handler[h]
             row == c.next
  <2>1. /\ c.op = "change" /\ RowUnchanged(c.user, c.seen)
        /\ subscriptions' = [subscriptions EXCEPT ![c.user] = row]
        /\ announced' = [announced EXCEPT ![c.user] =
                            IF c.plan = None THEN announced[c.user] ELSE c.plan]
    BY <1>2 DEF ChangeCommit, ChangeGoesThrough
  <2>2. c \in ChangeState
    BY <2>1, HandlerShape DEF Inv, TypeInv
  <2>3. c.user \in Users /\ row \in SubscriptionRow
    BY <2>2 DEF ChangeState
  <2>4. SoundChange(c) /\ Known(c.user, c.seen)
    BY <2>1 DEF RowInv, ChangesAreSound
  <2>5. Sound(row)
    BY <2>4 DEF SoundChange
  <2> HIDE DEF c
  <2>6. CASE u = c.user
    <3>1. /\ subscriptions'[u] = row
          /\ announced'[u] = IF c.plan = None THEN announced[u] ELSE c.plan
      BY <2>1, <2>3, <2>6 DEF Inv, TypeInv, TypeOK
    <3>2. CASE c.plan = None
      <4>1. c.seen = subscriptions[u]
        BY <2>1, <2>4, <2>6, <3>2 DEF SoundChange, Known, RowUnchanged
      <4>2. QED
        BY <2>3, <2>4, <2>5, <3>1, <3>2, <4>1 DEF SoundChange, RowMoves
    <3>3. CASE c.plan # None
      BY <2>3, <2>4, <2>5, <3>1, <3>3 DEF SoundChange, RowMoves
    <3>4. QED
      BY <3>2, <3>3
  <2>7. CASE u # c.user
    BY <2>1, <2>7 DEF RowMoves, Inv, TypeInv, TypeOK
  <2>8. QED
    BY <2>6, <2>7
<1>3. ASSUME NEW h \in Handlers, NEW x \in Users, SwitchToFree(h, x) PROVE RowMoves(u)
  <2>1. subscriptions[x] = None /\ subscriptions' = [subscriptions EXCEPT ![x] = create("ACTIVE")]
    BY <1>3 DEF SwitchToFree
  <2>2. QED
    BY <2>1 DEF RowMoves, Inv, TypeInv, TypeOK
<1>4. ASSUME UNCHANGED subscriptions PROVE RowMoves(u)
  BY <1>4 DEF RowMoves
<1>5. ASSUME NEW h \in Handlers, Checkout(h) PROVE UNCHANGED subscriptions
  BY <1>5 DEF Checkout, CheckoutReuse, CheckoutBegin, CheckoutAtProvider, CheckoutRefused,
              CheckoutSave, CheckoutLostRace, rows
<1>6. ASSUME NEW h \in Handlers, (\E o \in Orders : ConfirmBegin(h, o)) \/ ConfirmAtProvider(h)
                                 \/ (\E n \in Notices : WebhookFetch(h, n)) \/ HandleEvent(h)
      PROVE  UNCHANGED subscriptions
  BY <1>6 DEF ConfirmBegin, ConfirmAtProvider, WebhookFetch, HandleEvent, EventPending,
              EventDuplicate, EventRefused, EventFails, ApplyBegin, rows
<1>7. ASSUME NEW h \in Handlers, Apply(h) PROVE RowMoves(u)
  BY <1>1, <1>4, <1>7 DEF Apply, ApplyConflict, ApplyStale, rows
<1>8. ASSUME NEW h \in Handlers, SelfService(h) PROVE RowMoves(u)
  BY <1>2, <1>3, <1>4, <1>8 DEF SelfService, ScheduleDowngrade, CancelAtPeriodEnd, SwitchPlan,
                                ChangeStale, rows
<1>9. ASSUME \/ Tick \/ (\E o \in Orders, s \in ProviderStatuses : ProviderMoves(o, s))
             \/ (\E h \in Handlers : Crash(h)) \/ UNCHANGED vars
      PROVE  UNCHANGED subscriptions
  BY <1>9 DEF Tick, ProviderMoves, Crash, vars, rows
<1>10. QED
  BY <1>4, <1>5, <1>6, <1>7, <1>8, <1>9 DEF Next

\* The clock runs forward.
LEMMA TimeMoves ==
    ASSUME now \in Nat, [Next]_vars
    PROVE  now' >= now
<1>1. CASE Tick
  BY <1>1 DEF Tick
<1>2. ASSUME NEW h \in Handlers, \/ Checkout(h) \/ HandleEvent(h) \/ Apply(h) \/ SelfService(h)
                                 \/ (\E o \in Orders : ConfirmBegin(h, o)) \/ ConfirmAtProvider(h)
                                 \/ (\E n \in Notices : WebhookFetch(h, n)) \/ Crash(h)
      PROVE  now' = now
  BY <1>2 DEF Checkout, CheckoutReuse, CheckoutBegin, CheckoutAtProvider, CheckoutRefused,
     CheckoutSave, CheckoutLostRace, ConfirmBegin, ConfirmAtProvider, WebhookFetch,
     HandleEvent, EventPending, EventDuplicate, EventRefused, EventFails, ApplyBegin,
     Apply, ApplyCommit, ApplyConflict, ApplyStale, SelfService, ScheduleDowngrade,
     CancelAtPeriodEnd, SwitchPlan, SwitchToFree, ChangeCommit, ChangeStale, Crash
<1>3. CASE (\E o \in Orders, s \in ProviderStatuses : ProviderMoves(o, s)) \/ UNCHANGED vars
  BY <1>3 DEF ProviderMoves, vars
<1>4. QED
  BY <1>1, <1>2, <1>3 DEF Next

\* Inside the paid period nothing a step does changes what its user holds, unless
\* it announces it: EntitlementService resolves the row a downgrade or a
\* cancellation wrote as it resolved the row before.
THEOREM NothingChangesUnannounced == Spec => NoUnannouncedChange
<1>1. Inv /\ RowInv /\ [Next]_vars =>
        [\A u \in Users :
            /\ subscriptions[u] # None /\ withinPeriod(subscriptions[u], now')
            /\ announced'[u] = announced[u]
            => resolve(subscriptions'[u], now') = resolve(subscriptions[u], now)]_vars
  <2> SUFFICES ASSUME Inv, RowInv, [Next]_vars, NEW u \in Users,
                      subscriptions[u] # None, withinPeriod(subscriptions[u], now'),
                      announced'[u] = announced[u]
               PROVE  resolve(subscriptions'[u], now') = resolve(subscriptions[u], now)
    OBVIOUS
  <2> DEFINE old == subscriptions[u]
             new == subscriptions'[u]
             t == now'
  <2>1. old \in SubscriptionRow /\ Sound(old) /\ t \in Nat
    <3>1. TypeInv'
      BY TypeNext DEF Inv
    <3>2. QED
      BY <3>1 DEF RowInv, RowsAreSound, Inv, TypeInv, TypeOK
  <2>2. resolve(old, now) = old.currentPlan
    <3>1. now \in Nat /\ t >= now
      BY <2>1, TimeMoves DEF Inv, TypeInv, TypeOK
    <3>2. withinPeriod(old, now)
      BY <2>1, <3>1 DEF withinPeriod, SubscriptionRow
    <3>3. QED
      BY <2>1, <3>1, <3>2, ResolvesInPeriod
  <2>3. announced[u] = old.currentPlan
    BY DEF RowInv, AnnouncedIsHeld, withinPeriod
  <2>4. RowMoves(u)
    BY RowsMove
  <2>5. CASE new = old
    BY <2>1, <2>2, <2>5, ResolvesInPeriod
  <2>6. CASE /\ new \in SubscriptionRow /\ Sound(new) /\ new.status = "ACTIVE"
             /\ new.pendingPlan = None /\ announced'[u] = new.currentPlan
    BY <2>1, <2>2, <2>3, <2>6, ResolvesWhenActive
  <2>7. CASE /\ new \in SubscriptionRow /\ Sound(new) /\ new.currentPlan = old.currentPlan
             /\ new.currentPeriodEnd = old.currentPeriodEnd
    <3>1. withinPeriod(new, t)
      BY <2>7 DEF withinPeriod
    <3>2. QED
      BY <2>1, <2>2, <2>7, <3>1, ResolvesInPeriod
  <2>8. QED
    BY <2>4, <2>5, <2>6, <2>7 DEF RowMoves
<1>2. QED
  BY <1>1, SpecRows, PTL DEF Spec, NoUnannouncedChange
=============================================================================
