---------------------------- MODULE BillingProofs ----------------------------
(***************************************************************************)
(* Proofs about Billing, for every set of users, orders, keys and request  *)
(* handlers: type correctness, that an order is activated exactly once and *)
(* never against the provider's word, and that the service implements      *)
(* Purchases.                                                              *)
(***************************************************************************)
EXTENDS Billing, TLAPS

\* The types, with what they need to be inductive: the provider speaks only of
\* orders it was told of, and an order being applied has a payment row.
TypeInv ==
    /\ TypeOK
    /\ \A n \in notices : psp[n[1]] # "NONE"
    /\ \A h \in Handlers : handler[h].op = "apply" => payments[handler[h].order] # None

-----------------------------------------------------------------------------
(* Types of the values the actions compute.                                *)

\* The transitions of the aggregate yield rows.
LEMMA RowTypes ==
    ASSUME NEW sub \in SubscriptionRow, NEW plan \in Plans, NEW t \in Nat
    PROVE  /\ activate(sub, plan, t) \in SubscriptionRow
           /\ schedulePlanChange(sub, plan, t) \in SubscriptionRow
           /\ scheduleCancellation(sub) \in SubscriptionRow
<1>1. t + PeriodLength \in Nat
  BY PeriodAssumption
<1>2. sub.version + 1 \in Nat
  BY DEF SubscriptionRow
<1>3. activate(sub, plan, t) \in SubscriptionRow
  BY <1>1, <1>2 DEF SubscriptionRow, activate, Statuses
<1>4. schedulePlanChange(sub, plan, t) \in SubscriptionRow
  BY <1>2 DEF SubscriptionRow, schedulePlanChange
<1>5. scheduleCancellation(sub) \in SubscriptionRow
  BY <1>2 DEF SubscriptionRow, scheduleCancellation, Statuses
<1>6. QED
  BY <1>3, <1>4, <1>5

\* A freshly created row is a row.
LEMMA CreateType ==
    ASSUME NEW status \in Statuses
    PROVE  create(status) \in SubscriptionRow
BY DEF create, SubscriptionRow, Plans

\* What the kind of a request says about its fields.
LEMMA HandlerShape ==
    ASSUME TypeOK, NEW h \in Handlers
    PROVE  /\ handler[h].op \in {"checkout", "checkoutSave"} => handler[h] \in CheckoutState
           /\ handler[h].op = "confirm" => handler[h] \in ConfirmState
           /\ handler[h].op = "event" => handler[h] \in EventState
           /\ handler[h].op = "apply" => handler[h] \in ApplyState
           /\ handler[h].op = "change" => handler[h] \in ChangeState
<1>1. handler[h] \in HandlerState
  BY DEF TypeOK
<1>2. QED
  BY <1>1 DEF HandlerState, Idle, CheckoutState, ConfirmState, EventState, ApplyState, ChangeState

\* Requests are well typed when their parts are.
LEMMA IdleType == Idle \in HandlerState
BY DEF HandlerState

LEMMA CheckoutRequestType ==
    ASSUME NEW op \in {"checkout", "checkoutSave"}, NEW u \in Users, NEW plan \in PaidPlans,
           NEW k \in Keys, NEW o \in Orders, NEW had \in BOOLEAN
    PROVE  CheckoutRequest(op, u, plan, k, o, had) \in CheckoutState
BY DEF CheckoutRequest, CheckoutState

LEMMA EventType ==
    ASSUME NEW o \in Orders, NEW truth \in ProviderStatuses, NEW n \in Notices \cup {None}
    PROVE  Event(o, truth, n) \in EventState
BY DEF Event, EventState

LEMMA PaymentType ==
    ASSUME NEW p, p.user \in Users, p.plan \in PaidPlans, p.key \in Keys,
           NEW status \in {"PENDING", "SUCCEEDED", "FAILED"}
    PROVE  Payment(p, status) \in PaymentRow /\ Payment(p, status) # None
BY NoneAssumption DEF Payment, PaymentRow

-----------------------------------------------------------------------------
(* Type correctness, one lemma per group of actions.                       *)

\* A request that takes its next state keeps the handlers well typed.
LEMMA HandlerUpdate ==
    ASSUME TypeInv, NEW h \in Handlers, NEW r \in HandlerState,
           handler' = [handler EXCEPT ![h] = r],
           r.op = "apply" => payments'[r.order] # None,
           \A o \in Orders : payments[o] # None => payments'[o] # None
    PROVE  /\ handler' \in [Handlers -> HandlerState]
           /\ \A g \in Handlers : handler'[g].op = "apply" => payments'[handler'[g].order] # None
<1>1. handler' \in [Handlers -> HandlerState]
  BY DEF TypeInv, TypeOK
<1>2. ASSUME NEW g \in Handlers, handler'[g].op = "apply"
      PROVE  payments'[handler'[g].order] # None
  <2>1. CASE g = h
    BY <1>2, <2>1 DEF TypeInv, TypeOK
  <2>2. CASE g # h
    <3>1. handler'[g] = handler[g] /\ handler[g] \in ApplyState
      BY <1>2, <2>2, HandlerShape DEF TypeInv, TypeOK
    <3>2. handler[g].order \in Orders
      BY <3>1 DEF ApplyState
    <3>3. QED
      BY <1>2, <3>1, <3>2 DEF TypeInv
  <2>3. QED
    BY <2>1, <2>2
<1>3. QED
  BY <1>1, <1>2

\* A request that ends does so as well.
LEMMA FinishUpdate ==
    ASSUME TypeInv, NEW h \in Handlers, Finish(h),
           \A o \in Orders : payments[o] # None => payments'[o] # None
    PROVE  /\ handler' \in [Handlers -> HandlerState]
           /\ \A g \in Handlers : handler'[g].op = "apply" => payments'[handler'[g].order] # None
<1>1. Idle.op # "apply"
  BY DEF Idle
<1>2. QED
  BY <1>1, IdleType, HandlerUpdate DEF Finish

\* A step that touches no row and nothing at the provider.
LEMMA QuietTypes ==
    ASSUME TypeInv, UNCHANGED <<now, rows, provider, calm>>,
           acked' \subseteq Notices, shown' \subseteq Orders,
           handler' \in [Handlers -> HandlerState],
           \A g \in Handlers : handler'[g].op = "apply" => payments'[handler'[g].order] # None
    PROVE  TypeInv'
BY DEF TypeInv, TypeOK, rows, provider

LEMMA CheckoutTypes ==
    ASSUME TypeInv, NEW h \in Handlers, Checkout(h)
    PROVE  TypeInv'
<1>0. \A u, k : PaymentFor(u, k) \subseteq Orders
  BY DEF PaymentFor
<1>1. ASSUME NEW u \in Users, NEW k \in Keys, CheckoutReuse(h, u, k)
      PROVE  TypeInv'
  <2>1. /\ UNCHANGED <<now, rows, provider, calm>> /\ UNCHANGED <<handler, acked, payments>>
        /\ shown' = shown \cup PaymentFor(u, k)
    BY <1>1 DEF CheckoutReuse, rows
  <2>2. QED
    BY <1>0, <2>1, QuietTypes DEF TypeInv, TypeOK
<1>2. ASSUME NEW u \in Users, NEW plan \in PaidPlans, NEW k \in Keys, NEW o \in Orders,
             CheckoutBegin(h, u, plan, k, o)
      PROVE  TypeInv'
  <2> DEFINE had == u \in accounts
             r == CheckoutRequest("checkout", u, plan, k, o, had)
  <2>a. had \in BOOLEAN
    OBVIOUS
  <2> HIDE DEF had
  <2>1. r \in HandlerState /\ r.op # "apply"
    BY <2>a, CheckoutRequestType DEF HandlerState, CheckoutRequest
  <2>2. handler' = [handler EXCEPT ![h] = r] /\ UNCHANGED <<now, rows, provider, acked, shown, calm>>
    BY <1>2 DEF CheckoutBegin, had
  <2>3. payments' = payments
    BY <2>2 DEF rows
  <2> HIDE DEF r
  <2>4. /\ handler' \in [Handlers -> HandlerState]
        /\ \A g \in Handlers : handler'[g].op = "apply" => payments'[handler'[g].order] # None
    BY <2>1, <2>2, <2>3, HandlerUpdate
  <2>5. QED
    BY <2>2, <2>4, QuietTypes DEF TypeInv, TypeOK
<1>3. CASE CheckoutAtProvider(h)
  <2> DEFINE q == handler[h]
             r == CheckoutRequest("checkoutSave", q.user, q.plan, q.key, q.order, q.hadAccount)
  <2>1. q \in CheckoutState
    BY <1>3, HandlerShape DEF CheckoutAtProvider, TypeInv
  <2>2. /\ q.order \in Orders /\ q.key \in Keys /\ q.user \in Users
        /\ q.plan \in PaidPlans /\ q.hadAccount \in BOOLEAN
    BY <2>1 DEF CheckoutState
  <2>3. r \in HandlerState /\ r.op # "apply"
    BY <2>2, CheckoutRequestType DEF HandlerState, CheckoutRequest
  <2>4. /\ handler' = [handler EXCEPT ![h] = r]
        /\ psp' = [psp EXCEPT ![q.order] = "READY"]
        /\ keyOwner' = [keyOwner EXCEPT ![q.key] = q.order]
        /\ notices' = notices \cup {<<q.order, "READY">>}
        /\ UNCHANGED <<now, rows, acked, shown, calm>>
    BY <1>3 DEF CheckoutAtProvider
  <2>5. payments' = payments
    BY <2>4 DEF rows
  <2> HIDE DEF q, r
  <2>6. /\ handler' \in [Handlers -> HandlerState]
        /\ \A g \in Handlers : handler'[g].op = "apply" => payments'[handler'[g].order] # None
    BY <2>3, <2>4, <2>5, HandlerUpdate
  <2>7. /\ psp' \in [Orders -> ProviderStatuses \cup {"NONE"}]
        /\ keyOwner' \in [Keys -> Orders \cup {None}]
        /\ notices' \subseteq Notices
        /\ \A n \in notices' : psp'[n[1]] # "NONE"
    BY <2>2, <2>4 DEF TypeInv, TypeOK, ProviderStatuses, Notices
  <2>8. QED
    BY <2>4, <2>6, <2>7 DEF TypeInv, TypeOK, rows
<1>4. CASE CheckoutRefused(h)
  <2>1. Finish(h) /\ UNCHANGED <<now, rows, provider, acked, shown, calm>>
    BY <1>4 DEF CheckoutRefused
  <2>2. payments' = payments
    BY <2>1 DEF rows
  <2>3. QED
    BY <2>1, <2>2, FinishUpdate, QuietTypes DEF TypeInv, TypeOK
<1>5. CASE CheckoutSave(h)
  <2> DEFINE r == handler[h]
  <2>1. r \in CheckoutState
    BY <1>5, HandlerShape DEF CheckoutSave, TypeInv
  <2>2. r.order \in Orders /\ r.key \in Keys /\ r.user \in Users /\ r.plan \in PaidPlans
    BY <2>1 DEF CheckoutState
  <2>3. /\ Finish(h)
        /\ payments' = [payments EXCEPT ![r.order] = Payment(r, "PENDING")]
        /\ accounts' = accounts \cup {r.user} /\ shown' = shown \cup {r.order}
        /\ UNCHANGED <<now, subscriptions, webhookEvents, auditLog, outbox, announced,
                       provider, acked, calm>>
    BY <1>5 DEF CheckoutSave
  <2> HIDE DEF r
  <2>4. /\ payments' \in [Orders -> PaymentRow \cup {None}]
        /\ \A o \in Orders : payments[o] # None => payments'[o] # None
    BY <2>2, <2>3, PaymentType DEF TypeInv, TypeOK
  <2>5. /\ handler' \in [Handlers -> HandlerState]
        /\ \A g \in Handlers : handler'[g].op = "apply" => payments'[handler'[g].order] # None
    BY <2>3, <2>4, FinishUpdate
  <2>6. QED
    BY <2>2, <2>3, <2>4, <2>5 DEF TypeInv, TypeOK, provider
<1>6. CASE CheckoutLostRace(h)
  <2>1. /\ Finish(h) /\ UNCHANGED <<now, rows, provider, acked, calm>>
        /\ shown' = shown \cup PaymentFor(handler[h].user, handler[h].key)
    BY <1>6 DEF CheckoutLostRace
  <2>2. payments' = payments
    BY <2>1 DEF rows
  <2>3. QED
    BY <1>0, <2>1, <2>2, FinishUpdate, QuietTypes DEF TypeInv, TypeOK
<1>7. QED
  BY <1>1, <1>2, <1>3, <1>4, <1>5, <1>6 DEF Checkout

\* The beginning of a request that changes nothing else, and a request that
\* ends having changed nothing but what the provider need not deliver again.
LEMMA StartTypes ==
    ASSUME TypeInv, NEW h \in Handlers, NEW r \in HandlerState,
           r.op = "apply" => payments[r.order] # None,
           handler' = [handler EXCEPT ![h] = r],
           UNCHANGED <<now, rows, provider, acked, shown, calm>>
    PROVE  TypeInv'
<1>1. payments' = payments
  BY DEF rows
<1>2. /\ handler' \in [Handlers -> HandlerState]
      /\ \A g \in Handlers : handler'[g].op = "apply" => payments'[handler'[g].order] # None
  BY <1>1, HandlerUpdate
<1>3. QED
  BY <1>2, QuietTypes DEF TypeInv, TypeOK

LEMMA EndTypes ==
    ASSUME TypeInv, NEW h \in Handlers, Finish(h), acked' \subseteq Notices,
           UNCHANGED <<now, rows, provider, shown, calm>>
    PROVE  TypeInv'
<1>1. payments' = payments
  BY DEF rows
<1>2. /\ handler' \in [Handlers -> HandlerState]
      /\ \A g \in Handlers : handler'[g].op = "apply" => payments'[handler'[g].order] # None
  BY <1>1, FinishUpdate
<1>3. QED
  BY <1>2, QuietTypes DEF TypeInv, TypeOK

LEMMA ConfirmTypes ==
    ASSUME TypeInv, NEW h \in Handlers,
           (\E o \in Orders : ConfirmBegin(h, o)) \/ ConfirmAtProvider(h)
    PROVE  TypeInv'
<1>1. ASSUME NEW o \in Orders, ConfirmBegin(h, o)
      PROVE  TypeInv'
  <2> DEFINE r == [op |-> "confirm", order |-> o]
  <2>1. r \in HandlerState /\ r.op # "apply"
    BY DEF HandlerState, ConfirmState
  <2>2. /\ handler' = [handler EXCEPT ![h] = r]
        /\ UNCHANGED <<now, rows, provider, acked, shown, calm>>
    BY <1>1 DEF ConfirmBegin
  <2> HIDE DEF r
  <2>3. QED
    BY <2>1, <2>2, StartTypes
<1>2. CASE ConfirmAtProvider(h)
  <2> DEFINE o == handler[h].order
  <2>1. o \in Orders
    BY <1>2, HandlerShape DEF ConfirmAtProvider, TypeInv, ConfirmState
  <2>2. PICK r \in {Idle, Event(o, "DONE", None), Event(o, "READY", None)} :
            handler' = [handler EXCEPT ![h] = r]
    BY <1>2 DEF ConfirmAtProvider, Finish
  <2>3. r \in HandlerState /\ r.op # "apply"
    <3>1. Event(o, "DONE", None) \in EventState /\ Event(o, "READY", None) \in EventState
      BY <2>1, EventType DEF ProviderStatuses
    <3>2. Event(o, "DONE", None).op # "apply" /\ Event(o, "READY", None).op # "apply"
      BY DEF Event
    <3>3. QED
      BY <2>2, <3>1, <3>2 DEF HandlerState, Idle
  <2>4. /\ UNCHANGED <<now, rows, keyOwner, acked, shown, calm>>
        /\ \/ UNCHANGED <<psp, notices>>
           \/ /\ psp' = [psp EXCEPT ![o] = "DONE"]
              /\ notices' = notices \cup {<<o, "DONE">>}
    BY <1>2 DEF ConfirmAtProvider
  <2> HIDE DEF o
  <2>5. payments' = payments
    BY <2>4 DEF rows
  <2>6. /\ handler' \in [Handlers -> HandlerState]
        /\ \A g \in Handlers : handler'[g].op = "apply" => payments'[handler'[g].order] # None
    BY <2>2, <2>3, <2>5, HandlerUpdate
  <2>7. /\ psp' \in [Orders -> ProviderStatuses \cup {"NONE"}]
        /\ notices' \subseteq Notices
        /\ \A n \in notices' : psp'[n[1]] # "NONE"
    BY <2>1, <2>4 DEF TypeInv, TypeOK, ProviderStatuses, Notices
  <2>8. QED
    BY <2>4, <2>6, <2>7 DEF TypeInv, TypeOK, rows
<1>3. QED
  BY <1>1, <1>2

LEMMA WebhookTypes ==
    ASSUME TypeInv, NEW h \in Handlers, NEW n \in Notices, WebhookFetch(h, n)
    PROVE  TypeInv'
<1> DEFINE r == Event(n[1], psp[n[1]], n)
<1>1. n[1] \in Orders /\ psp[n[1]] \in ProviderStatuses
  BY DEF WebhookFetch, TypeInv, TypeOK, Notices
<1>2. r \in HandlerState /\ r.op # "apply"
  BY <1>1, EventType DEF HandlerState, Event
<1>3. /\ handler' = [handler EXCEPT ![h] = r]
      /\ UNCHANGED <<now, rows, provider, acked, shown, calm>>
  BY DEF WebhookFetch
<1> HIDE DEF r
<1>4. QED
  BY <1>2, <1>3, StartTypes

\* Answering and recording a delivery.
LEMMA AnswerTypes ==
    ASSUME TypeInv, NEW n \in Notices \cup {None}
    PROVE  /\ Answer2xx(n) => acked' \subseteq Notices
           /\ Record(n) => webhookEvents' \subseteq Notices
BY DEF Answer2xx, Record, TypeInv, TypeOK

LEMMA EventTypes ==
    ASSUME TypeInv, NEW h \in Handlers, HandleEvent(h)
    PROVE  TypeInv'
<1> DEFINE e == handler[h]
<1>1. e \in EventState
  BY HandlerShape
  DEF TypeInv, HandleEvent, EventPending, EventDuplicate, EventRefused, EventFails, ApplyBegin
<1>2. e.order \in Orders /\ e.notice \in Notices \cup {None}
  BY <1>1 DEF EventState
<1>3. CASE EventPending(h)
  <2>1. /\ Finish(h) /\ payments' = payments
        /\ UNCHANGED <<now, accounts, subscriptions, auditLog, outbox, announced,
                       provider, shown, calm>>
    BY <1>3 DEF EventPending
  <2>2. webhookEvents' \subseteq Notices /\ acked' \subseteq Notices
    <3>1. CASE e.notice = None
      BY <1>3, <3>1 DEF EventPending, TypeInv, TypeOK
    <3>2. CASE e.notice # None
      BY <1>2, <1>3, <3>2, AnswerTypes DEF EventPending
    <3>3. QED
      BY <3>1, <3>2
  <2>3. QED
    BY <2>1, <2>2, FinishUpdate DEF TypeInv, TypeOK, provider
<1>4. CASE EventDuplicate(h)
  <2>1. /\ Finish(h) /\ payments' = payments
        /\ UNCHANGED <<now, accounts, subscriptions, auditLog, outbox, announced,
                       provider, shown, calm>>
    BY <1>4 DEF EventDuplicate
  <2>2. webhookEvents' \subseteq Notices /\ acked' \subseteq Notices
    BY <1>2, <1>4, AnswerTypes DEF EventDuplicate
  <2>3. QED
    BY <2>1, <2>2, FinishUpdate DEF TypeInv, TypeOK, provider
<1>5. CASE EventRefused(h)
  <2>1. Finish(h) /\ UNCHANGED <<now, rows, provider, acked, shown, calm>>
    BY <1>5 DEF EventRefused
  <2>2. QED
    BY <2>1, EndTypes DEF TypeInv, TypeOK
<1>6. CASE EventFails(h)
  <2>1. /\ Finish(h)
        /\ UNCHANGED <<now, accounts, subscriptions, auditLog, outbox, announced,
                       provider, shown, calm>>
        /\ \/ payments' = payments
           \/ payments' = [payments EXCEPT ![e.order] = Payment(payments[e.order], "FAILED")]
    BY <1>6 DEF EventFails
  <2>2. webhookEvents' \subseteq Notices /\ acked' \subseteq Notices
    BY <1>2, <1>6, AnswerTypes DEF EventFails
  <2>3. payments[e.order] \in PaymentRow
    BY <1>2, <1>6 DEF EventFails, PendingAt, TypeInv, TypeOK
  <2>4. Payment(payments[e.order], "FAILED") \in PaymentRow \ {None}
    BY <2>3, PaymentType DEF PaymentRow
  <2>5. /\ payments' \in [Orders -> PaymentRow \cup {None}]
        /\ \A o \in Orders : payments[o] # None => payments'[o] # None
    BY <1>2, <2>1, <2>4 DEF TypeInv, TypeOK
  <2>6. /\ handler' \in [Handlers -> HandlerState]
        /\ \A g \in Handlers : handler'[g].op = "apply" => payments'[handler'[g].order] # None
    BY <2>1, <2>5, FinishUpdate
  <2>7. QED
    BY <2>1, <2>2, <2>5, <2>6 DEF TypeInv, TypeOK, provider
<1>7. CASE ApplyBegin(h)
  <2> DEFINE r == [op |-> "apply", order |-> e.order, notice |-> e.notice,
                   seen |-> subscriptions[payments[e.order].user]]
  <2>1. /\ handler' = [handler EXCEPT ![h] = r] /\ PendingAt(e.order)
        /\ UNCHANGED <<now, rows, provider, acked, shown, calm>>
    BY <1>7 DEF ApplyBegin
  <2>2. payments[e.order] # None /\ payments[e.order] \in PaymentRow
    BY <1>2, <2>1 DEF PendingAt, TypeInv, TypeOK
  <2>3. subscriptions[payments[e.order].user] \in SubscriptionRow \cup {None}
    BY <2>2 DEF PaymentRow, TypeInv, TypeOK
  <2>4. r \in HandlerState /\ r.order = e.order
    BY <1>2, <2>3 DEF HandlerState, ApplyState
  <2> HIDE DEF r, e
  <2>5. QED
    BY <2>1, <2>2, <2>4, StartTypes
<1>8. QED
  BY <1>3, <1>4, <1>5, <1>6, <1>7 DEF HandleEvent

LEMMA ApplyTypes ==
    ASSUME TypeInv, NEW h \in Handlers, Apply(h)
    PROVE  TypeInv'
<1> DEFINE a == handler[h]
<1>1. a \in ApplyState /\ a.op = "apply"
  BY HandlerShape DEF TypeInv, Apply, ApplyCommit, ApplyConflict, ApplyStale
<1>2. a.order \in Orders /\ a.notice \in Notices \cup {None}
      /\ a.seen \in SubscriptionRow \cup {None}
  BY <1>1 DEF ApplyState
<1>3. CASE ApplyCommit(h)
  <2> DEFINE p == payments[a.order]
             next == activate(Base(a.seen, "PENDING"), p.plan, now)
  <2>1. p # None /\ p \in PaymentRow
    BY <1>1, <1>2 DEF TypeInv, TypeOK
  <2>2. p.user \in Users /\ p.plan \in PaidPlans /\ p.plan \in Plans /\ now \in Nat
    BY <2>1 DEF PaymentRow, PaidPlans, TypeInv, TypeOK
  <2>3. Base(a.seen, "PENDING") \in SubscriptionRow
    BY <1>2, CreateType DEF Base, Statuses
  <2>4. next \in SubscriptionRow
    BY <2>2, <2>3, RowTypes
  <2>5. Payment(p, "SUCCEEDED") \in PaymentRow \ {None}
    BY <2>1, PaymentType DEF PaymentRow
  <2>6. /\ Finish(h) /\ Record(a.notice) /\ Answer2xx(a.notice)
        /\ subscriptions' = [subscriptions EXCEPT ![p.user] = next]
        /\ auditLog' = [auditLog EXCEPT ![p.user] = @ + 1]
        /\ announced' = [announced EXCEPT ![p.user] = p.plan]
        /\ payments' = [payments EXCEPT ![a.order] = Payment(p, "SUCCEEDED")]
        /\ outbox' = [outbox EXCEPT ![a.order] = @ + 1]
        /\ UNCHANGED <<now, accounts, provider, shown, calm>>
    BY <1>3 DEF ApplyCommit
  <2> HIDE DEF a, p, next
  <2>7. /\ payments' \in [Orders -> PaymentRow \cup {None}]
        /\ \A o \in Orders : payments[o] # None => payments'[o] # None
    BY <1>2, <2>5, <2>6 DEF TypeInv, TypeOK
  <2>8. /\ handler' \in [Handlers -> HandlerState]
        /\ \A g \in Handlers : handler'[g].op = "apply" => payments'[handler'[g].order] # None
    BY <2>6, <2>7, FinishUpdate
  <2>9. webhookEvents' \subseteq Notices /\ acked' \subseteq Notices
    BY <1>2, <2>6, AnswerTypes
  <2>10. /\ subscriptions' \in [Users -> SubscriptionRow \cup {None}]
         /\ auditLog' \in [Users -> Nat]
         /\ outbox' \in [Orders -> Nat]
         /\ announced' \in [Users -> Plans \cup {None}]
    BY <1>2, <2>2, <2>4, <2>6 DEF TypeInv, TypeOK
  <2>11. QED
    BY <2>6, <2>7, <2>8, <2>9, <2>10 DEF TypeInv, TypeOK, provider
<1>4. CASE ApplyConflict(h)
  <2>1. /\ Finish(h) /\ Answer2xx(a.notice)
        /\ UNCHANGED <<now, rows, provider, shown, calm>>
    BY <1>4 DEF ApplyConflict
  <2>2. QED
    BY <1>2, <2>1, AnswerTypes, EndTypes
<1>5. CASE ApplyStale(h)
  <2>1. Finish(h) /\ UNCHANGED <<now, rows, provider, acked, shown, calm>>
    BY <1>5 DEF ApplyStale
  <2>2. QED
    BY <2>1, EndTypes DEF TypeInv, TypeOK
<1>6. QED
  BY <1>3, <1>4, <1>5 DEF Apply

\* A change request is well typed when the row it will write is.
LEMMA ChangeType ==
    ASSUME TypeInv, NEW u \in Users, NEW next \in SubscriptionRow, NEW plan \in Plans \cup {None}
    PROVE  Change(u, next, plan) \in HandlerState /\ Change(u, next, plan).op # "apply"
<1> DEFINE had == u \in accounts
<1>1. had \in BOOLEAN /\ subscriptions[u] \in SubscriptionRow \cup {None}
  BY DEF TypeInv, TypeOK
<1>2. Change(u, next, plan) = [op |-> "change", user |-> u, next |-> next,
                               seen |-> subscriptions[u], plan |-> plan, hadAccount |-> had]
  BY DEF Change
<1> HIDE DEF had
<1>3. Change(u, next, plan) \in ChangeState /\ Change(u, next, plan).op = "change"
  BY <1>1, <1>2 DEF ChangeState
<1>4. QED
  BY <1>3 DEF HandlerState

LEMMA SelfServiceTypes ==
    ASSUME TypeInv, NEW h \in Handlers, SelfService(h)
    PROVE  TypeInv'
<1>1. ASSUME NEW u \in Users, NEW target \in PaidPlans, ScheduleDowngrade(h, u, target)
      PROVE  TypeInv'
  <2> DEFINE sub == subscriptions[u]
             at == IF sub.currentPeriodEnd # None THEN sub.currentPeriodEnd ELSE now
             next == schedulePlanChange(sub, target, at)
  <2>1. sub \in SubscriptionRow /\ now \in Nat /\ target \in Plans
    BY <1>1 DEF ScheduleDowngrade, TypeInv, TypeOK, PaidPlans
  <2>2. at \in Nat
    BY <2>1 DEF SubscriptionRow
  <2>3. /\ handler' = [handler EXCEPT ![h] = Change(u, next, None)]
        /\ UNCHANGED <<now, rows, provider, acked, shown, calm>>
    BY <1>1 DEF ScheduleDowngrade
  <2> HIDE DEF at
  <2>4. next \in SubscriptionRow
    BY <2>1, <2>2, RowTypes
  <2> HIDE DEF next
  <2>5. QED
    BY <2>3, <2>4, ChangeType, StartTypes
<1>2. ASSUME NEW u \in Users, CancelAtPeriodEnd(h, u)
      PROVE  TypeInv'
  <2> DEFINE next == scheduleCancellation(subscriptions[u])
  <2>1. /\ handler' = [handler EXCEPT ![h] = Change(u, next, None)]
        /\ UNCHANGED <<now, rows, provider, acked, shown, calm>>
        /\ subscriptions[u] \in SubscriptionRow
    BY <1>2 DEF CancelAtPeriodEnd, TypeInv, TypeOK
  <2>2. next \in SubscriptionRow
    BY <2>1, RowTypes DEF Plans
  <2> HIDE DEF next
  <2>3. QED
    BY <2>1, <2>2, ChangeType, StartTypes
<1>3. ASSUME NEW u \in Users, NEW target \in Plans, SwitchPlan(h, u, target)
      PROVE  TypeInv'
  <2> DEFINE next == activate(Base(subscriptions[u], "ACTIVE"), target, now)
  <2>1. /\ handler' = [handler EXCEPT ![h] = Change(u, next, target)]
        /\ UNCHANGED <<now, rows, provider, acked, shown, calm>>
    BY <1>3 DEF SwitchPlan
  <2>2. Base(subscriptions[u], "ACTIVE") \in SubscriptionRow /\ now \in Nat
    BY CreateType DEF Base, Statuses, TypeInv, TypeOK
  <2>3. next \in SubscriptionRow
    BY <2>2, RowTypes
  <2> HIDE DEF next
  <2>4. QED
    BY <2>1, <2>3, ChangeType, StartTypes
<1>4. ASSUME NEW u \in Users, SwitchToFree(h, u)
      PROVE  TypeInv'
  <2>1. create("ACTIVE") \in SubscriptionRow
    BY CreateType DEF Statuses
  <2>2. /\ accounts' = accounts \cup {u}
        /\ subscriptions' = [subscriptions EXCEPT ![u] = create("ACTIVE")]
        /\ UNCHANGED <<now, payments, webhookEvents, auditLog, outbox, announced,
                       provider, acked, shown, handler, calm>>
    BY <1>4 DEF SwitchToFree
  <2>3. QED
    BY <2>1, <2>2 DEF TypeInv, TypeOK, provider
<1>5. CASE ChangeCommit(h)
  <2> DEFINE c == handler[h]
  <2>1. c \in ChangeState
    BY <1>5, HandlerShape DEF ChangeCommit, TypeInv
  <2>2. c.user \in Users /\ c.next \in SubscriptionRow /\ c.plan \in Plans \cup {None}
    BY <2>1 DEF ChangeState
  <2>3. /\ Finish(h) /\ payments' = payments
        /\ accounts' = accounts \cup {c.user}
        /\ subscriptions' = [subscriptions EXCEPT ![c.user] = c.next]
        /\ auditLog' = [auditLog EXCEPT ![c.user] = @ + 1]
        /\ announced' = [announced EXCEPT ![c.user] = IF c.plan = None THEN @ ELSE c.plan]
        /\ UNCHANGED <<now, webhookEvents, outbox, provider, acked, shown, calm>>
    BY <1>5 DEF ChangeCommit
  <2> HIDE DEF c
  <2>4. /\ accounts' \subseteq Users
        /\ subscriptions' \in [Users -> SubscriptionRow \cup {None}]
        /\ auditLog' \in [Users -> Nat]
        /\ announced' \in [Users -> Plans \cup {None}]
    BY <2>2, <2>3 DEF TypeInv, TypeOK
  <2>5. /\ handler' \in [Handlers -> HandlerState]
        /\ \A g \in Handlers : handler'[g].op = "apply" => payments'[handler'[g].order] # None
    BY <2>3, FinishUpdate
  <2>6. QED
    BY <2>3, <2>4, <2>5 DEF TypeInv, TypeOK, provider
<1>6. CASE ChangeStale(h)
  <2>1. Finish(h) /\ UNCHANGED <<now, rows, provider, acked, shown, calm>>
    BY <1>6 DEF ChangeStale
  <2>2. QED
    BY <2>1, EndTypes DEF TypeInv, TypeOK
<1>7. QED
  BY <1>1, <1>2, <1>3, <1>4, <1>5, <1>6 DEF SelfService

LEMMA EnvironmentTypes ==
    ASSUME TypeInv, Tick \/ (\E o \in Orders, s \in ProviderStatuses : ProviderMoves(o, s))
                    \/ (\E h \in Handlers : Crash(h)) \/ Calm
    PROVE  TypeInv'
<1>1. CASE Tick
  BY <1>1 DEF Tick, TypeInv, TypeOK, rows, provider
<1>2. ASSUME NEW o \in Orders, NEW s \in ProviderStatuses, ProviderMoves(o, s)
      PROVE  TypeInv'
  <2>1. /\ psp' = [psp EXCEPT ![o] = s] /\ notices' = notices \cup {<<o, s>>}
        /\ UNCHANGED <<now, rows, keyOwner, acked, shown, handler, calm>>
    BY <1>2 DEF ProviderMoves
  <2>2. /\ psp' \in [Orders -> ProviderStatuses \cup {"NONE"}]
        /\ notices' \subseteq Notices
        /\ \A n \in notices' : psp'[n[1]] # "NONE"
    BY <2>1 DEF TypeInv, TypeOK, ProviderStatuses, Notices
  <2>3. QED
    BY <2>1, <2>2 DEF TypeInv, TypeOK, rows
<1>3. ASSUME NEW h \in Handlers, Crash(h)
      PROVE  TypeInv'
  <2>1. Finish(h) /\ UNCHANGED <<now, rows, provider, acked, shown, calm>>
    BY <1>3 DEF Crash
  <2>2. QED
    BY <2>1, EndTypes DEF TypeInv, TypeOK
<1>4. CASE Calm
  BY <1>4 DEF Calm, TypeInv, TypeOK, rows, provider
<1>5. QED
  BY <1>1, <1>2, <1>3, <1>4

\* TypeInv holds at first and no step of any kind leaves it.
LEMMA TypeInit == Init => TypeInv
<1>1. ASSUME Init PROVE TypeOK
  <2>1. /\ subscriptions \in [Users -> SubscriptionRow \cup {None}]
        /\ payments \in [Orders -> PaymentRow \cup {None}]
        /\ announced \in [Users -> Plans \cup {None}]
        /\ keyOwner \in [Keys -> Orders \cup {None}]
    BY <1>1 DEF Init
  <2>2. /\ handler \in [Handlers -> HandlerState]
        /\ psp \in [Orders -> ProviderStatuses \cup {"NONE"}]
    BY <1>1, IdleType DEF Init
  <2>3. auditLog \in [Users -> Nat] /\ outbox \in [Orders -> Nat]
    BY <1>1 DEF Init
  <2>4. QED
    BY <1>1, <2>1, <2>2, <2>3 DEF Init, TypeOK
<1>2. Init => /\ \A n \in notices : psp[n[1]] # "NONE"
              /\ \A h \in Handlers : handler[h].op # "apply"
  BY DEF Init, Idle
<1>3. QED
  BY <1>1, <1>2 DEF TypeInv

LEMMA TypeNext == TypeInv /\ [Next \/ Calm]_vars => TypeInv'
<1> SUFFICES ASSUME TypeInv, [Next \/ Calm]_vars PROVE TypeInv'
  OBVIOUS
<1>1. CASE UNCHANGED vars
  BY <1>1 DEF vars, rows, provider, TypeInv, TypeOK
<1>2. ASSUME Next \/ Calm PROVE TypeInv'
  BY <1>2, CheckoutTypes, ConfirmTypes, WebhookTypes, EventTypes, ApplyTypes,
     SelfServiceTypes, EnvironmentTypes DEF Next
<1>3. QED
  BY <1>1, <1>2

\* Every value the rows, the provider and the requests in flight take, in any
\* interleaving of the service's operations, has its type.
THEOREM TypeCorrect == Spec => []TypeOK
<1>1. TypeInv /\ [Next]_vars => TypeInv'
  BY TypeNext
<1>2. TypeInv => TypeOK
  BY DEF TypeInv
<1>3. QED
  BY <1>1, <1>2, TypeInit, PTL DEF Spec
=============================================================================
