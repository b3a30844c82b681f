------------------------------- MODULE Billing -------------------------------
(***************************************************************************)
(* The payment service: checkout, provider confirmation, provider          *)
(* webhooks, scheduled downgrade and cancellation, and the direct plan     *)
(* switch of development and demo deployments.                             *)
(*                                                                         *)
(* Requests run concurrently, each on a handler.  A request is split where *)
(* another one can come between: at the unlocked read before a provider    *)
(* call, at the call itself, and between the reads and the commit of a     *)
(* transaction.  A transaction that updates a subscription carries the row *)
(* it read: the version column decides at commit, a unique index decides   *)
(* when the row did not exist.  The payment row of an order being applied  *)
(* is locked.  A handler can die at any point (Crash), which rolls its     *)
(* transaction back and leaves the provider's state as it is.              *)
(*                                                                         *)
(* The payment provider is external: an order there is READY (any          *)
(* non-final status), DONE (captured), REFUNDED (cancelled after capture)  *)
(* or ABORTED (cancelled, failed or expired before capture).  It reports   *)
(* each status by a notice, delivered until a 2xx answers it.              *)
(***************************************************************************)
EXTENDS Subscription, FiniteSets

CONSTANTS
    Users,
    Orders,         \* ids of the payment rows checkout can create
    Keys,           \* Idempotency-Key values
    Handlers,       \* request threads, of any instance
    MaxTime,        \* bound on the clock
    MaxVersion,     \* bound on the self-service changes of a subscription
    PlanSwitch      \* the direct plan switch is enabled (dev, test, demo mode)

ASSUME FlagAssumption == PlanSwitch \in BOOLEAN
ASSUME BoundAssumption == MaxTime \in Nat /\ MaxVersion \in Nat

VARIABLES
    now,            \* the clock
    accounts,       \* users with a billing account row
    subscriptions,  \* the subscription row of each user, or None
    payments,       \* the payment row of each order, or None
    webhookEvents,  \* committed provider_webhook_events rows, by provider event id
    auditLog,       \* number of subscription entries in the audit log, per user
    outbox,         \* number of activation event triples appended, per order
    announced,      \* the plan in a user's newest ENTITLEMENT_CHANGED event
    psp,            \* the provider's status of each order
    keyOwner,       \* the order the provider remembers for an Idempotency-Key
    notices,        \* notices the provider has sent
    acked,          \* notices answered 2xx: not delivered again
    shown,          \* orders whose checkout URL was handed to the customer
    handler,        \* what each handler is doing
    calm            \* no more crashes and lost answers (only FairSpec ever sets it)

rows == <<accounts, subscriptions, payments, webhookEvents, auditLog, outbox, announced>>
provider == <<psp, keyOwner, notices>>
vars == <<now, rows, provider, acked, shown, handler, calm>>

ProviderStatuses == {"READY", "DONE", "REFUNDED", "ABORTED"}
Notices == Orders \X ProviderStatuses
PaymentRow == [user : Users, plan : PaidPlans, key : Keys,
               status : {"PENDING", "SUCCEEDED", "FAILED"}]

\* None is none of the values it stands in for.
ASSUME NoneAssumption ==
    /\ None \notin Users \cup Orders \cup Keys \cup Nat \cup Plans
    /\ None \notin Notices /\ None \notin PaymentRow /\ None \notin SubscriptionRow

Idle == [op |-> "idle"]
CheckoutState ==
    [op : {"checkout", "checkoutSave"}, user : Users, plan : PaidPlans,
     key : Keys, order : Orders, hadAccount : BOOLEAN]
ConfirmState == [op : {"confirm"}, order : Orders]
EventState ==
    [op : {"event"}, order : Orders, truth : ProviderStatuses,
     notice : Notices \cup {None}]
ApplyState ==
    [op : {"apply"}, order : Orders, notice : Notices \cup {None},
     seen : SubscriptionRow \cup {None}]
ChangeState ==
    [op : {"change"}, user : Users, next : SubscriptionRow,
     seen : SubscriptionRow \cup {None}, plan : Plans \cup {None},
     hadAccount : BOOLEAN]
HandlerState == {Idle} \cup CheckoutState \cup ConfirmState \cup EventState
                \cup ApplyState \cup ChangeState

TypeOK ==
    /\ now \in Nat
    /\ accounts \subseteq Users
    /\ subscriptions \in [Users -> SubscriptionRow \cup {None}]
    /\ payments \in [Orders -> PaymentRow \cup {None}]
    /\ webhookEvents \subseteq Notices
    /\ auditLog \in [Users -> Nat]
    /\ outbox \in [Orders -> Nat]
    /\ announced \in [Users -> Plans \cup {None}]
    /\ psp \in [Orders -> ProviderStatuses \cup {"NONE"}]
    /\ keyOwner \in [Keys -> Orders \cup {None}]
    /\ notices \subseteq Notices
    /\ acked \subseteq Notices
    /\ shown \subseteq Orders
    /\ handler \in [Handlers -> HandlerState]
    /\ calm \in BOOLEAN

Init ==
    /\ now = 0
    /\ accounts = {}
    /\ subscriptions = [u \in Users |-> None]
    /\ payments = [o \in Orders |-> None]
    /\ webhookEvents = {}
    /\ auditLog = [u \in Users |-> 0]
    /\ outbox = [o \in Orders |-> 0]
    /\ announced = [u \in Users |-> None]
    /\ psp = [o \in Orders |-> "NONE"]
    /\ keyOwner = [k \in Keys |-> None]
    /\ notices = {}
    /\ acked = {}
    /\ shown = {}
    /\ handler = [h \in Handlers |-> Idle]
    /\ calm = FALSE

-----------------------------------------------------------------------------
(* Helpers.                                                                *)

\* The row of a purchase in the given status.
Payment(p, status) == [user |-> p.user, plan |-> p.plan, key |-> p.key, status |-> status]

PendingAt(o) == payments[o] # None /\ payments[o].status = "PENDING"
SucceededAt(o) == payments[o] # None /\ payments[o].status = "SUCCEEDED"
FailedAt(o) == payments[o] # None /\ payments[o].status = "FAILED"

Finish(h) == handler' = [handler EXCEPT ![h] = Idle]

\* findByBillingAccountIdAndIdempotencyKey
PaymentFor(u, k) ==
    {o \in Orders : /\ payments[o] # None
                    /\ payments[o].user = u
                    /\ payments[o].key = k}

InUse(o) ==
    \E h \in Handlers : handler[h].op \in {"checkout", "checkoutSave"}
                        /\ handler[h].order = o

\* The payment row's FOR UPDATE lock is held by a transaction in flight.
Locked(o) == \E h \in Handlers : handler[h].op = "apply" /\ handler[h].order = o

\* The answer may be lost on its way: the provider then delivers again.
Answer2xx(n) ==
    \/ acked' = acked \cup ({n} \ {None})
    \/ ~calm /\ acked' = acked

\* Mutant: no version column and no unique index on subscriptions.
RowUnchanged_Unversioned(u, seen) == TRUE

\* A versioned UPDATE, or the INSERT of a row that was absent, goes through.
RowUnchanged(u, seen) ==
    IF seen = None \/ subscriptions[u] = None
    THEN seen = None /\ subscriptions[u] = None
    ELSE subscriptions[u].version = seen.version

-----------------------------------------------------------------------------
(* Checkout.                                                               *)

\* createOnce finds a payment under the same key and returns its session.
CheckoutReuse(h, u, k) ==
    /\ handler[h] = Idle
    /\ PaymentFor(u, k) # {}
    /\ shown' = shown \cup PaymentFor(u, k)
    /\ UNCHANGED <<now, rows, provider, acked, handler, calm>>

CheckoutRequest(op, u, plan, k, o, hadAccount) ==
    [op |-> op, user |-> u, plan |-> plan, key |-> k, order |-> o,
     hadAccount |-> hadAccount]

CheckoutBegin(h, u, plan, k, o) ==
    /\ handler[h] = Idle
    /\ PaymentFor(u, k) = {}
    /\ payments[o] = None /\ psp[o] = "NONE" /\ ~InUse(o)
    /\ handler' = [handler EXCEPT ![h] =
            CheckoutRequest("checkout", u, plan, k, o, u \in accounts)]
    /\ UNCHANGED <<now, rows, provider, acked, shown, calm>>

\* provider.createCheckout, called inside the transaction and before the save.
\* The provider may remember the key for a while and replay its first answer,
\* or have forgotten it: then it opens another order.
CheckoutAtProvider(h) ==
    /\ handler[h].op = "checkout"
    /\ LET r == handler[h]
       IN /\ psp' = [psp EXCEPT ![r.order] = "READY"]
          /\ keyOwner' = [keyOwner EXCEPT ![r.key] = r.order]
          /\ notices' = notices \cup {<<r.order, "READY">>}
          /\ handler' = [handler EXCEPT ![h] =
                CheckoutRequest("checkoutSave", r.user, r.plan, r.key, r.order, r.hadAccount)]
    /\ UNCHANGED <<now, rows, acked, shown, calm>>

\* The replayed answer names another order: "echoed a different orderId".
CheckoutRefused(h) ==
    /\ handler[h].op = "checkout"
    /\ keyOwner[handler[h].key] # None
    /\ Finish(h)
    /\ UNCHANGED <<now, rows, provider, acked, shown, calm>>

\* Mutant: no unique index on (account, key).
CheckoutConflict_NoKeyIndex(r) == ~r.hadAccount /\ r.user \in accounts

\* The account index or the (account, key) index refuses the insert.
CheckoutConflict(r) ==
    \/ ~r.hadAccount /\ r.user \in accounts
    \/ PaymentFor(r.user, r.key) # {}

CheckoutSave(h) ==
    LET r == handler[h] IN
    /\ r.op = "checkoutSave"
    /\ ~CheckoutConflict(r)
    /\ accounts' = accounts \cup {r.user}
    /\ payments' = [payments EXCEPT ![r.order] = Payment(r, "PENDING")]
    /\ shown' = shown \cup {r.order}
    /\ Finish(h)
    /\ UNCHANGED <<now, subscriptions, webhookEvents, auditLog, outbox, announced,
                   provider, acked, calm>>

\* The loser of a race serves the winner's row, or fails when there is none.
CheckoutLostRace(h) ==
    LET r == handler[h] IN
    /\ r.op = "checkoutSave"
    /\ CheckoutConflict(r)
    /\ shown' = shown \cup PaymentFor(r.user, r.key)
    /\ Finish(h)
    /\ UNCHANGED <<now, rows, provider, acked, calm>>

-----------------------------------------------------------------------------
(* Confirmation after the browser returns from the provider.               *)

\* confirm reads the payment without a lock and goes on only if it is pending.
ConfirmBegin(h, o) ==
    /\ handler[h] = Idle
    /\ o \in shown /\ PendingAt(o)
    /\ handler' = [handler EXCEPT ![h] = [op |-> "confirm", order |-> o]]
    /\ UNCHANGED <<now, rows, provider, acked, shown, calm>>

\* Mutant: a status that is not final is taken for a failure.
Event_HastyFailure(o, truth, n) ==
    [op |-> "event", order |-> o, notice |-> n,
     truth |-> IF truth = "READY" THEN "ABORTED" ELSE truth]

Event(o, truth, n) == [op |-> "event", order |-> o, truth |-> truth, notice |-> n]

\* provider.confirmPayment, outside any transaction: it captures the money,
\* or answers a non-final status, or replays the answer it gave before.
ConfirmAtProvider(h) ==
    /\ handler[h].op = "confirm"
    /\ LET o == handler[h].order IN
       \/ /\ psp[o] = "READY"
          /\ psp' = [psp EXCEPT ![o] = "DONE"]
          /\ notices' = notices \cup {<<o, "DONE">>}
          /\ handler' = [handler EXCEPT ![h] = Event(o, "DONE", None)]
       \/ /\ psp[o] = "READY"
          /\ handler' = [handler EXCEPT ![h] = Event(o, "READY", None)]
          /\ UNCHANGED <<psp, notices>>
       \/ /\ psp[o] \in {"DONE", "REFUNDED"}
          /\ handler' = [handler EXCEPT ![h] = Event(o, "DONE", None)]
          /\ UNCHANGED <<psp, notices>>
       \/ /\ psp[o] \in {"REFUNDED", "ABORTED"}
          /\ Finish(h)
          /\ UNCHANGED <<psp, notices>>
    /\ UNCHANGED <<now, rows, keyOwner, acked, shown, calm>>

-----------------------------------------------------------------------------
(* A provider event, from a confirmation (no notice) or from a webhook.    *)

\* parseEvent re-fetches the order's status: that, not the body, is the event.
WebhookFetch(h, n) ==
    /\ handler[h] = Idle
    /\ n \in notices \ acked
    /\ handler' = [handler EXCEPT ![h] = Event(n[1], psp[n[1]], n)]
    /\ UNCHANGED <<now, rows, provider, acked, shown, calm>>

\* The webhook event row: inserted in the event's transaction, unique by id.
Recorded(n) == n # None /\ n \in webhookEvents
\* Mutant: a confirmation without a webhook records an event row as well.
Record_Always(n) == webhookEvents' = webhookEvents \cup {n}

Record(n) == webhookEvents' = webhookEvents \cup ({n} \ {None})

\* A non-final status is recorded (or found recorded) and changes nothing.
EventPending(h) ==
    LET e == handler[h] IN
    /\ e.op = "event" /\ e.truth = "READY"
    /\ IF e.notice # None
       THEN Record(e.notice) /\ Answer2xx(e.notice)
       ELSE UNCHANGED <<webhookEvents, acked>>
    /\ Finish(h)
    /\ UNCHANGED <<now, accounts, subscriptions, payments, auditLog, outbox, announced,
                   provider, shown, calm>>

\* applyConfirmedEvent on an order that already succeeded.
EventDuplicate(h) ==
    LET e == handler[h] IN
    /\ e.op = "event" /\ e.truth # "READY" /\ ~Locked(e.order)
    /\ SucceededAt(e.order)
    /\ Record(e.notice)
    /\ Answer2xx(e.notice)
    /\ Finish(h)
    /\ UNCHANGED <<now, accounts, subscriptions, payments, auditLog, outbox, announced,
                   provider, shown, calm>>

\* An unknown or already failed order: the exception rolls the event row back
\* and answers 4xx, so the provider keeps delivering.
EventRefused(h) ==
    LET e == handler[h] IN
    /\ e.op = "event" /\ e.truth # "READY" /\ ~Locked(e.order)
    /\ ~SucceededAt(e.order) /\ ~PendingAt(e.order)
    /\ Finish(h)
    /\ UNCHANGED <<now, rows, provider, acked, shown, calm>>

\* Mutant: a failure is applied without asking whether the payment is pending.
EventFails_Unchecked(h) ==
    LET e == handler[h] IN
    /\ e.op = "event" /\ e.truth \in {"REFUNDED", "ABORTED"} /\ ~Locked(e.order)
    /\ payments[e.order] # None
    /\ payments' = [payments EXCEPT ![e.order] = Payment(@, "FAILED")]
    /\ Record(e.notice)
    /\ Answer2xx(e.notice)
    /\ Finish(h)
    /\ UNCHANGED <<now, accounts, subscriptions, auditLog, outbox, announced,
                   provider, shown, calm>>

\* A final failure at the provider fails the pending payment.
EventFails(h) ==
    LET e == handler[h] IN
    /\ e.op = "event" /\ e.truth \in {"REFUNDED", "ABORTED"} /\ ~Locked(e.order)
    /\ PendingAt(e.order)
    /\ payments' = IF Recorded(e.notice)
                   THEN payments    \* the event row conflicts: all of it rolls back
                   ELSE [payments EXCEPT ![e.order] = Payment(@, "FAILED")]
    /\ Record(e.notice)
    /\ Answer2xx(e.notice)
    /\ Finish(h)
    /\ UNCHANGED <<now, accounts, subscriptions, auditLog, outbox, announced,
                   provider, shown, calm>>

\* Mutants: the status is not read again under the lock; the row is not locked.
ApplyBegin_NotReread(h) ==
    LET e == handler[h] IN
    /\ e.op = "event" /\ e.truth = "DONE" /\ ~Locked(e.order)
    /\ payments[e.order] # None
    /\ handler' = [handler EXCEPT ![h] =
            [op |-> "apply", order |-> e.order, notice |-> e.notice,
             seen |-> subscriptions[payments[e.order].user]]]
    /\ UNCHANGED <<now, rows, provider, acked, shown, calm>>

ApplyBegin_Unlocked(h) ==
    LET e == handler[h] IN
    /\ e.op = "event" /\ e.truth = "DONE"
    /\ PendingAt(e.order)
    /\ handler' = [handler EXCEPT ![h] =
            [op |-> "apply", order |-> e.order, notice |-> e.notice,
             seen |-> subscriptions[payments[e.order].user]]]
    /\ UNCHANGED <<now, rows, provider, acked, shown, calm>>

\* Success: lock the payment row and read the subscription.
ApplyBegin(h) ==
    LET e == handler[h] IN
    /\ e.op = "event" /\ e.truth = "DONE" /\ ~Locked(e.order)
    /\ PendingAt(e.order)
    /\ handler' = [handler EXCEPT ![h] =
            [op |-> "apply", order |-> e.order, notice |-> e.notice,
             seen |-> subscriptions[payments[e.order].user]]]
    /\ UNCHANGED <<now, rows, provider, acked, shown, calm>>

\* The row an activation starts from: the one it read, or a fresh one.
Base(seen, status) == IF seen = None THEN create(status) ELSE seen

ApplyCommit(h) ==
    LET a == handler[h] IN
    /\ a.op = "apply"
    /\ ~Recorded(a.notice)
    /\ LET p == payments[a.order] IN
       /\ RowUnchanged(p.user, a.seen)
       /\ subscriptions' = [subscriptions EXCEPT ![p.user] =
                                activate(Base(a.seen, "PENDING"), p.plan, now)]
       /\ auditLog' = [auditLog EXCEPT ![p.user] = @ + 1]
       /\ announced' = [announced EXCEPT ![p.user] = p.plan]
    /\ payments' = [payments EXCEPT ![a.order] = Payment(@, "SUCCEEDED")]
    /\ outbox' = [outbox EXCEPT ![a.order] = @ + 1]
    /\ Record(a.notice)
    /\ Answer2xx(a.notice)
    /\ Finish(h)
    /\ UNCHANGED <<now, accounts, provider, shown, calm>>

\* Mutant: every failure of the transaction is answered DUPLICATE.
ApplyConflict_AnyFailure(h) ==
    LET a == handler[h] IN
    /\ a.op = "apply"
    /\ Answer2xx(a.notice)
    /\ Finish(h)
    /\ UNCHANGED <<now, rows, provider, shown, calm>>

\* A unique index refuses the commit (the event row, or a subscription row
\* created meanwhile).  Webhook processing answers any such conflict DUPLICATE.
ApplyConflict(h) ==
    LET a == handler[h] IN
    /\ a.op = "apply"
    /\ \/ Recorded(a.notice)
       \/ a.seen = None /\ subscriptions[payments[a.order].user] # None
    /\ Answer2xx(a.notice)
    /\ Finish(h)
    /\ UNCHANGED <<now, rows, provider, shown, calm>>

\* The version moved: the optimistic lock fails the request (5xx).
ApplyStale(h) ==
    LET a == handler[h] IN
    /\ a.op = "apply"
    /\ ~Recorded(a.notice)
    /\ a.seen # None /\ ~RowUnchanged(payments[a.order].user, a.seen)
    /\ Finish(h)
    /\ UNCHANGED <<now, rows, provider, acked, shown, calm>>

-----------------------------------------------------------------------------
(* Changes of a subscription by its owner, and the direct plan switch.     *)
(* Each one reads the row, decides, and commits on the version it read.    *)

\* Mutant: a plan switch that appends no entitlement event.
Change_Silent(u, next, plan) ==
    [op |-> "change", user |-> u, next |-> next, seen |-> subscriptions[u],
     plan |-> None, hadAccount |-> u \in accounts]

Change(u, next, plan) ==
    [op |-> "change", user |-> u, next |-> next, seen |-> subscriptions[u],
     plan |-> plan, hadAccount |-> u \in accounts]

\* The insert of an account another request created meanwhile fails as well.
ChangeGoesThrough(c) ==
    /\ RowUnchanged(c.user, c.seen)
    /\ c.hadAccount \/ c.user \notin accounts

ScheduleDowngrade(h, u, target) ==
    LET sub == subscriptions[u] IN
    /\ handler[h] = Idle
    /\ sub # None /\ sub.status = "ACTIVE"
    /\ target # "FREE"
    /\ monthlyPriceCents(target) < monthlyPriceCents(parseOrFree(sub.currentPlan))
    /\ sub.version < MaxVersion
    /\ LET at == IF sub.currentPeriodEnd # None THEN sub.currentPeriodEnd ELSE now
       IN handler' = [handler EXCEPT ![h] =
                        Change(u, schedulePlanChange(sub, target, at), None)]
    /\ UNCHANGED <<now, rows, provider, acked, shown, calm>>

CancelAtPeriodEnd(h, u) ==
    LET sub == subscriptions[u] IN
    /\ handler[h] = Idle
    /\ sub # None /\ ~sub.cancelAtPeriodEnd
    /\ parseOrFree(sub.currentPlan) # "FREE" /\ sub.status = "ACTIVE"
    /\ sub.version < MaxVersion
    /\ handler' = [handler EXCEPT ![h] = Change(u, scheduleCancellation(sub), None)]
    /\ UNCHANGED <<now, rows, provider, acked, shown, calm>>

\* switchPlan, unless the plan is already held.
SwitchPlan(h, u, target) ==
    LET sub == Base(subscriptions[u], "ACTIVE") IN
    /\ PlanSwitch
    /\ handler[h] = Idle
    /\ ~(sub.currentPlan = target /\ sub.pendingPlan = None /\ sub.status = "ACTIVE")
    /\ sub.version < MaxVersion
    /\ handler' = [handler EXCEPT ![h] = Change(u, activate(sub, target, now), target)]
    /\ UNCHANGED <<now, rows, provider, acked, shown, calm>>

\* Switching a user without a subscription to FREE inserts the row and stops.
SwitchToFree(h, u) ==
    /\ PlanSwitch
    /\ handler[h] = Idle
    /\ subscriptions[u] = None
    /\ accounts' = accounts \cup {u}
    /\ subscriptions' = [subscriptions EXCEPT ![u] = create("ACTIVE")]
    /\ UNCHANGED <<now, payments, webhookEvents, auditLog, outbox, announced,
                   provider, acked, shown, handler, calm>>

ChangeCommit(h) ==
    LET c == handler[h] IN
    /\ c.op = "change"
    /\ ChangeGoesThrough(c)
    /\ accounts' = accounts \cup {c.user}
    /\ subscriptions' = [subscriptions EXCEPT ![c.user] = c.next]
    /\ auditLog' = [auditLog EXCEPT ![c.user] = @ + 1]
    /\ announced' = [announced EXCEPT ![c.user] = IF c.plan = None THEN @ ELSE c.plan]
    /\ Finish(h)
    /\ UNCHANGED <<now, payments, webhookEvents, outbox, provider, acked, shown, calm>>

ChangeStale(h) ==
    LET c == handler[h] IN
    /\ c.op = "change"
    /\ ~ChangeGoesThrough(c)
    /\ Finish(h)
    /\ UNCHANGED <<now, rows, provider, acked, shown, calm>>

-----------------------------------------------------------------------------
(* The environment: time, the provider's own transitions, crashes.         *)

Tick ==
    /\ now < MaxTime
    /\ now' = now + 1
    /\ UNCHANGED <<rows, provider, acked, shown, handler, calm>>

ProviderMoves(o, status) ==
    /\ \/ psp[o] = "READY" /\ status = "DONE" /\ o \in shown  \* a late deposit
       \/ psp[o] = "READY" /\ status = "ABORTED"
       \/ psp[o] = "DONE" /\ status = "REFUNDED"
    /\ psp' = [psp EXCEPT ![o] = status]
    /\ notices' = notices \cup {<<o, status>>}
    /\ UNCHANGED <<now, rows, keyOwner, acked, shown, handler, calm>>

\* The process dies, or an exception or a timeout ends the request.
Crash(h) ==
    /\ ~calm
    /\ handler[h] # Idle
    /\ Finish(h)
    /\ UNCHANGED <<now, rows, provider, acked, shown, calm>>

-----------------------------------------------------------------------------
Checkout(h) ==
    \/ \E u \in Users, k \in Keys : CheckoutReuse(h, u, k)
    \/ \E u \in Users, plan \in PaidPlans, k \in Keys, o \in Orders :
            CheckoutBegin(h, u, plan, k, o)
    \/ CheckoutAtProvider(h)
    \/ CheckoutRefused(h)
    \/ CheckoutSave(h)
    \/ CheckoutLostRace(h)

HandleEvent(h) ==
    \/ EventPending(h)
    \/ EventDuplicate(h)
    \/ EventRefused(h)
    \/ EventFails(h)
    \/ ApplyBegin(h)

Apply(h) ==
    \/ ApplyCommit(h)
    \/ ApplyConflict(h)
    \/ ApplyStale(h)

SelfService(h) ==
    \/ \E u \in Users, target \in PaidPlans : ScheduleDowngrade(h, u, target)
    \/ \E u \in Users : CancelAtPeriodEnd(h, u)
    \/ \E u \in Users, target \in Plans : SwitchPlan(h, u, target)
    \/ \E u \in Users : SwitchToFree(h, u)
    \/ ChangeCommit(h)
    \/ ChangeStale(h)

Next ==
    \/ \E h \in Handlers :
        \/ Checkout(h)
        \/ \E o \in Orders : ConfirmBegin(h, o)
        \/ ConfirmAtProvider(h)
        \/ \E n \in Notices : WebhookFetch(h, n)
        \/ HandleEvent(h)
        \/ Apply(h)
        \/ SelfService(h)
        \/ Crash(h)
    \/ \E o \in Orders, s \in ProviderStatuses : ProviderMoves(o, s)
    \/ Tick

Spec == Init /\ [][Next]_vars

\* The next step of a request already under way.
RunOn(h) ==
    \/ CheckoutAtProvider(h) \/ CheckoutRefused(h)
    \/ CheckoutSave(h) \/ CheckoutLostRace(h)
    \/ ConfirmAtProvider(h)
    \/ HandleEvent(h)
    \/ Apply(h)
    \/ ChangeCommit(h) \/ ChangeStale(h)

\* Faults end: from some point on no request dies and no answer is lost.
Calm ==
    /\ ~calm
    /\ calm' = TRUE
    /\ UNCHANGED <<now, rows, provider, acked, shown, handler>>

\* The provider delivers a notice until it is answered, the server picks each
\* delivery up, and requests run to their end.  Customers and operators owe
\* the system nothing.
FairSpec ==
    /\ Init /\ [][Next \/ Calm]_vars
    /\ WF_vars(Calm)
    /\ \A n \in Notices : SF_vars(\E h \in Handlers : WebhookFetch(h, n))
    /\ \A h \in Handlers : WF_vars(RunOn(h))

-----------------------------------------------------------------------------
(* Properties.                                                             *)

Captured(o) == psp[o] \in {"DONE", "REFUNDED"}

\* Whatever the mix of callbacks, webhooks, redeliveries and crashes, an order
\* has one set of activation events if it succeeded and none otherwise: the
\* payment row, its lock and the outbox of applyConfirmedEvent agree.
ActivatedOnce ==
    \A o \in Orders : outbox[o] = IF SucceededAt(o) THEN 1 ELSE 0

\* No local verdict contradicts the provider: a payment succeeds only when the
\* provider captured the money, and fails only when it can no longer be
\* captured (the transient statuses of eventFromPayment fail nothing).
VerdictMatchesProvider ==
    \A o \in Orders :
        /\ SucceededAt(o) => Captured(o)
        /\ FailedAt(o) => psp[o] \in {"REFUNDED", "ABORTED"}

\* What makes the two inductive: the lock admits one apply per order, and only
\* of a captured pending order; what a handler was told by the provider stays
\* true; a checkout in flight owns its order; money is captured and confirmed
\* only for opened orders; a change moves the version it read by one.
LockExclusive ==
    \A g, h \in Handlers :
        handler[g].op = "apply" /\ handler[h].op = "apply" /\ handler[g].order = handler[h].order
        => g = h
ApplyPending ==
    \A h \in Handlers :
        handler[h].op = "apply" => PendingAt(handler[h].order) /\ Captured(handler[h].order)
EventTruth ==
    \A h \in Handlers : handler[h].op = "event" =>
        /\ handler[h].truth = "DONE" => Captured(handler[h].order)
        /\ handler[h].truth \in {"REFUNDED", "ABORTED"}
            => psp[handler[h].order] \in {"REFUNDED", "ABORTED"}
CheckingOut(h) == handler[h].op \in {"checkout", "checkoutSave"}
CheckoutFresh ==
    \A h \in Handlers : CheckingOut(h) =>
        /\ payments[handler[h].order] = None
        /\ handler[h].op = "checkout" => psp[handler[h].order] = "NONE"
        /\ \A g \in Handlers : CheckingOut(g) /\ handler[g].order = handler[h].order => g = h
OpenedOrders ==
    /\ \A o \in Orders : o \in shown \/ Captured(o) => payments[o] # None
    /\ \A h \in Handlers : handler[h].op = "confirm" => payments[handler[h].order] # None
ChangeCounts ==
    \A h \in Handlers : handler[h].op = "change" =>
        handler[h].next.version = Base(handler[h].seen, "ACTIVE").version + 1

OrderInv ==
    /\ ActivatedOnce /\ VerdictMatchesProvider
    /\ LockExclusive /\ ApplyPending /\ EventTruth
    /\ CheckoutFresh /\ OpenedOrders /\ ChangeCounts

\* However checkouts race, retry or die half-way, a customer is never given two
\* orders to pay under one Idempotency-Key ("no duplicate order can exist").
OneOrderPerKey ==
    \A o1, o2 \in shown :
        /\ payments[o1] # None
        /\ payments[o1].user = payments[o2].user /\ payments[o1].key = payments[o2].key
            => o1 = o2

\* No update is lost: the version counts every audited transition, so no
\* transaction overwrote a row it had not read.
VersionCountsTransitions ==
    \A u \in Users :
        auditLog[u] = IF subscriptions[u] = None THEN 0 ELSE subscriptions[u].version

\* What the newest entitlement event says is what the row holds: every commit
\* that changes the plan appends its event with it.
AnnouncedIsHeld ==
    \A u \in Users :
        announced[u] = IF subscriptions[u] = None \/ subscriptions[u].currentPeriodEnd = None
                       THEN None ELSE subscriptions[u].currentPlan

\* A scheduled downgrade lands on the boundary of the period it was scheduled
\* in, and the cancellation flag that makes cancelling idempotent agrees with
\* the status that resolution reads, across any re-activation.
ScheduledAtBoundary ==
    \A u \in Users :
        LET sub == subscriptions[u] IN
        sub # None =>
            /\ sub.pendingPlan # None => /\ sub.effectiveAt # None
                                        /\ sub.effectiveAt = sub.currentPeriodEnd
            /\ sub.cancelAtPeriodEnd <=> sub.status = "CANCEL_AT_PERIOD_END"

\* Inside the paid period no step changes what the user holds without an
\* entitlement event: downgrades and cancellations wait for the boundary.
NoUnannouncedChange ==
    [][\A u \in Users :
        /\ subscriptions[u] # None /\ withinPeriod(subscriptions[u], now')
        /\ announced'[u] = announced[u]
        => resolve(subscriptions'[u], now') = resolve(subscriptions[u], now)]_vars

\* The service keeps the promise of Purchases: every step is a step of it, or
\* changes nothing it speaks of.
Standing == [o \in Orders |->
                IF payments[o] = None THEN "none"
                ELSE IF payments[o].status = "SUCCEEDED" THEN "granted"
                ELSE IF payments[o].status = "FAILED" THEN "refused" ELSE "open"]
Owner == [o \in Orders |-> IF payments[o] = None THEN None ELSE payments[o].user]
CapturedOrders == {o \in Orders : Captured(o)}
Versions == [u \in Users |-> IF subscriptions[u] = None THEN 0 ELSE subscriptions[u].version]

P == INSTANCE Purchases WITH
        Customers <- Users, Purchase <- Orders, Nobody <- None,
        order <- Standing, owner <- Owner, captured <- CapturedOrders, version <- Versions
KeepsPurchasePromise == P!PSpec

\* Money the provider captured does not stay in limbo: the payment reaches a
\* verdict, whatever dies between the capture and the commit.
CapturedOrderSettles ==
    \A o \in Orders : psp[o] = "DONE" ~> SucceededAt(o) \/ FailedAt(o)

-----------------------------------------------------------------------------
(* Statements of the repository that the code does not keep.               *)

\* A webhook is answered 2xx only on the strength of a committed event row:
\* "the caller answers duplicate from the already-committed first row".
AckedIsRecorded == acked \subseteq webhookEvents
=============================================================================
