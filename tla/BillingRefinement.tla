-------------------------- MODULE BillingRefinement --------------------------
(***************************************************************************)
(* Billing implements Purchases: every step of the service is a step of    *)
(* the promise or leaves what it speaks of alone.  The steps rest on the   *)
(* inductive invariant of BillingSafety.                                   *)
(***************************************************************************)
EXTENDS BillingSafety

Mapped == <<Standing, Owner, CapturedOrders, Versions>>

\* A step that touches no payment, no capture and no subscription maps to a
\* stutter of Purchases.
LEMMA QuietMaps ==
    ASSUME UNCHANGED <<payments, psp, subscriptions>>
    PROVE  UNCHANGED Mapped
BY DEF Mapped, Standing, Owner, CapturedOrders, Versions, Captured

\* What the mapping sees of the payments alone, of the provider, and of the
\* subscriptions.
LEMMA PaymentsMap ==
    payments' = payments => Standing' = Standing /\ Owner' = Owner
BY DEF Standing, Owner

LEMMA VersionsMap ==
    subscriptions' = subscriptions => Versions' = Versions
BY DEF Versions

LEMMA CapturesMap ==
    ASSUME Inv, NEW o \in Orders, NEW s \in ProviderStatuses, psp' = [psp EXCEPT ![o] = s],
           Moves(psp[o], s)
    PROVE  CapturedOrders' = IF s = "DONE" THEN CapturedOrders \cup {o} ELSE CapturedOrders
<1>1. \A x \in Orders : psp'[x] = IF x = o THEN s ELSE psp[x]
  BY DEF Inv, TypeInv, TypeOK
<1>2. \A x \in Orders : Captured(x)' <=> IF x = o /\ s = "DONE" THEN TRUE ELSE Captured(x)
  BY <1>1 DEF Captured, Moves
<1>3. QED
  BY <1>2 DEF CapturedOrders

\* An opened order the provider has not settled is still open.
LEMMA ReadyIsOpen ==
    ASSUME Inv, NEW o \in Orders, payments[o] # None, psp[o] = "READY"
    PROVE  Standing[o] = "open"
<1>1. payments[o] \in PaymentRow /\ ~SucceededAt(o) /\ ~FailedAt(o)
  BY DEF Inv, TypeInv, TypeOK, OrderInv, VerdictMatchesProvider, Captured
<1>2. QED
  BY <1>1 DEF Standing, SucceededAt, FailedAt, PaymentRow

\* A new version of one subscription.
LEMMA VersionStep ==
    ASSUME Inv, NEW u \in Users, NEW seen, NEW status, RowUnchanged(u, seen),
           NEW row \in SubscriptionRow, row.version = Base(seen, status).version + 1,
           subscriptions' = [subscriptions EXCEPT ![u] = row]
    PROVE  Versions' = [Versions EXCEPT ![u] = Versions[u] + 1]
<1>1. \A x \in Users : subscriptions'[x] = IF x = u THEN row ELSE subscriptions[x]
  BY DEF Inv, TypeInv, TypeOK
<1>2. row # None
  BY NoneAssumption
<1>3. row.version = Versions[u] + 1
  <2>1. Versions[u] = IF subscriptions[u] = None THEN 0 ELSE subscriptions[u].version
    BY DEF Versions
  <2>2. CASE seen = None
    BY <2>1, <2>2 DEF RowUnchanged, Base, create
  <2>3. CASE seen # None
    BY <2>1, <2>3 DEF RowUnchanged, Base
  <2>4. QED
    BY <2>2, <2>3
<1> DEFINE v == Versions[u] + 1
<1> HIDE DEF v
<1>4. Versions' = [Versions EXCEPT ![u] = v]
  <2>1. row.version = v
    BY <1>3 DEF v
  <2>2. Versions'[u] = v
    BY <1>1, <1>2, <2>1 DEF Versions
  <2>3. \A x \in Users : x # u => Versions'[x] = Versions[x]
    BY <1>1 DEF Versions
  <2>4. Versions = [x \in Users |-> Versions[x]] /\ Versions' = [x \in Users |-> Versions'[x]]
    BY DEF Versions
  <2> HIDE DEF Versions
  <2>5. QED
    BY <2>2, <2>3, <2>4
<1>5. QED
  BY <1>4 DEF v

-----------------------------------------------------------------------------
(* Each action maps to one of Purchases or to a stutter.                   *)

LEMMA CheckoutMaps ==
    ASSUME Inv, NEW h \in Handlers, Checkout(h)
    PROVE  [P!PNext]_Mapped
<1>1. CASE \/ \E u \in Users, k \in Keys : CheckoutReuse(h, u, k)
           \/ \E u \in Users, plan \in PaidPlans, k \in Keys, o \in Orders :
                    CheckoutBegin(h, u, plan, k, o)
           \/ CheckoutRefused(h) \/ CheckoutLostRace(h)
  BY <1>1, QuietMaps
  DEF CheckoutReuse, CheckoutBegin, CheckoutRefused, CheckoutLostRace, rows, provider
<1>2. CASE CheckoutAtProvider(h)
  <2> DEFINE o == handler[h].order
  <2>1. o \in Orders /\ psp[o] = "NONE"
    BY <1>2, HandlerShape
    DEF CheckoutAtProvider, Inv, TypeInv, CheckoutState, OrderInv, CheckoutFresh, CheckingOut
  <2>2. psp' = [psp EXCEPT ![o] = "READY"] /\ UNCHANGED <<payments, subscriptions>>
    BY <1>2 DEF CheckoutAtProvider, rows
  <2> HIDE DEF o
  <2>3. CapturedOrders' = CapturedOrders
    BY <2>1, <2>2, CapturesMap DEF Moves, ProviderStatuses
  <2>4. QED
    BY <2>2, <2>3, PaymentsMap, VersionsMap DEF Mapped
<1>3. CASE CheckoutSave(h)
  <2> DEFINE r == handler[h]
             o == r.order
  <2>1. r.op = "checkoutSave" /\ payments' = [payments EXCEPT ![o] = Payment(r, "PENDING")]
        /\ UNCHANGED <<psp, subscriptions>>
    BY <1>3 DEF CheckoutSave, provider
  <2>2. r \in CheckoutState /\ payments[o] = None
    BY <2>1, HandlerShape DEF Inv, TypeInv, OrderInv, CheckoutFresh, CheckingOut
  <2>3. o \in Orders /\ r.user \in Users /\ Payment(r, "PENDING") # None
    BY <2>2, PaymentType DEF CheckoutState
  <2>4. Payment(r, "PENDING").status = "PENDING" /\ Payment(r, "PENDING").user = r.user
    BY DEF Payment
  <2>5. \A x \in Orders : payments'[x] = IF x = o THEN Payment(r, "PENDING") ELSE payments[x]
    BY <2>1 DEF Inv, TypeInv, TypeOK
  <2> HIDE DEF r, o
  <2>6. Standing[o] = "none" /\ Standing' = [Standing EXCEPT ![o] = "open"]
    BY <2>2, <2>3, <2>4, <2>5 DEF Standing
  <2>7. Owner' = [Owner EXCEPT ![o] = r.user]
    BY <2>3, <2>4, <2>5 DEF Owner
  <2>8. UNCHANGED <<CapturedOrders, Versions>>
    BY <2>1, VersionsMap DEF CapturedOrders, Captured
  <2>9. P!Open(o, r.user)
    BY <2>6, <2>7, <2>8 DEF P!Open
  <2>10. QED
    BY <2>3, <2>9 DEF P!PNext
<1>4. QED
  BY <1>1, <1>2, <1>3 DEF Checkout

\* The provider captures, or refuses, or refunds.
LEMMA ProviderMaps ==
    ASSUME Inv, NEW o \in Orders, NEW s \in ProviderStatuses, psp' = [psp EXCEPT ![o] = s],
           Moves(psp[o], s), s = "DONE" => payments[o] # None,
           UNCHANGED <<payments, subscriptions>>
    PROVE  [P!PNext]_Mapped
<1>1. UNCHANGED <<Standing, Owner, Versions>>
  BY PaymentsMap, VersionsMap
<1>2. CASE s = "DONE"
  <2>1. Standing[o] = "open"
    BY <1>2, ReadyIsOpen DEF Moves
  <2>2. CapturedOrders' = CapturedOrders \cup {o}
    BY <1>2, CapturesMap
  <2>3. P!Capture(o)
    BY <1>1, <2>1, <2>2 DEF P!Capture
  <2>4. QED
    BY <2>3 DEF P!PNext
<1>3. CASE s # "DONE"
  BY <1>1, <1>3, CapturesMap DEF Mapped
<1>4. QED
  BY <1>2, <1>3

LEMMA ConfirmMaps ==
    ASSUME Inv, NEW h \in Handlers,
           (\E o \in Orders : ConfirmBegin(h, o)) \/ ConfirmAtProvider(h)
    PROVE  [P!PNext]_Mapped
<1>1. CASE \E o \in Orders : ConfirmBegin(h, o)
  BY <1>1, QuietMaps DEF ConfirmBegin, rows, provider
<1>2. CASE ConfirmAtProvider(h)
  <2> DEFINE o == handler[h].order
  <2>1. o \in Orders /\ payments[o] # None /\ UNCHANGED <<payments, subscriptions>>
    BY <1>2, HandlerShape
    DEF ConfirmAtProvider, Inv, TypeInv, ConfirmState, OrderInv, OpenedOrders, rows
  <2>2. CASE psp[o] = "READY" /\ psp' = [psp EXCEPT ![o] = "DONE"]
    <3>1. Moves(psp[o], "DONE") /\ "DONE" \in ProviderStatuses
      BY <2>2 DEF Moves, ProviderStatuses
    <3> HIDE DEF o
    <3>2. QED
      BY <2>1, <2>2, <3>1, ProviderMaps
  <2>3. CASE psp' = psp
    BY <2>1, <2>3, QuietMaps
  <2>4. QED
    BY <1>2, <2>2, <2>3 DEF ConfirmAtProvider
<1>3. QED
  BY <1>1, <1>2

\* A verdict on a pending order changes only where that order stands.
LEMMA VerdictMaps ==
    ASSUME Inv, NEW o \in Orders, PendingAt(o), NEW status \in {"SUCCEEDED", "FAILED"},
           payments' = [payments EXCEPT ![o] = Payment(payments[o], status)]
    PROVE  /\ Standing[o] = "open" /\ Owner[o] = payments[o].user /\ Owner' = Owner
           /\ Standing' = [Standing EXCEPT ![o] =
                              IF status = "SUCCEEDED" THEN "granted" ELSE "refused"]
<1>1. payments[o] \in PaymentRow /\ payments[o] # None
  BY DEF PendingAt, Inv, TypeInv, TypeOK
<1>2. Payment(payments[o], status) # None
  BY <1>1, PaymentType DEF PaymentRow
<1>3. /\ Payment(payments[o], status).status = status
      /\ Payment(payments[o], status).user = payments[o].user
  BY DEF Payment
<1>4. \A x \in Orders : payments'[x] = IF x = o THEN Payment(payments[o], status) ELSE payments[x]
  BY DEF Inv, TypeInv, TypeOK
<1>5. Standing[o] = "open" /\ Owner[o] = payments[o].user
  BY <1>1 DEF Standing, Owner, PendingAt
<1>6. Owner' = Owner
  BY <1>1, <1>2, <1>3, <1>4 DEF Owner
<1>7. Standing' = [Standing EXCEPT ![o] = IF status = "SUCCEEDED" THEN "granted" ELSE "refused"]
  BY <1>2, <1>3, <1>4 DEF Standing
<1>8. QED
  BY <1>5, <1>6, <1>7

LEMMA EventMaps ==
    ASSUME Inv, NEW h \in Handlers, HandleEvent(h)
    PROVE  [P!PNext]_Mapped
<1> DEFINE o == handler[h].order
<1>1. CASE EventPending(h) \/ EventDuplicate(h) \/ EventRefused(h) \/ ApplyBegin(h)
  BY <1>1, QuietMaps DEF EventPending, EventDuplicate, EventRefused, ApplyBegin, rows, provider
<1>2. CASE EventFails(h)
  <2>1. /\ handler[h].op = "event" /\ PendingAt(o) /\ UNCHANGED <<psp, subscriptions>>
        /\ \/ payments' = payments
           \/ payments' = [payments EXCEPT ![o] = Payment(payments[o], "FAILED")]
    BY <1>2 DEF EventFails, provider
  <2>2. o \in Orders
    BY <2>1, HandlerShape DEF Inv, TypeInv, EventState
  <2>3. UNCHANGED <<CapturedOrders, Versions>>
    BY <2>1, VersionsMap DEF CapturedOrders, Captured
  <2>4. CASE payments' = payments
    BY <2>1, <2>4, QuietMaps
  <2>5. CASE payments' = [payments EXCEPT ![o] = Payment(payments[o], "FAILED")]
    <3> HIDE DEF o
    <3>1. /\ Standing[o] = "open" /\ Owner' = Owner
          /\ Standing' = [Standing EXCEPT ![o] = "refused"]
      BY <2>1, <2>2, <2>5, VerdictMaps
    <3>2. P!Refuse(o)
      BY <2>3, <3>1 DEF P!Refuse
    <3>3. QED
      BY <2>2, <3>2 DEF P!PNext
  <2>6. QED
    BY <2>1, <2>4, <2>5
<1>3. QED
  BY <1>1, <1>2 DEF HandleEvent

LEMMA ApplyMaps ==
    ASSUME Inv, NEW h \in Handlers, Apply(h)
    PROVE  [P!PNext]_Mapped
<1> DEFINE a == handler[h]
           o == a.order
           p == payments[o]
           row == activate(Base(a.seen, "PENDING"), p.plan, now)
<1>1. CASE ApplyConflict(h) \/ ApplyStale(h)
  BY <1>1, QuietMaps DEF ApplyConflict, ApplyStale, rows, provider
<1>2. CASE ApplyCommit(h)
  <2>1. /\ a.op = "apply" /\ RowUnchanged(p.user, a.seen) /\ psp' = psp
        /\ subscriptions' = [subscriptions EXCEPT ![p.user] = row]
        /\ payments' = [payments EXCEPT ![o] = Payment(p, "SUCCEEDED")]
    BY <1>2 DEF ApplyCommit, provider
  <2>2. a \in ApplyState
    BY <2>1, HandlerShape DEF Inv, TypeInv
  <2>3. o \in Orders /\ a.seen \in SubscriptionRow \cup {None} /\ PendingAt(o) /\ Captured(o)
    BY <2>1, <2>2 DEF ApplyState, Inv, OrderInv, ApplyPending
  <2>4. p.user \in Users /\ p.plan \in Plans /\ now \in Nat
    BY <2>3 DEF PendingAt, PaymentRow, PaidPlans, Inv, TypeInv, TypeOK
  <2>5. Base(a.seen, "PENDING") \in SubscriptionRow
    BY <2>3, CreateType DEF Base, Statuses
  <2>6. row \in SubscriptionRow /\ row.version = Base(a.seen, "PENDING").version + 1
    BY <2>4, <2>5, RowTypes DEF activate
  <2> HIDE DEF a, o, row
  <2>7. /\ Standing[o] = "open" /\ Owner[o] = p.user /\ Owner' = Owner
        /\ Standing' = [Standing EXCEPT ![o] = "granted"]
    BY <2>1, <2>3, VerdictMaps
  <2> HIDE DEF p
  <2>8. Versions' = [Versions EXCEPT ![p.user] = Versions[p.user] + 1]
    BY <2>1, <2>4, <2>6, VersionStep
  <2>9. o \in CapturedOrders /\ CapturedOrders' = CapturedOrders
    BY <2>1, <2>3 DEF CapturedOrders, Captured
  <2>10. P!Grant(o)
    BY <2>7, <2>8, <2>9 DEF P!Grant
  <2>11. QED
    BY <2>3, <2>10 DEF P!PNext
<1>3. QED
  BY <1>1, <1>2 DEF Apply

LEMMA SelfServiceMaps ==
    ASSUME Inv, NEW h \in Handlers, SelfService(h)
    PROVE  [P!PNext]_Mapped
<1>1. CASE \/ \E u \in Users, target \in PaidPlans : ScheduleDowngrade(h, u, target)
           \/ \E u \in Users : CancelAtPeriodEnd(h, u)
           \/ \E u \in Users, target \in Plans : SwitchPlan(h, u, target)
           \/ ChangeStale(h)
  BY <1>1, QuietMaps
  DEF ScheduleDowngrade, CancelAtPeriodEnd, SwitchPlan, ChangeStale, rows, provider
<1>2. ASSUME NEW u \in Users, SwitchToFree(h, u)
      PROVE  [P!PNext]_Mapped
  <2>1. /\ subscriptions[u] = None /\ UNCHANGED <<payments, psp>>
        /\ subscriptions' = [subscriptions EXCEPT ![u] = create("ACTIVE")]
    BY <1>2 DEF SwitchToFree, provider
  <2>2. \A x \in Users : subscriptions'[x] = IF x = u THEN create("ACTIVE") ELSE subscriptions[x]
    BY <2>1 DEF Inv, TypeInv, TypeOK
  <2>3. create("ACTIVE").version = 0
    BY DEF create
  <2>4. Versions' = Versions
    BY <2>1, <2>2, <2>3 DEF Versions
  <2>5. CapturedOrders' = CapturedOrders
    BY <2>1 DEF CapturedOrders, Captured
  <2>6. QED
    BY <2>1, <2>4, <2>5, PaymentsMap DEF Mapped
<1>3. CASE ChangeCommit(h)
  <2> DEFINE c == handler[h]
  <2>1. /\ c.op = "change" /\ RowUnchanged(c.user, c.seen) /\ UNCHANGED <<payments, psp>>
        /\ subscriptions' = [subscriptions EXCEPT ![c.user] = c.next]
    BY <1>3 DEF ChangeCommit, ChangeGoesThrough, provider
  <2>2. c \in ChangeState /\ c.next.version = Base(c.seen, "ACTIVE").version + 1
    BY <2>1, HandlerShape DEF Inv, TypeInv, OrderInv, ChangeCounts
  <2>3. c.user \in Users /\ c.next \in SubscriptionRow
    BY <2>2 DEF ChangeState
  <2> HIDE DEF c
  <2>4. Versions' = [Versions EXCEPT ![c.user] = Versions[c.user] + 1]
    BY <2>1, <2>2, <2>3, VersionStep
  <2>5. CapturedOrders' = CapturedOrders
    BY <2>1 DEF CapturedOrders, Captured
  <2>6. P!ChangePlan(c.user)
    BY <2>1, <2>4, <2>5, PaymentsMap DEF P!ChangePlan
  <2>7. QED
    BY <2>3, <2>6 DEF P!PNext
<1>4. QED
  BY <1>1, <1>2, <1>3 DEF SelfService

LEMMA EnvironmentMaps ==
    ASSUME Inv, Tick \/ (\E o \in Orders, s \in ProviderStatuses : ProviderMoves(o, s))
                \/ (\E h \in Handlers : Crash(h) \/ \E n \in Notices : WebhookFetch(h, n))
    PROVE  [P!PNext]_Mapped
<1>1. CASE Tick \/ \E h \in Handlers : Crash(h) \/ \E n \in Notices : WebhookFetch(h, n)
  BY <1>1, QuietMaps DEF Tick, Crash, WebhookFetch, rows, provider
<1>2. ASSUME NEW o \in Orders, NEW s \in ProviderStatuses, ProviderMoves(o, s)
      PROVE  [P!PNext]_Mapped
  <2>1. /\ Moves(psp[o], s)
        /\ s = "DONE" => payments[o] # None
        /\ psp' = [psp EXCEPT ![o] = s] /\ UNCHANGED <<payments, subscriptions>>
    BY <1>2 DEF ProviderMoves, Moves, Inv, OrderInv, OpenedOrders, rows
  <2>2. QED
    BY <2>1, ProviderMaps
<1>3. QED
  BY <1>1, <1>2

LEMMA InitMaps == Init => P!PInit
<1> SUFFICES ASSUME Init PROVE P!PInit
  OBVIOUS
<1>1. CapturedOrders = {}
  BY DEF Init, CapturedOrders, Captured
<1>2. QED
  BY <1>1 DEF Init, P!PInit, Standing, Owner, Versions

\* Every behaviour of the service is a behaviour of Purchases.
THEOREM KeepsPromise == Spec => KeepsPurchasePromise
<1>1. Inv /\ [Next]_vars => [P!PNext]_Mapped
  <2> SUFFICES ASSUME Inv, [Next]_vars PROVE [P!PNext]_Mapped
    OBVIOUS
  <2>1. ASSUME UNCHANGED vars PROVE [P!PNext]_Mapped
    BY <2>1, QuietMaps DEF vars, rows, provider
  <2>2. ASSUME Next PROVE [P!PNext]_Mapped
    BY <2>2, CheckoutMaps, ConfirmMaps, EventMaps, ApplyMaps, SelfServiceMaps, EnvironmentMaps
    DEF Next
  <2>3. QED
    BY <2>1, <2>2
<1>2. QED
  BY <1>1, InitMaps, SpecInv, PTL DEF Spec, KeepsPurchasePromise, P!PSpec, P!pvars, Mapped
=============================================================================
