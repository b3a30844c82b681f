------------------------------ MODULE Purchases ------------------------------
(***************************************************************************)
(* What billing promises about a purchase, without requests, locks,        *)
(* webhooks or crashes: an order is opened once for one customer, money is *)
(* captured only for an open order, an open order is granted or refused    *)
(* once and for all, it is granted only against captured money, and each   *)
(* grant or change moves the customer's entitlement version by one.        *)
(***************************************************************************)
EXTENDS Naturals

CONSTANTS Customers, Purchase, Nobody

VARIABLES
    order,      \* "none", "open", "granted" or "refused"
    owner,      \* the customer of each opened order
    captured,   \* orders the provider holds, or held, money for
    version     \* the entitlement version of each customer

pvars == <<order, owner, captured, version>>

PInit ==
    /\ order = [o \in Purchase |-> "none"]
    /\ owner = [o \in Purchase |-> Nobody]
    /\ captured = {}
    /\ version = [c \in Customers |-> 0]

Open(o, c) ==
    /\ order[o] = "none"
    /\ order' = [order EXCEPT ![o] = "open"]
    /\ owner' = [owner EXCEPT ![o] = c]
    /\ UNCHANGED <<captured, version>>

Capture(o) ==
    /\ order[o] = "open"
    /\ captured' = captured \cup {o}
    /\ UNCHANGED <<order, owner, version>>

Grant(o) ==
    /\ order[o] = "open" /\ o \in captured
    /\ order' = [order EXCEPT ![o] = "granted"]
    /\ version' = [version EXCEPT ![owner[o]] = @ + 1]
    /\ UNCHANGED <<owner, captured>>

Refuse(o) ==
    /\ order[o] = "open"
    /\ order' = [order EXCEPT ![o] = "refused"]
    /\ UNCHANGED <<owner, captured, version>>

ChangePlan(c) ==
    /\ version' = [version EXCEPT ![c] = @ + 1]
    /\ UNCHANGED <<order, owner, captured>>

PNext ==
    \/ \E o \in Purchase, c \in Customers : Open(o, c)
    \/ \E o \in Purchase : Capture(o) \/ Grant(o) \/ Refuse(o)
    \/ \E c \in Customers : ChangePlan(c)

PSpec == PInit /\ [][PNext]_pvars
=============================================================================
