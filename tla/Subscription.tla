---------------------------- MODULE Subscription ----------------------------
(***************************************************************************)
(* The subscription aggregate of the payment service and the read-side     *)
(* resolution of what it entitles its owner to.  Values only: the modules  *)
(* that use it hold the rows, the clock and the transactions.              *)
(*                                                                         *)
(* A subscription row is a record.  Plans and statuses are stored as       *)
(* strings and parsed defensively, so a row may also hold Unknown, a value *)
(* this deployment cannot parse.  Instants are naturals.                   *)
(***************************************************************************)
EXTENDS Integers

CONSTANTS
    None,           \* SQL NULL and the absent row
    PeriodLength,   \* the paid period (30 days)
    Grace           \* how long PAST_DUE keeps the plan past the period end (7 days)

ASSUME PeriodAssumption == PeriodLength \in Nat \ {0}
ASSUME GraceAssumption == Grace \in Nat

Plans == {"FREE", "PRO", "MAX"}
PaidPlans == Plans \ {"FREE"}
Unknown == "UNKNOWN"

Statuses == {"PENDING", "ACTIVE", "PAST_DUE", "CANCEL_AT_PERIOD_END",
             "CANCELLED", "EXPIRED"}

monthlyPriceCents(plan) ==
    CASE plan = "FREE" -> 0 [] plan = "PRO" -> 700 [] plan = "MAX" -> 1200

\* Plan.parse(raw).orElse(Plan.FREE)
parseOrFree(raw) == IF raw \in Plans THEN raw ELSE "FREE"

SubscriptionRow ==
    [currentPlan : Plans \cup {Unknown}, pendingPlan : Plans \cup {None},
     effectiveAt : Nat \cup {None}, status : Statuses \cup {Unknown},
     currentPeriodEnd : Nat \cup {None}, cancelAtPeriodEnd : BOOLEAN,
     version : Nat]

-----------------------------------------------------------------------------
(* Transitions.  Each one that is saved is one versioned UPDATE, so the    *)
(* optimistic-lock column moves with it.                                   *)

create(status) ==
    [currentPlan |-> "FREE", pendingPlan |-> None, effectiveAt |-> None,
     status |-> status, currentPeriodEnd |-> None, cancelAtPeriodEnd |-> FALSE,
     version |-> 0]

\* Mutant: a new period does not clear what was scheduled in the old one.
activate_KeepsSchedule(sub, plan, now) ==
    [currentPlan |-> plan, pendingPlan |-> sub.pendingPlan,
     effectiveAt |-> sub.effectiveAt, status |-> "ACTIVE",
     currentPeriodEnd |-> now + PeriodLength,
     cancelAtPeriodEnd |-> sub.cancelAtPeriodEnd, version |-> sub.version + 1]

activate(sub, plan, now) ==
    [currentPlan |-> plan, pendingPlan |-> None, effectiveAt |-> None,
     status |-> "ACTIVE", currentPeriodEnd |-> now + PeriodLength,
     cancelAtPeriodEnd |-> FALSE, version |-> sub.version + 1]

schedulePlanChange(sub, target, at) ==
    [currentPlan |-> sub.currentPlan, pendingPlan |-> target, effectiveAt |-> at,
     status |-> sub.status, currentPeriodEnd |-> sub.currentPeriodEnd,
     cancelAtPeriodEnd |-> sub.cancelAtPeriodEnd, version |-> sub.version + 1]

scheduleCancellation(sub) ==
    [currentPlan |-> sub.currentPlan, pendingPlan |-> sub.pendingPlan,
     effectiveAt |-> sub.effectiveAt, status |-> "CANCEL_AT_PERIOD_END",
     currentPeriodEnd |-> sub.currentPeriodEnd, cancelAtPeriodEnd |-> TRUE,
     version |-> sub.version + 1]

-----------------------------------------------------------------------------
(* Resolution at an instant.                                               *)

\* Mutant: a scheduled change counts from the moment it is scheduled.
planConsideringPending_AtOnce(sub, now) ==
    IF sub.pendingPlan # None THEN sub.pendingPlan ELSE sub.currentPlan

planConsideringPending(sub, now) ==
    IF /\ sub.pendingPlan # None
       /\ sub.effectiveAt # None
       /\ sub.effectiveAt <= now
    THEN sub.pendingPlan
    ELSE sub.currentPlan

withinPeriod(sub, now) ==
    /\ sub.currentPeriodEnd # None
    /\ sub.currentPeriodEnd > now

withinPastDueGrace(sub, now) ==
    /\ sub.currentPeriodEnd # None
    /\ sub.currentPeriodEnd + Grace > now

\* The plan a user holds right now; every other case falls to FREE.
resolve(sub, now) ==
    CASE sub = None -> "FREE"
      [] sub # None /\ (sub.status \notin Statuses \/ sub.currentPlan \notin Plans)
           -> "FREE"
      [] OTHER ->
         CASE sub.status = "ACTIVE" -> planConsideringPending(sub, now)
           [] sub.status = "PAST_DUE" /\ withinPastDueGrace(sub, now)
                -> planConsideringPending(sub, now)
           [] sub.status = "CANCEL_AT_PERIOD_END" /\ withinPeriod(sub, now)
                -> sub.currentPlan
           [] OTHER -> "FREE"

=============================================================================
