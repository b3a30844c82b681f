--------------------------- MODULE EntitlementCache ---------------------------
(***************************************************************************)
(* How the backend learns a candidate's plan: the payment service is the   *)
(* authority, Redis holds a short-lived copy, and ENTITLEMENT_CHANGED      *)
(* events drop that copy early.                                            *)
(*                                                                         *)
(* Entries of different candidates never meet, so there is one candidate,  *)
(* and a plan is known by the number of changes that led to it: version v  *)
(* is the truth until change v + 1.  An event is named by the version its  *)
(* change made.  A read of the plan is split at the lookup over HTTP, and  *)
(* the consumer between claiming an event and invalidating.                *)
(*                                                                         *)
(* Time passes while a lookup is under way, but not beyond the lookup's    *)
(* timeout: Timeout is the client's abort timer and includes the Redis     *)
(* write that follows the answer.                                          *)
(***************************************************************************)
EXTENDS Naturals

CONSTANTS
    None,
    Readers,        \* requests that need the plan
    Callers,        \* requests that change the plan through BillingService
    TTL,            \* entitlements.cacheTtlSeconds, at most 300
    Timeout,        \* entitlements.timeoutMs
    MaxTime,        \* bound on the clock
    MaxChanges,     \* bound on the changes of the plan
    MaxOutages,     \* bound on Redis outages
    MaxCrashes      \* bound on crashes of the consumer

ASSUME DurationAssumption == TTL \in Nat /\ Timeout \in Nat
ASSUME NoneAssumption == None \notin Nat

VARIABLES
    now,
    truth,          \* the version in force at the payment service
    changedAt,      \* when each version came into force
    cache,          \* the Redis entry, or None
    redisUp,
    outages,        \* Redis outages so far
    seen,           \* event ids the dedupe store remembers
    reader,         \* what each read is doing
    caller,         \* the change a caller awaits the answer of, or None
    topic,          \* events delivered and not yet acknowledged
    consumer,       \* the event claimed and not yet acknowledged, or None
    crashes,        \* crashes of the consumer so far
    acked,          \* events acknowledged at least once
    heard           \* events whose handling reached invalidate

redis == <<cache, redisUp, outages, seen>>
events == <<topic, consumer, crashes, acked, heard>>
vars == <<now, truth, changedAt, redis, reader, caller, events>>

Events == 1 .. truth
Entry == [version : Nat, until : Nat]
Idle == [stage |-> "idle"]
Lookup == [stage : {"asked"}, until : Nat]
          \cup [stage : {"read"}, until : Nat, version : Nat]

TypeOK ==
    /\ now \in Nat /\ truth \in Nat /\ outages \in Nat /\ crashes \in Nat
    /\ changedAt \in [Events -> Nat]
    /\ cache \in Entry \cup {None}
    /\ redisUp \in BOOLEAN
    /\ seen \subseteq Events /\ topic \subseteq Events
    /\ acked \subseteq Events /\ heard \subseteq Events
    /\ reader \in [Readers -> Lookup \cup {Idle}]
    /\ caller \in [Callers -> Events \cup {None}]
    /\ consumer \in Events \cup {None}

Init ==
    /\ now = 0 /\ truth = 0 /\ changedAt = [e \in 1 .. 0 |-> 0]
    /\ cache = None /\ redisUp = TRUE /\ outages = 0 /\ seen = {}
    /\ reader = [r \in Readers |-> Idle]
    /\ caller = [c \in Callers |-> None]
    /\ topic = {} /\ consumer = None /\ crashes = 0
    /\ acked = {} /\ heard = {}

-----------------------------------------------------------------------------
(* planFor: the cache, else the payment service.                           *)

\* What read finds; an outage reads as a miss.
Cached == redisUp /\ cache # None /\ now < cache.until

\* Nothing is written with a TTL of zero: such an entry never counts as cached.
Fresh(v) == [version |-> v, until |-> now + TTL]

\* Mutant: a hit renews the entry.
ReadHit_Sliding(r) ==
    /\ reader[r] = Idle /\ Cached
    /\ cache' = Fresh(cache.version)
    /\ UNCHANGED <<now, truth, changedAt, redisUp, outages, seen, reader, caller,
                   events>>

ReadHit(r) ==
    /\ reader[r] = Idle /\ Cached
    /\ UNCHANGED <<now, truth, changedAt, redis, reader, caller, events>>

ReadMiss(r) ==
    /\ reader[r] = Idle /\ ~Cached
    /\ reader' = [reader EXCEPT ![r] = [stage |-> "asked", until |-> now + Timeout]]
    /\ UNCHANGED <<now, truth, changedAt, redis, caller, events>>

\* The payment service resolves the plan at some moment of the lookup.
ServiceResolves(r) ==
    /\ reader[r].stage = "asked"
    /\ reader' = [reader EXCEPT ![r] =
            [stage |-> "read", until |-> reader[r].until, version |-> truth]]
    /\ UNCHANGED <<now, truth, changedAt, redis, caller, events>>

\* Unreadable truth grants nothing and is not remembered.
LookupFails(r) ==
    /\ reader[r] # Idle
    /\ reader' = [reader EXCEPT ![r] = Idle]
    /\ UNCHANGED <<now, truth, changedAt, redis, caller, events>>

\* write, then the answer; a write that fails costs a lookup next time.
Fill(r) ==
    /\ reader[r].stage = "read"
    /\ cache' = IF redisUp THEN Fresh(reader[r].version) ELSE cache
    /\ reader' = [reader EXCEPT ![r] = Idle]
    /\ UNCHANGED <<now, truth, changedAt, redisUp, outages, seen, caller, events>>

-----------------------------------------------------------------------------
(* Changes of the plan, and the request that makes one.                    *)

NewVersion ==
    /\ truth < MaxChanges
    /\ truth' = truth + 1
    /\ changedAt' = [e \in 1 .. truth + 1 |-> IF e = truth + 1 THEN now ELSE changedAt[e]]

\* A change nobody at the backend waits for: a payment webhook, a boundary.
PlanChanges ==
    /\ NewVersion
    /\ UNCHANGED <<now, redis, reader, caller, events>>

\* devPlanSwitch, cancel, downgrade: the payment service commits the change.
CallerChanges(c) ==
    /\ caller[c] = None
    /\ NewVersion
    /\ caller' = [caller EXCEPT ![c] = truth + 1]
    /\ UNCHANGED <<now, redis, reader, events>>

\* invalidate swallows a failing Redis.
Dropped == cache' = IF redisUp THEN None ELSE cache

CallerInvalidates(c) ==
    /\ caller[c] # None
    /\ Dropped
    /\ caller' = [caller EXCEPT ![c] = None]
    /\ UNCHANGED <<now, truth, changedAt, redisUp, outages, seen, reader, events>>

\* The answer of the payment service came too late or not at all: no invalidation.
CallerFails(c) ==
    /\ caller[c] # None
    /\ caller' = [caller EXCEPT ![c] = None]
    /\ UNCHANGED <<now, truth, changedAt, redis, reader, events>>

-----------------------------------------------------------------------------
(* The consumer of ENTITLEMENT_CHANGED.                                    *)

\* The outbox publishes every change at least once, in any order.
Deliver(e) ==
    /\ e \in Events \ topic
    /\ topic' = topic \cup {e}
    /\ UNCHANGED <<now, truth, changedAt, redis, reader, caller, consumer, crashes,
                   acked, heard>>

\* Mutant: the offset that is committed is that of the event in hand.
Acknowledge_Held(e) ==
    /\ topic' = topic \ {e}
    /\ acked' = acked \cup {consumer}

Acknowledge(e) ==
    /\ topic' = topic \ {e}
    /\ acked' = acked \cup {e}

\* alreadySeen: SET NX claims the id, or finds it claimed.
EventDuplicate(e) ==
    /\ consumer = None /\ e \in topic
    /\ redisUp /\ e \in seen
    /\ Acknowledge(e)
    /\ UNCHANGED <<now, truth, changedAt, redis, reader, caller, consumer, crashes,
                   heard>>

EventClaimed(e) ==
    /\ consumer = None /\ e \in topic
    /\ ~(redisUp /\ e \in seen)
    /\ seen' = IF redisUp THEN seen \cup {e} ELSE seen
    /\ consumer' = e
    /\ UNCHANGED <<now, truth, changedAt, cache, redisUp, outages, reader, caller,
                   topic, crashes, acked, heard>>

EventInvalidates(e) ==
    /\ consumer = e
    /\ Dropped
    /\ Acknowledge(e)
    /\ heard' = heard \cup {e}
    /\ consumer' = None
    /\ UNCHANGED <<now, truth, changedAt, redisUp, outages, seen, reader, caller,
                   crashes>>

\* The process dies before the offset is committed: the event is delivered again.
ConsumerCrashes ==
    /\ consumer # None /\ crashes < MaxCrashes
    /\ crashes' = crashes + 1
    /\ consumer' = None
    /\ UNCHANGED <<now, truth, changedAt, redis, reader, caller, topic, acked, heard>>

-----------------------------------------------------------------------------
(* Redis and the clock.                                                    *)

RedisFails ==
    /\ redisUp /\ outages < MaxOutages
    /\ redisUp' = FALSE /\ outages' = outages + 1
    /\ UNCHANGED <<now, truth, changedAt, cache, seen, reader, caller, events>>

\* It comes back with its data, or restarts empty.
RedisReturns ==
    /\ ~redisUp
    /\ redisUp' = TRUE
    /\ \/ UNCHANGED <<cache, seen>>
       \/ cache' = None /\ seen' = {}
    /\ UNCHANGED <<now, truth, changedAt, outages, reader, caller, events>>

Tick ==
    /\ now < MaxTime
    /\ \A r \in Readers : reader[r] # Idle => now < reader[r].until
    /\ now' = now + 1
    /\ UNCHANGED <<truth, changedAt, redis, reader, caller, events>>

-----------------------------------------------------------------------------
Read(r) ==
    ReadHit(r) \/ ReadMiss(r) \/ ServiceResolves(r) \/ LookupFails(r) \/ Fill(r)
Call(c) == CallerChanges(c) \/ CallerInvalidates(c) \/ CallerFails(c)
Handle(e) == EventDuplicate(e) \/ EventClaimed(e) \/ EventInvalidates(e)

Next ==
    \/ \E r \in Readers : Read(r)
    \/ PlanChanges
    \/ \E c \in Callers : Call(c)
    \/ \E e \in Events : Deliver(e) \/ Handle(e)
    \/ ConsumerCrashes
    \/ RedisFails
    \/ RedisReturns
    \/ Tick

Spec == Init /\ [][Next]_vars

-----------------------------------------------------------------------------
(* Properties.                                                             *)

\* When version v stopped being the truth.
Replaced(v) == changedAt[v + 1]

\* What planFor can answer with now: a hit, or a lookup that has been resolved.
Answerable ==
    (IF Cached THEN {cache.version} ELSE {})
    \cup {reader[r].version : r \in {q \in Readers : reader[q].stage = "read"}}

\* planFor never answers with a plan that has been out of force for longer than
\* the cache lives, plus one lookup, whatever the doorbell, Redis and the
\* consumer do ("an authorization window must stay small").
StalenessBounded ==
    \A v \in Answerable : v < truth => now <= Replaced(v) + TTL + Timeout

\* handleMessage: a redelivered event is retried until its invalidation ran,
\* "because an entitlement change must not be silently lost".
AckedIsHeard == acked \subseteq heard
=============================================================================
