--------------------------- MODULE EntitlementProofs ---------------------------
(***************************************************************************)
(* Proofs about EntitlementCache, for every TTL, lookup timeout and number *)
(* of requests: type correctness, and the bound on the staleness of what   *)
(* planFor answers.                                                        *)
(***************************************************************************)
EXTENDS EntitlementCache, TLAPS

\* A lookup under way started at most Timeout ago, and what it has read was
\* true when it started or later.
InTime(r) ==
    /\ reader[r] # Idle => now <= reader[r].until /\ reader[r].until <= now + Timeout
    /\ reader[r].stage = "read" =>
        /\ reader[r].version <= truth
        /\ reader[r].version < truth => reader[r].until <= Replaced(reader[r].version) + Timeout
LookupInv == \A r \in Readers : InTime(r)

\* An entry dies within a TTL, and within a TTL and a lookup of its replacement.
EntryInv ==
    cache # None =>
        /\ cache.version <= truth
        /\ cache.until <= now + TTL
        /\ cache.version < truth => cache.until <= Replaced(cache.version) + TTL + Timeout

\* The strengthening of StalenessBounded that every step preserves.
Inv == TypeOK /\ LookupInv /\ EntryInv

-----------------------------------------------------------------------------
(* What the actions do to the clock, the entry and the lookups.            *)

\* A change adds the version that replaces the one in force.
LEMMA Changed ==
    ASSUME TypeOK, NewVersion
    PROVE  /\ truth' = truth + 1 /\ truth' \in Nat
           /\ Events \subseteq Events'
           /\ changedAt' \in [Events' -> Nat]
           /\ \A v \in Nat : v < truth => changedAt'[v + 1] = Replaced(v) /\ Replaced(v) \in Nat
           /\ changedAt'[truth + 1] = now
<1>1. truth' = truth + 1 /\ truth \in Nat /\ now \in Nat
  BY DEF TypeOK, NewVersion
<1>2. Events \subseteq Events' /\ Events' = 1 .. truth + 1
  BY <1>1 DEF Events
<1>3. changedAt' = [e \in 1 .. truth + 1 |-> IF e = truth + 1 THEN now ELSE changedAt[e]]
  BY DEF NewVersion
<1>4. \A e \in Events : changedAt'[e] = changedAt[e] /\ changedAt'[e] \in Nat
  BY <1>1, <1>2, <1>3 DEF TypeOK, Events
<1>5. changedAt'[truth + 1] = now
  BY <1>1, <1>3
<1>6. changedAt' \in [Events' -> Nat]
  <2>1. \A e \in 1 .. truth + 1 : (IF e = truth + 1 THEN now ELSE changedAt[e]) \in Nat
    BY <1>1 DEF TypeOK, Events
  <2>2. QED
    BY <1>2, <1>3, <2>1
<1>7. \A v \in Nat : v < truth => v + 1 \in Events
  BY <1>1 DEF Events
<1>8. QED
  BY <1>1, <1>2, <1>4, <1>5, <1>6, <1>7 DEF Replaced

\* A step that leaves the lookups and the clock alone, and only drops the entry
\* if it changes it, preserves the invariant.
LEMMA Quiet ==
    ASSUME LookupInv, EntryInv,
           UNCHANGED <<now, truth, changedAt, reader>>,
           cache' = cache \/ cache' = None
    PROVE  LookupInv' /\ EntryInv'
BY DEF LookupInv, InTime, EntryInv, Replaced

-----------------------------------------------------------------------------
\* The types hold initially and are preserved by every action.
LEMMA TypeStep == TypeOK /\ [Next]_vars => TypeOK'
<1> SUFFICES ASSUME TypeOK, [Next]_vars PROVE TypeOK'
  OBVIOUS
<1> USE DurationAssumption DEF TypeOK
<1>1. ASSUME NEW r \in Readers, Read(r) PROVE TypeOK'
  <2> USE DEF redis, events
  <2>1. CASE ReadHit(r)
    BY <2>1 DEF ReadHit, Events
  <2>2. CASE ReadMiss(r)
    <3>1. [stage |-> "asked", until |-> now + Timeout] \in Lookup
      BY DEF Lookup
    <3>2. QED
      BY <2>2, <3>1 DEF ReadMiss, Events
  <2>3. CASE ServiceResolves(r)
    <3>1. reader[r] \in Lookup
      BY <2>3 DEF ServiceResolves, Idle
    <3>2. [stage |-> "read", until |-> reader[r].until, version |-> truth] \in Lookup
      BY <3>1 DEF Lookup
    <3>3. QED
      BY <2>3, <3>2 DEF ServiceResolves, Events
  <2>4. CASE LookupFails(r)
    BY <2>4 DEF LookupFails, Events
  <2>5. CASE Fill(r)
    <3>1. reader[r].version \in Nat
      BY <2>5 DEF Fill, Lookup, Idle
    <3>2. Fresh(reader[r].version) \in Entry
      BY <3>1 DEF Fresh, Entry
    <3>3. QED
      BY <2>5, <3>2 DEF Fill, Events
  <2>6. QED
    BY <1>1, <2>1, <2>2, <2>3, <2>4, <2>5 DEF Read
<1>2. CASE PlanChanges
  BY <1>2, Changed DEF PlanChanges, redis, events
<1>3. ASSUME NEW c \in Callers, Call(c) PROVE TypeOK'
  <2>1. CASE CallerChanges(c)
    <3>1. truth + 1 \in Events'
      BY <2>1, Changed DEF CallerChanges, Events
    <3>2. QED
      BY <2>1, <3>1, Changed DEF CallerChanges, redis, events
  <2>2. CASE CallerInvalidates(c)
    BY <2>2 DEF CallerInvalidates, Dropped, events, Events
  <2>3. CASE CallerFails(c)
    BY <2>3 DEF CallerFails, redis, events, Events
  <2>4. QED
    BY <1>3, <2>1, <2>2, <2>3 DEF Call
<1>4. ASSUME NEW e \in Events, Deliver(e) \/ Handle(e) PROVE TypeOK'
  <2> USE DEF Acknowledge, redis, Events
  <2>1. CASE Deliver(e)
    BY <2>1 DEF Deliver
  <2>2. CASE EventDuplicate(e)
    BY <2>2 DEF EventDuplicate
  <2>3. CASE EventClaimed(e)
    BY <2>3 DEF EventClaimed
  <2>4. CASE EventInvalidates(e)
    BY <2>4 DEF EventInvalidates, Dropped
  <2>5. QED
    BY <1>4, <2>1, <2>2, <2>3, <2>4 DEF Handle
<1>5. CASE ConsumerCrashes
  BY <1>5 DEF ConsumerCrashes, redis, Events
<1>6. CASE RedisFails
  <2>1. redisUp' \in BOOLEAN /\ outages' \in Nat
    <3>1. redisUp' = FALSE /\ outages' = outages + 1
      BY <1>6, Zenon DEF RedisFails
    <3>2. redisUp' \in BOOLEAN
      BY <3>1, Zenon
    <3>3. outages' \in Nat
      BY <3>1
    <3>4. QED
      BY <3>2, <3>3, Zenon
  <2>2. UNCHANGED <<now, truth, changedAt, cache, seen, reader, caller, events>>
    BY <1>6 DEF RedisFails
  <2>3. QED
    BY <2>1, <2>2 DEF events, Events
<1>7. CASE RedisReturns
  <2>1. cache' \in Entry \cup {None} /\ seen' \subseteq Events
    <3>1. (cache' = cache /\ seen' = seen) \/ (cache' = None /\ seen' = {})
      BY <1>7 DEF RedisReturns
    <3>2. QED
      BY <3>1
  <2>2. UNCHANGED Events
    BY <1>7 DEF RedisReturns, Events
  <2>3. QED
    BY <1>7, <2>1, <2>2 DEF RedisReturns, events
<1>8. CASE Tick
  BY <1>8 DEF Tick, redis, events, Events
<1>9. CASE UNCHANGED vars
  BY <1>9 DEF vars, redis, events, Events
<1>10. QED
  BY <1>1, <1>2, <1>3, <1>4, <1>5, <1>6, <1>7, <1>8, <1>9 DEF Next

\* Every step preserves the bounds on lookups and on the entry.
LEMMA BoundStep == Inv /\ [Next]_vars => LookupInv' /\ EntryInv'
<1> SUFFICES ASSUME TypeOK, LookupInv, EntryInv, [Next]_vars
             PROVE  LookupInv' /\ EntryInv'
  BY DEF Inv
<1>t. now \in Nat /\ truth \in Nat /\ TTL \in Nat /\ Timeout \in Nat
  BY DurationAssumption DEF TypeOK
<1>1. ASSUME NEW r \in Readers, Read(r) PROVE LookupInv' /\ EntryInv'
  <2>1. CASE ReadHit(r)
    BY <2>1, Quiet DEF ReadHit, redis
  <2>2. CASE ReadMiss(r)
    <3>1. EntryInv'
      BY <2>2 DEF ReadMiss, redis, EntryInv, Replaced
    <3>2. LookupInv'
      BY <1>t, <2>2 DEF ReadMiss, LookupInv, InTime, Replaced, TypeOK
    <3>3. QED
      BY <3>1, <3>2
  <2>3. CASE ServiceResolves(r)
    <3>1. EntryInv'
      BY <2>3 DEF ServiceResolves, redis, EntryInv, Replaced
    <3>2. reader[r] # Idle
      BY <2>3 DEF ServiceResolves, Idle
    <3>3. LookupInv'
      BY <1>t, <2>3, <3>2 DEF ServiceResolves, LookupInv, InTime, Replaced, TypeOK
    <3>4. QED
      BY <3>1, <3>3
  <2>4. CASE LookupFails(r)
    <3>1. EntryInv'
      BY <2>4 DEF LookupFails, redis, EntryInv, Replaced
    <3>2. LookupInv'
      BY <2>4 DEF LookupFails, LookupInv, InTime, Replaced, TypeOK, Idle
    <3>3. QED
      BY <3>1, <3>2
  <2>5. CASE Fill(r)
    <3>1. LookupInv'
      BY <2>5 DEF Fill, LookupInv, InTime, Replaced, TypeOK, Idle
    <3>2. reader[r] \in [stage : {"read"}, until : Nat, version : Nat]
      BY <2>5 DEF Fill, TypeOK, Lookup, Idle
    <3>3. /\ now <= reader[r].until
          /\ reader[r].version <= truth
          /\ reader[r].version < truth => reader[r].until <= Replaced(reader[r].version) + Timeout
      BY <2>5, <3>2 DEF Fill, LookupInv, InTime, Idle
    <3>4. reader[r].version < truth => Replaced(reader[r].version) \in Nat
      BY <1>t, <3>2 DEF TypeOK, Replaced, Events
    <3>5. CASE redisUp
      <4>1. cache' = [version |-> reader[r].version, until |-> now + TTL]
        BY <2>5, <3>5 DEF Fill, Fresh
      <4>2. reader[r].version < truth
                => now + TTL <= Replaced(reader[r].version) + TTL + Timeout
        BY <1>t, <3>2, <3>3, <3>4
      <4>3. QED
        BY <1>t, <2>5, <3>1, <3>3, <4>1, <4>2 DEF Fill, EntryInv, Replaced
    <3>6. CASE ~redisUp
      BY <2>5, <3>1, <3>6 DEF Fill, EntryInv, Replaced
    <3>7. QED
      BY <3>5, <3>6
  <2>6. QED
    BY <1>1, <2>1, <2>2, <2>3, <2>4, <2>5 DEF Read
<1>2. ASSUME NewVersion, UNCHANGED <<now, cache, reader>> PROVE LookupInv' /\ EntryInv'
  <2>1. EntryInv'
    <3>1. CASE cache = None
      BY <1>2, <3>1 DEF EntryInv
    <3>2. CASE cache # None
      <4>1. cache \in Entry
        BY <3>2 DEF TypeOK
      <4>2. cache.version <= truth /\ cache.until <= now + TTL
        BY <3>2 DEF EntryInv
      <4>3. CASE cache.version = truth
        BY <1>t, <1>2, <4>1, <4>2, <4>3, Changed DEF EntryInv, Entry, Replaced
      <4>4. CASE cache.version < truth
        BY <1>t, <1>2, <3>2, <4>1, <4>2, <4>4, Changed DEF EntryInv, Entry, Replaced
      <4>5. QED
        BY <1>t, <4>1, <4>2, <4>3, <4>4 DEF Entry
    <3>3. QED
      BY <3>1, <3>2
  <2>2. LookupInv'
    <3> SUFFICES ASSUME NEW r \in Readers
                 PROVE  InTime(r)'
      BY DEF LookupInv
    <3>1. CASE reader[r].stage = "read"
      <4>1. reader[r] \in [stage : {"read"}, until : Nat, version : Nat]
        BY <3>1 DEF TypeOK, Lookup, Idle
      <4>2. reader[r].version <= truth /\ now <= reader[r].until /\ reader[r].until <= now + Timeout
        BY <3>1 DEF LookupInv, InTime, Idle
      <4>3. CASE reader[r].version = truth
        BY <1>t, <1>2, <4>1, <4>2, <4>3, Changed DEF InTime, Replaced
      <4>4. CASE reader[r].version < truth
        BY <1>t, <1>2, <3>1, <4>1, <4>2, <4>4, Changed DEF LookupInv, InTime, Replaced
      <4>5. QED
        BY <1>t, <4>1, <4>2, <4>3, <4>4
    <3>2. CASE reader[r].stage # "read"
      BY <1>2, <3>2 DEF LookupInv, InTime
    <3>3. QED
      BY <3>1, <3>2
  <2>3. QED
    BY <2>1, <2>2
<1>3. ASSUME NEW c \in Callers, Call(c) PROVE LookupInv' /\ EntryInv'
  <2>1. CASE CallerChanges(c)
    BY <1>2, <2>1 DEF CallerChanges, redis
  <2>2. CASE CallerInvalidates(c)
    BY <2>2, Quiet DEF CallerInvalidates, Dropped
  <2>3. CASE CallerFails(c)
    BY <2>3, Quiet DEF CallerFails, redis
  <2>4. QED
    BY <1>3, <2>1, <2>2, <2>3 DEF Call
<1>4. ASSUME NEW e \in Events, Deliver(e) \/ Handle(e) PROVE LookupInv' /\ EntryInv'
  BY <1>4, Quiet DEF Deliver, Handle, EventDuplicate, EventClaimed, EventInvalidates, Dropped, redis
<1>5. CASE ConsumerCrashes
  BY <1>5, Quiet DEF ConsumerCrashes, redis
<1>6. CASE RedisFails
  BY <1>6, Quiet DEF RedisFails
<1>7. CASE RedisReturns
  BY <1>7, Quiet DEF RedisReturns
<1>8. CASE Tick
  <2>1. EntryInv'
    <3>1. cache # None => cache \in Entry
      BY DEF TypeOK
    <3>2. QED
      BY <1>t, <1>8, <3>1 DEF Tick, redis, EntryInv, Entry, Replaced
  <2>2. LookupInv'
    <3> SUFFICES ASSUME NEW r \in Readers
                 PROVE  InTime(r)'
      BY DEF LookupInv
    <3>1. CASE reader[r] # Idle
      <4>1. reader[r].until \in Nat
        BY <3>1 DEF TypeOK, Lookup
      <4>2. QED
        BY <1>t, <1>8, <3>1, <4>1 DEF Tick, LookupInv, InTime, Replaced
    <3>2. CASE reader[r] = Idle
      BY <1>8, <3>2 DEF Tick, LookupInv, InTime, Replaced
    <3>3. QED
      BY <3>1, <3>2
  <2>3. QED
    BY <2>1, <2>2
<1>9. CASE UNCHANGED vars
  BY <1>9, Quiet DEF vars, redis
<1>10. CASE PlanChanges
  BY <1>2, <1>10 DEF PlanChanges, redis
<1>11. QED
  BY <1>1, <1>3, <1>4, <1>5, <1>6, <1>7, <1>8, <1>9, <1>10 DEF Next

\* Nothing is cached or looked up initially.
LEMMA Initially == Init => Inv
BY DEF Init, Inv, TypeOK, LookupInv, InTime, EntryInv, Idle, Lookup, Events

\* What planFor can answer with is bounded by the lookup it comes from.
LEMMA Bounded == Inv => StalenessBounded
<1> SUFFICES ASSUME Inv, NEW v \in Answerable, v < truth
             PROVE  now <= Replaced(v) + TTL + Timeout
  BY DEF StalenessBounded
<1>t. now \in Nat /\ truth \in Nat /\ TTL \in Nat /\ Timeout \in Nat
  BY DurationAssumption DEF Inv, TypeOK
<1>1. CASE Cached /\ v = cache.version
  <2>1. cache \in Entry
    BY <1>1 DEF Cached, Inv, TypeOK
  <2>2. now < cache.until /\ cache.until <= Replaced(v) + TTL + Timeout
    BY <1>1 DEF Cached, Inv, EntryInv
  <2>3. Replaced(v) \in Nat
    BY <1>1, <1>t, <2>1 DEF Inv, TypeOK, Entry, Events, Replaced
  <2>4. QED
    BY <1>t, <2>1, <2>2, <2>3 DEF Entry
<1>2. ASSUME NEW r \in Readers, reader[r].stage = "read", v = reader[r].version
      PROVE  now <= Replaced(v) + TTL + Timeout
  <2>1. reader[r] \in [stage : {"read"}, until : Nat, version : Nat]
    BY <1>2 DEF Inv, TypeOK, Lookup, Idle
  <2>2. now <= reader[r].until /\ reader[r].until <= Replaced(v) + Timeout
    BY <1>2 DEF Inv, LookupInv, InTime, Idle
  <2>3. Replaced(v) \in Nat
    BY <1>2, <1>t, <2>1 DEF Inv, TypeOK, Events, Replaced
  <2>4. QED
    BY <1>t, <2>1, <2>2, <2>3
<1>3. QED
  BY <1>1, <1>2 DEF Answerable

\* Every behaviour keeps the types, for any number of requests and any bounds.
THEOREM TypeCorrect == Spec => []TypeOK
<1>1. Init => TypeOK
  BY Initially DEF Inv
<1>2. QED
  BY <1>1, TypeStep, PTL DEF Spec

\* No answer of planFor is staler than the TTL plus one lookup, whatever the
\* doorbell, the consumer and Redis do.
THEOREM StalenessIsBounded == Spec => []StalenessBounded
<1>1. Inv /\ [Next]_vars => Inv'
  BY TypeStep, BoundStep DEF Inv
<1>2. QED
  BY <1>1, Initially, Bounded, PTL DEF Spec
=============================================================================
