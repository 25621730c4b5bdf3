------------------------------ MODULE Delivery ------------------------------
(***************************************************************************)
(* Durable subscription delivery over the archive ledger                   *)
(* (src/src/delivery.rs).  An event and the delivery rows of every         *)
(* subscription are written by one transaction; a consumer leases one row  *)
(* at a time and closes its lease with settle, retry or block.             *)
(*                                                                         *)
(* Every call takes the time from its caller, so the time of a call is any *)
(* element of Times: a caller may be slow, may reuse an old reading, and   *)
(* its clock may go back.  A caller keeps every lease it was granted and   *)
(* may present it at any later moment, expired or closed.                  *)
(*                                                                         *)
(* A delivery row is found by its subscription, record and version: the    *)
(* event id, the kind, the revision and the location it copies are those   *)
(* of the event of that record and version.  settled_at_ms and the reasons *)
(* are not modelled.                                                       *)
(***************************************************************************)
EXTENDS Ledger, FiniteSets

CONSTANTS
    Subscriptions,  \* the subscriptions that can be created
    Config,         \* what each was created with: SubscriptionConfig, mode
    Times,          \* the readings of now_ms
    Durations,      \* lease durations
    MaxSequence     \* largest event sequence number

ASSUME DeliveryAssumption ==
    /\ Config \in [Subscriptions ->
           [mode                : {"replay_events", "rebuild_current"},
            replayAfter         : Nat,
            maxActiveLeases     : Nat \ {0},
            acceptsMoves        : BOOLEAN,
            acceptsTombstones   : BOOLEAN,
            maxAttempts         : Nat \ {0},
            initialBackoff      : Nat,
            maxBackoff          : Nat]]
    /\ \A s \in Subscriptions : Config[s].initialBackoff <= Config[s].maxBackoff
    /\ Times \subseteq Nat
    /\ Durations \subseteq Nat \ {0}
    /\ MaxSequence \in Nat

VARIABLES
    subscriptions,  \* the subscriptions created so far
    enabled,        \* those not paused
    deliveries,     \* the rows of the deliveries table, by key
    leases,         \* every lease granted, in the hands of its caller
    closed          \* the leases whose settle, retry or block returned Ok

deliveryVars == <<subscriptions, enabled, deliveries, leases, closed>>
vars == <<records, events, subscriptions, enabled, deliveries, leases, closed>>

-----------------------------------------------------------------------------

Advancing == {"acknowledged", "superseded", "ignored_by_policy"}
Outcomes == Advancing \cup {"dead_lettered"}
DeliveryStates == Outcomes \cup {"queued", "leased", "blocked"}

Key == [sub : Subscriptions, record : Records, version : Nat]

Delivery == [snapshot  : BOOLEAN,
             state     : DeliveryStates,
             attempts  : Nat,
             token     : Nat,          \* 0 is NULL
             expires   : Nat,          \* meaningful only while leased
             notBefore : Nat]

\* DeliveryLease: the row it is for, its token, attempt number and expiry.
Lease == [key : Key, token : Nat, attempt : Nat, expires : Nat]

DeliveryInit ==
    /\ LedgerInit
    /\ subscriptions = {}
    /\ enabled = {}
    /\ deliveries = [k \in {} |-> 0]
    /\ leases = {}
    /\ closed = {}

-----------------------------------------------------------------------------
(* Enqueueing *)

\* initial_delivery_state: an event the subscription does not accept is
\* recorded, but never handed out.
InitialState(s, kind) ==
    IF \/ kind = "location_changed" /\ ~Config[s].acceptsMoves
       \/ kind = "record_tombstoned" /\ ~Config[s].acceptsTombstones
    THEN "blocked"
    ELSE "queued"

\* Mutant of NewDelivery: queued whatever the subscription accepts.
NewDeliveryQueued(s, kind, snapshot) ==
    [snapshot |-> snapshot, state |-> "queued", attempts |-> 0,
     token |-> 0, expires |-> 0, notBefore |-> 0]

NewDelivery(s, kind, snapshot) ==
    [snapshot |-> snapshot, state |-> InitialState(s, kind), attempts |-> 0,
     token |-> 0, expires |-> 0, notBefore |-> 0]

KeyOf(s, e) == [sub |-> s, record |-> e.record, version |-> e.version]

\* One row of each subscription of subs for each event the ledger step appends.
EnqueueFor(subs) ==
    LET fresh == {events'[i] : i \in Len(events) + 1 .. Len(events')}
        added == {KeyOf(s, e) : s \in subs, e \in fresh}
        kindOf(k) == (CHOOSE e \in fresh : KeyOf(k.sub, e) = k).kind
    IN  deliveries' = [k \in DOMAIN deliveries \cup added |->
                          IF k \in DOMAIN deliveries THEN deliveries[k]
                          ELSE NewDelivery(k.sub, kindOf(k), FALSE)]

\* Mutants of EnqueueAppended: paused subscriptions are left out; subscriptions
\* that do not exist are not.
EnqueueEnabled == EnqueueFor(enabled)
EnqueueAny == EnqueueFor(Subscriptions)

\* enqueue_event_for_active_subscriptions: every subscription in the table, the
\* paused ones included.
EnqueueAppended == EnqueueFor(subscriptions)

Observe(r, location, revision) ==
    /\ ObservePresent(r, location, revision)
    /\ Len(events') <= MaxSequence
    /\ EnqueueAppended
    /\ UNCHANGED <<subscriptions, enabled, leases, closed>>

RecordTombstone(r) ==
    /\ Tombstone(r)
    /\ Len(events') <= MaxSequence
    /\ EnqueueAppended
    /\ UNCHANGED <<subscriptions, enabled, leases, closed>>

\* create_subscription in mode replay_events: one row for every event after
\* replay_after_sequence.
ReplayRows(s) ==
    LET replayed == Config[s].replayAfter + 1 .. Len(events)
        eventOf(k) == events[CHOOSE i \in replayed : KeyOf(s, events[i]) = k]
    IN  [k \in {KeyOf(s, events[i]) : i \in replayed} |->
            NewDelivery(s, eventOf(k).kind, FALSE)]

\* create_subscription in mode rebuild_current: one snapshot of each active
\* record at its current version, presented as a committed revision.
SnapshotRows(s) ==
    LET active == {r \in Records : records[r].state = "active"}
    IN  [k \in {KeyOf(s, [record |-> r, version |-> records[r].version]) :
                   r \in active} |->
            NewDelivery(s, "revision_committed", TRUE)]

CreateSubscription(s) ==
    /\ s \notin subscriptions
    /\ subscriptions' = subscriptions \cup {s}
    /\ enabled' = enabled \cup {s}
    /\ LET rows == IF Config[s].mode = "replay_events"
                   THEN ReplayRows(s) ELSE SnapshotRows(s)
       IN  deliveries' = [k \in DOMAIN deliveries \cup DOMAIN rows |->
                             IF k \in DOMAIN rows THEN rows[k] ELSE deliveries[k]]
    /\ UNCHANGED <<records, events, leases, closed>>

\* set_subscription_enabled
SetEnabled(s, on) ==
    /\ s \in subscriptions
    /\ enabled' = IF on THEN enabled \cup {s} ELSE enabled \ {s}
    /\ UNCHANGED <<records, events, subscriptions, deliveries, leases, closed>>

-----------------------------------------------------------------------------
(* Leasing *)

\* Exponential from initial, at most max.
Backoff(initial, max, attempt) ==
    LET delay == initial * 2^(IF attempt > 0 THEN attempt - 1 ELSE 0)
    IN  IF delay \in 0..max THEN delay ELSE max

\* retry_not_before_ms
RetryNotBefore(s, attempt, now) ==
    now + Backoff(Config[s].initialBackoff, Config[s].maxBackoff, attempt)

\* Mutant of Released: one attempt more than allowed.
ReleasedOnceMore(s, row, attempt, now) ==
    IF row.attempts > Config[s].maxAttempts
    THEN [row EXCEPT !.state = "dead_lettered", !.token = 0, !.expires = 0]
    ELSE [row EXCEPT !.state = "queued", !.token = 0, !.expires = 0,
                     !.notBefore = RetryNotBefore(s, attempt, now)]

\* A row whose lease ends unsettled: queued again after a backoff, or
\* dead-lettered when its attempts are used up.
Released(s, row, attempt, now) ==
    IF row.attempts >= Config[s].maxAttempts
    THEN [row EXCEPT !.state = "dead_lettered", !.token = 0, !.expires = 0]
    ELSE [row EXCEPT !.state = "queued", !.token = 0, !.expires = 0,
                     !.notBefore = RetryNotBefore(s, attempt, now)]

\* Mutants of Reclaimed: settled and blocked rows are reclaimed as well; no row
\* is.
ReclaimedAnyState(s, now) ==
    [k \in DOMAIN deliveries |->
        IF /\ k.sub = s
           /\ deliveries[k].state # "queued"
           /\ deliveries[k].expires <= now
        THEN Released(s, deliveries[k], deliveries[k].attempts, now)
        ELSE deliveries[k]]

ReclaimedNothing(s, now) == deliveries

\* lease_next first reclaims every expired lease of the subscription.
Reclaimed(s, now) ==
    [k \in DOMAIN deliveries |->
        IF /\ k.sub = s
           /\ deliveries[k].state = "leased"
           /\ deliveries[k].expires <= now
        THEN Released(s, deliveries[k], deliveries[k].attempts, now)
        ELSE deliveries[k]]

LeasedRows(rows, s) == {k \in DOMAIN rows : k.sub = s /\ rows[k].state = "leased"}

\* Mutant of AtCap: one lease too many.
BeyondCap(rows, s) == Cardinality(LeasedRows(rows, s)) > Config[s].maxActiveLeases

\* max_active_leases
AtCap(rows, s) == Cardinality(LeasedRows(rows, s)) >= Config[s].maxActiveLeases

\* The rows of the same record a row must wait for.
Earlier(rows, k) ==
    {j \in DOMAIN rows :
        j.sub = k.sub /\ j.record = k.record /\ j.version < k.version}

\* Mutants of Leasable: an earlier version only has to be closed somehow; it only
\* has to be out of anybody's hands, as it is during a backoff.
LeasableAfterClosed(rows, s, now) ==
    {k \in DOMAIN rows :
        /\ k.sub = s
        /\ rows[k].state = "queued"
        /\ rows[k].notBefore <= now
        /\ \A j \in Earlier(rows, k) : rows[j].state \in Outcomes}

LeasableDuringBackoff(rows, s, now) ==
    {k \in DOMAIN rows :
        /\ k.sub = s
        /\ rows[k].state = "queued"
        /\ rows[k].notBefore <= now
        /\ \A j \in Earlier(rows, k) : rows[j].state \in Advancing \cup {"queued"}}

Leasable(rows, s, now) ==
    {k \in DOMAIN rows :
        /\ k.sub = s
        /\ rows[k].state = "queued"
        /\ rows[k].notBefore <= now
        /\ \A j \in Earlier(rows, k) : rows[j].state \in Advancing}

SequenceOf(k) ==
    CHOOSE i \in 1..Len(events) :
        events[i].record = k.record /\ events[i].version = k.version

\* ORDER BY: live rows by event sequence, then snapshots in the order of the
\* ids they were inserted with, which is the order of their record ids.
LeasedBefore(rows, j, k) ==
    IF rows[j].snapshot = rows[k].snapshot
    THEN IF rows[j].snapshot THEN j.record < k.record
         ELSE SequenceOf(j) < SequenceOf(k)
    ELSE rows[k].snapshot

\* A token no lease of this row ever had (in the code a random UUID).
LeasesOf(k) == {l \in leases : l.key = k}

\* Mutant of FreshToken: every lease of a row has the same token.
SameToken(k) == 1

FreshToken(k) == 1 + Cardinality(LeasesOf(k))

Grant(rows, k, expires) ==
    LET token   == FreshToken(k)
        attempt == rows[k].attempts + 1
    IN  /\ deliveries' = [rows EXCEPT ![k] =
               [@ EXCEPT !.state = "leased", !.token = token,
                         !.attempts = attempt, !.expires = expires]]
        /\ leases' = leases \cup {[key |-> k, token |-> token,
                                   attempt |-> attempt, expires |-> expires]}

\* lease_next, a lease granted.
LeaseNext(s, now, duration) ==
    LET rows == Reclaimed(s, now)
        candidates == Leasable(rows, s, now)
    IN  /\ s \in enabled
        /\ ~AtCap(rows, s)
        /\ \E k \in candidates :
            /\ \A j \in candidates \ {k} : LeasedBefore(rows, k, j)
            /\ Grant(rows, k, now + duration)
        /\ UNCHANGED <<records, events, subscriptions, enabled, closed>>

\* lease_next, None: the reclaimed leases are committed all the same.
LeaseNone(s, now) ==
    LET rows == Reclaimed(s, now)
    IN  /\ s \in enabled
        /\ \/ AtCap(rows, s)
           \/ Leasable(rows, s, now) = {}
        /\ deliveries' = rows
        /\ UNCHANGED <<records, events, subscriptions, enabled, leases, closed>>

-----------------------------------------------------------------------------
(* Closing a lease *)

\* Mutant of Current: any token will do.
CurrentAnyToken(l, now) ==
    /\ deliveries[l.key].state = "leased"
    /\ deliveries[l.key].expires > now

\* The WHERE clause of settle, retry and block: otherwise StaleLease.
Current(l, now) ==
    /\ deliveries[l.key].state = "leased"
    /\ deliveries[l.key].token = l.token
    /\ deliveries[l.key].expires > now

Close(l, row) ==
    /\ deliveries' = [deliveries EXCEPT ![l.key] = row]
    /\ closed' = closed \cup {l}
    /\ UNCHANGED <<records, events, subscriptions, enabled, leases>>

SettleDelivery(l, outcome, now) ==
    /\ Current(l, now)
    /\ Close(l, [deliveries[l.key] EXCEPT !.state = outcome,
                                          !.token = 0, !.expires = 0])

RetryDelivery(l, now) ==
    /\ Current(l, now)
    /\ Close(l, Released(l.key.sub, deliveries[l.key], l.attempt, now))

BlockDelivery(l, now) ==
    /\ Current(l, now)
    /\ Close(l, [deliveries[l.key] EXCEPT !.state = "blocked",
                                          !.token = 0, !.expires = 0])

-----------------------------------------------------------------------------

Next ==
    \/ \E r \in Records : RecordTombstone(r)
    \/ \E r \in Records, location \in Locations, revision \in Revisions :
           Observe(r, location, revision)
    \/ \E s \in Subscriptions :
        \/ CreateSubscription(s)
        \/ \E on \in BOOLEAN : SetEnabled(s, on)
        \/ \E now \in Times :
            \/ LeaseNone(s, now)
            \/ \E duration \in Durations : LeaseNext(s, now, duration)
    \/ \E l \in leases, now \in Times :
        \/ RetryDelivery(l, now)
        \/ BlockDelivery(l, now)
        \/ \E outcome \in Outcomes : SettleDelivery(l, outcome, now)

Spec == DeliveryInit /\ [][Next]_vars

-----------------------------------------------------------------------------
(* Properties *)

\* Types, and every row belongs to a created subscription and to a version
\* its record has.
TypeOK ==
    /\ LedgerTypeOK
    /\ subscriptions \subseteq Subscriptions
    /\ enabled \subseteq subscriptions
    /\ DOMAIN deliveries \subseteq Key
    /\ \A k \in DOMAIN deliveries :
        /\ deliveries[k] \in Delivery
        /\ k.sub \in subscriptions
        /\ k.version \in 1..records[k.record].version
    /\ leases \subseteq Lease
    /\ IsFiniteSet(leases)
    /\ \A l \in leases : l.key \in DOMAIN deliveries
    /\ closed \subseteq leases

\* A delivery is handed to a consumer only after every earlier version of the
\* same record was settled in a way that advances the record's order, and
\* nothing that happens later (an expiry, a retry, a dead letter, a new or a
\* restored version) takes that back.
RecordOrder ==
    \A k \in DOMAIN deliveries :
        deliveries[k].attempts > 0 =>
            \A j \in Earlier(deliveries, k) : deliveries[j].state \in Advancing

\* The catalog would still accept an answer under lease l, were it in time.
Open(l) ==
    /\ deliveries[l.key].state = "leased"
    /\ deliveries[l.key].token = l.token

\* Of all the leases ever granted at most one per subscription and record is
\* open: no two callers can both settle work on one record, however many
\* leases of it expired and were granted again.
LeaseExclusive ==
    \A l, m \in leases :
        /\ Open(l) /\ Open(m)
        /\ l.key.sub = m.key.sub
        /\ l.key.record = m.key.record
        => l = m

\* max_active_leases holds through expiry, retry and re-lease.
LeaseCap ==
    \A s \in subscriptions :
        Cardinality(LeasedRows(deliveries, s)) <= Config[s].maxActiveLeases

\* A row whose record may go on was settled by the caller of its last lease: an
\* earlier holder that comes back late, after an expiry and a new lease, never
\* settles it.
SettledByLastHolder ==
    \A k \in DOMAIN deliveries :
        deliveries[k].state \in Advancing =>
            \E l \in closed : l.key = k /\ l.attempt = deliveries[k].attempts

\* Redelivery is bounded: no row is handed out more than max_attempts times,
\* and a row that has used them up is never left waiting in the queue.
RedeliveryBounded ==
    /\ \A k \in DOMAIN deliveries :
        /\ deliveries[k].attempts <= Config[k.sub].maxAttempts
        /\ deliveries[k].state = "queued" =>
               deliveries[k].attempts < Config[k.sub].maxAttempts
    /\ \A k \in DOMAIN deliveries :
        Cardinality(LeasesOf(k)) = deliveries[k].attempts

\* No subscription misses an event: one that replays has a row for every event
\* after its starting point, one that rebuilds has a row for every active
\* record, and from the first version it has of a record on it has them all,
\* whether it was created before, between or after those events and whether
\* or not it was paused when they were committed.
VersionsOf(s, r) == {v \in 1..MaxVersion :
    [sub |-> s, record |-> r, version |-> v] \in DOMAIN deliveries}

NothingMissed ==
    \A s \in subscriptions :
        /\ IF Config[s].mode = "replay_events"
           THEN \A i \in Config[s].replayAfter + 1 .. Len(events) :
                    KeyOf(s, events[i]) \in DOMAIN deliveries
           ELSE \A r \in Records :
                    records[r].state = "active" => VersionsOf(s, r) # {}
        /\ \A r \in Records : \A v \in VersionsOf(s, r) :
               v..records[r].version \subseteq VersionsOf(s, r)

\* What a subscription does not accept is never handed out.
UnsupportedWithheld ==
    \A l \in leases :
        LET e == events[SequenceOf(l.key)]
        IN  \/ deliveries[l.key].snapshot
            \/ InitialState(l.key.sub, e.kind) = "queued"

\* Rows are never removed, and a row that is settled, dead-lettered or blocked
\* never changes again: no late lease, expiry or later event reopens it.
SettledIsFinal ==
    [][ \A k \in DOMAIN deliveries :
            /\ k \in DOMAIN deliveries'
            /\ deliveries[k].state \in Outcomes \cup {"blocked"} =>
                   deliveries'[k] = deliveries[k] ]_vars
=============================================================================
