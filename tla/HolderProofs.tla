---------------------------- MODULE HolderProofs ----------------------------
(***************************************************************************)
(* Who holds and who settles a delivery of Delivery, how often it is       *)
(* handed out and how many are out at once, that no subscription misses an *)
(* event, and that what it does not accept is withheld, for every value of *)
(* the constants.                                                          *)
(***************************************************************************)
EXTENDS DeliveryProofs

\* A row counts its leases, is out under the last of them only, has attempts
\* left while it waits, and was settled under the last one.
Held(k) ==
    LET row == deliveries[k]
    IN  /\ row.attempts <= Config[k.sub].maxAttempts
        /\ row.state = "queued" => row.attempts < Config[k.sub].maxAttempts
        /\ Cardinality(LeasesOf(k)) = row.attempts
        /\ row.state = "leased" =>
               \E l \in leases : /\ l.key = k
                                 /\ l.token = row.token
                                 /\ l.attempt = row.attempts
        /\ row.state \in Advancing =>
               \E l \in closed : l.key = k /\ l.attempt = row.attempts

HolderInv == \A k \in DOMAIN deliveries : Held(k)

\* The leased rows of a subscription are finitely many, at most its cap.
CapInv ==
    \A s \in subscriptions :
        /\ IsFiniteSet(LeasedRows(deliveries, s))
        /\ Cardinality(LeasedRows(deliveries, s)) <= Config[s].maxActiveLeases

LEMMA PolicyType ==
    ASSUME NEW s \in Subscriptions
    PROVE  Config[s].maxAttempts \in Nat \ {0} /\ Config[s].maxActiveLeases \in Nat \ {0}
BY DeliveryAssumption DEF DeliveryAssumption

\* What becomes of an unsettled row depends on its attempts.
LEMMA ReleasedAttempts ==
    ASSUME NEW s \in Subscriptions, NEW row \in Delivery,
           NEW attempt \in Nat, NEW now \in Nat
    PROVE  /\ Released(s, row, attempt, now).attempts = row.attempts
           /\ Released(s, row, attempt, now).state = "queued" =>
                  row.attempts < Config[s].maxAttempts
<1>1. row.attempts \in Nat /\ Config[s].maxAttempts \in Nat
  BY PolicyType DEF Delivery
<1>2. CASE row.attempts >= Config[s].maxAttempts
  BY <1>2 DEF Released, Delivery
<1>3. CASE ~(row.attempts >= Config[s].maxAttempts)
  BY <1>1, <1>3 DEF Released, Delivery
<1> QED
  BY <1>2, <1>3

LEMMA ReclaimedAttempts ==
    ASSUME TypeInv, NEW s \in Subscriptions, NEW now \in Nat,
           NEW k \in DOMAIN deliveries
    PROVE  \/ Reclaimed(s, now)[k] = deliveries[k]
           \/ /\ deliveries[k].state = "leased"
              /\ Reclaimed(s, now)[k].state \in {"queued", "dead_lettered"}
              /\ Reclaimed(s, now)[k].attempts = deliveries[k].attempts
              /\ Reclaimed(s, now)[k].state = "queued" =>
                     deliveries[k].attempts < Config[k.sub].maxAttempts
<1>1. deliveries[k] \in Delivery /\ deliveries[k].attempts \in Nat
  BY DEF TypeInv, TypeOK, Delivery
<1>2. CASE /\ k.sub = s /\ deliveries[k].state = "leased"
           /\ deliveries[k].expires <= now
  <2>1. Reclaimed(s, now)[k] = Released(s, deliveries[k], deliveries[k].attempts, now)
    BY <1>2 DEF Reclaimed
  <2> QED
    BY <1>1, <1>2, <2>1, ReleasedType, ReleasedAttempts
<1>3. CASE ~(/\ k.sub = s /\ deliveries[k].state = "leased"
             /\ deliveries[k].expires <= now)
  BY <1>3 DEF Reclaimed
<1> QED
  BY <1>2, <1>3

LEMMA LeasesOfGrant ==
    ASSUME TypeInv, TokenInv,
           NEW k \in DOMAIN deliveries, NEW attempt, NEW expires,
           leases' = leases \cup {[key |-> k, token |-> FreshToken(k),
                                   attempt |-> attempt, expires |-> expires]}
    PROVE  /\ Cardinality(LeasesOf(k)') = Cardinality(LeasesOf(k)) + 1
           /\ \A j : j # k => LeasesOf(j)' = LeasesOf(j)
<1> DEFINE l0 == [key |-> k, token |-> FreshToken(k),
                  attempt |-> attempt, expires |-> expires]
<1>1. l0.key = k /\ l0.token = FreshToken(k) /\ leases' = leases \cup {l0}
  OBVIOUS
<1> HIDE DEF l0
<1>2. IsFiniteSet(LeasesOf(k)) /\ Cardinality(LeasesOf(k)) \in Nat
  BY FS_Subset, FS_CardinalityType DEF LeasesOf, TypeInv, TypeOK
<1>3. l0 \notin LeasesOf(k)
  <2> SUFFICES ASSUME l0 \in leases PROVE FALSE
    BY DEF LeasesOf
  <2>1. FreshToken(k) \in 1..Cardinality(LeasesOf(k))
    BY <1>1 DEF TokenInv
  <2> QED BY <1>2, <2>1 DEF FreshToken
<1>4. LeasesOf(k)' = LeasesOf(k) \cup {l0}
  BY <1>1 DEF LeasesOf
<1>5. \A j : j # k => LeasesOf(j)' = LeasesOf(j)
  BY <1>1 DEF LeasesOf
<1> QED
  BY <1>2, <1>3, <1>4, <1>5, FS_AddElement, ZenonT(30)

-----------------------------------------------------------------------------
(* The holder of a row *)

LEMMA HeldAdded ==
    ASSUME TypeInv, TypeInv', HolderInv, RowsAdded, leases' = leases, closed' = closed
    PROVE  HolderInv'
<1> SUFFICES ASSUME NEW k \in DOMAIN deliveries' PROVE Held(k)'
  BY DEF HolderInv
<1>1. CASE k \in DOMAIN deliveries
  BY <1>1 DEF RowsAdded, HolderInv, Held, LeasesOf
<1>2. CASE k \notin DOMAIN deliveries
  <2>1. /\ k \in Key /\ deliveries'[k].attempts = 0
        /\ deliveries'[k].state \in {"queued", "blocked"}
    BY <1>2 DEF RowsAdded
  <2>2. LeasesOf(k)' = {}
    BY <1>2 DEF LeasesOf, TypeInv, TypeOK
  <2>3. Cardinality(LeasesOf(k)') = 0
    BY <2>2, FS_EmptySet
  <2>4. Config[k.sub].maxAttempts \in Nat \ {0}
    BY <2>1, PolicyType DEF Key
  <2> QED BY <2>1, <2>3, <2>4 DEF Held, Advancing
<1> QED BY <1>1, <1>2

\* A row that is unchanged, or given up unsettled with its attempts, is held as
\* before.
LEMMA HeldReclaimed ==
    ASSUME TypeInv, HolderInv, NEW s \in Subscriptions, NEW now \in Nat,
           NEW k \in DOMAIN deliveries, deliveries'[k] = Reclaimed(s, now)[k],
           LeasesOf(k)' = LeasesOf(k), leases \subseteq leases', closed' = closed
    PROVE  Held(k)'
<1>1. Held(k)
  BY DEF HolderInv
<1>2. CASE deliveries'[k] = deliveries[k]
  BY <1>1, <1>2 DEF Held
<1>3. CASE deliveries'[k] # deliveries[k]
  <2>1. /\ deliveries'[k].state \in {"queued", "dead_lettered"}
        /\ deliveries'[k].attempts = deliveries[k].attempts
        /\ deliveries'[k].state = "queued" =>
               deliveries'[k].attempts < Config[k.sub].maxAttempts
    BY <1>3, ReclaimedAttempts
  <2> QED BY <1>1, <2>1 DEF Held, Advancing
<1> QED BY <1>2, <1>3

LEMMA HeldLeaseNone ==
    ASSUME TypeInv, HolderInv, NEW s \in Subscriptions, NEW now \in Times,
           LeaseNone(s, now)
    PROVE  HolderInv'
<1>1. /\ deliveries' = Reclaimed(s, now)
      /\ leases' = leases /\ closed' = closed /\ now \in Nat
  BY DeliveryAssumption DEF LeaseNone, DeliveryAssumption
<1>2. DOMAIN deliveries' = DOMAIN deliveries
  BY <1>1 DEF Reclaimed
<1>3. \A k \in DOMAIN deliveries : LeasesOf(k)' = LeasesOf(k)
  BY <1>1 DEF LeasesOf
<1>4. ASSUME NEW k \in DOMAIN deliveries PROVE Held(k)'
  BY <1>1, <1>3, HeldReclaimed
<1> QED
  BY <1>2, <1>4 DEF HolderInv

LEMMA HeldLeaseNext ==
    ASSUME TypeInv, TokenInv, HolderInv, NEW s \in Subscriptions, NEW now \in Times,
           NEW duration \in Durations, LeaseNext(s, now, duration)
    PROVE  HolderInv'
<1> DEFINE rows == Reclaimed(s, now)
<1>1. PICK k \in Leasable(rows, s, now) : Grant(rows, k, now + duration)
  BY DEF LeaseNext
<1>2. now \in Nat /\ closed' = closed
  BY DeliveryAssumption DEF LeaseNext, DeliveryAssumption
<1>3. DOMAIN rows = DOMAIN deliveries
  BY DEF Reclaimed
<1>4. k \in DOMAIN deliveries /\ rows[k].state = "queued"
  BY <1>1, <1>3 DEF Leasable
<1>5. /\ rows[k] \in Delivery /\ rows[k].attempts = deliveries[k].attempts
      /\ deliveries[k].attempts < Config[k.sub].maxAttempts
  <2>1. rows[k] \in Delivery /\ rows[k].attempts = deliveries[k].attempts
    BY <1>2, <1>4, ReclaimedRow
  <2>2. CASE rows[k] = deliveries[k]
    BY <1>4, <2>1, <2>2 DEF HolderInv, Held
  <2>3. CASE rows[k] # deliveries[k]
    <3>1. rows[k].state = "queued" =>
              deliveries[k].attempts < Config[k.sub].maxAttempts
      BY <1>2, <1>4, <2>3, ReclaimedAttempts
    <3> QED BY <1>4, <2>1, <3>1
  <2> QED BY <2>2, <2>3
<1>6. /\ deliveries' = [rows EXCEPT ![k] =
             [rows[k] EXCEPT !.state = "leased", !.token = FreshToken(k),
                             !.attempts = rows[k].attempts + 1,
                             !.expires = now + duration]]
      /\ leases' = leases \cup
             {[key |-> k, token |-> FreshToken(k),
               attempt |-> rows[k].attempts + 1, expires |-> now + duration]}
  BY <1>1 DEF Grant
<1>7. /\ Cardinality(LeasesOf(k)') = Cardinality(LeasesOf(k)) + 1
      /\ \A j : j # k => LeasesOf(j)' = LeasesOf(j)
  BY <1>4, <1>6, LeasesOfGrant
<1>8. /\ DOMAIN deliveries' = DOMAIN deliveries
      /\ \A j \in DOMAIN deliveries : j # k => deliveries'[j] = rows[j]
  BY <1>3, <1>6
<1>9. /\ deliveries'[k].state = "leased" /\ deliveries'[k].token = FreshToken(k)
      /\ deliveries'[k].attempts = deliveries[k].attempts + 1
  BY <1>3, <1>4, <1>5, <1>6 DEF Delivery
<1> HIDE DEF rows
<1>10. Held(k)'
  <2>1. deliveries[k].attempts \in Nat /\ Config[k.sub].maxAttempts \in Nat
    BY <1>4, PolicyType DEF TypeInv, TypeOK, Delivery, Key
  <2>2. /\ deliveries'[k].attempts <= Config[k.sub].maxAttempts
        /\ Cardinality(LeasesOf(k)') = deliveries'[k].attempts
    BY <1>4, <1>5, <1>7, <1>9, <2>1 DEF HolderInv, Held
  <2>3. \E l \in leases' : /\ l.key = k
                           /\ l.token = deliveries'[k].token
                           /\ l.attempt = deliveries'[k].attempts
    <3> DEFINE l0 == [key |-> k, token |-> FreshToken(k),
                      attempt |-> rows[k].attempts + 1, expires |-> now + duration]
    <3>1. /\ l0 \in leases' /\ l0.key = k /\ l0.token = FreshToken(k)
          /\ l0.attempt = rows[k].attempts + 1
      BY <1>6
    <3> HIDE DEF l0
    <3> QED BY <1>5, <1>9, <3>1
  <2> QED BY <1>9, <2>2, <2>3 DEF Held, Advancing
<1>11. ASSUME NEW j \in DOMAIN deliveries, j # k PROVE Held(j)'
  <2>1. deliveries'[j] = Reclaimed(s, now)[j]
    BY <1>8, <1>11 DEF rows
  <2>2. LeasesOf(j)' = LeasesOf(j) /\ leases \subseteq leases'
    BY <1>6, <1>7, <1>11
  <2> QED BY <1>2, <2>1, <2>2, HeldReclaimed
<1> QED
  BY <1>8, <1>10, <1>11 DEF HolderInv

\* A lease the catalog accepts is the last one of its row.
LEMMA CurrentIsLast ==
    ASSUME TypeInv, TokenInv, HolderInv, NEW l \in leases, NEW now, Current(l, now)
    PROVE  /\ l.key \in DOMAIN deliveries
           /\ deliveries[l.key].state = "leased"
           /\ l.attempt = deliveries[l.key].attempts
<1>1. l.key \in DOMAIN deliveries
  BY DEF TypeInv, TypeOK
<1>2. deliveries[l.key].state = "leased" /\ deliveries[l.key].token = l.token
  BY DEF Current
<1>3. PICK m \in leases : /\ m.key = l.key
                          /\ m.token = deliveries[l.key].token
                          /\ m.attempt = deliveries[l.key].attempts
  BY <1>1, <1>2 DEF HolderInv, Held
<1>4. l = m
  BY <1>2, <1>3 DEF TokenInv
<1> QED
  BY <1>1, <1>2, <1>3, <1>4

LEMMA HeldClose ==
    ASSUME TypeInv, TokenInv, HolderInv, NEW l \in leases, NEW now, NEW row,
           Current(l, now), Close(l, row),
           row.attempts = deliveries[l.key].attempts, row.state # "leased",
           row.state = "queued" =>
               deliveries[l.key].attempts < Config[l.key.sub].maxAttempts
    PROVE  HolderInv'
<1>1. /\ l.key \in DOMAIN deliveries
      /\ l.attempt = deliveries[l.key].attempts
  BY CurrentIsLast
<1>2. /\ deliveries' = [deliveries EXCEPT ![l.key] = row]
      /\ closed' = closed \cup {l} /\ leases' = leases
  BY DEF Close
<1>3. /\ DOMAIN deliveries' = DOMAIN deliveries
      /\ deliveries'[l.key] = row
      /\ \A j \in DOMAIN deliveries : j # l.key => deliveries'[j] = deliveries[j]
  BY <1>1, <1>2
<1>4. \A j \in DOMAIN deliveries : LeasesOf(j)' = LeasesOf(j)
  BY <1>2 DEF LeasesOf
<1>5. Held(l.key)'
  <2>1. Held(l.key) /\ l \in closed'
    BY <1>1, <1>2 DEF HolderInv
  <2> QED BY <1>1, <1>3, <1>4, <2>1 DEF Held
<1>6. ASSUME NEW j \in DOMAIN deliveries, j # l.key PROVE Held(j)'
  BY <1>2, <1>3, <1>4, <1>6 DEF HolderInv, Held
<1> QED
  BY <1>3, <1>5, <1>6 DEF HolderInv

LEMMA HeldClosing ==
    ASSUME TypeInv, TokenInv, HolderInv, NEW l \in leases, NEW now \in Times,
           \/ RetryDelivery(l, now)
           \/ BlockDelivery(l, now)
           \/ \E outcome \in Outcomes : SettleDelivery(l, outcome, now)
    PROVE  HolderInv'
<1>1. /\ deliveries[l.key] \in Delivery /\ l.key.sub \in Subscriptions
      /\ l.attempt \in Nat /\ now \in Nat
  BY DeliveryAssumption DEF DeliveryAssumption, TypeInv, TypeOK, Lease, Key
<1>2. CASE RetryDelivery(l, now)
  <2> DEFINE row == Released(l.key.sub, deliveries[l.key], l.attempt, now)
  <2>1. /\ row.attempts = deliveries[l.key].attempts
        /\ row.state # "leased"
        /\ row.state = "queued" =>
               deliveries[l.key].attempts < Config[l.key.sub].maxAttempts
    <3>1. row.state \in {"queued", "dead_lettered"}
      BY <1>1, ReleasedType
    <3>2. /\ row.attempts = deliveries[l.key].attempts
          /\ row.state = "queued" =>
                 deliveries[l.key].attempts < Config[l.key.sub].maxAttempts
      BY <1>1, ReleasedAttempts
    <3> HIDE DEF row
    <3> QED BY <3>1, <3>2
  <2>2. Current(l, now) /\ Close(l, row)
    BY <1>2 DEF RetryDelivery
  <2> HIDE DEF row
  <2> QED BY <2>1, <2>2, HeldClose
<1>3. CASE BlockDelivery(l, now)
  <2> DEFINE row == [deliveries[l.key] EXCEPT !.state = "blocked",
                                              !.token = 0, !.expires = 0]
  <2>1. row.state = "blocked" /\ row.attempts = deliveries[l.key].attempts
    BY <1>1 DEF Delivery
  <2>2. Current(l, now) /\ Close(l, row)
    BY <1>3 DEF BlockDelivery
  <2> HIDE DEF row
  <2> QED BY <2>1, <2>2, HeldClose
<1>4. ASSUME NEW outcome \in Outcomes, SettleDelivery(l, outcome, now)
      PROVE  HolderInv'
  <2> DEFINE row == [deliveries[l.key] EXCEPT !.state = outcome,
                                              !.token = 0, !.expires = 0]
  <2>1. row.state = outcome /\ row.attempts = deliveries[l.key].attempts
    BY <1>1 DEF Delivery
  <2>2. Current(l, now) /\ Close(l, row)
    BY <1>4 DEF SettleDelivery
  <2>3. outcome # "leased" /\ outcome # "queued"
    BY DEF Outcomes, Advancing
  <2> HIDE DEF row
  <2> QED BY <2>1, <2>2, <2>3, HeldClose
<1> QED
  BY <1>2, <1>3, <1>4

\* The steps that only add rows, for which the leases stay as they are.
LEMMA AddingStep ==
    ASSUME TypeInv, Next
    PROVE  \/ RowsAdded /\ UNCHANGED <<leases, closed>> /\ subscriptions \subseteq subscriptions'
           \/ \E s \in Subscriptions, now \in Times : LeaseNone(s, now)
           \/ \E s \in Subscriptions, now \in Times, duration \in Durations :
                  LeaseNext(s, now, duration)
           \/ \E l \in leases, now \in Times :
                  \/ RetryDelivery(l, now)
                  \/ BlockDelivery(l, now)
                  \/ \E outcome \in Outcomes : SettleDelivery(l, outcome, now)
<1>1. CASE \E r \in Records : RecordTombstone(r)
  <2>1. /\ LedgerStep /\ EnqueueAppended
        /\ UNCHANGED <<subscriptions, leases, closed>>
    BY <1>1, TombstoneStep, LedgerAssumption DEF RecordTombstone, TypeInv
  <2> QED BY <2>1, EnqueueStep
<1>2. CASE \E r \in Records, location \in Locations, revision \in Revisions :
               Observe(r, location, revision)
  <2>1. /\ LedgerStep /\ EnqueueAppended
        /\ UNCHANGED <<subscriptions, leases, closed>>
    BY <1>2, ObserveStep, LedgerAssumption DEF Observe, TypeInv
  <2> QED BY <2>1, EnqueueStep
<1>3. ASSUME NEW s \in Subscriptions, CreateSubscription(s)
      PROVE  /\ RowsAdded /\ UNCHANGED <<leases, closed>>
             /\ subscriptions \subseteq subscriptions'
  <2>1. UNCHANGED <<leases, closed>> /\ subscriptions \subseteq subscriptions'
    BY <1>3 DEF CreateSubscription
  <2> QED BY <1>3, <2>1, CreateStep
<1>4. ASSUME NEW s \in Subscriptions, NEW on \in BOOLEAN, SetEnabled(s, on)
      PROVE  /\ RowsAdded /\ UNCHANGED <<leases, closed>>
             /\ subscriptions \subseteq subscriptions'
  BY <1>4 DEF SetEnabled, RowsAdded
<1> QED
  BY <1>1, <1>2, <1>3, <1>4 DEF Next

LEMMA HolderNext ==
    ASSUME TypeInv, TypeInv', TokenInv, HolderInv, Next
    PROVE  HolderInv'
BY AddingStep, HeldAdded, HeldLeaseNone, HeldLeaseNext, HeldClosing

LEMMA HolderStutter ==
    ASSUME HolderInv, UNCHANGED vars
    PROVE  HolderInv'
BY DEF HolderInv, Held, LeasesOf, vars

LEMMA TokenInvariant == Spec => []TokenInv
<1>1. DeliveryInit => TokenInv
  BY DEF DeliveryInit, TokenInv
<1>2. TypeInv /\ TokenInv /\ [Next]_vars => TokenInv'
  BY TokenNext, TokenStutter DEF vars
<1> QED
  BY <1>1, <1>2, TypeInvariant, PTL DEF Spec

LEMMA HolderInvariant == Spec => []HolderInv
<1>1. DeliveryInit => HolderInv
  BY DEF DeliveryInit, HolderInv
<1>2. TypeInv /\ TypeInv' /\ TokenInv /\ HolderInv /\ [Next]_vars => HolderInv'
  BY HolderNext, HolderStutter
<1> QED
  BY <1>1, <1>2, TypeInvariant, TokenInvariant, PTL DEF Spec

\* For every policy and every behaviour of the callers and their clocks: no row
\* is handed out more often than its subscription allows, one that has used
\* its attempts up does not wait, and the leases of a row are its attempts.
THEOREM RedeliveryIsBounded == Spec => []RedeliveryBounded
<1>1. HolderInv => RedeliveryBounded
  BY DEF HolderInv, Held, RedeliveryBounded
<1> QED
  BY <1>1, HolderInvariant, PTL

\* A row in an advancing state was settled by the caller of its last lease,
\* however many earlier holders answer late.
THEOREM LastHolderSettles == Spec => []SettledByLastHolder
<1>1. HolderInv => SettledByLastHolder
  BY DEF HolderInv, Held, SettledByLastHolder
<1> QED
  BY <1>1, HolderInvariant, PTL

-----------------------------------------------------------------------------
(* The lease cap *)

\* Fewer leased rows, of a finite set, are within the cap too.
LEMMA CapSubset ==
    ASSUME CapInv, NEW s \in subscriptions, s \in Subscriptions,
           LeasedRows(deliveries', s) \subseteq LeasedRows(deliveries, s)
    PROVE  /\ IsFiniteSet(LeasedRows(deliveries', s))
           /\ Cardinality(LeasedRows(deliveries', s)) <= Config[s].maxActiveLeases
<1>1. /\ IsFiniteSet(LeasedRows(deliveries, s))
      /\ Cardinality(LeasedRows(deliveries, s)) <= Config[s].maxActiveLeases
  BY DEF CapInv
<1>2. /\ IsFiniteSet(LeasedRows(deliveries', s))
      /\ Cardinality(LeasedRows(deliveries', s)) <= Cardinality(LeasedRows(deliveries, s))
  BY <1>1, FS_Subset
<1>3. /\ Cardinality(LeasedRows(deliveries', s)) \in Nat
      /\ Cardinality(LeasedRows(deliveries, s)) \in Nat
      /\ Config[s].maxActiveLeases \in Nat
  BY <1>1, <1>2, FS_CardinalityType, PolicyType
<1> QED
  BY <1>1, <1>2, <1>3

LEMMA CapAdded ==
    ASSUME TypeInv, TypeInv', CapInv, RowsAdded, subscriptions \subseteq subscriptions'
    PROVE  CapInv'
<1> SUFFICES ASSUME NEW s \in subscriptions'
             PROVE  /\ IsFiniteSet(LeasedRows(deliveries', s))
                    /\ Cardinality(LeasedRows(deliveries', s)) <=
                           Config[s].maxActiveLeases
  BY DEF CapInv, LeasedRows
<1>1. s \in Subscriptions
  BY DEF TypeInv, TypeOK
<1>2. LeasedRows(deliveries', s) = LeasedRows(deliveries, s)
  BY DEF RowsAdded, LeasedRows
<1>3. CASE s \in subscriptions
  BY <1>1, <1>2, <1>3, CapSubset
<1>4. CASE s \notin subscriptions
  <2>1. LeasedRows(deliveries, s) = {}
    BY <1>4 DEF LeasedRows, TypeInv, TypeOK
  <2> QED BY <1>1, <1>2, <2>1, FS_EmptySet, PolicyType
<1> QED
  BY <1>3, <1>4

\* No row becomes leased.
LEMMA CapFewer ==
    ASSUME TypeInv, CapInv, DOMAIN deliveries' = DOMAIN deliveries,
           subscriptions' = subscriptions,
           \A k \in DOMAIN deliveries :
               deliveries'[k].state = "leased" => deliveries[k].state = "leased"
    PROVE  CapInv'
<1> SUFFICES ASSUME NEW s \in subscriptions
             PROVE  /\ IsFiniteSet(LeasedRows(deliveries', s))
                    /\ Cardinality(LeasedRows(deliveries', s)) <=
                           Config[s].maxActiveLeases
  BY DEF CapInv, LeasedRows
<1>1. s \in Subscriptions
  BY DEF TypeInv, TypeOK
<1>2. LeasedRows(deliveries', s) \subseteq LeasedRows(deliveries, s)
  BY DEF LeasedRows
<1> QED
  BY <1>1, <1>2, CapSubset

LEMMA CapLeaseNext ==
    ASSUME TypeInv, CapInv, NEW s \in Subscriptions, NEW now \in Times,
           NEW duration \in Durations, LeaseNext(s, now, duration)
    PROVE  CapInv'
<1> DEFINE rows == Reclaimed(s, now)
<1>1. PICK k \in Leasable(rows, s, now) : Grant(rows, k, now + duration)
  BY DEF LeaseNext
<1>2. /\ now \in Nat /\ s \in subscriptions /\ subscriptions' = subscriptions
      /\ ~(Cardinality(LeasedRows(rows, s)) >= Config[s].maxActiveLeases)
  BY DeliveryAssumption DEF LeaseNext, DeliveryAssumption, AtCap, TypeInv, TypeOK
<1>3. /\ DOMAIN rows = DOMAIN deliveries
      /\ \A j \in DOMAIN deliveries :
             rows[j].state = "leased" => deliveries[j].state = "leased"
  BY <1>2, ReclaimedRow DEF Reclaimed
<1>4. k \in DOMAIN deliveries /\ k.sub = s
  BY <1>1, <1>3 DEF Leasable
<1>5. deliveries' = [rows EXCEPT ![k] =
             [rows[k] EXCEPT !.state = "leased", !.token = FreshToken(k),
                             !.attempts = rows[k].attempts + 1,
                             !.expires = now + duration]]
  BY <1>1 DEF Grant
<1> HIDE DEF rows
<1>6. /\ DOMAIN deliveries' = DOMAIN deliveries
      /\ \A j \in DOMAIN deliveries : j # k => deliveries'[j] = rows[j]
  BY <1>3, <1>5
<1>7. \A t \in subscriptions :
        /\ IsFiniteSet(LeasedRows(rows, t))
        /\ LeasedRows(rows, t) \subseteq LeasedRows(deliveries, t)
  <2> SUFFICES ASSUME NEW t \in subscriptions
               PROVE  /\ IsFiniteSet(LeasedRows(rows, t))
                      /\ LeasedRows(rows, t) \subseteq LeasedRows(deliveries, t)
    OBVIOUS
  <2>1. LeasedRows(rows, t) \subseteq LeasedRows(deliveries, t)
    BY <1>3 DEF LeasedRows
  <2> QED BY <2>1, FS_Subset DEF CapInv
<1>8. ASSUME NEW t \in subscriptions, t # s
      PROVE  /\ IsFiniteSet(LeasedRows(deliveries', t))
             /\ Cardinality(LeasedRows(deliveries', t)) <= Config[t].maxActiveLeases
  <2>1. LeasedRows(deliveries', t) \subseteq LeasedRows(deliveries, t)
    BY <1>3, <1>4, <1>6, <1>8 DEF LeasedRows
  <2>2. t \in Subscriptions
    BY DEF TypeInv, TypeOK
  <2> QED BY <2>1, <2>2, CapSubset
<1>9. /\ IsFiniteSet(LeasedRows(deliveries', s))
      /\ Cardinality(LeasedRows(deliveries', s)) <= Config[s].maxActiveLeases
  <2>1. LeasedRows(deliveries', s) \subseteq LeasedRows(rows, s) \cup {k}
    BY <1>3, <1>6 DEF LeasedRows
  <2>2. IsFiniteSet(LeasedRows(rows, s)) /\ Cardinality(LeasedRows(rows, s)) \in Nat
    BY <1>2, <1>7, FS_CardinalityType
  <2>3. /\ IsFiniteSet(LeasedRows(rows, s) \cup {k})
        /\ Cardinality(LeasedRows(rows, s) \cup {k}) <= Cardinality(LeasedRows(rows, s)) + 1
        /\ Cardinality(LeasedRows(rows, s) \cup {k}) \in Nat
    <3> DEFINE S == LeasedRows(rows, s)
    <3> HIDE DEF S
    <3>1. IsFiniteSet(S) /\ Cardinality(S) \in Nat
      BY <2>2 DEF S
    <3>2. /\ IsFiniteSet(S \cup {k})
          /\ Cardinality(S \cup {k}) = Cardinality(S)
             \/ Cardinality(S \cup {k}) = Cardinality(S) + 1
      BY <3>1, FS_AddElement
    <3> QED BY <3>1, <3>2 DEF S
  <2>4. /\ IsFiniteSet(LeasedRows(deliveries', s))
        /\ Cardinality(LeasedRows(deliveries', s)) <=
               Cardinality(LeasedRows(rows, s) \cup {k})
        /\ Cardinality(LeasedRows(deliveries', s)) \in Nat
    BY <2>1, <2>3, FS_Subset, FS_CardinalityType
  <2>5. Config[s].maxActiveLeases \in Nat
    BY PolicyType
  <2> QED BY <1>2, <2>2, <2>3, <2>4, <2>5
<1>10. ASSUME NEW t \in subscriptions'
       PROVE  /\ IsFiniteSet(LeasedRows(deliveries', t))
              /\ Cardinality(LeasedRows(deliveries', t)) <= Config[t].maxActiveLeases
  BY <1>2, <1>8, <1>9
<1> QED
  BY <1>10 DEF CapInv, LeasedRows

LEMMA CapClosing ==
    ASSUME TypeInv, CapInv, NEW l \in leases, NEW now \in Times,
           \/ RetryDelivery(l, now)
           \/ BlockDelivery(l, now)
           \/ \E outcome \in Outcomes : SettleDelivery(l, outcome, now)
    PROVE  CapInv'
<1>1. PICK row : Close(l, row)
  BY DEF RetryDelivery, BlockDelivery, SettleDelivery
<1>2. deliveries[l.key].state = "leased"
  BY DEF RetryDelivery, BlockDelivery, SettleDelivery, Current
<1>3. /\ deliveries' = [deliveries EXCEPT ![l.key] = row]
      /\ subscriptions' = subscriptions
  BY <1>1 DEF Close
<1> QED
  BY <1>2, <1>3, CapFewer

LEMMA CapNext ==
    ASSUME TypeInv, TypeInv', CapInv, Next
    PROVE  CapInv'
<1>1. ASSUME NEW s \in Subscriptions, NEW now \in Times, LeaseNone(s, now)
      PROVE  CapInv'
  <2>1. /\ deliveries' = Reclaimed(s, now) /\ subscriptions' = subscriptions
        /\ now \in Nat
    BY <1>1, DeliveryAssumption DEF LeaseNone, DeliveryAssumption
  <2>2. /\ DOMAIN deliveries' = DOMAIN deliveries
        /\ \A j \in DOMAIN deliveries :
               deliveries'[j].state = "leased" => deliveries[j].state = "leased"
    BY <2>1, ReclaimedRow DEF Reclaimed
  <2> QED BY <2>1, <2>2, CapFewer
<1> QED
  BY <1>1, AddingStep, CapAdded, CapLeaseNext, CapClosing

\* No subscription ever has more leases out than max_active_leases, through
\* every expiry, retry and re-lease.
THEOREM CapHolds == Spec => []LeaseCap
<1>1. DeliveryInit => CapInv
  BY DEF DeliveryInit, CapInv
<1>2. TypeInv /\ TypeInv' /\ CapInv /\ [Next]_vars => CapInv'
  <2>1. ASSUME CapInv, UNCHANGED vars PROVE CapInv'
    BY <2>1 DEF CapInv, LeasedRows, vars
  <2> QED BY <2>1, CapNext
<1>3. CapInv => LeaseCap
  BY DEF CapInv, LeaseCap
<1> QED
  BY <1>1, <1>2, <1>3, TypeInvariant, PTL DEF Spec

-----------------------------------------------------------------------------
(* Every event reaches every subscription *)

\* The rows an appended event adds: one for each subscription, in the state its
\* kind calls for.
LEMMA EnqueuedRows ==
    ASSUME TypeInv, LedgerStep, EnqueueAppended
    PROVE  /\ \A s \in subscriptions, i \in Len(events) + 1 .. Len(events') :
                  KeyOf(s, events'[i]) \in DOMAIN deliveries'
           /\ \A k \in DOMAIN deliveries' \ DOMAIN deliveries :
                  \E i \in Len(events) + 1 .. Len(events') :
                      /\ events'[i].record = k.record
                      /\ events'[i].version = k.version
                      /\ deliveries'[k].state = InitialState(k.sub, events'[i].kind)
<1> DEFINE fresh == {events'[i] : i \in Len(events) + 1 .. Len(events')}
           added == {KeyOf(s, e) : s \in subscriptions, e \in fresh}
           chosen(k) == CHOOSE e \in fresh : KeyOf(k.sub, e) = k
<1>1. deliveries' = [k \in DOMAIN deliveries \cup added |->
                        IF k \in DOMAIN deliveries THEN deliveries[k]
                        ELSE NewDelivery(k.sub, chosen(k).kind, FALSE)]
  BY DEF EnqueueAppended, EnqueueFor
<1>2. \A e \in fresh : e \in Event
  <2>1. events' \in Seq(Event) /\ Len(events) \in Nat
    BY DEF LedgerStep, TypeInv, LedgerInv, LedgerTypeOK
  <2> QED BY <2>1
<1>3. \A k \in added : chosen(k) \in fresh /\ KeyOf(k.sub, chosen(k)) = k
  <2> SUFFICES ASSUME NEW k \in added PROVE \E e \in fresh : KeyOf(k.sub, e) = k
    OBVIOUS
  <2>1. PICK s \in subscriptions, e \in fresh : k = KeyOf(s, e)
    OBVIOUS
  <2>2. k.sub = s
    BY <2>1 DEF KeyOf
  <2> QED BY <2>1, <2>2
<1>4. \A s \in subscriptions, e \in fresh : KeyOf(s, e) \in DOMAIN deliveries'
  BY <1>1
<1> HIDE DEF chosen, added
<1>5. ASSUME NEW k \in DOMAIN deliveries' \ DOMAIN deliveries
      PROVE  \E e \in fresh : /\ e.record = k.record /\ e.version = k.version
                              /\ deliveries'[k].state = InitialState(k.sub, e.kind)
  <2>1. /\ k \in added
        /\ deliveries'[k] = NewDelivery(k.sub, chosen(k).kind, FALSE)
    BY <1>1
  <2>2. /\ chosen(k) \in fresh /\ k.record = chosen(k).record
        /\ k.version = chosen(k).version
    BY <1>3, <2>1 DEF KeyOf
  <2>3. deliveries'[k].state = InitialState(k.sub, chosen(k).kind)
    BY <2>1 DEF NewDelivery
  <2> QED BY <2>2, <2>3
<1> QED
  BY <1>4, <1>5

\* The rows a new subscription starts with: in replay, those of the events after
\* its starting point, otherwise a snapshot of each active record.
LEMMA CreatedRows ==
    ASSUME TypeInv, NEW s \in Subscriptions, CreateSubscription(s)
    PROVE  LET replayed == Config[s].replayAfter + 1 .. Len(events)
           IN  /\ \A k \in DOMAIN deliveries' \ DOMAIN deliveries :
                   /\ k.sub = s
                   /\ IF Config[s].mode = "replay_events"
                      THEN \E i \in replayed :
                            /\ events[i].record = k.record
                            /\ events[i].version = k.version
                            /\ deliveries'[k].state = InitialState(s, events[i].kind)
                      ELSE /\ records[k.record].state = "active"
                           /\ k.version = records[k.record].version
                           /\ deliveries'[k].snapshot
               /\ IF Config[s].mode = "replay_events"
                  THEN \A i \in replayed : KeyOf(s, events[i]) \in DOMAIN deliveries'
                  ELSE \A r \in Records : records[r].state = "active" =>
                           [sub |-> s, record |-> r, version |-> records[r].version]
                               \in DOMAIN deliveries'
<1> DEFINE rows == IF Config[s].mode = "replay_events"
                   THEN ReplayRows(s) ELSE SnapshotRows(s)
           replayed == Config[s].replayAfter + 1 .. Len(events)
<1>1. deliveries' = [k \in DOMAIN deliveries \cup DOMAIN rows |->
                        IF k \in DOMAIN rows THEN rows[k] ELSE deliveries[k]]
  BY DEF CreateSubscription
<1>2. /\ DOMAIN deliveries' = DOMAIN deliveries \cup DOMAIN rows
      /\ \A k \in DOMAIN deliveries' \ DOMAIN deliveries :
            k \in DOMAIN rows /\ deliveries'[k] = rows[k]
  <2> HIDE DEF rows
  <2> QED BY <1>1
<1>3. CASE Config[s].mode = "replay_events"
  <2> DEFINE at(k) == CHOOSE i \in replayed : KeyOf(s, events[i]) = k
  <2>1. rows = [k \in {KeyOf(s, events[i]) : i \in replayed} |->
                   NewDelivery(s, events[at(k)].kind, FALSE)]
    BY <1>3 DEF ReplayRows
  <2>2. \A k \in DOMAIN rows : at(k) \in replayed /\ KeyOf(s, events[at(k)]) = k
    BY <2>1
  <2> HIDE DEF at
  <2>3. \A k \in DOMAIN rows :
          /\ k.sub = s
          /\ events[at(k)].record = k.record /\ events[at(k)].version = k.version
          /\ rows[k].state = InitialState(s, events[at(k)].kind)
    <3>1. \A k \in DOMAIN rows : rows[k] = NewDelivery(s, events[at(k)].kind, FALSE)
      BY <2>1
    <3> HIDE DEF rows
    <3> QED BY <2>2, <3>1 DEF NewDelivery, KeyOf
  <2>4. \A i \in replayed : KeyOf(s, events[i]) \in DOMAIN rows
    BY <2>1
  <2> HIDE DEF rows
  <2> QED BY <1>2, <1>3, <2>2, <2>3, <2>4
<1>4. CASE Config[s].mode # "replay_events"
  <2>1. rows = SnapshotRows(s)
    BY <1>4
  <2> HIDE DEF rows
  <2>2. ASSUME NEW k \in DOMAIN rows
        PROVE  /\ k.sub = s /\ records[k.record].state = "active"
               /\ k.version = records[k.record].version /\ rows[k].snapshot
    <3>1. PICK r \in Records :
              /\ records[r].state = "active"
              /\ k = KeyOf(s, [record |-> r, version |-> records[r].version])
      BY <2>1 DEF SnapshotRows
    <3>2. rows[k] = NewDelivery(s, "revision_committed", TRUE)
      BY <2>1 DEF SnapshotRows
    <3>3. k.sub = s /\ k.record = r /\ k.version = records[r].version
      BY <3>1 DEF KeyOf
    <3> QED BY <3>1, <3>2, <3>3 DEF NewDelivery
  <2>3. ASSUME NEW r \in Records, records[r].state = "active"
        PROVE  [sub |-> s, record |-> r, version |-> records[r].version] \in DOMAIN rows
    <3>1. KeyOf(s, [record |-> r, version |-> records[r].version]) \in DOMAIN rows
      BY <2>1, <2>3 DEF SnapshotRows
    <3> QED BY <3>1 DEF KeyOf
  <2> QED BY <1>2, <1>4, <2>2, <2>3
<1> HIDE DEF rows
<1> QED
  BY <1>3, <1>4

\* The ledger steps of Delivery.
LedgerPart ==
    /\ LedgerNext /\ LedgerStep /\ LedgerAppends
    /\ EnqueueAppended
    /\ UNCHANGED <<subscriptions, leases>>

LEMMA MissedLedger ==
    ASSUME TypeInv, TypeInv', RowsAdded, NothingMissed, LedgerPart
    PROVE  NothingMissed'
<1>1. /\ events \in Seq(Event) /\ events' \in Seq(Event)
      /\ Len(events) \in Nat /\ Len(events') \in Nat
      /\ \A i \in 1..Len(events) : events'[i] = events[i]
      /\ subscriptions' = subscriptions /\ subscriptions \subseteq Subscriptions
      /\ \A i \in Len(events) + 1 .. Len(events') : events'[i] \in Event
  BY DEF LedgerPart, LedgerStep, TypeInv, TypeOK, LedgerInv, LedgerTypeOK
<1>2. \A r \in Records :
        /\ records[r].version \in Nat /\ records'[r].version \in Nat
        /\ records'[r].version <= MaxVersion /\ MaxVersion \in Nat
        /\ records'[r] = records[r] \/ records'[r].version > records[r].version
  BY RowsGrow, LedgerAssumption
  DEF LedgerPart, LedgerStep, TypeInv, LedgerInv, LedgerTypeOK, RecordRow, LedgerAssumption
<1>3. ASSUME NEW s \in subscriptions, NEW r \in Records,
             NEW v \in records[r].version + 1 .. records'[r].version
      PROVE  v \in VersionsOf(s, r)'
  <2>1. PICK i \in Len(events) + 1 .. Len(events') :
            events'[i].record = r /\ events'[i].version = v
    BY DEF LedgerPart, LedgerAppends
  <2>2. KeyOf(s, events'[i]) \in DOMAIN deliveries'
    BY EnqueuedRows DEF LedgerPart
  <2>3. v \in 1..MaxVersion
    BY <1>2
  <2> QED BY <2>1, <2>2, <2>3 DEF VersionsOf, KeyOf
<1>4. \A s, r : VersionsOf(s, r) \subseteq VersionsOf(s, r)'
  BY DEF VersionsOf, RowsAdded
<1>5. ASSUME NEW s \in subscriptions, NEW r \in Records,
             NEW v \in VersionsOf(s, r)', v \notin VersionsOf(s, r)
      PROVE  v > records[r].version
  <2> DEFINE k == [sub |-> s, record |-> r, version |-> v]
  <2>1. k \in DOMAIN deliveries' \ DOMAIN deliveries
    BY <1>5 DEF VersionsOf
  <2>2. k.record = r /\ k.version = v
    OBVIOUS
  <2> HIDE DEF k
  <2>3. PICK i \in Len(events) + 1 .. Len(events') :
            events'[i].record = r /\ events'[i].version = v
    BY <2>1, <2>2, EnqueuedRows DEF LedgerPart
  <2>4. v \in records[r].version + 1 .. records'[r].version
    BY <2>3 DEF LedgerPart, LedgerStep
  <2> QED BY <1>2, <2>4
<1> SUFFICES ASSUME NEW s \in subscriptions
             PROVE  /\ IF Config[s].mode = "replay_events"
                       THEN \A i \in Config[s].replayAfter + 1 .. Len(events') :
                                KeyOf(s, events'[i]) \in DOMAIN deliveries'
                       ELSE \A r \in Records :
                                records'[r].state = "active" => VersionsOf(s, r)' # {}
                    /\ \A r \in Records : \A v \in VersionsOf(s, r)' :
                           v..records'[r].version \subseteq VersionsOf(s, r)'
  BY <1>1 DEF NothingMissed
<1>6. ASSUME Config[s].mode = "replay_events",
             NEW i \in Config[s].replayAfter + 1 .. Len(events')
      PROVE  KeyOf(s, events'[i]) \in DOMAIN deliveries'
  <2>1. Config[s].replayAfter \in Nat
    BY <1>1, DeliveryAssumption DEF DeliveryAssumption
  <2>2. CASE i <= Len(events)
    <3>1. i \in Config[s].replayAfter + 1 .. Len(events) /\ events'[i] = events[i]
      BY <1>1, <2>1, <2>2
    <3>2. KeyOf(s, events[i]) \in DOMAIN deliveries
      BY <1>6, <3>1 DEF NothingMissed
    <3> QED BY <3>1, <3>2 DEF RowsAdded
  <2>3. CASE ~(i <= Len(events))
    <3>1. i \in Len(events) + 1 .. Len(events')
      BY <1>1, <2>1, <2>3
    <3> QED BY <3>1, EnqueuedRows DEF LedgerPart
  <2> QED BY <2>2, <2>3
<1>7. ASSUME Config[s].mode # "replay_events",
             NEW r \in Records, records'[r].state = "active"
      PROVE  VersionsOf(s, r)' # {}
  <2>1. CASE records'[r] = records[r]
    <3>1. VersionsOf(s, r) # {}
      BY <1>7, <2>1 DEF NothingMissed
    <3> QED BY <1>4, <3>1
  <2>2. CASE records'[r].version > records[r].version
    <3>1. records'[r].version \in records[r].version + 1 .. records'[r].version
      BY <1>2, <2>2
    <3> QED BY <1>3, <3>1
  <2> QED BY <1>2, <2>1, <2>2
<1>8. ASSUME NEW r \in Records, NEW v \in VersionsOf(s, r)',
             NEW w \in v..records'[r].version
      PROVE  w \in VersionsOf(s, r)'
  <2>0. v \in Nat /\ w \in Nat /\ v <= w /\ w <= records'[r].version
    BY <1>2 DEF VersionsOf
  <2>1. CASE w <= records[r].version
    <3>1. v \in VersionsOf(s, r)
      BY <1>2, <1>5, <2>0, <2>1
    <3>2. w \in v..records[r].version
      BY <1>2, <2>0, <2>1
    <3>3. w \in VersionsOf(s, r)
      BY <3>1, <3>2 DEF NothingMissed
    <3> QED BY <1>4, <3>3
  <2>2. CASE ~(w <= records[r].version)
    <3>1. w \in records[r].version + 1 .. records'[r].version
      BY <1>2, <2>0, <2>2
    <3> QED BY <1>3, <3>1
  <2> QED BY <2>1, <2>2
<1> QED
  BY <1>6, <1>7, <1>8

LEMMA MissedCreate ==
    ASSUME TypeInv, EventOrder, RowsAdded, NothingMissed,
           NEW s \in Subscriptions, CreateSubscription(s)
    PROVE  NothingMissed'
<1>1. /\ records' = records /\ events' = events
      /\ s \notin subscriptions /\ subscriptions' = subscriptions \cup {s}
  BY DEF CreateSubscription
<1>2. \A r \in Records : records[r].version \in Nat /\ records[r].version <= MaxVersion
  BY DEF TypeInv, LedgerInv, LedgerTypeOK, RecordRow
<1>3. \A t, r : t # s => VersionsOf(t, r)' = VersionsOf(t, r)
  BY CreatedRows DEF VersionsOf, RowsAdded
<1>4. \A t \in subscriptions : t # s
  BY <1>1
<1>5. ASSUME NEW t \in subscriptions
      PROVE  /\ IF Config[t].mode = "replay_events"
                THEN \A i \in Config[t].replayAfter + 1 .. Len(events') :
                         KeyOf(t, events'[i]) \in DOMAIN deliveries'
                ELSE \A r \in Records :
                         records'[r].state = "active" => VersionsOf(t, r)' # {}
             /\ \A r \in Records : \A v \in VersionsOf(t, r)' :
                    v..records'[r].version \subseteq VersionsOf(t, r)'
  BY <1>1, <1>3, <1>4 DEF NothingMissed, RowsAdded
<1>6. IF Config[s].mode = "replay_events"
      THEN \A i \in Config[s].replayAfter + 1 .. Len(events') :
               KeyOf(s, events'[i]) \in DOMAIN deliveries'
      ELSE \A r \in Records :
               records'[r].state = "active" => VersionsOf(s, r)' # {}
  <2>1. CASE Config[s].mode = "replay_events"
    BY <1>1, <2>1, CreatedRows
  <2>2. ASSUME Config[s].mode # "replay_events", NEW r \in Records,
               records[r].state = "active"
        PROVE  VersionsOf(s, r)' # {}
    <3>1. records[r].version \in 1..MaxVersion
      BY <1>2, <2>2 DEF TypeInv, LedgerInv
    <3>2. [sub |-> s, record |-> r, version |-> records[r].version] \in DOMAIN deliveries'
      BY <2>2, CreatedRows
    <3> QED BY <3>1, <3>2 DEF VersionsOf
  <2> QED BY <1>1, <2>1, <2>2
<1>7. ASSUME NEW r \in Records, NEW v \in VersionsOf(s, r)',
             NEW w \in v..records[r].version
      PROVE  w \in VersionsOf(s, r)'
  <2> DEFINE k == [sub |-> s, record |-> r, version |-> v]
  <2>0. /\ v \in Nat \ {0} /\ w \in 1..records[r].version /\ w \in 1..MaxVersion
        /\ v <= w
    BY <1>2, LedgerAssumption DEF VersionsOf, LedgerAssumption
  <2>1. k \in DOMAIN deliveries' /\ k.record = r /\ k.version = v /\ k.sub = s
    BY DEF VersionsOf
  <2> HIDE DEF k
  <2>2. k \notin DOMAIN deliveries
    BY <1>1, <2>1 DEF TypeInv, TypeOK
  <2>3. CASE Config[s].mode = "replay_events"
    <3>1. PICK i \in Config[s].replayAfter + 1 .. Len(events) :
              events[i].record = r /\ events[i].version = v
      BY <2>1, <2>2, <2>3, CreatedRows
    <3>2. PICK j \in 1..Len(events) : events[j].record = r /\ events[j].version = w
      BY <2>0 DEF EventOrder
    <3>3. Config[s].replayAfter \in Nat /\ Len(events) \in Nat
      BY DeliveryAssumption DEF DeliveryAssumption, TypeInv, LedgerInv, LedgerTypeOK
    <3>4. ~(j < i)
      <4> SUFFICES ASSUME j < i PROVE FALSE
        OBVIOUS
      <4>1. events[j].version < events[i].version
        BY <3>1, <3>2, <3>3 DEF EventOrder
      <4> QED BY <2>0, <3>1, <3>2, <4>1
    <3>5. j \in Config[s].replayAfter + 1 .. Len(events)
      BY <3>1, <3>2, <3>3, <3>4
    <3>6. KeyOf(s, events[j]) \in DOMAIN deliveries'
      BY <2>3, <3>5, CreatedRows
    <3> QED BY <2>0, <3>2, <3>6 DEF VersionsOf, KeyOf
  <2>4. CASE Config[s].mode # "replay_events"
    <3>1. v = records[r].version
      BY <2>1, <2>2, <2>4, CreatedRows
    <3>2. w = v
      BY <1>2, <2>0, <3>1
    <3> QED BY <3>2
  <2> QED BY <2>3, <2>4
<1> QED
  BY <1>1, <1>5, <1>6, <1>7 DEF NothingMissed

\* Steps that keep the rows, the ledger and the subscriptions.
LEMMA MissedStutter ==
    ASSUME NothingMissed, UNCHANGED <<records, events, subscriptions>>,
           DOMAIN deliveries' = DOMAIN deliveries
    PROVE  NothingMissed'
BY DEF NothingMissed, VersionsOf

\* The steps by what they do to the ledger and to the set of rows.
LEMMA StepKinds ==
    ASSUME TypeInv, Next
    PROVE  \/ LedgerPart /\ RowsAdded
           \/ \E s \in Subscriptions : CreateSubscription(s) /\ RowsAdded
           \/ UNCHANGED <<records, events, subscriptions>> /\ RowsKept
<1>1. CASE \E r \in Records : RecordTombstone(r)
  <2>1. LedgerPart
    BY <1>1, TombstoneStep, LedgerAssumption
    DEF RecordTombstone, TypeInv, LedgerPart, LedgerNext
  <2> QED BY <2>1, EnqueueStep DEF LedgerPart
<1>2. CASE \E r \in Records, location \in Locations, revision \in Revisions :
               Observe(r, location, revision)
  <2>1. LedgerPart
    BY <1>2, ObserveStep, LedgerAssumption DEF Observe, TypeInv, LedgerPart, LedgerNext
  <2> QED BY <2>1, EnqueueStep DEF LedgerPart
<1>3. CASE \E s \in Subscriptions : CreateSubscription(s)
  BY <1>3, CreateStep
<1>4. CASE \E s \in Subscriptions, on \in BOOLEAN : SetEnabled(s, on)
  <2>1. UNCHANGED <<records, events, subscriptions, deliveries>>
    BY <1>4 DEF SetEnabled
  <2>2. RowsKept
    BY <2>1 DEF RowsKept, TypeInv, TypeOK
  <2> QED BY <2>1, <2>2
<1>5. CASE \E s \in Subscriptions, now \in Times : LeaseNone(s, now)
  BY <1>5, LeaseNoneStep DEF LeaseNone
<1>6. CASE \E s \in Subscriptions, now \in Times, duration \in Durations :
               LeaseNext(s, now, duration)
  BY <1>6, LeaseNextStep DEF LeaseNext
<1>7. ASSUME NEW l \in leases, NEW now \in Times,
             \/ RetryDelivery(l, now)
             \/ BlockDelivery(l, now)
             \/ \E outcome \in Outcomes : SettleDelivery(l, outcome, now)
      PROVE  UNCHANGED <<records, events, subscriptions>> /\ RowsKept
  <2>1. UNCHANGED <<records, events, subscriptions>>
    BY <1>7 DEF RetryDelivery, BlockDelivery, SettleDelivery, Close
  <2> QED BY <1>7, <2>1, ClosingStep
<1> QED
  BY <1>1, <1>2, <1>3, <1>4, <1>5, <1>6, <1>7 DEF Next

LEMMA OrderOfEvents == Spec => []EventOrder
<1>1. DeliveryInit => EventOrder
  BY EventOrderInit DEF DeliveryInit
<1>2. ASSUME TypeInv, EventOrder, [Next]_vars PROVE EventOrder'
  <2>1. CASE UNCHANGED <<records, events>>
    BY <1>2, <2>1 DEF EventOrder
  <2>2. CASE LedgerPart
    BY <1>2, <2>2, EventOrderStep DEF LedgerPart, TypeInv
  <2> QED BY <1>2, <2>1, <2>2, StepKinds DEF vars, CreateSubscription
<1>3. TypeInv /\ EventOrder /\ [Next]_vars => EventOrder'
  BY <1>2
<1> QED
  BY <1>1, <1>3, TypeInvariant, PTL DEF Spec

\* For any number of subscriptions, created at any time, paused or not: a
\* subscription has a row for every event after its starting point, or for
\* every active record, and from the first version it has of a record on it
\* has them all.
THEOREM NothingIsMissed == Spec => []NothingMissed
<1>1. DeliveryInit => NothingMissed
  BY DEF DeliveryInit, NothingMissed
<1>2. ASSUME TypeInv, TypeInv', EventOrder, NothingMissed, [Next]_vars
      PROVE  NothingMissed'
  <2>1. CASE Next
    BY <1>2, <2>1, StepKinds, MissedLedger, MissedCreate, MissedStutter DEF RowsKept
  <2>2. CASE UNCHANGED vars
    BY <1>2, <2>2, MissedStutter DEF vars
  <2> QED BY <1>2, <2>1, <2>2
<1>3. TypeInv /\ TypeInv' /\ EventOrder /\ NothingMissed /\ [Next]_vars => NothingMissed'
  BY <1>2
<1> QED
  BY <1>1, <1>3, TypeInvariant, OrderOfEvents, PTL DEF Spec
-----------------------------------------------------------------------------
(* Only what a subscription accepts is handed out *)

\* A row of an event its subscription does not accept stays blocked, untouched.
WithheldInv ==
    \A k \in DOMAIN deliveries, i \in 1..Len(events) :
        /\ ~deliveries[k].snapshot
        /\ events[i].record = k.record /\ events[i].version = k.version
        /\ InitialState(k.sub, events[i].kind) # "queued"
        => deliveries[k].state = "blocked" /\ deliveries[k].attempts = 0

LEMMA WithheldLedger ==
    ASSUME TypeInv, TypeInv', EventOrder', RowsAdded, WithheldInv, LedgerPart
    PROVE  WithheldInv'
<1>1. /\ Len(events) \in Nat /\ Len(events') \in Nat /\ Len(events') >= Len(events)
      /\ \A i \in 1..Len(events) : events'[i] = events[i]
      /\ \A i \in Len(events) + 1 .. Len(events') :
            events'[i].version \in records[events'[i].record].version + 1 ..
                                       records'[events'[i].record].version
  BY DEF LedgerPart, LedgerStep, TypeInv, LedgerInv, LedgerTypeOK
<1> SUFFICES ASSUME NEW k \in DOMAIN deliveries', NEW i \in 1..Len(events'),
                    ~deliveries'[k].snapshot,
                    events'[i].record = k.record, events'[i].version = k.version,
                    InitialState(k.sub, events'[i].kind) # "queued"
             PROVE  deliveries'[k].state = "blocked" /\ deliveries'[k].attempts = 0
  BY DEF WithheldInv
<1>2. CASE k \in DOMAIN deliveries
  <2>1. k.version \in 1..records[k.record].version /\ k.record \in Records
    BY <1>2 DEF TypeInv, TypeOK, Key
  <2>2. records[k.record].version \in Nat
    BY <2>1 DEF TypeInv, LedgerInv, LedgerTypeOK, RecordRow
  <2>3. i \notin Len(events) + 1 .. Len(events')
    BY <1>1, <2>1, <2>2
  <2>4. i \in 1..Len(events) /\ events'[i] = events[i]
    BY <1>1, <2>3
  <2>5. deliveries'[k] = deliveries[k]
    BY <1>2 DEF RowsAdded
  <2> QED BY <1>2, <2>4, <2>5 DEF WithheldInv
<1>3. CASE k \notin DOMAIN deliveries
  <2>1. PICK j \in Len(events) + 1 .. Len(events') :
            /\ events'[j].record = k.record
            /\ events'[j].version = k.version
            /\ deliveries'[k].state = InitialState(k.sub, events'[j].kind)
    BY <1>3, EnqueuedRows DEF LedgerPart
  <2>2. j \in 1..Len(events')
    BY <1>1
  <2>3. i = j
    <3>1. events'[i].version \in Nat /\ i \in Nat /\ j \in Nat
      BY <1>3 DEF RowsAdded, Key
    <3>2. ~(i < j) /\ ~(j < i)
      BY <2>1, <2>2, <3>1 DEF EventOrder
    <3> QED BY <3>1, <3>2
  <2>4. deliveries'[k].attempts = 0
    BY <1>3 DEF RowsAdded
  <2> QED BY <2>1, <2>3, <2>4 DEF InitialState
<1> QED
  BY <1>2, <1>3

LEMMA WithheldCreate ==
    ASSUME TypeInv, EventOrder, RowsAdded, WithheldInv,
           NEW s \in Subscriptions, CreateSubscription(s)
    PROVE  WithheldInv'
<1>1. events' = events
  BY DEF CreateSubscription
<1> SUFFICES ASSUME NEW k \in DOMAIN deliveries', NEW i \in 1..Len(events),
                    ~deliveries'[k].snapshot,
                    events[i].record = k.record, events[i].version = k.version,
                    InitialState(k.sub, events[i].kind) # "queued"
             PROVE  deliveries'[k].state = "blocked" /\ deliveries'[k].attempts = 0
  BY <1>1 DEF WithheldInv
<1>2. CASE k \in DOMAIN deliveries
  BY <1>2 DEF RowsAdded, WithheldInv
<1>3. CASE k \notin DOMAIN deliveries
  <2>1. Config[s].mode = "replay_events" /\ k.sub = s
    BY <1>3, CreatedRows
  <2>2. PICK j \in Config[s].replayAfter + 1 .. Len(events) :
            /\ events[j].record = k.record
            /\ events[j].version = k.version
            /\ deliveries'[k].state = InitialState(s, events[j].kind)
    BY <1>3, <2>1, CreatedRows
  <2>3. j \in 1..Len(events)
    BY DeliveryAssumption DEF DeliveryAssumption, TypeInv, LedgerInv, LedgerTypeOK
  <2>4. i = j
    BY <2>2, <2>3, EventUnique DEF TypeInv
  <2>5. deliveries'[k].attempts = 0
    BY <1>3 DEF RowsAdded
  <2> QED BY <2>1, <2>2, <2>4, <2>5 DEF InitialState
<1> QED
  BY <1>2, <1>3

LEMMA WithheldKept ==
    ASSUME WithheldInv, RowsKept, events' = events
    PROVE  WithheldInv'
BY DEF WithheldInv, RowsKept, Final

LEMMA WithheldInvariant == Spec => []WithheldInv
<1>1. DeliveryInit => WithheldInv
  BY DEF DeliveryInit, WithheldInv
<1>2. ASSUME TypeInv, TypeInv', EventOrder, EventOrder', WithheldInv, [Next]_vars
      PROVE  WithheldInv'
  <2>1. CASE Next
    BY <1>2, <2>1, StepKinds, WithheldLedger, WithheldCreate, WithheldKept
  <2>2. CASE UNCHANGED vars
    BY <1>2, <2>2 DEF vars, WithheldInv
  <2> QED BY <1>2, <2>1, <2>2
<1>3. /\ TypeInv /\ TypeInv' /\ EventOrder /\ EventOrder' /\ WithheldInv
      /\ [Next]_vars
      => WithheldInv'
  BY <1>2
<1> QED
  BY <1>1, <1>3, TypeInvariant, OrderOfEvents, PTL DEF Spec

\* The event of a delivery row exists.
LEMMA EventExists ==
    ASSUME TypeInv, EventOrder, NEW k \in DOMAIN deliveries
    PROVE  /\ SequenceOf(k) \in 1..Len(events)
           /\ events[SequenceOf(k)].record = k.record
           /\ events[SequenceOf(k)].version = k.version
<1>1. k.record \in Records /\ k.version \in 1..records[k.record].version
  BY DEF TypeInv, TypeOK, Key
<1>2. \E i \in 1..Len(events) : events[i].record = k.record /\ events[i].version = k.version
  BY <1>1 DEF EventOrder
<1> QED
  BY <1>2 DEF SequenceOf

\* Whatever a subscription does not accept is never handed out, however its
\* rows came into being.
THEOREM UnsupportedIsWithheld == Spec => []UnsupportedWithheld
<1>1. ASSUME TypeInv, EventOrder, HolderInv, WithheldInv
      PROVE  UnsupportedWithheld
  <2> SUFFICES ASSUME NEW l \in leases, ~deliveries[l.key].snapshot
               PROVE  InitialState(l.key.sub, events[SequenceOf(l.key)].kind) = "queued"
    BY DEF UnsupportedWithheld
  <2>1. l.key \in DOMAIN deliveries
    BY <1>1 DEF TypeInv, TypeOK
  <2>2. deliveries[l.key].attempts # 0
    <3> SUFFICES ASSUME deliveries[l.key].attempts = 0 PROVE FALSE
      OBVIOUS
    <3>1. Cardinality(LeasesOf(l.key)) = 0 /\ IsFiniteSet(LeasesOf(l.key))
      BY <1>1, <2>1, FS_Subset DEF HolderInv, Held, LeasesOf, TypeInv, TypeOK
    <3>2. LeasesOf(l.key) = {}
      BY <3>1, FS_EmptySet
    <3> QED BY <3>2 DEF LeasesOf
  <2> QED BY <1>1, <2>1, <2>2, EventExists DEF WithheldInv
<1>2. TypeInv /\ EventOrder /\ HolderInv /\ WithheldInv => UnsupportedWithheld
  BY <1>1
<1> QED
  BY <1>2, TypeInvariant, OrderOfEvents, HolderInvariant, WithheldInvariant, PTL
=============================================================================
