--------------------------- MODULE DeliveryProofs ---------------------------
(***************************************************************************)
(* Theorems about Delivery for every set of records, subscriptions,        *)
(* policies, times and durations.                                          *)
(***************************************************************************)
EXTENDS Delivery, LedgerProofs, FiniteSetTheorems

TypeInv ==
    /\ LedgerInv
    /\ TypeOK
    /\ \A k \in DOMAIN deliveries :
        deliveries[k].state = "leased" => deliveries[k].attempts > 0

-----------------------------------------------------------------------------
(* The delivery rows: every step either adds rows or keeps them all. *)

\* New rows are untouched and of later versions than the rows that the same
\* subscription already has of the same record.
RowsAdded ==
    /\ DOMAIN deliveries \subseteq DOMAIN deliveries'
    /\ \A k \in DOMAIN deliveries : deliveries'[k] = deliveries[k]
    /\ \A k \in DOMAIN deliveries' \ DOMAIN deliveries :
        /\ k \in Key
        /\ k.sub \in subscriptions'
        /\ k.version \in 1..records'[k.record].version
        /\ deliveries'[k] \in Delivery
        /\ deliveries'[k].state \in {"queued", "blocked"}
        /\ deliveries'[k].attempts = 0
        /\ \A j \in DOMAIN deliveries :
            j.sub = k.sub /\ j.record = k.record => j.version < k.version

\* A final row does not change, and a row is first attempted when all the
\* earlier versions are in an advancing state.
Final == Outcomes \cup {"blocked"}

RowsKept ==
    /\ DOMAIN deliveries' = DOMAIN deliveries
    /\ \A k \in DOMAIN deliveries :
        /\ deliveries'[k] \in Delivery
        /\ deliveries'[k].state = "leased" => deliveries'[k].attempts > 0
        /\ deliveries[k].state \in Final => deliveries'[k] = deliveries[k]
        /\ deliveries'[k].snapshot = deliveries[k].snapshot
        /\ deliveries'[k].attempts > 0 =>
            \/ deliveries[k].attempts > 0
            \/ \A j \in Earlier(deliveries, k) : deliveries[j].state \in Advancing

LEMMA NewDeliveryType ==
    \A s, kind :
        /\ NewDelivery(s, kind, FALSE) \in Delivery
        /\ NewDelivery(s, kind, FALSE).state \in {"queued", "blocked"}
        /\ NewDelivery(s, kind, FALSE).attempts = 0
        /\ NewDelivery(s, kind, TRUE) \in Delivery
        /\ NewDelivery(s, kind, TRUE).state \in {"queued", "blocked"}
        /\ NewDelivery(s, kind, TRUE).attempts = 0
<1>1. \A s, kind : InitialState(s, kind) \in {"queued", "blocked"}
  BY DEF InitialState
<1> QED
  BY <1>1 DEF NewDelivery, Delivery, DeliveryStates

LEMMA KeyOfType ==
    ASSUME NEW s \in Subscriptions, NEW e \in Event
    PROVE  /\ KeyOf(s, e) \in Key
           /\ KeyOf(s, e).sub = s
           /\ KeyOf(s, e).record = e.record
           /\ KeyOf(s, e).version = e.version
  BY DEF KeyOf, Key, Event

LEMMA EnqueueStep ==
    ASSUME TypeInv, LedgerStep, EnqueueAppended, UNCHANGED subscriptions
    PROVE  RowsAdded
<1> DEFINE fresh == {events'[i] : i \in Len(events) + 1 .. Len(events')}
           added == {KeyOf(s, e) : s \in subscriptions, e \in fresh}
           kindOf(k) == (CHOOSE e \in fresh : KeyOf(k.sub, e) = k).kind
<1>1. deliveries' = [k \in DOMAIN deliveries \cup added |->
                        IF k \in DOMAIN deliveries THEN deliveries[k]
                        ELSE NewDelivery(k.sub, kindOf(k), FALSE)]
  BY DEF EnqueueAppended, EnqueueFor
<1> HIDE DEF kindOf, added
<1>2. DOMAIN deliveries' = DOMAIN deliveries \cup added
  BY <1>1
<1>3. \A k \in DOMAIN deliveries : deliveries'[k] = deliveries[k]
  BY <1>1
<1>4. \A k \in DOMAIN deliveries' \ DOMAIN deliveries :
        deliveries'[k] = NewDelivery(k.sub, kindOf(k), FALSE)
  BY <1>1
<1>5. ASSUME NEW k \in DOMAIN deliveries' \ DOMAIN deliveries
      PROVE  /\ k \in Key
             /\ k.sub \in subscriptions'
             /\ k.version \in 1..records'[k.record].version
             /\ \A j \in DOMAIN deliveries :
                 j.sub = k.sub /\ j.record = k.record => j.version < k.version
  <2>1. PICK s \in subscriptions, i \in Len(events) + 1 .. Len(events') :
            k = KeyOf(s, events'[i])
    BY <1>2 DEF added
  <2>2. /\ events' \in Seq(Event) /\ events \in Seq(Event)
        /\ events'[i].version \in
               records[events'[i].record].version + 1 ..
                   records'[events'[i].record].version
    BY DEF LedgerStep, TypeInv, LedgerInv, LedgerTypeOK
  <2>3. events'[i] \in Event
    BY <2>2
  <2>4. s \in Subscriptions
    BY DEF TypeInv, TypeOK
  <2>5. /\ k \in Key /\ k.sub = s /\ k.record = events'[i].record
        /\ k.version = events'[i].version
    BY <2>1, <2>3, <2>4, KeyOfType
  <2>6. k.version \in records[k.record].version + 1 .. records'[k.record].version
    BY <2>2, <2>5
  <2>7. records[k.record].version \in Nat /\ records'[k.record].version \in Nat
    BY <2>5 DEF LedgerStep, TypeInv, LedgerInv, LedgerTypeOK, RecordRow, Key
  <2>8. \A j \in DOMAIN deliveries :
            j.record = k.record => j.version <= records[k.record].version
    BY <2>7 DEF TypeInv, TypeOK
  <2>9. \A j \in DOMAIN deliveries : j.version \in Nat
    BY DEF TypeInv, TypeOK, Key
  <2> QED
    BY <2>5, <2>6, <2>7, <2>8, <2>9
<1>6. \A k \in DOMAIN deliveries' \ DOMAIN deliveries :
        /\ deliveries'[k] \in Delivery
        /\ deliveries'[k].state \in {"queued", "blocked"}
        /\ deliveries'[k].attempts = 0
  BY <1>4, NewDeliveryType, ZenonT(30)
<1> QED
  BY <1>2, <1>3, <1>5, <1>6 DEF RowsAdded

LEMMA CreateStep ==
    ASSUME TypeInv, NEW s \in Subscriptions, CreateSubscription(s)
    PROVE  RowsAdded
<1> DEFINE rows == IF Config[s].mode = "replay_events"
                   THEN ReplayRows(s) ELSE SnapshotRows(s)
<1>1. /\ deliveries' = [k \in DOMAIN deliveries \cup DOMAIN rows |->
                           IF k \in DOMAIN rows THEN rows[k] ELSE deliveries[k]]
      /\ s \notin subscriptions /\ subscriptions' = subscriptions \cup {s}
      /\ UNCHANGED <<records, events>>
  BY DEF CreateSubscription
<1>2. ASSUME NEW k \in DOMAIN ReplayRows(s)
      PROVE  /\ k \in Key /\ k.sub = s
             /\ k.version \in 1..records[k.record].version
             /\ ReplayRows(s)[k] \in Delivery
             /\ ReplayRows(s)[k].state \in {"queued", "blocked"}
             /\ ReplayRows(s)[k].attempts = 0
  <2> DEFINE replayed == Config[s].replayAfter + 1 .. Len(events)
             eventOf(j) == events[CHOOSE i \in replayed : KeyOf(s, events[i]) = j]
  <2>1. ReplayRows(s) = [j \in {KeyOf(s, events[i]) : i \in replayed} |->
                            NewDelivery(s, eventOf(j).kind, FALSE)]
    BY DEF ReplayRows
  <2> HIDE DEF eventOf
  <2>2. PICK i \in replayed : k = KeyOf(s, events[i])
    BY <2>1
  <2>3. ReplayRows(s)[k] = NewDelivery(s, eventOf(k).kind, FALSE)
    BY <2>1
  <2>4. i \in 1..Len(events) /\ events \in Seq(Event)
    BY DeliveryAssumption DEF DeliveryAssumption, TypeInv, LedgerInv, LedgerTypeOK
  <2>5. /\ events[i] \in Event
        /\ events[i].version \in 1..records[events[i].record].version
    BY <2>4 DEF TypeInv, LedgerInv
  <2>6. /\ k \in Key /\ k.sub = s /\ k.record = events[i].record
        /\ k.version = events[i].version
    BY <2>2, <2>5, KeyOfType
  <2> QED
    BY <2>3, <2>5, <2>6, NewDeliveryType, ZenonT(30)
<1>3. ASSUME NEW k \in DOMAIN SnapshotRows(s)
      PROVE  /\ k \in Key /\ k.sub = s
             /\ k.version \in 1..records[k.record].version
             /\ SnapshotRows(s)[k] \in Delivery
             /\ SnapshotRows(s)[k].state \in {"queued", "blocked"}
             /\ SnapshotRows(s)[k].attempts = 0
  <2>1. PICK r \in Records :
            /\ records[r].state = "active"
            /\ k = KeyOf(s, [record |-> r, version |-> records[r].version])
    BY DEF SnapshotRows
  <2>4. k = [sub |-> s, record |-> r, version |-> records[r].version]
    BY <2>1 DEF KeyOf
  <2>2. records[r].version \in Nat /\ records[r].version # 0
    BY <2>1 DEF TypeInv, LedgerInv, LedgerTypeOK, RecordRow
  <2>3. SnapshotRows(s)[k] = NewDelivery(s, "revision_committed", TRUE)
    BY DEF SnapshotRows
  <2> QED
    <3>1. k \in Key /\ k.sub = s /\ k.record = r /\ k.version = records[r].version
      BY <2>2, <2>4 DEF Key
    <3>2. k.version \in 1..records[k.record].version
      BY <2>2, <3>1
    <3> QED BY <2>3, <3>1, <3>2, NewDeliveryType, ZenonT(30)
<1>4. ASSUME NEW k \in DOMAIN rows
      PROVE  /\ k \in Key /\ k.sub = s
             /\ k.version \in 1..records[k.record].version
             /\ rows[k] \in Delivery
             /\ rows[k].state \in {"queued", "blocked"}
             /\ rows[k].attempts = 0
  <2>1. rows = ReplayRows(s) \/ rows = SnapshotRows(s)
    OBVIOUS
  <2> HIDE DEF rows
  <2> QED BY <1>2, <1>3, <2>1
<1> HIDE DEF rows
<1>5. \A j \in DOMAIN deliveries : j.sub # s
  BY <1>1 DEF TypeInv, TypeOK
<1>6. DOMAIN rows \cap DOMAIN deliveries = {}
  BY <1>4, <1>5
<1>7. /\ DOMAIN deliveries' = DOMAIN deliveries \cup DOMAIN rows
      /\ \A k \in DOMAIN deliveries : deliveries'[k] = deliveries[k]
      /\ \A k \in DOMAIN deliveries' \ DOMAIN deliveries :
            k \in DOMAIN rows /\ deliveries'[k] = rows[k]
  BY <1>1, <1>6
<1>8. \A k \in DOMAIN deliveries' \ DOMAIN deliveries :
        /\ k \in Key /\ k.sub = s /\ k.sub \in subscriptions'
        /\ k.version \in 1..records'[k.record].version
        /\ deliveries'[k] \in Delivery
        /\ deliveries'[k].state \in {"queued", "blocked"}
        /\ deliveries'[k].attempts = 0
  BY <1>1, <1>4, <1>7
<1> QED
  BY <1>5, <1>7, <1>8 DEF RowsAdded

-----------------------------------------------------------------------------
(* Leasing and closing *)

LEMMA ReleasedType ==
    ASSUME NEW s \in Subscriptions, NEW row \in Delivery,
           NEW attempt \in Nat, NEW now \in Nat
    PROVE  /\ Released(s, row, attempt, now) \in Delivery
           /\ Released(s, row, attempt, now).state \in {"queued", "dead_lettered"}
           /\ Released(s, row, attempt, now).attempts = row.attempts
           /\ Released(s, row, attempt, now).snapshot = row.snapshot
<1> DEFINE delay == Config[s].initialBackoff * 2^(IF attempt > 0 THEN attempt - 1 ELSE 0)
<1>1. Config[s].maxBackoff \in Nat
  BY DeliveryAssumption DEF DeliveryAssumption
<1>2. RetryNotBefore(s, attempt, now) =
          now + IF delay \in 0..Config[s].maxBackoff THEN delay ELSE Config[s].maxBackoff
  BY DEF RetryNotBefore, Backoff
<1> HIDE DEF delay
<1>3. RetryNotBefore(s, attempt, now) \in Nat
  BY <1>1, <1>2
<1> QED
  BY <1>3 DEF Released, Delivery, DeliveryStates, Outcomes

\* What lease_next's first statement does to a row.
LEMMA ReclaimedRow ==
    ASSUME TypeInv, NEW s \in Subscriptions, NEW now \in Nat,
           NEW k \in DOMAIN deliveries
    PROVE  /\ DOMAIN Reclaimed(s, now) = DOMAIN deliveries
           /\ Reclaimed(s, now)[k] \in Delivery
           /\ Reclaimed(s, now)[k].attempts = deliveries[k].attempts
           /\ Reclaimed(s, now)[k].snapshot = deliveries[k].snapshot
           /\ \/ Reclaimed(s, now)[k] = deliveries[k]
              \/ /\ deliveries[k].state = "leased"
                 /\ Reclaimed(s, now)[k].state \in {"queued", "dead_lettered"}
<1>1. deliveries[k] \in Delivery /\ deliveries[k].attempts \in Nat
  BY DEF TypeInv, TypeOK, Delivery
<1>2. DOMAIN Reclaimed(s, now) = DOMAIN deliveries
  BY DEF Reclaimed
<1>3. CASE /\ k.sub = s /\ deliveries[k].state = "leased"
           /\ deliveries[k].expires <= now
  <2>1. Reclaimed(s, now)[k] = Released(s, deliveries[k], deliveries[k].attempts, now)
    BY <1>3 DEF Reclaimed
  <2> QED
    BY <1>1, <1>2, <1>3, <2>1, ReleasedType, SMTT(30)
<1>4. CASE ~(/\ k.sub = s /\ deliveries[k].state = "leased"
             /\ deliveries[k].expires <= now)
  <2>1. Reclaimed(s, now)[k] = deliveries[k]
    BY <1>4 DEF Reclaimed
  <2> QED
    BY <1>1, <1>2, <2>1
<1> QED
  BY <1>3, <1>4

LEMMA LeaseNextStep ==
    ASSUME TypeInv, NEW s \in Subscriptions, NEW now \in Times,
           NEW duration \in Durations, LeaseNext(s, now, duration)
    PROVE  /\ RowsKept
           /\ \E k \in DOMAIN deliveries :
                leases' = leases \cup
                    {[key |-> k, token |-> FreshToken(k),
                      attempt |-> deliveries[k].attempts + 1,
                      expires |-> now + duration]}
<1> DEFINE rows == Reclaimed(s, now)
<1>1. now \in Nat /\ duration \in Nat
  BY DeliveryAssumption DEF DeliveryAssumption
<1>2. PICK k \in Leasable(rows, s, now) : Grant(rows, k, now + duration)
  BY DEF LeaseNext
<1>3. /\ k \in DOMAIN rows /\ k.sub = s /\ rows[k].state = "queued"
      /\ \A j \in Earlier(rows, k) : rows[j].state \in Advancing
  BY <1>2 DEF Leasable
<1>4. /\ DOMAIN rows = DOMAIN deliveries
      /\ \A j \in DOMAIN deliveries :
          /\ rows[j] \in Delivery
          /\ rows[j].attempts = deliveries[j].attempts
          /\ rows[j].snapshot = deliveries[j].snapshot
          /\ \/ rows[j] = deliveries[j]
             \/ /\ deliveries[j].state = "leased"
                /\ rows[j].state \in {"queued", "dead_lettered"}
  <2>1. DOMAIN rows = DOMAIN deliveries
    BY DEF Reclaimed
  <2> HIDE DEF rows
  <2> QED BY <1>1, <2>1, ReclaimedRow DEF rows
<1> HIDE DEF rows
<1>5. Earlier(rows, k) = Earlier(deliveries, k)
  BY <1>4 DEF Earlier
<1>6. \A j \in Earlier(deliveries, k) : deliveries[j].state \in Advancing
  BY <1>3, <1>4, <1>5 DEF Earlier, Advancing
<1>7. FreshToken(k) \in Nat
  <2>1. IsFiniteSet(LeasesOf(k))
    BY FS_Subset DEF LeasesOf, TypeInv, TypeOK
  <2> QED
    BY <2>1, FS_CardinalityType DEF FreshToken
<1>8. deliveries' = [rows EXCEPT ![k] =
          [rows[k] EXCEPT !.state = "leased", !.token = FreshToken(k),
                          !.attempts = rows[k].attempts + 1,
                          !.expires = now + duration]]
  BY <1>2 DEF Grant
<1>9. /\ deliveries'[k] \in Delivery /\ deliveries'[k].attempts > 0
      /\ deliveries'[k].snapshot = rows[k].snapshot
  <2>1. deliveries'[k] = [rows[k] EXCEPT !.state = "leased", !.token = FreshToken(k),
                                         !.attempts = rows[k].attempts + 1,
                                         !.expires = now + duration]
    BY <1>3, <1>8
  <2>2. rows[k] \in Delivery /\ now + duration \in Nat
    BY <1>1, <1>3, <1>4
  <2>3. rows[k].attempts \in Nat /\ rows[k].attempts + 1 > 0
    BY <2>2 DEF Delivery
  <2>4. "leased" \in DeliveryStates
    BY DEF DeliveryStates
  <2>5. \A token, attempts, expires \in Nat :
            [rows[k] EXCEPT !.state = "leased", !.token = token,
                            !.attempts = attempts, !.expires = expires] \in Delivery
    BY <2>2, <2>4 DEF Delivery
  <2>6. deliveries'[k].attempts = rows[k].attempts + 1
    BY <2>1, <2>2 DEF Delivery
  <2> QED
    <3>1. rows[k].attempts + 1 \in Nat
      BY <2>3
    <3>2. [rows[k] EXCEPT !.state = "leased", !.token = FreshToken(k),
                          !.attempts = rows[k].attempts + 1,
                          !.expires = now + duration] \in Delivery
      BY <1>7, <2>2, <2>5, <3>1, Zenon
    <3>3. deliveries'[k].snapshot = rows[k].snapshot
      BY <2>1, <2>2 DEF Delivery
    <3> QED BY <2>1, <2>3, <2>6, <3>2, <3>3, Zenon
<1>10. \A j \in DOMAIN deliveries : j # k => deliveries'[j] = rows[j]
  BY <1>4, <1>8
<1>11. DOMAIN deliveries' = DOMAIN deliveries
  BY <1>4, <1>8
<1>12. RowsKept
  <2> SUFFICES ASSUME NEW j \in DOMAIN deliveries
               PROVE  /\ deliveries'[j] \in Delivery
                      /\ deliveries'[j].state = "leased" => deliveries'[j].attempts > 0
                      /\ deliveries[j].state \in Final =>
                            deliveries'[j] = deliveries[j]
                      /\ deliveries'[j].snapshot = deliveries[j].snapshot
                      /\ deliveries'[j].attempts > 0 =>
                          \/ deliveries[j].attempts > 0
                          \/ \A i \in Earlier(deliveries, j) :
                                deliveries[i].state \in Advancing
    BY <1>11 DEF RowsKept
  <2>1. CASE j = k
    <3>1. deliveries[k].state \notin Final
      BY <1>3, <1>4 DEF Final, Outcomes, Advancing
    <3>2. deliveries'[k].snapshot = deliveries[k].snapshot
      BY <1>3, <1>4, <1>9
    <3> QED BY <1>6, <1>9, <2>1, <3>1, <3>2
  <2>2. CASE j # k
    <3>1. deliveries'[j] = rows[j]
      BY <1>10, <2>2
    <3>2. deliveries[j].state = "leased" => deliveries[j].attempts > 0
      BY DEF TypeInv
    <3> QED BY <1>4, <3>1, <3>2 DEF Final, Outcomes, Advancing
  <2> QED BY <2>1, <2>2
<1>13. leases' = leases \cup
           {[key |-> k, token |-> FreshToken(k),
             attempt |-> deliveries[k].attempts + 1, expires |-> now + duration]}
  BY <1>2, <1>3, <1>4 DEF Grant
<1> QED
  BY <1>3, <1>4, <1>12, <1>13

LEMMA LeaseNoneStep ==
    ASSUME TypeInv, NEW s \in Subscriptions, NEW now \in Times, LeaseNone(s, now)
    PROVE  RowsKept
<1>1. now \in Nat
  BY DeliveryAssumption DEF DeliveryAssumption
<1>2. deliveries' = Reclaimed(s, now)
  BY DEF LeaseNone
<1>3. /\ DOMAIN deliveries' = DOMAIN deliveries
      /\ \A j \in DOMAIN deliveries :
          /\ deliveries'[j] \in Delivery
          /\ deliveries'[j].attempts = deliveries[j].attempts
          /\ deliveries'[j].snapshot = deliveries[j].snapshot
          /\ \/ deliveries'[j] = deliveries[j]
             \/ /\ deliveries[j].state = "leased"
                /\ deliveries'[j].state \in {"queued", "dead_lettered"}
  <2>1. DOMAIN deliveries' = DOMAIN deliveries
    BY <1>2 DEF Reclaimed
  <2> QED BY <1>1, <1>2, <2>1, ReclaimedRow
<1>4. \A j \in DOMAIN deliveries :
        deliveries[j].state = "leased" => deliveries[j].attempts > 0
  BY DEF TypeInv
<1> QED
  BY <1>3, <1>4 DEF RowsKept, Final, Outcomes, Advancing

\* The three ways to close a lease replace one leased row by an unleased one
\* with the same attempts.
LEMMA CloseStep ==
    ASSUME TypeInv, NEW l \in leases, NEW row \in Delivery,
           deliveries[l.key].state = "leased",
           row.state # "leased", row.attempts = deliveries[l.key].attempts,
           row.snapshot = deliveries[l.key].snapshot,
           Close(l, row)
    PROVE  RowsKept
<1>1. l.key \in DOMAIN deliveries
  BY DEF TypeInv, TypeOK
<1>2. deliveries' = [deliveries EXCEPT ![l.key] = row]
  BY DEF Close
<1>3. \A j \in DOMAIN deliveries :
        /\ deliveries[j] \in Delivery
        /\ deliveries[j].state = "leased" => deliveries[j].attempts > 0
  BY DEF TypeInv, TypeOK
<1> QED
  BY <1>1, <1>2, <1>3 DEF RowsKept, Final, Outcomes, Advancing

LEMMA ClosingStep ==
    ASSUME TypeInv, NEW l \in leases, NEW now \in Times,
           \/ RetryDelivery(l, now)
           \/ BlockDelivery(l, now)
           \/ \E outcome \in Outcomes : SettleDelivery(l, outcome, now)
    PROVE  RowsKept /\ leases' = leases /\ closed' = closed \cup {l}
<1>1. /\ deliveries[l.key] \in Delivery /\ l.key.sub \in Subscriptions
      /\ l.attempt \in Nat /\ now \in Nat
  BY DeliveryAssumption DEF DeliveryAssumption, TypeInv, TypeOK, Lease, Key
<1>2. CASE RetryDelivery(l, now)
  <2> DEFINE row == Released(l.key.sub, deliveries[l.key], l.attempt, now)
  <2>1. /\ row \in Delivery /\ row.state # "leased"
        /\ row.attempts = deliveries[l.key].attempts
        /\ row.snapshot = deliveries[l.key].snapshot
    <3> DEFINE s == l.key.sub
               old == deliveries[l.key]
               attempt == l.attempt
    <3>1. s \in Subscriptions /\ old \in Delivery /\ attempt \in Nat /\ now \in Nat
      BY <1>1
    <3> HIDE DEF s, old, attempt
    <3>2. /\ Released(s, old, attempt, now) \in Delivery
          /\ Released(s, old, attempt, now).state \in {"queued", "dead_lettered"}
          /\ Released(s, old, attempt, now).attempts = old.attempts
          /\ Released(s, old, attempt, now).snapshot = old.snapshot
      BY <3>1, ReleasedType
    <3>3. row = Released(s, old, attempt, now)
      BY DEF s, old, attempt
    <3> HIDE DEF row
    <3> QED BY <3>2, <3>3 DEF old
  <2>2. deliveries[l.key].state = "leased" /\ Close(l, row)
    BY <1>2 DEF RetryDelivery, Current
  <2> HIDE DEF row
  <2> QED BY <2>1, <2>2, CloseStep DEF Close
<1>3. CASE BlockDelivery(l, now)
  <2> DEFINE row == [deliveries[l.key] EXCEPT !.state = "blocked",
                                              !.token = 0, !.expires = 0]
  <2>1. /\ row \in Delivery /\ row.state # "leased"
        /\ row.attempts = deliveries[l.key].attempts
        /\ row.snapshot = deliveries[l.key].snapshot
    BY <1>1 DEF Delivery, DeliveryStates
  <2>2. deliveries[l.key].state = "leased" /\ Close(l, row)
    BY <1>3 DEF BlockDelivery, Current
  <2> HIDE DEF row
  <2> QED BY <2>1, <2>2, CloseStep DEF Close
<1>4. ASSUME NEW outcome \in Outcomes, SettleDelivery(l, outcome, now)
      PROVE  RowsKept /\ leases' = leases /\ closed' = closed \cup {l}
  <2> DEFINE row == [deliveries[l.key] EXCEPT !.state = outcome,
                                              !.token = 0, !.expires = 0]
  <2>1. /\ row \in Delivery /\ row.state # "leased"
        /\ row.attempts = deliveries[l.key].attempts
        /\ row.snapshot = deliveries[l.key].snapshot
    BY <1>1 DEF Delivery, DeliveryStates, Outcomes, Advancing
  <2>2. deliveries[l.key].state = "leased" /\ Close(l, row)
    BY <1>4 DEF SettleDelivery, Current
  <2> HIDE DEF row
  <2> QED BY <2>1, <2>2, CloseStep DEF Close
<1> QED
  BY <1>2, <1>3, <1>4

-----------------------------------------------------------------------------
(* The type invariant *)

LEMMA TypeAdded ==
    ASSUME TypeInv, LedgerGrows, RowsAdded,
           subscriptions \subseteq subscriptions',
           subscriptions' \subseteq Subscriptions,
           enabled' \subseteq subscriptions',
           leases' = leases, closed' = closed
    PROVE  TypeInv'
<1>1. \A k \in DOMAIN deliveries :
        /\ k \in Key /\ deliveries[k] \in Delivery /\ k.sub \in subscriptions
        /\ k.version \in 1..records[k.record].version
        /\ deliveries[k].state = "leased" => deliveries[k].attempts > 0
  BY DEF TypeInv, TypeOK
<1>2. ASSUME NEW k \in DOMAIN deliveries'
      PROVE  /\ k \in Key /\ deliveries'[k] \in Delivery /\ k.sub \in subscriptions'
             /\ k.version \in 1..records'[k.record].version
             /\ deliveries'[k].state = "leased" => deliveries'[k].attempts > 0
  <2>1. CASE k \in DOMAIN deliveries
    <3>1. /\ k.record \in Records /\ records[k.record].version \in Nat
          /\ records'[k.record].version \in Nat
          /\ records'[k.record].version >= records[k.record].version
      BY <1>1, <2>1 DEF Key, LedgerGrows, LedgerInv, LedgerTypeOK, RecordRow, TypeInv
    <3>2. k.version \in 1..records'[k.record].version
      BY <1>1, <2>1, <3>1
    <3> QED BY <1>1, <2>1, <3>2 DEF RowsAdded
  <2>2. CASE k \notin DOMAIN deliveries
    BY <2>2 DEF RowsAdded
  <2> QED BY <2>1, <2>2
<1>3. LedgerInv' /\ LedgerTypeOK'
  BY DEF LedgerGrows, LedgerInv
<1>4. /\ leases' \subseteq Lease /\ IsFiniteSet(leases') /\ closed' \subseteq leases'
      /\ \A l \in leases' : l.key \in DOMAIN deliveries'
  BY DEF TypeInv, TypeOK, RowsAdded
<1>5. DOMAIN deliveries' \subseteq Key
  BY <1>2
<1> QED
  BY <1>2, <1>3, <1>4, <1>5 DEF TypeInv, TypeOK

LEMMA TypeKept ==
    ASSUME TypeInv, UNCHANGED <<records, events, subscriptions, enabled>>, RowsKept,
           leases' \subseteq Lease, IsFiniteSet(leases'), closed' \subseteq leases',
           \A l \in leases' : l.key \in DOMAIN deliveries
    PROVE  TypeInv'
<1>1. LedgerInv' /\ LedgerTypeOK'
  BY LedgerStutterGrows DEF TypeInv, LedgerGrows, LedgerInv
<1>2. /\ DOMAIN deliveries' = DOMAIN deliveries
      /\ \A k \in DOMAIN deliveries' :
          /\ deliveries'[k] \in Delivery
          /\ deliveries'[k].state = "leased" => deliveries'[k].attempts > 0
  BY DEF RowsKept
<1>3. /\ DOMAIN deliveries \subseteq Key
      /\ subscriptions \subseteq Subscriptions /\ enabled \subseteq subscriptions
      /\ \A k \in DOMAIN deliveries :
          k.sub \in subscriptions /\ k.version \in 1..records[k.record].version
  BY DEF TypeInv, TypeOK
<1> QED
  BY <1>1, <1>2, <1>3 DEF TypeInv, TypeOK

LEMMA InitType == DeliveryInit => TypeInv
<1> SUFFICES ASSUME DeliveryInit PROVE TypeInv
  OBVIOUS
<1> USE DEF DeliveryInit, LedgerInit
<1>1. NoRecord \in RecordRow
  BY DEF NoRecord, RecordRow
<1>2. LedgerInv
  BY <1>1, LedgerAssumption
  DEF LedgerAssumption, LedgerInv, LedgerTypeOK, NoRecord
<1>3. IsFiniteSet(leases)
  BY FS_EmptySet
<1> QED
  BY <1>2, <1>3 DEF TypeInv, TypeOK, LedgerInv

\* Every step adds rows or keeps them, and moves the other variables legally.
LEMMA NextType ==
    ASSUME TypeInv, Next
    PROVE  TypeInv' /\ (RowsAdded \/ RowsKept)
<1> USE DEF TypeInv
<1>1. ASSUME NEW r \in Records, RecordTombstone(r)
      PROVE  TypeInv' /\ RowsAdded
  <2>1. LedgerStep
    BY <1>1, TombstoneStep, LedgerAssumption DEF RecordTombstone
  <2>2. /\ EnqueueAppended
        /\ UNCHANGED <<subscriptions, enabled, leases, closed>>
    BY <1>1 DEF RecordTombstone
  <2>3. RowsAdded /\ LedgerGrows
    BY <2>1, <2>2, EnqueueStep, LedgerStepGrows
  <2> QED BY <2>2, <2>3, TypeAdded DEF TypeOK
<1>2. ASSUME NEW r \in Records, NEW location \in Locations, NEW revision \in Revisions,
             Observe(r, location, revision)
      PROVE  TypeInv' /\ RowsAdded
  <2>1. LedgerStep
    BY <1>2, ObserveStep, LedgerAssumption DEF Observe
  <2>2. /\ EnqueueAppended
        /\ UNCHANGED <<subscriptions, enabled, leases, closed>>
    BY <1>2 DEF Observe
  <2>3. RowsAdded /\ LedgerGrows
    BY <2>1, <2>2, EnqueueStep, LedgerStepGrows
  <2> QED BY <2>2, <2>3, TypeAdded DEF TypeOK
<1>3. ASSUME NEW s \in Subscriptions, CreateSubscription(s)
      PROVE  TypeInv' /\ RowsAdded
  <2>1. /\ UNCHANGED <<records, events, leases, closed>>
        /\ subscriptions' = subscriptions \cup {s}
        /\ enabled' = enabled \cup {s}
    BY <1>3 DEF CreateSubscription
  <2>2. RowsAdded /\ LedgerGrows
    BY <1>3, <2>1, CreateStep, LedgerStutterGrows
  <2>3. subscriptions \subseteq Subscriptions /\ enabled \subseteq subscriptions
    BY DEF TypeOK
  <2> QED BY <2>1, <2>2, <2>3, TypeAdded
<1>4. ASSUME NEW s \in Subscriptions, NEW on \in BOOLEAN, SetEnabled(s, on)
      PROVE  TypeInv' /\ RowsAdded
  <2>1. /\ UNCHANGED <<records, events, subscriptions, deliveries, leases, closed>>
        /\ enabled' \subseteq subscriptions
    BY <1>4 DEF SetEnabled, TypeOK
  <2>2. RowsAdded
    BY <2>1 DEF RowsAdded
  <2>3. LedgerGrows
    BY <2>1, LedgerStutterGrows
  <2> QED BY <2>1, <2>2, <2>3, TypeAdded DEF TypeOK
<1>5. ASSUME NEW s \in Subscriptions, NEW now \in Times, LeaseNone(s, now)
      PROVE  TypeInv' /\ RowsKept
  <2>1. UNCHANGED <<records, events, subscriptions, enabled, leases, closed>>
    BY <1>5 DEF LeaseNone
  <2>2. RowsKept
    BY <1>5, LeaseNoneStep
  <2> QED BY <2>1, <2>2, TypeKept DEF TypeOK
<1>6. ASSUME NEW s \in Subscriptions, NEW now \in Times, NEW duration \in Durations,
             LeaseNext(s, now, duration)
      PROVE  TypeInv' /\ RowsKept
  <2>1. UNCHANGED <<records, events, subscriptions, enabled, closed>>
    BY <1>6 DEF LeaseNext
  <2>2. RowsKept
    BY <1>6, LeaseNextStep
  <2>3. PICK k \in DOMAIN deliveries :
            leases' = leases \cup
                {[key |-> k, token |-> FreshToken(k),
                  attempt |-> deliveries[k].attempts + 1,
                  expires |-> now + duration]}
    BY <1>6, LeaseNextStep
  <2>4. now + duration \in Nat
    BY DeliveryAssumption DEF DeliveryAssumption
  <2>5. deliveries[k].attempts + 1 \in Nat /\ k \in Key
    BY DEF TypeOK, Delivery
  <2>6. FreshToken(k) \in Nat
    <3>1. IsFiniteSet(LeasesOf(k))
      BY FS_Subset DEF LeasesOf, TypeOK
    <3> QED BY <3>1, FS_CardinalityType DEF FreshToken
  <2>7. leases' \subseteq Lease /\ \A l \in leases' : l.key \in DOMAIN deliveries
    BY <2>3, <2>4, <2>5, <2>6 DEF TypeOK, Lease
  <2>8. IsFiniteSet(leases') /\ closed' \subseteq leases'
    BY <2>1, <2>3, FS_AddElement DEF TypeOK
  <2> QED BY <2>1, <2>2, <2>7, <2>8, TypeKept
<1>7. ASSUME NEW l \in leases, NEW now \in Times,
             \/ RetryDelivery(l, now)
             \/ BlockDelivery(l, now)
             \/ \E outcome \in Outcomes : SettleDelivery(l, outcome, now)
      PROVE  TypeInv' /\ RowsKept
  <2>1. RowsKept /\ leases' = leases /\ closed' = closed \cup {l}
    BY <1>7, ClosingStep
  <2>2. UNCHANGED <<records, events, subscriptions, enabled>>
    BY <1>7 DEF RetryDelivery, BlockDelivery, SettleDelivery, Close
  <2> QED BY <2>1, <2>2, TypeKept DEF TypeOK
<1> QED
  BY <1>1, <1>2, <1>3, <1>4, <1>5, <1>6, <1>7 DEF Next

LEMMA StutterType ==
    ASSUME TypeInv, UNCHANGED vars
    PROVE  TypeInv'
BY DEF vars, TypeInv, TypeOK, LedgerInv, LedgerTypeOK

LEMMA TypeInvariant == Spec => []TypeInv
<1>1. DeliveryInit => TypeInv
  BY InitType
<1>2. TypeInv /\ [Next]_vars => TypeInv'
  BY NextType, StutterType
<1> QED
  BY <1>1, <1>2, PTL DEF Spec

\* The types of every variable are kept, every delivery belongs to a created
\* subscription and to a version its record has, and every lease in a
\* caller's hands is for a row of the table.
THEOREM TypeCorrect == Spec => []TypeOK
<1>1. TypeInv => TypeOK
  BY DEF TypeInv
<1> QED
  BY <1>1, TypeInvariant, PTL

-----------------------------------------------------------------------------
(* The order of a record's deliveries *)

LEMMA OrderAdded ==
    ASSUME TypeInv, RecordOrder, RowsAdded
    PROVE  RecordOrder'
<1> SUFFICES ASSUME NEW k \in DOMAIN deliveries', deliveries'[k].attempts > 0,
                    NEW j \in Earlier(deliveries', k)
             PROVE  deliveries'[j].state \in Advancing
  BY DEF RecordOrder
<1>1. /\ j \in DOMAIN deliveries' /\ j.sub = k.sub /\ j.record = k.record
      /\ j.version < k.version
  BY DEF Earlier
<1>2. k \in DOMAIN deliveries /\ deliveries'[k] = deliveries[k]
  BY DEF RowsAdded
<1>3. k \in Key /\ k.version \in Nat
  BY <1>2 DEF TypeInv, TypeOK, Key
<1>4. j \in DOMAIN deliveries
  <2> SUFFICES ASSUME j \notin DOMAIN deliveries PROVE FALSE
    OBVIOUS
  <2>1. j \in Key /\ k.version < j.version
    BY <1>1, <1>2 DEF RowsAdded
  <2>2. j.version \in Nat
    BY <2>1 DEF Key
  <2> QED BY <1>1, <1>3, <2>1, <2>2
<1>5. deliveries[j].state \in Advancing
  BY <1>1, <1>2, <1>4 DEF RecordOrder, Earlier
<1> QED
  BY <1>4, <1>5 DEF RowsAdded

LEMMA OrderKept ==
    ASSUME TypeInv, RecordOrder, RowsKept
    PROVE  RecordOrder'
<1> SUFFICES ASSUME NEW k \in DOMAIN deliveries', deliveries'[k].attempts > 0,
                    NEW j \in Earlier(deliveries', k)
             PROVE  deliveries'[j].state \in Advancing
  BY DEF RecordOrder
<1>1. k \in DOMAIN deliveries /\ j \in Earlier(deliveries, k) /\ j \in DOMAIN deliveries
  BY DEF RowsKept, Earlier
<1>2. deliveries[j].state \in Advancing
  BY <1>1 DEF RowsKept, RecordOrder
<1> QED
  BY <1>1, <1>2 DEF RowsKept, Final, Outcomes

OrderInv == TypeInv /\ RecordOrder

LEMMA OrderInvariant == Spec => []OrderInv
<1>1. DeliveryInit => OrderInv
  BY InitType DEF OrderInv, RecordOrder, DeliveryInit
<1>2. OrderInv /\ [Next]_vars => OrderInv'
  <2>1. ASSUME OrderInv, Next PROVE OrderInv'
    BY <2>1, NextType, OrderAdded, OrderKept DEF OrderInv
  <2>2. ASSUME OrderInv, UNCHANGED vars PROVE OrderInv'
    BY <2>2, StutterType DEF OrderInv, RecordOrder, Earlier, vars
  <2> QED BY <2>1, <2>2
<1> QED
  BY <1>1, <1>2, PTL DEF Spec

\* For every set of subscriptions and policies, whatever the callers' clocks
\* say: a delivery was handed out only if every earlier version of its record
\* is acknowledged, superseded or ignored by policy in that subscription.
THEOREM RecordOrdered == Spec => []RecordOrder
<1>1. OrderInv => RecordOrder
  BY DEF OrderInv
<1> QED
  BY <1>1, OrderInvariant, PTL

\* No row is ever removed, and a settled, dead-lettered or blocked row never
\* changes.
THEOREM FinalRows == Spec => SettledIsFinal
<1> DEFINE A == \A k \in DOMAIN deliveries :
            /\ k \in DOMAIN deliveries'
            /\ deliveries[k].state \in Outcomes \cup {"blocked"} =>
                   deliveries'[k] = deliveries[k]
<1>1. TypeInv /\ [Next]_vars => [A]_vars
  <2> SUFFICES ASSUME TypeInv, Next PROVE A
    OBVIOUS
  <2>1. CASE RowsAdded
    BY <2>1 DEF RowsAdded
  <2>2. CASE RowsKept
    BY <2>2 DEF RowsKept, Final
  <2> QED BY <2>1, <2>2, NextType
<1> QED
  BY <1>1, TypeInvariant, PTL DEF Spec, SettledIsFinal

-----------------------------------------------------------------------------
(* One open lease per record *)

\* The tokens of a row's leases are distinct and counted by the leases.
TokenInv ==
    /\ \A l \in leases : l.token \in 1..Cardinality(LeasesOf(l.key))
    /\ \A l, m \in leases : l.key = m.key /\ l.token = m.token => l = m

LEMMA TokenGrant ==
    ASSUME TypeInv, TokenInv,
           NEW k \in DOMAIN deliveries, NEW attempt \in Nat, NEW expires \in Nat,
           leases' = leases \cup
               {[key |-> k, token |-> FreshToken(k),
                 attempt |-> attempt, expires |-> expires]}
    PROVE  TokenInv'
<1> DEFINE l0 == [key |-> k, token |-> FreshToken(k),
                  attempt |-> attempt, expires |-> expires]
<1>1. \A q : IsFiniteSet(LeasesOf(q)) /\ Cardinality(LeasesOf(q)) \in Nat
  BY FS_Subset, FS_CardinalityType DEF LeasesOf, TypeInv, TypeOK
<1>2. l0.key = k /\ l0.token = Cardinality(LeasesOf(k)) + 1
  <2>1. l0.key = k /\ l0.token = 1 + Cardinality(LeasesOf(k))
    BY DEF FreshToken
  <2> HIDE DEF l0
  <2> QED BY <1>1, <2>1
<1> HIDE DEF l0
<1>3. leases' = leases \cup {l0}
  BY DEF l0
<1>4. \A l \in leases : l.key = k => l.token # l0.token
  <2> SUFFICES ASSUME NEW l \in leases, l.key = k
               PROVE  l.token # Cardinality(LeasesOf(k)) + 1
    BY <1>2
  <2>1. l.token \in 1..Cardinality(LeasesOf(k)) /\ Cardinality(LeasesOf(k)) \in Nat
    BY <1>1 DEF TokenInv
  <2> QED BY <2>1
<1>5. Cardinality(LeasesOf(k)') = Cardinality(LeasesOf(k)) + 1
  <2>1. LeasesOf(k)' = LeasesOf(k) \cup {l0}
    BY <1>2, <1>3 DEF LeasesOf
  <2>2. l0 \notin LeasesOf(k)
    BY <1>4 DEF LeasesOf
  <2> QED BY <1>1, <2>1, <2>2, FS_AddElement
<1>6. \A q : q # k => LeasesOf(q)' = LeasesOf(q)
  BY <1>2, <1>3 DEF LeasesOf
<1>7. ASSUME NEW l \in leases'
      PROVE  l.token \in 1..Cardinality(LeasesOf(l.key)')
  <2>1. CASE l = l0
    <3>1. Cardinality(LeasesOf(k)) \in Nat
      BY <1>1
    <3>2. l.key = k /\ l.token = Cardinality(LeasesOf(k)')
      BY <1>2, <1>5, <2>1
    <3>3. Cardinality(LeasesOf(k)') \in Nat \ {0}
      BY <1>5, <3>1
    <3> QED BY <3>2, <3>3
  <2>2. CASE l \in leases /\ l.key = k
    <3>1. l.token \in 1..Cardinality(LeasesOf(k)) /\ Cardinality(LeasesOf(k)) \in Nat
      BY <1>1, <2>2 DEF TokenInv
    <3>2. l.token \in 1..Cardinality(LeasesOf(k)')
      BY <1>5, <3>1
    <3> QED BY <2>2, <3>2
  <2>3. CASE l \in leases /\ l.key # k
    <3>1. LeasesOf(l.key)' = LeasesOf(l.key)
      BY <1>6, <2>3
    <3> QED BY <2>3, <3>1 DEF TokenInv
  <2> QED BY <1>3, <2>1, <2>2, <2>3
<1>8. \A l, m \in leases' : l.key = m.key /\ l.token = m.token => l = m
  BY <1>2, <1>3, <1>4 DEF TokenInv
<1> QED
  BY <1>7, <1>8 DEF TokenInv

LEMMA TokenStutter ==
    ASSUME TokenInv, leases' = leases
    PROVE  TokenInv'
BY DEF TokenInv, LeasesOf

LEMMA TokenNext ==
    ASSUME TypeInv, TokenInv, Next
    PROVE  TokenInv'
<1>1. ASSUME NEW s \in Subscriptions, NEW now \in Times, NEW duration \in Durations,
             LeaseNext(s, now, duration)
      PROVE  TokenInv'
  <2>1. PICK k \in DOMAIN deliveries :
            leases' = leases \cup
                {[key |-> k, token |-> FreshToken(k),
                  attempt |-> deliveries[k].attempts + 1,
                  expires |-> now + duration]}
    BY <1>1, LeaseNextStep
  <2>2. now + duration \in Nat
    BY DeliveryAssumption DEF DeliveryAssumption
  <2>3. deliveries[k].attempts + 1 \in Nat
    BY DEF TypeInv, TypeOK, Delivery
  <2> QED BY <2>1, <2>2, <2>3, TokenGrant
<1>2. CASE leases' = leases
  BY <1>2, TokenStutter
<1>3. \/ leases' = leases
      \/ \E s \in Subscriptions, now \in Times, duration \in Durations :
            LeaseNext(s, now, duration)
  BY DEF Next, RecordTombstone, Observe, CreateSubscription, SetEnabled, LeaseNone,
         RetryDelivery, BlockDelivery, SettleDelivery, Close
<1> QED
  BY <1>1, <1>2, <1>3

LEMMA ExclusiveFromInv ==
    ASSUME OrderInv, TokenInv
    PROVE  LeaseExclusive
<1> SUFFICES ASSUME NEW l \in leases, NEW m \in leases, Open(l), Open(m),
                    l.key.sub = m.key.sub, l.key.record = m.key.record
             PROVE  l = m
  BY DEF LeaseExclusive
<1>1. /\ l.key \in DOMAIN deliveries /\ m.key \in DOMAIN deliveries
      /\ l.key \in Key /\ m.key \in Key
  BY DEF OrderInv, TypeInv, TypeOK
<1>2. /\ deliveries[l.key].state = "leased" /\ deliveries[l.key].attempts > 0
      /\ deliveries[m.key].state = "leased" /\ deliveries[m.key].attempts > 0
  BY <1>1 DEF Open, OrderInv, TypeInv
<1>3. ASSUME NEW j \in DOMAIN deliveries, NEW k \in DOMAIN deliveries,
             deliveries[j].state = "leased", deliveries[k].attempts > 0,
             j.sub = k.sub, j.record = k.record
      PROVE  ~(j.version < k.version)
  <2>1. "leased" \notin Advancing
    BY DEF Advancing
  <2> QED BY <1>3, <2>1 DEF OrderInv, RecordOrder, Earlier
<1>4. l.key.version = m.key.version
  <2>1. l.key.version \in Nat /\ m.key.version \in Nat
    BY <1>1 DEF Key
  <2>2. ~(l.key.version < m.key.version) /\ ~(m.key.version < l.key.version)
    BY <1>1, <1>2, <1>3
  <2> QED BY <2>1, <2>2
<1>5. l.key = m.key
  BY <1>1, <1>4 DEF Key
<1>6. l.token = m.token
  BY <1>5 DEF Open
<1> QED
  BY <1>5, <1>6 DEF TokenInv

\* Of all leases ever granted, at most one per subscription and record is
\* open, for every number of consumers, retries and re-leases.
THEOREM LeasesExclusive == Spec => []LeaseExclusive
<1>1. DeliveryInit => TokenInv
  BY DEF DeliveryInit, TokenInv
<1>2. TypeInv /\ TokenInv /\ [Next]_vars => TokenInv'
  BY TokenNext, TokenStutter DEF vars
<1>3. OrderInv /\ TokenInv => LeaseExclusive
  BY ExclusiveFromInv
<1> QED
  BY <1>1, <1>2, <1>3, TypeInvariant, OrderInvariant, PTL DEF Spec
=============================================================================
