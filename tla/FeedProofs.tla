----------------------------- MODULE FeedProofs -----------------------------
(***************************************************************************)
(* Delivery implements RecordFeed for every value of the constants: the    *)
(* initial states map to initial states, and every step to a step or a     *)
(* stutter.                                                                *)
(***************************************************************************)
EXTENDS DeliveryFeed, DeliveryProofs

\* All the earlier versions of a row advance their record.
First(k) == \A j \in Earlier(deliveries, k) : deliveries[j].state \in Advancing

LEMMA FeedRows ==
    ASSUME TypeInv
    PROVE  /\ \A k \in DOMAIN deliveries :
               /\ k \in Key /\ FeedOf(k) \in AllFeeds /\ k.version \in Nat
               /\ deliveries[k].state \in DeliveryStates
           /\ \A j, k \in DOMAIN deliveries :
               /\ FeedOf(j) = FeedOf(k) <=> j.sub = k.sub /\ j.record = k.record
               /\ FeedOf(j) = FeedOf(k) /\ j.version = k.version => j = k
<1>1. \A k \in DOMAIN deliveries : k \in Key /\ deliveries[k] \in Delivery
  BY DEF TypeInv, TypeOK
<1>2. \A k \in DOMAIN deliveries :
        /\ FeedOf(k) \in AllFeeds /\ k.version \in Nat
        /\ deliveries[k].state \in DeliveryStates
  BY <1>1 DEF Key, FeedOf, AllFeeds, Delivery
<1>3. \A j, k \in Key :
        /\ FeedOf(j) = FeedOf(k) <=> j.sub = k.sub /\ j.record = k.record
        /\ FeedOf(j) = FeedOf(k) /\ j.version = k.version => j = k
  BY DEF Key, FeedOf
<1> QED
  BY <1>1, <1>2, <1>3

LEMMA VersionsInMember ==
    \A f, states, v :
        v \in VersionsIn(f, states) <=>
            \E k \in DOMAIN deliveries :
                /\ FeedOf(k) = f
                /\ k.version = v
                /\ deliveries[k].state \in states
BY DEF VersionsIn

\* A row whose turn it is and which is not settled is the first of its feed.
LEMMA FirstVersion ==
    ASSUME TypeInv, NEW k \in DOMAIN deliveries, First(k),
           deliveries[k].state \notin Advancing
    PROVE  Feed!First(FeedOf(k)) = {k.version}
<1> DEFINE f == FeedOf(k)
           waiting == VersionsIn(f, DeliveryStates) \ VersionsIn(f, Advancing)
<1>1. f \in AllFeeds
  BY FeedRows
<1>2. Feed!First(f) = {v \in waiting : \A w \in waiting : v <= w}
  BY <1>1 DEF Feed!First, Feed!OpenVersions, publishedVersions, doneVersions
<1>3. k.version \in waiting
  <2>1. k.version \in VersionsIn(f, DeliveryStates)
    BY FeedRows, VersionsInMember
  <2>2. k.version \notin VersionsIn(f, Advancing)
    <3> SUFFICES ASSUME k.version \in VersionsIn(f, Advancing) PROVE FALSE
      OBVIOUS
    <3>1. PICK j \in DOMAIN deliveries :
              /\ FeedOf(j) = f /\ j.version = k.version
              /\ deliveries[j].state \in Advancing
      BY VersionsInMember
    <3>2. j = k
      BY <3>1, FeedRows
    <3> QED BY <3>1, <3>2
  <2> QED BY <2>1, <2>2
<1>4. ASSUME NEW w \in waiting
      PROVE  w \in Nat /\ k.version <= w
  <2>1. PICK j \in DOMAIN deliveries : FeedOf(j) = f /\ j.version = w
    BY VersionsInMember
  <2>2. deliveries[j].state \notin Advancing
    BY <2>1, VersionsInMember
  <2>3. j \notin Earlier(deliveries, k)
    BY <2>2 DEF First
  <2>4. ~(j.version < k.version)
    BY <2>1, <2>3, FeedRows DEF Earlier
  <2>5. j.version \in Nat /\ k.version \in Nat
    BY FeedRows
  <2> QED BY <2>1, <2>4, <2>5
<1> HIDE DEF waiting, f
<1>5. \A v \in waiting : (\A w \in waiting : v <= w) => v = k.version
  BY <1>3, <1>4
<1> QED
  BY <1>2, <1>3, <1>4, <1>5 DEF f

\* Nobody else works on a feed whose first open row is k.
LEMMA AloneAtWork ==
    ASSUME OrderInv, NEW j \in DOMAIN deliveries, NEW k \in DOMAIN deliveries,
           FeedOf(j) = FeedOf(k), deliveries[j].state = "leased",
           First(k), deliveries[k].state \notin Advancing
    PROVE  j = k
<1>1. TypeInv /\ RecordOrder
  BY DEF OrderInv
<1>2. j.sub = k.sub /\ j.record = k.record /\ j.version \in Nat /\ k.version \in Nat
  BY <1>1, FeedRows
<1>3. deliveries[j].attempts > 0
  BY <1>1 DEF TypeInv
<1>4. ~(k.version < j.version)
  BY <1>1, <1>2, <1>3 DEF RecordOrder, Earlier
<1>5. ~(j.version < k.version)
  BY <1>2 DEF First, Earlier, Advancing
<1>6. j.version = k.version
  BY <1>2, <1>4, <1>5
<1> QED
  BY <1>1, <1>6, FeedRows

LEMMA LeasedIsFirst ==
    ASSUME OrderInv, NEW k \in DOMAIN deliveries, deliveries[k].state = "leased"
    PROVE  First(k) /\ deliveries[k].state \notin Advancing
BY DEF OrderInv, TypeInv, RecordOrder, First, Advancing

-----------------------------------------------------------------------------
(* Rows that only change state *)

LEMMA SamePublished ==
    ASSUME TypeInv, TypeInv', DOMAIN deliveries' = DOMAIN deliveries
    PROVE  publishedVersions' = publishedVersions
<1>1. \A k \in DOMAIN deliveries : deliveries[k].state \in DeliveryStates
  BY FeedRows
<1>2. \A k \in DOMAIN deliveries : deliveries'[k].state \in DeliveryStates
  BY DEF TypeInv, TypeOK, Delivery
<1>3. \A f \in AllFeeds : VersionsIn(f, DeliveryStates)' = VersionsIn(f, DeliveryStates)
  BY <1>1, <1>2 DEF VersionsIn, FeedOf
<1> QED
  BY <1>3 DEF publishedVersions

LEMMA SameVersions ==
    ASSUME DOMAIN deliveries' = DOMAIN deliveries, NEW f, NEW states,
           \A k \in DOMAIN deliveries :
               FeedOf(k) = f =>
                   (deliveries'[k].state \in states <=> deliveries[k].state \in states)
    PROVE  VersionsIn(f, states)' = VersionsIn(f, states)
BY DEF VersionsIn, FeedOf

\* Leased rows are given up, and at most one row is taken.
LEMMA TurnStep ==
    ASSUME OrderInv, TypeInv', DOMAIN deliveries' = DOMAIN deliveries,
           NEW T \in SUBSET DOMAIN deliveries,
           T = {} \/ \E k \in T : T = {k},
           \A j \in DOMAIN deliveries \ T :
               \/ deliveries'[j].state = deliveries[j].state
               \/ /\ deliveries[j].state = "leased"
                  /\ deliveries'[j].state \in {"queued"} \cup BarredStates,
           \A k \in T :
               /\ deliveries[k].state \in {"queued", "leased"}
               /\ deliveries'[k].state = "leased"
               /\ First(k)
    PROVE  Feed!Next
<1> DEFINE back == {f \in AllFeeds : \E j \in DOMAIN deliveries :
                       /\ FeedOf(j) = f /\ deliveries[j].state = "leased"
                       /\ j \in T \/ deliveries'[j].state # "leased"}
           stop == {f \in AllFeeds : \E j \in DOMAIN deliveries :
                       /\ FeedOf(j) = f /\ deliveries[j].state = "leased"
                       /\ deliveries'[j].state \in BarredStates}
           take == {FeedOf(k) : k \in T}
<1>1. TypeInv
  BY DEF OrderInv
<1>2. \A f : f \in busyFeeds <=>
        /\ f \in AllFeeds
        /\ \E j \in DOMAIN deliveries : FeedOf(j) = f /\ deliveries[j].state = "leased"
  BY VersionsInMember DEF busyFeeds
<1>3. \A f : f \in busyFeeds' <=>
        /\ f \in AllFeeds
        /\ \E j \in DOMAIN deliveries : FeedOf(j) = f /\ deliveries'[j].state = "leased"
  BY DEF busyFeeds, VersionsIn, FeedOf
<1>4. back \subseteq busyFeeds
  BY <1>2
<1>5. stop \subseteq back
  BY DEF BarredStates
<1>6. take \in {{}} \cup {{f} : f \in AllFeeds}
  BY <1>1, FeedRows
<1>7. \A k \in T : /\ deliveries[k].state \notin Advancing
                   /\ deliveries[k].state \notin BarredStates
                   /\ deliveries'[k].state \notin BarredStates
                   /\ deliveries'[k].state \notin Advancing
  BY DEF Advancing, BarredStates
<1>8. barredVersions' = [f \in AllFeeds |-> IF f \in stop
                            THEN barredVersions[f] \cup Feed!First(f)
                            ELSE barredVersions[f]]
  <2>1. ASSUME NEW f \in AllFeeds, f \in stop
        PROVE  VersionsIn(f, BarredStates)' =
                   VersionsIn(f, BarredStates) \cup Feed!First(f)
    <3>1. PICK j \in DOMAIN deliveries :
              /\ FeedOf(j) = f /\ deliveries[j].state = "leased"
              /\ deliveries'[j].state \in BarredStates
      BY <2>1
    <3>2. First(j) /\ deliveries[j].state \notin Advancing
      BY <3>1, LeasedIsFirst
    <3>3. Feed!First(f) = {j.version}
      BY <1>1, <3>1, <3>2, FirstVersion
    <3>4. \A i \in DOMAIN deliveries :
              FeedOf(i) = f /\ deliveries[i].state = "leased" => i = j
      BY <3>1, <3>2, AloneAtWork
    <3>5. \A i \in DOMAIN deliveries : FeedOf(i) = f =>
              (deliveries'[i].state \in BarredStates <=>
                   deliveries[i].state \in BarredStates \/ i = j)
      BY <1>7, <3>1, <3>4 DEF BarredStates
    <3>6. \A v : v \in VersionsIn(f, BarredStates)' <=>
              \E i \in DOMAIN deliveries :
                  /\ FeedOf(i) = f /\ i.version = v
                  /\ deliveries'[i].state \in BarredStates
      BY DEF VersionsIn, FeedOf
    <3> QED
      BY <3>1, <3>3, <3>5, <3>6, VersionsInMember
  <2>2. ASSUME NEW f \in AllFeeds, f \notin stop
        PROVE  VersionsIn(f, BarredStates)' = VersionsIn(f, BarredStates)
    <3>1. \A i \in DOMAIN deliveries : FeedOf(i) = f =>
              (deliveries'[i].state \in BarredStates <=>
                   deliveries[i].state \in BarredStates)
      BY <1>7, <2>2 DEF BarredStates
    <3> QED BY <3>1, SameVersions
  <2> HIDE DEF stop
  <2> QED BY <2>1, <2>2 DEF barredVersions
<1>9. doneVersions' = doneVersions
  <2>1. ASSUME NEW f \in AllFeeds
        PROVE  VersionsIn(f, Advancing)' = VersionsIn(f, Advancing)
    <3>1. \A i \in DOMAIN deliveries :
            (deliveries'[i].state \in Advancing <=> deliveries[i].state \in Advancing)
      BY <1>7 DEF Advancing, BarredStates
    <3> QED BY <3>1, SameVersions
  <2> QED BY <2>1 DEF doneVersions
<1>10. publishedVersions' = publishedVersions
  BY <1>1, SamePublished
<1>11. busyFeeds' = (busyFeeds \ back) \cup take
  <2>1. ASSUME NEW f \in busyFeeds' PROVE f \in (busyFeeds \ back) \cup take
    <3>1. PICK i \in DOMAIN deliveries : FeedOf(i) = f /\ deliveries'[i].state = "leased"
      BY <1>3, <2>1
    <3>2. CASE i \in T
      BY <3>1, <3>2
    <3>3. CASE i \notin T
      <4>1. deliveries[i].state = "leased"
        BY <3>1, <3>3 DEF BarredStates
      <4>2. First(i) /\ deliveries[i].state \notin Advancing
        BY <4>1, LeasedIsFirst
      <4>3. \A j \in DOMAIN deliveries :
                FeedOf(j) = f /\ deliveries[j].state = "leased" => j = i
        BY <3>1, <4>2, AloneAtWork
      <4> QED BY <1>2, <1>3, <3>1, <3>3, <4>1, <4>3
    <3> QED BY <3>2, <3>3
  <2>2. ASSUME NEW f \in busyFeeds \ back PROVE f \in busyFeeds'
    BY <1>2, <1>3
  <2>3. ASSUME NEW f \in take PROVE f \in busyFeeds'
    BY <1>1, <1>3, FeedRows
  <2> QED BY <2>1, <2>2, <2>3
<1>12. ASSUME NEW f \in take
       PROVE  /\ f \notin busyFeeds \ back
              /\ Feed!First(f) # {}
              /\ Feed!First(f) \cap barredVersions'[f] = {}
  <2>1. PICK k \in T : f = FeedOf(k)
    BY <1>12
  <2>2. First(k) /\ deliveries[k].state \notin Advancing /\ f \in AllFeeds
    BY <1>1, <1>7, <2>1, FeedRows
  <2>3. Feed!First(f) = {k.version}
    BY <1>1, <2>1, <2>2, FirstVersion
  <2>4. f \notin busyFeeds \ back
    <3>1. \A j \in DOMAIN deliveries :
              FeedOf(j) = f /\ deliveries[j].state = "leased" => j = k
      BY <2>1, <2>2, AloneAtWork
    <3> QED BY <1>2, <2>1, <3>1
  <2>5. k.version \notin barredVersions'[f]
    <3> SUFFICES ASSUME k.version \in VersionsIn(f, BarredStates)' PROVE FALSE
      BY <2>2 DEF barredVersions
    <3>1. PICK i \in DOMAIN deliveries :
              /\ FeedOf(i) = f /\ i.version = k.version
              /\ deliveries'[i].state \in BarredStates
      BY DEF VersionsIn, FeedOf
    <3>2. i = k
      BY <1>1, <2>1, <3>1, FeedRows
    <3> QED BY <1>7, <3>1, <3>2
  <2> QED BY <2>3, <2>4, <2>5
<1> HIDE DEF back, stop, take
<1>13. Feed!Turn(back, stop, take)
  BY <1>4, <1>5, <1>8, <1>9, <1>10, <1>11, <1>12 DEF Feed!Turn
<1> QED
  BY <1>4, <1>5, <1>6, <1>13 DEF Feed!Next

\* Leased rows are given up and none is taken.
LEMMA GiveUpStep ==
    ASSUME OrderInv, TypeInv', DOMAIN deliveries' = DOMAIN deliveries,
           \A j \in DOMAIN deliveries :
               \/ deliveries'[j].state = deliveries[j].state
               \/ /\ deliveries[j].state = "leased"
                  /\ deliveries'[j].state \in {"queued"} \cup BarredStates
    PROVE  Feed!Next
<1> DEFINE T == {}
<1>1. T \in SUBSET DOMAIN deliveries /\ T = {}
  OBVIOUS
<1> HIDE DEF T
<1> QED
  BY <1>1, TurnStep

\* A leased row is settled in an advancing state.
LEMMA FinishStep ==
    ASSUME OrderInv, TypeInv', DOMAIN deliveries' = DOMAIN deliveries,
           NEW k \in DOMAIN deliveries,
           deliveries[k].state = "leased", deliveries'[k].state \in Advancing,
           \A j \in DOMAIN deliveries : j # k => deliveries'[j] = deliveries[j]
    PROVE  Feed!Next
<1> DEFINE f == FeedOf(k)
<1>1. TypeInv
  BY DEF OrderInv
<1>2. f \in AllFeeds
  BY <1>1, FeedRows
<1>3. First(k) /\ deliveries[k].state \notin Advancing
  BY LeasedIsFirst
<1>4. Feed!First(f) = {k.version}
  BY <1>1, <1>3, FirstVersion
<1>5. /\ \A g : g \in busyFeeds <=>
          /\ g \in AllFeeds
          /\ \E j \in DOMAIN deliveries : FeedOf(j) = g /\ deliveries[j].state = "leased"
      /\ \A g : g \in busyFeeds' <=>
          /\ g \in AllFeeds
          /\ \E j \in DOMAIN deliveries : FeedOf(j) = g /\ deliveries'[j].state = "leased"
  BY DEF busyFeeds, VersionsIn, FeedOf
<1>6. \A j \in DOMAIN deliveries : FeedOf(j) = f /\ deliveries[j].state = "leased" => j = k
  BY <1>3, AloneAtWork
<1>7. deliveries'[k].state # "leased"
  BY DEF Advancing
<1>8. f \in busyFeeds /\ busyFeeds' = busyFeeds \ {f}
  <2>1. f \in busyFeeds
    BY <1>2, <1>5
  <2>2. f \notin busyFeeds'
    BY <1>5, <1>6, <1>7
  <2>3. \A g : g # f => (g \in busyFeeds' <=> g \in busyFeeds)
    BY <1>5
  <2> QED BY <2>1, <2>2, <2>3
<1>9. publishedVersions' = publishedVersions
  BY <1>1, SamePublished
<1>10. barredVersions' = barredVersions
  <2>1. ASSUME NEW g \in AllFeeds
        PROVE  VersionsIn(g, BarredStates)' = VersionsIn(g, BarredStates)
    <3>1. \A i \in DOMAIN deliveries :
            deliveries'[i].state \in BarredStates <=> deliveries[i].state \in BarredStates
      BY DEF BarredStates, Advancing
    <3> QED BY <3>1, SameVersions
  <2> QED BY <2>1 DEF barredVersions
<1>11. doneVersions' = [doneVersions EXCEPT ![f] = @ \cup Feed!First(f)]
  <2>1. VersionsIn(f, Advancing)' = VersionsIn(f, Advancing) \cup {k.version}
    <3>1. \A v : v \in VersionsIn(f, Advancing)' <=>
              \E i \in DOMAIN deliveries :
                  /\ FeedOf(i) = f /\ i.version = v
                  /\ deliveries'[i].state \in Advancing
      BY DEF VersionsIn, FeedOf
    <3>2. \A i \in DOMAIN deliveries :
            deliveries'[i].state \in Advancing <=>
                deliveries[i].state \in Advancing \/ i = k
      OBVIOUS
    <3> QED BY <3>1, <3>2, VersionsInMember
  <2>2. ASSUME NEW g \in AllFeeds, g # f
        PROVE  VersionsIn(g, Advancing)' = VersionsIn(g, Advancing)
    <3>1. \A i \in DOMAIN deliveries : FeedOf(i) = g =>
            (deliveries'[i].state \in Advancing <=> deliveries[i].state \in Advancing)
      BY <2>2
    <3> QED BY <3>1, SameVersions
  <2> HIDE DEF f
  <2>3. doneVersions' = [g \in AllFeeds |->
            IF g = f THEN VersionsIn(f, Advancing) \cup {k.version}
            ELSE VersionsIn(g, Advancing)]
    BY <2>1, <2>2 DEF doneVersions
  <2> QED BY <1>4, <2>3 DEF doneVersions, f
<1> HIDE DEF f
<1>12. Feed!Finish(f)
  BY <1>8, <1>9, <1>10, <1>11 DEF Feed!Finish
<1> QED
  BY <1>2, <1>12 DEF Feed!Next

\* New rows are published, above all the versions of their feeds.
LEMMA PublishStep ==
    ASSUME TypeInv, TypeInv', RowsAdded
    PROVE  Feed!Next
<1>1. \A k \in DOMAIN deliveries' :
        /\ k \in Key /\ FeedOf(k) \in AllFeeds /\ k.version \in Nat
        /\ deliveries'[k].state \in DeliveryStates
  BY DEF TypeInv, TypeOK, Key, FeedOf, AllFeeds, Delivery
<1>2. /\ DOMAIN deliveries \subseteq DOMAIN deliveries'
      /\ \A k \in DOMAIN deliveries : deliveries'[k] = deliveries[k]
      /\ \A k \in DOMAIN deliveries' \ DOMAIN deliveries :
          /\ deliveries'[k].state \in {"queued", "blocked"}
          /\ \A j \in DOMAIN deliveries :
              j.sub = k.sub /\ j.record = k.record => j.version < k.version
  BY DEF RowsAdded
<1>3. \A f, states, v : v \in VersionsIn(f, states)' <=>
        \E k \in DOMAIN deliveries' :
            FeedOf(k) = f /\ k.version = v /\ deliveries'[k].state \in states
  BY DEF VersionsIn, FeedOf
<1>4. ASSUME NEW f \in AllFeeds
      PROVE  /\ VersionsIn(f, DeliveryStates)' \in SUBSET Nat
             /\ VersionsIn(f, BarredStates)' \in SUBSET Nat
  BY <1>1, <1>3
<1>5. ASSUME NEW f, NEW states
      PROVE  VersionsIn(f, states) \subseteq VersionsIn(f, states)'
  BY <1>2, <1>3, VersionsInMember
<1>6. ASSUME NEW f \in AllFeeds,
             NEW v \in VersionsIn(f, DeliveryStates)' \ VersionsIn(f, DeliveryStates),
             NEW w \in VersionsIn(f, DeliveryStates)
      PROVE  w < v
  <2>1. PICK k \in DOMAIN deliveries' : FeedOf(k) = f /\ k.version = v
    BY <1>3
  <2>2. k \notin DOMAIN deliveries
    BY <2>1, FeedRows, VersionsInMember
  <2>3. PICK j \in DOMAIN deliveries : FeedOf(j) = f /\ j.version = w
    BY VersionsInMember
  <2>4. j \in Key /\ k \in Key
    BY <1>1, <1>2
  <2>5. j.sub = k.sub /\ j.record = k.record
    BY <2>1, <2>3, <2>4 DEF FeedOf, Key
  <2> QED BY <1>2, <2>1, <2>2, <2>3, <2>5
<1>7. ASSUME NEW f \in AllFeeds,
             NEW v \in VersionsIn(f, BarredStates)' \ VersionsIn(f, BarredStates)
      PROVE  v \in VersionsIn(f, DeliveryStates)' \ VersionsIn(f, DeliveryStates)
  <2>1. PICK k \in DOMAIN deliveries' :
            FeedOf(k) = f /\ k.version = v /\ deliveries'[k].state \in BarredStates
    BY <1>3
  <2>2. k \notin DOMAIN deliveries
    BY <1>2, <2>1, VersionsInMember
  <2>3. ~ \E j \in DOMAIN deliveries : FeedOf(j) = f /\ j.version = v
    <3> SUFFICES ASSUME NEW j \in DOMAIN deliveries, FeedOf(j) = f, j.version = v
                 PROVE  FALSE
      OBVIOUS
    <3>1. j \in Key /\ k \in Key
      BY <1>1, <1>2
    <3>2. j.sub = k.sub /\ j.record = k.record
      BY <2>1, <3>1 DEF FeedOf, Key
    <3>3. j.version < k.version /\ j.version \in Nat /\ j.version = k.version
      BY <1>1, <1>2, <2>1, <2>2, <3>2
    <3> QED BY <3>3
  <2>4. v \in VersionsIn(f, DeliveryStates)'
    BY <1>1, <1>3, <2>1
  <2> QED BY <2>3, <2>4, VersionsInMember
<1>8. ASSUME NEW f, NEW states, "queued" \notin states, "blocked" \notin states
      PROVE  VersionsIn(f, states)' = VersionsIn(f, states)
  <2>1. \A k \in DOMAIN deliveries' :
            deliveries'[k].state \in states =>
                k \in DOMAIN deliveries /\ deliveries[k].state \in states
    BY <1>2, <1>8
  <2>2. ASSUME NEW v \in VersionsIn(f, states)' PROVE v \in VersionsIn(f, states)
    <3>1. PICK k \in DOMAIN deliveries' :
              FeedOf(k) = f /\ k.version = v /\ deliveries'[k].state \in states
      BY <1>3
    <3> QED BY <2>1, <3>1, VersionsInMember
  <2>3. VersionsIn(f, states) \subseteq VersionsIn(f, states)'
    BY <1>5
  <2> QED BY <2>2, <2>3
<1>9. doneVersions' = doneVersions
  <2>1. "queued" \notin Advancing /\ "blocked" \notin Advancing
    BY DEF Advancing
  <2>2. \A f : VersionsIn(f, Advancing)' = VersionsIn(f, Advancing)
    BY <1>8, <2>1
  <2> QED BY <2>2 DEF doneVersions
<1>10. busyFeeds' = busyFeeds
  <2>1. \A f : VersionsIn(f, {"leased"})' = VersionsIn(f, {"leased"})
    BY <1>8
  <2> QED BY <2>1 DEF busyFeeds
<1>11. /\ publishedVersions' \in [AllFeeds -> SUBSET Nat]
       /\ barredVersions' \in [AllFeeds -> SUBSET Nat]
  BY <1>4 DEF publishedVersions, barredVersions
<1>12. ASSUME NEW f \in AllFeeds
       PROVE  /\ publishedVersions[f] \subseteq publishedVersions'[f]
              /\ \A v \in publishedVersions'[f] \ publishedVersions[f],
                    w \in publishedVersions[f] : w < v
              /\ barredVersions[f] \subseteq barredVersions'[f]
              /\ barredVersions'[f] \ barredVersions[f] \subseteq
                     publishedVersions'[f] \ publishedVersions[f]
  BY <1>5, <1>6, <1>7 DEF publishedVersions, barredVersions
<1>13. Feed!Publish
  BY <1>9, <1>10, <1>11, <1>12 DEF Feed!Publish
<1> QED
  BY <1>13 DEF Feed!Next

-----------------------------------------------------------------------------
(* The steps of Delivery *)

LEMMA LeaseNextTurns ==
    ASSUME OrderInv, TypeInv', NEW s \in Subscriptions, NEW now \in Times,
           NEW duration \in Durations, LeaseNext(s, now, duration)
    PROVE  Feed!Next
<1> DEFINE rows == Reclaimed(s, now)
<1>1. now \in Nat /\ TypeInv
  BY DeliveryAssumption DEF DeliveryAssumption, OrderInv
<1>2. PICK k \in Leasable(rows, s, now) : Grant(rows, k, now + duration)
  BY DEF LeaseNext
<1>3. /\ k \in DOMAIN rows /\ rows[k].state = "queued"
      /\ \A j \in Earlier(rows, k) : rows[j].state \in Advancing
  BY <1>2 DEF Leasable
<1>4. /\ DOMAIN rows = DOMAIN deliveries
      /\ \A j \in DOMAIN deliveries :
          /\ rows[j] \in Delivery
          /\ \/ rows[j] = deliveries[j]
             \/ /\ deliveries[j].state = "leased"
                /\ rows[j].state \in {"queued", "dead_lettered"}
  BY <1>1, ReclaimedRow DEF Reclaimed
<1>5. deliveries' = [rows EXCEPT ![k] =
          [rows[k] EXCEPT !.state = "leased", !.token = FreshToken(k),
                          !.attempts = rows[k].attempts + 1,
                          !.expires = now + duration]]
  BY <1>2 DEF Grant
<1> HIDE DEF rows
<1>6. First(k)
  BY <1>3, <1>4 DEF First, Earlier, Advancing
<1>7. /\ DOMAIN deliveries' = DOMAIN deliveries
      /\ \A j \in DOMAIN deliveries \ {k} : deliveries'[j] = rows[j]
  BY <1>4, <1>5
<1>8. deliveries'[k].state = "leased"
  BY <1>3, <1>4, <1>5 DEF Delivery
<1>9. deliveries[k].state \in {"queued", "leased"}
  BY <1>3, <1>4
<1>10. \A j \in DOMAIN deliveries \ {k} :
        \/ deliveries'[j].state = deliveries[j].state
        \/ /\ deliveries[j].state = "leased"
           /\ deliveries'[j].state \in {"queued"} \cup BarredStates
  BY <1>4, <1>7 DEF BarredStates
<1>11. {k} \in SUBSET DOMAIN deliveries
  BY <1>3, <1>4
<1> QED
  BY <1>6, <1>7, <1>8, <1>9, <1>10, <1>11, TurnStep

LEMMA LeaseNoneTurns ==
    ASSUME OrderInv, TypeInv', NEW s \in Subscriptions, NEW now \in Times,
           LeaseNone(s, now)
    PROVE  Feed!Next
<1>1. now \in Nat /\ TypeInv
  BY DeliveryAssumption DEF DeliveryAssumption, OrderInv
<1>2. deliveries' = Reclaimed(s, now)
  BY DEF LeaseNone
<1>3. /\ DOMAIN deliveries' = DOMAIN deliveries
      /\ \A j \in DOMAIN deliveries :
          \/ deliveries'[j].state = deliveries[j].state
          \/ /\ deliveries[j].state = "leased"
             /\ deliveries'[j].state \in {"queued"} \cup BarredStates
  BY <1>1, <1>2, ReclaimedRow DEF Reclaimed, BarredStates
<1> QED
  BY <1>3, GiveUpStep

LEMMA CloseTurns ==
    ASSUME OrderInv, TypeInv', NEW l \in leases, NEW row,
           deliveries[l.key].state = "leased",
           row.state \in {"queued"} \cup Outcomes \cup {"blocked"},
           Close(l, row)
    PROVE  Feed!Next
<1>1. l.key \in DOMAIN deliveries
  BY DEF OrderInv, TypeInv, TypeOK
<1>2. deliveries' = [deliveries EXCEPT ![l.key] = row]
  BY DEF Close
<1>3. /\ DOMAIN deliveries' = DOMAIN deliveries
      /\ deliveries'[l.key] = row
      /\ \A j \in DOMAIN deliveries : j # l.key => deliveries'[j] = deliveries[j]
  BY <1>1, <1>2
<1>4. CASE row.state \in Advancing
  BY <1>1, <1>3, <1>4, FinishStep
<1>5. CASE row.state \notin Advancing
  <2>1. row.state \in {"queued"} \cup BarredStates
    BY <1>5 DEF Outcomes, BarredStates
  <2>2. \A j \in DOMAIN deliveries :
          \/ deliveries'[j].state = deliveries[j].state
          \/ /\ deliveries[j].state = "leased"
             /\ deliveries'[j].state \in {"queued"} \cup BarredStates
    BY <1>3, <2>1
  <2> QED BY <1>3, <2>2, GiveUpStep
<1> QED
  BY <1>4, <1>5

LEMMA ClosingTurns ==
    ASSUME OrderInv, TypeInv', NEW l \in leases, NEW now \in Times,
           \/ RetryDelivery(l, now)
           \/ BlockDelivery(l, now)
           \/ \E outcome \in Outcomes : SettleDelivery(l, outcome, now)
    PROVE  Feed!Next
<1>1. /\ deliveries[l.key] \in Delivery /\ l.key.sub \in Subscriptions
      /\ l.attempt \in Nat /\ now \in Nat
  BY DeliveryAssumption DEF DeliveryAssumption, OrderInv, TypeInv, TypeOK, Lease, Key
<1>2. CASE RetryDelivery(l, now)
  <2> DEFINE row == Released(l.key.sub, deliveries[l.key], l.attempt, now)
  <2>1. row.state \in {"queued", "dead_lettered"}
    BY <1>1, ReleasedType
  <2>2. deliveries[l.key].state = "leased" /\ Close(l, row)
    BY <1>2 DEF RetryDelivery, Current
  <2> HIDE DEF row
  <2> QED BY <2>1, <2>2, CloseTurns DEF Outcomes
<1>3. CASE BlockDelivery(l, now)
  <2> DEFINE row == [deliveries[l.key] EXCEPT !.state = "blocked",
                                              !.token = 0, !.expires = 0]
  <2>1. row.state = "blocked"
    BY <1>1 DEF Delivery
  <2>2. deliveries[l.key].state = "leased" /\ Close(l, row)
    BY <1>3 DEF BlockDelivery, Current
  <2> HIDE DEF row
  <2> QED BY <2>1, <2>2, CloseTurns
<1>4. ASSUME NEW outcome \in Outcomes, SettleDelivery(l, outcome, now)
      PROVE  Feed!Next
  <2> DEFINE row == [deliveries[l.key] EXCEPT !.state = outcome,
                                              !.token = 0, !.expires = 0]
  <2>1. row.state = outcome
    BY <1>1 DEF Delivery
  <2>2. deliveries[l.key].state = "leased" /\ Close(l, row)
    BY <1>4 DEF SettleDelivery, Current
  <2> HIDE DEF row
  <2> QED BY <2>1, <2>2, CloseTurns
<1> QED
  BY <1>2, <1>3, <1>4

LEMMA NextTurns ==
    ASSUME OrderInv, TypeInv', Next
    PROVE  Feed!Next
<1>1. CASE \E r \in Records : RecordTombstone(r)
  <2>1. LedgerStep /\ EnqueueAppended /\ UNCHANGED subscriptions
    BY <1>1, TombstoneStep, LedgerAssumption DEF RecordTombstone, OrderInv, TypeInv
  <2> QED BY <2>1, EnqueueStep, PublishStep DEF OrderInv
<1>2. CASE \E r \in Records, location \in Locations, revision \in Revisions :
               Observe(r, location, revision)
  <2>1. LedgerStep /\ EnqueueAppended /\ UNCHANGED subscriptions
    BY <1>2, ObserveStep, LedgerAssumption DEF Observe, OrderInv, TypeInv
  <2> QED BY <2>1, EnqueueStep, PublishStep DEF OrderInv
<1>3. ASSUME NEW s \in Subscriptions, CreateSubscription(s)
      PROVE  Feed!Next
  BY <1>3, CreateStep, PublishStep DEF OrderInv
<1>4. ASSUME NEW s \in Subscriptions, NEW on \in BOOLEAN, SetEnabled(s, on)
      PROVE  Feed!Next
  <2>1. RowsAdded
    BY <1>4 DEF SetEnabled, RowsAdded
  <2> QED BY <2>1, PublishStep DEF OrderInv
<1> QED
  BY <1>1, <1>2, <1>3, <1>4, LeaseNextTurns, LeaseNoneTurns, ClosingTurns DEF Next

LEMMA InitFeeds == DeliveryInit => Feed!Init
<1> SUFFICES ASSUME DeliveryInit PROVE Feed!Init
  OBVIOUS
<1>1. DOMAIN deliveries = {}
  BY DEF DeliveryInit
<1>2. \A f, states : VersionsIn(f, states) = {}
  BY <1>1 DEF VersionsIn
<1> QED
  BY <1>2 DEF Feed!Init, publishedVersions, doneVersions, barredVersions, busyFeeds

\* For every set of subscriptions, records, policies, times and durations, each
\* record of each subscription is a feed: Delivery implements RecordFeed.
THEOREM DeliveryImplementsFeed == Spec => IsRecordFeed
<1>1. DeliveryInit => Feed!Init
  BY InitFeeds
<1>2. OrderInv /\ OrderInv' /\ [Next]_vars => [Feed!Next]_(Feed!feedVars)
  <2>1. ASSUME OrderInv, OrderInv', Next PROVE Feed!Next
    BY <2>1, NextTurns DEF OrderInv
  <2>2. ASSUME UNCHANGED vars PROVE UNCHANGED Feed!feedVars
    BY <2>2 DEF vars, Feed!feedVars, publishedVersions, doneVersions,
                barredVersions, busyFeeds, VersionsIn
  <2> QED BY <2>1, <2>2
<1> QED
  BY <1>1, <1>2, OrderInvariant, PTL DEF Spec, IsRecordFeed, Feed!Spec
=============================================================================
