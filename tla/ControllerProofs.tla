-------------------------- MODULE ControllerProofs --------------------------
(***************************************************************************)
(* Theorems about Controller for every number of runs, records and         *)
(* subscriptions, every budget and every policy: a controlled system is a  *)
(* system of Delivery, and what it acknowledges, ingests and repeats.      *)
(***************************************************************************)
EXTENDS Controller, HolderProofs

\* What is known of the catalog alone.
CatalogInv ==
    /\ TypeInv /\ RecordOrder /\ TokenInv
    /\ EventOrder /\ RevisionsKnown

Working(x) == x.step \notin {"idle", "ready"}

\* A run that works has a lease; one past the budget check has room for it.
RunOK(x) ==
    /\ x \in RunState
    /\ Working(x) <=> x.lease # NoLease
    /\ x.step # "idle" => x.sub \in Subscriptions
    /\ x.step \in {"materialized", "ingesting", "ingested", "applied"} =>
           x.admitted + PayloadBytes(x.lease) <= MaxPayloadBytes

RunInv ==
    /\ clock \in 0..MaxClock
    /\ disk \in [Locations -> Revisions \cup {NoRevision}]
    /\ DOMAIN run = Runs
    /\ run = [p \in Runs |-> run[p]]
    /\ \A p \in Runs : RunOK(run[p])

-----------------------------------------------------------------------------
(* The catalog under a controller *)

LEMMA CatalogNext ==
    ASSUME CatalogInv, [Next]_vars
    PROVE  CatalogInv'
<1>1. CASE UNCHANGED vars
  BY <1>1, StutterType, TokenStutter
  DEF CatalogInv, vars, RecordOrder, Earlier, EventOrder, RevisionsKnown
<1>2. CASE Next
  <2>1. TypeInv' /\ RecordOrder' /\ TokenInv'
    BY <1>2, NextType, OrderAdded, OrderKept, TokenNext DEF CatalogInv
  <2>2. CASE LedgerPart
    BY <2>1, <2>2, EventOrderStep, RevisionsStep DEF LedgerPart, CatalogInv, TypeInv
  <2>3. CASE UNCHANGED <<records, events>>
    BY <2>1, <2>3 DEF CatalogInv, EventOrder, RevisionsKnown
  <2> QED BY <1>2, <2>2, <2>3, StepKinds DEF CatalogInv, CreateSubscription
<1> QED
  BY <1>1, <1>2

LEMMA CatalogInit ==
    ASSUME DeliveryInit
    PROVE  CatalogInv
BY InitType, EventOrderInit, RevisionsInit
DEF CatalogInv, DeliveryInit, RecordOrder, TokenInv

\* Nothing is taken back: the ledger, the rows and the leases only grow.
LEMMA CatalogGrows ==
    ASSUME CatalogInv, [Next]_vars
    PROVE  /\ Len(events') >= Len(events)
           /\ \A i \in 1..Len(events) : events'[i] = events[i]
           /\ DOMAIN deliveries \subseteq DOMAIN deliveries'
           /\ leases \subseteq leases'
<1>0. TypeInv /\ Len(events) \in Nat
  BY DEF CatalogInv, TypeInv, LedgerInv, LedgerTypeOK
<1>1. CASE UNCHANGED vars
  BY <1>0, <1>1 DEF vars
<1>2. CASE Next
  <2>1. leases \subseteq leases'
    BY <1>0, <1>2, LeaseNextStep, AddingStep
    DEF LeaseNone, RetryDelivery, BlockDelivery, SettleDelivery, Close
  <2>2. DOMAIN deliveries \subseteq DOMAIN deliveries'
    BY <1>0, <1>2, NextType DEF RowsAdded, RowsKept
  <2>3. CASE LedgerPart
    BY <2>1, <2>2, <2>3 DEF LedgerPart, LedgerStep
  <2>4. CASE UNCHANGED events
    BY <1>0, <2>1, <2>2, <2>4
  <2> QED BY <1>0, <1>2, <2>3, <2>4, StepKinds DEF CreateSubscription
<1> QED
  BY <1>1, <1>2

LEMMA EventStays ==
    ASSUME CatalogInv, [Next]_vars, NEW k \in DOMAIN deliveries
    PROVE  EventAt(k)' = EventAt(k) /\ EventAt(k).revision \in Revisions
<1>1. CatalogInv' /\ TypeInv /\ EventOrder /\ TypeInv' /\ EventOrder'
  BY CatalogNext DEF CatalogInv
<1>2. /\ SequenceOf(k) \in 1..Len(events)
      /\ events[SequenceOf(k)].record = k.record
      /\ events[SequenceOf(k)].version = k.version
  BY <1>1, EventExists
<1>3. /\ Len(events) \in Nat /\ Len(events') \in Nat /\ Len(events') >= Len(events)
      /\ events'[SequenceOf(k)] = events[SequenceOf(k)]
      /\ SequenceOf(k) \in 1..Len(events')
  BY <1>1, <1>2, CatalogGrows DEF TypeInv, LedgerInv, LedgerTypeOK
<1>4. /\ SequenceOf(k)' \in 1..Len(events')
      /\ events'[SequenceOf(k)'].record = k.record
      /\ events'[SequenceOf(k)'].version = k.version
  BY <1>2, <1>3 DEF SequenceOf
<1>5. SequenceOf(k)' = SequenceOf(k)
  <2>1. k.version \in Nat
    BY <1>1 DEF TypeInv, TypeOK, Key
  <2>2. ~(SequenceOf(k)' < SequenceOf(k)) /\ ~(SequenceOf(k) < SequenceOf(k)')
    BY <1>1, <1>2, <1>3, <1>4, <2>1 DEF EventOrder
  <2> QED BY <1>3, <1>4, <2>2
<1>6. EventAt(k)' = events'[SequenceOf(k)]
  BY <1>5 DEF EventAt
<1> QED
  BY <1>2, <1>3, <1>6 DEF EventAt, CatalogInv, RevisionsKnown

\* A lease keeps its payload, and a lease is never NoLease.
LEMMA PayloadStays ==
    ASSUME CatalogInv, [Next]_vars, NEW l \in leases
    PROVE  /\ PayloadBytes(l)' = PayloadBytes(l) /\ PayloadBytes(l) \in Nat
           /\ l # NoLease
<1>1. l.key \in DOMAIN deliveries
  BY DEF CatalogInv, TypeInv, TypeOK
<1>2. EventAt(l.key)' = EventAt(l.key) /\ EventAt(l.key).revision \in Revisions
  BY <1>1, EventStays
<1>3. PayloadBytes(l) \in Nat
  BY <1>2, ControllerAssumption, LedgerAssumption
  DEF ControllerAssumption, LedgerAssumption, PayloadBytes, RevisionOf
<1>4. PayloadBytes(l)' = PayloadBytes(l)
  BY <1>2 DEF PayloadBytes, RevisionOf
<1>5. l.token \in 1..Cardinality(LeasesOf(l.key))
  BY DEF CatalogInv, TokenInv
<1> QED
  BY <1>3, <1>4, <1>5 DEF NoLease

-----------------------------------------------------------------------------
(* The runs *)

\* Nothing the catalog does takes from a run what it holds.
LEMMA RunStays ==
    ASSUME CatalogInv, [Next]_vars, NEW x, RunOK(x)
    PROVE  /\ x \in [step     : Steps,
                     sub      : Subscriptions \cup {0},
                     now      : 0..MaxClock,
                     left     : 0..MaxDeliveries,
                     admitted : 0..MaxPayloadBytes,
                     lease    : leases' \cup {NoLease}]
           /\ Working(x) <=> x.lease # NoLease
           /\ x.step # "idle" => x.sub \in Subscriptions
           /\ x.step \in {"materialized", "ingesting", "ingested", "applied"} =>
                  x.admitted + PayloadBytes(x.lease)' <= MaxPayloadBytes
<1>1. leases \subseteq leases'
  BY CatalogGrows
<1>2. x.step \in {"materialized", "ingesting", "ingested", "applied"} =>
          x.lease \in leases
  BY DEF RunOK, RunState, Working
<1>3. x.step \in {"materialized", "ingesting", "ingested", "applied"} =>
          PayloadBytes(x.lease)' = PayloadBytes(x.lease)
  BY <1>2, PayloadStays
<1> QED
  BY <1>1, <1>3 DEF RunOK, RunState

LEMMA RunMoves ==
    ASSUME CatalogInv, [Next]_vars, RunInv, NEW p \in Runs,
           \E x : RunOK(x) /\ run' = [run EXCEPT ![p] = x],
           UNCHANGED <<clock, disk>>
    PROVE  RunInv'
<1>1. PICK x : RunOK(x) /\ run' = [run EXCEPT ![p] = x]
  OBVIOUS
<1>2. DOMAIN run = Runs /\ DOMAIN run' = Runs /\ run' = [q \in Runs |-> run'[q]]
  BY <1>1 DEF RunInv
<1>3. ASSUME NEW q \in Runs
      PROVE  \E y : RunOK(y) /\ run'[q] = y
  BY <1>1, <1>2 DEF RunInv
<1>4. ASSUME NEW q \in Runs
      PROVE  RunOK(run[q])'
  <2>1. PICK y : RunOK(y) /\ run'[q] = y
    BY <1>3
  <2> QED BY <2>1, RunStays DEF RunOK, RunState, Working
<1> QED
  BY <1>2, <1>4 DEF RunInv

LEMMA IdleOK == RunOK(Idle)
BY ControllerAssumption
DEF ControllerAssumption, RunOK, RunState, Working, Idle, Steps

\* What a run may present to the catalog.
LEMMA WorkerHolds ==
    ASSUME RunInv, NEW p \in Runs
    PROVE  /\ RunOK(run[p])
           /\ run[p].now \in Times
           /\ run[p].sub \in Subscriptions \/ run[p].step = "idle"
           /\ Working(run[p]) => run[p].lease \in leases
<1>1. RunOK(run[p])
  BY DEF RunInv
<1>2. run[p].now \in Times
  BY <1>1, ControllerAssumption DEF RunOK, RunState, ControllerAssumption
<1> QED
  BY <1>1, <1>2 DEF RunOK, RunState

\* The ends of a run.
LEMMA EndKeeps ==
    ASSUME CatalogInv, RunInv, [Next]_vars, NEW p \in Runs, End(p),
           UNCHANGED <<clock, disk>>
    PROVE  RunInv'
BY IdleOK, RunMoves DEF End

LEMMA GiveBackKeeps ==
    ASSUME CatalogInv, RunInv, NEW p \in Runs, Working(run[p]), GiveBack(p),
           UNCHANGED <<clock, disk>>
    PROVE  [Next]_vars /\ RunInv'
<1>1. run[p].lease \in leases /\ run[p].now \in Times
  BY WorkerHolds
<1>2. [Next]_vars
  BY <1>1 DEF GiveBack, Next
<1> QED
  BY <1>2, EndKeeps DEF GiveBack

LEMMA TakeKeeps ==
    ASSUME CatalogInv, RunInv, NEW p \in Runs, NEW duration \in Durations,
           Take(p, duration)
    PROVE  /\ LeaseNext(run[p].sub, run[p].now, duration) /\ [Next]_vars
           /\ \E l \in leases' \ leases :
                /\ leases' = leases \cup {l}
                /\ run' = [run EXCEPT ![p] =
                       [run[p] EXCEPT !.step = "leased", !.lease = l, !.left = @ - 1]]
           /\ RunInv'
<1> DEFINE s == run[p].sub
           now == run[p].now
<1>1. /\ RunOK(run[p]) /\ now \in Times /\ s \in Subscriptions
      /\ run[p].step = "ready" /\ run[p].left > 0
  BY WorkerHolds DEF Take, At
<1>2. LeaseNext(s, now, duration) /\ [Next]_vars
  BY <1>1 DEF Take, Next
<1>3. PICK l \in leases' \ leases :
          run' = [run EXCEPT ![p].step = "leased", ![p].lease = l, ![p].left = @ - 1]
  BY DEF Take
<1>4. CatalogInv' /\ TypeInv /\ TypeInv'
  BY <1>2, CatalogNext DEF CatalogInv
<1>5. leases' = leases \cup {l}
  BY <1>1, <1>2, <1>3, <1>4, LeaseNextStep
<1> DEFINE x == [run[p] EXCEPT !.step = "leased", !.lease = l, !.left = @ - 1]
<1>6. run' = [run EXCEPT ![p] = x]
  BY <1>3 DEF RunInv
<1>7. l # NoLease
  <2>1. l.token \in 1..Cardinality(LeasesOf(l.key)')
    BY <1>4, <1>3 DEF CatalogInv, TokenInv
  <2> QED BY <2>1 DEF NoLease
<1>8. ASSUME NEW q \in Runs
      PROVE  RunOK(run[q])'
  <2>1. CASE q = p
    <3>1. run'[q] = x
      BY <1>6, <2>1 DEF RunInv
    <3>2. x.left \in 0..MaxDeliveries /\ x.step = "leased" /\ x.lease = l
          /\ x.sub = s /\ x.now = now /\ x.admitted = run[p].admitted
      BY <1>1, ControllerAssumption DEF RunOK, RunState, ControllerAssumption
    <3>3. x \in [step     : Steps,
                 sub      : Subscriptions \cup {0},
                 now      : 0..MaxClock,
                 left     : 0..MaxDeliveries,
                 admitted : 0..MaxPayloadBytes,
                 lease    : leases' \cup {NoLease}]
      BY <1>1, <1>3, <3>2 DEF RunOK, RunState, Steps
    <3> HIDE DEF x
    <3> QED BY <1>1, <1>7, <3>1, <3>2, <3>3 DEF RunOK, RunState, Working
  <2>2. CASE q # p
    <3>1. run'[q] = run[q] /\ RunOK(run[q])
      BY <1>6, <2>2 DEF RunInv
    <3>2. \E y : RunOK(y) /\ run'[q] = y
      BY <3>1
    <3>3. PICK y : RunOK(y) /\ run'[q] = y
      BY <3>2
    <3> QED BY <1>2, <3>3, RunStays DEF RunOK, RunState, Working
  <2> QED BY <2>1, <2>2
<1>9. RunInv'
  <2>1. DOMAIN run' = Runs /\ run' = [q \in Runs |-> run'[q]]
    BY <1>6 DEF RunInv
  <2>2. UNCHANGED <<clock, disk>>
    BY DEF Take
  <2> QED BY <1>8, <2>1, <2>2 DEF RunInv
<1> QED
  BY <1>2, <1>3, <1>5, <1>6, <1>9

\* A run that goes on with the lease it has.
LEMMA GotoKeeps ==
    ASSUME CatalogInv, RunInv, UNCHANGED vars, NEW p \in Runs, Working(run[p]),
           NEW step \in {"materialized", "ingesting", "ingested", "applied"},
           Goto(p, step), run[p].admitted + PayloadBytes(run[p].lease) <= MaxPayloadBytes,
           UNCHANGED <<clock, disk>>
    PROVE  RunInv'
<1> DEFINE x == [run[p] EXCEPT !.step = step]
<1>1. RunOK(run[p])
  BY WorkerHolds
<1>2. /\ x.step = step /\ x.lease = run[p].lease /\ x.admitted = run[p].admitted
      /\ x.sub = run[p].sub /\ x \in RunState
  BY <1>1 DEF RunOK, RunState, Steps
<1>3. run' = [run EXCEPT ![p] = x]
  BY DEF Goto, RunInv
<1> HIDE DEF x
<1>4. RunOK(x)
  BY <1>1, <1>2 DEF RunOK, Working
<1> QED
  BY <1>3, <1>4, RunMoves

LEMMA SettleKeeps ==
    ASSUME CatalogInv, RunInv, NEW p \in Runs, Settle(p)
    PROVE  [Next]_vars /\ RunInv'
<1>1. /\ RunOK(run[p]) /\ run[p].step = "applied"
      /\ run[p].lease \in leases /\ run[p].now \in Times
  BY WorkerHolds DEF Settle, At, Working
<1>2. CASE End(p) /\ UNCHANGED vars
  BY <1>2, EndKeeps DEF Settle
<1>3. CASE /\ SettleDelivery(run[p].lease, "acknowledged", run[p].now)
           /\ run' = [run EXCEPT ![p].step = "ready", ![p].lease = NoLease,
                          ![p].admitted = @ + PayloadBytes(run[p].lease)]
  <2>1. [Next]_vars
    BY <1>1, <1>3 DEF Next, Outcomes, Advancing
  <2> DEFINE x == [run[p] EXCEPT !.step = "ready", !.lease = NoLease,
                                 !.admitted = @ + PayloadBytes(run[p].lease)]
  <2>2. run' = [run EXCEPT ![p] = x]
    BY <1>3 DEF RunInv
  <2>3. /\ x.step = "ready" /\ x.lease = NoLease /\ x.sub = run[p].sub
        /\ x.admitted = run[p].admitted + PayloadBytes(run[p].lease)
        /\ x.now = run[p].now /\ x.left = run[p].left
        /\ DOMAIN x = DOMAIN run[p]
    BY <1>1 DEF RunOK, RunState
  <2>4. x.admitted \in 0..MaxPayloadBytes
    <3>1. PayloadBytes(run[p].lease) \in Nat
      BY <1>1, <2>1, PayloadStays
    <3>2. /\ run[p].admitted \in Nat
          /\ run[p].admitted + PayloadBytes(run[p].lease) <= MaxPayloadBytes
      BY <1>1 DEF RunOK, RunState
    <3> QED BY <2>3, <3>1, <3>2, ControllerAssumption DEF ControllerAssumption
  <2>5. x \in RunState
    BY <1>1, <2>4 DEF RunOK, RunState, Steps
  <2> HIDE DEF x
  <2>6. RunOK(x)
    BY <1>1, <2>3, <2>5 DEF RunOK, Working
  <2> QED BY <2>1, <2>2, <2>6, RunMoves DEF Settle
<1> QED
  BY <1>2, <1>3 DEF Settle

\* Every step of a controlled system is a step of the delivery protocol or
\* leaves it alone.
LEMMA ControllerStep ==
    ASSUME CatalogInv, RunInv, [ControllerNext]_controllerVars
    PROVE  [Next]_vars /\ RunInv'
<1>1. ASSUME NEW p \in Runs, NEW duration \in Durations, Take(p, duration)
      PROVE  [Next]_vars /\ RunInv'
  BY <1>1, TakeKeeps
<1>2. ASSUME NEW p \in Runs, Drained(p)
      PROVE  [Next]_vars /\ RunInv'
  <2>1. run[p].now \in Times /\ run[p].sub \in Subscriptions
    BY <1>2, WorkerHolds DEF Drained, At
  <2>2. [Next]_vars
    BY <1>2, <2>1 DEF Drained, Next
  <2> QED BY <1>2, <2>2, EndKeeps DEF Drained
<1>3. ASSUME NEW p \in Runs, Defer(p) \/ Unrouted(p) \/ ApplyFails(p)
      PROVE  [Next]_vars /\ RunInv'
  BY <1>3, GiveBackKeeps DEF Defer, Unrouted, ApplyFails, At, Working
<1>4. ASSUME NEW p \in Runs, NotMaterialized(p)
      PROVE  [Next]_vars /\ RunInv'
  <2>1. Working(run[p]) /\ UNCHANGED <<clock, disk>>
    BY <1>4 DEF NotMaterialized, At, Working
  <2>2. CASE GiveBack(p)
    BY <2>1, <2>2, GiveBackKeeps
  <2>3. CASE /\ \/ BlockDelivery(run[p].lease, run[p].now)
                \/ ~Current(run[p].lease, run[p].now) /\ UNCHANGED vars
             /\ End(p)
    <3>1. run[p].lease \in leases /\ run[p].now \in Times
      BY <2>1, WorkerHolds
    <3>2. [Next]_vars
      BY <2>3, <3>1 DEF Next
    <3> QED BY <2>1, <2>3, <3>2, EndKeeps
  <2> QED BY <1>4, <2>2, <2>3 DEF NotMaterialized
<1>5. ASSUME NEW p \in Runs, Materialize(p)
      PROVE  [Next]_vars /\ RunInv'
  BY <1>5, GotoKeeps DEF Materialize, At, Working, Fits
<1>6. ASSUME NEW p \in Runs, Settle(p)
      PROVE  [Next]_vars /\ RunInv'
  BY <1>6, SettleKeeps
<1>7. ASSUME NEW p \in Runs, FindReceipt(p) \/ Ingest(p) \/ WriteReceipt(p)
      PROVE  [Next]_vars /\ RunInv'
  <2>1. run[p].step \in {"materialized", "ingesting", "ingested"}
    BY <1>7 DEF FindReceipt, Ingest, WriteReceipt, At
  <2>2. /\ Working(run[p])
        /\ run[p].admitted + PayloadBytes(run[p].lease) <= MaxPayloadBytes
    BY <2>1, WorkerHolds DEF RunOK, Working
  <2>3. UNCHANGED <<vars, clock, disk>>
    BY <1>7 DEF FindReceipt, Ingest, WriteReceipt
  <2>4. \E step \in {"materialized", "ingesting", "ingested", "applied"} : Goto(p, step)
    BY <1>7 DEF FindReceipt, Ingest, WriteReceipt
  <2> QED BY <2>2, <2>3, <2>4, GotoKeeps
<1>8. ASSUME NEW p \in Runs, Crash(p)
      PROVE  [Next]_vars /\ RunInv'
  BY <1>8, EndKeeps DEF Crash
<1>9. ASSUME NEW p \in Runs, NEW s \in Subscriptions, Start(p, s)
      PROVE  [Next]_vars /\ RunInv'
  <2> DEFINE x == [Idle EXCEPT !.step = "ready", !.sub = s, !.now = clock,
                               !.left = MaxDeliveries]
  <2>1. RunOK(x)
    <3>1. /\ x.step = "ready" /\ x.sub = s /\ x.now = clock /\ x.left = MaxDeliveries
          /\ x.admitted = 0 /\ x.lease = NoLease
      BY DEF Idle
    <3>2. /\ DOMAIN x = {"step", "sub", "now", "left", "admitted", "lease"}
          /\ x = [f \in DOMAIN x |-> x[f]]
      BY DEF Idle
    <3> HIDE DEF x
    <3>3. x \in RunState
      BY <3>1, <3>2, ControllerAssumption
      DEF ControllerAssumption, RunInv, RunState, Steps
    <3> QED BY <3>1, <3>3 DEF RunOK, Working
  <2>2. run' = [run EXCEPT ![p] = x] /\ UNCHANGED <<vars, clock, disk>>
    BY <1>9 DEF Start
  <2> HIDE DEF x
  <2> QED BY <2>1, <2>2, RunMoves
<1>10. ASSUME [Next]_vars, UNCHANGED run, clock' \in 0..MaxClock,
              disk' \in [Locations -> Revisions \cup {NoRevision}]
       PROVE  RunInv'
  <2>1. ASSUME NEW q \in Runs
        PROVE  RunOK(run[q])'
    <3>1. PICK y : RunOK(y) /\ run'[q] = y
      BY <1>10 DEF RunInv
    <3> QED BY <1>10, <3>1, RunStays DEF RunOK, RunState, Working
  <2> QED BY <1>10, <2>1 DEF RunInv
<1>11. ASSUME Tick \/ \E x \in Locations, revision \in Revisions \cup {NoRevision} :
                          Touch(x, revision)
       PROVE  [Next]_vars /\ RunInv'
  <2>1. UNCHANGED <<vars, run>>
    BY <1>11 DEF Tick, Touch
  <2>2. clock' \in 0..MaxClock /\ disk' \in [Locations -> Revisions \cup {NoRevision}]
    BY <1>11, ControllerAssumption DEF Tick, Touch, RunInv, ControllerAssumption
  <2> QED BY <1>10, <2>1, <2>2
<1>12. ASSUME NEW r \in Records, Reconcile(r)
       PROVE  [Next]_vars /\ RunInv'
  <2>1. [Next]_vars /\ UNCHANGED runVars
    BY <1>12 DEF Reconcile, Next, RunInv
  <2> QED BY <1>10, <2>1 DEF runVars, RunInv
<1>13. ASSUME NEW s \in Subscriptions, Administer(s)
       PROVE  [Next]_vars /\ RunInv'
  <2>1. [Next]_vars /\ UNCHANGED runVars
    BY <1>13 DEF Administer, Next
  <2> QED BY <1>10, <2>1 DEF runVars, RunInv
<1>14. CASE UNCHANGED controllerVars \/ \E l \in orphans : Orphan(l)
  <2>1. UNCHANGED <<vars, clock, disk, run>>
    BY <1>14 DEF controllerVars, Orphan
  <2> QED BY <1>10, <2>1 DEF RunInv
<1> QED
  BY <1>1, <1>2, <1>3, <1>4, <1>5, <1>6, <1>7, <1>8, <1>9, <1>11, <1>12, <1>13, <1>14
  DEF ControllerNext, RunStep

ControllerInv == CatalogInv /\ RunInv

LEMMA ControllerInvariant == ControllerSpec => []ControllerInv
<1>1. ControllerInit => ControllerInv
  <2> SUFFICES ASSUME ControllerInit PROVE RunInv
    BY CatalogInit DEF ControllerInit, ControllerInv
  <2>1. clock \in 0..MaxClock /\ disk \in [Locations -> Revisions \cup {NoRevision}]
    BY ControllerAssumption DEF ControllerInit, ControllerAssumption
  <2>2. run = [p \in Runs |-> Idle]
    BY DEF ControllerInit
  <2> QED BY <2>1, <2>2, IdleOK DEF RunInv
<1>2. ControllerInv /\ [ControllerNext]_controllerVars => ControllerInv'
  BY ControllerStep, CatalogNext DEF ControllerInv
<1> QED
  BY <1>1, <1>2, PTL DEF ControllerSpec

\* However many runs, with one cache or several: what they do to the catalog,
\* interleaved with reconcilers and administrators and cut short by crashes,
\* is a behaviour of the delivery protocol.  Whatever holds of the protocol
\* holds of the controlled system.
THEOREM ControlledRunsDeliver == ControllerSpec => Spec
<1>1. ControllerInit => DeliveryInit
  BY DEF ControllerInit
<1>2. ControllerInv /\ [ControllerNext]_controllerVars => [Next]_vars
  BY ControllerStep DEF ControllerInv
<1> QED
  BY <1>1, <1>2, ControllerInvariant, PTL DEF ControllerSpec, Spec

-----------------------------------------------------------------------------
(* The adapter *)

\* The deliveries that were ingested.
Effected == {l.key : l \in Landed}

\* A run past the ingest ingested its delivery, and one whose consumer returned
\* has its receipt.
Done(x) ==
    /\ x.step \in {"ingested", "applied"} => x.lease.key \in Effected
    /\ x.step = "applied" => x.lease.key \in receipts

\* What was ingested was leased, what has a receipt was ingested, and what was
\* acknowledged has its receipt.
AppliedInv ==
    /\ effects \in Seq(Lease)
    /\ orphans \cup Landed \subseteq leases
    /\ receipts \subseteq Effected
    /\ \A p \in Runs : Done(run[p])
    /\ \A k \in DOMAIN deliveries :
        deliveries[k].state = "acknowledged" => k \in receipts

\* No row becomes acknowledged.
NoneAcknowledged ==
    \A k \in DOMAIN deliveries' :
        deliveries'[k].state = "acknowledged" =>
            k \in DOMAIN deliveries /\ deliveries[k].state = "acknowledged"

LEMMA AppendEffect ==
    ASSUME effects \in Seq(Lease), NEW l \in Lease, effects' = Append(effects, l)
    PROVE  /\ effects' \in Seq(Lease)
           /\ Landed' = Landed \cup {l} /\ Effected' = Effected \cup {l.key}
           /\ Len(effects') = Len(effects) + 1 /\ Len(effects) \in Nat
           /\ effects'[Len(effects')] = l
           /\ \A i \in 1..Len(effects) : effects'[i] = effects[i]
<1>1. /\ effects' \in Seq(Lease) /\ Len(effects') = Len(effects) + 1
      /\ Len(effects) \in Nat
      /\ effects'[Len(effects) + 1] = l
      /\ \A i \in 1..Len(effects) : effects'[i] = effects[i]
  OBVIOUS
<1>2. 1..Len(effects') = 1..Len(effects) \cup {Len(effects) + 1}
  BY <1>1
<1>3. Landed' = Landed \cup {l}
  BY <1>1, <1>2 DEF Landed
<1> QED
  BY <1>1, <1>3 DEF Effected

LEMMA RowsAddedAcks ==
    ASSUME RowsAdded
    PROVE  NoneAcknowledged
BY DEF RowsAdded, NoneAcknowledged

LEMMA LeasingAcks ==
    ASSUME TypeInv, NEW s \in Subscriptions, NEW now \in Times,
           \/ LeaseNone(s, now)
           \/ \E duration \in Durations : LeaseNext(s, now, duration)
    PROVE  NoneAcknowledged
<1> DEFINE rows == Reclaimed(s, now)
<1>1. now \in Nat
  BY DeliveryAssumption DEF DeliveryAssumption
<1>2. /\ DOMAIN rows = DOMAIN deliveries
      /\ \A k \in DOMAIN deliveries :
          rows[k].state = "acknowledged" => deliveries[k].state = "acknowledged"
  <2>1. DOMAIN rows = DOMAIN deliveries
    BY DEF Reclaimed
  <2> HIDE DEF rows
  <2> QED BY <1>1, <2>1, ReclaimedRow DEF rows
<1>3. CASE LeaseNone(s, now)
  <2>1. deliveries' = rows
    BY <1>3 DEF LeaseNone
  <2> HIDE DEF rows
  <2> QED BY <1>2, <2>1 DEF NoneAcknowledged
<1>4. ASSUME NEW duration \in Durations, LeaseNext(s, now, duration)
      PROVE  NoneAcknowledged
  <2>1. PICK k \in DOMAIN rows : Grant(rows, k, now + duration)
    BY <1>4 DEF LeaseNext, Leasable
  <2> HIDE DEF rows
  <2>2. /\ DOMAIN deliveries' = DOMAIN rows
        /\ \A j \in DOMAIN rows : j # k => deliveries'[j] = rows[j]
    BY <2>1 DEF Grant
  <2>3. deliveries'[k].state # "acknowledged"
    <3>1. deliveries[k] \in Delivery /\ rows[k] \in Delivery
      BY <1>1, <1>2, <2>1, ReclaimedRow DEF TypeInv, TypeOK, rows
    <3> QED BY <2>1, <3>1 DEF Grant, Delivery
  <2> QED BY <1>2, <2>2, <2>3 DEF NoneAcknowledged
<1> QED
  BY <1>3, <1>4

LEMMA ClosingAcks ==
    ASSUME TypeInv, NEW l \in leases, NEW now \in Times,
           RetryDelivery(l, now) \/ BlockDelivery(l, now)
    PROVE  NoneAcknowledged
<1>1. /\ l.key \in DOMAIN deliveries /\ deliveries[l.key] \in Delivery
      /\ l.key.sub \in Subscriptions /\ l.attempt \in Nat /\ now \in Nat
  BY DeliveryAssumption DEF DeliveryAssumption, TypeInv, TypeOK, Lease, Key
<1>2. \E row : row.state # "acknowledged" /\ Close(l, row)
  <2>1. CASE RetryDelivery(l, now)
    <3>1. Released(l.key.sub, deliveries[l.key], l.attempt, now).state # "acknowledged"
      BY <1>1, ReleasedType
    <3> QED BY <2>1, <3>1 DEF RetryDelivery
  <2>2. CASE BlockDelivery(l, now)
    <3>1. [deliveries[l.key] EXCEPT !.state = "blocked", !.token = 0,
                                    !.expires = 0].state # "acknowledged"
      BY <1>1 DEF Delivery
    <3> QED BY <2>2, <3>1 DEF BlockDelivery
  <2> QED BY <2>1, <2>2
<1>3. PICK row : row.state # "acknowledged" /\ Close(l, row)
  BY <1>2
<1> QED
  BY <1>1, <1>3 DEF Close, NoneAcknowledged

LEMMA SettlingAcks ==
    ASSUME TypeInv, NEW l \in leases, NEW now \in Times,
           SettleDelivery(l, "acknowledged", now),
           NEW k \in DOMAIN deliveries', deliveries'[k].state = "acknowledged"
    PROVE  \/ k = l.key
           \/ k \in DOMAIN deliveries /\ deliveries[k].state = "acknowledged"
BY DEF SettleDelivery, Close

LEMMA GiveBackAcks ==
    ASSUME TypeInv, RunInv, NEW p \in Runs, Working(run[p]), GiveBack(p)
    PROVE  NoneAcknowledged
<1>1. run[p].lease \in leases /\ run[p].now \in Times
  BY WorkerHolds
<1>2. UNCHANGED vars => NoneAcknowledged
  BY DEF vars, NoneAcknowledged
<1> QED
  BY <1>1, <1>2, ClosingAcks DEF GiveBack

\* What a reconciler commits adds rows.
LEMMA ReconcileAdds ==
    ASSUME TypeInv, RunInv, NEW r \in Records, Reconcile(r)
    PROVE  RowsAdded
<1>1. CASE RecordTombstone(r)
  <2>1. LedgerStep /\ EnqueueAppended /\ UNCHANGED subscriptions
    BY <1>1, TombstoneStep, LedgerAssumption DEF RecordTombstone, TypeInv
  <2> QED BY <2>1, EnqueueStep
<1>2. ASSUME NEW x \in Locations, disk[x] # NoRevision, Observe(r, x, disk[x])
      PROVE  RowsAdded
  <2>1. disk[x] \in Revisions
    BY <1>2 DEF RunInv
  <2>2. LedgerStep /\ EnqueueAppended /\ UNCHANGED subscriptions
    BY <1>2, <2>1, ObserveStep, LedgerAssumption DEF Observe, TypeInv
  <2> QED BY <2>2, EnqueueStep
<1> QED
  BY <1>1, <1>2 DEF Reconcile

\* What a step that changes at most one run has to show.
LEMMA AppliedKeeps ==
    ASSUME AppliedInv, leases \subseteq leases',
           effects' \in Seq(Lease), Effected \subseteq Effected',
           orphans' \cup Landed' \subseteq leases,
           receipts \subseteq receipts', receipts' \subseteq Effected',
           \A q \in Runs :
               \/ run'[q] = run[q]
               \/ /\ run'[q].step \in {"ingested", "applied"} =>
                         run'[q].lease.key \in Effected'
                  /\ run'[q].step = "applied" => run'[q].lease.key \in receipts',
           \A k \in DOMAIN deliveries' :
               deliveries'[k].state = "acknowledged" => k \in receipts'
    PROVE  AppliedInv'
<1>1. \A q \in Runs : Done(run[q])'
  BY DEF AppliedInv, Done
<1> QED
  BY <1>1 DEF AppliedInv

\* A step outside the adapter after which no run is past its ingest that was
\* not before.
LEMMA AppliedQuiet ==
    ASSUME AppliedInv, leases \subseteq leases', NoneAcknowledged,
           UNCHANGED effects, orphans' \subseteq leases,
           receipts' \in {receipts} \cup {receipts \cup {k} : k \in Effected},
           \A q \in Runs :
               run'[q] = run[q] \/ run'[q].step \notin {"ingested", "applied"}
    PROVE  AppliedInv'
<1>1. Landed' = Landed /\ Effected' = Effected
  BY DEF Landed, Effected
<1>2. receipts \subseteq receipts' /\ receipts' \subseteq Effected'
  BY <1>1 DEF AppliedInv
<1>3. \A k \in DOMAIN deliveries' :
        deliveries'[k].state = "acknowledged" => k \in receipts'
  BY <1>2 DEF AppliedInv, NoneAcknowledged
<1> QED
  BY <1>1, <1>2, <1>3, AppliedKeeps DEF AppliedInv

LEMMA EndedRun ==
    ASSUME RunInv, NEW p \in Runs, End(p)
    PROVE  \A q \in Runs : run'[q] = run[q] \/ run'[q].step \notin {"ingested", "applied"}
BY DEF RunInv, End, Idle

LEMMA AppliedStep ==
    ASSUME CatalogInv, RunInv, AppliedInv, [ControllerNext]_controllerVars
    PROVE  AppliedInv'
<1>0. TypeInv /\ leases \subseteq leases'
  BY ControllerStep, CatalogGrows DEF CatalogInv
<1>a. UNCHANGED vars => NoneAcknowledged
  BY DEF vars, NoneAcknowledged
<1>b. UNCHANGED orphans => orphans' \subseteq leases
  BY DEF AppliedInv
<1>1. ASSUME NEW p \in Runs, NEW duration \in Durations, Take(p, duration)
      PROVE  AppliedInv'
  <2>1. run[p].now \in Times /\ run[p].sub \in Subscriptions
    BY <1>1, WorkerHolds DEF Take, At
  <2>2. NoneAcknowledged
    BY <1>0, <1>1, <2>1, LeasingAcks DEF Take
  <2>3. \A q \in Runs : run'[q] = run[q] \/ run'[q].step \notin {"ingested", "applied"}
    <3>1. PICK l : run' = [run EXCEPT ![p] =
                       [run[p] EXCEPT !.step = "leased", !.lease = l, !.left = @ - 1]]
      BY <1>1, TakeKeeps
    <3> DEFINE x == [run[p] EXCEPT !.step = "leased", !.lease = l, !.left = @ - 1]
    <3>2. x.step = "leased"
      BY WorkerHolds DEF RunOK, RunState
    <3>3. run' = [run EXCEPT ![p] = x]
      BY <3>1
    <3> HIDE DEF x
    <3> QED BY <3>2, <3>3 DEF RunInv
  <2> QED BY <1>0, <1>1, <2>2, <2>3, <1>b, AppliedQuiet DEF Take
<1>2. ASSUME NEW p \in Runs, Drained(p)
      PROVE  AppliedInv'
  <2>1. run[p].now \in Times /\ run[p].sub \in Subscriptions
    BY <1>2, WorkerHolds DEF Drained, At
  <2>2. NoneAcknowledged
    BY <1>0, <1>a, <1>2, <2>1, LeasingAcks DEF Drained
  <2> QED BY <1>0, <1>2, <2>2, EndedRun, <1>b, AppliedQuiet DEF Drained
<1>3. ASSUME NEW p \in Runs, Defer(p) \/ Unrouted(p) \/ ApplyFails(p)
      PROVE  AppliedInv'
  <2>1. /\ Working(run[p]) /\ GiveBack(p) /\ UNCHANGED <<effects, orphans>>
        /\ \/ receipts' = receipts
           \/ run[p].step = "ingested" /\ receipts' = receipts \cup {run[p].lease.key}
    BY <1>3 DEF Defer, Unrouted, ApplyFails, At, Working
  <2>2. NoneAcknowledged
    BY <1>0, <2>1, GiveBackAcks
  <2>3. receipts' \in {receipts} \cup {receipts \cup {k} : k \in Effected}
    BY <2>1 DEF AppliedInv, Done
  <2> QED BY <1>0, <2>1, <2>2, <2>3, EndedRun, <1>b, AppliedQuiet DEF GiveBack
<1>4. ASSUME NEW p \in Runs, NotMaterialized(p)
      PROVE  AppliedInv'
  <2>1. Working(run[p]) /\ UNCHANGED <<receipts, effects, orphans>> /\ End(p)
    BY <1>4 DEF NotMaterialized, GiveBack, At, Working
  <2>2. run[p].lease \in leases /\ run[p].now \in Times
    BY <2>1, WorkerHolds
  <2>3. NoneAcknowledged
    BY <1>0, <1>a, <1>4, <2>1, <2>2, GiveBackAcks, ClosingAcks DEF NotMaterialized
  <2> QED BY <1>0, <2>1, <2>3, EndedRun, <1>b, AppliedQuiet
<1>5. ASSUME NEW p \in Runs, Materialize(p)
      PROVE  AppliedInv'
  <2>1. /\ UNCHANGED <<vars, receipts, effects, orphans>>
        /\ run' = [run EXCEPT ![p].step = "materialized"]
    BY <1>5 DEF Materialize, Goto
  <2>2. \A q \in Runs : run'[q] = run[q] \/ run'[q].step \notin {"ingested", "applied"}
    BY <2>1 DEF RunInv, RunOK, RunState
  <2> QED BY <1>0, <1>a, <2>1, <2>2, <1>b, AppliedQuiet
<1>6. ASSUME NEW p \in Runs, Settle(p)
      PROVE  AppliedInv'
  <2>1. /\ run[p].step = "applied" /\ UNCHANGED <<effects, receipts, orphans>>
        /\ run[p].lease \in leases /\ run[p].now \in Times
    BY <1>6, WorkerHolds DEF Settle, At, Working
  <2>2. CASE UNCHANGED vars /\ End(p)
    BY <1>0, <1>a, <2>1, <2>2, EndedRun, <1>b, AppliedQuiet
  <2>3. CASE /\ SettleDelivery(run[p].lease, "acknowledged", run[p].now)
             /\ run' = [run EXCEPT ![p].step = "ready", ![p].lease = NoLease,
                            ![p].admitted = @ + PayloadBytes(run[p].lease)]
    <3>1. run[p].lease.key \in receipts
      BY <2>1 DEF AppliedInv, Done
    <3>2. \A k \in DOMAIN deliveries' :
            deliveries'[k].state = "acknowledged" => k \in receipts'
      BY <1>0, <2>1, <2>3, <3>1, SettlingAcks DEF AppliedInv
    <3>3. \A q \in Runs : run'[q] = run[q] \/ run'[q].step \notin {"ingested", "applied"}
      BY <2>3 DEF RunInv, RunOK, RunState
    <3>4. Landed' = Landed /\ Effected' = Effected
      BY <2>1 DEF Landed, Effected
    <3> QED BY <1>0, <2>1, <3>2, <3>3, <3>4, AppliedKeeps DEF AppliedInv
  <2> QED BY <1>6, <2>2, <2>3 DEF Settle
<1>7. ASSUME NEW p \in Runs, FindReceipt(p)
      PROVE  AppliedInv'
  <2>1. /\ UNCHANGED <<vars, receipts, effects, orphans>>
        /\ \/ /\ run[p].lease.key \in receipts
              /\ run' = [run EXCEPT ![p].step = "applied"]
           \/ run' = [run EXCEPT ![p].step = "ingesting"]
    BY <1>7 DEF FindReceipt, Goto
  <2>2. Landed' = Landed /\ Effected' = Effected
    BY <2>1 DEF Landed, Effected
  <2>3. \A q \in Runs :
               \/ run'[q] = run[q]
               \/ /\ run'[q].step \in {"ingested", "applied"} =>
                         run'[q].lease.key \in Effected'
                  /\ run'[q].step = "applied" => run'[q].lease.key \in receipts'
    <3>1. CASE /\ run[p].lease.key \in receipts
               /\ run' = [run EXCEPT ![p].step = "applied"]
      <4>1. run[p].lease.key \in receipts' /\ run[p].lease.key \in Effected'
        BY <2>1, <2>2, <3>1 DEF AppliedInv
      <4>2. run'[p].lease = run[p].lease /\ \A q \in Runs \ {p} : run'[q] = run[q]
        BY <3>1 DEF RunInv, RunOK, RunState
      <4> QED BY <4>1, <4>2
    <3>2. CASE run' = [run EXCEPT ![p].step = "ingesting"]
      BY <3>2 DEF RunInv, RunOK, RunState
    <3> QED BY <2>1, <3>1, <3>2
  <2>4. \A k \in DOMAIN deliveries' :
          deliveries'[k].state = "acknowledged" => k \in receipts'
    BY <2>1 DEF AppliedInv, vars
  <2> QED BY <1>0, <2>1, <2>2, <2>3, <2>4, AppliedKeeps DEF AppliedInv
<1>8. ASSUME NEW p \in Runs, Ingest(p)
      PROVE  AppliedInv'
  <2>1. /\ UNCHANGED <<vars, receipts, orphans>> /\ run[p].lease \in leases
        /\ effects' = Append(effects, run[p].lease)
        /\ run' = [run EXCEPT ![p].step = "ingested"]
    BY <1>8, WorkerHolds DEF Ingest, Goto, At, Working
  <2>2. run[p].lease \in Lease
    BY <1>0, <2>1 DEF TypeInv, TypeOK
  <2>3. /\ effects' \in Seq(Lease) /\ Landed' = Landed \cup {run[p].lease}
        /\ Effected' = Effected \cup {run[p].lease.key}
    BY <2>1, <2>2, AppendEffect DEF AppliedInv
  <2>4. \A q \in Runs :
               \/ run'[q] = run[q]
               \/ /\ run'[q].step \in {"ingested", "applied"} =>
                         run'[q].lease.key \in Effected'
                  /\ run'[q].step = "applied" => run'[q].lease.key \in receipts'
    BY <2>1, <2>3 DEF RunInv, RunOK, RunState
  <2>5. \A k \in DOMAIN deliveries' :
          deliveries'[k].state = "acknowledged" => k \in receipts'
    BY <2>1 DEF AppliedInv, vars
  <2>6. /\ receipts \subseteq receipts' /\ receipts' \subseteq Effected'
        /\ orphans' \cup Landed' \subseteq leases
    BY <2>1, <2>3 DEF AppliedInv
  <2> QED BY <1>0, <2>3, <2>4, <2>5, <2>6, AppliedKeeps
<1>9. ASSUME NEW p \in Runs, WriteReceipt(p)
      PROVE  AppliedInv'
  <2>1. /\ UNCHANGED <<vars, effects, orphans>> /\ run[p].step = "ingested"
        /\ receipts' = receipts \cup {run[p].lease.key}
        /\ run' = [run EXCEPT ![p].step = "applied"]
    BY <1>9 DEF WriteReceipt, Goto, At
  <2>2. Landed' = Landed /\ Effected' = Effected
    BY <2>1 DEF Landed, Effected
  <2>5. run[p].lease.key \in Effected
    BY <2>1 DEF AppliedInv, Done
  <2>3. \A q \in Runs :
               \/ run'[q] = run[q]
               \/ /\ run'[q].step \in {"ingested", "applied"} =>
                         run'[q].lease.key \in Effected'
                  /\ run'[q].step = "applied" => run'[q].lease.key \in receipts'
    BY <2>1, <2>2, <2>5 DEF RunInv, RunOK, RunState
  <2>4. \A k \in DOMAIN deliveries' :
          deliveries'[k].state = "acknowledged" => k \in receipts'
    BY <2>1 DEF AppliedInv, vars
  <2> QED BY <1>0, <2>1, <2>2, <2>3, <2>4, <2>5, AppliedKeeps DEF AppliedInv
<1>10. ASSUME NEW p \in Runs, Crash(p)
       PROVE  AppliedInv'
  <2>1. run[p].step = "ingesting" => run[p].lease \in leases
    BY WorkerHolds DEF Working
  <2>2. orphans' \subseteq leases
    BY <1>10, <2>1 DEF Crash, At, AppliedInv
  <2> QED BY <1>0, <1>a, <1>10, <2>2, EndedRun, AppliedQuiet DEF Crash
<1>11. ASSUME NEW p \in Runs, NEW s \in Subscriptions, Start(p, s)
       PROVE  AppliedInv'
  <2>1. \A q \in Runs : run'[q] = run[q] \/ run'[q].step \notin {"ingested", "applied"}
    <3> DEFINE x == [Idle EXCEPT !.step = "ready", !.sub = s, !.now = clock,
                                 !.left = MaxDeliveries]
    <3>1. x.step = "ready"
      BY DEF Idle
    <3>2. run' = [run EXCEPT ![p] = x]
      BY <1>11 DEF Start
    <3> HIDE DEF x
    <3> QED BY <3>1, <3>2 DEF RunInv
  <2> QED BY <1>0, <1>a, <1>11, <2>1, <1>b, AppliedQuiet DEF Start
<1>12. ASSUME NEW r \in Records, Reconcile(r)
       PROVE  AppliedInv'
  <2>1. UNCHANGED <<run, receipts, effects, orphans>>
    BY <1>12 DEF Reconcile, runVars
  <2>2. RowsAdded
    BY <1>0, <1>12, ReconcileAdds
  <2> QED BY <1>0, <2>1, <2>2, RowsAddedAcks, <1>b, AppliedQuiet
<1>13. ASSUME NEW s \in Subscriptions, Administer(s)
       PROVE  AppliedInv'
  <2>1. UNCHANGED <<run, receipts, effects, orphans>>
    BY <1>13 DEF Administer, runVars
  <2>2. CASE CreateSubscription(s)
    BY <1>0, <2>1, <2>2, CreateStep, RowsAddedAcks, <1>b, AppliedQuiet
  <2>3. CASE \E on \in BOOLEAN : SetEnabled(s, on)
    <3>1. UNCHANGED deliveries
      BY <2>3 DEF SetEnabled
    <3> QED BY <1>0, <2>1, <3>1, <1>b, AppliedQuiet DEF NoneAcknowledged
  <2> QED BY <1>13, <2>2, <2>3 DEF Administer
<1>14. CASE UNCHANGED <<vars, run, receipts, effects, orphans>>
  BY <1>0, <1>a, <1>14, <1>b, AppliedQuiet
<1>15. ASSUME NEW l \in orphans, Orphan(l)
       PROVE  AppliedInv'
  <2>1. UNCHANGED <<vars, run, receipts, orphans>> /\ effects' = Append(effects, l)
    BY <1>15 DEF Orphan
  <2>2. l \in leases /\ l \in Lease
    BY <1>0 DEF AppliedInv, TypeInv, TypeOK
  <2>3. /\ effects' \in Seq(Lease) /\ Landed' = Landed \cup {l}
        /\ Effected \subseteq Effected'
    BY <2>1, <2>2, AppendEffect DEF AppliedInv
  <2>4. \A k \in DOMAIN deliveries' :
          deliveries'[k].state = "acknowledged" => k \in receipts'
    BY <2>1 DEF AppliedInv, vars
  <2> QED BY <1>0, <2>1, <2>2, <2>3, <2>4, AppliedKeeps DEF AppliedInv
<1> QED
  BY <1>1, <1>2, <1>3, <1>4, <1>5, <1>6, <1>7, <1>8, <1>9, <1>10, <1>11, <1>12,
     <1>13, <1>14, <1>15
  DEF ControllerNext, RunStep, Tick, Touch, controllerVars

LEMMA AppliedInvariant == ControllerSpec => []AppliedInv
<1>1. ControllerInit => AppliedInv
  BY DEF ControllerInit, DeliveryInit, AppliedInv, Landed, Effected, Done, Idle
<1>2. ControllerInv /\ AppliedInv /\ [ControllerNext]_controllerVars => AppliedInv'
  BY AppliedStep DEF ControllerInv
<1> QED
  BY <1>1, <1>2, ControllerInvariant, PTL DEF ControllerSpec

\* For every number of runs, with one cache or several, and wherever they
\* crash: an acknowledged delivery was ingested and has its durable receipt.
THEOREM AcknowledgedWasApplied == ControllerSpec => []AcknowledgedIsApplied
<1>1. AppliedInv => AcknowledgedIsApplied
  BY DEF AppliedInv, Effected, AcknowledgedIsApplied
<1> QED
  BY <1>1, AppliedInvariant, PTL

\* The types of a controlled system: no run ever reads more payload than its
\* budget, a run holds a lease exactly while it works on it, every delivery
\* has a revision, and receipts and effects are of deliveries.
THEOREM ControllerTypeCorrect == ControllerSpec => []ControllerTypeOK
<1>1. ASSUME CatalogInv, RunInv, AppliedInv
      PROVE  ControllerTypeOK
  <2>1. TypeOK /\ TypeInv /\ EventOrder /\ RevisionsKnown
    BY <1>1 DEF CatalogInv, TypeInv
  <2>2. run \in [Runs -> RunState]
    BY <1>1 DEF RunInv, RunOK
  <2>3. \A p \in Runs : run[p].step \in {"idle", "ready"} <=> run[p].lease = NoLease
    BY <1>1 DEF RunInv, RunOK, Working
  <2>4. ASSUME NEW l \in leases
        PROVE  RevisionOf(l) \in Revisions
    <3>1. l.key \in DOMAIN deliveries
      BY <2>1 DEF TypeInv, TypeOK
    <3> QED BY <2>1, <3>1, EventExists DEF RevisionsKnown, RevisionOf, EventAt
  <2>5. orphans \cup Landed \subseteq leases /\ receipts \subseteq DOMAIN deliveries
    BY <1>1, <2>1 DEF AppliedInv, Effected, TypeOK
  <2> QED BY <1>1, <2>1, <2>2, <2>3, <2>4, <2>5
          DEF ControllerTypeOK, RunInv
<1>2. ControllerInv /\ AppliedInv => ControllerTypeOK
  BY <1>1 DEF ControllerInv
<1> QED
  BY <1>2, ControllerInvariant, AppliedInvariant, PTL

-----------------------------------------------------------------------------
(* One worker *)

\* No two runs hold the same lease.
HoldInv ==
    \A p, q \in Runs :
        run[p].lease = run[q].lease /\ run[p].lease # NoLease => p = q

\* Only taking brings a run a lease and only starting makes it busy.
RunsGoOn ==
    \A q \in Runs :
        /\ run'[q].lease \in {run[q].lease, NoLease}
        /\ run'[q].step # "idle" => run[q].step # "idle"

LEMMA EndGoesOn ==
    ASSUME RunInv, NEW p \in Runs, End(p)
    PROVE  RunsGoOn
BY DEF RunInv, End, Idle, RunsGoOn

LEMMA GotoGoesOn ==
    ASSUME RunInv, NEW p \in Runs, run[p].step # "idle", NEW step, Goto(p, step)
    PROVE  RunsGoOn
BY DEF RunInv, RunOK, RunState, Goto, RunsGoOn

LEMMA HoldStep ==
    ASSUME CatalogInv, RunInv, HoldInv, [ControllerNext]_controllerVars
    PROVE  HoldInv'
<1>1. ASSUME NEW p \in Runs, NEW duration \in Durations, Take(p, duration)
      PROVE  HoldInv'
  <2>1. PICK l \in leases' \ leases : run' = [run EXCEPT ![p] =
                   [run[p] EXCEPT !.step = "leased", !.lease = l, !.left = @ - 1]]
    BY <1>1, TakeKeeps
  <2> DEFINE x == [run[p] EXCEPT !.step = "leased", !.lease = l, !.left = @ - 1]
  <2>2. x.lease = l
    BY WorkerHolds DEF RunOK, RunState
  <2>3. run' = [run EXCEPT ![p] = x]
    BY <2>1
  <2> HIDE DEF x
  <2>4. \A q \in Runs : run[q].lease # l \/ run[q].lease = NoLease
    BY <2>1 DEF RunInv, RunOK, RunState
  <2> QED BY <2>2, <2>3, <2>4 DEF HoldInv, RunInv
<1>2. CASE RunsGoOn
  BY <1>2 DEF RunsGoOn, HoldInv
<1>3. ASSUME NEW p \in Runs,
             Drained(p) \/ Defer(p) \/ Unrouted(p) \/ NotMaterialized(p)
                 \/ ApplyFails(p) \/ Crash(p)
      PROVE  RunsGoOn
  BY <1>3, EndGoesOn
  DEF Drained, Defer, Unrouted, NotMaterialized, ApplyFails, Crash, GiveBack
<1>4. ASSUME NEW p \in Runs,
             Materialize(p) \/ FindReceipt(p) \/ Ingest(p) \/ WriteReceipt(p)
      PROVE  RunsGoOn
  BY <1>4, GotoGoesOn DEF Materialize, FindReceipt, Ingest, WriteReceipt, At
<1>5. ASSUME NEW p \in Runs, Settle(p)
      PROVE  RunsGoOn
  <2>1. CASE End(p)
    BY <2>1, EndGoesOn
  <2>2. CASE run' = [run EXCEPT ![p].step = "ready", ![p].lease = NoLease,
                         ![p].admitted = @ + PayloadBytes(run[p].lease)]
    BY <1>5, <2>2 DEF RunInv, RunOK, RunState, RunsGoOn, Settle, At
  <2> QED BY <1>5, <2>1, <2>2 DEF Settle
<1>6. ASSUME NEW p \in Runs, NEW s \in Subscriptions, Start(p, s)
      PROVE  HoldInv'
  <2> DEFINE x == [Idle EXCEPT !.step = "ready", !.sub = s, !.now = clock,
                               !.left = MaxDeliveries]
  <2>1. x.lease = NoLease
    BY DEF Idle
  <2>2. run' = [run EXCEPT ![p] = x]
    BY <1>6 DEF Start
  <2> HIDE DEF x
  <2> QED BY <2>1, <2>2 DEF RunInv, HoldInv
<1>7. CASE UNCHANGED run
  BY <1>7 DEF HoldInv
<1> QED
  BY <1>1, <1>2, <1>3, <1>4, <1>5, <1>6, <1>7
  DEF ControllerNext, RunStep, Orphan, Tick, Touch, Reconcile, Administer, runVars,
      controllerVars

LEMMA HoldInvariant == ControllerSpec => []HoldInv
<1>1. ControllerInit => HoldInv
  BY DEF ControllerInit, HoldInv, Idle
<1>2. ControllerInv /\ HoldInv /\ [ControllerNext]_controllerVars => HoldInv'
  BY HoldStep DEF ControllerInv
<1> QED
  BY <1>1, <1>2, ControllerInvariant, PTL DEF ControllerSpec

\* For every number of runs, and even when each has a cache of its own: of the
\* runs between lease and settle on one record at most one has a lease that
\* the catalog would still accept.
THEOREM OneWorks == ControllerSpec => []OneWorker
<1>1. ASSUME CatalogInv, RunInv, HoldInv
      PROVE  OneWorker
  <2> SUFFICES ASSUME NEW p \in Runs, NEW q \in Runs,
                      run[p].lease.token # 0, run[q].lease.token # 0,
                      run[p].lease.key.sub = run[q].lease.key.sub,
                      run[p].lease.key.record = run[q].lease.key.record,
                      Open(run[p].lease), Open(run[q].lease)
               PROVE  p = q
    BY DEF OneWorker
  <2>1. /\ run[p].lease # NoLease /\ run[q].lease # NoLease
        /\ run[p].lease \in leases /\ run[q].lease \in leases
    BY <1>1 DEF NoLease, RunInv, RunOK, RunState
  <2>2. LeaseExclusive
    BY <1>1, ExclusiveFromInv DEF CatalogInv, OrderInv
  <2>3. run[p].lease = run[q].lease
    BY <2>1, <2>2 DEF LeaseExclusive
  <2> QED BY <1>1, <2>1, <2>3 DEF HoldInv
<1>2. ControllerInv /\ HoldInv => OneWorker
  BY <1>1 DEF ControllerInv
<1> QED
  BY <1>2, ControllerInvariant, HoldInvariant, PTL

-----------------------------------------------------------------------------
(* One cache root *)

\* Under the owner lock one run is busy, nobody takes its delivery from it
\* while it works, and it ingests only what it found no receipt for.
SoleInv ==
    /\ \A p, q \in Runs : run[p].step # "idle" /\ run[q].step # "idle" => p = q
    /\ \A p \in Runs : Working(run[p]) => Open(run[p].lease)
    /\ \A p \in Runs :
        run[p].step = "ingesting" => run[p].lease.key \notin receipts \/ LookupFails

\* A step of the busy run.
LEMMA SoleMoves ==
    ASSUME RunInv, SoleInv, NEW p \in Runs, run[p].step # "idle",
           \A q \in Runs : q # p => run'[q] = run[q],
           Working(run'[p]) => Open(run[p].lease)',
           run'[p].step = "ingesting" => run'[p].lease.key \notin receipts' \/ LookupFails
    PROVE  SoleInv'
<1>1. \A q \in Runs : q # p => run'[q].step = "idle"
  BY DEF SoleInv
<1>2. \A q \in Runs : Working(run'[q]) => q = p
  BY <1>1 DEF Working
<1>3. \A q \in Runs : Working(run[q])' => Open(run[q].lease)'
  BY <1>2 DEF Working
<1> QED
  BY <1>1, <1>3 DEF SoleInv

LEMMA SoleEnds ==
    ASSUME RunInv, SoleInv, NEW p \in Runs, run[p].step # "idle", End(p)
    PROVE  SoleInv'
<1>1. /\ run'[p].step = "idle" /\ \A q \in Runs : q # p => run'[q] = run[q]
  BY DEF End, RunInv, Idle
<1> QED
  BY <1>1, SoleMoves DEF Working

LEMMA SoleGoto ==
    ASSUME RunInv, SoleInv, UNCHANGED vars, NEW p \in Runs, Working(run[p]),
           NEW step, Goto(p, step),
           step = "ingesting" => run[p].lease.key \notin receipts' \/ LookupFails
    PROVE  SoleInv'
<1>1. /\ run'[p].step = step /\ run'[p].lease = run[p].lease
      /\ \A q \in Runs : q # p => run'[q] = run[q]
  BY DEF Goto, RunInv, RunOK, RunState
<1>2. Open(run[p].lease)'
  BY <1>1 DEF SoleInv, Open, vars
<1> QED
  BY <1>1, <1>2, SoleMoves DEF Working

\* A step beside the runs.
LEMMA SoleBeside ==
    ASSUME RunInv, TypeInv, SoleInv, UNCHANGED <<run, receipts>>,
           \A k \in DOMAIN deliveries : deliveries'[k] = deliveries[k]
    PROVE  SoleInv'
<1>1. \A p \in Runs : Working(run[p]) => run[p].lease.key \in DOMAIN deliveries
  BY DEF RunInv, RunOK, RunState, TypeInv, TypeOK
<1>2. \A p \in Runs : Working(run[p])' => Open(run[p].lease)'
  BY <1>1 DEF SoleInv, Open, Working
<1> QED
  BY <1>2 DEF SoleInv

LEMMA SoleStep ==
    ASSUME SharedCache, CatalogInv, RunInv, SoleInv, [ControllerNext]_controllerVars
    PROVE  SoleInv'
<1>0. TypeInv
  BY DEF CatalogInv
<1>1. ASSUME NEW p \in Runs, NEW duration \in Durations, Take(p, duration)
      PROVE  SoleInv'
  <2>1. /\ run[p].step = "ready" /\ run[p].sub \in Subscriptions
        /\ run[p].now \in Times
    BY <1>1, WorkerHolds DEF Take, At
  <2>2. PICK l \in leases' \ leases :
            /\ leases' = leases \cup {l}
            /\ run' = [run EXCEPT ![p] =
                   [run[p] EXCEPT !.step = "leased", !.lease = l, !.left = @ - 1]]
    BY <1>1, TakeKeeps
  <2> DEFINE x == [run[p] EXCEPT !.step = "leased", !.lease = l, !.left = @ - 1]
  <2>3. x.step = "leased" /\ x.lease = l
    BY WorkerHolds DEF RunOK, RunState
  <2>4. run' = [run EXCEPT ![p] = x]
    BY <2>2
  <2> HIDE DEF x
  <2>5. run'[p] = x /\ \A q \in Runs : q # p => run'[q] = run[q]
    BY <2>4 DEF RunInv
  <2>6. Open(l)'
    <3> DEFINE now == run[p].now
               rows == Reclaimed(run[p].sub, now)
    <3>1. PICK k \in DOMAIN rows : Grant(rows, k, now + duration)
      BY <1>1 DEF Take, LeaseNext, Leasable
    <3>2. DOMAIN rows = DOMAIN deliveries /\ rows[k] \in Delivery
      <4>1. DOMAIN rows = DOMAIN deliveries /\ now \in Nat
        BY <2>1, DeliveryAssumption DEF Reclaimed, DeliveryAssumption
      <4> HIDE DEF rows, now
      <4> QED BY <1>0, <2>1, <3>1, <4>1, ReclaimedRow DEF rows, now
    <3> HIDE DEF rows, now
    <3>3. l = [key |-> k, token |-> FreshToken(k),
               attempt |-> rows[k].attempts + 1, expires |-> now + duration]
      BY <2>2, <3>1 DEF Grant
    <3>4. l.key = k /\ l.token = FreshToken(k)
      BY <3>3
    <3>5. deliveries'[k].state = "leased" /\ deliveries'[k].token = FreshToken(k)
      BY <3>1, <3>2 DEF Grant, Delivery
    <3> QED BY <3>4, <3>5 DEF Open
  <2>7. SoleInv'
    <3>1. \A q \in Runs : q # p => run'[q].step = "idle"
      BY <2>1, <2>5 DEF SoleInv
    <3>2. \A q \in Runs : Working(run[q])' => Open(run[q].lease)'
      BY <2>3, <2>5, <2>6, <3>1 DEF Working, Open
    <3> QED BY <2>3, <2>5, <3>1, <3>2 DEF SoleInv
  <2> QED BY <2>7
<1>2. ASSUME NEW p \in Runs,
             Drained(p) \/ Defer(p) \/ Unrouted(p) \/ NotMaterialized(p)
                 \/ ApplyFails(p) \/ Crash(p)
      PROVE  SoleInv'
  <2>1. run[p].step # "idle" /\ End(p)
    BY <1>2
    DEF Drained, Defer, Unrouted, NotMaterialized, ApplyFails, Crash, GiveBack, At
  <2> QED BY <2>1, SoleEnds
<1>3. ASSUME NEW p \in Runs, Materialize(p) \/ FindReceipt(p) \/ Ingest(p) \/ WriteReceipt(p)
      PROVE  SoleInv'
  <2>1. Working(run[p]) /\ UNCHANGED vars
    BY <1>3 DEF Materialize, FindReceipt, Ingest, WriteReceipt, At, Working
  <2>2. \E step : /\ Goto(p, step)
                  /\ step = "ingesting" =>
                         run[p].lease.key \notin receipts' \/ LookupFails
    BY <1>3 DEF Materialize, FindReceipt, Ingest, WriteReceipt
  <2> QED BY <2>1, <2>2, SoleGoto
<1>4. ASSUME NEW p \in Runs, Settle(p)
      PROVE  SoleInv'
  <2>1. run[p].step = "applied"
    BY <1>4 DEF Settle, At
  <2>2. CASE End(p)
    BY <2>1, <2>2, SoleEnds
  <2>3. CASE run' = [run EXCEPT ![p].step = "ready", ![p].lease = NoLease,
                         ![p].admitted = @ + PayloadBytes(run[p].lease)]
    <3>1. run'[p].step = "ready" /\ \A q \in Runs : q # p => run'[q] = run[q]
      BY <2>3 DEF RunInv, RunOK, RunState
    <3> QED BY <2>1, <3>1, SoleMoves DEF Working
  <2> QED BY <1>4, <2>2, <2>3 DEF Settle
<1>5. ASSUME NEW p \in Runs, NEW s \in Subscriptions, Start(p, s)
      PROVE  SoleInv'
  <2>1. \A q \in Runs : run[q].step = "idle"
    BY <1>5 DEF Start, At
  <2> DEFINE x == [Idle EXCEPT !.step = "ready", !.sub = s, !.now = clock,
                               !.left = MaxDeliveries]
  <2>2. x.step = "ready"
    BY DEF Idle
  <2>3. run' = [run EXCEPT ![p] = x]
    BY <1>5 DEF Start
  <2> HIDE DEF x
  <2>4. run'[p].step = "ready" /\ \A q \in Runs : q # p => run'[q].step = "idle"
    BY <2>1, <2>2, <2>3 DEF RunInv
  <2> QED BY <2>4 DEF SoleInv, Working
<1>6. CASE UNCHANGED <<vars, run, receipts>>
  BY <1>0, <1>6, SoleBeside DEF vars
<1>7. ASSUME NEW r \in Records, Reconcile(r)
      PROVE  SoleInv'
  <2>1. UNCHANGED <<run, receipts>>
    BY <1>7 DEF Reconcile, runVars
  <2>2. RowsAdded
    BY <1>0, <1>7, ReconcileAdds
  <2> QED BY <1>0, <2>1, <2>2, SoleBeside DEF RowsAdded
<1>8. ASSUME NEW s \in Subscriptions, Administer(s)
      PROVE  SoleInv'
  <2>1. UNCHANGED <<run, receipts>>
    BY <1>8 DEF Administer, runVars
  <2>2. CASE CreateSubscription(s)
    BY <1>0, <2>1, <2>2, CreateStep, SoleBeside DEF RowsAdded
  <2>3. CASE \E on \in BOOLEAN : SetEnabled(s, on)
    BY <1>0, <2>1, <2>3, SoleBeside DEF SetEnabled
  <2> QED BY <1>8, <2>2, <2>3 DEF Administer
<1> QED
  BY <1>1, <1>2, <1>3, <1>4, <1>5, <1>6, <1>7, <1>8
  DEF ControllerNext, RunStep, Orphan, Tick, Touch, controllerVars

LEMMA SoleInvariant ==
    ASSUME SharedCache
    PROVE  ControllerSpec => []SoleInv
<1>1. ControllerInit => SoleInv
  BY DEF ControllerInit, SoleInv, Idle, Working
<1>2. ControllerInv /\ SoleInv /\ [ControllerNext]_controllerVars => SoleInv'
  BY SoleStep DEF ControllerInv
<1> QED
  BY <1>1, <1>2, ControllerInvariant, PTL DEF ControllerSpec

\* What reaches the palace is what a run or an orphan brings.
LEMMA EffectsOnlyIngested ==
    ASSUME [ControllerNext]_controllerVars
    PROVE  /\ \/ UNCHANGED effects
              \/ \E p \in Runs : Ingest(p)
              \/ \E l \in orphans : Orphan(l)
           /\ orphans \subseteq orphans'
BY DEF ControllerNext, RunStep, Take, Drained, Defer, Unrouted, Materialize,
       NotMaterialized, Settle, FindReceipt, Ingest, WriteReceipt, ApplyFails, Crash,
       Start, Orphan, Tick, Touch, Reconcile, Administer, runVars, controllerVars

\* A row that was ever leased has an attempt.
LEMMA LeasedAttempts ==
    ASSUME TypeInv, HolderInv, NEW l \in leases
    PROVE  deliveries[l.key].attempts > 0
<1>1. /\ l.key \in DOMAIN deliveries /\ deliveries[l.key].attempts \in Nat
  BY DEF TypeInv, TypeOK, Delivery
<1>2. SUFFICES ASSUME deliveries[l.key].attempts = 0 PROVE FALSE
  BY <1>1
<1>3. Cardinality(LeasesOf(l.key)) = 0 /\ IsFiniteSet(LeasesOf(l.key))
  BY <1>1, <1>2, FS_Subset DEF HolderInv, Held, LeasesOf, TypeInv, TypeOK
<1>4. LeasesOf(l.key) = {}
  BY <1>3, FS_EmptySet
<1> QED
  BY <1>4 DEF LeasesOf

\* When all runs share one cache root and receipts can be looked up: no run
\* ingests a delivery that has its receipt, however often its acknowledgement was
\* lost, and one more effect of it is that of an importer left behind before.
THEOREM ReceiptsStopEffects ==
    SharedCache /\ ~LookupFails /\ ControllerSpec => ReceiptStopsEffects
<1> SUFFICES ASSUME SharedCache, ~LookupFails
             PROVE  ControllerSpec => ReceiptStopsEffects
  OBVIOUS
<1> DEFINE A == \A l \in leases :
                    effects' = Append(effects, l) /\ l.key \in receipts => l \in orphans
<1>1. ASSUME ControllerInv, AppliedInv, SoleInv, ControllerNext
      PROVE  A
  <2> SUFFICES ASSUME NEW l \in leases, effects' = Append(effects, l),
                      l.key \in receipts
               PROVE  l \in orphans
    OBVIOUS
  <2>1. leases \subseteq Lease /\ effects \in Seq(Lease)
    BY <1>1 DEF ControllerInv, CatalogInv, TypeInv, TypeOK, AppliedInv
  <2>2. Len(effects') = Len(effects) + 1 /\ effects'[Len(effects')] = l
        /\ Len(effects) \in Nat
    BY <2>1, AppendEffect
  <2>3. effects' # effects
    BY <2>2
  <2>4. ASSUME NEW p \in Runs, Ingest(p)
        PROVE  FALSE
    <3>1. run[p].lease \in Lease
      BY <1>1, <2>1, <2>4, WorkerHolds DEF Ingest, At, Working, ControllerInv
    <3>2. effects'[Len(effects')] = run[p].lease
      BY <2>1, <2>4, <3>1, AppendEffect DEF Ingest
    <3> QED BY <1>1, <2>2, <2>4, <3>2 DEF SoleInv, Ingest, At
  <2>5. ASSUME NEW m \in orphans, Orphan(m)
        PROVE  l \in orphans
    <3>1. m \in Lease
      BY <1>1, <2>1 DEF AppliedInv
    <3>2. effects'[Len(effects')] = m
      BY <2>1, <2>5, <3>1, AppendEffect DEF Orphan
    <3> QED BY <2>2, <3>2
  <2> QED BY <1>1, <2>3, <2>4, <2>5, EffectsOnlyIngested
<1>2. ControllerInv /\ AppliedInv /\ SoleInv /\ [ControllerNext]_controllerVars
      => [A]_controllerVars
  BY <1>1
<1> QED
  BY <1>2, ControllerInvariant, AppliedInvariant, SoleInvariant, PTL
  DEF ControllerSpec, ReceiptStopsEffects

\* An effect that is not older than those before it, or is an orphan's.
LEMMA OrderExtended ==
    ASSUME EffectsInOrder, effects \in Seq(Lease), NEW l \in Lease,
           effects' = Append(effects, l), orphans \subseteq orphans',
           \/ l \in orphans
           \/ \A i \in 1..Len(effects) :
                  /\ effects[i].key.sub = l.key.sub
                  /\ effects[i].key.record = l.key.record
                  => effects[i].key.version <= l.key.version
    PROVE  EffectsInOrder'
<1>1. /\ Len(effects') = Len(effects) + 1 /\ Len(effects) \in Nat
      /\ effects'[Len(effects')] = l
      /\ \A i \in 1..Len(effects) : effects'[i] = effects[i] /\ effects[i] \in Lease
  BY AppendEffect
<1>2. ASSUME NEW i \in 1..Len(effects'), NEW j \in 1..Len(effects'), Regresses(i, j)'
      PROVE  effects'[j] \in orphans'
  <2>1. i \in 1..Len(effects) /\ effects'[i] = effects[i]
    BY <1>1, <1>2 DEF Regresses
  <2>2. CASE j \in 1..Len(effects)
    <3>1. effects'[j] = effects[j]
      BY <1>1, <2>2
    <3>2. Regresses(i, j)
      BY <1>2, <2>1, <3>1 DEF Regresses
    <3> QED BY <2>1, <2>2, <3>1, <3>2 DEF EffectsInOrder
  <2>3. CASE j = Len(effects') /\ l \notin orphans
    <3>1. effects'[j] = l
      BY <1>1, <2>3
    <3>2. /\ effects[i].key.sub = l.key.sub /\ effects[i].key.record = l.key.record
          /\ effects[i].key.version > l.key.version
      BY <1>2, <2>1, <3>1 DEF Regresses
    <3>3. effects[i].key.version \in Nat /\ l.key.version \in Nat
      BY <1>1, <2>1 DEF Lease, Key
    <3> QED BY <2>1, <2>3, <3>2, <3>3
  <2>4. CASE j = Len(effects') /\ l \in orphans
    BY <1>1, <2>4
  <2> QED BY <1>1, <2>2, <2>3, <2>4
<1> QED
  BY <1>2 DEF EffectsInOrder

\* When all runs share one cache root: the palace sees the versions of a record
\* in their order, whatever expires, crashes and is handed out again, but for
\* what an importer brings that outlived its controller.
THEOREM EffectsOrdered == SharedCache /\ ControllerSpec => []EffectsInOrder
<1> SUFFICES ASSUME SharedCache PROVE ControllerSpec => []EffectsInOrder
  OBVIOUS
<1>1. ControllerInit => EffectsInOrder
  BY DEF ControllerInit, EffectsInOrder
<1>2. ASSUME ControllerInv, AppliedInv, HolderInv, SoleInv, EffectsInOrder,
             [ControllerNext]_controllerVars
      PROVE  EffectsInOrder'
  <2>0. /\ TypeInv /\ RecordOrder /\ effects \in Seq(Lease)
        /\ leases \subseteq Lease /\ orphans \cup Landed \subseteq leases
        /\ orphans \subseteq orphans'
    BY <1>2, EffectsOnlyIngested
    DEF ControllerInv, CatalogInv, AppliedInv, TypeInv, TypeOK
  <2>1. CASE UNCHANGED effects
    BY <1>2, <2>0, <2>1 DEF EffectsInOrder, Regresses
  <2>2. ASSUME NEW p \in Runs, Ingest(p)
        PROVE  EffectsInOrder'
    <3> DEFINE l == run[p].lease
    <3>1. /\ l \in leases /\ l.key \in DOMAIN deliveries
          /\ deliveries[l.key].state = "leased"
      BY <1>2, <2>0, <2>2, WorkerHolds
      DEF Ingest, At, Working, ControllerInv, SoleInv, Open, TypeInv, TypeOK
    <3>2. ASSUME NEW i \in 1..Len(effects),
                 effects[i].key.sub = l.key.sub, effects[i].key.record = l.key.record
          PROVE  effects[i].key.version <= l.key.version
      <4>1. effects[i] \in leases
        BY <2>0 DEF Landed
      <4>2. /\ effects[i].key \in DOMAIN deliveries
            /\ deliveries[effects[i].key].attempts > 0
        BY <1>2, <2>0, <4>1, LeasedAttempts DEF TypeInv, TypeOK
      <4>3. ~(l.key.version < effects[i].key.version)
        BY <2>0, <3>1, <3>2, <4>2 DEF RecordOrder, Earlier, Advancing
      <4>4. l.key.version \in Nat /\ effects[i].key.version \in Nat
        BY <2>0, <3>1, <4>1 DEF Lease, Key
      <4> QED BY <4>3, <4>4
    <3>3. effects' = Append(effects, l) /\ l \in Lease
      BY <2>0, <2>2, <3>1 DEF Ingest
    <3> HIDE DEF l
    <3> QED BY <1>2, <2>0, <3>2, <3>3, OrderExtended
  <2>3. ASSUME NEW l \in orphans, Orphan(l)
        PROVE  EffectsInOrder'
    BY <1>2, <2>0, <2>3, OrderExtended DEF Orphan
  <2> QED BY <1>2, <2>1, <2>2, <2>3, EffectsOnlyIngested
<1>3. /\ ControllerInv /\ AppliedInv /\ HolderInv /\ SoleInv /\ EffectsInOrder
      /\ [ControllerNext]_controllerVars
      => EffectsInOrder'
  BY <1>2
<1> QED
  BY <1>1, <1>3, ControlledRunsDeliver, HolderInvariant, ControllerInvariant,
     AppliedInvariant, SoleInvariant, PTL
  DEF ControllerSpec

\* Where importers also die with their controllers, as they do if the controller
\* is process 1 of its container, the palace never goes back to an older version.
THEOREM ContainedEffectsOrdered ==
    SharedCache /\ ~ImportersOutlive /\ ControllerSpec => []StaleAttemptsRejected
<1> SUFFICES ASSUME SharedCache, ~ImportersOutlive
             PROVE  ControllerSpec => []StaleAttemptsRejected
  OBVIOUS
<1> DEFINE NoOrphan == orphans = {}
<1>1. ControllerInit => NoOrphan
  BY DEF ControllerInit
<1>2. NoOrphan /\ [ControllerNext]_controllerVars => NoOrphan'
  BY DEF ControllerNext, RunStep, Take, Drained, Defer, Unrouted, Materialize,
         NotMaterialized, Settle, FindReceipt, Ingest, WriteReceipt, ApplyFails, Crash,
         Start, Orphan, Tick, Touch, Reconcile, Administer, runVars, controllerVars
<1>3. NoOrphan /\ EffectsInOrder => StaleAttemptsRejected
  BY DEF EffectsInOrder, StaleAttemptsRejected
<1> QED
  BY <1>1, <1>2, <1>3, EffectsOrdered, PTL DEF ControllerSpec

-----------------------------------------------------------------------------
(* One effect for each lease *)

Unlanded(x) == x.step \in {"leased", "materialized", "ingesting"}

\* No lease has two effects, because what a run is still to ingest has neither
\* reached the palace nor been left to an orphan.
OnceInv ==
    /\ \A i, j \in 1..Len(effects) : effects[i] = effects[j] => i = j
    /\ \A p \in Runs : Unlanded(run[p]) => run[p].lease \notin Landed \cup orphans

\* A run that is still to ingest was so before, with the same lease.
LEMMA OnceQuiet ==
    ASSUME OnceInv, Landed' = Landed, effects' = effects, UNCHANGED orphans,
           \A q \in Runs :
               Unlanded(run'[q]) => Unlanded(run[q]) /\ run'[q].lease = run[q].lease
    PROVE  OnceInv'
<1>1. \A q \in Runs : Unlanded(run[q])' => run'[q].lease \notin Landed' \cup orphans'
  BY DEF OnceInv, Unlanded
<1> QED
  BY <1>1 DEF OnceInv

\* One lease that had no effect gets one.
LEMMA OnceExtended ==
    ASSUME OnceInv, effects \in Seq(Lease), NEW l \in Lease,
           effects' = Append(effects, l), l \notin Landed, UNCHANGED orphans,
           \A q \in Runs :
               Unlanded(run'[q]) =>
                   Unlanded(run[q]) /\ run'[q].lease = run[q].lease /\ run[q].lease # l
    PROVE  OnceInv'
<1>1. /\ Landed' = Landed \cup {l}
      /\ Len(effects') = Len(effects) + 1 /\ Len(effects) \in Nat
      /\ effects'[Len(effects')] = l
      /\ \A i \in 1..Len(effects) : effects'[i] = effects[i] /\ effects[i] # l
  BY AppendEffect DEF Landed
<1>2. ASSUME NEW i \in 1..Len(effects'), NEW j \in 1..Len(effects'),
             effects'[i] = effects'[j]
      PROVE  i = j
  <2>1. CASE i \in 1..Len(effects) /\ j \in 1..Len(effects)
    BY <1>1, <1>2, <2>1 DEF OnceInv
  <2>2. CASE i = Len(effects') \/ j = Len(effects')
    BY <1>1, <1>2, <2>2
  <2> QED BY <1>1, <2>1, <2>2
<1>3. \A q \in Runs : Unlanded(run[q])' => run'[q].lease \notin Landed' \cup orphans'
  BY <1>1 DEF OnceInv, Unlanded
<1> QED
  BY <1>2, <1>3 DEF OnceInv

LEMMA EndLands ==
    ASSUME RunInv, NEW p \in Runs, End(p)
    PROVE  /\ ~Unlanded(run'[p])
           /\ \A q \in Runs : q # p => run'[q] = run[q]
BY DEF RunInv, End, Idle, Unlanded

LEMMA OnceStep ==
    ASSUME ControllerInv, AppliedInv, HoldInv, OnceInv, [ControllerNext]_controllerVars
    PROVE  OnceInv'
<1>0. /\ CatalogInv /\ RunInv /\ effects \in Seq(Lease)
      /\ leases \subseteq Lease /\ orphans \cup Landed \subseteq leases
  BY DEF ControllerInv, AppliedInv, CatalogInv, TypeInv, TypeOK
<1>a. effects' = effects => Landed' = Landed
  BY DEF Landed
<1>1. ASSUME NEW p \in Runs, NEW duration \in Durations, Take(p, duration)
      PROVE  OnceInv'
  <2>1. PICK l \in leases' \ leases : run' = [run EXCEPT ![p] =
                   [run[p] EXCEPT !.step = "leased", !.lease = l, !.left = @ - 1]]
    BY <1>0, <1>1, TakeKeeps
  <2> DEFINE x == [run[p] EXCEPT !.step = "leased", !.lease = l, !.left = @ - 1]
  <2>2. x.lease = l
    BY <1>0, WorkerHolds DEF RunOK, RunState
  <2>3. run' = [run EXCEPT ![p] = x]
    BY <2>1
  <2> HIDE DEF x
  <2>4. effects' = effects /\ orphans' = orphans
    BY <1>1 DEF Take
  <2>5. \A q \in Runs : run'[q] = IF q = p THEN x ELSE run[q]
    BY <1>0, <2>3 DEF RunInv
  <2>6. \A q \in Runs : Unlanded(run[q])' => run'[q].lease \notin Landed' \cup orphans'
    BY <1>0, <1>a, <2>1, <2>2, <2>4, <2>5 DEF OnceInv, Unlanded
  <2> QED BY <1>a, <2>4, <2>6 DEF OnceInv
<1>2. ASSUME NEW p \in Runs,
             Drained(p) \/ Defer(p) \/ Unrouted(p) \/ NotMaterialized(p) \/ ApplyFails(p)
      PROVE  OnceInv'
  <2>1. End(p) /\ effects' = effects /\ orphans' = orphans
    BY <1>2 DEF Drained, Defer, Unrouted, NotMaterialized, ApplyFails, GiveBack
  <2> QED BY <1>0, <1>a, <2>1, EndLands, OnceQuiet
<1>3. ASSUME NEW p \in Runs, Crash(p)
      PROVE  OnceInv'
  <2>1. End(p) /\ effects' = effects
    BY <1>3 DEF Crash
  <2>2. \/ orphans' = orphans
        \/ run[p].step = "ingesting" /\ orphans' = orphans \cup {run[p].lease}
    BY <1>3 DEF Crash, At
  <2>3. CASE orphans' = orphans
    BY <1>0, <1>a, <2>1, <2>3, EndLands, OnceQuiet
  <2>4. CASE run[p].step = "ingesting" /\ orphans' = orphans \cup {run[p].lease}
    <3>1. ASSUME NEW q \in Runs, Unlanded(run'[q])
          PROVE  run'[q].lease \notin Landed' \cup orphans'
      <4>1. q # p /\ run'[q] = run[q]
        BY <1>0, <2>1, <3>1, EndLands
      <4>2. run[p].lease # NoLease
        BY <1>0, <2>4, WorkerHolds DEF RunOK, Working
      <4>3. run[q].lease # run[p].lease
        BY <4>1, <4>2 DEF HoldInv
      <4> QED BY <1>a, <2>1, <2>4, <3>1, <4>1, <4>3 DEF OnceInv
    <3> QED BY <2>1, <3>1 DEF OnceInv, Unlanded
  <2> QED BY <2>2, <2>3, <2>4
<1>4. ASSUME NEW p \in Runs, Materialize(p) \/ FindReceipt(p) \/ WriteReceipt(p)
      PROVE  OnceInv'
  <2>1. effects' = effects /\ orphans' = orphans
    BY <1>4 DEF Materialize, FindReceipt, WriteReceipt
  <2>2. \E step : /\ run' = [run EXCEPT ![p].step = step]
                  /\ Unlanded(run[p]) \/ step = "applied"
    BY <1>4 DEF Materialize, FindReceipt, WriteReceipt, At, Goto, Unlanded
  <2>3. PICK step : /\ run' = [run EXCEPT ![p].step = step]
                    /\ Unlanded(run[p]) \/ step = "applied"
    BY <2>2
  <2>4. /\ run'[p].step = step /\ run'[p].lease = run[p].lease
        /\ \A q \in Runs : q # p => run'[q] = run[q]
    BY <1>0, <2>3 DEF RunInv, RunOK, RunState
  <2>5. Unlanded(run'[p]) => Unlanded(run[p])
    BY <2>3, <2>4 DEF Unlanded
  <2> QED BY <1>a, <2>1, <2>4, <2>5, OnceQuiet
<1>5. ASSUME NEW p \in Runs, Settle(p)
      PROVE  OnceInv'
  <2>1. effects' = effects /\ orphans' = orphans
    BY <1>5 DEF Settle
  <2>2. CASE End(p)
    BY <1>0, <1>a, <2>1, <2>2, EndLands, OnceQuiet
  <2>3. CASE run' = [run EXCEPT ![p].step = "ready", ![p].lease = NoLease,
                         ![p].admitted = @ + PayloadBytes(run[p].lease)]
    <3>1. /\ run'[p].step = "ready"
          /\ \A q \in Runs : q # p => run'[q] = run[q]
      BY <1>0, <2>3 DEF RunInv, RunOK, RunState
    <3>2. ~Unlanded(run'[p])
      BY <3>1 DEF Unlanded
    <3> QED BY <1>a, <2>1, <3>1, <3>2, OnceQuiet
  <2> QED BY <1>5, <2>2, <2>3 DEF Settle
<1>6. ASSUME NEW p \in Runs, NEW s \in Subscriptions, Start(p, s)
      PROVE  OnceInv'
  <2> DEFINE x == [Idle EXCEPT !.step = "ready", !.sub = s, !.now = clock,
                               !.left = MaxDeliveries]
  <2>1. x.step = "ready"
    BY DEF Idle
  <2>2. run' = [run EXCEPT ![p] = x] /\ effects' = effects /\ orphans' = orphans
    BY <1>6 DEF Start
  <2> HIDE DEF x
  <2>3. ~Unlanded(run'[p]) /\ \A q \in Runs : q # p => run'[q] = run[q]
    BY <1>0, <2>1, <2>2 DEF RunInv, Unlanded
  <2> QED BY <1>a, <2>2, <2>3, OnceQuiet
<1>7. ASSUME NEW p \in Runs, Ingest(p)
      PROVE  OnceInv'
  <2>1. /\ effects' = Append(effects, run[p].lease) /\ orphans' = orphans
        /\ run[p].step = "ingesting" /\ run' = [run EXCEPT ![p].step = "ingested"]
    BY <1>7 DEF Ingest, At, Goto
  <2>2. run[p].lease \in Lease /\ run[p].lease # NoLease
    BY <1>0, <2>1, WorkerHolds DEF RunOK, Working
  <2>3. run[p].lease \notin Landed
    BY <2>1 DEF OnceInv, Unlanded
  <2>4. run'[p].step = "ingested" /\ \A q \in Runs : q # p => run'[q] = run[q]
    BY <1>0, <2>1 DEF RunInv, RunOK, RunState
  <2>5. \A q \in Runs : q # p => run[q].lease # run[p].lease
    BY <2>2 DEF HoldInv
  <2>6. ~Unlanded(run'[p])
    BY <2>4 DEF Unlanded
  <2> QED BY <1>0, <2>1, <2>2, <2>3, <2>4, <2>5, <2>6, OnceExtended
<1>8. ASSUME NEW l \in orphans, Orphan(l)
      PROVE  OnceInv'
  <2>1. effects' = Append(effects, l) /\ UNCHANGED <<run, orphans>> /\ l \notin Landed
    BY <1>8 DEF Orphan
  <2>2. l \in Lease
    BY <1>0
  <2>3. \A q \in Runs : Unlanded(run[q]) => run[q].lease # l
    BY DEF OnceInv
  <2> QED BY <1>0, <2>1, <2>2, <2>3, OnceExtended
<1>9. CASE UNCHANGED <<run, effects, orphans>>
  BY <1>a, <1>9, OnceQuiet
<1> QED
  BY <1>1, <1>2, <1>3, <1>4, <1>5, <1>6, <1>7, <1>8, <1>9
  DEF ControllerNext, RunStep, Tick, Touch, Reconcile, Administer, runVars, controllerVars

LEMMA OnceInvariant == ControllerSpec => []OnceInv
<1>1. ControllerInit => OnceInv
  BY DEF ControllerInit, OnceInv, Unlanded, Idle
<1>2. /\ ControllerInv /\ AppliedInv /\ HoldInv /\ OnceInv
      /\ [ControllerNext]_controllerVars
      => OnceInv'
  BY OnceStep
<1> QED
  BY <1>1, <1>2, ControllerInvariant, AppliedInvariant, HoldInvariant, PTL
  DEF ControllerSpec

\* With one cache root or several, with importers left behind and receipts that
\* are not found: the palace ingests a delivery at most once for each time it was
\* handed out.
THEOREM EffectsAreBounded == ControllerSpec => []EffectsBounded
<1>1. ASSUME ControllerInv, AppliedInv, HolderInv, OnceInv
      PROVE  EffectsBounded
  <2> SUFFICES ASSUME NEW k \in DOMAIN deliveries
               PROVE  Cardinality({i \in 1..Len(effects) : effects[i].key = k})
                          <= deliveries[k].attempts
    BY DEF EffectsBounded
  <2> DEFINE S == {i \in 1..Len(effects) : effects[i].key = k}
             f == [i \in S |-> effects[i]]
  <2>1. IsFiniteSet(LeasesOf(k)) /\ Cardinality(LeasesOf(k)) = deliveries[k].attempts
    BY <1>1, FS_Subset
    DEF ControllerInv, CatalogInv, TypeInv, TypeOK, HolderInv, Held, LeasesOf
  <2>2. f \in [S -> LeasesOf(k)]
    BY <1>1 DEF AppliedInv, Landed, LeasesOf
  <2>3. \A i, j \in S : f[i] = f[j] => i = j
    BY <1>1 DEF OnceInv
  <2>4. f \in Injection(S, LeasesOf(k))
    BY <2>2, <2>3 DEF Injection, IsInjective
  <2> HIDE DEF S, f
  <2>5. Cardinality(S) <= Cardinality(LeasesOf(k))
    BY <2>1, <2>4, FS_Injection
  <2> QED BY <2>1, <2>5 DEF S
<1>2. ControllerInv /\ AppliedInv /\ HolderInv /\ OnceInv => EffectsBounded
  BY <1>1
<1> QED
  BY <1>2, ControlledRunsDeliver, HolderInvariant, ControllerInvariant,
     AppliedInvariant, OnceInvariant, PTL
=============================================================================
