----------------------------- MODULE Controller -----------------------------
(***************************************************************************)
(* Controlled runs (run_path_consumer, src/src/controller.rs) feeding the  *)
(* MemPalace adapter (src/src/mempalace.rs) from one catalog, while the    *)
(* source files change, the clock runs and controllers crash.              *)
(*                                                                         *)
(* A run is a process: it reads the clock once, when it starts, and gives  *)
(* that reading to every lease, retry, block and settle it makes.  Between *)
(* two of its calls anything else may happen.  What a run holds is lost    *)
(* with it; the catalog, the receipts and the palace stay.                 *)
(*                                                                         *)
(* The importer is a child process.  Nothing ends it when its controller   *)
(* is killed: the owner lock of the cache is gone with the controller, the *)
(* hard link that is the importer's input stays, and what it was started   *)
(* for may reach the palace at any later time (Orphan).                    *)
(*                                                                         *)
(* Materialization (src/src/payload.rs) is one step here: it verifies the  *)
(* bytes it copied against the revision of the delivery, so it succeeds    *)
(* only if the file held those bytes, and may fail for other reasons.      *)
(***************************************************************************)
EXTENDS Delivery

CONSTANTS
    Runs,              \* controller processes
    Size,              \* byte length of each revision
    MaxDeliveries,     \* ControlledRunLimits
    MaxPayloadBytes,
    Unavailable,       \* UnavailablePayloadPolicy: "retry" or "block"
    Roots,             \* the locations whose root role is configured
    SharedCache,       \* all runs use one cache root and so its owner lock
    ImportersOutlive,  \* an importer goes on when its controller is killed; not
                       \* so where the controller is process 1 of a container
    LookupFails,       \* a receipt may be there and its stat fail
    MaxClock           \* bound on the clock

ASSUME ControllerAssumption ==
    /\ Size \in [Revisions -> Nat]
    /\ MaxDeliveries \in Nat \ {0}
    /\ MaxPayloadBytes \in Nat
    /\ Unavailable \in {"retry", "block"}
    /\ Roots \subseteq Locations
    /\ {SharedCache, ImportersOutlive, LookupFails} \subseteq BOOLEAN
    /\ MaxClock \in Nat
    /\ 0..MaxClock \subseteq Times

VARIABLES
    clock,     \* wall clock
    disk,      \* the bytes at each location, NoRevision if no file is there
    run,       \* the state of each run
    receipts,  \* the deliveries the adapter has a durable receipt for
    effects,   \* the ingests of the palace, oldest first: for which lease each was
    orphans    \* the leases whose importer outlived its controller

runVars == <<clock, disk, run, receipts, effects, orphans>>
controllerVars == <<vars, clock, disk, run, receipts, effects, orphans>>

-----------------------------------------------------------------------------

Steps == {"idle", "ready", "leased", "materialized", "ingesting", "ingested",
          "applied"}

\* What a run without a lease has in place of one.
NoLease == [key |-> [sub |-> 0, record |-> 0, version |-> 0], token |-> 0,
            attempt |-> 0, expires |-> 0]

Idle == [step |-> "idle", sub |-> 0, now |-> 0, left |-> 0, admitted |-> 0,
         lease |-> NoLease]

EventAt(k) == events[SequenceOf(k)]

\* delivery.revision and delivery.location of a lease, and its payload bytes.
RevisionOf(l) == EventAt(l.key).revision
LocationOf(l) == EventAt(l.key).location
PayloadBytes(l) == IF RevisionOf(l) = NoRevision THEN 0 ELSE Size[RevisionOf(l)]

At(p, step) == run[p].step = step
Goto(p, step) == run' = [run EXCEPT ![p].step = step]
End(p) == run' = [run EXCEPT ![p] = Idle]

\* Mutant of Fits: the budget is that of one delivery.
FitsAlone(p) == PayloadBytes(run[p].lease) <= MaxPayloadBytes

Fits(p) == run[p].admitted + PayloadBytes(run[p].lease) <= MaxPayloadBytes

ControllerInit ==
    /\ DeliveryInit
    /\ clock = 0
    /\ disk = [x \in Locations |-> NoRevision]
    /\ run = [p \in Runs |-> Idle]
    /\ receipts = {}
    /\ effects = <<>>
    /\ orphans = {}

-----------------------------------------------------------------------------
(* The run *)

\* Mutant of Start: the cache has no owner lock.
StartUnlocked(p, s) ==
    /\ At(p, "idle")
    /\ s \in subscriptions
    /\ run' = [run EXCEPT ![p] = [Idle EXCEPT !.step = "ready", !.sub = s,
                                              !.now = clock,
                                              !.left = MaxDeliveries]]
    /\ UNCHANGED <<vars, clock, disk, receipts, effects, orphans>>

\* The cache's owner lock admits one process per cache root at a time.
Start(p, s) ==
    /\ At(p, "idle")
    /\ s \in subscriptions
    /\ SharedCache => \A q \in Runs : At(q, "idle")
    /\ run' = [run EXCEPT ![p] = [Idle EXCEPT !.step = "ready", !.sub = s,
                                              !.now = clock,
                                              !.left = MaxDeliveries]]
    /\ UNCHANGED <<vars, clock, disk, receipts, effects, orphans>>

\* The head of the loop: a lease, or the end of the run.
Take(p, duration) ==
    /\ At(p, "ready") /\ run[p].left > 0
    /\ LeaseNext(run[p].sub, run[p].now, duration)
    /\ \E l \in leases' \ leases :
           run' = [run EXCEPT ![p].step = "leased", ![p].lease = l,
                              ![p].left = @ - 1]
    /\ UNCHANGED <<clock, disk, receipts, effects, orphans>>

Drained(p) ==
    /\ At(p, "ready")
    /\ \/ /\ run[p].left > 0
          /\ \/ LeaseNone(run[p].sub, run[p].now)
             \/ run[p].sub \notin enabled /\ UNCHANGED vars
       \/ run[p].left = 0 /\ UNCHANGED vars
    /\ End(p)
    /\ UNCHANGED <<clock, disk, receipts, effects, orphans>>

\* Retry the delivery and end the run; a StaleLease error ends it as well.
GiveBack(p) ==
    /\ \/ RetryDelivery(run[p].lease, run[p].now)
       \/ ~Current(run[p].lease, run[p].now) /\ UNCHANGED vars
    /\ End(p)

\* DeferredByByteBudget
Defer(p) ==
    /\ At(p, "leased") /\ ~Fits(p)
    /\ GiveBack(p)
    /\ UNCHANGED <<clock, disk, receipts, effects, orphans>>

\* The root role of the location is not configured.
Unrouted(p) ==
    /\ At(p, "leased") /\ Fits(p)
    /\ LocationOf(run[p].lease) \notin Roots
    /\ GiveBack(p)
    /\ UNCHANGED <<clock, disk, receipts, effects, orphans>>

\* cache.materialize of a delivery with a revision.
Materialize(p) ==
    /\ At(p, "leased") /\ Fits(p)
    /\ LocationOf(run[p].lease) \in Roots
    /\ disk[LocationOf(run[p].lease)] = RevisionOf(run[p].lease)
    /\ Goto(p, "materialized")
    /\ UNCHANGED <<vars, clock, disk, receipts, effects, orphans>>

NotMaterialized(p) ==
    /\ At(p, "leased") /\ Fits(p)
    /\ LocationOf(run[p].lease) \in Roots
    /\ \/ Unavailable = "retry" /\ GiveBack(p)
       \/ /\ Unavailable = "block"
          /\ \/ BlockDelivery(run[p].lease, run[p].now)
             \/ ~Current(run[p].lease, run[p].now) /\ UNCHANGED vars
          /\ End(p)
    /\ UNCHANGED <<clock, disk, receipts, effects, orphans>>

\* consumer.apply returned Ok: settle, and go on with the loop.
Settle(p) ==
    /\ At(p, "applied")
    /\ \/ /\ SettleDelivery(run[p].lease, "acknowledged", run[p].now)
          /\ run' = [run EXCEPT ![p].step = "ready", ![p].lease = NoLease,
                         ![p].admitted = @ + PayloadBytes(run[p].lease)]
       \/ /\ ~Current(run[p].lease, run[p].now)
          /\ UNCHANGED vars
          /\ End(p)
    /\ UNCHANGED <<clock, disk, receipts, effects, orphans>>

\* The process dies, or an error returns without closing the lease.  An importer
\* it waits for ends with it or goes on.
Crash(p) ==
    /\ ~At(p, "idle")
    /\ \/ orphans' = orphans
       \/ /\ ImportersOutlive /\ At(p, "ingesting")
          /\ orphans' = orphans \cup {run[p].lease}
    /\ End(p)
    /\ UNCHANGED <<vars, clock, disk, receipts, effects>>

-----------------------------------------------------------------------------
(* MempalaceConsumer::apply *)

\* Mutant of FindReceipt: no receipt is looked for.
FindNoReceipt(p) ==
    /\ At(p, "materialized")
    /\ Goto(p, "ingesting")
    /\ UNCHANGED <<vars, clock, disk, receipts, effects, orphans>>

\* A receipt of the same delivery answers without a second ingest.  (Its bytes
\* always match: a delivery has one revision and one location.)  exists() takes a
\* failed stat for a missing file.
FindReceipt(p) ==
    /\ At(p, "materialized")
    /\ \/ run[p].lease.key \in receipts /\ Goto(p, "applied")
       \/ /\ run[p].lease.key \notin receipts \/ LookupFails
          /\ Goto(p, "ingesting")
    /\ UNCHANGED <<vars, clock, disk, receipts, effects, orphans>>

\* Mutant of Ingest: an importer that exits with an error is started again.
IngestAgain(p) ==
    /\ At(p, "ingesting")
    /\ effects' = Append(effects, run[p].lease)
    /\ \E step \in {"ingesting", "ingested"} : Goto(p, step)
    /\ UNCHANGED <<vars, clock, disk, receipts, orphans>>

\* The palace takes the payload, and the importer exits.
Ingest(p) ==
    /\ At(p, "ingesting")
    /\ effects' = Append(effects, run[p].lease)
    /\ Goto(p, "ingested")
    /\ UNCHANGED <<vars, clock, disk, receipts, orphans>>

\* Mutant of WriteReceipt: a receipt that could not be written is no error.
WriteReceiptMaybe(p) ==
    /\ At(p, "ingested")
    /\ receipts' \in {receipts, receipts \cup {run[p].lease.key}}
    /\ Goto(p, "applied")
    /\ UNCHANGED <<vars, clock, disk, effects, orphans>>

WriteReceipt(p) ==
    /\ At(p, "ingested")
    /\ receipts' = receipts \cup {run[p].lease.key}
    /\ Goto(p, "applied")
    /\ UNCHANGED <<vars, clock, disk, effects, orphans>>

Landed == {effects[i] : i \in 1..Len(effects)}

\* The palace takes the payload of an importer whose controller is gone.  (One
\* that fails never gets here.)
Orphan(l) ==
    /\ l \in orphans \ Landed
    /\ effects' = Append(effects, l)
    /\ UNCHANGED <<vars, clock, disk, run, receipts, orphans>>

\* The payload or a receipt cannot be read, or the payload not linked; the runner
\* fails before or after the palace took it; or writing the receipt fails, before
\* or after it was renamed into place.
ApplyFails(p) ==
    /\ \/ run[p].step \in {"materialized", "ingesting"} /\ receipts' = receipts
       \/ /\ At(p, "ingested")
          /\ receipts' \in {receipts, receipts \cup {run[p].lease.key}}
    /\ GiveBack(p)
    /\ UNCHANGED <<clock, disk, effects, orphans>>

-----------------------------------------------------------------------------
(* Everything else *)

Tick ==
    /\ clock < MaxClock
    /\ clock' = clock + 1
    /\ UNCHANGED <<vars, disk, run, receipts, effects, orphans>>

\* A file is written, replaced or removed.
Touch(x, revision) ==
    /\ disk[x] # revision
    /\ disk' = [disk EXCEPT ![x] = revision]
    /\ UNCHANGED <<vars, clock, run, receipts, effects, orphans>>

\* The reconciler (here only its effect on the catalog) commits what it saw.
Reconcile(r) ==
    /\ \/ \E x \in Locations : disk[x] # NoRevision /\ Observe(r, x, disk[x])
       \/ (\A x \in Locations : disk[x] = NoRevision) /\ RecordTombstone(r)
    /\ UNCHANGED runVars

Administer(s) ==
    /\ CreateSubscription(s) \/ \E on \in BOOLEAN : SetEnabled(s, on)
    /\ UNCHANGED runVars

RunStep(p) ==
    \/ \E duration \in Durations : Take(p, duration)
    \/ Drained(p) \/ Defer(p) \/ Unrouted(p)
    \/ Materialize(p) \/ NotMaterialized(p) \/ Settle(p)
    \/ FindReceipt(p) \/ Ingest(p) \/ WriteReceipt(p) \/ ApplyFails(p)

ControllerNext ==
    \/ \E p \in Runs : RunStep(p) \/ Crash(p) \/ \E s \in Subscriptions : Start(p, s)
    \/ \E l \in orphans : Orphan(l)
    \/ Tick
    \/ \E x \in Locations, revision \in Revisions \cup {NoRevision} : Touch(x, revision)
    \/ \E r \in Records : Reconcile(r)
    \/ \E s \in Subscriptions : Administer(s)

ControllerSpec == ControllerInit /\ [][ControllerNext]_controllerVars

-----------------------------------------------------------------------------
(* Properties *)

RunState == [step     : Steps,
             sub      : Subscriptions \cup {0},
             now      : 0..MaxClock,
             left     : 0..MaxDeliveries,
             admitted : 0..MaxPayloadBytes,
             lease    : leases \cup {NoLease}]

\* Types; no run reads more payload than its budget; and every delivery has a
\* revision, tombstones included, since their event carries the last one of the
\* record: the branch of run_path_consumer and of apply for a delivery without
\* one is never taken (and is left out here).
ControllerTypeOK ==
    /\ TypeOK
    /\ clock \in 0..MaxClock
    /\ disk \in [Locations -> Revisions \cup {NoRevision}]
    /\ run \in [Runs -> RunState]
    /\ \A p \in Runs : run[p].step \in {"idle", "ready"} <=> run[p].lease = NoLease
    /\ \A l \in leases : RevisionOf(l) \in Revisions
    /\ receipts \subseteq DOMAIN deliveries
    /\ orphans \cup Landed \subseteq leases

\* An acknowledged delivery is durably recorded by the adapter and was
\* ingested, whatever run did which part and wherever it crashed: an
\* acknowledgement is never ahead of the effect it stands for.
AcknowledgedIsApplied ==
    \A k \in DOMAIN deliveries :
        deliveries[k].state = "acknowledged" =>
            /\ k \in receipts
            /\ \E l \in Landed : l.key = k

\* An older version of the record of effect i reaches the palace as effect j.
Regresses(i, j) ==
    /\ i < j
    /\ effects[i].key.sub = effects[j].key.sub
    /\ effects[i].key.record = effects[j].key.record
    /\ effects[i].key.version > effects[j].key.version

\* The palace sees the versions of a record in order, each perhaps repeated
\* after a crash: only an importer that outlived its controller may bring an
\* older one after a newer one.  This rests on the owner lock: a run whose lease
\* expired still applies, and the adapter does not compare versions.
EffectsInOrder ==
    \A i, j \in 1..Len(effects) : Regresses(i, j) => effects[j] \in orphans

\* Once a receipt is written a lost acknowledgement costs no second effect: the
\* only ingest of a delivery that has its receipt is that of an importer started
\* before, whose controller was killed.
ReceiptStopsEffects ==
    [][ \A l \in leases :
            effects' = Append(effects, l) /\ l.key \in receipts => l \in orphans
      ]_controllerVars

\* The palace ingests a delivery at most once for each time it was handed out,
\* and so at most max_attempts times (RedeliveryBounded), with caches that
\* overlap, importers left behind and receipts that are not found.
EffectsBounded ==
    \A k \in DOMAIN deliveries :
        Cardinality({i \in 1..Len(effects) : effects[i].key = k})
            <= deliveries[k].attempts

\* A run that still works on a delivery whose lease is open is the only one:
\* no two runs are between lease and settle on the same record under leases
\* the catalog would both accept.
OneWorker ==
    \A p, q \in Runs :
        /\ run[p].lease.token # 0 /\ run[q].lease.token # 0
        /\ run[p].lease.key.sub = run[q].lease.key.sub
        /\ run[p].lease.key.record = run[q].lease.key.record
        /\ Open(run[p].lease) /\ Open(run[q].lease)
        => p = q

-----------------------------------------------------------------------------
(* What the documents say, and the code does not do *)

\* docs/payload-delivery-contract.md: consumers reject attempts older than the
\* greatest version they applied to the record, so that a delayed one does not
\* bring old content back.  The adapter compares no versions.
StaleAttemptsRejected ==
    \A i, j \in 1..Len(effects) : ~Regresses(i, j)
=============================================================================
