# Verification of agent-bookkeeper

TLA+ specifications of agent-bookkeeper (`src/`): a catalog of agent session
files with an append-only ledger of archive events, a reconciler that fills it
from directories it does not control, and durable subscriptions that feed the
events to external consumers. The specifications are written from the Rust
sources; `PROJECT.json` maps each definition to the lines it models. Paths
below are relative to `src/src/` unless they name `docs/`.

## The system

### Components

| Component | Source | State it keeps | Operations |
|---|---|---|---|
| Archive ledger | `catalog.rs`, `domain.rs` | tables `records`, `revisions`, `events` | `observe_present_at`, `tombstone_at` |
| Subscription delivery | `delivery.rs` | tables `subscriptions`, `deliveries` | `create_subscription`, enqueueing inside every ledger transaction, `lease_next`, `settle_delivery`, `retry_delivery`, `block_delivery`, `set_subscription_enabled` |
| Source reconciliation | `source_fs.rs`, scan part of `catalog.rs` | tables `source_state`, `source_observations`, `source_records`, `tombstone_candidates` | `Reconciler::scan` and the seven catalog calls it makes |
| Integrity scrub | `source_fs.rs`, `catalog.rs` | table `source_scrub_state` | `Reconciler::scrub` and the calls `source_scrub_progress`, `observe_scrubbed_present_at`, `advance_source_scrub` |
| Controlled run | `controller.rs`, the binary | nothing that outlives a run | `run_path_consumer` |
| MemPalace adapter | `mempalace.rs` | receipt files; the palace is external | `apply` |
| Evidence adapter | `evidence.rs` | manifest files | `apply` |
| Payload, materialization cache | `payload.rs` | cache directory, its owner lock, reservations | `MaterializationCache::new`, `materialize`, `release` |
| Backup and restore | `catalog.rs` | a copy and a manifest | `backup_to`, `validate_backup`, `restore_backup_to` |
| Migration, status, measurement, domain types | `catalog.rs`, `admin.rs`, `measurement.rs`, `domain.rs` | - | - |

### How they interact

Everything shared is in one SQLite catalog. Each operation is one IMMEDIATE
transaction, so operations of different processes are serialized and a crash
leaves all or nothing of one; what a process does *between* two operations is
not protected by anything but the operations themselves. A ledger transaction
also writes the delivery rows of every subscription. A controlled run leases a
row, copies the source file into its cache, verifies it against the revision of
the delivery, hands the copy to the adapter, and settles. The reconciler reads
a file system other programs write; so does the scrub, which hashes what the
scans take for unchanged, a budget at a time, and commits what differs. The
cache of a process is shared by its threads, and its directory by the processes
that own it one after the other. A backup copies the live catalog while others
commit to it. Clock readings are parameters of the
catalog's calls, and one reading serves a whole run.

### What is hard

- Holders of expired leases come back late; clock readings are old or go back.
- A run crashes between lease, materialization, external effect, receipt and
  acknowledgement.
- A controller is killed and the importer it started goes on, without the lock.
- Two controllers overlap when they do not share a cache.
- Threads of one cache reserve, copy, publish, remove and release in steps; a
  removal fails, a process dies and the next one reclaims what it left.
- A file changes, moves or disappears between enumeration, parsing, opening,
  hashing and commit; a mount comes and goes; scanners overtake each other and
  crash between their transactions.
- A scrub cycle is spread over invocations that fail and die; only its cursor is
  kept.
- A backup and a restore read and rename one file after the other, next to
  commits, crashes and other operators.
- Liveness: a lost lease, the lease cap, backoff, record order and the hash
  budget each could leave something waiting for ever.

The list, line by line, is under `hazards` in `PROJECT.json`.

### What makes each component correct

- *Ledger*: the events of a record replay to its row, none is redundant,
  nothing is ever rewritten.
- *Delivery*: versions of a record are handed out in order; one holder at a
  time; a settled row stays settled and was settled by its last holder;
  redelivery is bounded; no subscription misses an event; nothing waits for ever
  except behind a row that was blocked or dead-lettered.
- *Controlled run and adapter*: no acknowledgement without effect and receipt; no
  run starts an effect after its receipt, or an older version after a newer one,
  so that both happen only through an importer left behind by a killed
  controller; and never more effects of a delivery than attempts.
- *Reconciliation*: a file that stays where it is is never tombstoned; what is
  skipped as known was really committed; a source left alone ends up described.
- *Scrub*: a completed cycle has hashed every file that stayed.
- *Cache*: no reservation is lost or returned twice, the directory stays within
  the limits, a lease keeps the bytes it promises.
- *Backup*: what is at a destination is a past state of the ledger, a set that
  validates is never touched again, a restore passes its own validation.

## The modules

| Module | Models | Extends |
|---|---|---|
| `Ledger` | the ledger, one action per transaction | |
| `Backup` | backup, validation and restore beside a live ledger | `Ledger` |
| `Delivery` | subscriptions and leases over the ledger | `Ledger` |
| `DeliveryProgress` | `Delivery` with a clock that never stops, and fairness | `Delivery` |
| `RecordFeed` | the abstract specification: what a subscription promises | |
| `DeliveryFeed` | the refinement mapping from `Delivery` to `RecordFeed` | `Delivery` |
| `Controller` | runs, adapter, source files, clock, crashes, composed with `Delivery` | `Delivery` |
| `MaterializationCache` | the cache: owner lock, reservations, files, leases | |
| `SourceScan` | scans and the scan tables, composed with the ledger | `Ledger` |
| `Scrub` | scrubs and their cursor, composed with the scans | `SourceScan` |
| `LedgerProofs`, `BackupProofs`, `DeliveryProofs`, `HolderProofs`, `FeedProofs`, `ControllerProofs`, `CacheProofs` | theorems | the module they are about |
| `SourceProofs` | theorems about `SourceScan` and `Scrub` | `Scrub` |
| `MC*` | small instances | |

**Ledger.** `records[r]` is the row of identity `r`; `events` the events in
sequence order. A revision is its bytes, because `ensure_revision` finds the
one row with the record's bytes or makes it. `ObservePresent` is
`observe_present_at`: insert at version 0, restore, then commit new bytes or a
new location. `Tombstone` is `tombstone_at`.

**Backup.** `catalogs[x]` and `manifests[x]` are the two files of a recovery set.
An operator's process goes through the reads, the copy and the two renames of
`backup_to` or `restore_backup_to` one step at a time, and `Stop` ends it at any
of them, as an error or a crash does. SQLite's backup starts again when the
source changes, so a copy is the source at one moment. `BackupAssumption` gives
operators destinations of their own; the code needs that (see below).

**Delivery.** `deliveries` maps subscription, record and version to the row.
`leases` is every lease ever granted: a caller may present any of them at any
later time, with any reading of the clock out of `Times`, in any order. That
covers slow callers, retried calls, several controllers and clocks that go
back, without a model of each. `LeaseNext` and `LeaseNone` are the outcomes of
`lease_next`, reclaiming included. Rows are not found by an id: `SequenceOf`
recovers the event of a row.

**RecordFeed and DeliveryFeed.** A feed is one record of one subscription.
Versions join it in ascending order, one worker at a time works on the first
version that is not done, a done version never comes back, a barred one ends the
feed. `DeliveryFeed` reads that off the delivery rows: a version is done when its
row is in a state that advances record order, a feed is busy while a row of it
is leased. One `lease_next` gives up several expired leases, bars those out of
attempts and takes a row, which is one `Turn`.

**Controller.** A run is a process at one of the steps of `run_path_consumer`
and `apply_inner`; between two steps anything else may happen, and `Crash` ends
it at any of them. It keeps the clock reading it started with. The importer is a
child process, which nothing ends with its controller: a crash while a run is
"ingesting" may leave its lease in `orphans`, and `Orphan` lets that effect land at
any later time, whatever other runs have applied and recorded meanwhile; the lock
is free by then. `effects` are the ingests of the palace in order, each with the
lease it was made for. Three constants choose the deployment. `SharedCache`: all
runs use one cache root, whose owner lock (`payload.rs`, `acquire_cache_lock`)
admits one of them. `ImportersOutlive`: not so where the controller is process 1
of its container, as the `ENTRYPOINT` of `Dockerfile.mempalace-controller` makes
it, since the container's processes end with it. `LookupFails`: the `exists()` of
the receipt may fail, which the code takes for a missing receipt. `Reconcile`
stands for the reconciler: it commits what it finds on `disk` when it happens to
look.

**MaterializationCache.** `entries` and `bytes` are the counters under the mutex,
`files` the directory, `job[t]` the call of `materialize`, or the lease, of a
thread. Reserving, creating the partial file, copying, publishing it by rename,
removing it and returning the reservation are steps of their own. `reads` is
what the verified reader may get: the bytes the open file has or had, or `Torn`
when it was written in place meanwhile. `LinkAlias` and `UnlinkAlias` are the hard
link the MemPalace adapter makes in that directory. `DropCache` with
`LeasesOutlive` lets leases live on after their cache, which the types allow.

**SourceScan.** A scanner goes through the phases of `scan`, one step for each
transaction and each read of the file system, visiting files in any order.
`tree` and `mounted` change between any two steps. Generations are compared
with the newest only, so `holder` (whose scan is current) and `seen` (last seen
by the newest generation) replace the counters. The records a complete scan
tombstones may come in any order, since its query has no `ORDER BY`. `steady` is a
history variable of the properties.

**Scrub.** An invocation lists the locations after the durable `cursor`, then
opens, hashes, observes and advances past one file at a time, in location order,
until its byte budget is used up. Scans, other scrubs, changes of the source,
errors and crashes happen between any two steps. `unchecked` is a history
variable: the locations whose file stayed since the cycle began and was not
hashed in it.

Definitions marked `Mutant of ...` are faulty variants of the definition they
precede, one for each property; substituted for it they make TLC report
the property violated. No specification uses them.

## What TLC checks

| Run | Instance | Shows |
|---|---|---|
| `MCLedger` | 1 record, 2 contents, 2 locations, 4 versions; 2 operators, each with a destination, restoring from both | `LedgerReplays`, `EventChain`, `AppendOnly`; `CatalogIsPast`, `ManifestNotAhead`, `KnownGoodKept`, `RestoreValidates`. Four versions are the least in which a record is committed, tombstoned, restored and committed anew |
| `MCDeliveryLeases` | 2 records, 2 versions, cap 2, 2 attempts, backoff 1, clock readings 0..2 in any order | `RecordOrder`, `LeaseExclusive`, `SettledByLastHolder`, `RedeliveryBounded`, `SettledIsFinal`, and `IsRecordFeed`: `Delivery` implements `RecordFeed`. Two attempts give an expired lease beside a new one and a dead letter before a newer version |
| `MCDeliverySubscriptions` | 1 record, 3 versions, a rebuild and a replay created at any time | `NothingMissed`, `UnsupportedWithheld` |
| `MCDeliveryProgress` | 2 records, cap 1, 2 attempts, unbounded time | `LeaseCap`, `EventuallySettled` |
| `MCControllerOneCache` | 2 runs, 1 record, 2 versions, leases of one clock unit, importers that outlive their controller | `AcknowledgedIsApplied`, `EffectsInOrder`, `ReceiptStopsEffects` |
| `MCControllerTwoCaches` | the same without the shared lock and with receipts that are not found, payload budget 1, block policy, a location without a root | `AcknowledgedIsApplied`, `OneWorker`, `EffectsBounded` |
| `MCMaterializationCache` | 2 threads, 2 processes, 3 names, contents of 1 and 2 bytes, limits of 2 entries and 3 bytes | `EntriesAccounted`, `BytesAccounted`, `DiskIsReserved`, `DiskBounded`, `LeaseKeepsFile`; no deadlock |
| `MCReconciliation` | 1 record, 2 locations, contents of 1 and 2 bytes of which the larger exceeds the limit, stability 2, grace of 2 scans and 1 time unit; one scanner with 3 changes, or two scanners with 1, or a scanner and a scrubber with 1 | `AdmittedWasCommitted`, `SightingCancels`, `EventChain`, `SteadyFileSurvives`, `CycleCoversAll` |
| `MCScrubProgress` | 2 records, 2 locations, 1 change that may keep length and time stamp, both byte budgets below the size of a file | `Converges` |
| `MCControllerOrphan` | as `MCControllerOneCache` | violates `StaleAttemptsRejected` |
| `MCSourceScanMovedBack` | 1 scanner, 2 changes | violates `StableIsDescribed` |
| `MCSourceScanSuperseded` | 2 scanners, 2 changes, grace of 1 scan | violates `SupersededScanSilent` |

The type invariants (`BackupTypeOK`, which contains `LedgerTypeOK`, `TypeOK`,
`ControllerTypeOK`, `CacheTypeOK`, `SourceTypeOK`) are checked as well, each in
one run. `MCDelivery` also assumes, and TLC evaluates, `SaturationAgrees`: for
words of up to five bits the saturating shift and product of
`retry_not_before_ms` give the same delay as the unbounded `Backoff` of the model.

### Bounds

- `MaxVersion` and `MaxSequence` stand for the checked conversions that make a
  transaction fail; `MaxChanges` bounds the changes of a source, `MaxClock` the
  clock of `Controller`. Versions in the source runs (12) are never exhausted
  by the changes allowed, so no scan is stopped by that bound.
- Two subscriptions, records, runs, scanners, contents or locations are enough
  for every interaction the code has: all its conditions relate a row to
  another row of one record, a lease to another lease of one row, a scan to
  the newest scan.
- `MCReconciliation` chooses one of three instances in its initial state, because
  the product of two scanners, a scrubber and three changes is too large. What
  one scanner does over several scans needs changes: a move and a move back, an
  outage between two others. What two actors do to each other needs one change
  at the right moment.
- `MCScrubProgress` starts from every source up to the names of records and
  contents (`UpToNames`); nothing in the specification tells two records or two
  contents of one size apart. Symmetry reduction would not be sound for a
  liveness property.
- Three names in `MCMaterializationCache` are one for each thread and one for what
  an earlier process, a failed cleanup or an alias left. A fourth would only
  allow more leftovers.
- One record in `MCLedger` is enough for `Backup`, which treats the ledger as a
  whole; the records of `Ledger` meet only in the order of the events, about
  which `EventChain` and `LedgerReplays` are proved for any number.
- `MCDeliveryProgress` has no bound on time: only differences to the clock
  matter, so the clock is the origin of time (see `DeliveryProgress`).
- Deadlock is checked in `MCMaterializationCache`, where nothing is bounded and
  every thread can always go on. Elsewhere it is off: bounded histories end, and
  a catalog nobody calls is not an error.
- `AdmittedWasCommitted` compares the location and the length, which is all the table
  of observations keeps; the two contents of the run differ in length, so there it
  means the bytes.
- Symmetry is used over runs, contents, locations, names of cache files and the
  two operators with their destinations, for safety properties only, and only where
  no constant depends on them.

### Fairness

`ProgressSpec` of `DeliveryProgress` assumes that time passes and that
`lease_next` is called again and again for each subscription: an operator runs
the controller periodically. Nothing is assumed of consumers, which may hold a
lease for ever, nor of sources. `ScrubFairness`, under which `Converges` is
checked, says that a scanner and a scrubber that can take a step take one: scans
are run one after the other, and scrubs as well, on the bounded schedule
`docs/durability-contract.md:108` asks for. None crashes there: with a crash
`StableIsDescribed` below also breaks convergence. The scrub is needed, because a
rewrite that keeps length and modification time is invisible to the scans.
`Healthy` leaves out sources in which one record has two files, because such a
scan always fails.

## What is proved

Every safety property that a passing run checks is also a theorem: for all values
of the constants that satisfy the assumptions of its module, and so for any number
of records, subscriptions, callers, runs, threads, scanners, scrubbers, operators
and changes. The assumptions (`LedgerAssumption`, `DeliveryAssumption`,
`BackupAssumption`, `CacheAssumption`, `ControllerAssumption`, `SourceAssumption`,
`ScrubAssumption`) ask no more than types, names that differ from each other,
finitely many threads and names of cache files, and, for `Backup`, destinations of
one's own. Four hypotheses are written in the theorems that need them, because the
property is false without: `SharedCache` (all runs use one cache root),
`~LookupFails` (receipts that are there are found), `~ImportersOutlive` (an
importer ends with its controller) and `OneScrubber` (at most one process scrubs a
source at a time).

| Module | Theorems |
|---|---|
| `LedgerProofs` | `LedgerSpec` implies `[]LedgerReplays`, `[]EventChain`, `AppendOnly` |
| `BackupProofs` | `BackupSpec` implies `[]BackupTypeOK`, `[]CatalogIsPast`, `[]ManifestNotAhead`, `KnownGoodKept`, `RestoreValidates` |
| `DeliveryProofs` | `Spec` implies `[]TypeOK`, `[]RecordOrder`, `[]LeaseExclusive`, `SettledIsFinal` |
| `HolderProofs` | `Spec` implies `[]RedeliveryBounded`, `[]SettledByLastHolder`, `[]LeaseCap`, `[]NothingMissed`, `[]UnsupportedWithheld` |
| `FeedProofs` | `Spec` implies `IsRecordFeed`, the refinement |
| `ControllerProofs` | `ControllerSpec` implies `Spec`, `[]ControllerTypeOK`, `[]AcknowledgedIsApplied`, `[]OneWorker`, `[]EffectsBounded`; with `SharedCache` also `[]EffectsInOrder`, with `~LookupFails` besides `ReceiptStopsEffects`, with `~ImportersOutlive` besides `[]StaleAttemptsRejected` |
| `CacheProofs` | `CacheSpec` implies `[]CacheTypeOK`, `[]EntriesAccounted`, `[]BytesAccounted`, `[]DiskIsReserved`, `[]DiskBounded`, `[]LeaseKeepsFile` |
| `SourceProofs` | `ScrubSpec` implies `[]SourceTypeOK`, `[]AdmittedWasCommitted`, `[]SightingCancels`, `[]EventChain`, `[]LedgerReplays`, `SteadyFileSurvives`; with `OneScrubber` also `CycleCoversAll` |

*Ledger.* The invariant is `LedgerGood`: types, every event's version is one its
record has reached, and the two properties themselves. Appending one event that
continues what the old row describes keeps both (`AppendGood`); a tombstone is
one such event, an observation is up to two, a restore and then a commit.

*Backup.* `Knows(o)` says what an operator may rely on at each step: its
destination is still empty, or has the catalog it renamed and no manifest; what
it read of a recovery set is still there. It survives the steps of the others
(`KnowsStays`) because the live ledger only grows, what exists at a destination
is never written again, and destinations differ.

*Delivery.* The inductive invariant is `TypeInv /\ RecordOrder /\ TokenInv`.

- `TypeInv` strengthens `TypeOK`, which is not inductive by itself: that the
  version of a delivery row exists needs that every event has a version its
  record has reached and that absent records are those of version 0
  (`LedgerInv`); and a leased row has been handed out (`attempts > 0`).
- `RecordOrder` is kept by a ledger step because a new row has a version above
  all the record had, and so is earlier than none that was handed out; by
  `LeaseNext` because of its condition on earlier rows; by the other actions
  because rows in an advancing state do not change.
- `TokenInv` says that the leases of a row have different tokens. Two open
  leases of one row both have its token and are equal; two rows of one record
  cannot both be leased, since the later one would have been handed out with the
  earlier one not settled, against `RecordOrder`. Together: `LeaseExclusive`.
- `SettledIsFinal` follows from the actions under `TypeInv`.

*Holders.* `Held(k)` counts the leases of a row by its attempts, ties a leased row
to its last lease and a settled one to the lease that settled it, and keeps the
attempts of a waiting row below the maximum. `CapInv` adds that the leased rows
of a subscription are finitely many; reclaiming only removes some, granting adds
one below the cap. `NothingMissed` is inductive given the types: a ledger step
enqueues exactly the versions it appends, above all that were there. For
`UnsupportedWithheld`, `WithheldInv` says that a row of an event the subscription
does not accept stays blocked and untouched. Rows are found by record and
version, so that needs `EventOrder`: the versions of a record are those of its
events, in the same order, and each has one event only.

*Feeds.* A leased row is the first of its record that is not done, by
`RecordOrder` (`AloneAtWork`), so the version a feed finishes or bars is the one
the abstract specification means. Ledger steps and new subscriptions are
`Publish`, `lease_next`, retries and blocks are `Turn`, a settlement is `Finish`
or, as a dead letter, a `Turn`; everything else is a stutter.

*Controller.* `ControlledRunsDeliver` comes first: every step of a composed system,
a crash of a run included, is a step of `Delivery` or leaves the catalog alone,
because a run presents a lease it was granted and a clock reading that was true
once (`RunInv`). What holds of `Delivery` holds of it from there on.

- `AppliedInv` follows a delivery along the steps of a run: leased, ingested,
  receipt, acknowledged. Each needs the one before, and none is taken back. A
  settlement by another run of the same delivery needs a receipt as well, since
  only a run past its receipt settles.
- `ControllerTypeOK` contains that every delivery has a revision. That is a fact about
  the ledger (`RevisionsKnown`) and about `EventOrder`: the event of a row does
  not change as events are appended.
- `OneWorker` is `LeaseExclusive` and `HoldInv`, that no two runs hold one lease.
- `SoleInv` is what the shared cache adds: one run is busy, and the lease of a
  busy run is open, because only a `lease_next` could reclaim it. It looks for a
  receipt before it ingests, so it does not ingest a delivery with one again; and
  it ingests a delivery that is leased, so by `RecordOrder` nothing newer of that
  record was, which orders the effects of runs. An orphan's effect is bound by
  neither, and both properties except exactly those (`l \in orphans`). Without
  orphans the exception is void, and `StaleAttemptsRejected` follows.
- `OnceInv` counts effects by leases: a run that has not ingested yet and an orphan
  that has not landed have a lease no effect was made for, so each lease has at most
  one effect; and a delivery has as many leases as attempts (`Held`). That needs
  neither the lock nor the receipts: `EffectsBounded`.

*Cache.* `CacheInv` adds to the properties what makes them inductive: a cache that
is not ready has counted nothing (`LockInv`), what a lease may do after its cache
was dropped (`OldInv`), which reservations no lease returns any more (`KeptInv`),
and which files a thread has at each step (`FileInv`).

The reserved bytes are counted one by one (`ReservedBytes`, `KeptBytes`), because the
cardinality of a set can be reasoned about without induction and a sum over a
set cannot. `BytesInv` adds that they are finitely many, and none before the
cache is ready.

*Source.* `SourceInv` holds of any number of scanners and scrubbers.

- `ScansOK` says what a scan has in hand at each step, and that a location is in
  one place of a scan only (`Apart`): still to be listed, found, parsed, in hand
  or accepted.
- Admission is safe although the check that a scan is current and the commit
  are different transactions: a scan about to admit has committed what it admits
  (`HasCommitted`), and events stay. While a scan is current nobody else changes
  what the table says of its files, so the fingerprint it admits is one of the bytes
  it hashed (`TableAgrees`).
- `SeesSteady` is why a file that stays survives: the current scan has seen the
  record of every steady file, or still has the file before it (`Pending`). At
  `Complete` nothing is before it any more, so the record is in `seen`, and a
  seen record is not missing. A mount that goes, or any change of the file, ends
  its being steady.
- `BlockGood` extends the ledger by a block of events of different records, which
  is what a scan that tombstones several at once appends, in any order
  (`Ordered`).
- `CycleInv`, for one scrubber: each file the cycle still has to check sorts after
  the cursor, and the invocation that runs comes to it (`Ahead`). Each step of an
  invocation keeps that (`LeftAhead`), since it takes its files in the order of
  the cursor and drops only those that changed. With two scrubbers TLC violates `CycleCoversAll`, so `OneScrubber`
  is not an artefact of the proof.

Not proved: the liveness properties (`EventuallySettled`, `Converges`), which are out
of reach of the proof system, as is what a recursive definition computes for
every input. `SaturationAgrees` is evaluated by TLC for small words. The runs also
check each theorem's property on an instance.

## What the code does and the documents do not say

Shown by the three runs that end in a violation:

- *A stale attempt is applied.* The adapter does not compare record versions, while
  `docs/payload-delivery-contract.md:93` says consumers reject stale attempts.
  Within one cache root the owner lock keeps runs from it, but not the importer of a
  controller that was killed: version 1 is being ingested, its lease expires,
  another controller applies versions 1 and 2, then the first importer finishes.
  With two caches it takes no crash.
- *A file that moves back keeps the wrong location.* A crash after the commit
  at the new location leaves the fingerprint of the old one admitted; back there
  the file counts as stable and is not committed again.
- *A superseded scan still commits.* `observe_present_from_source` checks that
  the scan is current, then commits in another transaction.

Shown by `ControllerTypeOK`, and proved (`ControllerTypeCorrect`): every delivery that
is handed out has a revision.

- *A tombstone has a payload.* `tombstone_at` keeps the record's revision in
  the event, so a leased tombstone is materialized, and the adapter ingests and
  acknowledges it. `controller.rs:109` and `docs/implementation-status.md:108`
  say tombstones are metadata only and end up `ignored_by_policy`. The branches
  for deliveries without a revision are never taken.

Seen in the models, and not stated as properties:

- `settle_delivery` is given the time at which the run started, so a run that
  outlives its lease acknowledges after the expiry by the wall clock (if nobody
  reclaimed the row), against `docs/implementation-status.md:140`.
- A byte-budget deferral is a retry and uses up an attempt; deferred often
  enough the delivery is dead-lettered, against `docs/implementation-status.md:158`.
- An importer left behind may also repeat a delivery whose receipt another run
  wrote, and so may a run whose `exists()` on the receipt fails.
- A file that is rewritten during each scan of its grace period is dropped
  from each before it is marked as seen, and is tombstoned though it was never
  absent (`docs/durability-contract.md:50` speaks of absence).
- The roots are verified at the start and at the end of a scan or a scrub; a
  mount that goes and comes back in between passes both, over an empty listing.
  When that recurs in each scan of the grace period, files that were there
  before and after are tombstoned.
- One record with two files: scans fail on the duplicate, while each scrub cycle
  commits the record at both locations, one after the other, without end.
- `docs/durability-contract.md:116` leaves moves and restores to the guarded scan;
  the scrub commits those it meets (`observe_scrubbed_present_at` calls
  `observe_present_at`). That is what repairs the location of a file that moved
  back. It also hashes files above the size limit of the scans.
- Two scrubs of one source overwrite each other's cursor, so a completed cycle
  may rest on files hashed before it began.
- `backup_to` reads the event sequence before it copies. If events commit in
  between, it returns success and the recovery set fails `validate_backup`.
- The check that a destination is new and the renames are far apart: of two
  operators with one new path, the later replaces the set of the earlier.
- A crash between the two renames leaves a catalog without a manifest, at a path
  every later backup and restore refuses.
- A failed `materialize` returns its reservation even if its file could not be
  removed: the directory holds one file more than is counted until the next
  start (`abandoned`). `MaterializedLease::release` keeps the reservation instead.
- A lease that outlives its cache loses its file to the next start. The
  controlled run borrows the cache for as long as it holds a lease.
- The hard link of the adapter stays after a crash, or when its removal fails,
  and no start recognizes its name; the comment at `mempalace.rs:236` says it is
  removed whether the process succeeds or fails.

Read in the code, outside the models:

- A file that cannot be parsed stops the scrub before the cursor passes it, in
  every later invocation too.
- `retry_not_before_ms` fails when the clock and the delay do not fit 63 bits. With
  a maximum backoff that large, an expired lease makes every `lease_next` of its
  subscription fail from then on.

## What is not modelled

- The evidence adapter: the protocol of the MemPalace adapter with no effect
  besides its manifest.
- The bytes of receipts, manifests and reports; the digest; the schema version
  and configuration digest of a backup manifest, which always match here.
- Files that cannot be parsed and their effect on scans and scrubs.
- Migration (straight-line SQL at start), status and measurement (reads only),
  argument parsing, validation of identifiers and paths.
- Several sources in one catalog, symbolic links, power loss (SQLite and
  `sync_all` are taken to do what they say), wall clocks in the reconciler
  beyond the differences that count for the grace period.
- The width of integers: versions and sequence numbers are bounded in the guards
  where the code's conversions fail; clocks and delays are unbounded.

## Plan

Done, in this order: `Ledger`, `Delivery`, `DeliveryProgress`, `DeliveryProofs`,
`Controller`, `SourceScan`; `MaterializationCache` and its proofs; `Backup`;
`Scrub`; `RecordFeed`, the refinement and its proof; `HolderProofs`,
`LedgerProofs` and `BackupProofs`; `ControllerProofs` and `SourceProofs`, with which
every safety property of a run has its theorem; importers that outlive their
controllers.

Left:

1. Abstract specifications of a cache (a bounded pool of reservations) and of a
   reconciled source, and the refinements proved step by step as for `RecordFeed`.
2. More of what the properties do not say yet: that the payload bytes a live
   cache has on disk stay below `max_active_bytes`, and what two scrubbers of one
   source still guarantee.
