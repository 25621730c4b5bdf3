----------------------------- MODULE SourceScan -----------------------------
(***************************************************************************)
(* Reconciliation of one source (Reconciler::scan, src/src/source_fs.rs)   *)
(* with the scan tables of the catalog (src/src/catalog.rs), while files   *)
(* are written, moved and removed, the source is unmounted and mounted     *)
(* again, scanners crash, and more than one scanner runs.                  *)
(*                                                                         *)
(* Every read of the file system and every catalog transaction is a step   *)
(* of its own.  A scan visits its files in the order of read_dir, which is *)
(* any order.  Files no layout accepts are as good as absent.              *)
(*                                                                         *)
(* Generations only matter by comparison with the newest: holder is the    *)
(* scanner whose scan has the newest generation, while that scan is not    *)
(* complete, and seen is last_seen_generation = the newest generation.     *)
(***************************************************************************)
EXTENDS Ledger, FiniteSets

CONSTANTS
    Scanners,       \* processes that run Reconciler::scan
    Nobody,         \* no scan is current
    NoRow,          \* no row in source_observations
    NoFile,         \* no file at a location
    Stamps,         \* modification times
    Size,           \* byte length of each revision
    MinUnchanged,   \* StabilityPolicy
    MaxCandidate,   \* max_candidate_bytes
    HashBudget,     \* hash_byte_budget_per_scan
    Guarded,        \* DeletionMode::Guarded, else Disabled
    MinScans,       \* TombstoneGrace
    MinElapsed,
    Times,          \* the readings of now_ms
    MaxChanges      \* bound on the changes of the source

ASSUME SourceAssumption ==
    /\ Nobody \notin Scanners
    /\ Size \in [Revisions -> Nat]
    /\ MinUnchanged \in Nat \ {0}
    /\ MaxCandidate \in Nat /\ HashBudget \in Nat
    /\ Guarded \in BOOLEAN
    /\ MinScans \in Nat \ {0} /\ MinElapsed \in Nat
    /\ Times \subseteq Nat /\ MaxChanges \in Nat

VARIABLES
    tree,       \* the file at each location
    mounted,    \* the roots are there and their guards verify
    changes,    \* how often the source changed
    holder,     \* the scanner whose scan is current
    observed,   \* source_observations
    bound,      \* source_records
    seen,       \* the bound records the newest generation has seen
    missing,    \* tombstone_candidates; no scans, no row
    scan,       \* the state of each scanner
    steady      \* for the properties: the records whose file stayed where it
                \* is, unchanged, since the record was last marked as seen

sourceVars == <<tree, mounted, changes>>
tableVars == <<holder, observed, bound, seen, missing, steady>>
allVars == <<records, events, sourceVars, tableVars, scan>>

-----------------------------------------------------------------------------

File == [record : Records, revision : Revisions, stamp : Stamps]

\* SourceFingerprint: the length; device and inode, which tell the files of two
\* records apart; and the modification time.  Contents of one length may share
\* a fingerprint.
Fingerprint(file) == <<Size[file.revision], file.record, file.stamp>>

Visible(x) == mounted /\ tree[x] # NoFile

\* The files of record r among files, and whether any is in the source.
FilesOf(files, r) ==
    {<<x, files[x]>> : x \in {y \in Locations : files[y] # NoFile /\ files[y].record = r}}

InSource(r) == mounted /\ FilesOf(tree, r) # {}

Fingerprints == {Fingerprint(f) : f \in File}

NoScan == [step |-> "idle", todo |-> {}, found |-> {}, parsed |-> {},
           accepted |-> {}, current |-> NoFile, bytes |-> 0]

NotMissing == [first |-> 0, scans |-> 0]

SourceInit ==
    /\ LedgerInit
    /\ tree \in [Locations -> File \cup {NoFile}]
    /\ mounted = TRUE
    /\ changes = 0
    /\ holder = Nobody
    /\ observed = [x \in Locations |-> NoRow]
    /\ bound = {}
    /\ seen = {}
    /\ missing = [r \in Records |-> NotMissing]
    /\ scan = [p \in Scanners |-> NoScan]
    /\ steady = {}

At(p, step) == scan[p].step = step
Set(p, state) == scan' = [scan EXCEPT ![p] = state]
Goto(p, step) == Set(p, [scan[p] EXCEPT !.step = step])

\* Mutant of IsCurrent: a superseded scan goes on.
AlwaysCurrent(p) == TRUE

\* ensure_current_source_scan
IsCurrent(p) == holder = p

-----------------------------------------------------------------------------
(* Discovery *)

\* verify_roots and begin_source_scan.
Begin(p) ==
    /\ At(p, "idle") /\ mounted
    /\ holder' = p
    /\ observed' = [x \in Locations |->
           IF observed[x] = NoRow THEN NoRow ELSE [observed[x] EXCEPT !.seen = FALSE]]
    /\ seen' = {}
    /\ Set(p, [NoScan EXCEPT !.step = "enumerate", !.todo = Locations])
    /\ UNCHANGED <<records, events, sourceVars, bound, missing, steady>>

\* enumerate_root, one entry.  An unmounted root looks empty.
Enumerate(p) ==
    /\ At(p, "enumerate")
    /\ \E x \in scan[p].todo :
        LET file == [at |-> x, stat |-> Fingerprint(tree[x])]
            rest == scan[p].todo \ {x}
        IN  Set(p, [scan[p] EXCEPT
                !.step = IF rest = {} THEN "parse" ELSE "enumerate",
                !.todo = rest,
                !.found = IF Visible(x) THEN @ \cup {file} ELSE @])
    /\ UNCHANGED <<records, events, sourceVars, tableVars>>

\* A file that changed since it was enumerated is dropped; the others are
\* parsed.
Parse(p) ==
    /\ At(p, "parse")
    /\ \E c \in scan[p].found :
        /\ Visible(c.at)
        /\ LET file == [at |-> c.at, stat |-> c.stat,
                        record |-> tree[c.at].record]
           IN  Set(p, [scan[p] EXCEPT
                   !.found = @ \ {c},
                   !.parsed = IF Fingerprint(tree[c.at]) = c.stat THEN @ \cup {file}
                              ELSE @])
    /\ UNCHANGED <<records, events, sourceVars, tableVars>>

Duplicates(files) == \E c, d \in files : c # d /\ c.record = d.record

AllParsed(p) ==
    /\ At(p, "parse") /\ scan[p].found = {}
    /\ ~Duplicates(scan[p].parsed)
    /\ Goto(p, "observe")
    /\ UNCHANGED <<records, events, sourceVars, tableVars>>

-----------------------------------------------------------------------------
(* Stability and hashing *)

\* Mutant of ObservedRow: the fingerprint is written and not compared.
ObservedRowUncompared(row, stat) ==
    IF row = NoRow
    THEN [stat |-> stat, unchanged |-> 1, admitted |-> FALSE, seen |-> TRUE]
    ELSE [row EXCEPT !.stat = stat, !.seen = TRUE,
                     !.unchanged = IF @ < MinUnchanged THEN @ + 1 ELSE @]

\* The row observe_source_fingerprint writes for a file.  The count of
\* unchanged observations is only compared with MinUnchanged, where it stops.
ObservedRow(row, stat) ==
    IF row # NoRow /\ row.stat = stat
    THEN [row EXCEPT !.unchanged = IF @ < MinUnchanged THEN @ + 1 ELSE @,
                     !.seen = TRUE]
    ELSE [stat |-> stat, unchanged |-> 1, admitted |-> FALSE, seen |-> TRUE]

ObserveFingerprint(p) ==
    /\ At(p, "observe") /\ IsCurrent(p)
    /\ \E c \in scan[p].parsed :
        LET row == ObservedRow(observed[c.at], c.stat)
        IN  /\ observed' = [observed EXCEPT ![c.at] = row]
            /\ Set(p, [scan[p] EXCEPT !.step = "mark", !.parsed = @ \ {c},
                   !.current = [at |-> c.at, record |-> c.record, row |-> row]])
    /\ UNCHANGED <<records, events, sourceVars, holder, bound, seen, missing, steady>>

\* Mutants of MarkSeen: unknown records are bound as well; the tombstone
\* candidate stays; only new records are marked as seen.
MarkUnknownSeen(r) ==
    /\ bound' = bound \cup {r}
    /\ seen' = seen \cup {r}
    /\ missing' = [missing EXCEPT ![r] = NotMissing]
    /\ steady' = IF InSource(r) THEN steady \cup {r} ELSE steady \ {r}

MarkSeenKeepsCandidate(r) ==
    IF records[r].state = "absent" THEN UNCHANGED <<bound, seen, missing, steady>>
    ELSE /\ bound' = bound \cup {r}
         /\ seen' = seen \cup {r}
         /\ steady' = IF InSource(r) THEN steady \cup {r} ELSE steady \ {r}
         /\ UNCHANGED missing

MarkNewSeen(r) ==
    IF records[r].state = "absent" \/ r \in bound
    THEN UNCHANGED <<bound, seen, missing, steady>>
    ELSE /\ bound' = bound \cup {r}
         /\ seen' = seen \cup {r}
         /\ missing' = [missing EXCEPT ![r] = NotMissing]
         /\ steady' = IF InSource(r) THEN steady \cup {r} ELSE steady \ {r}

\* mark_source_record_seen: nothing for a record that is not in the catalog.
MarkSeen(r) ==
    IF records[r].state = "absent" THEN UNCHANGED <<bound, seen, missing, steady>>
    ELSE /\ bound' = bound \cup {r}
         /\ seen' = seen \cup {r}
         /\ missing' = [missing EXCEPT ![r] = NotMissing]
         /\ steady' = IF InSource(r) THEN steady \cup {r} ELSE steady \ {r}

Mark(p) ==
    /\ At(p, "mark") /\ IsCurrent(p)
    /\ MarkSeen(scan[p].current.record)
    /\ Goto(p, "decide")
    /\ UNCHANGED <<records, events, sourceVars, holder, observed>>

\* What the observation of the current file returned; the table may have
\* changed since.
Row(p) == scan[p].current.row
Bytes(p) == Row(p).stat[1]

NeedsHash(p) == Row(p).unchanged >= MinUnchanged /\ ~Row(p).admitted

\* Mutant of OverLimit: the budget also binds the first file of a scan.
OverLimitFromTheStart(p) ==
    \/ Bytes(p) > MaxCandidate
    \/ scan[p].bytes + Bytes(p) > HashBudget

OverLimit(p) ==
    \/ Bytes(p) > MaxCandidate
    \/ scan[p].bytes > 0 /\ scan[p].bytes + Bytes(p) > HashBudget

\* awaiting_stability, deferred_by_size_limit, deferred_by_hash_budget
Postpone(p) ==
    /\ At(p, "decide")
    /\ \/ Row(p).unchanged < MinUnchanged
       \/ NeedsHash(p) /\ OverLimit(p)
    /\ Goto(p, "observe")
    /\ UNCHANGED <<records, events, sourceVars, tableVars>>

AlreadyStable(p) ==
    /\ At(p, "decide")
    /\ Row(p).unchanged >= MinUnchanged /\ Row(p).admitted
    /\ Goto(p, "observe")
    /\ UNCHANGED <<records, events, sourceVars, tableVars>>

\* The file is opened and parsed again.  If it is not the observed one any
\* more it is dropped.
Same(file, c) == Fingerprint(file) = c.row.stat /\ file.record = c.record

Open(p) ==
    /\ At(p, "decide") /\ NeedsHash(p) /\ ~OverLimit(p)
    /\ LET c == scan[p].current
           file == tree[c.at]
       IN  /\ Visible(c.at)
           /\ IF Same(file, c)
              THEN Set(p, [scan[p] EXCEPT !.step = "hash", !.current =
                       [at |-> c.at, record |-> c.record, row |-> c.row, file |-> file]])
              ELSE Goto(p, "observe")
    /\ UNCHANGED <<records, events, sourceVars, tableVars>>

\* The open file is hashed.  A write in place meanwhile is noticed, and the
\* file is dropped, unless it keeps the fingerprint; replacing or removing the
\* file does not concern the open one.
Hashed(c) ==
    {c.file.revision} \cup {f.revision : f \in
        {g \in {tree[c.at]} \ {NoFile} : Fingerprint(g) = c.row.stat}}

Hash(p) ==
    /\ At(p, "hash")
    /\ LET c == scan[p].current
       IN  \/ \E revision \in Hashed(c) :
                Set(p, [scan[p] EXCEPT
                    !.step = "observe", !.bytes = @ + Bytes(p),
                    !.accepted = @ \cup {[at |-> c.at, record |-> c.record,
                                          revision |-> revision]}])
           \/ tree[c.at] # c.file /\ Goto(p, "observe")
    /\ UNCHANGED <<records, events, sourceVars, tableVars>>

-----------------------------------------------------------------------------
(* Commit *)

\* The second verify_roots.
VerifyAgain(p) ==
    /\ At(p, "observe") /\ scan[p].parsed = {} /\ mounted
    /\ Goto(p, "accept")
    /\ UNCHANGED <<records, events, sourceVars, tableVars>>

\* observe_present_from_source first checks that the scan is current ...
Accept(p) ==
    /\ At(p, "accept") /\ IsCurrent(p)
    /\ \E c \in scan[p].accepted :
        Set(p, [scan[p] EXCEPT !.step = "commit", !.accepted = @ \ {c}, !.current = c])
    /\ UNCHANGED <<records, events, sourceVars, tableVars>>

\* ... then commits the observation in a transaction that does not,
Commit(p) ==
    /\ At(p, "commit")
    /\ LET c == scan[p].current IN ObservePresent(c.record, c.at, c.revision)
    /\ Goto(p, "bind")
    /\ UNCHANGED <<sourceVars, tableVars>>

\* and marks the record as seen.
Bind(p) ==
    /\ At(p, "bind") /\ IsCurrent(p)
    /\ MarkSeen(scan[p].current.record)
    /\ Goto(p, "admit")
    /\ UNCHANGED <<records, events, sourceVars, holder, observed>>

\* mark_source_fingerprint_hashed
Admit(p) ==
    /\ At(p, "admit") /\ IsCurrent(p)
    /\ LET x == scan[p].current.at
       IN  /\ observed[x] # NoRow /\ observed[x].seen
           /\ observed' = [observed EXCEPT ![x].admitted = TRUE]
    /\ Goto(p, "accept")
    /\ UNCHANGED <<records, events, sourceVars, holder, bound, seen, missing, steady>>

\* The row of a missing record after one more complete scan.  The count is
\* only compared with MinScans, where it stops.
Counted(r, now) ==
    IF missing[r].scans = 0 THEN [first |-> now, scans |-> 1]
    ELSE [missing[r] EXCEPT !.scans = IF @ < MinScans THEN @ + 1 ELSE @]

Elapsed(first, now) == IF now > first THEN now - first ELSE 0

\* The bound records the scan did not see, those of them whose grace is over,
\* and of these the ones that are not tombstoned already.
Lost == IF Guarded THEN bound \ seen ELSE {}

Due(now) ==
    {r \in Lost :
        /\ Counted(r, now).scans >= MinScans
        /\ Elapsed(Counted(r, now).first, now) >= MinElapsed}

\* Mutant of Dead: tombstoned records too.
DeadTwice(now) == Due(now)

Dead(now) == {r \in Due(now) : records[r].state = "active"}

TombstonedRow(r) ==
    Transition(records[r], "tombstoned", records[r].revision, records[r].location)

\* The query of the missing records has no ORDER BY.
Orders(set) ==
    {order \in [1..Cardinality(set) -> set] :
        \A i, j \in 1..Cardinality(set) : order[i] = order[j] => i = j}

\* complete_source_scan
Complete(p, now) ==
    /\ At(p, "accept") /\ scan[p].accepted = {} /\ IsCurrent(p)
    /\ \A r \in Dead(now) : TombstonedRow(r).version <= MaxVersion
    /\ records' = [r \in Records |->
           IF r \in Dead(now) THEN TombstonedRow(r) ELSE records[r]]
    /\ \E order \in Orders(Dead(now)) :
        events' = events \o [i \in 1..Len(order) |->
            EventOf(order[i], "record_tombstoned", TombstonedRow(order[i]))]
    /\ missing' = [r \in Records |->
           IF r \in Due(now) THEN NotMissing
           ELSE IF r \in Lost THEN Counted(r, now) ELSE missing[r]]
    /\ observed' = [x \in Locations |->
           IF observed[x] # NoRow /\ ~observed[x].seen THEN NoRow ELSE observed[x]]
    /\ holder' = Nobody
    /\ Set(p, NoScan)
    /\ UNCHANGED <<sourceVars, bound, seen, steady>>

-----------------------------------------------------------------------------
(* Failure *)

\* The scan returns an error.
ScanFails(p) ==
    /\ \/ At(p, "parse") /\ \E c \in scan[p].found : ~Visible(c.at)
       \/ At(p, "parse") /\ scan[p].found = {} /\ Duplicates(scan[p].parsed)
       \/ At(p, "decide") /\ NeedsHash(p) /\ ~OverLimit(p) /\ ~Visible(scan[p].current.at)
       \/ At(p, "observe") /\ scan[p].parsed = {} /\ ~mounted
       \/ /\ scan[p].step \in {"observe", "mark", "accept", "bind", "admit"}
          /\ ~IsCurrent(p)
          /\ At(p, "observe") => scan[p].parsed # {}
    /\ Set(p, NoScan)
    /\ UNCHANGED <<records, events, sourceVars, tableVars>>

\* The process dies, or any other error returns.
Crash(p) ==
    /\ ~At(p, "idle")
    /\ Set(p, NoScan)
    /\ UNCHANGED <<records, events, sourceVars, tableVars>>

-----------------------------------------------------------------------------
(* The source *)

Change(files, up) ==
    /\ changes < MaxChanges
    /\ changes' = changes + 1
    /\ tree' = files
    /\ mounted' = up
    /\ steady' = {r \in steady : up /\ FilesOf(files, r) = FilesOf(tree, r)}
    /\ UNCHANGED <<records, events, holder, observed, bound, seen, missing, scan>>

Write(x, file) == tree[x] # file /\ Change([tree EXCEPT ![x] = file], mounted)
Unlink(x) == tree[x] # NoFile /\ Change([tree EXCEPT ![x] = NoFile], mounted)

\* A rename keeps the fingerprint.
Move(x, y) ==
    /\ x # y /\ tree[x] # NoFile
    /\ Change([tree EXCEPT ![y] = tree[x], ![x] = NoFile], mounted)

Mount == Change(tree, ~mounted)

-----------------------------------------------------------------------------

ScanStep(p) ==
    \/ Begin(p) \/ Enumerate(p) \/ Parse(p) \/ AllParsed(p)
    \/ ObserveFingerprint(p) \/ Mark(p)
    \/ Postpone(p) \/ AlreadyStable(p) \/ Open(p) \/ Hash(p)
    \/ VerifyAgain(p) \/ Accept(p) \/ Commit(p) \/ Bind(p) \/ Admit(p)
    \/ \E now \in Times : Complete(p, now)
    \/ ScanFails(p)

SourceStep ==
    \/ \E x \in Locations, file \in File : Write(x, file)
    \/ \E x \in Locations : Unlink(x)
    \/ \E x, y \in Locations : Move(x, y)
    \/ Mount

SourceNext ==
    \/ \E p \in Scanners : ScanStep(p) \/ Crash(p)
    \/ SourceStep

SourceSpec == SourceInit /\ [][SourceNext]_allVars

-----------------------------------------------------------------------------
(* Properties *)

ObservedRows == [stat : Fingerprints, unchanged : 1..MinUnchanged,
                 admitted : BOOLEAN, seen : BOOLEAN]

\* Types, and an admitted fingerprint was stable.
SourceTypeOK ==
    /\ LedgerTypeOK
    /\ tree \in [Locations -> File \cup {NoFile}]
    /\ holder \in Scanners \cup {Nobody}
    /\ observed \in [Locations -> ObservedRows \cup {NoRow}]
    /\ seen \subseteq bound
    /\ \A r \in bound : records[r].state # "absent"
    /\ \A x \in Locations :
        observed[x] # NoRow /\ observed[x].admitted => observed[x].unchanged = MinUnchanged
    /\ \A p \in Scanners : At(p, "idle") <=> scan[p] = NoScan

\* A file whose fingerprint is admitted is not hashed again: its bytes were
\* committed at that location before, wherever a scan crashed or was overtaken.
\* (The table keeps the length and not the bytes; lengths identify the contents
\* in the run, where they differ.)
AdmittedWasCommitted ==
    \A x \in Locations :
        observed[x] # NoRow /\ observed[x].admitted =>
            \E i \in 1..Len(events) :
                /\ events[i].location = x
                /\ Size[events[i].revision] = observed[x].stat[1]

\* A sighting cancels the tombstone candidate: while one is counted, no scan
\* with the newest generation has seen the record, whichever scan saw it.
SightingCancels ==
    \A r \in Records : missing[r].scans > 0 => r \in bound \ seen

Tombstoned(r) == records[r].state = "active" /\ records'[r].state = "tombstoned"

\* A file that stays where it is, unchanged, is never tombstoned: not by scans
\* that crash, fail or overtake each other, not by an outage of the mount and
\* not by the changes of other files.
SteadyFileSurvives ==
    [][ \A r \in Records : Tombstoned(r) => r \notin steady ]_allVars

-----------------------------------------------------------------------------
(* Progress *)

\* One scan after the other, none of which crashes.
ProgressNext == (\E p \in Scanners : ScanStep(p)) \/ SourceStep

ProgressSpec ==
    /\ SourceInit /\ [][ProgressNext]_allVars
    /\ \A p \in Scanners : WF_allVars(ScanStep(p))

\* The source is healthy: a record has at most one file.
Healthy ==
    /\ mounted
    /\ \A x, y \in Locations :
        x # y /\ tree[x] # NoFile /\ tree[y] # NoFile => tree[x].record # tree[y].record

\* The catalog describes the source.
Described ==
    /\ \A x \in Locations : tree[x] # NoFile =>
        LET row == records[tree[x].record]
        IN  row.state = "active" /\ row.location = x /\ row.revision = tree[x].revision
    /\ Guarded => \A r \in Records : records[r].state = "active" => InSource(r)

\* Once the source is left alone, and healthy, the catalog comes to describe
\* it, whatever moves, rewrites, outages and failed scans went before, and
\* though the hash budget admits one file at a time.
Converges == <>[]Healthy => <>[]Described

-----------------------------------------------------------------------------
(* What the documents say, and the code does not do *)

\* v1.5-design.md: the same session identity at a new path is a location
\* change.  A fingerprint admitted at that path in an earlier scan hides it.
StableIsDescribed ==
    [][ \A p \in Scanners :
            AlreadyStable(p) =>
                LET c == scan[p].current IN records[c.record].location = c.at ]_allVars

\* implementation-status.md: a superseded scan cannot later overwrite presence
\* state.  It can restore a tombstoned record.
SupersededScanSilent ==
    [][ \A p \in Scanners : scan'[p] # scan[p] /\ records' # records =>
            IsCurrent(p) ]_allVars
=============================================================================
