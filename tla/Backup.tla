------------------------------- MODULE Backup -------------------------------
(***************************************************************************)
(* Backups of the catalog and their restore (Catalog::backup_to,           *)
(* validate_backup and restore_backup_to, src/src/catalog.rs), while       *)
(* observations and tombstones commit to the live ledger.                  *)
(*                                                                         *)
(* A recovery set is two files, the catalog and its manifest, each written *)
(* under a temporary name and renamed.  Every read and every rename is a   *)
(* step: an operator's process can fail or die between any two, and        *)
(* others, and the live catalog, go on meanwhile.  The schema version and  *)
(* the configuration digest of a manifest match here, and a temporary file *)
(* is part of the operation that writes it.                                *)
(***************************************************************************)
EXTENDS Ledger

CONSTANTS
    Operators,   \* processes that back up or restore
    Paths,       \* destinations of recovery sets
    Targets,     \* the destinations each operator chooses from
    Absent       \* no file

\* A copy of the database: its records and its events.
Catalogs == [records : [Records -> RecordRow], events : Seq(Event)]

ASSUME BackupAssumption ==
    /\ Targets \in [Operators -> SUBSET Paths]
    \* The check that a destination is new and the renames that fill it are
    \* not one step: two operators must not choose the same destination.
    /\ \A o, u \in Operators : o # u => Targets[o] \cap Targets[u] = {}
    /\ Absent \notin Nat /\ Absent \notin Paths /\ Absent \notin Catalogs

VARIABLES
    catalogs,    \* the catalog file at each path
    manifests,   \* the latest event sequence in the manifest at each path
    op           \* what each operator is doing

backupVars == <<records, events, catalogs, manifests, op>>

-----------------------------------------------------------------------------

Live == [records |-> records, events |-> events]

Idle == [step |-> "idle"]

BackupInit ==
    /\ LedgerInit
    /\ catalogs = [x \in Paths |-> Absent]
    /\ manifests = [x \in Paths |-> Absent]
    /\ op = [o \in Operators |-> Idle]

At(o, step) == op[o].step = step
Set(o, state) == op' = [op EXCEPT ![o] = state]

\* Mutant of IsNew: a destination is not checked.
AnyPath(x) == TRUE

\* Neither the destination nor its manifest exists.
IsNew(x) == catalogs[x] = Absent /\ manifests[x] = Absent

\* backup_to: the check of the destination, ...
BackupTo(o, x) ==
    /\ At(o, "idle") /\ x \in Targets[o] /\ IsNew(x)
    /\ Set(o, [step |-> "metadata", to |-> x])
    /\ UNCHANGED <<records, events, catalogs, manifests>>

\* ... the metadata, read before the copy,
ReadMetadata(o) ==
    /\ At(o, "metadata")
    /\ Set(o, [step |-> "copy", from |-> Absent, to |-> op[o].to,
               sequence |-> Len(events)])
    /\ UNCHANGED <<records, events, catalogs, manifests>>

\* Mutant of Contents: the records of now with the events of the manifest.
ContentsTorn(o) ==
    IF op[o].from = Absent
    THEN [Live EXCEPT !.events = SubSeq(@, 1, op[o].sequence)]
    ELSE catalogs[op[o].from]

\* The source of the copy: the live catalog, or the artifact of a restore.
Contents(o) == IF op[o].from = Absent THEN Live ELSE catalogs[op[o].from]

\* and the copy: SQLite starts it again when the source changes meanwhile, so
\* it is the source at one moment.
Copy(o) ==
    /\ At(o, "copy")
    /\ Set(o, [step |-> "rename", to |-> op[o].to, restore |-> op[o].from # Absent,
               sequence |-> op[o].sequence, catalog |-> Contents(o)])
    /\ UNCHANGED <<records, events, catalogs, manifests>>

\* Mutants of RenameCatalog: the manifest goes first; the manifest is measured
\* after the copy.
RenameManifestFirst(o) ==
    /\ At(o, "rename")
    /\ manifests' = [manifests EXCEPT ![op[o].to] = op[o].sequence]
    /\ Set(o, [op[o] EXCEPT !.step = "seal"])
    /\ UNCHANGED <<records, events, catalogs>>

RenameAndMeasure(o) ==
    /\ At(o, "rename")
    /\ catalogs' = [catalogs EXCEPT ![op[o].to] = op[o].catalog]
    /\ Set(o, [op[o] EXCEPT !.step = "seal", !.sequence = Len(events)])
    /\ UNCHANGED <<records, events, manifests>>

\* The catalog is renamed to its destination, ...
RenameCatalog(o) ==
    /\ At(o, "rename")
    /\ catalogs' = [catalogs EXCEPT ![op[o].to] = op[o].catalog]
    /\ Set(o, [op[o] EXCEPT !.step = "seal"])
    /\ UNCHANGED <<records, events, manifests>>

\* ... then the manifest.  A restore validates what it has written.
RenameManifest(o) ==
    /\ At(o, "seal")
    /\ manifests' = [manifests EXCEPT ![op[o].to] = op[o].sequence]
    /\ Set(o, IF op[o].restore
              THEN [step |-> "validate", from |-> op[o].to, restore |-> FALSE]
              ELSE Idle)
    /\ UNCHANGED <<records, events, catalogs>>

-----------------------------------------------------------------------------

\* validate_backup, on its own or at the start of restore_backup_to: the
\* manifest is read, ...
Validate(o, x, restore) ==
    /\ At(o, "idle")
    /\ Set(o, [step |-> "validate", from |-> x, restore |-> restore])
    /\ UNCHANGED <<records, events, catalogs, manifests>>

ReadManifest(o) ==
    /\ At(o, "validate") /\ manifests[op[o].from] # Absent
    /\ Set(o, [step |-> "compare", from |-> op[o].from, restore |-> op[o].restore,
               sequence |-> manifests[op[o].from]])
    /\ UNCHANGED <<records, events, catalogs, manifests>>

Matches(sequence, catalog) == catalog # Absent /\ Len(catalog.events) = sequence

\* Mutant of Compare: a catalog with later events will do.
CompareAtLeast(o) ==
    /\ At(o, "compare") /\ catalogs[op[o].from] # Absent
    /\ op[o].sequence <= Len(catalogs[op[o].from].events)
    /\ Set(o, IF op[o].restore THEN [op[o] EXCEPT !.step = "restore"] ELSE Idle)
    /\ UNCHANGED <<records, events, catalogs, manifests>>

\* ... and compared with the catalog.
Compare(o) ==
    /\ At(o, "compare") /\ Matches(op[o].sequence, catalogs[op[o].from])
    /\ Set(o, IF op[o].restore THEN [op[o] EXCEPT !.step = "restore"] ELSE Idle)
    /\ UNCHANGED <<records, events, catalogs, manifests>>

\* restore_backup_to: the copy is made from the artifact, with its manifest.
RestoreTo(o, x) ==
    /\ At(o, "restore") /\ x \in Targets[o] /\ IsNew(x)
    /\ Set(o, [step |-> "copy", from |-> op[o].from, to |-> x,
               sequence |-> op[o].sequence])
    /\ UNCHANGED <<records, events, catalogs, manifests>>

\* The operation returns an error, which removes its temporary files, or the
\* process dies.  What was renamed stays.
Stop(o) ==
    /\ ~At(o, "idle")
    /\ Set(o, Idle)
    /\ UNCHANGED <<records, events, catalogs, manifests>>

OperatorStep(o) ==
    \/ \E x \in Paths : BackupTo(o, x) \/ RestoreTo(o, x)
    \/ \E x \in Paths, restore \in BOOLEAN : Validate(o, x, restore)
    \/ ReadMetadata(o) \/ Copy(o) \/ RenameCatalog(o) \/ RenameManifest(o)
    \/ ReadManifest(o) \/ Compare(o) \/ Stop(o)

BackupNext ==
    \/ LedgerNext /\ UNCHANGED <<catalogs, manifests, op>>
    \/ \E o \in Operators : OperatorStep(o)

BackupSpec == BackupInit /\ [][BackupNext]_backupVars

-----------------------------------------------------------------------------
(* Properties *)

\* The recovery set at x passes validate_backup.
Valid(x) == manifests[x] # Absent /\ Matches(manifests[x], catalogs[x])

\* Types, and a manifest is of events that were there.
BackupTypeOK ==
    /\ LedgerTypeOK
    /\ catalogs \in [Paths -> Catalogs \cup {Absent}]
    /\ manifests \in [Paths -> (0..Len(events)) \cup {Absent}]

\* A catalog that a backup or a restore has put at its destination is the
\* ledger as it was at one moment: its events are the first events of the live
\* ledger, and its records are where these events lead.  What commits during
\* the copy, and who restores from where, does not matter.
CatalogIsPast ==
    \A x \in Paths : catalogs[x] # Absent =>
        /\ catalogs[x].events = SubSeq(events, 1, Len(catalogs[x].events))
        /\ Replays(catalogs[x].records, catalogs[x].events)

\* Wherever an operation fails or its process dies, a manifest stands beside
\* the catalog it is about, which has at least the events the manifest counts.
ManifestNotAhead ==
    \A x \in Paths : manifests[x] # Absent =>
        /\ catalogs[x] # Absent
        /\ manifests[x] <= Len(catalogs[x].events)

\* The last known-good recovery set is not overwritten: a set that validates
\* stays what it is, whatever backups and restores follow and fail.
KnownGoodKept ==
    [][ \A x \in Paths : Valid(x) =>
            catalogs'[x] = catalogs[x] /\ manifests'[x] = manifests[x] ]_backupVars

\* A restore that has written both files passes its own validation: it can not
\* leave its operator with an error and a destination that is taken.
RestoreValidates ==
    [][ \A o \in Operators, x \in Paths :
            /\ At(o, "seal") /\ op[o].restore /\ op[o].to = x
            /\ op'[o].step = "validate"
            => Valid(x)' ]_backupVars
=============================================================================
