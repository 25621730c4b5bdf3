------------------------ MODULE MaterializationCache ------------------------
(***************************************************************************)
(* The cache of verified copies (MaterializationCache, src/src/payload.rs) *)
(* and what the MemPalace adapter does in its directory                    *)
(* (src/src/mempalace.rs).                                                 *)
(*                                                                         *)
(* The cache of a process is shared by its threads.  Its counters are      *)
(* under a mutex, the directory is not: reserving, copying, publishing,    *)
(* removing and returning the reservation are steps of their own, between  *)
(* which other threads work, the source is written and the process dies.   *)
(* The counters die with the process, the directory stays.                 *)
(*                                                                         *)
(* A nonce stands for the digest and the uuid in a file name.  The bytes   *)
(* of a file are a revision, or Torn: no revision.                         *)
(***************************************************************************)
EXTENDS Integers, FiniteSets

CONSTANTS
    Threads,
    Processes,
    Home,           \* the process of each thread
    Nobody,         \* no process owns the cache
    Nonces,
    Revisions,
    Torn,           \* bytes read while the file was rewritten
    Size,           \* byte length of each revision
    MaxEntryBytes,  \* MaterializationLimits
    MaxEntries,
    MaxBytes,
    LeasesOutlive   \* leases may be held after the cache is dropped;
                    \* run_path_consumer borrows the cache for the whole run

ASSUME CacheAssumption ==
    /\ Home \in [Threads -> Processes] /\ Nobody \notin Processes
    /\ IsFiniteSet(Threads) /\ IsFiniteSet(Nonces)
    /\ 0 \notin Nonces /\ Torn \notin Revisions
    /\ Size \in [Revisions -> Nat]
    /\ MaxEntryBytes \in Nat /\ MaxEntries \in Nat /\ MaxBytes \in Nat
    /\ MaxEntryBytes <= MaxBytes
    /\ LeasesOutlive \in BOOLEAN

VARIABLES
    owner,      \* the process that holds the owner lock
    ready,      \* it has reclaimed what the last one left
    entries,    \* active_entries and active_bytes of the owner's cache
    bytes,
    files,      \* the directory
    job,        \* what each thread does
    kept,       \* reservations no lease returns any more
    abandoned,  \* for the properties: nonces a failed cleanup left behind
    source      \* the bytes of the external file

cacheVars == <<owner, ready, entries, bytes, files, job, kept, abandoned, source>>

-----------------------------------------------------------------------------

Kinds == {"partial", "payload", "alias"}
Files == [kind : Kinds, nonce : Nonces, bytes : Revisions \cup {Torn}]

\* Mutant of OwnedName: the name of a partial file is not recognised.
OwnedPayload(f) == f.kind = "payload"

\* is_owned_materialization_name; the name of an alias ends in jsonl.
OwnedName(f) == f.kind \in {"partial", "payload"}

FilesOf(n) == {f \in files : OwnedName(f) /\ f.nonce = n}
Named(kind, n) == {f \in files : f.kind = kind /\ f.nonce = n}

Steps == {"idle", "reserved", "created", "copying", "copied", "published",
          "held", "aliased", "removed", "failed"}

\* The steps of a call of materialize.
Making == {"reserved", "created", "copying", "copied", "published", "failed"}

Jobs == [step   : Steps,
         want   : Revisions \cup {Torn},   \* the revision, Torn when idle
         nonce  : Nonces \cup {0},
         reads  : SUBSET (Revisions \cup {Torn}), \* what the reader may get
         linked : BOOLEAN,   \* the open file is still the one at the path
         old    : BOOLEAN]   \* the lease outlived its cache

NoJob == [step |-> "idle", want |-> Torn, nonce |-> 0, reads |-> {},
          linked |-> FALSE, old |-> FALSE]

CacheInit ==
    /\ owner = Nobody /\ ready = FALSE
    /\ entries = 0 /\ bytes = 0
    /\ files = {}
    /\ job = [t \in Threads |-> NoJob]
    /\ kept = {} /\ abandoned = {}
    /\ source \in Revisions

At(t, step) == job[t].step = step
Goto(t, step) == job' = [job EXCEPT ![t].step = step]
Fresh == {n \in Nonces : /\ \A f \in files : f.nonce # n
                         /\ \A t \in Threads : job[t].nonce # n}

-----------------------------------------------------------------------------
(* The owner *)

\* Mutant of AcquireLock: there is no owner lock.
AcquireLockAnyway(p) ==
    /\ owner # p
    /\ owner' = p /\ ready' = FALSE
    /\ entries' = 0 /\ bytes' = 0
    /\ UNCHANGED <<files, job, kept, abandoned, source>>

\* MaterializationCache::new.  The lock is not waited for.
AcquireLock(p) ==
    /\ owner = Nobody
    /\ owner' = p /\ ready' = FALSE
    /\ entries' = 0 /\ bytes' = 0
    /\ UNCHANGED <<files, job, kept, abandoned, source>>

\* reclaim_orphaned_materializations, one file.
Reclaim ==
    /\ owner # Nobody /\ ~ready
    /\ \E f \in files : OwnedName(f) /\ files' = files \ {f}
    /\ UNCHANGED <<owner, ready, entries, bytes, job, kept, abandoned, source>>

\* Every entry of the directory was looked at, or one could not be removed.
Reclaimed ==
    /\ owner # Nobody /\ ~ready
    /\ \A f \in files : ~OwnedName(f)
    /\ ready' = TRUE
    /\ UNCHANGED <<owner, entries, bytes, files, job, kept, abandoned, source>>

ReclaimFails ==
    /\ owner # Nobody /\ ~ready
    /\ \E f \in files : OwnedName(f)
    /\ owner' = Nobody
    /\ UNCHANGED <<ready, entries, bytes, files, job, kept, abandoned, source>>

\* The last handle of the cache is dropped, and the lock with it.  A lease
\* has the counters, not the lock.
DropCache(p) ==
    /\ owner = p /\ ready
    /\ \A t \in Threads : Home[t] = p =>
        IF LeasesOutlive THEN job[t].step \notin Making ELSE At(t, "idle")
    /\ owner' = Nobody /\ ready' = FALSE
    /\ job' = [t \in Threads |->
           IF Home[t] = p /\ ~At(t, "idle") THEN [job[t] EXCEPT !.old = TRUE]
           ELSE job[t]]
    /\ kept' = {} /\ abandoned' = {}
    /\ UNCHANGED <<entries, bytes, files, source>>

\* The process dies.
Crash(p) ==
    /\ owner = p \/ \E t \in Threads : Home[t] = p /\ ~At(t, "idle")
    /\ owner' = IF owner = p THEN Nobody ELSE owner
    /\ ready' = (ready /\ owner # p)
    /\ job' = [t \in Threads |-> IF Home[t] = p THEN NoJob ELSE job[t]]
    /\ kept' = IF owner = p THEN {} ELSE kept
    /\ abandoned' = IF owner = p THEN {} ELSE abandoned
    /\ UNCHANGED <<entries, bytes, files, source>>

-----------------------------------------------------------------------------
(* materialize *)

\* Mutant of Reserve: the limit is checked before the entry is counted.
ReserveOneMore(t, revision) ==
    /\ owner = Home[t] /\ ready /\ At(t, "idle")
    /\ Size[revision] <= MaxEntryBytes
    /\ entries <= MaxEntries /\ bytes + Size[revision] <= MaxBytes
    /\ entries' = entries + 1 /\ bytes' = bytes + Size[revision]
    /\ \E n \in Fresh : job' = [job EXCEPT ![t] =
           [NoJob EXCEPT !.step = "reserved", !.want = revision, !.nonce = n]]
    /\ UNCHANGED <<owner, ready, files, kept, abandoned, source>>

Reserve(t, revision) ==
    /\ owner = Home[t] /\ ready /\ At(t, "idle")
    /\ Size[revision] <= MaxEntryBytes
    /\ entries + 1 <= MaxEntries /\ bytes + Size[revision] <= MaxBytes
    /\ entries' = entries + 1 /\ bytes' = bytes + Size[revision]
    /\ \E n \in Fresh : job' = [job EXCEPT ![t] =
           [NoJob EXCEPT !.step = "reserved", !.want = revision, !.nonce = n]]
    /\ UNCHANGED <<owner, ready, files, kept, abandoned, source>>

\* The output file is created first ...
CreatePartial(t) ==
    /\ At(t, "reserved")
    /\ files' = files \cup {[kind |-> "partial", nonce |-> job[t].nonce, bytes |-> Torn]}
    /\ Goto(t, "created")
    /\ UNCHANGED <<owner, ready, entries, bytes, kept, abandoned, source>>

\* ... then CurrentExternalRevision::open, which compares the length.
Open(t) ==
    /\ At(t, "created")
    /\ Size[source] = Size[job[t].want]
    /\ job' = [job EXCEPT ![t].step = "copying", ![t].reads = {source}, ![t].linked = TRUE]
    /\ UNCHANGED <<owner, ready, entries, bytes, files, kept, abandoned, source>>

\* Mutant of Finish: the fingerprint of the open file stands for its bytes.
FinishUnhashed(t) ==
    /\ At(t, "copying")
    /\ \E got \in job[t].reads :
        files' = (files \ Named("partial", job[t].nonce)) \cup
            {[kind |-> "partial", nonce |-> job[t].nonce, bytes |-> got]}
    /\ Goto(t, "copied")
    /\ UNCHANGED <<owner, ready, entries, bytes, kept, abandoned, source>>

\* VerifiedReader::finish: the digest of the bytes that were copied.
Finish(t) ==
    /\ At(t, "copying")
    /\ \E got \in job[t].reads :
        /\ got = job[t].want
        /\ files' = (files \ Named("partial", job[t].nonce)) \cup
               {[kind |-> "partial", nonce |-> job[t].nonce, bytes |-> got]}
    /\ Goto(t, "copied")
    /\ UNCHANGED <<owner, ready, entries, bytes, kept, abandoned, source>>

\* The rename to the name a consumer gets.
Publish(t) ==
    /\ At(t, "copied")
    /\ files' = (files \ Named("partial", job[t].nonce)) \cup
           {[f EXCEPT !.kind = "payload"] : f \in Named("partial", job[t].nonce)}
    /\ Goto(t, "published")
    /\ UNCHANGED <<owner, ready, entries, bytes, kept, abandoned, source>>

Return(t) ==
    /\ At(t, "published")
    /\ Goto(t, "held")
    /\ UNCHANGED <<owner, ready, entries, bytes, files, kept, abandoned, source>>

\* Any of these steps fails: both names are removed, if they can be ...
Fail(t) ==
    /\ job[t].step \in Making \ {"failed"}
    /\ \/ files' = files \ FilesOf(job[t].nonce) /\ abandoned' = abandoned
       \/ /\ FilesOf(job[t].nonce) # {}
          /\ files' = files /\ abandoned' = abandoned \cup {job[t].nonce}
    /\ Goto(t, "failed")
    /\ UNCHANGED <<owner, ready, entries, bytes, kept, source>>

-----------------------------------------------------------------------------
(* The lease *)

\* codex_stream_input_path: a second name for the file, while the child runs.
LinkAlias(t) ==
    /\ At(t, "held")
    /\ files' = files \cup
           {[f EXCEPT !.kind = "alias"] : f \in Named("payload", job[t].nonce)}
    /\ Goto(t, IF Named("payload", job[t].nonce) = {} THEN "held" ELSE "aliased")
    /\ UNCHANGED <<owner, ready, entries, bytes, kept, abandoned, source>>

UnlinkAlias(t) ==
    /\ At(t, "aliased")
    /\ files' \in {files \ Named("alias", job[t].nonce), files}
    /\ Goto(t, "held")
    /\ UNCHANGED <<owner, ready, entries, bytes, kept, abandoned, source>>

\* MaterializedLease::remove_and_release: the file is removed, or is not there.
Remove(t) ==
    /\ At(t, "held")
    /\ files' = files \ Named("payload", job[t].nonce)
    /\ Goto(t, "removed")
    /\ UNCHANGED <<owner, ready, entries, bytes, kept, abandoned, source>>

\* It cannot be removed, nor when the lease is dropped: the reservation stays.
RemoveFails(t) ==
    /\ At(t, "held") /\ Named("payload", job[t].nonce) # {}
    /\ kept' = IF job[t].old THEN kept
               ELSE kept \cup {[nonce |-> job[t].nonce, bytes |-> Size[job[t].want]]}
    /\ job' = [job EXCEPT ![t] = NoJob]
    /\ UNCHANGED <<owner, ready, entries, bytes, files, abandoned, source>>

Minus(a, b) == IF a >= b THEN a - b ELSE 0

\* Mutants of ReleaseReservation: a failed call of materialize keeps its
\* reservation; the length of the source is returned, not what was reserved.
ReleaseReservationOfLease(t) ==
    /\ job[t].step \in {"removed", "failed"}
    /\ IF job[t].old \/ At(t, "failed") THEN UNCHANGED <<entries, bytes>>
       ELSE entries' = Minus(entries, 1) /\ bytes' = Minus(bytes, Size[job[t].want])
    /\ job' = [job EXCEPT ![t] = NoJob]
    /\ UNCHANGED <<owner, ready, files, kept, abandoned, source>>

ReleaseReservationOfSource(t) ==
    /\ job[t].step \in {"removed", "failed"}
    /\ IF job[t].old THEN UNCHANGED <<entries, bytes>>
       ELSE entries' = Minus(entries, 1) /\ bytes' = Minus(bytes, Size[source])
    /\ job' = [job EXCEPT ![t] = NoJob]
    /\ UNCHANGED <<owner, ready, files, kept, abandoned, source>>

\* release_reservation
ReleaseReservation(t) ==
    /\ job[t].step \in {"removed", "failed"}
    /\ IF job[t].old THEN UNCHANGED <<entries, bytes>>
       ELSE entries' = Minus(entries, 1) /\ bytes' = Minus(bytes, Size[job[t].want])
    /\ job' = [job EXCEPT ![t] = NoJob]
    /\ UNCHANGED <<owner, ready, files, kept, abandoned, source>>

-----------------------------------------------------------------------------
(* The external file *)

\* A write in place reaches a reader that has the file open.
WriteInPlace(revision) ==
    /\ revision # source
    /\ source' = revision
    /\ job' = [t \in Threads |->
           IF At(t, "copying") /\ job[t].linked
           THEN [job[t] EXCEPT !.reads = @ \cup {revision, Torn}] ELSE job[t]]
    /\ UNCHANGED <<owner, ready, entries, bytes, files, kept, abandoned>>

\* A file renamed over it does not.
Replace(revision) ==
    /\ revision # source
    /\ source' = revision
    /\ job' = [t \in Threads |-> [job[t] EXCEPT !.linked = FALSE]]
    /\ UNCHANGED <<owner, ready, entries, bytes, files, kept, abandoned>>

-----------------------------------------------------------------------------

Materialize(t) ==
    \/ \E revision \in Revisions : Reserve(t, revision)
    \/ CreatePartial(t) \/ Open(t) \/ Finish(t) \/ Publish(t) \/ Return(t)
    \/ Fail(t)

Lease(t) ==
    \/ LinkAlias(t) \/ UnlinkAlias(t) \/ Remove(t) \/ RemoveFails(t)
    \/ ReleaseReservation(t)

CacheNext ==
    \/ \E p \in Processes : AcquireLock(p) \/ DropCache(p) \/ Crash(p)
    \/ Reclaim \/ Reclaimed \/ ReclaimFails
    \/ \E t \in Threads : Materialize(t) \/ Lease(t)
    \/ \E revision \in Revisions : WriteInPlace(revision) \/ Replace(revision)

CacheSpec == CacheInit /\ [][CacheNext]_cacheVars

-----------------------------------------------------------------------------
(* Properties *)

\* The leases and calls of materialize of the current owner.
Reserving == {t \in Threads : ~At(t, "idle") /\ ~job[t].old}

Reserved == {job[t].nonce : t \in Reserving} \cup {k.nonce : k \in kept}

\* Types; only the owner's threads have reservations; names are unique.
CacheTypeOK ==
    /\ owner \in Processes \cup {Nobody} /\ ready \in BOOLEAN
    /\ ready => owner # Nobody
    /\ entries \in Nat /\ bytes \in Nat
    /\ files \subseteq Files
    /\ job \in [Threads -> Jobs]
    /\ kept \subseteq [nonce : Nonces, bytes : Nat]
    /\ abandoned \subseteq Nonces
    /\ source \in Revisions
    /\ \A t \in Reserving : ready /\ Home[t] = owner
    /\ \A t \in Threads : At(t, "idle") <=> job[t].nonce = 0
    /\ \A t \in Threads : At(t, "idle") <=> job[t].want = Torn
    /\ \A t, u \in Threads : job[t].nonce = job[u].nonce => t = u \/ At(t, "idle")

\* The count of active entries is the number of calls and leases that hold a
\* reservation, with those whose file could not be removed, on every path of
\* success and failure: no reservation is lost or returned twice.
EntriesAccounted ==
    ready => entries = Cardinality(Reserving) + Cardinality(kept)

\* The reserved bytes one by one, with the thread or the leftover they are
\* reserved for.
BytesOf(x, length) == {x} \X (1..length)

ReservedBytes == UNION {BytesOf(t, Size[job[t].want]) : t \in Reserving}
KeptBytes     == UNION {BytesOf(k, k.bytes) : k \in kept}

\* The count of active bytes is the number of reserved bytes: what a release
\* returns is what the reservation took, however the source changed meanwhile.
BytesAccounted ==
    ready => bytes = Cardinality(ReservedBytes) + Cardinality(KeptBytes)

\* Whatever the threads do, the files a live cache has in its directory are
\* reserved, except those a failed cleanup left there, and the aliases.  After
\* a start none is left of the processes before.
DiskIsReserved ==
    ready => \A f \in files : f.kind # "alias" => f.nonce \in Reserved \cup abandoned

\* So the directory stays within the limits of the cache.
DiskBounded ==
    ready => Cardinality({f.nonce : f \in {g \in files : g.kind # "alias"}} \ abandoned)
             <= MaxEntries

\* A consumer that holds a lease finds the verified bytes at its path, however
\* the source was rewritten and whichever process starts meanwhile.  A lease
\* that outlived its cache has no such promise: the next start takes its file.
LeaseKeepsFile ==
    \A t \in Threads : job[t].step \in {"held", "aliased"} /\ ~job[t].old =>
        [kind |-> "payload", nonce |-> job[t].nonce, bytes |-> job[t].want] \in files
=============================================================================
