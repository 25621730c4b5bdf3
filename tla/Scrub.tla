------------------------------- MODULE Scrub -------------------------------
(***************************************************************************)
(* The integrity scrub of one source (Reconciler::scrub,                   *)
(* src/src/source_fs.rs, with the scrub tables of src/src/catalog.rs),     *)
(* next to the scans of SourceScan and the changes of the source.          *)
(*                                                                         *)
(* An invocation hashes the files after the durable cursor, in the order   *)
(* of their locations, until its byte budget is used up, and advances the  *)
(* cursor past each; when none is left the cycle is complete.  The source  *)
(* is registered: a scan has begun before the first scrub.                 *)
(***************************************************************************)
EXTENDS SourceScan

CONSTANTS
    Scrubbers,     \* processes that run Reconciler::scrub
    Rank,          \* location_order
    ScrubBudget    \* byte_budget

ASSUME ScrubAssumption ==
    /\ Rank \in [Locations -> Nat \ {0}]
    /\ \A x, y \in Locations : Rank[x] = Rank[y] => x = y
    /\ ScrubBudget \in Nat

VARIABLES
    cursor,        \* source_scrub_state: the rank of the last location done,
                   \* or 0 for none
    scrub,         \* the state of each scrubber
    unchecked      \* for the properties: the locations whose file stayed as it
                   \* is since the cycle began and was not hashed in it

scrubVars == <<allVars, cursor, scrub, unchecked>>

-----------------------------------------------------------------------------

NoScrub == [step |-> "idle", todo |-> {}, found |-> {}, current |-> NoFile, bytes |-> 0]

ScrubInit ==
    /\ SourceInit
    /\ cursor = 0
    /\ scrub = [s \in Scrubbers |-> NoScrub]
    /\ unchecked = {}

Scrubbing(s, step) == scrub[s].step = step
Store(s, state) == scrub' = [scrub EXCEPT ![s] = state]
GotoScrub(s, step) == Store(s, [scrub[s] EXCEPT !.step = step])

\* verify_roots, verify_source_registration and source_scrub_progress.
BeginScrub(s) ==
    /\ Scrubbing(s, "idle") /\ mounted
    /\ Store(s, [NoScrub EXCEPT !.step = "enumerate",
                   !.todo = {x \in Locations : Rank[x] > cursor}])
    /\ unchecked' = IF cursor = 0 THEN {x \in Locations : tree[x] # NoFile} ELSE unchecked
    /\ UNCHANGED <<allVars, cursor>>

\* enumerate_candidates, one entry.  Locations up to the cursor are left out.
EnumerateScrub(s) ==
    /\ Scrubbing(s, "enumerate")
    /\ \/ \E x \in scrub[s].todo :
            LET file == [at |-> x, stat |-> Fingerprint(tree[x])]
            IN  Store(s, [scrub[s] EXCEPT !.todo = @ \ {x},
                            !.found = IF Visible(x) THEN @ \cup {file} ELSE @])
       \/ scrub[s].todo = {} /\ GotoScrub(s, "visit")
    /\ UNCHANGED <<allVars, cursor, unchecked>>

\* Mutant of InOrder: the files are visited as they were enumerated.
AsEnumerated(s) == scrub[s].found

\* The candidate that sorts first.
InOrder(s) == {c \in scrub[s].found : \A d \in scrub[s].found : Rank[c.at] <= Rank[d.at]}

\* Mutant of Exhausted: the budget also binds the first file.
ExhaustedFromTheStart(s, c) == scrub[s].bytes + c.stat[1] > ScrubBudget

Exhausted(s, c) == scrub[s].bytes > 0 /\ scrub[s].bytes + c.stat[1] > ScrubBudget

\* The file is opened.  A file that changed is left to a later cycle.
Visit(s) ==
    /\ Scrubbing(s, "visit")
    /\ \E c \in InOrder(s) :
        /\ ~Exhausted(s, c) /\ Visible(c.at)
        /\ Store(s, [scrub[s] EXCEPT
               !.found = @ \ {c},
               !.step = IF Fingerprint(tree[c.at]) = c.stat THEN "hash" ELSE "advance",
               !.current = [at |-> c.at, row |-> [stat |-> c.stat], file |-> tree[c.at]]])
    /\ UNCHANGED <<allVars, cursor, unchecked>>

\* It is parsed and hashed, unless it is written meanwhile.
HashScrub(s) ==
    /\ Scrubbing(s, "hash")
    /\ LET c == scrub[s].current
       IN  \/ \E revision \in Hashed(c) :
                Store(s, [scrub[s] EXCEPT !.step = "observe",
                    !.bytes = @ + Size[revision],
                    !.current = [at |-> c.at, record |-> c.file.record,
                                 revision |-> revision]])
           \/ tree[c.at] # c.file /\ GotoScrub(s, "advance")
    /\ UNCHANGED <<allVars, cursor, unchecked>>

\* observe_scrubbed_present_at: nothing for a record this source does not own.
ObserveScrub(s) ==
    /\ Scrubbing(s, "observe")
    /\ LET c == scrub[s].current
       IN  /\ IF records[c.record].state = "absent" \/ c.record \notin bound
              THEN UNCHANGED <<records, events>>
              ELSE ObservePresent(c.record, c.at, c.revision)
           /\ unchecked' = unchecked \ {c.at}
    /\ GotoScrub(s, "advance")
    /\ UNCHANGED <<sourceVars, tableVars, scan, cursor>>

\* advance_scrub_cursor
Advance(s) ==
    /\ Scrubbing(s, "advance")
    /\ cursor' = Rank[scrub[s].current.at]
    /\ Store(s, [scrub[s] EXCEPT !.step = "visit", !.current = NoFile])
    /\ UNCHANGED <<allVars, unchecked>>

\* The last verify_roots, ...
EndScrub(s) ==
    /\ Scrubbing(s, "visit") /\ mounted
    /\ \E c \in InOrder(s) : Exhausted(s, c)
    /\ Store(s, NoScrub)
    /\ UNCHANGED <<allVars, cursor, unchecked>>

LastOfCycle(s) ==
    /\ Scrubbing(s, "visit") /\ mounted
    /\ scrub[s].found = {}
    /\ GotoScrub(s, "complete")
    /\ UNCHANGED <<allVars, cursor, unchecked>>

\* ... and advance_source_scrub without a cursor.
CompleteCycle(s) ==
    /\ Scrubbing(s, "complete")
    /\ cursor' = 0
    /\ Store(s, NoScrub)
    /\ UNCHANGED <<allVars, unchecked>>

\* The scrub returns an error.
ScrubFails(s) ==
    /\ \/ Scrubbing(s, "visit") /\ \E c \in InOrder(s) : ~Exhausted(s, c) /\ ~Visible(c.at)
       \/ Scrubbing(s, "visit") /\ ~mounted
            /\ \A c \in InOrder(s) : Exhausted(s, c)
    /\ Store(s, NoScrub)
    /\ UNCHANGED <<allVars, cursor, unchecked>>

\* The process dies.
CrashScrub(s) ==
    /\ ~Scrubbing(s, "idle")
    /\ Store(s, NoScrub)
    /\ UNCHANGED <<allVars, cursor, unchecked>>

-----------------------------------------------------------------------------

ScrubStep(s) ==
    \/ BeginScrub(s) \/ EnumerateScrub(s) \/ Visit(s) \/ HashScrub(s)
    \/ ObserveScrub(s) \/ Advance(s) \/ EndScrub(s) \/ LastOfCycle(s)
    \/ CompleteCycle(s) \/ ScrubFails(s)

\* A change of the source is a change of the files the cycle is about.
ChangeUnderScrub ==
    /\ SourceStep
    /\ unchecked' = {x \in unchecked : mounted /\ mounted' /\ tree'[x] = tree[x]}
    /\ UNCHANGED <<cursor, scrub>>

ScrubNext ==
    \/ /\ \E p \in Scanners : ScanStep(p) \/ Crash(p)
       /\ UNCHANGED <<cursor, scrub, unchecked>>
    \/ \E s \in Scrubbers : ScrubStep(s) \/ CrashScrub(s)
    \/ ChangeUnderScrub

ScrubSpec == ScrubInit /\ [][ScrubNext]_scrubVars

-----------------------------------------------------------------------------
(* Properties *)

\* A completed cycle has hashed every file that stayed as it is since the cycle
\* began, over however many invocations, each cut short by its budget, an error
\* or a crash, and whatever happened to the other files.
CycleCoversAll ==
    [][ \A s \in Scrubbers : CompleteCycle(s) => unchecked = {} ]_scrubVars

-----------------------------------------------------------------------------
(* Progress *)

\* Scans and scrubs, one after the other of each, none of which crashes.
ScrubProgressNext ==
    \/ \E p \in Scanners : ScanStep(p) /\ UNCHANGED <<cursor, scrub, unchecked>>
    \/ \E s \in Scrubbers : ScrubStep(s)
    \/ ChangeUnderScrub

ScrubFairness ==
    /\ \A p \in Scanners :
        WF_scrubVars(ScanStep(p) /\ UNCHANGED <<cursor, scrub, unchecked>>)
    /\ \A s \in Scrubbers : WF_scrubVars(ScrubStep(s))

ScrubProgressSpec ==
    ScrubInit /\ [][ScrubProgressNext]_scrubVars /\ ScrubFairness
=============================================================================
