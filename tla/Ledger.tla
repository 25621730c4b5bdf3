------------------------------- MODULE Ledger -------------------------------
(***************************************************************************)
(* The archive ledger of the catalog (src/src/catalog.rs): the table of    *)
(* records and the append-only table of archive events.                    *)
(*                                                                         *)
(* Every operation of the catalog is one IMMEDIATE SQLite transaction, so  *)
(* every operation is one action: it commits with all of its writes or it  *)
(* leaves no trace.  Ids, timestamps and the revisions table are           *)
(* abstracted: ensure_revision finds or creates the one revision of a      *)
(* record with given bytes, so a revision IS its bytes here.               *)
(***************************************************************************)
EXTENDS Integers, Sequences

CONSTANTS
    Records,     \* record identities
    Revisions,   \* byte contents a verified source file can have
    Locations,   \* logical locations
    NoRevision,  \* SQL NULL in current_revision_id
    NoLocation,  \* the location of a record that is not in the table yet
    MaxVersion   \* largest record version; the transaction that would
                 \* exceed it fails (the checked_add, as_i64 of transition)

ASSUME LedgerAssumption ==
    /\ Records \subseteq Nat          \* numbered in the order of their ids
    /\ NoRevision \notin Revisions
    /\ NoLocation \notin Locations
    /\ MaxVersion \in Nat

VARIABLES
    records,     \* the row of each record
    events       \* the events in the order of their sequence numbers

ledgerVars == <<records, events>>

-----------------------------------------------------------------------------

EventKinds == {"revision_committed", "location_changed",
               "record_tombstoned", "record_restored"}

RecordRow == [version  : Nat,
              state    : {"absent", "active", "tombstoned"},
              revision : Revisions \cup {NoRevision},
              location : Locations \cup {NoLocation}]

Event == [record   : Records,
          version  : Nat,
          kind     : EventKinds,
          revision : Revisions \cup {NoRevision},
          location : Locations \cup {NoLocation}]

NoRecord == [version |-> 0, state |-> "absent",
             revision |-> NoRevision, location |-> NoLocation]

LedgerInit ==
    /\ records = [r \in Records |-> NoRecord]
    /\ events = <<>>

-----------------------------------------------------------------------------

\* The event transition writes for record r beside its new row.
EventOf(r, kind, row) ==
    [record |-> r, version |-> row.version, kind |-> kind,
     revision |-> row.revision, location |-> row.location]

\* Mutant of Transition: the version is not advanced.
TransitionKeepsVersion(row, state, revision, location) ==
    [version |-> row.version, state |-> state,
     revision |-> revision, location |-> location]

\* The row transition leaves for a record that had row.
Transition(row, state, revision, location) ==
    [version |-> row.version + 1, state |-> state,
     revision |-> revision, location |-> location]

\* find_record, or the version 0 row inserted for an unknown identity.
FoundRow(r, location) ==
    IF records[r].state = "absent"
    THEN [NoRecord EXCEPT !.state = "active", !.location = location]
    ELSE records[r]

\* A tombstoned record is first restored, with the revision it had but at the
\* location it was observed at.
RestoredRow(row, location) ==
    IF row.state = "tombstoned"
    THEN Transition(row, "active", row.revision, location)
    ELSE row

\* Mutant of ObservedKind: a move hides new bytes.
ObservedKindMoveFirst(row, location, revision) ==
    IF row.location # location THEN "location_changed"
    ELSE IF row.revision # revision THEN "revision_committed"
    ELSE "unchanged"

\* What the observation then changes, compared with the row after a restore.
ObservedKind(row, location, revision) ==
    IF row.revision # revision THEN "revision_committed"
    ELSE IF row.location # location THEN "location_changed"
    ELSE "unchanged"

\* observe_present_at: r was verified present at location with these bytes.
ObservePresent(r, location, revision) ==
    LET found     == FoundRow(r, location)
        base      == RestoredRow(found, location)
        kind      == ObservedKind(base, location, revision)
        final     == IF kind = "unchanged" THEN base
                     ELSE Transition(base, "active", revision, location)
        restored  == IF base = found THEN <<>>
                     ELSE <<EventOf(r, "record_restored", base)>>
        committed == IF kind = "unchanged" THEN <<>>
                     ELSE <<EventOf(r, kind, final)>>
    IN  /\ final.version <= MaxVersion
        /\ records' = [records EXCEPT ![r] = final]
        /\ events' = events \o restored \o committed

\* Mutant of Tombstone: whatever the record's state and version are.
TombstoneUnchecked(r) ==
    LET row == Transition(records[r], "tombstoned",
                          records[r].revision, records[r].location)
    IN  /\ records' = [records EXCEPT ![r] = row]
        /\ events' = Append(events, EventOf(r, "record_tombstoned", row))

\* tombstone_at: an event for an active record, nothing for another one.  The
\* event keeps the record's revision and its last location.
Tombstone(r) ==
    /\ records[r].state = "active"
    /\ LET row == Transition(records[r], "tombstoned",
                             records[r].revision, records[r].location)
       IN  /\ row.version <= MaxVersion
           /\ records' = [records EXCEPT ![r] = row]
           /\ events' = Append(events, EventOf(r, "record_tombstoned", row))

LedgerNext ==
    \E r \in Records :
        \/ Tombstone(r)
        \/ \E location \in Locations, revision \in Revisions :
               ObservePresent(r, location, revision)

LedgerSpec == LedgerInit /\ [][LedgerNext]_ledgerVars

-----------------------------------------------------------------------------

\* The place of an event among those of its record: evs[j] is the next one after
\* evs[i], evs[i] is the first, evs[i] is the last.
Follows(evs, i, j) ==
    /\ i < j
    /\ evs[i].record = evs[j].record
    /\ \A k \in i + 1 .. j - 1 : evs[k].record # evs[j].record

IsFirst(evs, i) == \A k \in 1 .. i - 1 : evs[k].record # evs[i].record

IsLast(evs, i) == \A k \in i + 1 .. Len(evs) : evs[k].record # evs[i].record

\* The row a replay of the events of a record has after event e.
RowAfter(e) ==
    [version  |-> e.version,
     state    |-> IF e.kind = "record_tombstoned" THEN "tombstoned" ELSE "active",
     revision |-> e.revision,
     location |-> e.location]

\* Types, and every row fits the bound.
LedgerTypeOK ==
    /\ records \in [Records -> RecordRow]
    /\ events \in Seq(Event)
    /\ \A r \in Records : records[r].version <= MaxVersion

\* Replaying evs, with versions 1, 2, 3, ... for each record, gives recs.
Replays(recs, evs) ==
    /\ \A j \in 1..Len(evs) :
        /\ IsFirst(evs, j) => evs[j].version = 1
        /\ \A i \in 1..Len(evs) :
            Follows(evs, i, j) => evs[j].version = evs[i].version + 1
    /\ \A r \in Records :
        \/ recs[r] = NoRecord /\ \A i \in 1..Len(evs) : evs[i].record # r
        \/ \E i \in 1..Len(evs) :
            evs[i].record = r /\ IsLast(evs, i) /\ recs[r] = RowAfter(evs[i])

\* The versions of a record's events are 1, 2, 3, ... in ledger order and the
\* record's row is the state its last event describes, whatever mixture of
\* observations, restores and tombstones produced them: a consumer that
\* replays the events ends where the records table is.
LedgerReplays == Replays(records, events)

\* What an event of each kind may follow: cur is the next event of the record
\* after prev.
LegalSuccessor(prev, cur) ==
    CASE cur.kind = "revision_committed" ->
             /\ prev.kind # "record_tombstoned"
             /\ cur.revision # prev.revision
      [] cur.kind = "location_changed" ->
             /\ prev.kind # "record_tombstoned"
             /\ cur.revision = prev.revision
             /\ cur.location # prev.location
      [] cur.kind = "record_tombstoned" ->
             /\ prev.kind # "record_tombstoned"
             /\ cur.revision = prev.revision
             /\ cur.location = prev.location
      [] cur.kind = "record_restored" ->
             /\ prev.kind = "record_tombstoned"
             /\ cur.revision = prev.revision

\* Every event of evs may follow the one before it of its record.
Chained(evs) ==
    \A j \in 1..Len(evs) :
        /\ IsFirst(evs, j) => evs[j].kind = "revision_committed"
        /\ \A i \in 1..Len(evs) :
            Follows(evs, i, j) => LegalSuccessor(evs[i], evs[j])

\* No event is redundant or out of place: a record is committed first, a
\* commit changes the bytes, a move changes the location and only it, a
\* restore follows a tombstone and nothing else does.
EventChain == Chained(events)

\* The ledger is append only: a step extends the events and changes no event,
\* and versions only grow, so that sequence numbers and versions handed to a
\* consumer keep their meaning.
AppendOnly ==
    [][ /\ Len(events') >= Len(events)
        /\ SubSeq(events', 1, Len(events)) = events
        /\ \A r \in Records :
            \/ records'[r] = records[r]
            \/ records'[r].version > records[r].version ]_ledgerVars
=============================================================================
