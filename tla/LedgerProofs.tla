---------------------------- MODULE LedgerProofs ----------------------------
(***************************************************************************)
(* Theorems about the archive ledger for every set of records, contents    *)
(* and locations: its rows are the replay of its events, its events form   *)
(* legal chains, and it only grows.                                        *)
(***************************************************************************)
EXTENDS Ledger, SequenceTheorems, TLAPS

\* Every event carries a version its record has reached, and a record is
\* absent exactly when it has no version.
LedgerInv ==
    /\ LedgerTypeOK
    /\ \A i \in 1..Len(events) :
        events[i].version \in 1..records[events[i].record].version
    /\ \A r \in Records :
        records[r].state = "absent" <=> records[r].version = 0

-----------------------------------------------------------------------------
(* What a transaction writes *)

\* What every transaction of the ledger does.
LedgerStep ==
    /\ records' \in [Records -> RecordRow]
    /\ events' \in Seq(Event)
    /\ Len(events') >= Len(events)
    /\ \A i \in 1..Len(events) : events'[i] = events[i]
    /\ \A r \in Records :
        /\ records'[r].version >= records[r].version
        /\ records'[r].version <= MaxVersion
        /\ records'[r].state = "absent" <=> records'[r].version = 0
    /\ \A i \in Len(events) + 1 .. Len(events') :
        events'[i].version \in
            records[events'[i].record].version + 1 .. records'[events'[i].record].version

\* It appends one event for each new version of each record, in their order.
LedgerAppends ==
    /\ \A i, j \in Len(events) + 1 .. Len(events') :
        i < j /\ events'[i].record = events'[j].record
            => events'[i].version < events'[j].version
    /\ \A r \in Records : \A v \in records[r].version + 1 .. records'[r].version :
        \E i \in Len(events) + 1 .. Len(events') :
            events'[i].record = r /\ events'[i].version = v

LEMMA TransitionType ==
    ASSUME NEW row \in RecordRow, NEW st \in {"absent", "active", "tombstoned"},
           NEW rev \in Revisions \cup {NoRevision},
           NEW loc \in Locations \cup {NoLocation}
    PROVE  /\ Transition(row, st, rev, loc) \in RecordRow
           /\ Transition(row, st, rev, loc).version = row.version + 1
           /\ Transition(row, st, rev, loc).state = st
  BY DEF Transition, RecordRow

LEMMA EventOfType ==
    ASSUME NEW r \in Records, NEW kind \in EventKinds, NEW row \in RecordRow
    PROVE  /\ EventOf(r, kind, row) \in Event
           /\ EventOf(r, kind, row).record = r
           /\ EventOf(r, kind, row).version = row.version
  BY DEF EventOf, RecordRow, Event


\* A transaction that leaves row for record r and appends the events new, all
\* of r, one for each version after its old one up to its new one.
LEMMA CommitStep ==
    ASSUME LedgerAssumption, LedgerInv,
           NEW r \in Records, NEW row \in RecordRow, NEW new \in Seq(Event),
           records' = [records EXCEPT ![r] = row],
           events' = events \o new,
           row.version >= records[r].version, row.version <= MaxVersion,
           row.version > 0, row.state # "absent",
           Len(new) = row.version - records[r].version,
           \A i \in 1..Len(new) :
               /\ new[i].record = r
               /\ new[i].version = records[r].version + i
    PROVE  LedgerStep /\ LedgerAppends
<1>1. /\ records \in [Records -> RecordRow] /\ events \in Seq(Event)
      /\ records[r] \in RecordRow
  BY DEF LedgerInv, LedgerTypeOK
<1>2. /\ events' \in Seq(Event)
      /\ Len(events') = Len(events) + Len(new)
      /\ \A i \in 1..Len(events) : events'[i] = events[i]
      /\ \A i \in Len(events) + 1 .. Len(events') : events'[i] = new[i - Len(events)]
  <2>1. /\ events \o new \in Seq(Event)
        /\ Len(events \o new) = Len(events) + Len(new)
        /\ \A i \in 1..Len(events) + Len(new) :
            (events \o new)[i] = IF i <= Len(events) THEN events[i]
                                 ELSE new[i - Len(events)]
    BY <1>1, ConcatProperties
  <2>2. Len(events) \in Nat /\ Len(new) \in Nat
    BY <1>1
  <2> QED BY <2>1, <2>2
<1>3. records' \in [Records -> RecordRow] /\ records'[r] = row
  BY <1>1
<1>4. ASSUME NEW q \in Records
      PROVE  /\ records'[q].version >= records[q].version
             /\ records'[q].version <= MaxVersion
             /\ records'[q].state = "absent" <=> records'[q].version = 0
  <2>1. CASE q = r
    BY <1>3, <2>1 DEF RecordRow
  <2>2. CASE q # r
    <3>1. records'[q] = records[q] /\ records[q] \in RecordRow
      BY <1>1, <2>2
    <3> QED
      BY <3>1 DEF LedgerInv, LedgerTypeOK, RecordRow
  <2> QED BY <2>1, <2>2
<1>5. ASSUME NEW i \in Len(events) + 1 .. Len(events')
      PROVE  events'[i].version \in
                 records[events'[i].record].version + 1 ..
                     records'[events'[i].record].version
  <2>1. i - Len(events) \in 1..Len(new) /\ events'[i] = new[i - Len(events)]
    BY <1>1, <1>2
  <2>2. records[r].version \in Nat /\ row.version \in Nat
    BY <1>1 DEF RecordRow
  <2>3. events'[i].record = r
    BY <2>1
  <2>4. events'[i].version \in records[r].version + 1 .. row.version
    BY <2>1, <2>2, SMTT(30)
  <2>5. records'[events'[i].record] = row /\ records[events'[i].record] = records[r]
    BY <1>3, <2>3
  <2> QED BY <2>4, <2>5
<1>6. Len(events') >= Len(events)
  BY <1>1, <1>2
<1>7. ASSUME NEW i \in Len(events) + 1 .. Len(events'),
             NEW j \in Len(events) + 1 .. Len(events'), i < j
      PROVE  events'[i].version < events'[j].version
  <2>1. records[r].version \in Nat /\ Len(events) \in Nat /\ Len(events') \in Nat
    BY <1>1, <1>2 DEF RecordRow
  <2>2. /\ i - Len(events) \in 1..Len(new) /\ events'[i] = new[i - Len(events)]
        /\ j - Len(events) \in 1..Len(new) /\ events'[j] = new[j - Len(events)]
    BY <1>1, <1>2
  <2>3. /\ events'[i].version = records[r].version + (i - Len(events))
        /\ events'[j].version = records[r].version + (j - Len(events))
    BY <2>2
  <2> QED BY <1>7, <2>1, <2>3
<1>8. ASSUME NEW q \in Records, NEW v \in records[q].version + 1 .. records'[q].version
      PROVE  \E i \in Len(events) + 1 .. Len(events') :
                 events'[i].record = q /\ events'[i].version = v
  <2>1. q = r
    <3> SUFFICES ASSUME q # r PROVE FALSE
      OBVIOUS
    <3>1. records'[q] = records[q] /\ records[q].version \in Nat
      BY <1>1 DEF RecordRow
    <3> QED BY <3>1
  <2>2. /\ records[r].version \in Nat /\ row.version \in Nat
        /\ v \in records[r].version + 1 .. row.version
    BY <1>1, <1>3, <2>1 DEF RecordRow
  <2>3. v - records[r].version \in 1..Len(new)
    BY <2>2
  <2> DEFINE i == Len(events) + (v - records[r].version)
  <2>4. i \in Len(events) + 1 .. Len(events') /\ i - Len(events) = v - records[r].version
    BY <1>1, <1>2, <2>3
  <2>5. events'[i] = new[v - records[r].version]
    BY <1>2, <2>4
  <2> HIDE DEF i
  <2>6. events'[i].version = v
    BY <2>2, <2>3, <2>5, SMTT(30)
  <2> QED BY <2>1, <2>3, <2>4, <2>5, <2>6
<1> QED
  BY <1>2, <1>3, <1>4, <1>5, <1>6, <1>7, <1>8 DEF LedgerStep, LedgerAppends

LEMMA TombstoneStep ==
    ASSUME LedgerAssumption, LedgerInv, NEW r \in Records, Tombstone(r)
    PROVE  LedgerStep /\ LedgerAppends
<1> DEFINE row == Transition(records[r], "tombstoned",
                             records[r].revision, records[r].location)
           e == EventOf(r, "record_tombstoned", row)
<1>1. records[r] \in RecordRow /\ events \in Seq(Event)
  BY DEF LedgerInv, LedgerTypeOK
<1>2. /\ row \in RecordRow /\ row.version = records[r].version + 1
      /\ row.state # "absent"
  BY <1>1, TransitionType DEF RecordRow
<1>3. e \in Event /\ e.record = r /\ e.version = row.version
  BY <1>2, EventOfType DEF EventKinds
<1>4. /\ records' = [records EXCEPT ![r] = row]
      /\ events' = Append(events, e)
      /\ row.version <= MaxVersion
  BY DEF Tombstone
<1> HIDE DEF row, e
<1>5. events' = events \o <<e>> /\ <<e>> \in Seq(Event)
  BY <1>1, <1>3, <1>4, AppendIsConcat
<1>6. /\ Len(<<e>>) = row.version - records[r].version
      /\ \A i \in 1..Len(<<e>>) :
          /\ <<e>>[i].record = r
          /\ <<e>>[i].version = records[r].version + i
  BY <1>1, <1>2, <1>3 DEF RecordRow
<1>7. row.version >= records[r].version /\ row.version > 0
  BY <1>1, <1>2 DEF RecordRow
<1> QED
  BY <1>2, <1>4, <1>5, <1>6, <1>7, CommitStep

LEMMA ObserveStep ==
    ASSUME LedgerAssumption, LedgerInv,
           NEW r \in Records, NEW location \in Locations, NEW revision \in Revisions,
           ObservePresent(r, location, revision)
    PROVE  LedgerStep /\ LedgerAppends
<1> DEFINE found     == FoundRow(r, location)
           base      == RestoredRow(found, location)
           kind      == ObservedKind(base, location, revision)
           final     == IF kind = "unchanged" THEN base
                        ELSE Transition(base, "active", revision, location)
           restored  == IF base = found THEN <<>>
                        ELSE <<EventOf(r, "record_restored", base)>>
           committed == IF kind = "unchanged" THEN <<>>
                        ELSE <<EventOf(r, kind, final)>>
<1>1. /\ final.version <= MaxVersion
      /\ records' = [records EXCEPT ![r] = final]
      /\ events' = events \o restored \o committed
  BY DEF ObservePresent
<1>2. /\ records[r] \in RecordRow /\ events \in Seq(Event)
      /\ records[r].state = "absent" <=> records[r].version = 0
  BY DEF LedgerInv, LedgerTypeOK
<1>3. /\ found \in RecordRow /\ found.version = records[r].version
      /\ found.state \in {"active", "tombstoned"}
      /\ found.version = 0 => found.state = "active" /\ found.revision = NoRevision
  BY <1>2 DEF FoundRow, NoRecord, RecordRow
<1> HIDE DEF found
<1>4. /\ base \in RecordRow /\ base.state = "active"
      /\ \/ base = found
         \/ base.version = found.version + 1
      /\ base.version = 0 => base.revision = NoRevision
  <2>1. CASE found.state = "tombstoned"
    <3>1. base = Transition(found, "active", found.revision, location)
      BY <2>1 DEF RestoredRow
    <3>2. /\ found.revision \in Revisions \cup {NoRevision} /\ found.version \in Nat
          /\ location \in Locations \cup {NoLocation}
      BY <1>3 DEF RecordRow
    <3>3. /\ Transition(found, "active", found.revision, location) \in RecordRow
          /\ Transition(found, "active", found.revision, location).version =
                 found.version + 1
          /\ Transition(found, "active", found.revision, location).state = "active"
      BY <1>3, <3>2, TransitionType
    <3> HIDE DEF base
    <3> QED BY <3>1, <3>2, <3>3
  <2>2. CASE found.state # "tombstoned"
    BY <1>3, <2>2 DEF RestoredRow
  <2> QED BY <2>1, <2>2
<1> HIDE DEF base
<1>5. kind \in {"revision_committed", "location_changed", "unchanged"}
  BY DEF ObservedKind
<1>6. kind = "unchanged" => base.revision = revision
  BY DEF ObservedKind
<1> HIDE DEF kind
<1>7. /\ final \in RecordRow /\ final.state = "active" /\ final.version > 0
      /\ kind = "unchanged" => final.version = base.version
      /\ kind # "unchanged" => final.version = base.version + 1
  <2>1. CASE kind = "unchanged"
    BY <1>4, <1>6, <2>1, LedgerAssumption DEF RecordRow, LedgerAssumption
  <2>2. CASE kind # "unchanged"
    <3>1. final = Transition(base, "active", revision, location)
      BY <2>2
    <3> HIDE DEF final
    <3>2. base.version \in Nat
      BY <1>4 DEF RecordRow
    <3>3. /\ Transition(base, "active", revision, location) \in RecordRow
          /\ Transition(base, "active", revision, location).version = base.version + 1
          /\ Transition(base, "active", revision, location).state = "active"
      BY <1>4, TransitionType
    <3> QED BY <2>2, <3>1, <3>2, <3>3
  <2> QED BY <2>1, <2>2
<1> HIDE DEF final
<1>8. /\ restored \in Seq(Event)
      /\ Len(restored) = base.version - records[r].version
      /\ \A i \in 1..Len(restored) :
          /\ restored[i].record = r
          /\ restored[i].version = records[r].version + i
  <2>1. CASE base = found
    <3>1. base.version = records[r].version /\ records[r].version \in Nat
      BY <1>2, <1>3, <2>1 DEF RecordRow
    <3>2. restored = <<>>
      BY <2>1
    <3> HIDE DEF restored
    <3> QED BY <3>1, <3>2
  <2>2. CASE base # found
    <3>1. base.version = records[r].version + 1 /\ records[r].version \in Nat
      BY <1>2, <1>3, <1>4, <2>2 DEF RecordRow
    <3>2. /\ restored = <<EventOf(r, "record_restored", base)>>
          /\ EventOf(r, "record_restored", base) \in Event
          /\ EventOf(r, "record_restored", base).record = r
          /\ EventOf(r, "record_restored", base).version = base.version
      BY <1>4, <2>2, EventOfType DEF EventKinds
    <3> HIDE DEF restored
    <3> QED BY <3>1, <3>2
  <2> QED BY <2>1, <2>2
<1>9. /\ committed \in Seq(Event)
      /\ Len(committed) = final.version - base.version
      /\ \A i \in 1..Len(committed) :
          /\ committed[i].record = r
          /\ committed[i].version = base.version + i
  <2>1. CASE kind = "unchanged"
    <3>1. final.version = base.version /\ base.version \in Nat
      BY <1>4, <1>7, <2>1 DEF RecordRow
    <3>2. committed = <<>>
      BY <2>1
    <3> HIDE DEF committed
    <3> QED BY <3>1, <3>2
  <2>2. CASE kind # "unchanged"
    <3>1. final.version = base.version + 1 /\ base.version \in Nat
      BY <1>4, <1>7, <2>2 DEF RecordRow
    <3>2. /\ committed = <<EventOf(r, kind, final)>>
          /\ EventOf(r, kind, final) \in Event
          /\ EventOf(r, kind, final).record = r
          /\ EventOf(r, kind, final).version = final.version
      BY <1>5, <1>7, <2>2, EventOfType DEF EventKinds
    <3> HIDE DEF committed
    <3> QED BY <3>1, <3>2
  <2> QED BY <2>1, <2>2
<1> HIDE DEF restored, committed
<1> DEFINE new == restored \o committed
<1>10. /\ records[r].version \in Nat /\ base.version \in Nat /\ final.version \in Nat
       /\ records[r].version <= base.version /\ base.version <= final.version
  BY <1>2, <1>3, <1>4, <1>7 DEF RecordRow
<1>11. /\ new \in Seq(Event)
       /\ Len(new) = Len(restored) + Len(committed)
       /\ \A i \in 1..Len(restored) + Len(committed) :
            new[i] = IF i <= Len(restored) THEN restored[i]
                     ELSE committed[i - Len(restored)]
  BY <1>8, <1>9, ConcatProperties
<1>12. events' = events \o new
  <2>1. restored \in Seq(Event) /\ committed \in Seq(Event) /\ events \in Seq(Event)
    BY <1>2, <1>8, <1>9
  <2> QED BY <1>1, <2>1, ConcatAssociative
<1> HIDE DEF new
<1>13. Len(new) = final.version - records[r].version
  BY <1>8, <1>9, <1>10, <1>11
<1>14. ASSUME NEW i \in 1..Len(new)
       PROVE  new[i].record = r /\ new[i].version = records[r].version + i
  <2>1. Len(restored) \in Nat /\ Len(committed) \in Nat
    BY <1>8, <1>9
  <2>2. CASE i <= Len(restored)
    <3>1. i \in 1..Len(restored) /\ new[i] = restored[i]
      BY <1>11, <2>1, <2>2
    <3> QED BY <1>8, <3>1
  <2>3. CASE ~(i <= Len(restored))
    <3>1. i - Len(restored) \in 1..Len(committed)
      BY <1>11, <2>1, <2>3
    <3>2. new[i] = committed[i - Len(restored)]
      BY <1>11, <2>3
    <3>3. /\ new[i].record = r
          /\ new[i].version = base.version + (i - Len(restored))
      BY <1>9, <3>1, <3>2
    <3>4. new[i].version = records[r].version + i
      BY <1>8, <1>10, <3>3, SMTT(30)
    <3> QED BY <3>3, <3>4
  <2> QED BY <2>2, <2>3
<1> QED
  <2>1. /\ final.version >= records[r].version /\ final.state # "absent"
        /\ final.version <= MaxVersion /\ final.version > 0
    BY <1>1, <1>7, <1>10
  <2> QED BY <1>1, <1>7, <1>11, <1>12, <1>13, <1>14, <2>1, CommitStep

-----------------------------------------------------------------------------
(* Types *)

LedgerGrows ==
    /\ LedgerInv'
    /\ \A r \in Records : records'[r].version >= records[r].version

LEMMA LedgerStepGrows ==
    ASSUME LedgerInv, LedgerStep
    PROVE  LedgerGrows
<1>1. /\ events \in Seq(Event) /\ events' \in Seq(Event)
      /\ records \in [Records -> RecordRow] /\ records' \in [Records -> RecordRow]
      /\ \A i \in 1..Len(events) : events'[i] = events[i]
      /\ \A r \in Records :
            /\ records'[r].version >= records[r].version
            /\ records'[r].version <= MaxVersion
            /\ records'[r].state = "absent" <=> records'[r].version = 0
  BY DEF LedgerInv, LedgerTypeOK, LedgerStep
<1>2. ASSUME NEW i \in 1..Len(events')
      PROVE  events'[i].version \in 1..records'[events'[i].record].version
  <2>1. /\ events'[i] \in Event /\ events'[i].record \in Records
        /\ records[events'[i].record].version \in Nat
        /\ records'[events'[i].record].version \in Nat
    <3>1. events'[i] \in Event
      BY <1>1
    <3>2. events'[i].record \in Records
      BY <3>1 DEF Event
    <3>3. /\ records[events'[i].record] \in RecordRow
          /\ records'[events'[i].record] \in RecordRow
      BY <1>1, <3>2
    <3> QED BY <3>1, <3>2, <3>3 DEF RecordRow
  <2>2. CASE i \in 1..Len(events)
    <3>1. events[i].version \in 1..records[events[i].record].version
      BY <2>2 DEF LedgerInv
    <3> QED BY <1>1, <2>1, <2>2, <3>1
  <2>3. CASE i \notin 1..Len(events)
    <3>1. i \in Len(events) + 1 .. Len(events')
      BY <1>1, <2>3
    <3>2. events'[i].version \in
              records[events'[i].record].version + 1 ..
                  records'[events'[i].record].version
      BY <3>1 DEF LedgerStep
    <3> QED BY <2>1, <3>2
  <2> QED BY <2>2, <2>3
<1> QED
  BY <1>1, <1>2 DEF LedgerGrows, LedgerInv, LedgerTypeOK

LEMMA LedgerStutterGrows ==
    ASSUME LedgerInv, UNCHANGED <<records, events>>
    PROVE  LedgerGrows
<1>1. LedgerInv'
  BY DEF LedgerInv, LedgerTypeOK
<1>2. \A r \in Records : records[r].version \in Nat
  BY DEF LedgerInv, LedgerTypeOK, RecordRow
<1> QED
  BY <1>1, <1>2 DEF LedgerGrows

-----------------------------------------------------------------------------
(* Versions and sequence numbers *)

\* The versions of a record are those of its events, in the same order.
EventOrder ==
    /\ \A i, j \in 1..Len(events) :
        i < j /\ events[i].record = events[j].record => events[i].version < events[j].version
    /\ \A r \in Records : \A v \in 1..records[r].version :
        \E i \in 1..Len(events) : events[i].record = r /\ events[i].version = v

LEMMA EventOrderStep ==
    ASSUME LedgerInv, EventOrder, LedgerStep, LedgerAppends
    PROVE  EventOrder'
<1>1. /\ events \in Seq(Event) /\ events' \in Seq(Event)
      /\ Len(events) \in Nat /\ Len(events') \in Nat /\ Len(events') >= Len(events)
      /\ \A i \in 1..Len(events) : events'[i] = events[i]
      /\ \A r \in Records : records[r].version \in Nat /\ records'[r].version \in Nat
  BY DEF LedgerInv, LedgerTypeOK, LedgerStep, RecordRow
<1>2. \A i \in 1..Len(events') :
          events'[i].record \in Records /\ events'[i].version \in Nat
  <2>1. \A i \in 1..Len(events') : events'[i] \in Event
    BY <1>1
  <2> QED BY <2>1 DEF Event
<1>3. ASSUME NEW i \in 1..Len(events'), NEW j \in 1..Len(events'),
             i < j, events'[i].record = events'[j].record
      PROVE  events'[i].version < events'[j].version
  <2>1. CASE j \in 1..Len(events)
    <3>1. i \in 1..Len(events)
      BY <1>1, <1>3, <2>1
    <3> QED BY <1>1, <1>3, <2>1, <3>1 DEF EventOrder
  <2>2. CASE i \notin 1..Len(events)
    <3>1. i \in Len(events) + 1 .. Len(events') /\ j \in Len(events) + 1 .. Len(events')
      BY <1>1, <1>3, <2>2
    <3> QED BY <1>3, <3>1 DEF LedgerAppends
  <2>3. CASE i \in 1..Len(events) /\ j \notin 1..Len(events)
    <3>1. j \in Len(events) + 1 .. Len(events')
      BY <1>1, <2>3
    <3>2. events'[j].version >= records[events'[j].record].version + 1
      BY <1>1, <1>2, <3>1 DEF LedgerStep
    <3>3. events[i].version <= records[events[i].record].version
      BY <1>1, <1>2, <2>3 DEF LedgerInv
    <3>4. /\ events'[i] = events[i]
          /\ records[events[i].record].version \in Nat
      BY <1>1, <1>2, <2>3
    <3> QED BY <1>2, <1>3, <3>2, <3>3, <3>4, SMTT(30)
  <2> QED BY <2>1, <2>2, <2>3
<1>4. ASSUME NEW r \in Records, NEW v \in 1..records'[r].version
      PROVE  \E i \in 1..Len(events') : events'[i].record = r /\ events'[i].version = v
  <2>1. CASE v \in 1..records[r].version
    <3>1. PICK i \in 1..Len(events) : events[i].record = r /\ events[i].version = v
      BY <2>1 DEF EventOrder
    <3> QED BY <1>1, <3>1
  <2>2. CASE v \notin 1..records[r].version
    <3>1. v \in records[r].version + 1 .. records'[r].version
      BY <1>1, <2>2
    <3>2. PICK i \in Len(events) + 1 .. Len(events') :
              events'[i].record = r /\ events'[i].version = v
      BY <3>1 DEF LedgerAppends
    <3> QED BY <1>1, <3>2
  <2> QED BY <2>1, <2>2
<1> QED
  BY <1>3, <1>4 DEF EventOrder

LEMMA EventOrderInit ==
    ASSUME LedgerInit
    PROVE  EventOrder
BY DEF LedgerInit, NoRecord, EventOrder

\* No two events have the record and the version of one another.
LEMMA EventUnique ==
    ASSUME LedgerInv, EventOrder, NEW i \in 1..Len(events), NEW j \in 1..Len(events),
           events[i].record = events[j].record, events[i].version = events[j].version
    PROVE  i = j
<1>1. events[i].version \in Nat /\ i \in Nat /\ j \in Nat
  BY DEF LedgerInv, LedgerTypeOK, Event
<1>2. ~(i < j) /\ ~(j < i)
  BY <1>1 DEF EventOrder
<1> QED
  BY <1>1, <1>2

-----------------------------------------------------------------------------
(* Verified bytes *)

\* Every event, and every record in the table, has verified bytes.
RevisionsKnown ==
    /\ \A i \in 1..Len(events) : events[i].revision \in Revisions
    /\ \A r \in Records : records[r].state # "absent" => records[r].revision \in Revisions

\* A transaction that leaves row and appends the events new keeps that so when
\* row and the new events have verified bytes.
LEMMA RevisionsCommit ==
    ASSUME LedgerInv, RevisionsKnown,
           NEW r \in Records, NEW row \in RecordRow, NEW new \in Seq(Event),
           records' = [records EXCEPT ![r] = row], events' = events \o new,
           row.revision \in Revisions,
           \A i \in 1..Len(new) : new[i].revision \in Revisions
    PROVE  RevisionsKnown'
<1>1. records \in [Records -> RecordRow] /\ events \in Seq(Event)
  BY DEF LedgerInv, LedgerTypeOK
<1>2. /\ Len(events') = Len(events) + Len(new)
      /\ Len(events) \in Nat /\ Len(new) \in Nat
      /\ \A i \in 1..Len(events) + Len(new) :
          events'[i] = IF i <= Len(events) THEN events[i] ELSE new[i - Len(events)]
  BY <1>1, ConcatProperties
<1>3. ASSUME NEW i \in 1..Len(events')
      PROVE  events'[i].revision \in Revisions
  <2>1. CASE i <= Len(events)
    BY <1>2, <2>1 DEF RevisionsKnown
  <2>2. CASE ~(i <= Len(events))
    <3>1. i - Len(events) \in 1..Len(new)
      BY <1>2, <2>2
    <3> QED BY <1>2, <2>2, <3>1
  <2> QED BY <2>1, <2>2
<1>4. \A q \in Records : records'[q] = IF q = r THEN row ELSE records[q]
  BY <1>1
<1> QED
  BY <1>3, <1>4 DEF RevisionsKnown

LEMMA RevisionsStep ==
    ASSUME LedgerInv, RevisionsKnown, LedgerNext
    PROVE  RevisionsKnown'
<1>1. ASSUME NEW r \in Records, Tombstone(r)
      PROVE  RevisionsKnown'
  <2> DEFINE row == Transition(records[r], "tombstoned",
                               records[r].revision, records[r].location)
             e == EventOf(r, "record_tombstoned", row)
  <2>1. /\ records[r] \in RecordRow /\ events \in Seq(Event)
        /\ records[r].revision \in Revisions
    BY <1>1 DEF LedgerInv, LedgerTypeOK, Tombstone, RevisionsKnown
  <2>2. row \in RecordRow /\ row.revision = records[r].revision
    BY <2>1 DEF Transition, RecordRow
  <2>3. e \in Event /\ e.revision = row.revision
    BY <2>2 DEF EventOf, Event, RecordRow, EventKinds
  <2>4. records' = [records EXCEPT ![r] = row] /\ events' = Append(events, e)
    BY <1>1 DEF Tombstone
  <2> HIDE DEF row, e
  <2>5. events' = events \o <<e>> /\ <<e>> \in Seq(Event)
    BY <2>1, <2>3, <2>4, AppendIsConcat
  <2>6. \A i \in 1..Len(<<e>>) : <<e>>[i].revision \in Revisions
    BY <2>1, <2>2, <2>3
  <2> QED BY <2>1, <2>2, <2>4, <2>5, <2>6, RevisionsCommit
<1>2. ASSUME NEW r \in Records, NEW location \in Locations, NEW revision \in Revisions,
             ObservePresent(r, location, revision)
      PROVE  RevisionsKnown'
  <2> DEFINE found     == FoundRow(r, location)
             base      == RestoredRow(found, location)
             kind      == ObservedKind(base, location, revision)
             final     == IF kind = "unchanged" THEN base
                          ELSE Transition(base, "active", revision, location)
             restored  == IF base = found THEN <<>>
                          ELSE <<EventOf(r, "record_restored", base)>>
             committed == IF kind = "unchanged" THEN <<>>
                          ELSE <<EventOf(r, kind, final)>>
  <2>1. /\ records' = [records EXCEPT ![r] = final]
        /\ events' = events \o restored \o committed
    BY <1>2 DEF ObservePresent
  <2>2. records[r] \in RecordRow /\ events \in Seq(Event)
    BY DEF LedgerInv, LedgerTypeOK
  <2>3. /\ found \in RecordRow
        /\ found.state = "tombstoned" => found.revision \in Revisions
    BY <2>2 DEF FoundRow, NoRecord, RecordRow, RevisionsKnown
  <2> HIDE DEF found
  <2>4. /\ base \in RecordRow
        /\ base # found => base.revision \in Revisions
    BY <2>3 DEF RestoredRow, Transition, RecordRow
  <2> HIDE DEF base
  <2>5. /\ kind \in {"revision_committed", "location_changed", "unchanged"}
        /\ kind = "unchanged" => base.revision = revision
    BY DEF ObservedKind
  <2> HIDE DEF kind
  <2>6. final \in RecordRow /\ final.revision = revision
    BY <2>4, <2>5 DEF Transition, RecordRow
  <2> HIDE DEF final
  <2>7. /\ restored \in Seq(Event)
        /\ \A i \in 1..Len(restored) : restored[i].revision \in Revisions
    <3>1. CASE base = found
      BY <3>1
    <3>2. CASE base # found
      <4>1. EventOf(r, "record_restored", base) \in Event
        BY <2>4, EventOfType DEF EventKinds
      <4>2. EventOf(r, "record_restored", base).revision = base.revision
        BY DEF EventOf
      <4>3. restored = <<EventOf(r, "record_restored", base)>>
        BY <3>2
      <4> HIDE DEF restored
      <4> QED BY <2>4, <3>2, <4>1, <4>2, <4>3
    <3> QED BY <3>1, <3>2
  <2>8. /\ committed \in Seq(Event)
        /\ \A i \in 1..Len(committed) : committed[i].revision \in Revisions
    <3>1. CASE kind = "unchanged"
      BY <3>1
    <3>2. CASE kind # "unchanged"
      <4>1. EventOf(r, kind, final) \in Event
        BY <2>5, <2>6, <3>2, EventOfType DEF EventKinds
      <4>2. EventOf(r, kind, final).revision = revision
        BY <2>6 DEF EventOf
      <4>3. committed = <<EventOf(r, kind, final)>>
        BY <3>2
      <4> HIDE DEF committed
      <4> QED BY <4>1, <4>2, <4>3
    <3> QED BY <3>1, <3>2
  <2> HIDE DEF restored, committed
  <2>9. events' = events \o (restored \o committed)
    BY <2>1, <2>2, <2>7, <2>8, ConcatAssociative, SMTT(30)
  <2>10. /\ restored \o committed \in Seq(Event)
         /\ \A i \in 1..Len(restored \o committed) :
             (restored \o committed)[i].revision \in Revisions
    <3>1. /\ restored \o committed \in Seq(Event)
          /\ Len(restored \o committed) = Len(restored) + Len(committed)
          /\ Len(restored) \in Nat /\ Len(committed) \in Nat
          /\ \A i \in 1..Len(restored) + Len(committed) :
              (restored \o committed)[i] = IF i <= Len(restored) THEN restored[i]
                                           ELSE committed[i - Len(restored)]
      BY <2>7, <2>8, ConcatProperties
    <3>2. ASSUME NEW i \in 1..Len(restored \o committed)
          PROVE  (restored \o committed)[i].revision \in Revisions
      <4>1. CASE i <= Len(restored)
        BY <2>7, <3>1, <4>1
      <4>2. CASE ~(i <= Len(restored))
        <5>1. i - Len(restored) \in 1..Len(committed)
          BY <3>1, <4>2
        <5> QED BY <2>8, <3>1, <4>2, <5>1
      <4> QED BY <4>1, <4>2
    <3> QED BY <3>1, <3>2
  <2> QED BY <2>1, <2>6, <2>9, <2>10, RevisionsCommit
<1> QED
  BY <1>1, <1>2 DEF LedgerNext

LEMMA RevisionsInit ==
    ASSUME LedgerInit
    PROVE  RevisionsKnown
BY DEF LedgerInit, NoRecord, RevisionsKnown

-----------------------------------------------------------------------------
(* Replay and chains *)

Good(recs, evs) == Replays(recs, evs) /\ Chained(evs)

\* The place of old events does not change when one is appended.
LEMMA PlaceAppend ==
    ASSUME NEW evs \in Seq(Event), NEW e \in Event
    PROVE  LET n    == Len(evs)
               both == Append(evs, e)
           IN  /\ both \in Seq(Event) /\ Len(both) = n + 1 /\ both[n + 1] = e
               /\ \A i \in 1..n : both[i] = evs[i]
               /\ \A i \in 1..n : IsFirst(both, i) <=> IsFirst(evs, i)
               /\ \A i, j \in 1..n : Follows(both, i, j) <=> Follows(evs, i, j)
               /\ \A i \in 1..n :
                   /\ Follows(both, i, n + 1) =>
                          evs[i].record = e.record /\ IsLast(evs, i)
                   /\ IsLast(evs, i) /\ evs[i].record # e.record => IsLast(both, i)
               /\ IsFirst(both, n + 1) => \A i \in 1..n : evs[i].record # e.record
               /\ IsLast(both, n + 1)
<1> DEFINE n    == Len(evs)
           both == Append(evs, e)
<1>0. n \in Nat /\ n = Len(evs)
  OBVIOUS
<1>1. /\ both \in Seq(Event) /\ Len(both) = n + 1 /\ both[n + 1] = e
      /\ \A i \in 1..n : both[i] = evs[i]
  BY AppendProperties
<1> HIDE DEF n, both
<1>2. ASSUME NEW i \in 1..n PROVE IsFirst(both, i) <=> IsFirst(evs, i)
  BY <1>0, <1>1 DEF IsFirst
<1>3. ASSUME NEW i \in 1..n, NEW j \in 1..n
      PROVE  Follows(both, i, j) <=> Follows(evs, i, j)
  <2>1. \A k \in i + 1 .. j - 1 : k \in 1..n
    BY <1>0
  <2> QED BY <1>0, <1>1, <2>1 DEF Follows
<1>4. ASSUME NEW i \in 1..n, Follows(both, i, n + 1)
      PROVE  evs[i].record = e.record /\ IsLast(evs, i)
  <2>1. evs[i].record = e.record
    BY <1>0, <1>1, <1>4 DEF Follows
  <2>2. \A k \in i + 1 .. n : both[k].record # e.record /\ both[k] = evs[k]
    BY <1>0, <1>1, <1>4 DEF Follows
  <2> QED BY <1>0, <1>1, <2>1, <2>2 DEF IsLast
<1>5. ASSUME NEW i \in 1..n, IsLast(evs, i), evs[i].record # e.record
      PROVE  IsLast(both, i)
  <2> SUFFICES ASSUME NEW k \in i + 1 .. n + 1 PROVE both[k].record # both[i].record
    BY <1>0, <1>1 DEF IsLast
  <2>1. CASE k = n + 1
    BY <1>0, <1>1, <1>5, <2>1
  <2>2. CASE k # n + 1
    BY <1>0, <1>1, <1>5, <2>2, SMTT(30) DEF IsLast
  <2> QED BY <2>1, <2>2
<1>6. IsFirst(both, n + 1) => \A i \in 1..n : evs[i].record # e.record
  BY <1>0, <1>1 DEF IsFirst
<1>7. IsLast(both, n + 1)
  BY <1>0, <1>1 DEF IsLast
<1> QED
  BY <1>1, <1>2, <1>3, <1>4, <1>5, <1>6, <1>7 DEF n, both

\* One event appended, with the row it describes: the first one of its record
\* commits, another one may follow what the old row describes.
LEMMA AppendGood ==
    ASSUME NEW recs \in [Records -> RecordRow], NEW evs \in Seq(Event),
           Good(recs, evs), NEW r \in Records, NEW e \in Event, NEW row \in RecordRow,
           e.record = r, row = RowAfter(e), e.version = recs[r].version + 1,
           recs[r] = NoRecord => e.kind = "revision_committed",
           \A p \in Event : recs[r] = RowAfter(p) => LegalSuccessor(p, e)
    PROVE  Good([recs EXCEPT ![r] = row], Append(evs, e))
<1> DEFINE n == Len(evs)
           both == Append(evs, e)
           next == [recs EXCEPT ![r] = row]
<1>1. n \in Nat /\ n = Len(evs) /\ both = Append(evs, e)
  OBVIOUS
<1>3. /\ next[r] = row
      /\ \A q \in Records : q # r => next[q] = recs[q]
  OBVIOUS
<1>4. \A i \in 1..n : evs[i] \in Event
  OBVIOUS
<1> HIDE DEF both, next, n
<1>2. /\ both \in Seq(Event) /\ Len(both) = n + 1 /\ both[n + 1] = e
      /\ \A i \in 1..n : both[i] = evs[i]
      /\ \A i \in 1..n : IsFirst(both, i) <=> IsFirst(evs, i)
      /\ \A i, j \in 1..n : Follows(both, i, j) <=> Follows(evs, i, j)
      /\ \A i \in 1..n :
          /\ Follows(both, i, n + 1) => evs[i].record = r /\ IsLast(evs, i)
          /\ IsLast(evs, i) /\ evs[i].record # r => IsLast(both, i)
      /\ IsFirst(both, n + 1) => \A i \in 1..n : evs[i].record # r
      /\ IsLast(both, n + 1)
  <2>1. /\ both \in Seq(Event) /\ Len(both) = n + 1 /\ both[n + 1] = e
        /\ \A i \in 1..n : both[i] = evs[i]
        /\ \A i \in 1..n : IsFirst(both, i) <=> IsFirst(evs, i)
        /\ \A i, j \in 1..n : Follows(both, i, j) <=> Follows(evs, i, j)
        /\ \A i \in 1..n :
            /\ Follows(both, i, n + 1) => evs[i].record = e.record /\ IsLast(evs, i)
            /\ IsLast(evs, i) /\ evs[i].record # e.record => IsLast(both, i)
        /\ IsFirst(both, n + 1) => \A i \in 1..n : evs[i].record # e.record
        /\ IsLast(both, n + 1)
    BY PlaceAppend DEF n, both
  <2> QED BY <2>1
<1>5. \/ recs[r] = NoRecord /\ \A i \in 1..n : evs[i].record # r
      \/ \E i \in 1..n : /\ evs[i].record = r /\ IsLast(evs, i)
                         /\ recs[r] = RowAfter(evs[i])
  BY DEF Good, Replays, n
<1>6. ASSUME NEW i \in 1..n, evs[i].record = r, IsLast(evs, i)
      PROVE  recs[r] = RowAfter(evs[i])
  <2>1. PICK k \in 1..n : /\ evs[k].record = r /\ IsLast(evs, k)
                          /\ recs[r] = RowAfter(evs[k])
    BY <1>5, <1>6
  <2>2. ~(k < i) /\ ~(i < k)
    <3>1. k < i => i \in k + 1 .. n
      BY <1>1
    <3>2. i < k => k \in i + 1 .. n
      BY <1>1
    <3> QED BY <1>6, <2>1, <3>1, <3>2 DEF IsLast, n
  <2>3. k = i
    BY <2>2
  <2> QED BY <2>1, <2>3
<1>7. ASSUME NEW i \in 1..n, Follows(both, i, n + 1)
      PROVE  e.version = evs[i].version + 1 /\ LegalSuccessor(evs[i], e)
  <2>1. recs[r] = RowAfter(evs[i])
    BY <1>2, <1>6, <1>7
  <2>2. recs[r].version = evs[i].version
    BY <2>1 DEF RowAfter
  <2> QED BY <1>4, <2>1, <2>2
<1>8. IsFirst(both, n + 1) => e.version = 1 /\ e.kind = "revision_committed"
  <2>1. IsFirst(both, n + 1) => recs[r] = NoRecord
    BY <1>2, <1>5
  <2>2. recs[r] = NoRecord => recs[r].version = 0
    BY DEF NoRecord
  <2> QED BY <2>1, <2>2
<1>9. \A i \in 1 .. n + 1 : i \in 1..n \/ i = n + 1
  BY <1>1
<1>10. ~ Follows(both, n + 1, n + 1) /\ \A j \in 1..n : ~ Follows(both, n + 1, j)
  BY <1>1 DEF Follows
<1>11. ASSUME NEW j \in 1 .. n + 1
       PROVE  /\ IsFirst(both, j) =>
                     both[j].version = 1 /\ both[j].kind = "revision_committed"
              /\ \A i \in 1 .. n + 1 : Follows(both, i, j) =>
                     /\ both[j].version = both[i].version + 1
                     /\ LegalSuccessor(both[i], both[j])
  <2>1. CASE j \in 1..n
    <3>1. /\ IsFirst(evs, j) => evs[j].version = 1 /\ evs[j].kind = "revision_committed"
          /\ \A i \in 1..n : Follows(evs, i, j) =>
                 evs[j].version = evs[i].version + 1 /\ LegalSuccessor(evs[i], evs[j])
      BY <2>1 DEF Good, Replays, Chained, n
    <3> QED BY <1>2, <1>9, <1>10, <2>1, <3>1, SMTT(30)
  <2>2. CASE j = n + 1
    BY <1>2, <1>7, <1>8, <1>9, <1>10, <2>2
  <2> QED BY <1>9, <2>1, <2>2
<1>12. ASSUME NEW q \in Records
       PROVE  \/ next[q] = NoRecord /\ \A i \in 1 .. n + 1 : both[i].record # q
              \/ \E i \in 1 .. n + 1 : /\ both[i].record = q /\ IsLast(both, i)
                                       /\ next[q] = RowAfter(both[i])
  <2>1. n + 1 \in 1 .. n + 1 /\ \A i \in 1..n : i \in 1 .. n + 1
    BY <1>1
  <2>2. CASE q = r
    BY <1>2, <1>3, <2>1, <2>2
  <2>3. CASE q # r
    <3>1. next[q] = recs[q]
      BY <1>3, <2>3
    <3>2. \/ recs[q] = NoRecord /\ \A i \in 1..n : evs[i].record # q
          \/ \E i \in 1..n : /\ evs[i].record = q /\ IsLast(evs, i)
                             /\ recs[q] = RowAfter(evs[i])
      BY DEF Good, Replays, n
    <3>3. CASE recs[q] = NoRecord /\ \A i \in 1..n : evs[i].record # q
      BY <1>2, <1>9, <2>3, <3>1, <3>3
    <3>4. CASE \E i \in 1..n : /\ evs[i].record = q /\ IsLast(evs, i)
                               /\ recs[q] = RowAfter(evs[i])
      <4>1. PICK i \in 1..n : /\ evs[i].record = q /\ IsLast(evs, i)
                              /\ recs[q] = RowAfter(evs[i])
        BY <3>4
      <4>2. both[i].record = q /\ IsLast(both, i) /\ next[q] = RowAfter(both[i])
        BY <1>2, <2>3, <3>1, <4>1
      <4> QED BY <2>1, <4>2
    <3> QED BY <3>2, <3>3, <3>4
  <2> QED BY <2>2, <2>3
<1>13. Replays(next, both) /\ Chained(both)
  BY <1>2, <1>11, <1>12 DEF Replays, Chained
<1> QED
  BY <1>13 DEF Good, next, both

LEMMA TombstoneGood ==
    ASSUME LedgerAssumption, LedgerInv, Good(records, events),
           NEW r \in Records, Tombstone(r)
    PROVE  Good(records', events')
<1> DEFINE row == Transition(records[r], "tombstoned",
                             records[r].revision, records[r].location)
           e == EventOf(r, "record_tombstoned", row)
<1>1. /\ records \in [Records -> RecordRow] /\ events \in Seq(Event)
      /\ records[r] \in RecordRow /\ records[r].state = "active"
  BY DEF LedgerInv, LedgerTypeOK, Tombstone
<1>2. /\ row \in RecordRow /\ row.version = records[r].version + 1
      /\ row.state = "tombstoned"
      /\ row.revision = records[r].revision /\ row.location = records[r].location
  BY <1>1, TransitionType DEF RecordRow, Transition
<1> HIDE DEF row
<1>3. /\ e \in Event /\ e.record = r /\ e.version = row.version
      /\ e.kind = "record_tombstoned"
      /\ e.revision = row.revision /\ e.location = row.location
  BY <1>2, EventOfType DEF EventKinds, EventOf
<1> HIDE DEF e
<1>4. row = RowAfter(e)
  BY <1>2, <1>3 DEF RowAfter, RecordRow
<1>5. records[r] # NoRecord
  BY <1>1 DEF NoRecord
<1>6. ASSUME NEW p \in Event, records[r] = RowAfter(p) PROVE LegalSuccessor(p, e)
  <2>1. /\ p.kind # "record_tombstoned"
        /\ p.revision = records[r].revision /\ p.location = records[r].location
    BY <1>1, <1>6 DEF RowAfter
  <2> QED BY <1>2, <1>3, <2>1 DEF LegalSuccessor
<1>7. records' = [records EXCEPT ![r] = row] /\ events' = Append(events, e)
  BY DEF Tombstone, row, e
<1> QED
  BY <1>1, <1>2, <1>3, <1>4, <1>5, <1>6, <1>7, AppendGood

LEMMA ObserveGood ==
    ASSUME LedgerAssumption, LedgerInv, Good(records, events),
           NEW r \in Records, NEW location \in Locations, NEW revision \in Revisions,
           ObservePresent(r, location, revision)
    PROVE  Good(records', events')
<1> DEFINE found     == FoundRow(r, location)
           base      == RestoredRow(found, location)
           kind      == ObservedKind(base, location, revision)
           final     == IF kind = "unchanged" THEN base
                        ELSE Transition(base, "active", revision, location)
           restored  == IF base = found THEN <<>>
                        ELSE <<EventOf(r, "record_restored", base)>>
           committed == IF kind = "unchanged" THEN <<>>
                        ELSE <<EventOf(r, kind, final)>>
           middle    == events \o restored
           between   == [records EXCEPT ![r] = base]
<1>1. /\ records' = [records EXCEPT ![r] = final]
      /\ events' = middle \o committed
  BY DEF ObservePresent
<1>2. /\ records \in [Records -> RecordRow] /\ events \in Seq(Event)
      /\ records[r] \in RecordRow
      /\ records[r].state = "absent" <=> records[r].version = 0
      /\ NoRevision \notin Revisions /\ NoLocation \notin Locations
  BY DEF LedgerInv, LedgerTypeOK, LedgerAssumption
<1>3. records[r].state = "absent" => records[r] = NoRecord
  <2>1. \A p : RowAfter(p).state # "absent"
    BY DEF RowAfter
  <2> QED BY <2>1 DEF Good, Replays
<1>4. CASE records[r].state = "absent"
  <2>1. found = [version |-> 0, state |-> "active",
                 revision |-> NoRevision, location |-> location]
    BY <1>4 DEF FoundRow, NoRecord
  <2>2. base = found
    BY <2>1 DEF RestoredRow
  <2>3. kind = "revision_committed"
    BY <1>2, <2>1, <2>2 DEF ObservedKind
  <2> DEFINE row == Transition(base, "active", revision, location)
             e   == EventOf(r, "revision_committed", row)
  <2>4. row = [version |-> 1, state |-> "active",
               revision |-> revision, location |-> location]
    BY <2>1, <2>2 DEF Transition
  <2>5. events' = Append(events, e) /\ records' = [records EXCEPT ![r] = row]
    <3>1. restored = <<>> /\ committed = <<e>> /\ final = row
      BY <2>2, <2>3
    <3> HIDE DEF restored, committed, final, e, row
    <3>2. middle = events
      BY <1>2, <3>1
    <3>3. events' = events \o <<e>>
      BY <1>1, <3>1, <3>2
    <3>4. e \in Event
      BY <2>4, EventOfType DEF e, EventKinds, RecordRow
    <3> QED BY <1>1, <1>2, <3>1, <3>3, <3>4, AppendIsConcat
  <2> HIDE DEF row
  <2>6. row \in RecordRow
    BY <2>4 DEF RecordRow
  <2>7. /\ e \in Event /\ e.record = r /\ e.version = 1
        /\ e.kind = "revision_committed" /\ e.revision = revision
        /\ e.location = location
    BY <2>4, <2>6, EventOfType DEF EventOf, EventKinds
  <2> HIDE DEF e
  <2>8. row = RowAfter(e)
    BY <2>4, <2>7 DEF RowAfter
  <2>9. \A p \in Event : records[r] # RowAfter(p)
    BY <1>4 DEF RowAfter
  <2>10. e.version = records[r].version + 1
    BY <1>2, <1>4, <2>7
  <2> QED BY <1>2, <2>5, <2>6, <2>7, <2>8, <2>9, <2>10, AppendGood
<1>5. CASE records[r].state = "active"
  <2>1. found = records[r] /\ base = records[r]
    BY <1>5 DEF FoundRow, RestoredRow
  <2>2. restored = <<>> /\ middle = events
    BY <1>2, <2>1
  <2>3. CASE kind = "unchanged"
    <3>1. final = records[r] /\ committed = <<>>
      BY <2>1, <2>3
    <3> HIDE DEF final, committed, middle
    <3>2. records' = records /\ events' = events
      BY <1>1, <1>2, <2>2, <3>1
    <3> QED BY <3>2
  <2>4. CASE kind # "unchanged"
    <3> DEFINE row == Transition(records[r], "active", revision, location)
               e   == EventOf(r, kind, row)
    <3>1. /\ kind \in {"revision_committed", "location_changed"}
          /\ kind = "revision_committed" => records[r].revision # revision
          /\ kind = "location_changed" =>
                 records[r].revision = revision /\ records[r].location # location
      BY <2>1, <2>4 DEF ObservedKind
    <3>2. final = row /\ committed = <<e>>
      BY <2>1, <2>4
    <3> HIDE DEF final, committed, middle, kind
    <3>3. /\ row \in RecordRow /\ row.version = records[r].version + 1
          /\ row.state = "active" /\ row.revision = revision /\ row.location = location
      BY <1>2, TransitionType DEF Transition
    <3> HIDE DEF row
    <3>4. /\ e \in Event /\ e.record = r /\ e.version = row.version
          /\ e.kind = kind /\ e.revision = revision /\ e.location = location
      BY <3>1, <3>3, EventOfType DEF EventOf, EventKinds
    <3> HIDE DEF e
    <3>5. row = RowAfter(e)
      BY <3>1, <3>3, <3>4 DEF RowAfter, RecordRow
    <3>6. records' = [records EXCEPT ![r] = row] /\ events' = Append(events, e)
      BY <1>1, <1>2, <2>2, <3>2, <3>4, AppendIsConcat
    <3>7. records[r] # NoRecord
      BY <1>5 DEF NoRecord
    <3>8. ASSUME NEW p \in Event, records[r] = RowAfter(p) PROVE LegalSuccessor(p, e)
      <4>1. /\ p.kind # "record_tombstoned"
            /\ p.revision = records[r].revision /\ p.location = records[r].location
        BY <1>5, <3>8 DEF RowAfter
      <4> QED BY <3>1, <3>4, <4>1 DEF LegalSuccessor
    <3> QED BY <1>2, <3>3, <3>4, <3>5, <3>6, <3>7, <3>8, AppendGood
  <2> QED BY <2>3, <2>4
<1>6. CASE records[r].state = "tombstoned"
  <2> DEFINE e == EventOf(r, "record_restored", base)
  <2>1. found = records[r]
    BY <1>6 DEF FoundRow
  <2>2. base = Transition(records[r], "active", records[r].revision, location)
    BY <1>6, <2>1 DEF RestoredRow
  <2>3. /\ base \in RecordRow /\ base.version = records[r].version + 1
        /\ base.state = "active" /\ base.revision = records[r].revision
        /\ base.location = location
    <3>1. /\ records[r].revision \in Revisions \cup {NoRevision}
          /\ records[r].version \in Nat
      BY <1>2 DEF RecordRow
    <3> HIDE DEF base
    <3> QED BY <1>2, <2>2, <3>1, TransitionType DEF Transition
  <2>4. base # found
    BY <1>2, <1>6, <2>1, <2>3
  <2>5. restored = <<e>>
    BY <2>4
  <2>6. kind \in {"revision_committed", "unchanged"}
        /\ (kind = "revision_committed" => base.revision # revision)
        /\ (kind = "unchanged" => final = base /\ committed = <<>>)
    BY <2>3 DEF ObservedKind
  <2> DEFINE row == Transition(base, "active", revision, location)
             f   == EventOf(r, "revision_committed", row)
  <2>7. kind = "revision_committed" => final = row /\ committed = <<f>>
    OBVIOUS
  <2> HIDE DEF base, found, restored, kind, final, committed
  <2>8. /\ e \in Event /\ e.record = r /\ e.version = base.version
        /\ e.kind = "record_restored" /\ e.revision = base.revision
        /\ e.location = location
    BY <2>3, EventOfType DEF EventOf, EventKinds
  <2> HIDE DEF e
  <2>9. base = RowAfter(e)
    BY <2>3, <2>8 DEF RowAfter, RecordRow
  <2>10. middle = Append(events, e) /\ middle \in Seq(Event)
    BY <1>2, <2>5, <2>8, AppendIsConcat, AppendProperties
  <2>11. between \in [Records -> RecordRow] /\ between[r] = base
    BY <1>2, <2>3
  <2>12. Good(between, middle)
    <3>1. records[r] # NoRecord
      BY <1>6 DEF NoRecord
    <3>2. ASSUME NEW p \in Event, records[r] = RowAfter(p) PROVE LegalSuccessor(p, e)
      <4>1. p.kind = "record_tombstoned" /\ p.revision = records[r].revision
        BY <1>6, <3>2 DEF RowAfter
      <4> QED BY <2>3, <2>8, <4>1 DEF LegalSuccessor
    <3>3. Good([records EXCEPT ![r] = base], Append(events, e))
      BY <1>2, <2>3, <2>8, <2>9, <3>1, <3>2, AppendGood
    <3> QED BY <2>10, <3>3
  <2>13. CASE kind = "unchanged"
    <3> HIDE DEF middle
    <3>1. events' = middle /\ records' = [records EXCEPT ![r] = base]
      BY <1>1, <2>6, <2>10, <2>13
    <3> QED BY <2>12, <3>1
  <2>14. CASE kind = "revision_committed"
    <3>1. /\ row \in RecordRow /\ row.version = base.version + 1
          /\ row.state = "active" /\ row.revision = revision /\ row.location = location
      BY <2>3, TransitionType DEF Transition
    <3> HIDE DEF row
    <3>2. /\ f \in Event /\ f.record = r /\ f.version = row.version
          /\ f.kind = "revision_committed" /\ f.revision = revision
          /\ f.location = location
      BY <3>1, EventOfType DEF EventOf, EventKinds
    <3> HIDE DEF f, middle
    <3>3. row = RowAfter(f)
      BY <3>1, <3>2 DEF RowAfter, RecordRow
    <3>4. /\ events' = Append(middle, f)
          /\ records' = [between EXCEPT ![r] = row]
      <4>1. events' = middle \o <<f>> /\ records' = [records EXCEPT ![r] = row]
        BY <1>1, <2>7, <2>14
      <4> QED BY <1>2, <2>10, <3>2, <4>1, AppendIsConcat, ZenonT(30)
    <3> HIDE DEF between
    <3>5. between[r] # NoRecord
      BY <2>3, <2>11 DEF NoRecord
    <3>6. ASSUME NEW p \in Event, between[r] = RowAfter(p) PROVE LegalSuccessor(p, f)
      <4>1. p.kind # "record_tombstoned" /\ p.revision = base.revision
        BY <2>3, <2>11, <3>6 DEF RowAfter
      <4> QED BY <2>6, <2>14, <3>2, <4>1 DEF LegalSuccessor
    <3>7. f.version = between[r].version + 1
      BY <2>11, <3>1, <3>2
    <3> QED BY <2>10, <2>11, <2>12, <3>1, <3>2, <3>3, <3>4, <3>5, <3>6, <3>7, AppendGood
  <2> QED BY <2>6, <2>13, <2>14
<1> QED
  BY <1>2, <1>4, <1>5, <1>6 DEF RecordRow

-----------------------------------------------------------------------------
(* Theorems *)

LedgerGood == LedgerInv /\ LedgerReplays /\ EventChain

LEMMA LedgerInitGood == LedgerInit => LedgerGood
<1> SUFFICES ASSUME LedgerInit PROVE LedgerGood
  OBVIOUS
<1>1. NoRecord \in RecordRow
  BY DEF NoRecord, RecordRow
<1>2. /\ records \in [Records -> RecordRow] /\ events = <<>> /\ Len(events) = 0
      /\ \A r \in Records : records[r] = NoRecord
  BY <1>1 DEF LedgerInit
<1>3. LedgerInv
  BY <1>2, LedgerAssumption DEF LedgerInv, LedgerTypeOK, NoRecord, LedgerAssumption
<1>4. Replays(records, events) /\ Chained(events)
  BY <1>2 DEF Replays, Chained
<1> QED
  BY <1>3, <1>4 DEF LedgerGood, LedgerReplays, EventChain

\* A transaction of the ledger, or none.
LEMMA LedgerNextGood ==
    ASSUME LedgerGood, [LedgerNext]_ledgerVars
    PROVE  LedgerGood' /\ (LedgerStep \/ UNCHANGED ledgerVars)
<1>1. LedgerInv /\ Good(records, events)
  BY DEF LedgerGood, Good, LedgerReplays, EventChain
<1>2. ASSUME NEW r \in Records, Tombstone(r)
      PROVE  LedgerGood' /\ LedgerStep
  <2>1. LedgerStep /\ Good(records', events')
    BY <1>1, <1>2, TombstoneStep, TombstoneGood, LedgerAssumption
  <2>2. LedgerInv'
    BY <1>1, <2>1, LedgerStepGrows DEF LedgerGrows
  <2> QED BY <2>1, <2>2 DEF LedgerGood, Good, LedgerReplays, EventChain
<1>3. ASSUME NEW r \in Records, NEW location \in Locations, NEW revision \in Revisions,
             ObservePresent(r, location, revision)
      PROVE  LedgerGood' /\ LedgerStep
  <2>1. LedgerStep /\ Good(records', events')
    BY <1>1, <1>3, ObserveStep, ObserveGood, LedgerAssumption
  <2>2. LedgerInv'
    BY <1>1, <2>1, LedgerStepGrows DEF LedgerGrows
  <2> QED BY <2>1, <2>2 DEF LedgerGood, Good, LedgerReplays, EventChain
<1>4. CASE UNCHANGED ledgerVars
  BY <1>4 DEF ledgerVars, LedgerGood, LedgerInv, LedgerTypeOK, LedgerReplays, EventChain
<1> QED
  BY <1>2, <1>3, <1>4 DEF LedgerNext

\* The row of a record changes only together with its version.
LEMMA RowsGrow ==
    ASSUME LedgerInv, LedgerNext, NEW r \in Records
    PROVE  records'[r] = records[r] \/ records'[r].version > records[r].version
<1>1. /\ records \in [Records -> RecordRow] /\ NoRevision \notin Revisions
      /\ records[r].version \in Nat
  BY LedgerAssumption DEF LedgerInv, LedgerTypeOK, LedgerAssumption, RecordRow
<1>2. CASE Tombstone(r)
  BY <1>1, <1>2 DEF Tombstone, Transition
<1>3. ASSUME NEW location \in Locations, NEW revision \in Revisions,
             ObservePresent(r, location, revision)
      PROVE  records'[r] = records[r] \/ records'[r].version > records[r].version
  <2> DEFINE found == FoundRow(r, location)
             base  == RestoredRow(found, location)
             kind  == ObservedKind(base, location, revision)
  <2>1. records'[r] = IF kind = "unchanged" THEN base
                      ELSE Transition(base, "active", revision, location)
    BY <1>1, <1>3 DEF ObservePresent
  <2>2. \/ found = records[r]
        \/ /\ found = [version |-> 0, state |-> "active",
                        revision |-> NoRevision, location |-> location]
           /\ records[r].state = "absent"
    BY DEF FoundRow, NoRecord
  <2>3. found.version = records[r].version
    BY <2>2 DEF LedgerInv
  <2>4. base = found \/ base.version = found.version + 1
    BY DEF RestoredRow, Transition
  <2>5. kind = "unchanged" => base.revision = revision
    BY DEF ObservedKind
  <2>6. kind # "unchanged" => records'[r].version = base.version + 1
    BY <2>1 DEF Transition
  <2>7. base = found /\ kind = "unchanged" => records'[r] = records[r]
    BY <1>1, <2>1, <2>2, <2>5
  <2> HIDE DEF found, base, kind
  <2> QED BY <1>1, <2>1, <2>3, <2>4, <2>6, <2>7
<1>4. ASSUME NEW q \in Records, q # r,
             \/ Tombstone(q)
             \/ \E location \in Locations, revision \in Revisions :
                    ObservePresent(q, location, revision)
      PROVE  records'[r] = records[r]
  BY <1>1, <1>4 DEF Tombstone, ObservePresent
<1> QED
  BY <1>2, <1>3, <1>4 DEF LedgerNext

LEMMA LedgerInvariant == LedgerSpec => []LedgerGood
<1>1. LedgerInit => LedgerGood
  BY LedgerInitGood
<1>2. LedgerGood /\ [LedgerNext]_ledgerVars => LedgerGood'
  BY LedgerNextGood
<1> QED
  BY <1>1, <1>2, PTL DEF LedgerSpec

\* For every set of records, contents and locations and every order of
\* observations and tombstones: the events of a record have versions 1, 2, 3,
\* ..., and its row is what the last of them describes.
THEOREM LedgerIsReplayed == LedgerSpec => []LedgerReplays
<1>1. LedgerGood => LedgerReplays
  BY DEF LedgerGood
<1> QED
  BY <1>1, LedgerInvariant, PTL

\* A record is committed first, no event is redundant, and a restore follows a
\* tombstone and nothing else does.
THEOREM EventsAreChained == LedgerSpec => []EventChain
<1>1. LedgerGood => EventChain
  BY DEF LedgerGood
<1> QED
  BY <1>1, LedgerInvariant, PTL

\* The ledger only grows: no step changes or removes an event, and no row
\* changes without a new version.
THEOREM OnlyAppends == LedgerSpec => AppendOnly
<1> DEFINE Appends == /\ Len(events') >= Len(events)
                      /\ SubSeq(events', 1, Len(events)) = events
                      /\ \A r \in Records :
                          \/ records'[r] = records[r]
                          \/ records'[r].version > records[r].version
<1>1. ASSUME LedgerGood, [LedgerNext]_ledgerVars PROVE [Appends]_ledgerVars
  <2> SUFFICES ASSUME LedgerNext, LedgerStep PROVE Appends
    BY <1>1, LedgerNextGood
  <2>1. /\ events \in Seq(Event) /\ events' \in Seq(Event)
        /\ Len(events') >= Len(events)
        /\ \A i \in 1..Len(events) : events'[i] = events[i]
    BY <1>1 DEF LedgerGood, LedgerInv, LedgerTypeOK, LedgerStep
  <2>2. SubSeq(events', 1, Len(events)) = events
    BY <2>1
  <2>3. LedgerInv
    BY <1>1 DEF LedgerGood
  <2> QED BY <2>1, <2>2, <2>3, RowsGrow
<1>2. LedgerGood /\ [LedgerNext]_ledgerVars => [Appends]_ledgerVars
  BY <1>1
<1> HIDE DEF Appends
<1>3. LedgerSpec => [][Appends]_ledgerVars
  BY <1>2, LedgerInvariant, PTL DEF LedgerSpec
<1> QED
  BY <1>3 DEF AppendOnly, Appends
=============================================================================
