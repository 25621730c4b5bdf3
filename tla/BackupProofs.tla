---------------------------- MODULE BackupProofs ----------------------------
(***************************************************************************)
(* Theorems about backup and restore, for any number of operators and of   *)
(* destinations, with any commits to the live ledger between their steps.  *)
(***************************************************************************)
EXTENDS Backup, LedgerProofs

\* c is the ledger as it was at one moment.
Past(c) ==
    /\ c \in Catalogs
    /\ Len(c.events) <= Len(events)
    /\ \A i \in 1..Len(c.events) : c.events[i] = events[i]
    /\ Replays(c.records, c.events)

\* What an operator knows at each step.  Its destination is its own until it
\* has renamed both files, and what it has read of a recovery set stays true,
\* because nothing that is written is written again.
Knows(o) ==
    LET s == op[o]
    IN  /\ s.step \in {"metadata", "copy", "rename", "seal"} => s.to \in Targets[o]
        /\ s.step \in {"metadata", "copy", "rename"} => IsNew(s.to)
        /\ s.step = "copy" =>
            /\ s.sequence \in Nat /\ s.from \in Paths \cup {Absent}
            /\ s.from = Absent => s.sequence <= Len(events)
            /\ s.from # Absent => Matches(s.sequence, catalogs[s.from])
        /\ s.step \in {"rename", "seal"} =>
            /\ Past(s.catalog)
            /\ s.sequence \in Nat /\ s.sequence <= Len(s.catalog.events)
            /\ s.restore => s.sequence = Len(s.catalog.events)
        /\ s.step = "rename" =>
            s = [step |-> "rename", to |-> s.to, restore |-> s.restore,
                 sequence |-> s.sequence, catalog |-> s.catalog]
        /\ s.step = "compare" =>
            s = [step |-> "compare", from |-> s.from, restore |-> s.restore,
                 sequence |-> s.sequence]
        /\ s.step = "seal" => catalogs[s.to] = s.catalog /\ manifests[s.to] = Absent
        /\ s.step \in {"validate", "compare", "restore"} => s.from \in Paths
        /\ s.step = "compare" => s.sequence \in Nat /\ manifests[s.from] = s.sequence
        /\ s.step = "restore" =>
            s.sequence \in Nat /\ Matches(s.sequence, catalogs[s.from])

BackupInv ==
    /\ LedgerGood
    /\ catalogs \in [Paths -> Catalogs \cup {Absent}]
    /\ manifests \in [Paths -> Nat \cup {Absent}]
    /\ op = [o \in Operators |-> op[o]]
    /\ \A x \in Paths : catalogs[x] # Absent => Past(catalogs[x])
    /\ ManifestNotAhead
    /\ \A o \in Operators : Knows(o)

-----------------------------------------------------------------------------
(* What stays *)

\* The live ledger only grows, nothing that exists at a destination changes,
\* and the destinations of operator q are left alone.
LedgerGrew ==
    /\ events \in Seq(Event) /\ events' \in Seq(Event)
    /\ Len(events') >= Len(events)
    /\ \A i \in 1..Len(events) : events'[i] = events[i]

Kept ==
    \A x \in Paths :
        /\ catalogs[x] # Absent => catalogs'[x] = catalogs[x]
        /\ manifests[x] # Absent => manifests'[x] = manifests[x]

LeavesAlone(q) ==
    \A x \in Targets[q] : catalogs'[x] = catalogs[x] /\ manifests'[x] = manifests[x]

LEMMA PastStays ==
    ASSUME LedgerGrew, NEW c, Past(c)
    PROVE  Past(c)'
<1>1. /\ c.events \in Seq(Event) /\ Len(c.events) \in Nat
      /\ Len(events) \in Nat /\ Len(events') \in Nat
  BY DEF Past, Catalogs, LedgerGrew
<1>2. Len(c.events) <= Len(events')
  BY <1>1 DEF Past, LedgerGrew
<1>3. \A i \in 1..Len(c.events) : c.events[i] = events'[i]
  BY <1>1 DEF Past, LedgerGrew
<1> QED
  BY <1>2, <1>3 DEF Past

LEMMA KnowsStays ==
    ASSUME NEW q \in Operators, Knows(q), op'[q] = op[q],
           LedgerGrew, Kept, LeavesAlone(q), Targets[q] \subseteq Paths,
           Absent \notin Nat
    PROVE  Knows(q)'
<1> DEFINE s == op[q]
<1>1. op'[q] = s
  OBVIOUS
<1>2. s.step \in {"metadata", "copy", "rename", "seal"} => s.to \in Targets[q]
  BY DEF Knows
<1>3. s.step \in {"metadata", "copy", "rename"} => IsNew(s.to)'
  BY <1>2 DEF Knows, LeavesAlone, IsNew
<1>4. s.step = "copy" =>
        /\ s.sequence \in Nat /\ s.from \in Paths \cup {Absent}
        /\ s.from = Absent => s.sequence <= Len(events')
        /\ s.from # Absent => Matches(s.sequence, catalogs'[s.from])
  <2> SUFFICES ASSUME s.step = "copy"
               PROVE  /\ s.sequence \in Nat /\ s.from \in Paths \cup {Absent}
                      /\ s.from = Absent => s.sequence <= Len(events')
                      /\ s.from # Absent => Matches(s.sequence, catalogs'[s.from])
    OBVIOUS
  <2>1. /\ s.sequence \in Nat /\ s.from \in Paths \cup {Absent}
        /\ s.from = Absent => s.sequence <= Len(events)
        /\ s.from # Absent => Matches(s.sequence, catalogs[s.from])
    BY DEF Knows
  <2>2. Len(events) \in Nat /\ Len(events') \in Nat /\ Len(events') >= Len(events)
    BY DEF LedgerGrew
  <2>3. s.from # Absent => catalogs'[s.from] = catalogs[s.from]
    BY <2>1 DEF Kept, Matches
  <2> HIDE DEF s
  <2> QED BY <2>1, <2>2, <2>3
<1>5. s.step \in {"rename", "seal"} =>
        /\ Past(s.catalog)'
        /\ s.sequence \in Nat /\ s.sequence <= Len(s.catalog.events)
        /\ s.restore => s.sequence = Len(s.catalog.events)
  <2> SUFFICES ASSUME s.step \in {"rename", "seal"}
               PROVE  /\ Past(s.catalog)'
                      /\ s.sequence \in Nat /\ s.sequence <= Len(s.catalog.events)
                      /\ s.restore => s.sequence = Len(s.catalog.events)
    OBVIOUS
  <2>1. /\ Past(s.catalog)
        /\ s.sequence \in Nat /\ s.sequence <= Len(s.catalog.events)
        /\ s.restore => s.sequence = Len(s.catalog.events)
    BY DEF Knows
  <2>2. ASSUME NEW c, Past(c), c = s.catalog PROVE Past(s.catalog)'
    <3>1. Past(c)'
      BY <2>2, PastStays
    <3> QED BY <1>1, <2>2, <3>1 DEF Past
  <2> QED BY <2>1, <2>2
<1>6. s.step = "seal" => catalogs'[s.to] = s.catalog /\ manifests'[s.to] = Absent
  BY <1>2 DEF Knows, LeavesAlone
<1>7. /\ s.step \in {"validate", "compare", "restore"} => s.from \in Paths
      /\ s.step = "compare" => s.sequence \in Nat /\ manifests'[s.from] = s.sequence
      /\ s.step = "restore" => s.sequence \in Nat /\ Matches(s.sequence, catalogs'[s.from])
  BY DEF Knows, Kept, Matches
<1> QED
  BY <1>1, <1>2, <1>3, <1>4, <1>5, <1>6, <1>7 DEF Knows

-----------------------------------------------------------------------------
(* Steps *)

\* A step of operator o, whatever it renames at its own destination.
LEMMA OperatorKeeps ==
    ASSUME BackupInv, NEW o \in Operators, NEW new,
           UNCHANGED <<records, events>>, op' = [op EXCEPT ![o] = new],
           Kept, \A q \in Operators : q # o => LeavesAlone(q),
           Knows(o)',
           catalogs' \in [Paths -> Catalogs \cup {Absent}],
           manifests' \in [Paths -> Nat \cup {Absent}],
           \A x \in Paths : catalogs'[x] # Absent => Past(catalogs'[x]),
           ManifestNotAhead'
    PROVE  BackupInv'
<1>1. LedgerGood'
  BY DEF BackupInv, LedgerGood, LedgerInv, LedgerTypeOK, LedgerReplays, EventChain
<1>2. LedgerGrew
  BY DEF BackupInv, LedgerGood, LedgerInv, LedgerTypeOK, LedgerGrew
<1>3. /\ op' = [q \in Operators |-> op'[q]]
      /\ \A q \in Operators : q # o => op'[q] = op[q]
  BY DEF BackupInv
<1>4. \A x \in Paths : catalogs'[x] # Absent => Past(catalogs[x])'
  BY <1>2 DEF Past
<1>5. ASSUME NEW q \in Operators PROVE Knows(q)'
  <2>1. CASE q = o
    BY <2>1
  <2>2. CASE q # o
    <3>1. op'[q] = op[q] /\ Knows(q) /\ LeavesAlone(q)
      BY <1>3, <2>2 DEF BackupInv
    <3>2. Targets[q] \subseteq Paths /\ Absent \notin Nat
      BY BackupAssumption DEF BackupAssumption
    <3> QED BY <1>2, <3>1, <3>2, KnowsStays
  <2> QED BY <2>1, <2>2
<1> QED
  BY <1>1, <1>3, <1>4, <1>5 DEF BackupInv

\* A step of operator o that renames nothing.
LEMMA QuietStep ==
    ASSUME BackupInv, NEW o \in Operators, NEW new,
           UNCHANGED <<records, events, catalogs, manifests>>,
           op' = [op EXCEPT ![o] = new], Knows(o)'
    PROVE  BackupInv' /\ Kept
<1>1. Kept /\ \A q \in Operators : LeavesAlone(q)
  BY DEF Kept, LeavesAlone
<1>2. /\ catalogs' \in [Paths -> Catalogs \cup {Absent}]
      /\ manifests' \in [Paths -> Nat \cup {Absent}]
      /\ \A x \in Paths : catalogs'[x] # Absent => Past(catalogs'[x])
      /\ ManifestNotAhead'
  BY DEF BackupInv, ManifestNotAhead
<1> QED
  BY <1>1, <1>2, OperatorKeeps

LEMMA ReadingSteps ==
    ASSUME BackupInv, NEW o \in Operators,
           \/ \E x \in Paths : BackupTo(o, x) \/ RestoreTo(o, x)
           \/ \E x \in Paths, restore \in BOOLEAN : Validate(o, x, restore)
           \/ ReadMetadata(o) \/ ReadManifest(o) \/ Compare(o) \/ Stop(o)
    PROVE  BackupInv' /\ Kept
<1> DEFINE s == op[o]
<1>0. /\ Knows(o) /\ op = [q \in Operators |-> op[q]]
      /\ Len(events) \in Nat
      /\ manifests \in [Paths -> Nat \cup {Absent}]
  BY DEF BackupInv, LedgerGood, LedgerInv, LedgerTypeOK
<1>1. \A new : op' = [op EXCEPT ![o] = new] => op'[o] = new
  BY <1>0
<1>2. ASSUME NEW x \in Paths, BackupTo(o, x) PROVE BackupInv' /\ Kept
  <2> DEFINE new == [step |-> "metadata", to |-> x]
  <2>1. /\ op' = [op EXCEPT ![o] = new] /\ x \in Targets[o] /\ IsNew(x)
        /\ UNCHANGED <<records, events, catalogs, manifests>>
    BY <1>2 DEF BackupTo, Set
  <2>2. op'[o].step = "metadata" /\ op'[o].to = x
    BY <1>1, <2>1
  <2>3. Knows(o)'
    BY <2>1, <2>2 DEF Knows, IsNew
  <2> QED BY <2>1, <2>3, QuietStep
<1>3. ASSUME NEW x \in Paths, RestoreTo(o, x) PROVE BackupInv' /\ Kept
  <2> DEFINE new == [step |-> "copy", from |-> s.from, to |-> x,
                     sequence |-> s.sequence]
  <2>1. /\ op' = [op EXCEPT ![o] = new] /\ x \in Targets[o] /\ IsNew(x)
        /\ s.step = "restore"
        /\ UNCHANGED <<records, events, catalogs, manifests>>
    BY <1>3 DEF RestoreTo, Set, At
  <2>2. s.from \in Paths /\ s.sequence \in Nat /\ Matches(s.sequence, catalogs[s.from])
    BY <1>0, <2>1 DEF Knows
  <2>3. s.from # Absent
    BY <2>2, BackupAssumption DEF BackupAssumption
  <2>4. Knows(o)'
    BY <1>1, <2>1, <2>2, <2>3 DEF Knows, IsNew, Matches
  <2> QED BY <2>1, <2>4, QuietStep
<1>4. ASSUME NEW x \in Paths, NEW restore \in BOOLEAN, Validate(o, x, restore)
      PROVE  BackupInv' /\ Kept
  <2> DEFINE new == [step |-> "validate", from |-> x, restore |-> restore]
  <2>1. /\ op' = [op EXCEPT ![o] = new]
        /\ UNCHANGED <<records, events, catalogs, manifests>>
    BY <1>4 DEF Validate, Set
  <2>2. op'[o].step = "validate" /\ op'[o].from = x
    BY <1>1, <2>1
  <2>3. Knows(o)'
    BY <2>2 DEF Knows
  <2> QED BY <2>1, <2>3, QuietStep
<1>5. CASE ReadMetadata(o)
  <2> DEFINE new == [step |-> "copy", from |-> Absent, to |-> s.to,
                     sequence |-> Len(events)]
  <2>1. /\ op' = [op EXCEPT ![o] = new] /\ s.step = "metadata"
        /\ UNCHANGED <<records, events, catalogs, manifests>>
    BY <1>5 DEF ReadMetadata, Set, At
  <2>2. s.to \in Targets[o] /\ IsNew(s.to)
    BY <1>0, <2>1 DEF Knows
  <2>3. Knows(o)'
    BY <1>0, <1>1, <2>1, <2>2 DEF Knows, IsNew
  <2> QED BY <2>1, <2>3, QuietStep
<1>6. CASE ReadManifest(o)
  <2> DEFINE new == [step |-> "compare", from |-> s.from, restore |-> s.restore,
                     sequence |-> manifests[s.from]]
  <2>1. /\ op' = [op EXCEPT ![o] = new] /\ s.step = "validate"
        /\ manifests[s.from] # Absent
        /\ UNCHANGED <<records, events, catalogs, manifests>>
    BY <1>6 DEF ReadManifest, Set, At
  <2>2. s.from \in Paths
    BY <1>0, <2>1 DEF Knows
  <2>3. manifests[s.from] \in Nat
    BY <1>0, <2>1, <2>2
  <2>4. Knows(o)'
    BY <1>1, <2>1, <2>2, <2>3 DEF Knows
  <2> QED BY <2>1, <2>4, QuietStep
<1>7. CASE Compare(o)
  <2> DEFINE new == IF s.restore THEN [s EXCEPT !.step = "restore"] ELSE Idle
  <2>1. /\ op' = [op EXCEPT ![o] = new] /\ s.step = "compare"
        /\ Matches(s.sequence, catalogs[s.from])
        /\ UNCHANGED <<records, events, catalogs, manifests>>
    BY <1>7 DEF Compare, Set, At
  <2>2. s.from \in Paths /\ s.sequence \in Nat
    BY <1>0, <2>1 DEF Knows
  <2>3. \/ new = Idle
        \/ new = [s EXCEPT !.step = "restore"]
    OBVIOUS
  <2>4. CASE new = Idle
    <3>1. op'[o].step = "idle"
      BY <1>1, <2>1, <2>4 DEF Idle
    <3>2. Knows(o)'
      BY <3>1 DEF Knows
    <3> QED BY <2>1, <3>2, QuietStep
  <2>5. CASE new = [s EXCEPT !.step = "restore"]
    <3>0. s = [step |-> "compare", from |-> s.from, restore |-> s.restore,
               sequence |-> s.sequence]
      BY <1>0, <2>1 DEF Knows
    <3>1. op'[o].step = "restore" /\ op'[o].from = s.from /\ op'[o].sequence = s.sequence
      <4>1. op'[o] = [s EXCEPT !.step = "restore"]
        BY <1>1, <2>1, <2>5
      <4>2. \A f, b, n : s = [step |-> "compare", from |-> f, restore |-> b, sequence |-> n]
              => /\ [s EXCEPT !.step = "restore"].step = "restore"
                 /\ [s EXCEPT !.step = "restore"].from = f
                 /\ [s EXCEPT !.step = "restore"].sequence = n
        OBVIOUS
      <4> HIDE DEF s
      <4> QED BY <3>0, <4>1, <4>2
    <3>2. Knows(o)'
      BY <2>1, <2>2, <3>1 DEF Knows, Matches
    <3> QED BY <2>1, <3>2, QuietStep
  <2> QED BY <2>3, <2>4, <2>5
<1>8. CASE Stop(o)
  <2>1. /\ op' = [op EXCEPT ![o] = Idle]
        /\ UNCHANGED <<records, events, catalogs, manifests>>
    BY <1>8 DEF Stop, Set
  <2>2. op'[o].step = "idle"
    BY <1>1, <2>1 DEF Idle
  <2>3. Knows(o)'
    BY <2>2 DEF Knows
  <2> QED BY <2>1, <2>3, QuietStep
<1> QED
  BY <1>2, <1>3, <1>4, <1>5, <1>6, <1>7, <1>8

\* The live catalog is the ledger of this moment.
LEMMA LiveIsPast ==
    ASSUME LedgerGood
    PROVE  Past(Live) /\ Len(Live.events) = Len(events)
<1>1. /\ records \in [Records -> RecordRow] /\ events \in Seq(Event)
      /\ Replays(records, events) /\ Len(events) \in Nat
  BY DEF LedgerGood, LedgerInv, LedgerTypeOK, LedgerReplays
<1>2. Live.records = records /\ Live.events = events /\ Live \in Catalogs
  BY <1>1 DEF Live, Catalogs
<1> QED
  BY <1>1, <1>2 DEF Past

LEMMA CopyStep ==
    ASSUME BackupInv, NEW o \in Operators, Copy(o)
    PROVE  BackupInv' /\ Kept
<1> DEFINE s   == op[o]
           c   == Contents(o)
           new == [step |-> "rename", to |-> s.to, restore |-> s.from # Absent,
                   sequence |-> s.sequence, catalog |-> c]
<1>1. /\ op' = [op EXCEPT ![o] = new] /\ s.step = "copy"
      /\ UNCHANGED <<records, events, catalogs, manifests>>
  BY DEF Copy, Set, At
<1>2. /\ Knows(o) /\ LedgerGood /\ op = [q \in Operators |-> op[q]]
      /\ \A x \in Paths : catalogs[x] # Absent => Past(catalogs[x])
      /\ Len(events) \in Nat
  BY DEF BackupInv, LedgerGood, LedgerInv, LedgerTypeOK
<1>3. /\ s.to \in Targets[o] /\ IsNew(s.to)
      /\ s.sequence \in Nat /\ s.from \in Paths \cup {Absent}
      /\ s.from = Absent => s.sequence <= Len(events)
      /\ s.from # Absent => Matches(s.sequence, catalogs[s.from])
  BY <1>1, <1>2 DEF Knows
<1>4. /\ Past(c) /\ s.sequence <= Len(c.events)
      /\ s.from # Absent => s.sequence = Len(c.events)
  <2>1. CASE s.from = Absent
    <3>1. c = Live
      BY <2>1 DEF Contents
    <3> QED BY <1>2, <1>3, <2>1, <3>1, LiveIsPast
  <2>2. CASE s.from # Absent
    <3>1. c = catalogs[s.from] /\ Matches(s.sequence, c)
      BY <1>3, <2>2 DEF Contents
    <3>2. Past(c) /\ s.sequence = Len(c.events)
      BY <1>2, <1>3, <2>2, <3>1 DEF Matches
    <3> QED BY <1>3, <3>2
  <2> QED BY <2>1, <2>2
<1>5. op'[o] = new
  BY <1>1, <1>2
<1> HIDE DEF c
<1>6. /\ op'[o].step = "rename" /\ op'[o].to = s.to /\ op'[o].sequence = s.sequence
      /\ op'[o].catalog = c /\ (op'[o].restore => s.from # Absent)
  <2>1. /\ op'[o].step = "rename" /\ op'[o].to = s.to
        /\ op'[o].sequence = s.sequence /\ op'[o].catalog = c
    BY <1>5
  <2>2. s.from = Absent => ~op'[o].restore
    <3> SUFFICES ASSUME s.from = Absent PROVE ~op'[o].restore
      OBVIOUS
    <3>1. new = [step |-> "rename", to |-> s.to, restore |-> FALSE,
                 sequence |-> s.sequence, catalog |-> c]
      OBVIOUS
    <3> HIDE DEF new
    <3> QED BY <1>5, <3>1
  <2> QED BY <2>1, <2>2
<1>7. op'[o] = [step |-> "rename", to |-> op'[o].to, restore |-> op'[o].restore,
                sequence |-> op'[o].sequence, catalog |-> op'[o].catalog]
  <2>1. \A v, t, b, n, k :
          v = [step |-> "rename", to |-> t, restore |-> b, sequence |-> n, catalog |-> k]
          => v = [step |-> "rename", to |-> v.to, restore |-> v.restore,
                  sequence |-> v.sequence, catalog |-> v.catalog]
    OBVIOUS
  <2> QED BY <1>5, <2>1
<1>8. Past(op[o].catalog)'
  BY <1>1, <1>4, <1>6 DEF Past
<1>9. IsNew(op[o].to)'
  BY <1>1, <1>3, <1>6 DEF IsNew
<1>10. Knows(o)'
  BY <1>3, <1>4, <1>6, <1>7, <1>8, <1>9 DEF Knows
<1> QED
  BY <1>1, <1>10, QuietStep

LEMMA RenameCatalogStep ==
    ASSUME BackupInv, NEW o \in Operators, RenameCatalog(o)
    PROVE  BackupInv' /\ Kept
<1> DEFINE s == op[o]
<1>1. /\ op' = [op EXCEPT ![o] = [s EXCEPT !.step = "seal"]] /\ s.step = "rename"
      /\ catalogs' = [catalogs EXCEPT ![s.to] = s.catalog]
      /\ UNCHANGED <<records, events, manifests>>
  BY DEF RenameCatalog, Set, At
<1>2. /\ Knows(o) /\ op = [q \in Operators |-> op[q]]
      /\ catalogs \in [Paths -> Catalogs \cup {Absent}]
      /\ manifests \in [Paths -> Nat \cup {Absent}]
      /\ \A x \in Paths : catalogs[x] # Absent => Past(catalogs[x])
      /\ ManifestNotAhead
  BY DEF BackupInv
<1>3. /\ s.to \in Targets[o] /\ catalogs[s.to] = Absent /\ manifests[s.to] = Absent
      /\ Past(s.catalog) /\ s.sequence \in Nat /\ s.sequence <= Len(s.catalog.events)
      /\ s.restore => s.sequence = Len(s.catalog.events)
  BY <1>1, <1>2 DEF Knows, IsNew
<1>4. /\ s.to \in Paths
      /\ \A q \in Operators : q # o => s.to \notin Targets[q] /\ Targets[q] \subseteq Paths
  BY <1>3, BackupAssumption DEF BackupAssumption
<1>5. /\ op'[o].step = "seal" /\ op'[o].to = s.to /\ op'[o].restore = s.restore
      /\ op'[o].sequence = s.sequence /\ op'[o].catalog = s.catalog
  <2>1. op'[o] = [s EXCEPT !.step = "seal"]
    BY <1>1, <1>2
  <2>2. s = [step |-> "rename", to |-> s.to, restore |-> s.restore,
             sequence |-> s.sequence, catalog |-> s.catalog]
    BY <1>1, <1>2 DEF Knows
  <2>3. \A t, b, n, c : s = [step |-> "rename", to |-> t, restore |-> b,
                             sequence |-> n, catalog |-> c]
          => /\ [s EXCEPT !.step = "seal"].step = "seal"
             /\ [s EXCEPT !.step = "seal"].to = t
             /\ [s EXCEPT !.step = "seal"].restore = b
             /\ [s EXCEPT !.step = "seal"].sequence = n
             /\ [s EXCEPT !.step = "seal"].catalog = c
    OBVIOUS
  <2> HIDE DEF s
  <2> QED BY <2>1, <2>2, <2>3
<1> HIDE DEF s
<1>6. /\ catalogs'[s.to] = s.catalog
      /\ \A x \in Paths : x # s.to => catalogs'[x] = catalogs[x]
  BY <1>1, <1>2, <1>4
<1>7. Kept /\ \A q \in Operators : q # o => LeavesAlone(q)
  BY <1>1, <1>3, <1>4, <1>6 DEF Kept, LeavesAlone
<1>8. catalogs' \in [Paths -> Catalogs \cup {Absent}]
  BY <1>1, <1>2, <1>3 DEF Past
<1>9. \A x \in Paths : catalogs'[x] # Absent => Past(catalogs'[x])
  BY <1>2, <1>3, <1>6
<1>10. ManifestNotAhead'
  BY <1>1, <1>2, <1>3, <1>6 DEF ManifestNotAhead
<1>11. Past(op[o].catalog)'
  BY <1>1, <1>3, <1>5 DEF Past
<1>12. Knows(o)'
  BY <1>1, <1>3, <1>5, <1>6, <1>11 DEF Knows
<1>13. manifests' \in [Paths -> Nat \cup {Absent}]
  BY <1>1, <1>2
<1>14. \E new : op' = [op EXCEPT ![o] = new]
  BY <1>1
<1> QED
  BY <1>1, <1>7, <1>8, <1>9, <1>10, <1>12, <1>13, <1>14, OperatorKeeps

LEMMA RenameManifestStep ==
    ASSUME BackupInv, NEW o \in Operators, RenameManifest(o)
    PROVE  BackupInv' /\ Kept
           /\ \A x \in Paths : op[o].restore /\ op[o].to = x => Valid(x)'
<1> DEFINE s == op[o]
<1>1. /\ op' = [op EXCEPT ![o] = IF s.restore
                                 THEN [step |-> "validate", from |-> s.to,
                                       restore |-> FALSE]
                                 ELSE Idle]
      /\ s.step = "seal"
      /\ manifests' = [manifests EXCEPT ![s.to] = s.sequence]
      /\ UNCHANGED <<records, events, catalogs>>
  BY DEF RenameManifest, Set, At
<1>2. /\ Knows(o) /\ op = [q \in Operators |-> op[q]]
      /\ catalogs \in [Paths -> Catalogs \cup {Absent}]
      /\ manifests \in [Paths -> Nat \cup {Absent}]
      /\ \A x \in Paths : catalogs[x] # Absent => Past(catalogs[x])
      /\ ManifestNotAhead
  BY DEF BackupInv
<1>3. /\ s.to \in Targets[o] /\ catalogs[s.to] = s.catalog /\ manifests[s.to] = Absent
      /\ Past(s.catalog) /\ s.sequence \in Nat /\ s.sequence <= Len(s.catalog.events)
      /\ s.restore => s.sequence = Len(s.catalog.events)
  BY <1>1, <1>2 DEF Knows
<1>4. /\ s.to \in Paths
      /\ \A q \in Operators : q # o => s.to \notin Targets[q] /\ Targets[q] \subseteq Paths
  BY <1>3, BackupAssumption DEF BackupAssumption
<1>5. s.sequence # Absent /\ catalogs[s.to] # Absent
  BY <1>3, BackupAssumption DEF BackupAssumption, Past
<1>6. /\ manifests'[s.to] = s.sequence
      /\ \A x \in Paths : x # s.to => manifests'[x] = manifests[x]
  BY <1>1, <1>2, <1>4
<1>7. (op'[o].step = "validate" /\ op'[o].from = s.to) \/ op'[o].step = "idle"
  BY <1>1, <1>2 DEF Idle
<1>8. \E new : op' = [op EXCEPT ![o] = new]
  BY <1>1
<1> HIDE DEF s
<1>9. Kept /\ \A q \in Operators : q # o => LeavesAlone(q)
  BY <1>1, <1>3, <1>4, <1>6 DEF Kept, LeavesAlone
<1>10. ManifestNotAhead'
  BY <1>1, <1>2, <1>3, <1>5, <1>6 DEF ManifestNotAhead
<1>11. Knows(o)'
  BY <1>4, <1>7 DEF Knows
<1>12. manifests' \in [Paths -> Nat \cup {Absent}]
  BY <1>1, <1>2, <1>3
<1>13. /\ catalogs' \in [Paths -> Catalogs \cup {Absent}]
       /\ \A x \in Paths : catalogs'[x] # Absent => Past(catalogs'[x])
  BY <1>1, <1>2
<1>14. BackupInv'
  BY <1>1, <1>8, <1>9, <1>10, <1>11, <1>12, <1>13, OperatorKeeps
<1>15. \A x \in Paths : s.restore /\ s.to = x => Valid(x)'
  BY <1>1, <1>3, <1>5, <1>6 DEF Valid, Matches
<1> QED
  BY <1>9, <1>14, <1>15 DEF s

\* A commit to the live ledger.
LEMMA LiveStep ==
    ASSUME BackupInv, LedgerNext, UNCHANGED <<catalogs, manifests, op>>
    PROVE  BackupInv' /\ Kept
<1>1. LedgerGood' /\ (LedgerStep \/ UNCHANGED ledgerVars)
  BY LedgerNextGood DEF BackupInv
<1>2. LedgerGrew
  BY <1>1 DEF LedgerGrew, LedgerStep, ledgerVars, BackupInv, LedgerGood, LedgerInv, LedgerTypeOK
<1>3. Kept /\ \A q \in Operators : LeavesAlone(q)
  BY DEF Kept, LeavesAlone
<1>4. ASSUME NEW q \in Operators PROVE Knows(q)'
  <2>1. Targets[q] \subseteq Paths /\ Absent \notin Nat
    BY BackupAssumption DEF BackupAssumption
  <2> QED BY <1>2, <1>3, <2>1, KnowsStays DEF BackupInv
<1>5. ASSUME NEW x \in Paths, catalogs'[x] # Absent PROVE Past(catalogs[x])'
  <2>1. Past(catalogs[x])
    BY <1>5 DEF BackupInv
  <2>2. ASSUME NEW c, c = catalogs[x] PROVE Past(catalogs[x])'
    <3>1. Past(c)'
      BY <1>2, <2>1, <2>2, PastStays
    <3> QED BY <2>2, <3>1 DEF Past
  <2> QED BY <2>2
<1>6. ManifestNotAhead'
  BY DEF BackupInv, ManifestNotAhead
<1> QED
  BY <1>1, <1>3, <1>4, <1>5, <1>6 DEF BackupInv

LEMMA BackupInitGood == BackupInit => BackupInv
<1> SUFFICES ASSUME BackupInit PROVE BackupInv
  OBVIOUS
<1>1. LedgerGood
  BY LedgerInitGood DEF BackupInit
<1>2. /\ \A x \in Paths : catalogs[x] = Absent /\ manifests[x] = Absent
      /\ catalogs \in [Paths -> Catalogs \cup {Absent}]
      /\ manifests \in [Paths -> Nat \cup {Absent}]
      /\ op = [o \in Operators |-> op[o]]
      /\ \A o \in Operators : op[o].step = "idle"
  BY DEF BackupInit, Idle
<1>3. \A o \in Operators : Knows(o)
  BY <1>2 DEF Knows
<1> QED
  BY <1>1, <1>2, <1>3 DEF BackupInv, ManifestNotAhead

LEMMA BackupNextGood ==
    ASSUME BackupInv, [BackupNext]_backupVars
    PROVE  BackupInv' /\ Kept
<1>1. CASE LedgerNext /\ UNCHANGED <<catalogs, manifests, op>>
  BY <1>1, LiveStep
<1>2. ASSUME NEW o \in Operators, OperatorStep(o) PROVE BackupInv' /\ Kept
  <2>1. CASE Copy(o)
    BY <2>1, CopyStep
  <2>2. CASE RenameCatalog(o)
    BY <2>2, RenameCatalogStep
  <2>3. CASE RenameManifest(o)
    BY <2>3, RenameManifestStep
  <2>4. CASE \/ \E x \in Paths : BackupTo(o, x) \/ RestoreTo(o, x)
             \/ \E x \in Paths, restore \in BOOLEAN : Validate(o, x, restore)
             \/ ReadMetadata(o) \/ ReadManifest(o) \/ Compare(o) \/ Stop(o)
    BY <2>4, ReadingSteps
  <2> QED BY <1>2, <2>1, <2>2, <2>3, <2>4 DEF OperatorStep
<1>3. CASE UNCHANGED backupVars
  <2>1. Kept
    BY <1>3 DEF Kept, backupVars
  <2>2. BackupInv'
    BY <1>3 DEF backupVars, BackupInv, LedgerGood, LedgerInv, LedgerTypeOK,
        LedgerReplays, EventChain, Past, ManifestNotAhead, Knows, IsNew
  <2> QED BY <2>1, <2>2
<1> QED
  BY <1>1, <1>2, <1>3 DEF BackupNext

LEMMA BackupInvariant == BackupSpec => []BackupInv
<1>1. BackupInit => BackupInv
  BY BackupInitGood
<1>2. BackupInv /\ [BackupNext]_backupVars => BackupInv'
  BY BackupNextGood
<1> QED
  BY <1>1, <1>2, PTL DEF BackupSpec

-----------------------------------------------------------------------------
(* Theorems *)

\* Types, and no manifest counts an event the live ledger does not have.
THEOREM BackupTypeCorrect == BackupSpec => []BackupTypeOK
<1>1. BackupInv => BackupTypeOK
  <2> SUFFICES ASSUME BackupInv PROVE BackupTypeOK
    OBVIOUS
  <2>1. /\ LedgerTypeOK /\ catalogs \in [Paths -> Catalogs \cup {Absent}]
        /\ manifests \in [Paths -> Nat \cup {Absent}]
    BY DEF BackupInv, LedgerGood, LedgerInv
  <2>2. ASSUME NEW x \in Paths, manifests[x] # Absent
        PROVE  manifests[x] \in 0..Len(events)
    <3>1. /\ catalogs[x] # Absent /\ manifests[x] <= Len(catalogs[x].events)
          /\ Past(catalogs[x])
      BY <2>2 DEF BackupInv, ManifestNotAhead
    <3>2. /\ manifests[x] \in Nat /\ Len(catalogs[x].events) <= Len(events)
          /\ Len(catalogs[x].events) \in Nat /\ Len(events) \in Nat
      BY <2>1, <2>2, <3>1 DEF Past, Catalogs, LedgerTypeOK
    <3> QED BY <3>1, <3>2
  <2>3. manifests \in [Paths -> (0..Len(events)) \cup {Absent}]
    BY <2>1, <2>2
  <2> QED BY <2>1, <2>3 DEF BackupTypeOK
<1> QED
  BY <1>1, BackupInvariant, PTL

\* Whatever commits while a copy is made, and whoever restores from where: a
\* catalog at a destination is the live ledger as it was at one moment.
THEOREM CopiesArePast == BackupSpec => []CatalogIsPast
<1>1. BackupInv => CatalogIsPast
  <2> SUFFICES ASSUME BackupInv, NEW x \in Paths, catalogs[x] # Absent
               PROVE  /\ catalogs[x].events = SubSeq(events, 1, Len(catalogs[x].events))
                      /\ Replays(catalogs[x].records, catalogs[x].events)
    BY DEF CatalogIsPast
  <2>1. Past(catalogs[x]) /\ events \in Seq(Event)
    BY DEF BackupInv, LedgerGood, LedgerInv, LedgerTypeOK
  <2>2. ASSUME NEW evs \in Seq(Event), Len(evs) <= Len(events),
               \A i \in 1..Len(evs) : evs[i] = events[i]
        PROVE  evs = SubSeq(events, 1, Len(evs))
    BY <2>1, <2>2
  <2>3. catalogs[x].events \in Seq(Event)
    BY <2>1 DEF Past, Catalogs
  <2> QED BY <2>1, <2>2, <2>3 DEF Past
<1> QED
  BY <1>1, BackupInvariant, PTL

\* Wherever an operation fails: a manifest stands beside the catalog it is
\* about and counts no event the catalog does not have.
THEOREM ManifestsNotAhead == BackupSpec => []ManifestNotAhead
<1>1. BackupInv => ManifestNotAhead
  BY DEF BackupInv
<1> QED
  BY <1>1, BackupInvariant, PTL

\* A recovery set that validates is never changed again.
THEOREM RecoverySetsStay == BackupSpec => KnownGoodKept
<1> DEFINE Stays == \A x \in Paths : Valid(x) =>
                        catalogs'[x] = catalogs[x] /\ manifests'[x] = manifests[x]
<1>1. BackupInv /\ [BackupNext]_backupVars => [Stays]_backupVars
  BY BackupNextGood DEF Kept, Valid, Matches
<1> HIDE DEF Stays
<1>2. BackupSpec => [][Stays]_backupVars
  BY <1>1, BackupInvariant, PTL DEF BackupSpec
<1> QED
  BY <1>2 DEF KnownGoodKept, Stays

\* A restore that has written both files passes its own validation.
THEOREM RestoresValidate == BackupSpec => RestoreValidates
<1> DEFINE Validates ==
             \A o \in Operators, x \in Paths :
                 /\ At(o, "seal") /\ op[o].restore /\ op[o].to = x
                 /\ op'[o].step = "validate"
                 => Valid(x)'
<1>1. ASSUME BackupInv, BackupNext, NEW o \in Operators, NEW x \in Paths,
             op[o].step = "seal", op[o].restore, op[o].to = x, op'[o].step = "validate"
      PROVE  Valid(x)'
  <2>1. op = [q \in Operators |-> op[q]]
    BY <1>1 DEF BackupInv
  <2>2. PICK u \in Operators : OperatorStep(u)
    BY <1>1 DEF BackupNext
  <2>3. CASE u = o
    <3>1. RenameManifest(o) \/ Stop(o)
      BY <1>1, <2>2, <2>3 DEF OperatorStep, BackupTo, RestoreTo, Validate, ReadMetadata,
          Copy, RenameCatalog, ReadManifest, Compare, At
    <3>2. ~Stop(o)
      BY <1>1, <2>1 DEF Stop, Set, Idle
    <3> QED BY <1>1, <3>1, <3>2, RenameManifestStep
  <2>4. CASE u # o
    <3>1. \E new : op' = [op EXCEPT ![u] = new]
      BY <2>2 DEF OperatorStep, BackupTo, RestoreTo, Validate, ReadMetadata,
          Copy, RenameCatalog, RenameManifest, ReadManifest, Compare, Stop, Set
    <3>2. op'[o] = op[o]
      BY <2>1, <2>4, <3>1
    <3> QED BY <1>1, <3>2
  <2> QED BY <2>3, <2>4
<1>2. BackupInv /\ [BackupNext]_backupVars => [Validates]_backupVars
  BY <1>1 DEF At
<1> HIDE DEF Validates
<1>3. BackupSpec => [][Validates]_backupVars
  BY <1>2, BackupInvariant, PTL DEF BackupSpec
<1> QED
  BY <1>3 DEF RestoreValidates, Validates
=============================================================================
