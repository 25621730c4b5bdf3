---------------------------- MODULE SourceProofs ----------------------------
(***************************************************************************)
(* Theorems about SourceScan and Scrub for every number of scanners,       *)
(* scrubbers, files, records and changes of the source: what is recorded   *)
(* as stable was committed, a sighting cancels a tombstone, a file left    *)
(* alone survives, and a scrub cycle leaves no file out.                   *)
(***************************************************************************)
EXTENDS Scrub, LedgerProofs, FiniteSetTheorems

ScanSteps == {"idle", "enumerate", "parse", "observe", "mark", "decide", "hash",
              "accept", "commit", "bind", "admit"}

\* A file on its way through a scan.
Found    == [at : Locations, stat : Fingerprints]
Parsed   == [at : Locations, stat : Fingerprints, record : Records]
Looked   == [at : Locations, record : Records, row : ObservedRows]
Opened   == [at : Locations, record : Records, row : ObservedRows, file : File]
Accepted == [at : Locations, record : Records, revision : Revisions]

ScanState == [step     : ScanSteps,
              todo     : SUBSET Locations,
              found    : SUBSET Found,
              parsed   : SUBSET Parsed,
              accepted : SUBSET Accepted,
              current  : {NoFile} \cup Looked \cup Opened \cup Accepted,
              bytes    : Nat]

\* What a scan has in hand, by its step.
ScanOK(x) ==
    /\ x \in ScanState
    /\ x.step = "idle" <=> x = NoScan
    /\ x.step \in {"mark", "decide"} => x.current \in Looked
    /\ x.step = "hash" => x.current \in Opened /\ Same(x.current.file, x.current)
    /\ x.step \in {"commit", "bind", "admit"} => x.current \in Accepted

\* A location is in one place of a scan.
Apart(x) ==
    /\ x.step # "enumerate" => x.todo = {}
    /\ x.step \notin {"enumerate", "parse"} => x.found = {}
    /\ x.step \in {"enumerate", "parse"} => x.accepted = {}
    /\ \A c \in x.found : c.at \notin x.todo
    /\ \A c, d \in x.found : c.at = d.at => c = d
    /\ \A c \in x.parsed : c.at \notin x.todo /\ \A d \in x.found : c.at # d.at
    /\ \A c, d \in x.parsed : c.at = d.at => c = d
    /\ \A c \in x.parsed, d \in x.accepted : c.at # d.at
    /\ x.step \in {"mark", "decide", "hash"} =>
        /\ \A c \in x.parsed : c.at # x.current.at
        /\ \A c \in x.accepted : c.at # x.current.at

\* The types of the tables and of the scans.
TablesOK ==
    /\ LedgerInv
    /\ tree \in [Locations -> File \cup {NoFile}]
    /\ holder \in Scanners \cup {Nobody}
    /\ observed \in [Locations -> ObservedRows \cup {NoRow}]
    /\ bound \subseteq Records /\ IsFiniteSet(bound)
    /\ seen \subseteq bound
    /\ \A r \in bound : records[r].state # "absent"
    /\ \A x \in Locations :
        observed[x] # NoRow /\ observed[x].admitted => observed[x].unchanged = MinUnchanged
    /\ missing \in [Records -> [first : Nat, scans : 0..MinScans]]

ScansOK ==
    /\ DOMAIN scan = Scanners
    /\ scan = [p \in Scanners |-> scan[p]]
    /\ \A p \in Scanners : ScanOK(scan[p]) /\ Apart(scan[p])

\* There is an event for these bytes at this location.
InLedger(x, revision) ==
    \E i \in 1..Len(events) : events[i].location = x /\ events[i].revision = revision

\* What the table says of a location is stable and can be of these bytes.
Settled(x, revision) ==
    observed[x] # NoRow =>
        observed[x].stat[1] = Size[revision] /\ observed[x].unchanged = MinUnchanged

\* Under the scan that is current nobody else observes: the table says of the
\* file it has in hand what the scan remembers.
TableAgrees(x) ==
    /\ x.step \in {"mark", "decide", "hash"} =>
        LET row == observed[x.current.at]
        IN  row # NoRow => /\ row.stat = x.current.row.stat
                           /\ row.unchanged = x.current.row.unchanged
    /\ x.step = "hash" => x.current.row.unchanged = MinUnchanged
    /\ \A c \in x.accepted : Settled(c.at, c.revision)
    /\ x.step \in {"commit", "bind", "admit"} =>
        Settled(x.current.at, x.current.revision)

\* The scan still has a file of record r before it.
Pending(x, r) ==
    \/ \E y \in Locations :
        /\ tree[y] # NoFile /\ tree[y].record = r
        /\ \/ y \in x.todo
           \/ \E c \in x.found : c.at = y /\ c.stat = Fingerprint(tree[y])
    \/ \E c \in x.parsed : c.record = r
    \/ x.step = "mark" /\ x.current.record = r

\* The scan saw every record whose file is steady, or is going to.
SeesSteady(x) ==
    x.step # "idle" => \A r \in steady : r \in seen \/ Pending(x, r)

\* What scan x of scanner p knows.
Knows(p, x) ==
    /\ x.step \in {"accept", "commit", "bind", "admit"} => x.parsed = {}
    /\ holder = p => TableAgrees(x) /\ SeesSteady(x)

\* What a scan is about to admit is committed.
HasCommitted(x) ==
    x.step \in {"bind", "admit"} => InLedger(x.current.at, x.current.revision)

\* A record whose file is steady is in the source.
SteadyInSource ==
    \A r \in steady :
        /\ r \in Records /\ records[r].state # "absent" /\ mounted
        /\ \E y \in Locations : tree[y] # NoFile /\ tree[y].record = r

SourceInv ==
    /\ LedgerGood /\ TablesOK /\ ScansOK
    /\ AdmittedWasCommitted /\ SightingCancels /\ SteadyInSource
    /\ \A p \in Scanners : Knows(p, scan[p]) /\ HasCommitted(scan[p])

ScrubSteps == {"idle", "enumerate", "visit", "hash", "observe", "advance", "complete"}

\* What a scrub has in hand, by its step.  What is found sorts after it.
ScrubOK(x) ==
    /\ x \in [step    : ScrubSteps,
              todo    : SUBSET Locations,
              found   : SUBSET Found,
              current : {x.current},
              bytes   : Nat]
    /\ x.step # "enumerate" => x.todo = {}
    /\ x.step = "complete" => x.found = {}
    /\ \A c \in x.found : c.at \notin x.todo
    /\ \A c, d \in x.found : c.at = d.at => c = d
    /\ x.step \in {"hash", "observe", "advance"} =>
        /\ x.current.at \in Locations
        /\ \A c \in x.found : Rank[c.at] > Rank[x.current.at]
    /\ x.step = "hash" =>
        x.current.file \in File /\ x.current.row.stat = Fingerprint(x.current.file)
    /\ x.step = "observe" => x.current \in Accepted

ScrubsOK ==
    /\ DOMAIN scrub = Scrubbers
    /\ scrub = [s \in Scrubbers |-> scrub[s]]
    /\ \A s \in Scrubbers : ScrubOK(scrub[s])

\* The scrub still has the file at y before it.
Ahead(x, y) ==
    \/ x.step = "idle"
    \/ y \in x.todo
    \/ \E c \in x.found : c.at = y /\ c.stat = Fingerprint(tree[y])
    \/ x.step = "hash" /\ x.current.at = y /\ x.current.file = tree[y]
    \/ x.step = "observe" /\ x.current.at = y

\* What the cycle still has to check is in the source and after the cursor, and
\* the scrub that runs comes to it.
CycleInv ==
    /\ cursor \in Nat
    /\ \A y \in unchecked :
        y \in Locations /\ mounted /\ tree[y] # NoFile /\ Rank[y] > cursor
    /\ \A s \in Scrubbers : \A y \in unchecked : Ahead(scrub[s], y)

-----------------------------------------------------------------------------
(* The scans *)

LEMMA FingerprintType ==
    ASSUME NEW f \in File
    PROVE  /\ Fingerprint(f) \in Fingerprints
           /\ Fingerprint(f)[1] = Size[f.revision] /\ Size[f.revision] \in Nat
BY SourceAssumption DEF SourceAssumption, Fingerprint, Fingerprints, File

LEMMA StatLength ==
    ASSUME NEW row \in ObservedRows
    PROVE  row.stat[1] \in Nat
<1>1. PICK f \in File : row.stat = Fingerprint(f)
  BY DEF ObservedRows, Fingerprints
<1> QED
  BY <1>1, FingerprintType

LEMMA NoScanOK == ScanOK(NoScan) /\ Apart(NoScan)
BY DEF ScanOK, Apart, NoScan, ScanState, ScanSteps

LEMMA ScansMove ==
    ASSUME ScansOK, NEW p \in Scanners,
           \E x : ScanOK(x) /\ Apart(x) /\ scan' = [scan EXCEPT ![p] = x]
    PROVE  ScansOK'
<1>1. PICK x : ScanOK(x) /\ Apart(x) /\ scan' = [scan EXCEPT ![p] = x]
  OBVIOUS
<1>2. DOMAIN scan' = Scanners /\ scan' = [q \in Scanners |-> scan'[q]]
  BY <1>1 DEF ScansOK
<1>3. ASSUME NEW q \in Scanners
      PROVE  ScanOK(scan[q])' /\ Apart(scan[q])'
  <2>1. PICK y : ScanOK(y) /\ Apart(y) /\ scan'[q] = y
    BY <1>1 DEF ScansOK
  <2> QED BY <2>1 DEF ScanOK, Apart, Same
<1> QED
  BY <1>2, <1>3 DEF ScansOK

\* A scan goes to a step for which it has in hand what that step needs.
LEMMA GotoFields ==
    ASSUME NEW x \in ScanState, NEW step \in ScanSteps
    PROVE  /\ [x EXCEPT !.step = step] \in ScanState
           /\ [x EXCEPT !.step = step].step = step
           /\ [x EXCEPT !.step = step].todo = x.todo
           /\ [x EXCEPT !.step = step].found = x.found
           /\ [x EXCEPT !.step = step].parsed = x.parsed
           /\ [x EXCEPT !.step = step].accepted = x.accepted
           /\ [x EXCEPT !.step = step].current = x.current
           /\ [x EXCEPT !.step = step].bytes = x.bytes
BY DEF ScanState

LEMMA NotIdle ==
    ASSUME NEW x, x.step # "idle"
    PROVE  x # NoScan
BY DEF NoScan

LEMMA BeginScan ==
    ASSUME ScansOK, NEW p \in Scanners, Begin(p)
    PROVE  \E x : /\ ScanOK(x) /\ Apart(x) /\ scan' = [scan EXCEPT ![p] = x]
                  /\ x.step = "enumerate" /\ x.todo = Locations
                  /\ x.parsed = {} /\ x.accepted = {}
<1> DEFINE x == [NoScan EXCEPT !.step = "enumerate", !.todo = Locations]
<1>1. /\ x.step = "enumerate" /\ x.todo = Locations /\ x.found = {} /\ x.parsed = {}
      /\ x.accepted = {} /\ x.current = NoFile /\ x.bytes = 0
      /\ x \in ScanState
  BY DEF NoScan, ScanState, ScanSteps
<1>2. scan' = [scan EXCEPT ![p] = x]
  BY DEF Begin, Set
<1> HIDE DEF x
<1>3. ScanOK(x) /\ Apart(x)
  BY <1>1, NotIdle DEF ScanOK, Apart
<1> QED
  BY <1>1, <1>2, <1>3

LEMMA EnumerateScan ==
    ASSUME TablesOK, ScansOK, NEW p \in Scanners, Enumerate(p)
    PROVE  \E x, y :
            /\ ScanOK(x) /\ Apart(x) /\ scan' = [scan EXCEPT ![p] = x]
            /\ scan[p].step = "enumerate" /\ x.step \in {"enumerate", "parse"}
            /\ y \in scan[p].todo /\ x.todo = scan[p].todo \ {y}
            /\ x.found = IF Visible(y)
                         THEN scan[p].found \cup {[at |-> y, stat |-> Fingerprint(tree[y])]}
                         ELSE scan[p].found
            /\ x.parsed = scan[p].parsed /\ x.accepted = {}
<1>1. /\ scan[p] \in ScanState /\ scan[p].step = "enumerate"
      /\ ScanOK(scan[p]) /\ Apart(scan[p])
  BY DEF ScansOK, ScanOK, Enumerate, At
<1>2. PICK y \in scan[p].todo :
        LET file == [at |-> y, stat |-> Fingerprint(tree[y])]
            rest == scan[p].todo \ {y}
        IN  Set(p, [scan[p] EXCEPT
                !.step = IF rest = {} THEN "parse" ELSE "enumerate",
                !.todo = rest,
                !.found = IF Visible(y) THEN @ \cup {file} ELSE @])
  BY DEF Enumerate
<1> DEFINE file == [at |-> y, stat |-> Fingerprint(tree[y])]
           rest == scan[p].todo \ {y}
           x == [scan[p] EXCEPT
                !.step = IF rest = {} THEN "parse" ELSE "enumerate",
                !.todo = rest,
                !.found = IF Visible(y) THEN @ \cup {file} ELSE @]
<1>3. scan' = [scan EXCEPT ![p] = x]
  BY <1>2 DEF Set
<1>4. y \in Locations /\ (Visible(y) => file \in Found)
  <2>1. y \in Locations
    BY <1>1 DEF ScanState
  <2>2. Visible(y) => tree[y] \in File
    BY <2>1 DEF Visible, TablesOK
  <2> QED BY <2>1, <2>2, FingerprintType DEF Found
<1>5. /\ x.step = IF rest = {} THEN "parse" ELSE "enumerate"
      /\ x.todo = rest /\ x.parsed = scan[p].parsed /\ x.accepted = scan[p].accepted
      /\ x.found = IF Visible(y) THEN scan[p].found \cup {file} ELSE scan[p].found
      /\ x.current = scan[p].current /\ x.bytes = scan[p].bytes
      /\ DOMAIN x = DOMAIN scan[p]
  BY <1>1 DEF ScanState
<1>6. x \in ScanState
  BY <1>1, <1>4, <1>5 DEF ScanState, ScanSteps
<1> HIDE DEF x
<1>7. ScanOK(x)
  BY <1>5, <1>6, NotIdle DEF ScanOK
<1>8. Apart(x)
  BY <1>1, <1>5 DEF Apart
<1> QED
  BY <1>1, <1>2, <1>3, <1>5, <1>7, <1>8 DEF Apart
-----------------------------------------------------------------------------
(* The ledger *)

\* A block of events of different records, each a legal successor of the last
\* event of its record.
LEMMA BlockGood ==
    ASSUME NEW recs \in [Records -> RecordRow], NEW evs \in Seq(Event),
           Good(recs, evs), NEW new \in Seq(Event), NEW next \in [Records -> RecordRow],
           \A k, l \in 1..Len(new) : new[k].record = new[l].record => k = l,
           \A k \in 1..Len(new) :
               /\ next[new[k].record] = RowAfter(new[k])
               /\ recs[new[k].record] # NoRecord
               /\ new[k].version = recs[new[k].record].version + 1
               /\ \A p \in Event :
                   recs[new[k].record] = RowAfter(p) => LegalSuccessor(p, new[k]),
           \A r \in Records :
               (\A k \in 1..Len(new) : new[k].record # r) => next[r] = recs[r]
    PROVE  Good(next, evs \o new)
<1> DEFINE n == Len(evs)
           m == Len(new)
           both == evs \o new
<1>1. /\ n \in Nat /\ m \in Nat /\ Len(both) = n + m
      /\ \A i \in 1..n : both[i] = evs[i]
      /\ \A i \in n + 1 .. n + m : both[i] = new[i - n] /\ i - n \in 1..m
      /\ \A k \in 1..m : both[n + k] = new[k] /\ n + k \in n + 1 .. n + m
  <2>1. /\ Len(both) = n + m
        /\ \A i \in 1 .. n + m : both[i] = IF i <= n THEN evs[i] ELSE new[i - n]
    BY ConcatProperties
  <2>2. n \in Nat /\ m \in Nat
    OBVIOUS
  <2> HIDE DEF n, m, both
  <2> QED BY <2>1, <2>2
<1>2. \A i \in 1..n : evs[i] \in Event
  OBVIOUS
<1>3. \A k \in 1..m : new[k] \in Event /\ new[k].record \in Records
  <2>1. \A k \in 1..m : new[k] \in Event
    OBVIOUS
  <2> QED BY <2>1 DEF Event
<1> HIDE DEF both
<1>4. \A i \in 1 .. n + m : i \in 1..n \/ i \in n + 1 .. n + m
  BY <1>1
<1>5. ASSUME NEW r \in Records, NEW i \in 1..n, evs[i].record = r, IsLast(evs, i)
      PROVE  recs[r] = RowAfter(evs[i])
  <2>1. PICK k \in 1..n : /\ evs[k].record = r /\ IsLast(evs, k)
                          /\ recs[r] = RowAfter(evs[k])
    BY <1>5 DEF Good, Replays
  <2>2. ~(k < i) /\ ~(i < k)
    <3>1. k < i => i \in k + 1 .. n
      BY <1>1
    <3>2. i < k => k \in i + 1 .. n
      BY <1>1
    <3> QED BY <1>5, <2>1, <3>1, <3>2 DEF IsLast
  <2>3. k = i
    BY <2>2
  <2> QED BY <2>1, <2>3
<1>6. ASSUME NEW j \in 1..n
      PROVE  /\ IsFirst(both, j) => IsFirst(evs, j)
             /\ \A i \in 1 .. n + m :
                 Follows(both, i, j) => i \in 1..n /\ Follows(evs, i, j)
  <2>1. \A k \in 1 .. j - 1 : k \in 1..n
    BY <1>1
  <2>2. IsFirst(both, j) => IsFirst(evs, j)
    BY <1>1, <2>1 DEF IsFirst
  <2>3. ASSUME NEW i \in 1 .. n + m, Follows(both, i, j)
        PROVE  i \in 1..n /\ Follows(evs, i, j)
    <3>1. i < j /\ i \in 1..n
      BY <1>1, <2>3 DEF Follows
    <3>2. \A k \in i + 1 .. j - 1 : k \in 1..n
      BY <1>1, <3>1
    <3> QED BY <1>1, <2>3, <3>1, <3>2 DEF Follows
  <2> QED BY <2>2, <2>3
<1>7. ASSUME NEW j \in n + 1 .. n + m
      PROVE  /\ ~IsFirst(both, j)
             /\ \A i \in 1 .. n + m : Follows(both, i, j) =>
                 /\ both[j].version = both[i].version + 1
                 /\ LegalSuccessor(both[i], both[j])
  <2> DEFINE k == j - n
             r == new[k].record
  <2>1. k \in 1..m /\ both[j] = new[k] /\ r \in Records
    BY <1>1, <1>3
  <2>2. PICK l \in 1..n : evs[l].record = r
    <3>1. recs[r] # NoRecord
      BY <2>1
    <3> QED BY <2>1, <3>1 DEF Good, Replays
  <2>3. ~IsFirst(both, j)
    <3>1. l \in 1 .. j - 1 /\ both[l].record = both[j].record
      BY <1>1, <2>1, <2>2
    <3> QED BY <3>1 DEF IsFirst
  <2>4. ASSUME NEW i \in 1 .. n + m, Follows(both, i, j)
        PROVE  both[j].version = both[i].version + 1 /\ LegalSuccessor(both[i], both[j])
    <3>1. i < j /\ both[i].record = r
      BY <2>1, <2>4 DEF Follows
    <3>2. i \in 1..n
      <4> SUFFICES ASSUME i \in n + 1 .. n + m PROVE FALSE
        BY <1>4
      <4>1. i - n \in 1..m /\ new[i - n].record = new[k].record
        BY <1>1, <3>1
      <4>2. i - n = k
        BY <2>1, <4>1
      <4> QED BY <1>1, <3>1, <4>2
    <3>3. evs[i].record = r /\ both[i] = evs[i] /\ evs[i] \in Event
      BY <1>1, <1>2, <3>1, <3>2
    <3>4. IsLast(evs, i)
      <4>1. \A x \in i + 1 .. n : x \in i + 1 .. j - 1 /\ x \in 1..n
        BY <1>1, <3>2
      <4>2. \A x \in i + 1 .. j - 1 : both[x].record # r
        BY <2>1, <2>4, <3>1 DEF Follows
      <4>3. \A x \in i + 1 .. n : evs[x].record # evs[i].record
        BY <1>1, <3>3, <4>1, <4>2
      <4> QED BY <4>3 DEF IsLast
    <3>5. recs[r] = RowAfter(evs[i])
      BY <1>5, <2>1, <3>2, <3>3, <3>4
    <3>6. recs[r].version = evs[i].version
      BY <3>5 DEF RowAfter
    <3> QED BY <2>1, <3>3, <3>5, <3>6
  <2> QED BY <2>3, <2>4
<1>8. ASSUME NEW r \in Records
      PROVE  \/ next[r] = NoRecord /\ \A i \in 1 .. n + m : both[i].record # r
             \/ \E i \in 1 .. n + m : /\ both[i].record = r /\ IsLast(both, i)
                                      /\ next[r] = RowAfter(both[i])
  <2>1. CASE \A k \in 1..m : new[k].record # r
    <3>1. next[r] = recs[r]
      BY <2>1
    <3>2. \A i \in n + 1 .. n + m : both[i].record # r
      BY <1>1, <2>1
    <3>3. CASE recs[r] = NoRecord /\ \A i \in 1..n : evs[i].record # r
      BY <1>1, <1>4, <3>1, <3>2, <3>3
    <3>4. ASSUME NEW i \in 1..n, evs[i].record = r, IsLast(evs, i),
                 recs[r] = RowAfter(evs[i])
          PROVE  \E x \in 1 .. n + m : /\ both[x].record = r /\ IsLast(both, x)
                                       /\ next[r] = RowAfter(both[x])
      <4>1. i \in 1 .. n + m /\ both[i] = evs[i]
        BY <1>1
      <4>2. \A x \in i + 1 .. n + m : x \in i + 1 .. n \/ x \in n + 1 .. n + m
        BY <1>1
      <4>3. \A x \in i + 1 .. n : both[x] = evs[x] /\ x \in i + 1 .. Len(evs)
        BY <1>1
      <4>4. IsLast(both, i)
        BY <1>1, <3>2, <3>4, <4>1, <4>2, <4>3 DEF IsLast
      <4> QED BY <3>1, <3>4, <4>1, <4>4
    <3> QED BY <3>3, <3>4 DEF Good, Replays
  <2>2. ASSUME NEW k \in 1..m, new[k].record = r
        PROVE  \E i \in 1 .. n + m : /\ both[i].record = r /\ IsLast(both, i)
                                     /\ next[r] = RowAfter(both[i])
    <3>1. n + k \in 1 .. n + m /\ both[n + k] = new[k]
      BY <1>1
    <3>2. ASSUME NEW x \in n + k + 1 .. n + m PROVE both[x].record # r
      <4>1. x \in n + 1 .. n + m /\ x - n # k
        BY <1>1
      <4>2. both[x] = new[x - n] /\ x - n \in 1..m
        BY <1>1, <4>1
      <4>3. new[x - n].record = new[k].record => x - n = k
        BY <4>2
      <4> QED BY <2>2, <4>1, <4>2, <4>3
    <3>3. IsLast(both, n + k)
      BY <1>1, <2>2, <3>1, <3>2 DEF IsLast
    <3> QED BY <2>2, <3>1, <3>3
  <2> QED BY <2>1, <2>2
<1>9. ASSUME NEW j \in 1 .. n + m
      PROVE  /\ IsFirst(both, j) =>
                    both[j].version = 1 /\ both[j].kind = "revision_committed"
             /\ \A i \in 1 .. n + m : Follows(both, i, j) =>
                    /\ both[j].version = both[i].version + 1
                    /\ LegalSuccessor(both[i], both[j])
  <2>1. CASE j \in 1..n
    <3>1. /\ IsFirst(evs, j) => evs[j].version = 1 /\ evs[j].kind = "revision_committed"
          /\ \A i \in 1..n : Follows(evs, i, j) =>
                 evs[j].version = evs[i].version + 1 /\ LegalSuccessor(evs[i], evs[j])
      BY <2>1 DEF Good, Replays, Chained
    <3>2. \A i \in 1..n : both[i] = evs[i]
      BY <1>1
    <3> QED BY <1>6, <2>1, <3>1, <3>2
  <2>2. CASE j \in n + 1 .. n + m
    BY <1>7, <2>2
  <2> QED BY <1>4, <2>1, <2>2
<1>10. Replays(next, both) /\ Chained(both)
  BY <1>1, <1>8, <1>9 DEF Replays, Chained
<1> QED
  BY <1>10 DEF Good, both

LEMMA Ordered ==
    ASSUME NEW S, IsFiniteSet(S), NEW order \in Orders(S)
    PROVE  /\ Cardinality(S) \in Nat
           /\ order \in Seq(S) /\ Len(order) = Cardinality(S)
           /\ \A i, j \in 1..Len(order) : order[i] = order[j] => i = j
           /\ \A r \in S : \E i \in 1..Len(order) : order[i] = r
<1> DEFINE n == Cardinality(S)
<1>1. n \in Nat
  BY FS_CardinalityType
<1>2. /\ order \in [1..n -> S]
      /\ \A i, j \in 1..n : order[i] = order[j] => i = j
  BY DEF Orders
<1>3. order \in Seq(S) /\ Len(order) = n
  BY <1>1, <1>2, SeqDef
<1>4. Cardinality(1..n) = n
  BY <1>1, FS_Interval
<1> HIDE DEF n
<1>5. order \in Injection(1..n, S)
  <2>1. \A i, j \in 1..n : order[i] = order[j] => i = j
    BY <1>2
  <2> QED BY <1>2, <2>1 DEF Injection, IsInjective
<1>6. order \in Surjection(1..n, S)
  BY <1>4, <1>5, FS_Injection DEF n
<1> QED
  BY <1>1, <1>2, <1>3, <1>6 DEF Surjection, n

\* What every step does to the ledger: it stays sound and keeps its events and
\* its records.
LedgerMoves ==
    /\ LedgerGood'
    /\ \A i \in 1..Len(events) : i \in 1..Len(events') /\ events'[i] = events[i]
    /\ \A r \in Records : records[r].state # "absent" => records'[r].state # "absent"

LEMMA StepMoves ==
    ASSUME LedgerInv, LedgerStep, Good(records', events')
    PROVE  LedgerMoves
<1>1. LedgerInv'
  BY LedgerStepGrows DEF LedgerGrows
<1>2. \A i \in 1..Len(events) : i \in 1..Len(events') /\ events'[i] = events[i]
  <2>1. Len(events) \in Nat /\ Len(events') \in Nat
    BY DEF LedgerInv, LedgerTypeOK, LedgerStep
  <2> QED BY <2>1 DEF LedgerStep
<1>3. ASSUME NEW r \in Records, records[r].state # "absent"
      PROVE  records'[r].state # "absent"
  <2>1. records[r].version \in Nat /\ records'[r].version \in Nat
    BY DEF LedgerInv, LedgerTypeOK, LedgerStep, RecordRow
  <2>2. records[r].version # 0
    BY <1>3 DEF LedgerInv
  <2>3. records'[r].version # 0
    BY <2>1, <2>2 DEF LedgerStep
  <2> QED BY <2>3 DEF LedgerStep
<1> QED
  BY <1>1, <1>2, <1>3 DEF LedgerMoves, LedgerGood, Good, LedgerReplays, EventChain

LEMMA StutterMoves ==
    ASSUME LedgerGood, UNCHANGED <<records, events>>
    PROVE  LedgerMoves
<1>1. events \in Seq(Event)
  BY DEF LedgerGood, LedgerInv, LedgerTypeOK
<1> QED
  BY <1>1 DEF LedgerMoves, LedgerGood, LedgerInv, LedgerTypeOK, LedgerReplays, EventChain

\* An observation leaves an active row with what was observed.
LEMMA ObserveMoves ==
    ASSUME LedgerGood, NEW r \in Records, NEW location \in Locations,
           NEW revision \in Revisions, ObservePresent(r, location, revision)
    PROVE  /\ LedgerMoves
           /\ records'[r].state = "active"
           /\ records'[r].location = location /\ records'[r].revision = revision
           /\ \A q \in Records : q # r => records'[q] = records[q]
<1>1. LedgerInv /\ Good(records, events)
  BY DEF LedgerGood, Good, LedgerReplays, EventChain
<1>2. LedgerMoves
  BY <1>1, ObserveStep, ObserveGood, StepMoves, LedgerAssumption
<1> DEFINE found == FoundRow(r, location)
           base  == RestoredRow(found, location)
           kind  == ObservedKind(base, location, revision)
<1>3. /\ records \in [Records -> RecordRow] /\ records[r] \in RecordRow
      /\ NoRevision \notin Revisions
  BY <1>1, LedgerAssumption DEF LedgerInv, LedgerTypeOK, LedgerAssumption
<1>4. /\ \A q \in Records : q # r => records'[q] = records[q]
      /\ records'[r] = IF kind = "unchanged" THEN base
                       ELSE Transition(base, "active", revision, location)
  BY <1>3 DEF ObservePresent
<1>5. found.state \in {"active", "tombstoned"}
  BY <1>3 DEF FoundRow, NoRecord, RecordRow
<1>6. base.state = "active"
  BY <1>5 DEF RestoredRow, Transition
<1>7. kind = "unchanged" => base.revision = revision /\ base.location = location
  BY DEF ObservedKind
<1> HIDE DEF base, kind
<1>8. /\ records'[r].state = "active"
      /\ records'[r].location = location /\ records'[r].revision = revision
  BY <1>4, <1>6, <1>7 DEF Transition
<1> QED
  BY <1>2, <1>4, <1>8

\* A completed scan appends one tombstone for every dead record.
LEMMA CompleteMoves ==
    ASSUME LedgerGood, TablesOK, NEW p \in Scanners, NEW now \in Times, Complete(p, now)
    PROVE  /\ LedgerMoves
           /\ \A r \in Records :
               \/ records'[r] = records[r]
               \/ r \in Dead(now) /\ records'[r].state = "tombstoned"
<1> DEFINE S == Dead(now)
<1>1. /\ records \in [Records -> RecordRow] /\ events \in Seq(Event) /\ LedgerInv
      /\ Good(records, events)
      /\ \A r \in Records : records[r].version <= MaxVersion
  BY DEF LedgerGood, LedgerInv, LedgerTypeOK, Good, LedgerReplays, EventChain
<1>2. /\ IsFiniteSet(S) /\ S \subseteq Records
      /\ \A r \in S : records[r].state = "active"
  <2>1. S \subseteq bound /\ \A r \in S : records[r].state = "active"
    BY DEF Dead, Due, Lost
  <2> HIDE DEF S
  <2> QED BY <2>1, FS_Subset DEF TablesOK
<1>3. PICK order \in Orders(S) :
        events' = events \o [i \in 1..Len(order) |->
            EventOf(order[i], "record_tombstoned", TombstonedRow(order[i]))]
  BY DEF Complete
<1>4. /\ records' = [r \in Records |->
             IF r \in S THEN TombstonedRow(r) ELSE records[r]]
      /\ \A r \in S : TombstonedRow(r).version <= MaxVersion
  BY DEF Complete
<1> HIDE DEF S
<1>5. /\ order \in Seq(S) /\ Len(order) \in Nat
      /\ \A i \in 1..Len(order) : order[i] \in S
      /\ \A i, j \in 1..Len(order) : order[i] = order[j] => i = j
      /\ \A r \in S : \E i \in 1..Len(order) : order[i] = r
  BY <1>2, Ordered
<1>6. ASSUME NEW r \in S
      PROVE  /\ TombstonedRow(r) \in RecordRow
             /\ TombstonedRow(r).version = records[r].version + 1
             /\ TombstonedRow(r).state = "tombstoned"
             /\ TombstonedRow(r).revision = records[r].revision
             /\ TombstonedRow(r).location = records[r].location
  <2>1. records[r] \in RecordRow
    BY <1>1, <1>2
  <2> QED BY <2>1 DEF TombstonedRow, Transition, RecordRow
<1> DEFINE E(i) == EventOf(order[i], "record_tombstoned", TombstonedRow(order[i]))
           new  == [i \in 1..Len(order) |-> E(i)]
<1>7. ASSUME NEW i \in 1..Len(order)
      PROVE  /\ E(i) \in Event /\ E(i).record = order[i]
             /\ E(i).version = records[order[i]].version + 1
             /\ E(i).kind = "record_tombstoned"
             /\ E(i).revision = records[order[i]].revision
             /\ E(i).location = records[order[i]].location
             /\ TombstonedRow(order[i]) = RowAfter(E(i))
  <2>1. order[i] \in S /\ order[i] \in Records
    BY <1>2, <1>5
  <2>2. /\ E(i) \in Event
        /\ E(i).record = order[i] /\ E(i).version = TombstonedRow(order[i]).version
    BY <1>6, <2>1, EventOfType DEF EventKinds
  <2>3. /\ E(i).kind = "record_tombstoned"
        /\ E(i).revision = TombstonedRow(order[i]).revision
        /\ E(i).location = TombstonedRow(order[i]).location
    BY DEF EventOf
  <2> HIDE DEF E
  <2>4. TombstonedRow(order[i]) = RowAfter(E(i))
    BY <1>6, <2>1, <2>2, <2>3 DEF RowAfter, RecordRow
  <2> QED BY <1>6, <2>1, <2>2, <2>3, <2>4
<1> HIDE DEF E
<1>8. /\ Len(new) = Len(order) /\ new \in Seq(Event)
      /\ \A i \in 1..Len(order) : new[i] = E(i)
  BY <1>5, <1>7, SMTT(30)
<1>9. events' = events \o new
  BY <1>3 DEF E
<1> HIDE DEF new
<1>10. records' \in [Records -> RecordRow]
  BY <1>1, <1>4, <1>6
<1>11. Good(records', events \o new)
  <2>1. \A k, l \in 1..Len(new) : new[k].record = new[l].record => k = l
    BY <1>5, <1>7, <1>8
  <2>2. ASSUME NEW k \in 1..Len(new)
        PROVE  /\ records'[new[k].record] = RowAfter(new[k])
               /\ records[new[k].record] # NoRecord
               /\ new[k].version = records[new[k].record].version + 1
               /\ \A e \in Event :
                   records[new[k].record] = RowAfter(e) => LegalSuccessor(e, new[k])
    <3> DEFINE r == order[k]
    <3>1. r \in S /\ r \in Records /\ new[k] = E(k) /\ new[k].record = r
      BY <1>2, <1>5, <1>7, <1>8
    <3>2. records[r].state = "active" /\ records[r] # NoRecord
      BY <1>2, <3>1 DEF NoRecord
    <3>3. records'[r] = RowAfter(new[k]) /\ new[k].version = records[r].version + 1
      BY <1>4, <1>7, <1>8, <3>1
    <3>4. ASSUME NEW e \in Event, records[r] = RowAfter(e)
          PROVE  LegalSuccessor(e, new[k])
      <4>1. /\ e.kind # "record_tombstoned"
            /\ e.revision = records[r].revision /\ e.location = records[r].location
        BY <3>2, <3>4 DEF RowAfter
      <4> QED BY <1>7, <1>8, <3>1, <4>1 DEF LegalSuccessor
    <3> HIDE DEF r
    <3> QED BY <3>1, <3>2, <3>3, <3>4
  <2>3. ASSUME NEW r \in Records, \A k \in 1..Len(new) : new[k].record # r
        PROVE  records'[r] = records[r]
    <3>1. r \notin S
      BY <1>5, <1>7, <1>8, <2>3
    <3> QED BY <1>4, <3>1
  <2> QED BY <1>1, <1>8, <1>10, <2>1, <2>2, <2>3, BlockGood
<1>12. LedgerStep
  <2>1. /\ events' \in Seq(Event) /\ Len(events') = Len(events) + Len(new)
        /\ \A i \in 1..Len(events) : events'[i] = events[i]
        /\ \A i \in Len(events) + 1 .. Len(events') :
            events'[i] = new[i - Len(events)] /\ i - Len(events) \in 1..Len(new)
    <3>1. /\ events \o new \in Seq(Event)
          /\ Len(events \o new) = Len(events) + Len(new)
          /\ \A i \in 1..Len(events) + Len(new) :
              (events \o new)[i] = IF i <= Len(events) THEN events[i]
                                   ELSE new[i - Len(events)]
      BY <1>1, <1>8, ConcatProperties
    <3>2. Len(events) \in Nat /\ Len(new) \in Nat
      BY <1>1, <1>8
    <3> QED BY <1>9, <3>1, <3>2
  <2>2. Len(events') >= Len(events)
    BY <1>1, <1>8, <2>1
  <2>3. ASSUME NEW r \in Records
        PROVE  /\ records'[r].version >= records[r].version
               /\ records'[r].version <= MaxVersion
               /\ records'[r].state = "absent" <=> records'[r].version = 0
    <3>1. records[r].version \in Nat
      BY <1>1 DEF RecordRow
    <3>2. CASE r \in S
      BY <1>4, <1>6, <3>1, <3>2
    <3>3. CASE r \notin S
      <4>1. records'[r] = records[r]
        BY <1>4, <3>3
      <4> QED BY <1>1, <3>1, <4>1 DEF LedgerInv
    <3> QED BY <3>2, <3>3
  <2>4. ASSUME NEW i \in Len(events) + 1 .. Len(events')
        PROVE  events'[i].version \in
                   records[events'[i].record].version + 1 ..
                       records'[events'[i].record].version
    <3> DEFINE k == i - Len(events)
    <3>1. k \in 1..Len(order) /\ events'[i] = E(k)
      BY <1>8, <2>1
    <3> HIDE DEF k
    <3>2. /\ order[k] \in S /\ order[k] \in Records
          /\ records[order[k]].version \in Nat
      BY <1>1, <1>2, <1>5, <3>1 DEF RecordRow
    <3>3. records'[order[k]].version = records[order[k]].version + 1
      BY <1>4, <1>6, <3>2
    <3> QED BY <1>7, <3>1, <3>2, <3>3, SMTT(30)
  <2> QED BY <1>10, <2>1, <2>2, <2>3, <2>4 DEF LedgerStep
<1>13. LedgerMoves
  BY <1>1, <1>9, <1>11, <1>12, StepMoves
<1> QED
  BY <1>4, <1>6, <1>13 DEF S

-----------------------------------------------------------------------------
(* The steps of a scan *)

\* The steps between which a scan moves with what it has in hand.
Turns == {<<"parse", "observe">>, <<"mark", "decide">>, <<"decide", "observe">>,
          <<"hash", "observe">>, <<"observe", "accept">>, <<"commit", "bind">>,
          <<"bind", "admit">>, <<"admit", "accept">>}

LEMMA GotoScan ==
    ASSUME ScansOK, NEW p \in Scanners, NEW step, Goto(p, step),
           <<scan[p].step, step>> \in Turns,
           scan[p].step = "parse" => scan[p].found = {}
    PROVE  \E x : /\ ScanOK(x) /\ Apart(x) /\ scan' = [scan EXCEPT ![p] = x]
                  /\ x.step = step /\ x.todo = {} /\ x.found = {}
                  /\ x.parsed = scan[p].parsed /\ x.accepted = scan[p].accepted
                  /\ x.current = scan[p].current
<1>1. scan[p] \in ScanState /\ ScanOK(scan[p]) /\ Apart(scan[p])
  BY DEF ScansOK, ScanOK
<1> DEFINE x == [scan[p] EXCEPT !.step = step]
<1>2. scan' = [scan EXCEPT ![p] = x]
  BY DEF Goto, Set
<1>3. step \in ScanSteps /\ step # "idle"
  BY DEF Turns, ScanSteps
<1>4. /\ x \in ScanState /\ x.step = step
      /\ x.todo = scan[p].todo /\ x.found = scan[p].found
      /\ x.parsed = scan[p].parsed /\ x.accepted = scan[p].accepted
      /\ x.current = scan[p].current
  BY <1>1, <1>3, GotoFields
<1> HIDE DEF x
<1>5. x.todo = {} /\ x.found = {}
  BY <1>1, <1>4 DEF Turns, Apart
<1>6. ScanOK(x)
  BY <1>1, <1>3, <1>4, NotIdle DEF ScanOK, Turns
<1>7. Apart(x)
  BY <1>1, <1>4, <1>5 DEF Apart, Turns
<1> QED
  BY <1>2, <1>4, <1>5, <1>6, <1>7

LEMMA ParseScan ==
    ASSUME TablesOK, ScansOK, NEW p \in Scanners, Parse(p)
    PROVE  \E x, c :
            /\ ScanOK(x) /\ Apart(x) /\ scan' = [scan EXCEPT ![p] = x]
            /\ scan[p].step = "parse" /\ x.step = "parse"
            /\ x.todo = {} /\ x.accepted = {}
            /\ c \in scan[p].found /\ x.found = scan[p].found \ {c}
            /\ Visible(c.at)
            /\ x.parsed = IF Fingerprint(tree[c.at]) = c.stat
                          THEN scan[p].parsed \cup
                                 {[at |-> c.at, stat |-> c.stat,
                                   record |-> tree[c.at].record]}
                          ELSE scan[p].parsed
<1>1. /\ scan[p] \in ScanState /\ ScanOK(scan[p]) /\ Apart(scan[p])
      /\ scan[p].step = "parse"
  BY DEF ScansOK, ScanOK, Parse, At
<1>2. PICK c \in scan[p].found :
        /\ Visible(c.at)
        /\ LET file == [at |-> c.at, stat |-> c.stat, record |-> tree[c.at].record]
           IN  Set(p, [scan[p] EXCEPT
                   !.found = @ \ {c},
                   !.parsed = IF Fingerprint(tree[c.at]) = c.stat THEN @ \cup {file}
                              ELSE @])
  BY DEF Parse
<1> DEFINE file == [at |-> c.at, stat |-> c.stat, record |-> tree[c.at].record]
           x == [scan[p] EXCEPT
                   !.found = @ \ {c},
                   !.parsed = IF Fingerprint(tree[c.at]) = c.stat THEN @ \cup {file}
                              ELSE @]
<1>3. scan' = [scan EXCEPT ![p] = x]
  BY <1>2 DEF Set
<1>4. /\ c \in Found /\ file \in Parsed
  <2>1. c \in Found
    BY <1>1 DEF ScanState
  <2>2. tree[c.at] \in File
    BY <1>2, <2>1 DEF Visible, TablesOK, Found
  <2> QED BY <2>1, <2>2 DEF Found, Parsed, File
<1>5. /\ x.step = scan[p].step /\ x.todo = scan[p].todo
      /\ x.found = scan[p].found \ {c} /\ x.accepted = scan[p].accepted
      /\ x.parsed = IF Fingerprint(tree[c.at]) = c.stat THEN scan[p].parsed \cup {file}
                    ELSE scan[p].parsed
      /\ x.current = scan[p].current /\ x.bytes = scan[p].bytes
  BY <1>1 DEF ScanState
<1>6. x \in ScanState
  BY <1>1, <1>4, <1>5 DEF ScanState
<1>7. file.at = c.at
  OBVIOUS
<1> HIDE DEF x, file
<1>8. ScanOK(x)
  BY <1>1, <1>5, <1>6, NotIdle DEF ScanOK
<1>9. Apart(x)
  BY <1>1, <1>2, <1>5, <1>7 DEF Apart
<1>10. x.todo = {} /\ x.accepted = {}
  BY <1>1, <1>5 DEF Apart
<1> QED
  BY <1>1, <1>2, <1>3, <1>5, <1>8, <1>9, <1>10 DEF file

LEMMA RowType ==
    ASSUME NEW row \in ObservedRows \cup {NoRow}, NEW stat \in Fingerprints
    PROVE  /\ ObservedRow(row, stat) \in ObservedRows
           /\ ObservedRow(row, stat).stat = stat
           /\ ObservedRow(row, stat).seen = TRUE
           /\ ObservedRow(row, stat).admitted =>
                /\ row # NoRow /\ row.admitted /\ row.stat = stat
                /\ row.unchanged = MinUnchanged =>
                     ObservedRow(row, stat).unchanged = MinUnchanged
<1>1. MinUnchanged \in Nat \ {0}
  BY SourceAssumption DEF SourceAssumption
<1>2. CASE row # NoRow /\ row.stat = stat
  <2> DEFINE new == ObservedRow(row, stat)
  <2>1. /\ row \in ObservedRows /\ row.unchanged \in 1..MinUnchanged
        /\ row.admitted \in BOOLEAN
    BY <1>2 DEF ObservedRows
  <2>2. new = [row EXCEPT !.unchanged = IF @ < MinUnchanged THEN @ + 1 ELSE @,
                          !.seen = TRUE]
    BY <1>2 DEF ObservedRow
  <2>3. /\ new.stat = row.stat /\ new.admitted = row.admitted /\ new.seen = TRUE
        /\ new.unchanged = IF row.unchanged < MinUnchanged THEN row.unchanged + 1
                           ELSE row.unchanged
    BY <2>1, <2>2 DEF ObservedRows
  <2>4. new \in ObservedRows
    <3>1. new.unchanged \in 1..MinUnchanged
      BY <1>1, <2>1, <2>3
    <3> HIDE DEF new
    <3> QED BY <2>1, <2>2, <3>1 DEF ObservedRows
  <2>5. row.unchanged = MinUnchanged => new.unchanged = MinUnchanged
    BY <1>1, <2>3
  <2> HIDE DEF new
  <2> QED BY <1>2, <2>3, <2>4, <2>5 DEF new
<1>3. CASE ~(row # NoRow /\ row.stat = stat)
  <2>1. ObservedRow(row, stat) =
          [stat |-> stat, unchanged |-> 1, admitted |-> FALSE, seen |-> TRUE]
    BY <1>3 DEF ObservedRow
  <2> QED BY <1>1, <2>1 DEF ObservedRows
<1> QED
  BY <1>2, <1>3

LEMMA ObserveScan ==
    ASSUME TablesOK, ScansOK, NEW p \in Scanners, ObserveFingerprint(p)
    PROVE  \E x, c :
            /\ ScanOK(x) /\ Apart(x) /\ scan' = [scan EXCEPT ![p] = x]
            /\ scan[p].step = "observe" /\ x.step = "mark"
            /\ c \in scan[p].parsed /\ c \in Parsed
            /\ x.todo = {} /\ x.found = {} /\ x.parsed = scan[p].parsed \ {c}
            /\ x.accepted = scan[p].accepted
            /\ x.current = [at |-> c.at, record |-> c.record,
                            row |-> ObservedRow(observed[c.at], c.stat)]
            /\ observed' = [observed EXCEPT ![c.at] = ObservedRow(observed[c.at], c.stat)]
<1>1. /\ scan[p] \in ScanState /\ ScanOK(scan[p]) /\ Apart(scan[p])
      /\ scan[p].step = "observe"
  BY DEF ScansOK, ScanOK, ObserveFingerprint, At
<1>2. PICK c \in scan[p].parsed :
        LET row == ObservedRow(observed[c.at], c.stat)
        IN  /\ observed' = [observed EXCEPT ![c.at] = row]
            /\ Set(p, [scan[p] EXCEPT !.step = "mark", !.parsed = @ \ {c},
                   !.current = [at |-> c.at, record |-> c.record, row |-> row]])
  BY DEF ObserveFingerprint
<1> DEFINE row == ObservedRow(observed[c.at], c.stat)
           current == [at |-> c.at, record |-> c.record, row |-> row]
           x == [scan[p] EXCEPT !.step = "mark", !.parsed = @ \ {c}, !.current = current]
<1>3. scan' = [scan EXCEPT ![p] = x]
  BY <1>2 DEF Set
<1>4. c \in Parsed
  BY <1>1 DEF ScanState
<1>5. row \in ObservedRows
  BY <1>4, RowType DEF TablesOK, Parsed
<1> HIDE DEF row
<1>6. current \in Looked /\ current.at = c.at
  BY <1>4, <1>5 DEF Looked, Parsed
<1> HIDE DEF current
<1>7. /\ x.step = "mark" /\ x.todo = scan[p].todo /\ x.found = scan[p].found
      /\ x.parsed = scan[p].parsed \ {c} /\ x.accepted = scan[p].accepted
      /\ x.current = current /\ x.bytes = scan[p].bytes
  BY <1>1 DEF ScanState
<1>8. x \in ScanState
  BY <1>1, <1>6, <1>7 DEF ScanState, ScanSteps
<1> HIDE DEF x
<1>9. ScanOK(x)
  BY <1>6, <1>7, <1>8, NotIdle DEF ScanOK
<1>10. x.todo = {} /\ x.found = {}
  BY <1>1, <1>7 DEF Apart
<1>11. Apart(x)
  BY <1>1, <1>2, <1>6, <1>7, <1>10 DEF Apart
<1> QED
  BY <1>1, <1>2, <1>3, <1>4, <1>7, <1>9, <1>10, <1>11 DEF row, current

LEMMA OpenScan ==
    ASSUME TablesOK, ScansOK, NEW p \in Scanners, Open(p)
    PROVE  \E x : /\ ScanOK(x) /\ Apart(x) /\ scan' = [scan EXCEPT ![p] = x]
                  /\ scan[p].step = "decide" /\ x.step \in {"hash", "observe"}
                  /\ x.todo = {} /\ x.found = {}
                  /\ x.parsed = scan[p].parsed /\ x.accepted = scan[p].accepted
                  /\ x.step = "hash" =>
                        /\ x.current.at = scan[p].current.at
                        /\ x.current.record = scan[p].current.record
                        /\ x.current.row = scan[p].current.row
<1>1. /\ scan[p] \in ScanState /\ ScanOK(scan[p]) /\ Apart(scan[p])
      /\ scan[p].step = "decide"
  BY DEF ScansOK, ScanOK, Open, At
<1> DEFINE c == scan[p].current
           file == tree[c.at]
           current == [at |-> c.at, record |-> c.record, row |-> c.row, file |-> file]
           x == [scan[p] EXCEPT !.step = "hash", !.current = current]
<1>2. c \in Looked
  BY <1>1 DEF ScanOK
<1>3. CASE ~Same(file, c)
  <2>1. Goto(p, "observe")
    BY <1>3 DEF Open
  <2>2. <<scan[p].step, "observe">> \in Turns /\ scan[p].step # "parse"
    BY <1>1 DEF Turns
  <2>3. "observe" # "hash" /\ "observe" \in {"hash", "observe"}
    OBVIOUS
  <2> HIDE DEF c, file, current, x
  <2> QED BY <1>1, <2>1, <2>2, <2>3, GotoScan
<1>4. CASE Same(file, c)
  <2>1. scan' = [scan EXCEPT ![p] = x] /\ Visible(c.at)
    BY <1>4 DEF Open, Set
  <2>2. file \in File
    BY <1>2, <2>1 DEF Visible, TablesOK, Looked
  <2>3. current \in Opened /\ Same(current.file, current) /\ current.at = c.at
        /\ current.row = c.row /\ current.record = c.record
    BY <1>2, <1>4, <2>2 DEF Opened, Looked, Same
  <2> HIDE DEF current
  <2>4. /\ x.step = "hash" /\ x.todo = scan[p].todo /\ x.found = scan[p].found
        /\ x.parsed = scan[p].parsed /\ x.accepted = scan[p].accepted
        /\ x.current = current /\ x.bytes = scan[p].bytes
    BY <1>1 DEF ScanState
  <2>5. x \in ScanState
    BY <1>1, <2>3, <2>4 DEF ScanState, ScanSteps
  <2> HIDE DEF x, c
  <2>6. ScanOK(x)
    BY <2>3, <2>4, <2>5, NotIdle DEF ScanOK
  <2>7. x.todo = {} /\ x.found = {}
    BY <1>1, <2>4 DEF Apart
  <2>8. Apart(x)
    BY <1>1, <2>3, <2>4, <2>7 DEF Apart, c
  <2> QED BY <1>1, <2>1, <2>3, <2>4, <2>6, <2>7, <2>8 DEF c
<1> QED
  BY <1>3, <1>4

\* The bytes that are hashed have the length of the fingerprint.
LEMMA HashScan ==
    ASSUME TablesOK, ScansOK, NEW p \in Scanners, Hash(p)
    PROVE  \E x : /\ ScanOK(x) /\ Apart(x) /\ scan' = [scan EXCEPT ![p] = x]
                  /\ scan[p].step = "hash" /\ x.step = "observe"
                  /\ x.todo = {} /\ x.found = {} /\ x.parsed = scan[p].parsed
                  /\ \/ x.accepted = scan[p].accepted
                     \/ \E revision \in Revisions :
                         /\ Size[revision] = scan[p].current.row.stat[1]
                         /\ x.accepted = scan[p].accepted \cup
                              {[at |-> scan[p].current.at,
                                record |-> scan[p].current.record,
                                revision |-> revision]}
<1>1. /\ scan[p] \in ScanState /\ ScanOK(scan[p]) /\ Apart(scan[p])
      /\ scan[p].step = "hash"
  BY DEF ScansOK, ScanOK, Hash, At
<1> DEFINE c == scan[p].current
<1>2. c \in Opened /\ Same(c.file, c)
  BY <1>1 DEF ScanOK
<1>3. ASSUME Goto(p, "observe")
      PROVE  \E x : /\ ScanOK(x) /\ Apart(x) /\ scan' = [scan EXCEPT ![p] = x]
                    /\ x.step = "observe" /\ x.todo = {} /\ x.found = {}
                    /\ x.parsed = scan[p].parsed /\ x.accepted = scan[p].accepted
  <2>1. <<scan[p].step, "observe">> \in Turns /\ scan[p].step # "parse"
    BY <1>1 DEF Turns
  <2> QED BY <1>3, <2>1, GotoScan
<1>4. ASSUME NEW revision \in Hashed(c),
             Set(p, [scan[p] EXCEPT
                 !.step = "observe", !.bytes = @ + Bytes(p),
                 !.accepted = @ \cup {[at |-> c.at, record |-> c.record,
                                       revision |-> revision]}])
      PROVE  \E x : /\ ScanOK(x) /\ Apart(x) /\ scan' = [scan EXCEPT ![p] = x]
                    /\ x.step = "observe"
                    /\ x.todo = {} /\ x.found = {} /\ x.parsed = scan[p].parsed
                    /\ revision \in Revisions
                    /\ Size[revision] = c.row.stat[1]
                    /\ x.accepted = scan[p].accepted \cup
                         {[at |-> c.at, record |-> c.record, revision |-> revision]}
  <2>1. revision \in Revisions /\ Size[revision] = c.row.stat[1]
    <3>1. c.at \in Locations /\ tree[c.at] \in File \cup {NoFile} /\ c.file \in File
      BY <1>2 DEF TablesOK, Opened
    <3>2. PICK f \in File : f.revision = revision /\ Fingerprint(f) = c.row.stat
      <4>1. CASE revision = c.file.revision
        BY <1>2, <3>1, <4>1 DEF Same
      <4>2. CASE revision # c.file.revision
        BY <1>4, <3>1, <4>2 DEF Hashed
      <4> QED BY <4>1, <4>2
    <3> QED BY <3>2, FingerprintType DEF File
  <2> DEFINE new == [at |-> c.at, record |-> c.record, revision |-> revision]
             x == [scan[p] EXCEPT !.step = "observe", !.bytes = @ + Bytes(p),
                                  !.accepted = @ \cup {new}]
  <2>2. scan' = [scan EXCEPT ![p] = x]
    BY <1>4 DEF Set
  <2>3. new \in Accepted /\ new.at = c.at
    BY <1>2, <2>1 DEF Accepted, Opened
  <2>4. Bytes(p) \in Nat
    <3>1. c.row \in ObservedRows
      BY <1>2 DEF Opened
    <3> QED BY <3>1, StatLength DEF Bytes, Row
  <2> HIDE DEF new
  <2>5. /\ x.step = "observe" /\ x.todo = scan[p].todo /\ x.found = scan[p].found
        /\ x.parsed = scan[p].parsed /\ x.accepted = scan[p].accepted \cup {new}
        /\ x.current = scan[p].current /\ x.bytes = scan[p].bytes + Bytes(p)
    BY <1>1 DEF ScanState
  <2>6. x \in ScanState
    <3>1. x.bytes \in Nat
      BY <1>1, <2>4, <2>5 DEF ScanState
    <3> QED BY <1>1, <2>3, <2>5, <3>1 DEF ScanState, ScanSteps
  <2> HIDE DEF x
  <2>7. ScanOK(x)
    BY <1>1, <2>5, <2>6, NotIdle DEF ScanOK
  <2>8. x.todo = {} /\ x.found = {}
    BY <1>1, <2>5 DEF Apart
  <2>9. Apart(x)
    BY <1>1, <2>3, <2>5, <2>8 DEF Apart
  <2> QED BY <2>1, <2>2, <2>5, <2>7, <2>8, <2>9 DEF new
<1>5. \/ tree[c.at] # c.file /\ Goto(p, "observe")
      \/ \E revision \in Hashed(c) :
             Set(p, [scan[p] EXCEPT
                 !.step = "observe", !.bytes = @ + Bytes(p),
                 !.accepted = @ \cup {[at |-> c.at, record |-> c.record,
                                       revision |-> revision]}])
  BY DEF Hash
<1>6. CASE \E revision \in Hashed(c) :
             Set(p, [scan[p] EXCEPT
                 !.step = "observe", !.bytes = @ + Bytes(p),
                 !.accepted = @ \cup {[at |-> c.at, record |-> c.record,
                                       revision |-> revision]}])
  <2>1. PICK revision \in Hashed(c) :
             Set(p, [scan[p] EXCEPT
                 !.step = "observe", !.bytes = @ + Bytes(p),
                 !.accepted = @ \cup {[at |-> c.at, record |-> c.record,
                                       revision |-> revision]}])
    BY <1>6
  <2>2. PICK x : /\ ScanOK(x) /\ Apart(x) /\ scan' = [scan EXCEPT ![p] = x]
                 /\ x.step = "observe"
                 /\ x.todo = {} /\ x.found = {} /\ x.parsed = scan[p].parsed
                 /\ revision \in Revisions
                 /\ Size[revision] = c.row.stat[1]
                 /\ x.accepted = scan[p].accepted \cup
                      {[at |-> c.at, record |-> c.record, revision |-> revision]}
    BY <1>4, <2>1
  <2>3. \E rev \in Revisions :
          /\ Size[rev] = scan[p].current.row.stat[1]
          /\ x.accepted = scan[p].accepted \cup
               {[at |-> scan[p].current.at, record |-> scan[p].current.record,
                 revision |-> rev]}
    BY <2>2
  <2> HIDE DEF c
  <2> QED BY <1>1, <2>2, <2>3
<1>7. CASE tree[c.at] # c.file /\ Goto(p, "observe")
  <2>1. PICK x : /\ ScanOK(x) /\ Apart(x) /\ scan' = [scan EXCEPT ![p] = x]
                 /\ x.step = "observe" /\ x.todo = {} /\ x.found = {}
                 /\ x.parsed = scan[p].parsed /\ x.accepted = scan[p].accepted
    BY <1>3, <1>7
  <2> QED BY <1>1, <2>1
<1> QED
  BY <1>5, <1>6, <1>7

LEMMA AcceptScan ==
    ASSUME ScansOK, NEW p \in Scanners, Accept(p)
    PROVE  \E x : /\ ScanOK(x) /\ Apart(x) /\ scan' = [scan EXCEPT ![p] = x]
                  /\ scan[p].step = "accept" /\ x.step = "commit"
                  /\ x.todo = {} /\ x.found = {} /\ x.parsed = scan[p].parsed
                  /\ x.current \in scan[p].accepted
                  /\ x.accepted = scan[p].accepted \ {x.current}
<1>1. /\ scan[p] \in ScanState /\ ScanOK(scan[p]) /\ Apart(scan[p])
      /\ scan[p].step = "accept"
  BY DEF ScansOK, ScanOK, Accept, At
<1>2. PICK c \in scan[p].accepted :
        Set(p, [scan[p] EXCEPT !.step = "commit", !.accepted = @ \ {c}, !.current = c])
  BY DEF Accept
<1> DEFINE x == [scan[p] EXCEPT !.step = "commit", !.accepted = @ \ {c}, !.current = c]
<1>3. scan' = [scan EXCEPT ![p] = x]
  BY <1>2 DEF Set
<1>4. c \in Accepted
  BY <1>1 DEF ScanState
<1>5. /\ x.step = "commit" /\ x.todo = scan[p].todo /\ x.found = scan[p].found
      /\ x.parsed = scan[p].parsed /\ x.accepted = scan[p].accepted \ {c}
      /\ x.current = c /\ x.bytes = scan[p].bytes
  BY <1>1 DEF ScanState
<1>6. x \in ScanState
  BY <1>1, <1>4, <1>5 DEF ScanState, ScanSteps
<1> HIDE DEF x
<1>7. ScanOK(x)
  BY <1>4, <1>5, <1>6, NotIdle DEF ScanOK
<1>8. x.todo = {} /\ x.found = {}
  BY <1>1, <1>5 DEF Apart
<1>9. Apart(x)
  BY <1>1, <1>5, <1>8 DEF Apart
<1> QED
  BY <1>1, <1>2, <1>3, <1>5, <1>7, <1>8, <1>9

-----------------------------------------------------------------------------
(* The invariant: steps that leave the tables and the source alone *)

LEMMA InLedgerGrows ==
    ASSUME LedgerMoves, NEW x, NEW revision, InLedger(x, revision)
    PROVE  InLedger(x, revision)'
BY DEF LedgerMoves, InLedger

\* A row is what an event left.
LEMMA RowInLedger ==
    ASSUME LedgerMoves, NEW r \in Records, records'[r].state # "absent",
           NEW x, NEW revision,
           records'[r].location = x, records'[r].revision = revision
    PROVE  InLedger(x, revision)'
<1>1. records'[r] # NoRecord
  BY DEF NoRecord
<1>2. PICK i \in 1..Len(events') : records'[r] = RowAfter(events'[i])
  BY <1>1 DEF LedgerMoves, LedgerGood, LedgerReplays, Replays, RowAfter
<1>3. events'[i].location = x /\ events'[i].revision = revision
  BY <1>2 DEF RowAfter
<1> QED
  BY <1>3 DEF InLedger

LEMMA CommittedStays ==
    ASSUME LedgerMoves, AdmittedWasCommitted, UNCHANGED observed
    PROVE  AdmittedWasCommitted'
<1> SUFFICES ASSUME NEW x \in Locations, observed[x] # NoRow, observed[x].admitted
             PROVE  \E i \in 1..Len(events') :
                      /\ events'[i].location = x
                      /\ Size[events'[i].revision] = observed[x].stat[1]
  BY DEF AdmittedWasCommitted
<1> QED
  BY DEF AdmittedWasCommitted, LedgerMoves

LEMMA TablesStay ==
    ASSUME SourceInv, LedgerMoves, UNCHANGED <<sourceVars, tableVars>>
    PROVE  TablesOK' /\ AdmittedWasCommitted' /\ SightingCancels' /\ SteadyInSource'
<1>1. UNCHANGED <<tree, mounted, holder, observed, bound, seen, missing, steady>>
  BY DEF sourceVars, tableVars
<1>2. TablesOK'
  BY <1>1 DEF SourceInv, TablesOK, LedgerMoves, LedgerGood
<1>3. AdmittedWasCommitted'
  BY <1>1, CommittedStays DEF SourceInv
<1>4. SightingCancels' /\ SteadyInSource'
  BY <1>1 DEF SourceInv, SightingCancels, SteadyInSource, LedgerMoves
<1> QED
  BY <1>2, <1>3, <1>4

LEMMA KnowsStays ==
    ASSUME NEW p, NEW x, Knows(p, x), UNCHANGED <<tree, holder, observed, seen, steady>>
    PROVE  Knows(p, x)'
BY DEF Knows, TableAgrees, Settled, SeesSteady, Pending

LEMMA HasCommittedStays ==
    ASSUME LedgerMoves, NEW x, HasCommitted(x)
    PROVE  HasCommitted(x)'
BY InLedgerGrows DEF HasCommitted

\* A step of one scan that moves it to x.
LEMMA QuietStep ==
    ASSUME SourceInv, LedgerMoves, UNCHANGED <<sourceVars, tableVars>>,
           NEW p \in Scanners, NEW x, ScanOK(x), Apart(x), Knows(p, x),
           HasCommitted(x)', scan' = [scan EXCEPT ![p] = x]
    PROVE  SourceInv'
<1>1. ScansOK'
  BY ScansMove DEF SourceInv
<1>2. UNCHANGED <<tree, holder, observed, seen, steady>>
  BY DEF sourceVars, tableVars
<1>3. ASSUME NEW q \in Scanners
      PROVE  Knows(q, scan[q])' /\ HasCommitted(scan[q])'
  <2>1. CASE q = p
    <3>1. scan'[q] = x
      BY <2>1 DEF SourceInv, ScansOK
    <3>2. Knows(q, x)' /\ HasCommitted(x)'
      BY <1>2, <2>1, KnowsStays
    <3> QED BY <3>1, <3>2
  <2>2. CASE q # p
    <3>1. scan'[q] = scan[q]
      BY <2>2 DEF SourceInv, ScansOK
    <3>2. PICK y : y = scan[q]
      OBVIOUS
    <3>3. Knows(q, y) /\ HasCommitted(y)
      BY <3>2 DEF SourceInv
    <3>4. Knows(q, y)' /\ HasCommitted(y)'
      BY <1>2, <3>3, KnowsStays, HasCommittedStays
    <3> QED BY <3>1, <3>2, <3>4
  <2> QED BY <2>1, <2>2
<1>4. TablesOK' /\ AdmittedWasCommitted' /\ SightingCancels' /\ SteadyInSource'
  BY TablesStay
<1> QED
  BY <1>1, <1>3, <1>4 DEF SourceInv, LedgerMoves

LEMMA IdleKnows ==
    ASSUME NEW p
    PROVE  Knows(p, NoScan) /\ HasCommitted(NoScan) /\ HasCommitted(NoScan)'
BY DEF Knows, NoScan, TableAgrees, SeesSteady, HasCommitted

\* A step of one scan that writes nothing.
LEMMA ScanOnly ==
    ASSUME SourceInv, UNCHANGED <<records, events, sourceVars, tableVars>>,
           NEW p \in Scanners, NEW x, ScanOK(x), Apart(x), Knows(p, x),
           x.step \notin {"bind", "admit"}, scan' = [scan EXCEPT ![p] = x]
    PROVE  SourceInv'
<1>1. LedgerMoves
  BY StutterMoves DEF SourceInv
<1>2. HasCommitted(x)'
  BY DEF HasCommitted
<1> QED
  BY <1>1, <1>2, QuietStep

LEMMA StopKeeps ==
    ASSUME SourceInv, NEW p \in Scanners, ScanFails(p) \/ Crash(p)
    PROVE  SourceInv'
<1>1. /\ scan' = [scan EXCEPT ![p] = NoScan]
      /\ UNCHANGED <<records, events, sourceVars, tableVars>>
  BY DEF ScanFails, Crash, Set
<1>2. NoScan.step = "idle"
  BY DEF NoScan
<1> QED
  BY <1>1, <1>2, IdleKnows, NoScanOK, ScanOnly

LEMMA EnumerateKeeps ==
    ASSUME SourceInv, NEW p \in Scanners, Enumerate(p)
    PROVE  SourceInv'
<1>1. PICK x, y :
            /\ ScanOK(x) /\ Apart(x) /\ scan' = [scan EXCEPT ![p] = x]
            /\ scan[p].step = "enumerate" /\ x.step \in {"enumerate", "parse"}
            /\ y \in scan[p].todo /\ x.todo = scan[p].todo \ {y}
            /\ x.found = IF Visible(y)
                         THEN scan[p].found \cup {[at |-> y, stat |-> Fingerprint(tree[y])]}
                         ELSE scan[p].found
            /\ x.parsed = scan[p].parsed /\ x.accepted = {}
  BY EnumerateScan DEF SourceInv
<1>2. Knows(p, scan[p]) /\ SteadyInSource
  BY DEF SourceInv
<1>3. ASSUME holder = p, NEW r \in steady, r \notin seen
      PROVE  Pending(x, r)
  <2>1. Pending(scan[p], r)
    BY <1>1, <1>2, <1>3 DEF Knows, SeesSteady
  <2>2. ASSUME NEW z \in Locations, tree[z] # NoFile, tree[z].record = r,
               \/ z \in scan[p].todo
               \/ \E c \in scan[p].found : c.at = z /\ c.stat = Fingerprint(tree[z])
        PROVE  z \in x.todo \/ \E c \in x.found : c.at = z /\ c.stat = Fingerprint(tree[z])
    <3>1. mounted
      BY <1>2 DEF SteadyInSource
    <3>2. CASE z = y
      <4>1. Visible(y)
        BY <2>2, <3>1, <3>2 DEF Visible
      <4> DEFINE file == [at |-> y, stat |-> Fingerprint(tree[y])]
      <4>2. file \in x.found /\ file.at = z /\ file.stat = Fingerprint(tree[z])
        BY <1>1, <3>2, <4>1
      <4> QED BY <4>2
    <3>3. CASE z # y
      BY <1>1, <2>2, <3>3
    <3> QED BY <3>2, <3>3
  <2>3. ~(scan[p].step = "mark")
    BY <1>1
  <2> QED BY <1>1, <2>1, <2>2, <2>3 DEF Pending
<1>4. Knows(p, x)
  BY <1>1, <1>3 DEF Knows, TableAgrees, SeesSteady
<1>5. UNCHANGED <<records, events, sourceVars, tableVars>>
  BY DEF Enumerate
<1> QED
  BY <1>1, <1>4, <1>5, ScanOnly

LEMMA ParseKeeps ==
    ASSUME SourceInv, NEW p \in Scanners, Parse(p)
    PROVE  SourceInv'
<1>1. PICK x, c :
            /\ ScanOK(x) /\ Apart(x) /\ scan' = [scan EXCEPT ![p] = x]
            /\ scan[p].step = "parse" /\ x.step = "parse"
            /\ x.todo = {} /\ x.accepted = {}
            /\ c \in scan[p].found /\ x.found = scan[p].found \ {c}
            /\ Visible(c.at)
            /\ x.parsed = IF Fingerprint(tree[c.at]) = c.stat
                          THEN scan[p].parsed \cup
                                 {[at |-> c.at, stat |-> c.stat,
                                   record |-> tree[c.at].record]}
                          ELSE scan[p].parsed
  BY ParseScan DEF SourceInv
<1>2. Knows(p, scan[p]) /\ Apart(scan[p])
  BY DEF SourceInv, ScansOK
<1>3. ASSUME holder = p, NEW r \in steady, r \notin seen
      PROVE  Pending(x, r)
  <2>1. Pending(scan[p], r)
    BY <1>1, <1>2, <1>3 DEF Knows, SeesSteady
  <2>2. scan[p].todo = {} /\ scan[p].step # "mark"
    BY <1>1, <1>2 DEF Apart
  <2>3. CASE \E d \in scan[p].parsed : d.record = r
    <3>1. scan[p].parsed \subseteq x.parsed
      BY <1>1
    <3> QED BY <2>3, <3>1 DEF Pending
  <2>4. ASSUME NEW z \in Locations, tree[z] # NoFile, tree[z].record = r,
               NEW d \in scan[p].found, d.at = z, d.stat = Fingerprint(tree[z])
        PROVE  Pending(x, r)
    <3>1. CASE d = c
      <4> DEFINE file == [at |-> c.at, stat |-> c.stat, record |-> tree[c.at].record]
      <4>1. file \in x.parsed /\ file.record = r
        BY <1>1, <2>4, <3>1
      <4> QED BY <4>1 DEF Pending
    <3>2. CASE d # c
      <4>1. d \in x.found
        BY <1>1, <3>2
      <4> QED BY <2>4, <4>1 DEF Pending
    <3> QED BY <3>1, <3>2
  <2> QED BY <2>1, <2>2, <2>3, <2>4 DEF Pending
<1>4. Knows(p, x)
  BY <1>1, <1>3 DEF Knows, TableAgrees, SeesSteady
<1>5. UNCHANGED <<records, events, sourceVars, tableVars>>
  BY DEF Parse
<1> QED
  BY <1>1, <1>4, <1>5, ScanOnly

\* A scan that moves on with the same files parsed and accepted, and drops the
\* one it has in hand.
LEMMA TurnKnows ==
    ASSUME SourceInv, NEW p \in Scanners, NEW x,
           scan[p].step \in {"parse", "decide", "hash", "observe"},
           x.step \in {"observe", "accept"},
           scan[p].step = "parse" => scan[p].found = {},
           scan[p].step = "observe" => scan[p].parsed = {},
           x.step = "accept" => scan[p].step = "observe",
           x.parsed = scan[p].parsed, x.accepted = scan[p].accepted
    PROVE  Knows(p, x)
<1>1. Knows(p, scan[p]) /\ Apart(scan[p])
  BY DEF SourceInv, ScansOK
<1>2. ASSUME holder = p, NEW r \in steady, r \notin seen
      PROVE  Pending(x, r)
  <2>1. Pending(scan[p], r)
    BY <1>1, <1>2 DEF Knows, SeesSteady
  <2>2. scan[p].todo = {} /\ scan[p].step # "mark" /\ scan[p].found = {}
    BY <1>1 DEF Apart
  <2> QED BY <2>1, <2>2 DEF Pending
<1>3. holder = p => \A c \in x.accepted : Settled(c.at, c.revision)
  BY <1>1 DEF Knows, TableAgrees
<1>4. holder = p => TableAgrees(x)
  BY <1>3 DEF TableAgrees
<1> QED
  BY <1>2, <1>4 DEF Knows, SeesSteady

LEMMA TurnKeeps ==
    ASSUME SourceInv, NEW p \in Scanners,
           AllParsed(p) \/ Postpone(p) \/ AlreadyStable(p) \/ VerifyAgain(p)
    PROVE  SourceInv'
<1>1. PICK step : /\ Goto(p, step) /\ <<scan[p].step, step>> \in Turns
                  /\ scan[p].step \in {"parse", "decide", "observe"}
                  /\ step \in {"observe", "accept"}
                  /\ step = "accept" => scan[p].step = "observe"
                  /\ scan[p].step = "parse" => scan[p].found = {}
                  /\ scan[p].step = "observe" => scan[p].parsed = {}
  BY DEF AllParsed, Postpone, AlreadyStable, VerifyAgain, At, Turns
<1>2. PICK x : /\ ScanOK(x) /\ Apart(x) /\ scan' = [scan EXCEPT ![p] = x]
               /\ x.step = step
               /\ x.parsed = scan[p].parsed /\ x.accepted = scan[p].accepted
  BY <1>1, GotoScan DEF SourceInv
<1>3. Knows(p, x)
  BY <1>1, <1>2, TurnKnows
<1>4. UNCHANGED <<records, events, sourceVars, tableVars>>
  BY DEF AllParsed, Postpone, AlreadyStable, VerifyAgain
<1> QED
  BY <1>1, <1>2, <1>3, <1>4, ScanOnly

LEMMA OpenKeeps ==
    ASSUME SourceInv, NEW p \in Scanners, Open(p)
    PROVE  SourceInv'
<1>1. PICK x : /\ ScanOK(x) /\ Apart(x) /\ scan' = [scan EXCEPT ![p] = x]
               /\ scan[p].step = "decide" /\ x.step \in {"hash", "observe"}
               /\ x.todo = {} /\ x.found = {}
               /\ x.parsed = scan[p].parsed /\ x.accepted = scan[p].accepted
               /\ x.step = "hash" =>
                     /\ x.current.at = scan[p].current.at
                     /\ x.current.record = scan[p].current.record
                     /\ x.current.row = scan[p].current.row
  BY OpenScan DEF SourceInv
<1>2. Knows(p, scan[p]) /\ Apart(scan[p]) /\ ScanOK(scan[p])
  BY DEF SourceInv, ScansOK
<1>3. ASSUME x.step = "hash", holder = p
      PROVE  TableAgrees(x) /\ SeesSteady(x)
  <2>1. scan[p].current.row.unchanged = MinUnchanged
    <3>1. scan[p].current \in Looked
      BY <1>1, <1>2 DEF ScanOK
    <3>2. scan[p].current.row.unchanged \in 1..MinUnchanged
      BY <3>1 DEF Looked, ObservedRows
    <3>3. scan[p].current.row.unchanged >= MinUnchanged
      BY DEF Open, NeedsHash, Row
    <3> QED BY <3>2, <3>3, SourceAssumption DEF SourceAssumption
  <2>2. /\ TableAgrees(scan[p])
        /\ \A r \in steady : r \in seen \/ Pending(scan[p], r)
    BY <1>1, <1>2, <1>3 DEF Knows, SeesSteady
  <2>3. TableAgrees(x)
    BY <1>1, <1>3, <2>1, <2>2 DEF TableAgrees
  <2>4. ASSUME NEW r, Pending(scan[p], r) PROVE Pending(x, r)
    <3>1. scan[p].todo = {} /\ scan[p].found = {}
      BY <1>1, <1>2 DEF Apart
    <3> QED BY <1>1, <2>4, <3>1 DEF Pending
  <2> QED BY <2>2, <2>3, <2>4 DEF SeesSteady
<1>4. ASSUME x.step = "hash" PROVE Knows(p, x)
  BY <1>3, <1>4 DEF Knows
<1>5. ASSUME x.step = "observe" PROVE Knows(p, x)
  BY <1>1, <1>5, TurnKnows
<1>6. UNCHANGED <<records, events, sourceVars, tableVars>>
  BY DEF Open
<1> QED
  BY <1>1, <1>4, <1>5, <1>6, ScanOnly

\* The hashed bytes are of the length the table says of the file.
LEMMA HashKeeps ==
    ASSUME SourceInv, NEW p \in Scanners, Hash(p)
    PROVE  SourceInv'
<1>1. PICK x : /\ ScanOK(x) /\ Apart(x) /\ scan' = [scan EXCEPT ![p] = x]
               /\ scan[p].step = "hash" /\ x.step = "observe"
               /\ x.todo = {} /\ x.found = {} /\ x.parsed = scan[p].parsed
               /\ \/ x.accepted = scan[p].accepted
                  \/ \E revision \in Revisions :
                      /\ Size[revision] = scan[p].current.row.stat[1]
                      /\ x.accepted = scan[p].accepted \cup
                           {[at |-> scan[p].current.at,
                             record |-> scan[p].current.record,
                             revision |-> revision]}
  BY HashScan DEF SourceInv
<1>2. Knows(p, scan[p]) /\ Apart(scan[p])
  BY DEF SourceInv, ScansOK
<1>3. ASSUME x.accepted = scan[p].accepted PROVE Knows(p, x)
  BY <1>1, <1>3, TurnKnows
<1>4. ASSUME NEW revision \in Revisions, Size[revision] = scan[p].current.row.stat[1],
             x.accepted = scan[p].accepted \cup
               {[at |-> scan[p].current.at, record |-> scan[p].current.record,
                 revision |-> revision]}
      PROVE  Knows(p, x)
  <2>1. ASSUME holder = p PROVE TableAgrees(x)
    <3>1. TableAgrees(scan[p])
      BY <1>2, <2>1 DEF Knows
    <3>2. Settled(scan[p].current.at, revision)
      BY <1>1, <1>4, <3>1 DEF TableAgrees, Settled
    <3>3. \A c \in x.accepted : Settled(c.at, c.revision)
      BY <1>4, <3>1, <3>2 DEF TableAgrees
    <3> QED BY <1>1, <3>3 DEF TableAgrees
  <2>2. ASSUME holder = p, NEW r \in steady, r \notin seen
        PROVE  Pending(x, r)
    <3>1. Pending(scan[p], r)
      BY <1>1, <1>2, <2>2 DEF Knows, SeesSteady
    <3>2. scan[p].todo = {} /\ scan[p].step # "mark" /\ scan[p].found = {}
      BY <1>1, <1>2 DEF Apart
    <3> QED BY <1>1, <3>1, <3>2 DEF Pending
  <2> QED BY <1>1, <2>1, <2>2 DEF Knows, SeesSteady
<1>5. Knows(p, x)
  BY <1>1, <1>3, <1>4
<1>6. UNCHANGED <<records, events, sourceVars, tableVars>>
  BY DEF Hash
<1> QED
  BY <1>1, <1>5, <1>6, ScanOnly

LEMMA AcceptKeeps ==
    ASSUME SourceInv, NEW p \in Scanners, Accept(p)
    PROVE  SourceInv'
<1>1. PICK x : /\ ScanOK(x) /\ Apart(x) /\ scan' = [scan EXCEPT ![p] = x]
               /\ scan[p].step = "accept" /\ x.step = "commit"
               /\ x.todo = {} /\ x.found = {} /\ x.parsed = scan[p].parsed
               /\ x.current \in scan[p].accepted
               /\ x.accepted = scan[p].accepted \ {x.current}
  BY AcceptScan DEF SourceInv
<1>2. Knows(p, scan[p]) /\ Apart(scan[p])
  BY DEF SourceInv, ScansOK
<1>3. holder = p => TableAgrees(x)
  <2>1. holder = p => TableAgrees(scan[p])
    BY <1>2 DEF Knows
  <2> QED BY <1>1, <2>1 DEF TableAgrees
<1>4. ASSUME holder = p, NEW r \in steady, r \notin seen
      PROVE  FALSE
  <2>1. Pending(scan[p], r)
    BY <1>1, <1>2, <1>4 DEF Knows, SeesSteady
  <2>2. /\ scan[p].todo = {} /\ scan[p].step # "mark" /\ scan[p].found = {}
        /\ scan[p].parsed = {}
    BY <1>1, <1>2 DEF Apart, Knows
  <2> QED BY <2>1, <2>2 DEF Pending
<1>5. Knows(p, x)
  BY <1>1, <1>2, <1>3, <1>4 DEF Knows, SeesSteady
<1>6. UNCHANGED <<records, events, sourceVars, tableVars>>
  BY DEF Accept
<1> QED
  BY <1>1, <1>5, <1>6, ScanOnly

\* The commit is in the ledger before the fingerprint is admitted.
LEMMA CommitKeeps ==
    ASSUME SourceInv, NEW p \in Scanners, Commit(p)
    PROVE  SourceInv' /\ \A r \in Records : records'[r] = records[r]
                                           \/ records'[r].state = "active"
<1> PICK c : c = scan[p].current
  OBVIOUS
<1>1. /\ scan[p].step = "commit" /\ Goto(p, "bind")
      /\ ObservePresent(c.record, c.at, c.revision)
      /\ UNCHANGED <<sourceVars, tableVars>>
  BY DEF Commit, At
<1>2. <<scan[p].step, "bind">> \in Turns /\ scan[p].step # "parse"
  BY <1>1 DEF Turns
<1>3. PICK x : /\ ScanOK(x) /\ Apart(x) /\ scan' = [scan EXCEPT ![p] = x]
               /\ x.step = "bind" /\ x.todo = {} /\ x.found = {}
               /\ x.parsed = scan[p].parsed /\ x.accepted = scan[p].accepted
               /\ x.current = c
  BY <1>1, <1>2, GotoScan DEF SourceInv
<1>4. Knows(p, scan[p]) /\ Apart(scan[p]) /\ ScanOK(scan[p])
  BY DEF SourceInv, ScansOK
<1>5. c \in Accepted /\ c.record \in Records /\ c.at \in Locations
      /\ c.revision \in Revisions
  <2>1. c \in Accepted
    BY <1>1, <1>4 DEF ScanOK
  <2> QED BY <2>1 DEF Accepted
<1>6. /\ LedgerMoves
      /\ records'[c.record].state = "active"
      /\ records'[c.record].location = c.at /\ records'[c.record].revision = c.revision
      /\ \A q \in Records : q # c.record => records'[q] = records[q]
  BY <1>1, <1>5, ObserveMoves DEF SourceInv
<1>7. HasCommitted(x)'
  <2>1. records'[c.record].state # "absent"
    BY <1>6
  <2>2. InLedger(c.at, c.revision)'
    BY <1>5, <1>6, <2>1, RowInLedger
  <2> QED BY <1>3, <2>2 DEF HasCommitted
<1>8. Knows(p, x)
  <2>1. holder = p => TableAgrees(x)
    BY <1>1, <1>3, <1>4 DEF Knows, TableAgrees
  <2>2. ASSUME holder = p, NEW r \in steady, r \notin seen
        PROVE  FALSE
    <3>1. Pending(scan[p], r)
      BY <1>1, <1>4, <2>2 DEF Knows, SeesSteady
    <3>2. /\ scan[p].todo = {} /\ scan[p].step # "mark" /\ scan[p].found = {}
          /\ scan[p].parsed = {}
      BY <1>1, <1>4 DEF Apart, Knows
    <3> QED BY <3>1, <3>2 DEF Pending
  <2> QED BY <1>1, <1>3, <1>4, <2>1, <2>2 DEF Knows, SeesSteady
<1>9. SourceInv'
  BY <1>1, <1>3, <1>6, <1>7, <1>8, QuietStep
<1> QED
  BY <1>6, <1>9

-----------------------------------------------------------------------------
(* The invariant: steps of the scan that is current *)

LEMMA TableStep ==
    ASSUME SourceInv, LedgerMoves, NEW p \in Scanners, NEW x, ScanOK(x), Apart(x),
           scan' = [scan EXCEPT ![p] = x], holder' \in {p, Nobody},
           Knows(p, x)', HasCommitted(x)',
           TablesOK', AdmittedWasCommitted', SightingCancels', SteadyInSource'
    PROVE  SourceInv'
<1>1. ScansOK'
  BY ScansMove DEF SourceInv
<1>2. ASSUME NEW q \in Scanners
      PROVE  Knows(q, scan[q])' /\ HasCommitted(scan[q])'
  <2>1. CASE q = p
    <3>1. scan'[q] = x
      BY <2>1 DEF SourceInv, ScansOK
    <3> QED BY <2>1, <3>1
  <2>2. CASE q # p
    <3>1. scan'[q] = scan[q] /\ holder' # q
      BY <2>2, SourceAssumption DEF SourceInv, ScansOK, SourceAssumption
    <3>2. PICK y : y = scan[q]
      OBVIOUS
    <3>3. Knows(q, y) /\ HasCommitted(y)
      BY <3>2 DEF SourceInv
    <3>4. Knows(q, y)' /\ HasCommitted(y)'
      BY <3>1, <3>3, HasCommittedStays DEF Knows
    <3> QED BY <3>1, <3>2, <3>4
  <2> QED BY <2>1, <2>2
<1> QED
  BY <1>1, <1>2 DEF SourceInv, LedgerMoves

LEMMA BeginKeeps ==
    ASSUME SourceInv, NEW p \in Scanners, Begin(p)
    PROVE  SourceInv'
<1>1. PICK x : /\ ScanOK(x) /\ Apart(x) /\ scan' = [scan EXCEPT ![p] = x]
               /\ x.step = "enumerate" /\ x.todo = Locations
               /\ x.parsed = {} /\ x.accepted = {}
  BY BeginScan DEF SourceInv
<1>2. /\ holder' = p /\ seen' = {} /\ UNCHANGED <<records, events>>
      /\ UNCHANGED <<tree, mounted, changes, bound, missing, steady>>
      /\ observed' = [y \in Locations |->
             IF observed[y] = NoRow THEN NoRow ELSE [observed[y] EXCEPT !.seen = FALSE]]
  BY DEF Begin, sourceVars
<1>3. LedgerMoves
  BY <1>2, StutterMoves DEF SourceInv
<1>4. ASSUME NEW y \in Locations, observed'[y] # NoRow
      PROVE  /\ observed[y] # NoRow /\ observed'[y] \in ObservedRows
             /\ observed'[y].admitted = observed[y].admitted
             /\ observed'[y].unchanged = observed[y].unchanged
             /\ observed'[y].stat = observed[y].stat
  <2>1. observed[y] # NoRow /\ observed'[y] = [observed[y] EXCEPT !.seen = FALSE]
    BY <1>2, <1>4
  <2>2. observed[y] \in ObservedRows
    BY <2>1 DEF SourceInv, TablesOK
  <2> QED BY <2>1, <2>2 DEF ObservedRows
<1>5. TablesOK'
  <2>1. observed' \in [Locations -> ObservedRows \cup {NoRow}]
    BY <1>2, <1>4
  <2>2. \A y \in Locations :
          observed'[y] # NoRow /\ observed'[y].admitted =>
              observed'[y].unchanged = MinUnchanged
    BY <1>4 DEF SourceInv, TablesOK
  <2> QED BY <1>2, <1>3, <2>1, <2>2 DEF SourceInv, TablesOK, LedgerMoves, LedgerGood
<1>6. AdmittedWasCommitted'
  BY <1>2, <1>4 DEF SourceInv, AdmittedWasCommitted
<1>7. SightingCancels'
  BY <1>2 DEF SourceInv, SightingCancels
<1>8. SteadyInSource'
  BY <1>2 DEF SourceInv, SteadyInSource
<1>9. Knows(p, x)'
  <2>1. ASSUME NEW r \in steady' PROVE Pending(x, r)'
    BY <1>1, <1>8 DEF SteadyInSource, Pending
  <2> QED BY <1>1, <2>1 DEF Knows, TableAgrees, SeesSteady
<1>10. HasCommitted(x)'
  BY <1>1 DEF HasCommitted
<1> QED
  BY <1>1, <1>2, <1>3, <1>5, <1>6, <1>7, <1>8, <1>9, <1>10, TableStep

LEMMA ObserveKeeps ==
    ASSUME SourceInv, NEW p \in Scanners, ObserveFingerprint(p)
    PROVE  SourceInv'
<1>1. PICK x, c :
            /\ ScanOK(x) /\ Apart(x) /\ scan' = [scan EXCEPT ![p] = x]
            /\ scan[p].step = "observe" /\ x.step = "mark"
            /\ c \in scan[p].parsed /\ c \in Parsed
            /\ x.todo = {} /\ x.found = {} /\ x.parsed = scan[p].parsed \ {c}
            /\ x.accepted = scan[p].accepted
            /\ x.current = [at |-> c.at, record |-> c.record,
                            row |-> ObservedRow(observed[c.at], c.stat)]
            /\ observed' = [observed EXCEPT ![c.at] = ObservedRow(observed[c.at], c.stat)]
  BY ObserveScan DEF SourceInv
<1>2. /\ holder = p /\ holder' = p /\ UNCHANGED <<records, events>>
      /\ UNCHANGED <<tree, mounted, changes, bound, seen, missing, steady>>
  BY DEF ObserveFingerprint, IsCurrent, sourceVars
<1>3. LedgerMoves
  BY <1>2, StutterMoves DEF SourceInv
<1>4. Knows(p, scan[p]) /\ Apart(scan[p])
  BY DEF SourceInv, ScansOK
<1> DEFINE row == ObservedRow(observed[c.at], c.stat)
<1>5. c.at \in Locations /\ c.stat \in Fingerprints
  BY <1>1 DEF Parsed
<1>6. /\ row \in ObservedRows /\ row.stat = c.stat
      /\ row.admitted =>
            /\ observed[c.at] # NoRow /\ observed[c.at].admitted
            /\ observed[c.at].stat = c.stat
            /\ observed[c.at].unchanged = MinUnchanged => row.unchanged = MinUnchanged
  <2>1. observed[c.at] \in ObservedRows \cup {NoRow}
    BY <1>5 DEF SourceInv, TablesOK
  <2> QED BY <1>5, <2>1, RowType, ZenonT(30)
<1>7. /\ observed' = [observed EXCEPT ![c.at] = row]
      /\ observed \in [Locations -> ObservedRows \cup {NoRow}]
      /\ x.current = [at |-> c.at, record |-> c.record, row |-> row]
  BY <1>1 DEF SourceInv, TablesOK
<1>8. PICK new : new = row
  OBVIOUS
<1> HIDE DEF row
<1>9. \A y \in Locations : observed'[y] = IF y = c.at THEN new ELSE observed[y]
  BY <1>7, <1>8
<1>10. TablesOK'
  <2>1. observed' \in [Locations -> ObservedRows \cup {NoRow}]
    BY <1>6, <1>7
  <2>2. ASSUME NEW y \in Locations, observed'[y] # NoRow, observed'[y].admitted
        PROVE  observed'[y].unchanged = MinUnchanged
    BY <1>5, <1>6, <1>8, <1>9, <2>2 DEF SourceInv, TablesOK
  <2> QED BY <1>2, <1>3, <2>1, <2>2 DEF SourceInv, TablesOK, LedgerMoves, LedgerGood
<1>11. AdmittedWasCommitted'
  <2> SUFFICES ASSUME NEW y \in Locations, observed'[y] # NoRow, observed'[y].admitted
               PROVE  \E i \in 1..Len(events) :
                        /\ events[i].location = y
                        /\ Size[events[i].revision] = observed'[y].stat[1]
    BY <1>2 DEF AdmittedWasCommitted
  <2>1. /\ observed[y] # NoRow /\ observed[y].admitted
        /\ observed[y].stat = observed'[y].stat
    BY <1>6, <1>8, <1>9
  <2> QED BY <2>1 DEF SourceInv, AdmittedWasCommitted
<1>12. SightingCancels' /\ SteadyInSource'
  BY <1>2 DEF SourceInv, SightingCancels, SteadyInSource
<1>13. x.current.at = c.at /\ x.current.row = new /\ x.current.record = c.record
  BY <1>7, <1>8
<1>14. TableAgrees(x)'
  <2>1. observed'[c.at] = new
    BY <1>5, <1>9
  <2>2. ASSUME NEW d \in x.accepted PROVE Settled(d.at, d.revision)'
    <3>1. d.at # c.at /\ d.at \in Locations
      <4>1. d.at # c.at
        BY <1>1, <1>4, <2>2 DEF Apart
      <4>2. d \in Accepted
        BY <1>1, <2>2 DEF ScanOK, ScanState
      <4> QED BY <4>1, <4>2 DEF Accepted
    <3>2. Settled(d.at, d.revision)
      BY <1>1, <1>2, <1>4, <2>2 DEF Knows, TableAgrees
    <3> QED BY <1>9, <3>1, <3>2 DEF Settled
  <2> QED BY <1>1, <1>13, <2>1, <2>2 DEF TableAgrees
<1>15. ASSUME NEW r \in steady, r \notin seen
       PROVE  Pending(x, r)'
  <2>1. Pending(scan[p], r)
    BY <1>1, <1>2, <1>4, <1>15 DEF Knows, SeesSteady
  <2>2. scan[p].todo = {} /\ scan[p].found = {} /\ scan[p].step # "mark"
    BY <1>1, <1>4 DEF Apart
  <2>3. PICK d \in scan[p].parsed : d.record = r
    BY <2>1, <2>2 DEF Pending
  <2>4. CASE d = c
    BY <1>1, <1>13, <2>3, <2>4 DEF Pending
  <2>5. CASE d # c
    BY <1>1, <2>3, <2>5 DEF Pending
  <2> QED BY <2>4, <2>5
<1>16. Knows(p, x)'
  BY <1>1, <1>2, <1>14, <1>15 DEF Knows, SeesSteady
<1>17. HasCommitted(x)'
  BY <1>1 DEF HasCommitted
<1> QED
  BY <1>1, <1>2, <1>3, <1>10, <1>11, <1>12, <1>16, <1>17, TableStep

\* Only a record that is seen becomes steady.
LEMMA MarkSeenKeeps ==
    ASSUME SourceInv, NEW r \in Records, MarkSeen(r),
           UNCHANGED <<records, events, tree, mounted, holder, observed>>
    PROVE  /\ TablesOK' /\ AdmittedWasCommitted' /\ SightingCancels' /\ SteadyInSource'
           /\ seen \subseteq seen'
           /\ records[r].state # "absent" => r \in seen'
           /\ \A q \in steady' : q \in steady \/ q \in seen'
<1>1. LedgerMoves
  BY StutterMoves DEF SourceInv
<1>2. LedgerInv'
  BY <1>1 DEF LedgerMoves, LedgerGood
<1>3. AdmittedWasCommitted'
  BY <1>1, CommittedStays DEF SourceInv
<1>4. CASE records[r].state = "absent"
  <2>1. UNCHANGED <<bound, seen, missing, steady>>
    BY <1>4 DEF MarkSeen
  <2>2. TablesOK'
    BY <1>2, <2>1 DEF SourceInv, TablesOK
  <2>3. SightingCancels' /\ SteadyInSource'
    BY <2>1 DEF SourceInv, SightingCancels, SteadyInSource
  <2> QED BY <1>3, <1>4, <2>1, <2>2, <2>3
<1>5. CASE records[r].state # "absent"
  <2>1. /\ bound' = bound \cup {r} /\ seen' = seen \cup {r}
        /\ missing' = [missing EXCEPT ![r] = NotMissing]
        /\ steady' = IF InSource(r) THEN steady \cup {r} ELSE steady \ {r}
    BY <1>5 DEF MarkSeen
  <2>2. /\ missing \in [Records -> [first : Nat, scans : 0..MinScans]]
        /\ bound \subseteq Records /\ IsFiniteSet(bound) /\ seen \subseteq bound
    BY DEF SourceInv, TablesOK
  <2>3. NotMissing \in [first : Nat, scans : 0..MinScans] /\ NotMissing.scans = 0
    BY SourceAssumption DEF NotMissing, SourceAssumption
  <2>4. missing' \in [Records -> [first : Nat, scans : 0..MinScans]]
    BY <2>1, <2>2, <2>3
  <2>5. bound' \subseteq Records /\ IsFiniteSet(bound') /\ seen' \subseteq bound'
    BY <2>1, <2>2, FS_AddElement
  <2>6. \A q \in bound' : records'[q].state # "absent"
    BY <1>5, <2>1 DEF SourceInv, TablesOK
  <2>7. TablesOK'
    BY <1>2, <2>4, <2>5, <2>6 DEF SourceInv, TablesOK
  <2>8. SightingCancels'
    <3> SUFFICES ASSUME NEW q \in Records, missing'[q].scans > 0
                 PROVE  q \in bound' \ seen'
      BY DEF SightingCancels
    <3>1. q # r
      BY <2>1, <2>2, <2>3
    <3>2. q \in bound \ seen
      BY <2>1, <2>2, <3>1 DEF SourceInv, SightingCancels
    <3> QED BY <2>1, <3>1, <3>2
  <2>9. SteadyInSource'
    <3>1. InSource(r) => /\ mounted
                         /\ \E y \in Locations : tree[y] # NoFile /\ tree[y].record = r
      BY DEF InSource, FilesOf
    <3> QED BY <1>5, <2>1, <3>1 DEF SourceInv, SteadyInSource
  <2> QED BY <1>3, <2>1, <2>7, <2>8, <2>9
<1> QED
  BY <1>4, <1>5

LEMMA MarkKeeps ==
    ASSUME SourceInv, NEW p \in Scanners, Mark(p)
    PROVE  SourceInv'
<1> PICK c : c = scan[p].current
  OBVIOUS
<1>1. /\ scan[p].step = "mark" /\ Goto(p, "decide") /\ holder = p
      /\ MarkSeen(c.record)
      /\ UNCHANGED <<records, events, tree, mounted, changes, holder, observed>>
  BY DEF Mark, At, IsCurrent, sourceVars
<1>2. <<scan[p].step, "decide">> \in Turns /\ scan[p].step # "parse"
  BY <1>1 DEF Turns
<1>3. PICK x : /\ ScanOK(x) /\ Apart(x) /\ scan' = [scan EXCEPT ![p] = x]
               /\ x.step = "decide" /\ x.todo = {} /\ x.found = {}
               /\ x.parsed = scan[p].parsed /\ x.accepted = scan[p].accepted
               /\ x.current = c
  BY <1>1, <1>2, GotoScan DEF SourceInv
<1>4. Knows(p, scan[p]) /\ Apart(scan[p]) /\ ScanOK(scan[p])
  BY DEF SourceInv, ScansOK
<1>5. c.record \in Records
  <2>1. c \in Looked
    BY <1>1, <1>4 DEF ScanOK
  <2> QED BY <2>1 DEF Looked
<1>6. /\ TablesOK' /\ AdmittedWasCommitted' /\ SightingCancels' /\ SteadyInSource'
      /\ seen \subseteq seen'
      /\ records[c.record].state # "absent" => c.record \in seen'
      /\ \A q \in steady' : q \in steady \/ q \in seen'
  BY <1>1, <1>5, MarkSeenKeeps
<1>7. LedgerMoves
  BY <1>1, StutterMoves DEF SourceInv
<1>8. TableAgrees(x)'
  <2>1. TableAgrees(scan[p])
    BY <1>1, <1>4 DEF Knows
  <2> QED BY <1>1, <1>3, <2>1 DEF TableAgrees, Settled
<1>9. ASSUME NEW r \in steady', r \notin seen'
      PROVE  Pending(x, r)'
  <2>1. r \in steady /\ r \notin seen
    BY <1>6, <1>9
  <2>2. Pending(scan[p], r)
    BY <1>1, <1>4, <2>1 DEF Knows, SeesSteady
  <2>3. scan[p].todo = {} /\ scan[p].found = {}
    BY <1>1, <1>4 DEF Apart
  <2>4. r # c.record
    BY <1>6, <1>9, <2>1 DEF SourceInv, SteadyInSource
  <2>5. \E d \in scan[p].parsed : d.record = r
    BY <2>2, <2>3, <2>4 DEF Pending
  <2> QED BY <1>3, <2>5 DEF Pending
<1>10. Knows(p, x)'
  BY <1>3, <1>8, <1>9 DEF Knows, SeesSteady
<1>11. HasCommitted(x)'
  BY <1>3 DEF HasCommitted
<1> QED
  BY <1>1, <1>3, <1>6, <1>7, <1>10, <1>11, TableStep

LEMMA BindKeeps ==
    ASSUME SourceInv, NEW p \in Scanners, Bind(p)
    PROVE  SourceInv'
<1> PICK c : c = scan[p].current
  OBVIOUS
<1>1. /\ scan[p].step = "bind" /\ Goto(p, "admit") /\ holder = p
      /\ MarkSeen(c.record)
      /\ UNCHANGED <<records, events, tree, mounted, changes, holder, observed>>
  BY DEF Bind, At, IsCurrent, sourceVars
<1>2. <<scan[p].step, "admit">> \in Turns /\ scan[p].step # "parse"
  BY <1>1 DEF Turns
<1>3. PICK x : /\ ScanOK(x) /\ Apart(x) /\ scan' = [scan EXCEPT ![p] = x]
               /\ x.step = "admit" /\ x.todo = {} /\ x.found = {}
               /\ x.parsed = scan[p].parsed /\ x.accepted = scan[p].accepted
               /\ x.current = c
  BY <1>1, <1>2, GotoScan DEF SourceInv
<1>4. Knows(p, scan[p]) /\ Apart(scan[p]) /\ ScanOK(scan[p]) /\ HasCommitted(scan[p])
  BY DEF SourceInv, ScansOK
<1>5. c.record \in Records
  <2>1. c \in Accepted
    BY <1>1, <1>4 DEF ScanOK
  <2> QED BY <2>1 DEF Accepted
<1>6. /\ TablesOK' /\ AdmittedWasCommitted' /\ SightingCancels' /\ SteadyInSource'
      /\ seen \subseteq seen'
      /\ \A q \in steady' : q \in steady \/ q \in seen'
  BY <1>1, <1>5, MarkSeenKeeps
<1>7. LedgerMoves
  BY <1>1, StutterMoves DEF SourceInv
<1>8. TableAgrees(x)'
  <2>1. TableAgrees(scan[p])
    BY <1>1, <1>4 DEF Knows
  <2> QED BY <1>1, <1>3, <2>1 DEF TableAgrees, Settled
<1>9. ASSUME NEW r \in steady, r \notin seen
      PROVE  FALSE
  <2>1. Pending(scan[p], r)
    BY <1>1, <1>4, <1>9 DEF Knows, SeesSteady
  <2>2. scan[p].todo = {} /\ scan[p].found = {} /\ scan[p].parsed = {}
    BY <1>1, <1>4 DEF Apart, Knows
  <2> QED BY <1>1, <2>1, <2>2 DEF Pending
<1>10. Knows(p, x)'
  BY <1>1, <1>3, <1>4, <1>6, <1>8, <1>9 DEF Knows, SeesSteady
<1>11. HasCommitted(x)'
  BY <1>1, <1>3, <1>4 DEF HasCommitted, InLedger
<1> QED
  BY <1>1, <1>3, <1>6, <1>7, <1>10, <1>11, TableStep

\* What is admitted is committed, and nobody replaced the fingerprint since it
\* was observed.
LEMMA AdmitKeeps ==
    ASSUME SourceInv, NEW p \in Scanners, Admit(p)
    PROVE  SourceInv'
<1> PICK c : c = scan[p].current
  OBVIOUS
<1>1. /\ scan[p].step = "admit" /\ Goto(p, "accept") /\ holder = p
      /\ observed[c.at] # NoRow
      /\ observed' = [observed EXCEPT ![c.at].admitted = TRUE]
      /\ UNCHANGED <<records, events, tree, mounted, changes, holder>>
      /\ UNCHANGED <<bound, seen, missing, steady>>
  BY DEF Admit, At, IsCurrent, sourceVars
<1>2. <<scan[p].step, "accept">> \in Turns /\ scan[p].step # "parse"
  BY <1>1 DEF Turns
<1>3. PICK x : /\ ScanOK(x) /\ Apart(x) /\ scan' = [scan EXCEPT ![p] = x]
               /\ x.step = "accept" /\ x.todo = {} /\ x.found = {}
               /\ x.parsed = scan[p].parsed /\ x.accepted = scan[p].accepted
               /\ x.current = c
  BY <1>1, <1>2, GotoScan, SMTT(30) DEF SourceInv
<1>4. /\ Knows(p, scan[p]) /\ Apart(scan[p]) /\ ScanOK(scan[p])
      /\ HasCommitted(scan[p]) /\ LedgerGood
  BY DEF SourceInv, ScansOK
<1>5. c \in Accepted /\ c.at \in Locations
  <2>1. c \in Accepted
    BY <1>1, <1>4 DEF ScanOK
  <2> QED BY <2>1 DEF Accepted
<1>6. InLedger(c.at, c.revision) /\ Settled(c.at, c.revision)
  BY <1>1, <1>4 DEF HasCommitted, Knows, TableAgrees
<1>7. LedgerMoves
  BY <1>1, <1>4, StutterMoves
<1>8. /\ observed \in [Locations -> ObservedRows \cup {NoRow}]
      /\ observed[c.at] \in ObservedRows
  BY <1>1, <1>5 DEF SourceInv, TablesOK
<1> PICK new : new = [observed[c.at] EXCEPT !.admitted = TRUE]
  OBVIOUS
<1>9. /\ new \in ObservedRows
      /\ new.stat = observed[c.at].stat /\ new.unchanged = observed[c.at].unchanged
  BY <1>8 DEF ObservedRows
<1>10. \A y \in Locations : observed'[y] = IF y = c.at THEN new ELSE observed[y]
  BY <1>1, <1>8
<1>11. TablesOK'
  <2>1. observed' \in [Locations -> ObservedRows \cup {NoRow}]
    BY <1>1, <1>8, <1>9
  <2>2. ASSUME NEW y \in Locations, observed'[y] # NoRow, observed'[y].admitted
        PROVE  observed'[y].unchanged = MinUnchanged
    <3>1. CASE y = c.at
      BY <1>1, <1>6, <1>9, <1>10, <3>1 DEF Settled
    <3>2. CASE y # c.at
      BY <1>10, <2>2, <3>2 DEF SourceInv, TablesOK
    <3> QED BY <3>1, <3>2
  <2> QED BY <1>1, <1>7, <2>1, <2>2 DEF SourceInv, TablesOK, LedgerMoves, LedgerGood
<1>12. AdmittedWasCommitted'
  <2> SUFFICES ASSUME NEW y \in Locations, observed'[y] # NoRow, observed'[y].admitted
               PROVE  \E i \in 1..Len(events) :
                        /\ events[i].location = y
                        /\ Size[events[i].revision] = observed'[y].stat[1]
    BY <1>1 DEF AdmittedWasCommitted
  <2>1. CASE y = c.at
    <3>1. Size[c.revision] = observed'[y].stat[1]
      BY <1>1, <1>6, <1>9, <1>10, <2>1, ZenonT(30) DEF Settled
    <3> QED BY <1>6, <2>1, <3>1 DEF InLedger
  <2>2. CASE y # c.at
    BY <1>10, <2>2 DEF SourceInv, AdmittedWasCommitted
  <2> QED BY <2>1, <2>2
<1>13. SightingCancels' /\ SteadyInSource'
  BY <1>1 DEF SourceInv, SightingCancels, SteadyInSource
<1>14. TableAgrees(x)'
  <2>1. ASSUME NEW d \in x.accepted PROVE Settled(d.at, d.revision)'
    <3>1. d.at \in Locations
      <4>1. d \in Accepted
        BY <1>3, <2>1 DEF ScanOK, ScanState
      <4> QED BY <4>1 DEF Accepted
    <3>2. Settled(d.at, d.revision)
      BY <1>1, <1>3, <1>4, <2>1 DEF Knows, TableAgrees
    <3> QED BY <1>1, <1>9, <1>10, <3>1, <3>2 DEF Settled
  <2> QED BY <1>3, <2>1 DEF TableAgrees
<1>15. ASSUME NEW r \in steady, r \notin seen
       PROVE  FALSE
  <2>1. Pending(scan[p], r)
    BY <1>1, <1>4, <1>15 DEF Knows, SeesSteady
  <2>2. scan[p].todo = {} /\ scan[p].found = {} /\ scan[p].parsed = {}
    BY <1>1, <1>4 DEF Apart, Knows
  <2> QED BY <1>1, <2>1, <2>2 DEF Pending
<1>16. Knows(p, x)'
  BY <1>1, <1>3, <1>4, <1>14, <1>15 DEF Knows, SeesSteady
<1>17. HasCommitted(x)'
  BY <1>3 DEF HasCommitted
<1> QED
  BY <1>1, <1>3, <1>7, <1>11, <1>12, <1>13, <1>16, <1>17, TableStep

\* A scan completes when every file that it parsed is marked as seen, so that
\* it tombstones no record whose file is steady.
LEMMA CompleteKeeps ==
    ASSUME SourceInv, NEW p \in Scanners, NEW now \in Times, Complete(p, now)
    PROVE  SourceInv' /\ \A r \in Records : Tombstoned(r) => r \notin steady
<1>1. /\ scan[p].step = "accept" /\ holder = p /\ holder' = Nobody
      /\ scan' = [scan EXCEPT ![p] = NoScan]
      /\ UNCHANGED <<tree, mounted, changes, bound, seen, steady>>
      /\ missing' = [r \in Records |->
             IF r \in Due(now) THEN NotMissing
             ELSE IF r \in Lost THEN Counted(r, now) ELSE missing[r]]
      /\ observed' = [y \in Locations |->
             IF observed[y] # NoRow /\ ~observed[y].seen THEN NoRow ELSE observed[y]]
  BY DEF Complete, At, IsCurrent, Set, sourceVars
<1>2. Knows(p, scan[p]) /\ Apart(scan[p]) /\ LedgerGood /\ TablesOK
  BY DEF SourceInv, ScansOK
<1>3. /\ LedgerMoves
      /\ \A r \in Records :
          \/ records'[r] = records[r]
          \/ r \in Dead(now) /\ records'[r].state = "tombstoned"
  BY <1>2, CompleteMoves
<1>4. missing' \in [Records -> [first : Nat, scans : 0..MinScans]]
  <2>1. MinScans \in Nat \ {0} /\ Times \subseteq Nat /\ now \in Nat
    BY SourceAssumption DEF SourceAssumption
  <2>2. NotMissing \in [first : Nat, scans : 0..MinScans]
    BY <2>1 DEF NotMissing
  <2>3. ASSUME NEW r \in Records
        PROVE  Counted(r, now) \in [first : Nat, scans : 0..MinScans]
    <3>1. missing[r] \in [first : Nat, scans : 0..MinScans]
      BY <1>2 DEF TablesOK
    <3>2. CASE missing[r].scans = 0
      BY <2>1, <3>2 DEF Counted
    <3>3. CASE missing[r].scans # 0
      <4> DEFINE n == IF missing[r].scans < MinScans THEN missing[r].scans + 1
                      ELSE missing[r].scans
      <4>1. n \in 0..MinScans
        BY <2>1, <3>1
      <4>2. Counted(r, now) = [missing[r] EXCEPT !.scans = n]
        BY <3>3 DEF Counted
      <4> HIDE DEF n
      <4> QED BY <3>1, <4>1, <4>2
    <3> QED BY <3>2, <3>3
  <2> QED BY <1>1, <1>2, <2>2, <2>3 DEF TablesOK
<1>5. \A y \in Locations :
        /\ observed'[y] \in ObservedRows \cup {NoRow}
        /\ observed'[y] # NoRow => observed'[y] = observed[y]
  BY <1>1, <1>2 DEF TablesOK
<1>6. TablesOK'
  <2>1. observed' \in [Locations -> ObservedRows \cup {NoRow}]
    BY <1>1, <1>5
  <2>2. \A y \in Locations :
          observed'[y] # NoRow /\ observed'[y].admitted =>
              observed'[y].unchanged = MinUnchanged
    BY <1>2, <1>5 DEF TablesOK
  <2>3. \A r \in bound' : records'[r].state # "absent"
    BY <1>1, <1>2, <1>3 DEF TablesOK, LedgerMoves
  <2> QED BY <1>1, <1>2, <1>3, <1>4, <2>1, <2>2, <2>3
          DEF TablesOK, LedgerMoves, LedgerGood
<1>7. AdmittedWasCommitted'
  <2> SUFFICES ASSUME NEW y \in Locations, observed'[y] # NoRow, observed'[y].admitted
               PROVE  \E i \in 1..Len(events') :
                        /\ events'[i].location = y
                        /\ Size[events'[i].revision] = observed'[y].stat[1]
    BY DEF AdmittedWasCommitted
  <2> QED BY <1>3, <1>5 DEF SourceInv, AdmittedWasCommitted, LedgerMoves
<1>8. SightingCancels'
  <2> SUFFICES ASSUME NEW r \in Records, missing'[r].scans > 0
               PROVE  r \in bound \ seen
    BY <1>1 DEF SightingCancels
  <2>1. CASE r \in Due(now)
    BY <1>1, <2>1 DEF NotMissing
  <2>2. CASE r \notin Due(now) /\ r \in Lost
    BY <2>2 DEF Lost
  <2>3. CASE r \notin Due(now) /\ r \notin Lost
    BY <1>1, <2>3 DEF SourceInv, SightingCancels
  <2> QED BY <2>1, <2>2, <2>3
<1>9. SteadyInSource'
  BY <1>1, <1>3 DEF SourceInv, SteadyInSource, LedgerMoves
<1>10. Knows(p, NoScan)'
  BY DEF Knows, NoScan, TableAgrees, SeesSteady
<1>11. HasCommitted(NoScan)'
  BY DEF HasCommitted, NoScan
<1>12. SourceInv'
  BY <1>1, <1>3, <1>6, <1>7, <1>8, <1>9, <1>10, <1>11, NoScanOK, TableStep
<1>13. ASSUME NEW r \in Records, Tombstoned(r), r \in steady
       PROVE  FALSE
  <2>1. r \in Dead(now)
    BY <1>3, <1>13 DEF Tombstoned
  <2>2. r \notin seen
    BY <2>1 DEF Dead, Due, Lost
  <2>3. Pending(scan[p], r)
    BY <1>1, <1>2, <1>13, <2>2 DEF Knows, SeesSteady
  <2>4. scan[p].todo = {} /\ scan[p].found = {} /\ scan[p].parsed = {}
    BY <1>1, <1>2 DEF Apart, Knows
  <2> QED BY <1>1, <2>3, <2>4 DEF Pending
<1> QED
  BY <1>12, <1>13

\* One step of a scanner.
LEMMA ScannerKeeps ==
    ASSUME SourceInv, NEW p \in Scanners, ScanStep(p) \/ Crash(p)
    PROVE  SourceInv' /\ \A r \in Records : Tombstoned(r) => r \notin steady
<1>1. ASSUME UNCHANGED records PROVE \A r \in Records : ~Tombstoned(r)
  BY <1>1 DEF Tombstoned
<1>2. CASE Begin(p)
  BY <1>1, <1>2, BeginKeeps DEF Begin
<1>3. CASE Enumerate(p)
  BY <1>1, <1>3, EnumerateKeeps DEF Enumerate
<1>4. CASE Parse(p)
  BY <1>1, <1>4, ParseKeeps DEF Parse
<1>5. CASE AllParsed(p) \/ Postpone(p) \/ AlreadyStable(p) \/ VerifyAgain(p)
  BY <1>1, <1>5, TurnKeeps DEF AllParsed, Postpone, AlreadyStable, VerifyAgain
<1>6. CASE ObserveFingerprint(p)
  BY <1>1, <1>6, ObserveKeeps DEF ObserveFingerprint
<1>7. CASE Mark(p)
  BY <1>1, <1>7, MarkKeeps DEF Mark
<1>8. CASE Open(p)
  BY <1>1, <1>8, OpenKeeps DEF Open
<1>9. CASE Hash(p)
  BY <1>1, <1>9, HashKeeps DEF Hash
<1>10. CASE Accept(p)
  BY <1>1, <1>10, AcceptKeeps DEF Accept
<1>11. CASE Commit(p)
  BY <1>11, CommitKeeps DEF Tombstoned
<1>12. CASE Bind(p)
  BY <1>1, <1>12, BindKeeps DEF Bind
<1>13. CASE Admit(p)
  BY <1>1, <1>13, AdmitKeeps DEF Admit
<1>14. ASSUME NEW now \in Times, Complete(p, now)
       PROVE  SourceInv' /\ \A r \in Records : Tombstoned(r) => r \notin steady
  BY <1>14, CompleteKeeps
<1>15. CASE ScanFails(p) \/ Crash(p)
  BY <1>1, <1>15, StopKeeps DEF ScanFails, Crash
<1> QED
  BY <1>2, <1>3, <1>4, <1>5, <1>6, <1>7, <1>8, <1>9, <1>10, <1>11, <1>12, <1>13,
     <1>14, <1>15 DEF ScanStep

-----------------------------------------------------------------------------
(* The invariant: the source and the scrubs *)

\* A change of the source, as it concerns the files and the tables.
LEMMA SourceChanges ==
    ASSUME TablesOK, SourceStep
    PROVE  /\ \E files, up : Change(files, up)
           /\ tree' \in [Locations -> File \cup {NoFile}]
<1>1. tree \in [Locations -> File \cup {NoFile}]
  BY DEF TablesOK
<1>2. ASSUME NEW files \in [Locations -> File \cup {NoFile}], NEW up, Change(files, up)
      PROVE  /\ \E fs, u : Change(fs, u)
             /\ tree' \in [Locations -> File \cup {NoFile}]
  <2>1. tree' = files
    BY <1>2 DEF Change
  <2> QED BY <1>2, <2>1
<1>3. ASSUME NEW x \in Locations, NEW file \in File, Write(x, file)
      PROVE  /\ \E files, up : Change(files, up)
             /\ tree' \in [Locations -> File \cup {NoFile}]
  <2>1. Change([tree EXCEPT ![x] = file], mounted)
    BY <1>3 DEF Write
  <2>2. [tree EXCEPT ![x] = file] \in [Locations -> File \cup {NoFile}]
    BY <1>1
  <2> QED BY <1>2, <2>1, <2>2
<1>4. ASSUME NEW x \in Locations, Unlink(x)
      PROVE  /\ \E files, up : Change(files, up)
             /\ tree' \in [Locations -> File \cup {NoFile}]
  <2>1. Change([tree EXCEPT ![x] = NoFile], mounted)
    BY <1>4 DEF Unlink
  <2>2. [tree EXCEPT ![x] = NoFile] \in [Locations -> File \cup {NoFile}]
    BY <1>1
  <2> QED BY <1>2, <2>1, <2>2
<1>5. ASSUME NEW x \in Locations, NEW y \in Locations, Move(x, y)
      PROVE  /\ \E files, up : Change(files, up)
             /\ tree' \in [Locations -> File \cup {NoFile}]
  <2>1. Change([tree EXCEPT ![y] = tree[x], ![x] = NoFile], mounted)
    BY <1>5 DEF Move
  <2>2. [tree EXCEPT ![y] = tree[x], ![x] = NoFile] \in [Locations -> File \cup {NoFile}]
    BY <1>1
  <2> QED BY <1>2, <2>1, <2>2
<1>6. ASSUME Mount
      PROVE  /\ \E files, up : Change(files, up)
             /\ tree' \in [Locations -> File \cup {NoFile}]
  <2>1. Change(tree, ~mounted)
    BY <1>6 DEF Mount
  <2> QED BY <1>1, <1>2, <2>1
<1> QED
  BY <1>3, <1>4, <1>5, <1>6 DEF SourceStep

LEMMA SourceKeeps ==
    ASSUME SourceInv, SourceStep
    PROVE  SourceInv' /\ UNCHANGED records
<1>1. /\ tree' \in [Locations -> File \cup {NoFile}]
      /\ \E files, up : Change(files, up)
  BY SourceChanges DEF SourceInv
<1>2. PICK files, up : Change(files, up)
  BY <1>1
<1>3. /\ tree' = files /\ mounted' = up
      /\ steady' = {r \in steady : up /\ FilesOf(files, r) = FilesOf(tree, r)}
      /\ UNCHANGED <<records, events, holder, observed, bound, seen, missing, scan>>
  BY <1>2 DEF Change
<1>4. LedgerMoves
  BY <1>3, StutterMoves DEF SourceInv
<1>5. TablesOK'
  BY <1>1, <1>3, <1>4 DEF SourceInv, TablesOK, LedgerMoves, LedgerGood
<1>6. AdmittedWasCommitted' /\ SightingCancels'
  BY <1>3 DEF SourceInv, AdmittedWasCommitted, SightingCancels
<1>7. ASSUME NEW r \in steady', NEW y \in Locations, tree[y] # NoFile, tree[y].record = r
      PROVE  tree'[y] = tree[y]
  <2>1. <<y, tree[y]>> \in FilesOf(tree, r)
    BY <1>7 DEF FilesOf
  <2>2. <<y, tree[y]>> \in FilesOf(files, r)
    BY <1>3, <2>1
  <2>3. files[y] = tree[y]
    BY <2>2 DEF FilesOf
  <2> QED BY <1>3, <2>3
<1>8. SteadyInSource'
  BY <1>3, <1>7 DEF SourceInv, SteadyInSource
<1>9. ASSUME NEW p \in Scanners
      PROVE  Knows(p, scan[p])' /\ HasCommitted(scan[p])'
  <2>1. Knows(p, scan[p]) /\ HasCommitted(scan[p])
    BY DEF SourceInv
  <2>2. ASSUME NEW r \in steady', Pending(scan[p], r) PROVE Pending(scan[p], r)'
    BY <1>3, <1>7, <2>2 DEF Pending
  <2>3. holder = p => TableAgrees(scan[p])'
    BY <1>3, <2>1 DEF Knows, TableAgrees, Settled
  <2>4. holder = p => SeesSteady(scan[p])'
    BY <1>3, <2>1, <2>2 DEF Knows, SeesSteady
  <2> QED BY <1>3, <2>1, <2>3, <2>4 DEF Knows, HasCommitted, InLedger
<1>10. ScansOK'
  BY <1>3 DEF SourceInv, ScansOK, ScanOK, Apart, Same
<1> QED
  BY <1>3, <1>4, <1>5, <1>6, <1>8, <1>9, <1>10 DEF SourceInv, LedgerMoves

\* A step that only writes the ledger.
LEMMA LedgerOnly ==
    ASSUME SourceInv, LedgerMoves, UNCHANGED <<sourceVars, tableVars, scan>>
    PROVE  SourceInv'
<1>1. UNCHANGED <<tree, holder, observed, seen, steady, scan>>
  BY DEF sourceVars, tableVars
<1>2. TablesOK' /\ AdmittedWasCommitted' /\ SightingCancels' /\ SteadyInSource'
  BY TablesStay
<1>3. ASSUME NEW p \in Scanners
      PROVE  Knows(p, scan[p])' /\ HasCommitted(scan[p])'
  <2>1. PICK x : x = scan[p]
    OBVIOUS
  <2>2. Knows(p, x) /\ HasCommitted(x)
    BY <2>1 DEF SourceInv
  <2>3. Knows(p, x)' /\ HasCommitted(x)'
    BY <1>1, <2>2, KnowsStays, HasCommittedStays
  <2> QED BY <1>1, <2>1, <2>3
<1>4. ScansOK'
  BY <1>1 DEF SourceInv, ScansOK, ScanOK, Apart, Same
<1> QED
  BY <1>2, <1>3, <1>4 DEF SourceInv, LedgerMoves

-----------------------------------------------------------------------------
(* The steps of a scrub *)

LEMMA RankType ==
    ASSUME NEW x \in Locations
    PROVE  /\ Rank[x] \in Nat /\ Rank[x] > 0
           /\ \A y \in Locations : Rank[x] = Rank[y] => x = y
BY ScrubAssumption DEF ScrubAssumption

LEMMA NoScrubOK == ScrubOK(NoScrub)
BY DEF ScrubOK, NoScrub, ScrubSteps

LEMMA ScrubsMove ==
    ASSUME ScrubsOK, NEW s \in Scrubbers,
           \E x : ScrubOK(x) /\ scrub' = [scrub EXCEPT ![s] = x]
    PROVE  ScrubsOK'
<1>1. PICK x : ScrubOK(x) /\ scrub' = [scrub EXCEPT ![s] = x]
  OBVIOUS
<1>2. DOMAIN scrub' = Scrubbers /\ scrub' = [t \in Scrubbers |-> scrub'[t]]
  BY <1>1 DEF ScrubsOK
<1>3. ASSUME NEW t \in Scrubbers
      PROVE  ScrubOK(scrub[t])'
  <2>1. PICK y : ScrubOK(y) /\ scrub'[t] = y
    BY <1>1 DEF ScrubsOK
  <2> QED BY <2>1 DEF ScrubOK
<1> QED
  BY <1>2, <1>3 DEF ScrubsOK

\* The files that are left are ahead of the scrub.
LeftAhead(x) == \A y \in unchecked : tree[y] # NoFile /\ mounted /\ Ahead(x, y)

LEMMA EnumerateScrubMoves ==
    ASSUME TablesOK, ScrubsOK, NEW s \in Scrubbers, EnumerateScrub(s)
    PROVE  \E x : /\ ScrubOK(x) /\ scrub' = [scrub EXCEPT ![s] = x]
                  /\ LeftAhead(scrub[s]) => LeftAhead(x)
<1> PICK z : z = scrub[s]
  OBVIOUS
<1>1. ScrubOK(z) /\ z.step = "enumerate"
  BY DEF ScrubsOK, EnumerateScrub, Scrubbing
<1>2. ASSUME z.todo = {}, GotoScrub(s, "visit")
      PROVE  \E x : /\ ScrubOK(x) /\ scrub' = [scrub EXCEPT ![s] = x]
                    /\ LeftAhead(z) => LeftAhead(x)
  <2> DEFINE x == [z EXCEPT !.step = "visit"]
  <2>1. scrub' = [scrub EXCEPT ![s] = x]
    BY <1>2 DEF GotoScrub, Store
  <2>2. /\ x.step = "visit" /\ x.todo = z.todo /\ x.found = z.found
        /\ x.current = z.current /\ x.bytes = z.bytes
        /\ x \in [step : ScrubSteps, todo : SUBSET Locations, found : SUBSET Found,
                  current : {x.current}, bytes : Nat]
    BY <1>1 DEF ScrubOK, ScrubSteps
  <2> HIDE DEF x
  <2>3. ScrubOK(x)
    BY <1>1, <1>2, <2>2 DEF ScrubOK
  <2>4. LeftAhead(z) => LeftAhead(x)
    BY <1>1, <1>2, <2>2 DEF LeftAhead, Ahead
  <2> QED BY <2>1, <2>3, <2>4
<1>3. ASSUME NEW y \in z.todo,
             LET file == [at |-> y, stat |-> Fingerprint(tree[y])]
             IN  Store(s, [z EXCEPT !.todo = @ \ {y},
                            !.found = IF Visible(y) THEN @ \cup {file} ELSE @])
      PROVE  \E x : /\ ScrubOK(x) /\ scrub' = [scrub EXCEPT ![s] = x]
                    /\ LeftAhead(z) => LeftAhead(x)
  <2> DEFINE file == [at |-> y, stat |-> Fingerprint(tree[y])]
             x == [z EXCEPT !.todo = @ \ {y},
                            !.found = IF Visible(y) THEN @ \cup {file} ELSE @]
  <2>1. scrub' = [scrub EXCEPT ![s] = x]
    BY <1>3 DEF Store
  <2>2. y \in Locations /\ (Visible(y) => file \in Found)
    <3>1. y \in Locations
      BY <1>1 DEF ScrubOK
    <3>2. Visible(y) => tree[y] \in File
      BY <3>1 DEF Visible, TablesOK
    <3> QED BY <3>1, <3>2, FingerprintType DEF Found
  <2>3. /\ x.step = z.step /\ x.todo = z.todo \ {y}
        /\ x.found = IF Visible(y) THEN z.found \cup {file} ELSE z.found
        /\ x.current = z.current /\ x.bytes = z.bytes
    BY <1>1 DEF ScrubOK
  <2>4. x \in [step : ScrubSteps, todo : SUBSET Locations, found : SUBSET Found,
               current : {x.current}, bytes : Nat]
    BY <1>1, <2>2, <2>3 DEF ScrubOK
  <2>5. file.at = y /\ file.stat = Fingerprint(tree[y])
    OBVIOUS
  <2> HIDE DEF x, file
  <2>6. ScrubOK(x)
    BY <1>1, <1>3, <2>3, <2>4, <2>5 DEF ScrubOK
  <2>7. ASSUME LeftAhead(z), NEW w \in unchecked PROVE Ahead(x, w)
    <3>1. CASE w = y
      BY <2>3, <2>5, <2>7, <3>1 DEF LeftAhead, Ahead, Visible
    <3>2. CASE w # y
      <4>1. Ahead(z, w)
        BY <2>7 DEF LeftAhead
      <4> QED BY <1>1, <2>3, <3>2, <4>1 DEF Ahead
    <3> QED BY <3>1, <3>2
  <2>8. LeftAhead(z) => LeftAhead(x)
    BY <2>7 DEF LeftAhead
  <2> QED BY <2>1, <2>6, <2>8
<1> QED
  BY <1>2, <1>3 DEF EnumerateScrub

\* The file that sorts first is opened; the files that are left sort after it.
LEMMA VisitMoves ==
    ASSUME TablesOK, ScrubsOK, NEW s \in Scrubbers, Visit(s)
    PROVE  \E x : /\ ScrubOK(x) /\ scrub' = [scrub EXCEPT ![s] = x]
                  /\ LeftAhead(scrub[s]) => LeftAhead(x)
<1> PICK z : z = scrub[s]
  OBVIOUS
<1>1. ScrubOK(z) /\ z.step = "visit" /\ z.todo = {}
  BY DEF ScrubsOK, Visit, Scrubbing, ScrubOK
<1>2. PICK c \in InOrder(s) :
        /\ Visible(c.at)
        /\ Store(s, [z EXCEPT
               !.found = @ \ {c},
               !.step = IF Fingerprint(tree[c.at]) = c.stat THEN "hash" ELSE "advance",
               !.current = [at |-> c.at, row |-> [stat |-> c.stat], file |-> tree[c.at]]])
  BY DEF Visit
<1>3. c \in z.found /\ \A d \in z.found : Rank[c.at] <= Rank[d.at]
  BY <1>2 DEF InOrder
<1>4. /\ c.at \in Locations /\ tree[c.at] \in File
      /\ \A d \in z.found : d.at \in Locations /\ d \in Found
  <2>1. \A d \in z.found : d \in Found
    BY <1>1 DEF ScrubOK
  <2>2. \A d \in z.found : d.at \in Locations
    BY <2>1 DEF Found
  <2> QED BY <1>2, <1>3, <2>1, <2>2 DEF Visible, TablesOK
<1> DEFINE current == [at |-> c.at, row |-> [stat |-> c.stat], file |-> tree[c.at]]
           x == [z EXCEPT
               !.found = @ \ {c},
               !.step = IF Fingerprint(tree[c.at]) = c.stat THEN "hash" ELSE "advance",
               !.current = current]
<1>5. scrub' = [scrub EXCEPT ![s] = x]
  BY <1>2 DEF Store
<1>6. current.at = c.at /\ current.row.stat = c.stat /\ current.file = tree[c.at]
  OBVIOUS
<1> HIDE DEF current
<1>7. /\ x.step = IF Fingerprint(tree[c.at]) = c.stat THEN "hash" ELSE "advance"
      /\ x.todo = z.todo /\ x.found = z.found \ {c}
      /\ x.current = current /\ x.bytes = z.bytes
      /\ x \in [step : ScrubSteps, todo : SUBSET Locations, found : SUBSET Found,
                current : {x.current}, bytes : Nat]
  BY <1>1 DEF ScrubOK, ScrubSteps
<1> HIDE DEF x
<1>8. ASSUME NEW d \in x.found PROVE Rank[d.at] > Rank[x.current.at]
  <2>1. d \in z.found /\ d # c /\ d.at # c.at
    BY <1>1, <1>3, <1>7, <1>8 DEF ScrubOK
  <2>2. /\ Rank[d.at] \in Nat /\ Rank[c.at] \in Nat
        /\ Rank[d.at] # Rank[c.at] /\ Rank[c.at] <= Rank[d.at]
    BY <1>3, <1>4, <2>1, RankType
  <2> QED BY <1>6, <1>7, <2>2
<1>9. ScrubOK(x)
  BY <1>1, <1>4, <1>6, <1>7, <1>8 DEF ScrubOK
<1>10. ASSUME LeftAhead(z), NEW y \in unchecked PROVE Ahead(x, y)
  <2>1. PICK d \in z.found : d.at = y /\ d.stat = Fingerprint(tree[y])
    BY <1>1, <1>10 DEF LeftAhead, Ahead
  <2>2. CASE d = c
    BY <1>6, <1>7, <2>1, <2>2 DEF Ahead
  <2>3. CASE d # c
    BY <1>7, <2>1, <2>3 DEF Ahead
  <2> QED BY <2>2, <2>3
<1>11. LeftAhead(z) => LeftAhead(x)
  BY <1>10 DEF LeftAhead
<1> QED
  BY <1>5, <1>9, <1>11

LEMMA HashScrubMoves ==
    ASSUME TablesOK, ScrubsOK, NEW s \in Scrubbers, HashScrub(s)
    PROVE  \E x : /\ ScrubOK(x) /\ scrub' = [scrub EXCEPT ![s] = x]
                  /\ LeftAhead(scrub[s]) => LeftAhead(x)
<1> PICK z : z = scrub[s]
  OBVIOUS
<1>1. ScrubOK(z) /\ z.step = "hash" /\ z.todo = {}
  BY DEF ScrubsOK, HashScrub, Scrubbing, ScrubOK
<1> PICK c : c = z.current
  OBVIOUS
<1>2. c.at \in Locations /\ c.file \in File /\ c.row.stat = Fingerprint(c.file)
  BY <1>1 DEF ScrubOK
<1>3. ASSUME tree[c.at] # c.file, GotoScrub(s, "advance")
      PROVE  \E x : /\ ScrubOK(x) /\ scrub' = [scrub EXCEPT ![s] = x]
                    /\ LeftAhead(z) => LeftAhead(x)
  <2> DEFINE x == [z EXCEPT !.step = "advance"]
  <2>1. scrub' = [scrub EXCEPT ![s] = x]
    BY <1>3 DEF GotoScrub, Store
  <2>2. /\ x.step = "advance" /\ x.todo = z.todo /\ x.found = z.found
        /\ x.current = c /\ x.bytes = z.bytes
        /\ x \in [step : ScrubSteps, todo : SUBSET Locations, found : SUBSET Found,
                  current : {x.current}, bytes : Nat]
    BY <1>1 DEF ScrubOK, ScrubSteps
  <2> HIDE DEF x
  <2>3. ScrubOK(x)
    BY <1>1, <2>2 DEF ScrubOK
  <2>4. LeftAhead(z) => LeftAhead(x)
    BY <1>1, <1>3, <2>2 DEF LeftAhead, Ahead
  <2> QED BY <2>1, <2>3, <2>4
<1>4. ASSUME NEW revision \in Hashed(c),
             Store(s, [z EXCEPT !.step = "observe", !.bytes = @ + Size[revision],
                    !.current = [at |-> c.at, record |-> c.file.record,
                                 revision |-> revision]])
      PROVE  \E x : /\ ScrubOK(x) /\ scrub' = [scrub EXCEPT ![s] = x]
                    /\ LeftAhead(z) => LeftAhead(x)
  <2>1. revision \in Revisions /\ c.file.record \in Records /\ Size[revision] \in Nat
    <3>1. tree[c.at] \in File \cup {NoFile}
      BY <1>2 DEF TablesOK
    <3>2. PICK f \in File : f.revision = revision
      <4>1. CASE revision = c.file.revision
        BY <1>2, <4>1
      <4>2. CASE revision # c.file.revision
        BY <1>4, <3>1, <4>2 DEF Hashed
      <4> QED BY <4>1, <4>2
    <3>3. revision \in Revisions /\ c.file.record \in Records
      BY <1>2, <3>2 DEF File
    <3> QED BY <3>3, SourceAssumption DEF SourceAssumption
  <2> DEFINE current == [at |-> c.at, record |-> c.file.record, revision |-> revision]
             x == [z EXCEPT !.step = "observe", !.bytes = @ + Size[revision],
                            !.current = current]
  <2>2. scrub' = [scrub EXCEPT ![s] = x]
    BY <1>4 DEF Store
  <2>3. current \in Accepted /\ current.at = c.at
    BY <1>2, <2>1 DEF Accepted
  <2> HIDE DEF current
  <2>4. /\ x.step = "observe" /\ x.todo = z.todo /\ x.found = z.found
        /\ x.current = current /\ x.bytes = z.bytes + Size[revision]
    BY <1>1 DEF ScrubOK
  <2>5. x \in [step : ScrubSteps, todo : SUBSET Locations, found : SUBSET Found,
               current : {x.current}, bytes : Nat]
    <3>1. z.bytes \in Nat /\ z.bytes + Size[revision] \in Nat
      BY <1>1, <2>1 DEF ScrubOK
    <3>2. PICK b \in Nat : b = z.bytes + Size[revision]
      BY <3>1
    <3>3. x = [z EXCEPT !.step = "observe", !.bytes = b, !.current = current]
      BY <3>2
    <3> QED BY <1>1, <2>4, <3>2, <3>3 DEF ScrubOK, ScrubSteps
  <2> HIDE DEF x
  <2>6. ScrubOK(x)
    BY <1>1, <2>3, <2>4, <2>5 DEF ScrubOK
  <2>7. LeftAhead(z) => LeftAhead(x)
    BY <1>1, <2>3, <2>4 DEF LeftAhead, Ahead
  <2> QED BY <2>2, <2>6, <2>7
<1>5. \/ tree[c.at] # c.file /\ GotoScrub(s, "advance")
      \/ \E revision \in Hashed(c) :
             Store(s, [z EXCEPT !.step = "observe", !.bytes = @ + Size[revision],
                    !.current = [at |-> c.at, record |-> c.file.record,
                                 revision |-> revision]])
  BY DEF HashScrub
<1> QED
  BY <1>3, <1>4, <1>5

LEMMA GotoScrubMoves ==
    ASSUME ScrubsOK, NEW s \in Scrubbers, NEW step \in {"advance", "complete"},
           GotoScrub(s, step),
           step = "advance" => scrub[s].step = "observe",
           step = "complete" => scrub[s].step = "visit" /\ scrub[s].found = {}
    PROVE  \E x : /\ ScrubOK(x) /\ scrub' = [scrub EXCEPT ![s] = x]
                  /\ x.todo = {} /\ x.found = scrub[s].found
                  /\ x.current = scrub[s].current
                  /\ x.step = step
<1> PICK z : z = scrub[s]
  OBVIOUS
<1>1. ScrubOK(z) /\ z.todo = {}
  BY DEF ScrubsOK, ScrubOK
<1> DEFINE x == [z EXCEPT !.step = step]
<1>2. scrub' = [scrub EXCEPT ![s] = x]
  BY DEF GotoScrub, Store
<1>3. /\ x.step = step /\ x.todo = z.todo /\ x.found = z.found
      /\ x.current = z.current /\ x.bytes = z.bytes
      /\ x \in [step : ScrubSteps, todo : SUBSET Locations, found : SUBSET Found,
                current : {x.current}, bytes : Nat]
  BY <1>1 DEF ScrubOK, ScrubSteps
<1> HIDE DEF x
<1>4. ScrubOK(x)
  BY <1>1, <1>3 DEF ScrubOK, Accepted
<1> QED
  BY <1>1, <1>2, <1>3, <1>4

\* An observation by a scrub writes the ledger as one by a scan does.
LEMMA ObserveScrubMoves ==
    ASSUME LedgerGood, ScrubsOK, NEW s \in Scrubbers, ObserveScrub(s)
    PROVE  /\ LedgerMoves
           /\ \A r \in Records : ~Tombstoned(r)
           /\ \E x : /\ ScrubOK(x) /\ scrub' = [scrub EXCEPT ![s] = x]
                     /\ LeftAhead(scrub[s]) =>
                            \A y \in unchecked' : Ahead(x, y)
<1> PICK c : c = scrub[s].current
  OBVIOUS
<1>1. /\ scrub[s].step = "observe" /\ GotoScrub(s, "advance")
      /\ IF records[c.record].state = "absent" \/ c.record \notin bound
         THEN UNCHANGED <<records, events>>
         ELSE ObservePresent(c.record, c.at, c.revision)
      /\ unchecked' = unchecked \ {c.at}
  BY DEF ObserveScrub, Scrubbing
<1>2. c \in Accepted /\ c.record \in Records /\ c.at \in Locations
      /\ c.revision \in Revisions
  <2>1. c \in Accepted
    BY <1>1 DEF ScrubsOK, ScrubOK
  <2> QED BY <2>1 DEF Accepted
<1>3. LedgerMoves /\ \A r \in Records : ~Tombstoned(r)
  <2>1. CASE UNCHANGED <<records, events>>
    BY <2>1, StutterMoves DEF Tombstoned
  <2>2. CASE ObservePresent(c.record, c.at, c.revision)
    <3>1. /\ LedgerMoves /\ records'[c.record].state = "active"
          /\ \A q \in Records : q # c.record => records'[q] = records[q]
      BY <1>2, <2>2, ObserveMoves
    <3> QED BY <3>1 DEF Tombstoned
  <2> QED BY <1>1, <2>1, <2>2
<1>4. PICK x : /\ ScrubOK(x) /\ scrub' = [scrub EXCEPT ![s] = x]
               /\ x.todo = {} /\ x.found = scrub[s].found
               /\ x.current = scrub[s].current
               /\ x.step = "advance"
  BY <1>1, GotoScrubMoves
<1>5. scrub[s].todo = {}
  BY <1>1 DEF ScrubsOK, ScrubOK
<1>6. LeftAhead(scrub[s]) => \A y \in unchecked' : Ahead(x, y)
  BY <1>1, <1>4, <1>5 DEF LeftAhead, Ahead
<1> QED
  BY <1>3, <1>4, <1>6

LEMMA BeginScrubMoves ==
    ASSUME ScrubsOK, NEW s \in Scrubbers, BeginScrub(s)
    PROVE  \E x : /\ ScrubOK(x) /\ scrub' = [scrub EXCEPT ![s] = x]
                  /\ x.todo = {y \in Locations : Rank[y] > cursor}
<1> DEFINE x == [NoScrub EXCEPT !.step = "enumerate",
                   !.todo = {y \in Locations : Rank[y] > cursor}]
<1>1. scrub' = [scrub EXCEPT ![s] = x]
  BY DEF BeginScrub, Store
<1>2. /\ x.step = "enumerate" /\ x.found = {}
      /\ x.todo = {y \in Locations : Rank[y] > cursor}
      /\ x \in [step : ScrubSteps, todo : SUBSET Locations, found : SUBSET Found,
                current : {x.current}, bytes : Nat]
  BY DEF NoScrub, ScrubSteps
<1> HIDE DEF x
<1>3. ScrubOK(x)
  BY <1>2 DEF ScrubOK
<1> QED
  BY <1>1, <1>2, <1>3

LEMMA AdvanceMoves ==
    ASSUME ScrubsOK, NEW s \in Scrubbers, Advance(s)
    PROVE  \E x : /\ ScrubOK(x) /\ scrub' = [scrub EXCEPT ![s] = x]
                  /\ scrub[s].current.at \in Locations
                  /\ LeftAhead(scrub[s]) =>
                        \A y \in unchecked :
                            Ahead(x, y) /\ Rank[y] > Rank[scrub[s].current.at]
<1> PICK z : z = scrub[s]
  OBVIOUS
<1>1. ScrubOK(z) /\ z.step = "advance" /\ z.todo = {} /\ z.current.at \in Locations
  BY DEF ScrubsOK, ScrubOK, Advance, Scrubbing
<1> DEFINE x == [z EXCEPT !.step = "visit", !.current = NoFile]
<1>2. scrub' = [scrub EXCEPT ![s] = x]
  BY DEF Advance, Store
<1>3. /\ x.step = "visit" /\ x.todo = z.todo /\ x.found = z.found
      /\ x.current = NoFile /\ x.bytes = z.bytes
      /\ x \in [step : ScrubSteps, todo : SUBSET Locations, found : SUBSET Found,
                current : {x.current}, bytes : Nat]
  BY <1>1 DEF ScrubOK, ScrubSteps
<1> HIDE DEF x
<1>4. ScrubOK(x)
  BY <1>1, <1>3 DEF ScrubOK
<1>5. ASSUME LeftAhead(z), NEW y \in unchecked
      PROVE  Ahead(x, y) /\ Rank[y] > Rank[z.current.at]
  <2>1. PICK d \in z.found : d.at = y /\ d.stat = Fingerprint(tree[y])
    BY <1>1, <1>5 DEF LeftAhead, Ahead
  <2> QED BY <1>1, <1>3, <2>1 DEF Ahead, ScrubOK
<1> QED
  BY <1>1, <1>2, <1>4, <1>5

\* What a step of a scrub does: it moves the scrub, and it leaves the scans, the
\* source and the tables alone.
LEMMA ScrubberKeeps ==
    ASSUME SourceInv, ScrubsOK, NEW s \in Scrubbers, ScrubStep(s) \/ CrashScrub(s)
    PROVE  SourceInv' /\ ScrubsOK' /\ \A r \in Records : ~Tombstoned(r)
<1>1. TablesOK /\ LedgerGood
  BY DEF SourceInv
<1>2. ASSUME UNCHANGED allVars, \E x : ScrubOK(x) /\ scrub' = [scrub EXCEPT ![s] = x]
      PROVE  SourceInv' /\ ScrubsOK' /\ \A r \in Records : ~Tombstoned(r)
  <2>1. UNCHANGED <<records, events>> /\ UNCHANGED <<sourceVars, tableVars, scan>>
    BY <1>2 DEF allVars
  <2>2. LedgerMoves
    BY <1>1, <2>1, StutterMoves
  <2> QED BY <1>2, <2>1, <2>2, LedgerOnly, ScrubsMove DEF Tombstoned
<1>3. CASE BeginScrub(s)
  BY <1>2, <1>3, BeginScrubMoves DEF BeginScrub
<1>4. CASE EnumerateScrub(s)
  BY <1>1, <1>2, <1>4, EnumerateScrubMoves DEF EnumerateScrub
<1>5. CASE Visit(s)
  BY <1>1, <1>2, <1>5, VisitMoves DEF Visit
<1>6. CASE HashScrub(s)
  BY <1>1, <1>2, <1>6, HashScrubMoves DEF HashScrub
<1>7. CASE ObserveScrub(s)
  <2>1. UNCHANGED <<sourceVars, tableVars, scan>>
    BY <1>7 DEF ObserveScrub
  <2> QED BY <1>1, <1>7, <2>1, ObserveScrubMoves, LedgerOnly, ScrubsMove
<1>8. CASE Advance(s)
  BY <1>2, <1>8, AdvanceMoves DEF Advance
<1>9. CASE LastOfCycle(s)
  <2>1. \E x : ScrubOK(x) /\ scrub' = [scrub EXCEPT ![s] = x]
    BY <1>9, GotoScrubMoves DEF LastOfCycle, Scrubbing
  <2> QED BY <1>2, <1>9, <2>1 DEF LastOfCycle
<1>10. CASE EndScrub(s) \/ CompleteCycle(s) \/ ScrubFails(s) \/ CrashScrub(s)
  <2>1. /\ UNCHANGED allVars
        /\ scrub' = [scrub EXCEPT ![s] = NoScrub]
    BY <1>10 DEF EndScrub, CompleteCycle, ScrubFails, CrashScrub, Store
  <2> QED BY <1>2, <2>1, NoScrubOK
<1> QED
  BY <1>3, <1>4, <1>5, <1>6, <1>7, <1>8, <1>9, <1>10 DEF ScrubStep

-----------------------------------------------------------------------------
(* Theorems *)

ReconcileInv == SourceInv /\ ScrubsOK

LEMMA ReconcileStep ==
    ASSUME ReconcileInv, [ScrubNext]_scrubVars
    PROVE  ReconcileInv' /\ \A r \in Records : Tombstoned(r) => r \notin steady
<1>1. SourceInv /\ ScrubsOK
  BY DEF ReconcileInv
<1>2. ASSUME UNCHANGED scrub PROVE ScrubsOK'
  BY <1>1, <1>2 DEF ScrubsOK, ScrubOK
<1>3. ASSUME NEW p \in Scanners, ScanStep(p) \/ Crash(p), UNCHANGED scrub
      PROVE  ReconcileInv' /\ \A r \in Records : Tombstoned(r) => r \notin steady
  BY <1>1, <1>2, <1>3, ScannerKeeps DEF ReconcileInv
<1>4. ASSUME NEW s \in Scrubbers, ScrubStep(s) \/ CrashScrub(s)
      PROVE  ReconcileInv' /\ \A r \in Records : Tombstoned(r) => r \notin steady
  BY <1>1, <1>4, ScrubberKeeps DEF ReconcileInv
<1>5. ASSUME ChangeUnderScrub
      PROVE  ReconcileInv' /\ \A r \in Records : Tombstoned(r) => r \notin steady
  <2>1. SourceStep /\ UNCHANGED scrub
    BY <1>5 DEF ChangeUnderScrub
  <2>2. SourceInv' /\ UNCHANGED records
    BY <1>1, <2>1, SourceKeeps
  <2> QED BY <1>2, <2>1, <2>2 DEF ReconcileInv, Tombstoned
<1>6. ASSUME UNCHANGED scrubVars
      PROVE  ReconcileInv' /\ \A r \in Records : Tombstoned(r) => r \notin steady
  <2>1. /\ UNCHANGED <<records, events>> /\ UNCHANGED <<sourceVars, tableVars, scan>>
        /\ UNCHANGED scrub
    BY <1>6 DEF scrubVars, allVars
  <2>2. LedgerMoves
    BY <1>1, <2>1, StutterMoves DEF SourceInv
  <2> QED BY <1>1, <1>2, <2>1, <2>2, LedgerOnly DEF ReconcileInv, Tombstoned
<1> QED
  BY <1>3, <1>4, <1>5, <1>6 DEF ScrubNext

LEMMA ReconcileInit == ScrubInit => ReconcileInv
<1> SUFFICES ASSUME ScrubInit PROVE ReconcileInv
  OBVIOUS
<1>1. /\ LedgerInit
      /\ tree \in [Locations -> File \cup {NoFile}]
      /\ holder = Nobody /\ bound = {} /\ seen = {} /\ steady = {}
      /\ observed = [x \in Locations |-> NoRow]
      /\ missing = [r \in Records |-> NotMissing]
      /\ scan = [p \in Scanners |-> NoScan]
      /\ scrub = [s \in Scrubbers |-> NoScrub]
  BY DEF ScrubInit, SourceInit
<1>2. LedgerGood
  BY <1>1, LedgerInitGood
<1>3. TablesOK
  <2>1. NotMissing \in [first : Nat, scans : 0..MinScans]
    BY SourceAssumption DEF SourceAssumption, NotMissing
  <2> QED BY <1>1, <1>2, <2>1, FS_EmptySet DEF TablesOK, LedgerGood
<1>4. AdmittedWasCommitted /\ SightingCancels /\ SteadyInSource
  BY <1>1 DEF AdmittedWasCommitted, SightingCancels, SteadyInSource, NotMissing
<1>5. ScansOK
  BY <1>1, NoScanOK DEF ScansOK
<1>6. \A p \in Scanners : Knows(p, scan[p]) /\ HasCommitted(scan[p])
  BY <1>1, IdleKnows
<1>7. ScrubsOK
  BY <1>1, NoScrubOK DEF ScrubsOK
<1> QED
  BY <1>2, <1>3, <1>4, <1>5, <1>6, <1>7 DEF ReconcileInv, SourceInv

LEMMA ReconcileInvariant == ScrubSpec => []ReconcileInv
<1>1. ReconcileInv /\ [ScrubNext]_scrubVars => ReconcileInv'
  BY ReconcileStep
<1> QED
  BY <1>1, ReconcileInit, PTL DEF ScrubSpec

\* Whatever the scanners, the scrubbers and the source do, the rows have their
\* types, a fingerprint is admitted only when it is stable, and only known
\* records are bound to the source.
THEOREM ReconcileTypeCorrect == ScrubSpec => []SourceTypeOK
<1>1. ReconcileInv => SourceTypeOK
  <2> SUFFICES ASSUME ReconcileInv PROVE SourceTypeOK
    OBVIOUS
  <2>1. \A p \in Scanners : At(p, "idle") <=> scan[p] = NoScan
    BY DEF ReconcileInv, SourceInv, ScansOK, ScanOK, At
  <2> QED BY <2>1 DEF ReconcileInv, SourceInv, TablesOK, LedgerInv, SourceTypeOK
<1> QED
  BY <1>1, ReconcileInvariant, PTL

\* What is recorded as stable, and not hashed again, was committed at its
\* location, wherever a scan crashed or was overtaken by another one.
THEOREM StableWasCommitted == ScrubSpec => []AdmittedWasCommitted
<1>1. ReconcileInv => AdmittedWasCommitted
  BY DEF ReconcileInv, SourceInv
<1> QED
  BY <1>1, ReconcileInvariant, PTL

\* A record whose tombstone candidate counts was not seen by the newest scan.
THEOREM SeenIsNoCandidate == ScrubSpec => []SightingCancels
<1>1. ReconcileInv => SightingCancels
  BY DEF ReconcileInv, SourceInv
<1> QED
  BY <1>1, ReconcileInvariant, PTL

\* Scans that tombstone many records in one transaction, in any order, and that
\* overlap with others and with scrubs, write legal chains of events.
THEOREM ScansChainEvents == ScrubSpec => []EventChain
<1>1. ReconcileInv => EventChain
  BY DEF ReconcileInv, SourceInv, LedgerGood
<1> QED
  BY <1>1, ReconcileInvariant, PTL

\* The ledger that scans and scrubs write replays to the rows.
THEOREM ScansReplay == ScrubSpec => []LedgerReplays
<1>1. ReconcileInv => LedgerReplays
  BY DEF ReconcileInv, SourceInv, LedgerGood
<1> QED
  BY <1>1, ReconcileInvariant, PTL

\* No scan tombstones a record whose file stayed where it is, unchanged, since
\* the record was last marked as seen.
THEOREM SteadyIsKept == ScrubSpec => SteadyFileSurvives
<1> DEFINE Survives == \A r \in Records : Tombstoned(r) => r \notin steady
<1>1. ReconcileInv /\ [ScrubNext]_scrubVars => [Survives]_allVars
  <2> SUFFICES ASSUME ReconcileInv, [ScrubNext]_scrubVars PROVE Survives
    OBVIOUS
  <2> QED BY ReconcileStep
<1> HIDE DEF Survives
<1>2. ScrubSpec => [][Survives]_allVars
  BY <1>1, ReconcileInvariant, PTL DEF ScrubSpec
<1> QED
  BY <1>2 DEF SteadyFileSurvives, Survives

-----------------------------------------------------------------------------
(* The cycle of one scrubber *)

\* One process at a time scrubs a source: nothing compares the cursor with the
\* one an invocation started from.
OneScrubber == \A s, t \in Scrubbers : s = t

LEMMA ScanLeavesSource ==
    ASSUME NEW p \in Scanners, ScanStep(p) \/ Crash(p)
    PROVE  UNCHANGED <<tree, mounted>>
<1>1. ScanStep(p) \/ Crash(p) => UNCHANGED sourceVars
  BY DEF ScanStep, Crash, Begin, Enumerate, Parse, AllParsed, ObserveFingerprint, Mark,
         Postpone, AlreadyStable, Open, Hash, VerifyAgain, Accept, Commit, Bind, Admit,
         Complete, ScanFails
<1> QED
  BY <1>1 DEF sourceVars

LEMMA CycleScrub ==
    ASSUME OneScrubber, ReconcileInv, CycleInv, NEW s \in Scrubbers,
           ScrubStep(s) \/ CrashScrub(s)
    PROVE  CycleInv'
<1>1. /\ TablesOK /\ ScrubsOK /\ LedgerGood /\ ScrubOK(scrub[s])
      /\ \A t \in Scrubbers : t = s
      /\ cursor \in Nat /\ LeftAhead(scrub[s])
      /\ \A y \in unchecked : y \in Locations /\ Rank[y] > cursor
  BY DEF OneScrubber, ReconcileInv, SourceInv, ScrubsOK, CycleInv, LeftAhead
<1>2. UNCHANGED <<tree, mounted>>
  BY DEF ScrubStep, CrashScrub, BeginScrub, EnumerateScrub, Visit, HashScrub, ObserveScrub,
         Advance, EndScrub, LastOfCycle, CompleteCycle, ScrubFails, allVars, sourceVars
<1>3. ASSUME NEW x, scrub' = [scrub EXCEPT ![s] = x], \A y \in unchecked' : Ahead(x, y)
      PROVE  \A t \in Scrubbers : \A y \in unchecked' : Ahead(scrub[t], y)'
  <2>1. \A t \in Scrubbers : scrub'[t] = x
    BY <1>1, <1>3 DEF ScrubsOK
  <2> QED BY <1>2, <1>3, <2>1 DEF Ahead
<1>4. ASSUME NEW x, scrub' = [scrub EXCEPT ![s] = x], \A y \in unchecked' : Ahead(x, y),
             unchecked' \subseteq unchecked, UNCHANGED cursor
      PROVE  CycleInv'
  BY <1>1, <1>2, <1>3, <1>4 DEF CycleInv
<1>5. ASSUME NEW x, scrub' = [scrub EXCEPT ![s] = x], LeftAhead(x),
             UNCHANGED <<unchecked, cursor>>
      PROVE  CycleInv'
  BY <1>4, <1>5 DEF LeftAhead
<1>6. CASE BeginScrub(s)
  <2>1. PICK x : /\ scrub' = [scrub EXCEPT ![s] = x]
                 /\ x.todo = {y \in Locations : Rank[y] > cursor}
    BY <1>1, <1>6, BeginScrubMoves
  <2>2. /\ mounted /\ UNCHANGED cursor
        /\ unchecked' = IF cursor = 0 THEN {y \in Locations : tree[y] # NoFile}
                        ELSE unchecked
    BY <1>6 DEF BeginScrub
  <2>3. ASSUME NEW y \in unchecked'
        PROVE  y \in Locations /\ tree[y] # NoFile /\ Rank[y] > cursor
    BY <1>1, <2>2, <2>3, RankType DEF LeftAhead
  <2>4. \A y \in unchecked' : Ahead(x, y)
    BY <2>1, <2>3 DEF Ahead
  <2>5. \A t \in Scrubbers : \A y \in unchecked' : Ahead(scrub[t], y)'
    BY <1>3, <2>1, <2>4
  <2> QED BY <1>1, <1>2, <2>2, <2>3, <2>5 DEF CycleInv
<1>7. CASE EnumerateScrub(s)
  BY <1>1, <1>5, <1>7, EnumerateScrubMoves DEF EnumerateScrub
<1>8. CASE Visit(s)
  BY <1>1, <1>5, <1>8, VisitMoves DEF Visit
<1>9. CASE HashScrub(s)
  BY <1>1, <1>5, <1>9, HashScrubMoves DEF HashScrub
<1>10. CASE ObserveScrub(s)
  <2>1. unchecked' \subseteq unchecked /\ UNCHANGED cursor
    BY <1>10 DEF ObserveScrub
  <2> QED BY <1>1, <1>4, <1>10, <2>1, ObserveScrubMoves
<1>11. CASE Advance(s)
  <2>1. PICK x : /\ scrub' = [scrub EXCEPT ![s] = x]
                 /\ scrub[s].current.at \in Locations
                 /\ \A y \in unchecked :
                        Ahead(x, y) /\ Rank[y] > Rank[scrub[s].current.at]
    BY <1>1, <1>11, AdvanceMoves
  <2>2. cursor' = Rank[scrub[s].current.at] /\ UNCHANGED unchecked
    BY <1>11 DEF Advance
  <2>3. \A t \in Scrubbers : \A y \in unchecked' : Ahead(scrub[t], y)'
    BY <1>3, <2>1, <2>2
  <2>4. cursor' \in Nat /\ \A y \in unchecked' : Rank[y] > cursor'
    BY <2>1, <2>2, RankType
  <2>5. \A y \in unchecked' : y \in Locations /\ mounted' /\ tree'[y] # NoFile
    BY <1>1, <1>2, <2>2 DEF LeftAhead
  <2> QED BY <2>3, <2>4, <2>5 DEF CycleInv
<1>12. CASE LastOfCycle(s)
  <2>1. PICK x : /\ scrub' = [scrub EXCEPT ![s] = x] /\ x.todo = {} /\ x.found = {}
    BY <1>1, <1>12, GotoScrubMoves DEF LastOfCycle, Scrubbing
  <2>2. unchecked = {}
    <3>1. scrub[s].todo = {} /\ scrub[s].found = {} /\ scrub[s].step = "visit"
      BY <1>1, <1>12 DEF LastOfCycle, Scrubbing, ScrubOK
    <3> QED BY <1>1, <3>1 DEF LeftAhead, Ahead
  <2>3. UNCHANGED <<unchecked, cursor>>
    BY <1>12 DEF LastOfCycle
  <2> QED BY <1>5, <2>1, <2>2, <2>3 DEF LeftAhead
<1>13. CASE EndScrub(s) \/ ScrubFails(s) \/ CrashScrub(s)
  <2>1. scrub' = [scrub EXCEPT ![s] = NoScrub] /\ UNCHANGED <<unchecked, cursor>>
    BY <1>13 DEF EndScrub, ScrubFails, CrashScrub, Store
  <2>2. LeftAhead(NoScrub)
    BY <1>1 DEF LeftAhead, Ahead, NoScrub
  <2> QED BY <1>5, <2>1, <2>2
<1>14. CASE CompleteCycle(s)
  <2>1. /\ scrub' = [scrub EXCEPT ![s] = NoScrub] /\ UNCHANGED unchecked
        /\ cursor' = 0
    BY <1>14 DEF CompleteCycle, Store
  <2>2. \A y \in unchecked : Ahead(NoScrub, y)
    BY DEF Ahead, NoScrub
  <2>3. \A t \in Scrubbers : \A y \in unchecked' : Ahead(scrub[t], y)'
    BY <1>3, <2>1, <2>2
  <2>4. \A y \in unchecked' : y \in Locations /\ mounted' /\ tree'[y] # NoFile
    BY <1>1, <1>2, <2>1 DEF LeftAhead
  <2> QED BY <2>1, <2>3, <2>4, RankType DEF CycleInv
<1> QED
  BY <1>6, <1>7, <1>8, <1>9, <1>10, <1>11, <1>12, <1>13, <1>14 DEF ScrubStep

LEMMA CycleStep ==
    ASSUME OneScrubber, ReconcileInv, CycleInv, [ScrubNext]_scrubVars
    PROVE  CycleInv'
<1>1. ASSUME UNCHANGED <<tree, mounted, cursor, scrub, unchecked>>
      PROVE  CycleInv'
  BY <1>1 DEF CycleInv, Ahead
<1>2. ASSUME NEW p \in Scanners, ScanStep(p) \/ Crash(p),
             UNCHANGED <<cursor, scrub, unchecked>>
      PROVE  CycleInv'
  BY <1>1, <1>2, ScanLeavesSource
<1>3. ASSUME ChangeUnderScrub PROVE CycleInv'
  <2>1. /\ unchecked' = {x \in unchecked : mounted /\ mounted' /\ tree'[x] = tree[x]}
        /\ UNCHANGED <<cursor, scrub>>
    BY <1>3 DEF ChangeUnderScrub
  <2> QED BY <2>1 DEF CycleInv, Ahead
<1>4. CASE UNCHANGED scrubVars
  BY <1>1, <1>4 DEF scrubVars, allVars, sourceVars
<1> QED
  BY <1>2, <1>3, <1>4, CycleScrub DEF ScrubNext

\* Under one scrubber: a completed cycle has hashed every file that stayed as it
\* is since the cycle began, however its invocations were cut short.
THEOREM CyclesAreComplete == OneScrubber /\ ScrubSpec => CycleCoversAll
<1> SUFFICES ASSUME OneScrubber PROVE ScrubSpec => CycleCoversAll
  OBVIOUS
<1> DEFINE Covers == \A s \in Scrubbers : CompleteCycle(s) => unchecked = {}
<1>1. ScrubInit => CycleInv
  BY DEF ScrubInit, CycleInv
<1>2. ReconcileInv /\ CycleInv /\ [ScrubNext]_scrubVars => CycleInv'
  BY CycleStep
<1>3. ReconcileInv /\ CycleInv => [Covers]_scrubVars
  <2> SUFFICES ASSUME ReconcileInv, CycleInv, NEW s \in Scrubbers, CompleteCycle(s)
               PROVE  unchecked = {}
    OBVIOUS
  <2>1. /\ scrub[s].step = "complete" /\ scrub[s].todo = {} /\ scrub[s].found = {}
    BY DEF CompleteCycle, Scrubbing, ReconcileInv, ScrubsOK, ScrubOK
  <2> QED BY <2>1 DEF CycleInv, Ahead
<1> HIDE DEF Covers
<1>4. ScrubSpec => [][Covers]_scrubVars
  BY <1>1, <1>2, <1>3, ReconcileInvariant, PTL DEF ScrubSpec
<1> QED
  BY <1>4 DEF CycleCoversAll, Covers
=============================================================================
