---------------------------- MODULE CacheProofs ----------------------------
(***************************************************************************)
(* Proofs about MaterializationCache.  CacheInv is the inductive           *)
(* invariant; each of its parts has a lemma that every step preserves it,  *)
(* with one step per action.                                               *)
(***************************************************************************)
EXTENDS MaterializationCache, FiniteSetTheorems, FunctionTheorems, TLAPS

\* The invariant with what it needs to be inductive: a cache that is not ready
\* has counted nothing;
LockInv ==
    /\ ~ready => kept = {}
    /\ owner # Nobody /\ ~ready => entries = 0
    /\ ready => entries <= MaxEntries
    /\ IsFiniteSet(kept)

\* only leases outlive their cache;
OldInv == \A t \in Threads : job[t].old => job[t].step \in {"held", "aliased", "removed"}

\* what is kept has a file, under a nonce of its own;
KeptInv ==
    \A k \in kept :
        /\ \E f \in files : f.nonce = k.nonce
        /\ \A t \in Threads : job[t].nonce # k.nonce

\* and the files of a thread follow its step.
FileInv ==
    \A t \in Threads :
        /\ job[t].step \in {"published", "held", "aliased", "removed"} =>
               Named("partial", job[t].nonce) = {}
        /\ At(t, "copied") =>
               Named("partial", job[t].nonce) =
                   {[kind |-> "partial", nonce |-> job[t].nonce, bytes |-> job[t].want]}
        /\ job[t].step \in {"published", "held", "aliased"} /\ ~job[t].old =>
               [kind |-> "payload", nonce |-> job[t].nonce, bytes |-> job[t].want] \in files
        /\ At(t, "removed") => Named("payload", job[t].nonce) = {}
        /\ At(t, "failed") => FilesOf(job[t].nonce) = {} \/ job[t].nonce \in abandoned

LEMMA TypeStep ==
    ASSUME CacheTypeOK, [CacheNext]_cacheVars
    PROVE  CacheTypeOK'
<1>1. ASSUME NEW p \in Processes, AcquireLock(p) PROVE CacheTypeOK'
  <2>1. job' \in [Threads -> Jobs]
    BY <1>1, SMTT(20) DEF AcquireLock, CacheTypeOK, Jobs, Steps, NoJob, At
  <2>2. /\ owner' \in Processes \cup {Nobody}
        /\ ready' \in BOOLEAN
        /\ ready' => owner' # Nobody
    BY <1>1 DEF AcquireLock, CacheTypeOK
  <2>3. /\ entries' \in Nat /\ bytes' \in Nat /\ files' \subseteq Files
        /\ kept' \subseteq [nonce : Nonces, bytes : Nat]
        /\ abandoned' \subseteq Nonces /\ source' \in Revisions
    BY <1>1, CacheAssumption, SMTT(20) DEF AcquireLock, CacheTypeOK, Jobs, At, Minus, Files, Kinds, Named
  <2>4. \A u \in Reserving' : ready' /\ Home[u] = owner'
    BY <1>1, CacheAssumption, SMTT(20) DEF AcquireLock, CacheTypeOK, Jobs, Reserving, At, Goto, NoJob, Making
  <2>5. \A u \in Threads : (job'[u].step = "idle") <=> job'[u].nonce = 0
    BY <1>1, CacheAssumption, SMTT(20) DEF AcquireLock, CacheTypeOK, Jobs, At, Goto, NoJob, Fresh
  <2>7. \A u \in Threads : (job'[u].step = "idle") <=> job'[u].want = Torn
    BY <1>1, CacheAssumption, SMTT(20) DEF AcquireLock, CacheTypeOK, Jobs, At, Goto, NoJob, Fresh
  <2>6. \A u, v \in Threads : job'[u].nonce = job'[v].nonce => u = v \/ job'[u].step = "idle"
    BY <1>1, <2>5, CacheAssumption, SMTT(20) DEF AcquireLock, CacheTypeOK, Jobs, At, Goto, NoJob, Fresh
  <2> QED BY <2>1, <2>2, <2>3, <2>4, <2>5, <2>6, <2>7
    DEF CacheTypeOK, At
<1>2. ASSUME NEW p \in Processes, DropCache(p) PROVE CacheTypeOK'
  <2>1. job' \in [Threads -> Jobs]
    <3>1. \A u \in Threads : [job[u] EXCEPT !.old = TRUE] \in Jobs
      BY DEF CacheTypeOK, Jobs
    <3> QED BY <1>2, <3>1 DEF DropCache, CacheTypeOK
  <2>2. /\ owner' \in Processes \cup {Nobody}
        /\ ready' \in BOOLEAN
        /\ ready' => owner' # Nobody
    BY <1>2 DEF DropCache, CacheTypeOK
  <2>3. /\ entries' \in Nat /\ bytes' \in Nat /\ files' \subseteq Files
        /\ kept' \subseteq [nonce : Nonces, bytes : Nat]
        /\ abandoned' \subseteq Nonces /\ source' \in Revisions
    BY <1>2, CacheAssumption, SMTT(20) DEF DropCache, CacheTypeOK, Jobs, At, Minus, Files, Kinds, Named
  <2>4. \A u \in Reserving' : ready' /\ Home[u] = owner'
    BY <1>2, CacheAssumption, SMTT(20) DEF DropCache, CacheTypeOK, Jobs, Reserving, At, Goto, NoJob, Making
  <2>5. \A u \in Threads : (job'[u].step = "idle") <=> job'[u].nonce = 0
    BY <1>2, CacheAssumption, SMTT(20) DEF DropCache, CacheTypeOK, Jobs, At, Goto, NoJob, Fresh
  <2>7. \A u \in Threads : (job'[u].step = "idle") <=> job'[u].want = Torn
    BY <1>2, CacheAssumption, SMTT(20) DEF DropCache, CacheTypeOK, Jobs, At, Goto, NoJob, Fresh
  <2>6. \A u, v \in Threads : job'[u].nonce = job'[v].nonce => u = v \/ job'[u].step = "idle"
    BY <1>2, <2>5, CacheAssumption, SMTT(20) DEF DropCache, CacheTypeOK, Jobs, At, Goto, NoJob, Fresh
  <2> QED BY <2>1, <2>2, <2>3, <2>4, <2>5, <2>6, <2>7
    DEF CacheTypeOK, At
<1>3. ASSUME NEW p \in Processes, Crash(p) PROVE CacheTypeOK'
  <2>1. job' \in [Threads -> Jobs]
    <3>1. NoJob \in Jobs
      BY DEF NoJob, Jobs, Steps
    <3> QED BY <1>3, <3>1 DEF Crash, CacheTypeOK
  <2>2. /\ owner' \in Processes \cup {Nobody}
        /\ ready' \in BOOLEAN
        /\ ready' => owner' # Nobody
    BY <1>3 DEF Crash, CacheTypeOK
  <2>3. /\ entries' \in Nat /\ bytes' \in Nat /\ files' \subseteq Files
        /\ kept' \subseteq [nonce : Nonces, bytes : Nat]
        /\ abandoned' \subseteq Nonces /\ source' \in Revisions
    BY <1>3, CacheAssumption, SMTT(20) DEF Crash, CacheTypeOK, Jobs, At, Minus, Files, Kinds, Named
  <2>4. \A u \in Reserving' : ready' /\ Home[u] = owner'
    BY <1>3, CacheAssumption, SMTT(20) DEF Crash, CacheTypeOK, Jobs, Reserving, At, Goto, NoJob, Making
  <2>5. \A u \in Threads : (job'[u].step = "idle") <=> job'[u].nonce = 0
    BY <1>3, CacheAssumption, SMTT(20) DEF Crash, CacheTypeOK, Jobs, At, Goto, NoJob, Fresh
  <2>7. \A u \in Threads : (job'[u].step = "idle") <=> job'[u].want = Torn
    BY <1>3, CacheAssumption, SMTT(20) DEF Crash, CacheTypeOK, Jobs, At, Goto, NoJob, Fresh
  <2>6. \A u, v \in Threads : job'[u].nonce = job'[v].nonce => u = v \/ job'[u].step = "idle"
    BY <1>3, <2>5, CacheAssumption, SMTT(20) DEF Crash, CacheTypeOK, Jobs, At, Goto, NoJob, Fresh
  <2> QED BY <2>1, <2>2, <2>3, <2>4, <2>5, <2>6, <2>7
    DEF CacheTypeOK, At
<1>4. ASSUME Reclaim PROVE CacheTypeOK'
  BY <1>4 DEF Reclaim, CacheTypeOK, Files, Kinds, Jobs, Steps, Reserving, At,
     OwnedName
<1>5. ASSUME Reclaimed PROVE CacheTypeOK'
  BY <1>5 DEF Reclaimed, CacheTypeOK, Files, Kinds, Jobs, Steps, Reserving, At,
     OwnedName
<1>6. ASSUME ReclaimFails PROVE CacheTypeOK'
  BY <1>6 DEF ReclaimFails, CacheTypeOK, Files, Kinds, Jobs, Steps, Reserving, At,
     OwnedName
<1>7. ASSUME NEW t \in Threads, NEW r \in Revisions, Reserve(t, r) PROVE CacheTypeOK'
  <2>1. job' \in [Threads -> Jobs]
    <3>1. \A n \in Nonces :
            [NoJob EXCEPT !.step = "reserved", !.want = r, !.nonce = n] \in Jobs
      BY DEF NoJob, Jobs, Steps
    <3> QED BY <1>7, <3>1 DEF Reserve, CacheTypeOK, Fresh
  <2>2. /\ owner' \in Processes \cup {Nobody}
        /\ ready' \in BOOLEAN
        /\ ready' => owner' # Nobody
    BY <1>7 DEF Reserve, CacheTypeOK
  <2>3. /\ entries' \in Nat /\ bytes' \in Nat /\ files' \subseteq Files
        /\ kept' \subseteq [nonce : Nonces, bytes : Nat]
        /\ abandoned' \subseteq Nonces /\ source' \in Revisions
    BY <1>7, CacheAssumption, SMTT(20) DEF Reserve, CacheTypeOK, Jobs, At, Minus, Files, Kinds, Named
  <2>4. \A u \in Reserving' : ready' /\ Home[u] = owner'
    BY <1>7, CacheAssumption, SMTT(20) DEF Reserve, CacheTypeOK, Jobs, Reserving, At, Goto, NoJob, Making
  <2>5. \A u \in Threads : (job'[u].step = "idle") <=> job'[u].nonce = 0
    BY <1>7, CacheAssumption, SMTT(20) DEF Reserve, CacheTypeOK, Jobs, At, Goto, NoJob, Fresh
  <2>7. \A u \in Threads : (job'[u].step = "idle") <=> job'[u].want = Torn
    BY <1>7, CacheAssumption, SMTT(20) DEF Reserve, CacheTypeOK, Jobs, At, Goto, NoJob, Fresh
  <2>6. \A u, v \in Threads : job'[u].nonce = job'[v].nonce => u = v \/ job'[u].step = "idle"
    BY <1>7, <2>5, CacheAssumption, SMTT(20) DEF Reserve, CacheTypeOK, Jobs, At, Goto, NoJob, Fresh
  <2> QED BY <2>1, <2>2, <2>3, <2>4, <2>5, <2>6, <2>7
    DEF CacheTypeOK, At
<1>8. ASSUME NEW t \in Threads, CreatePartial(t) PROVE CacheTypeOK'
  BY <1>8 DEF CreatePartial, CacheTypeOK, Files, Kinds, Jobs, Steps, Reserving, At,
     Goto
<1>9. ASSUME NEW t \in Threads, Open(t) PROVE CacheTypeOK'
  <2>1. job' \in [Threads -> Jobs]
    <3>1. job[t] \in Jobs /\ source \in Revisions
      BY DEF CacheTypeOK
    <3>2. [job[t] EXCEPT !.step = "copying", !.reads = {source}, !.linked = TRUE] \in Jobs
      BY <3>1 DEF Jobs, Steps
    <3>3. job' = [job EXCEPT ![t] =
                     [job[t] EXCEPT !.step = "copying", !.reads = {source}, !.linked = TRUE]]
      BY <1>9, Zenon DEF Open
    <3> QED BY <3>2, <3>3 DEF CacheTypeOK
  <2>2. /\ owner' \in Processes \cup {Nobody}
        /\ ready' \in BOOLEAN
        /\ ready' => owner' # Nobody
    BY <1>9 DEF Open, CacheTypeOK
  <2>3. /\ entries' \in Nat /\ bytes' \in Nat /\ files' \subseteq Files
        /\ kept' \subseteq [nonce : Nonces, bytes : Nat]
        /\ abandoned' \subseteq Nonces /\ source' \in Revisions
    BY <1>9, CacheAssumption, SMTT(20) DEF Open, CacheTypeOK, Jobs, At, Minus, Files, Kinds, Named
  <2>4. \A u \in Reserving' : ready' /\ Home[u] = owner'
    BY <1>9, CacheAssumption, SMTT(20) DEF Open, CacheTypeOK, Jobs, Reserving, At, Goto, NoJob, Making
  <2>5. \A u \in Threads : (job'[u].step = "idle") <=> job'[u].nonce = 0
    BY <1>9, CacheAssumption, SMTT(20) DEF Open, CacheTypeOK, Jobs, At, Goto, NoJob, Fresh
  <2>7. \A u \in Threads : (job'[u].step = "idle") <=> job'[u].want = Torn
    BY <1>9, CacheAssumption, SMTT(20) DEF Open, CacheTypeOK, Jobs, At, Goto, NoJob, Fresh
  <2>6. \A u, v \in Threads : job'[u].nonce = job'[v].nonce => u = v \/ job'[u].step = "idle"
    BY <1>9, <2>5, CacheAssumption, SMTT(20) DEF Open, CacheTypeOK, Jobs, At, Goto, NoJob, Fresh
  <2> QED BY <2>1, <2>2, <2>3, <2>4, <2>5, <2>6, <2>7
    DEF CacheTypeOK, At
<1>10. ASSUME NEW t \in Threads, Finish(t) PROVE CacheTypeOK'
  BY <1>10 DEF Finish, CacheTypeOK, Files, Kinds, Jobs, Steps, Reserving, At, Goto,
     Named
<1>11. ASSUME NEW t \in Threads, Publish(t) PROVE CacheTypeOK'
  BY <1>11, CacheAssumption, SMTT(20) DEF Publish, CacheTypeOK, Files, Kinds, Jobs,
     Steps, Reserving, At, Goto, Named
<1>12. ASSUME NEW t \in Threads, Return(t) PROVE CacheTypeOK'
  BY <1>12, SMTT(60) DEF Return, CacheTypeOK, Files, Kinds, Jobs, Steps, Reserving,
     At, Goto
<1>13. ASSUME NEW t \in Threads, Fail(t) PROVE CacheTypeOK'
  BY <1>13 DEF Fail, CacheTypeOK, Files, Kinds, Jobs, Steps, Reserving, At, Goto,
     FilesOf, OwnedName, Making
<1>14. ASSUME NEW t \in Threads, LinkAlias(t) PROVE CacheTypeOK'
  BY <1>14 DEF LinkAlias, CacheTypeOK, Files, Kinds, Jobs, Steps, Reserving, At,
     Goto, Named
<1>15. ASSUME NEW t \in Threads, UnlinkAlias(t) PROVE CacheTypeOK'
  BY <1>15 DEF UnlinkAlias, CacheTypeOK, Files, Kinds, Jobs, Steps, Reserving, At,
     Goto, Named
<1>16. ASSUME NEW t \in Threads, Remove(t) PROVE CacheTypeOK'
  BY <1>16 DEF Remove, CacheTypeOK, Files, Kinds, Jobs, Steps, Reserving, At, Goto,
     Named
<1>17. ASSUME NEW t \in Threads, RemoveFails(t) PROVE CacheTypeOK'
  <2>1. job' \in [Threads -> Jobs]
    BY <1>17, SMTT(20) DEF RemoveFails, CacheTypeOK, Jobs, Steps, NoJob, At
  <2>2. /\ owner' \in Processes \cup {Nobody}
        /\ ready' \in BOOLEAN
        /\ ready' => owner' # Nobody
    BY <1>17 DEF RemoveFails, CacheTypeOK
  <2>3. /\ entries' \in Nat /\ bytes' \in Nat /\ files' \subseteq Files
        /\ kept' \subseteq [nonce : Nonces, bytes : Nat]
        /\ abandoned' \subseteq Nonces /\ source' \in Revisions
    BY <1>17, CacheAssumption, SMTT(20) DEF RemoveFails, CacheTypeOK, Jobs, At, Minus, Files, Kinds, Named
  <2>4. \A u \in Reserving' : ready' /\ Home[u] = owner'
    BY <1>17, CacheAssumption, SMTT(20) DEF RemoveFails, CacheTypeOK, Jobs, Reserving, At, Goto, NoJob, Making
  <2>5. \A u \in Threads : (job'[u].step = "idle") <=> job'[u].nonce = 0
    BY <1>17, CacheAssumption, SMTT(20) DEF RemoveFails, CacheTypeOK, Jobs, At, Goto, NoJob, Fresh
  <2>7. \A u \in Threads : (job'[u].step = "idle") <=> job'[u].want = Torn
    BY <1>17, CacheAssumption, SMTT(20) DEF RemoveFails, CacheTypeOK, Jobs, At, Goto, NoJob, Fresh
  <2>6. \A u, v \in Threads : job'[u].nonce = job'[v].nonce => u = v \/ job'[u].step = "idle"
    BY <1>17, <2>5, CacheAssumption, SMTT(20) DEF RemoveFails, CacheTypeOK, Jobs, At, Goto, NoJob, Fresh
  <2> QED BY <2>1, <2>2, <2>3, <2>4, <2>5, <2>6, <2>7
    DEF CacheTypeOK, At
<1>18. ASSUME NEW t \in Threads, ReleaseReservation(t) PROVE CacheTypeOK'
  <2>1. job' \in [Threads -> Jobs]
    BY <1>18, SMTT(20) DEF ReleaseReservation, CacheTypeOK, Jobs, Steps, NoJob, At
  <2>2. /\ owner' \in Processes \cup {Nobody}
        /\ ready' \in BOOLEAN
        /\ ready' => owner' # Nobody
    BY <1>18 DEF ReleaseReservation, CacheTypeOK
  <2>3. /\ entries' \in Nat /\ bytes' \in Nat /\ files' \subseteq Files
        /\ kept' \subseteq [nonce : Nonces, bytes : Nat]
        /\ abandoned' \subseteq Nonces /\ source' \in Revisions
    BY <1>18, CacheAssumption, SMTT(20) DEF ReleaseReservation, CacheTypeOK, Jobs, At, Minus, Files, Kinds, Named
  <2>4. \A u \in Reserving' : ready' /\ Home[u] = owner'
    BY <1>18, CacheAssumption, SMTT(20) DEF ReleaseReservation, CacheTypeOK, Jobs, Reserving, At, Goto, NoJob, Making
  <2>5. \A u \in Threads : (job'[u].step = "idle") <=> job'[u].nonce = 0
    BY <1>18, CacheAssumption, SMTT(20) DEF ReleaseReservation, CacheTypeOK, Jobs, At, Goto, NoJob, Fresh
  <2>7. \A u \in Threads : (job'[u].step = "idle") <=> job'[u].want = Torn
    BY <1>18, CacheAssumption, SMTT(20) DEF ReleaseReservation, CacheTypeOK, Jobs, At, Goto, NoJob, Fresh
  <2>6. \A u, v \in Threads : job'[u].nonce = job'[v].nonce => u = v \/ job'[u].step = "idle"
    BY <1>18, <2>5, CacheAssumption, SMTT(20) DEF ReleaseReservation, CacheTypeOK, Jobs, At, Goto, NoJob, Fresh
  <2> QED BY <2>1, <2>2, <2>3, <2>4, <2>5, <2>6, <2>7
    DEF CacheTypeOK, At
<1>19. ASSUME NEW r \in Revisions, WriteInPlace(r) PROVE CacheTypeOK'
  BY <1>19 DEF WriteInPlace, CacheTypeOK, Files, Kinds, Jobs, Steps, Reserving, At
<1>20. ASSUME NEW r \in Revisions, Replace(r) PROVE CacheTypeOK'
  <2>1. job' \in [Threads -> Jobs]
    <3>1. \A u \in Threads : [job[u] EXCEPT !.linked = FALSE] \in Jobs
      BY DEF CacheTypeOK, Jobs
    <3> QED BY <1>20, <3>1 DEF Replace, CacheTypeOK
  <2>2. /\ owner' \in Processes \cup {Nobody}
        /\ ready' \in BOOLEAN
        /\ ready' => owner' # Nobody
    BY <1>20 DEF Replace, CacheTypeOK
  <2>3. /\ entries' \in Nat /\ bytes' \in Nat /\ files' \subseteq Files
        /\ kept' \subseteq [nonce : Nonces, bytes : Nat]
        /\ abandoned' \subseteq Nonces /\ source' \in Revisions
    BY <1>20, CacheAssumption, SMTT(20) DEF Replace, CacheTypeOK, Jobs, At, Minus, Files, Kinds, Named
  <2>4. \A u \in Reserving' : ready' /\ Home[u] = owner'
    BY <1>20, CacheAssumption, SMTT(20) DEF Replace, CacheTypeOK, Jobs, Reserving, At, Goto, NoJob, Making
  <2>5. \A u \in Threads : (job'[u].step = "idle") <=> job'[u].nonce = 0
    BY <1>20, CacheAssumption, SMTT(20) DEF Replace, CacheTypeOK, Jobs, At, Goto, NoJob, Fresh
  <2>7. \A u \in Threads : (job'[u].step = "idle") <=> job'[u].want = Torn
    BY <1>20, CacheAssumption, SMTT(20) DEF Replace, CacheTypeOK, Jobs, At, Goto, NoJob, Fresh
  <2>6. \A u, v \in Threads : job'[u].nonce = job'[v].nonce => u = v \/ job'[u].step = "idle"
    BY <1>20, <2>5, CacheAssumption, SMTT(20) DEF Replace, CacheTypeOK, Jobs, At, Goto, NoJob, Fresh
  <2> QED BY <2>1, <2>2, <2>3, <2>4, <2>5, <2>6, <2>7
    DEF CacheTypeOK, At
<1>21. CASE UNCHANGED cacheVars
  BY <1>21 DEF cacheVars, CacheTypeOK, Files, Kinds, Jobs, Steps, Reserving, At
<1> QED BY <1>1, <1>2, <1>3, <1>4, <1>5, <1>6, <1>7, <1>8, <1>9, <1>10, <1>11, <1>12, <1>13, <1>14, <1>15, <1>16, <1>17, <1>18, <1>19, <1>20, <1>21 DEF CacheNext, Materialize, Lease

LEMMA LockStep ==
    ASSUME CacheTypeOK, LockInv, EntriesAccounted, [CacheNext]_cacheVars
    PROVE  LockInv'
<1>1. ASSUME NEW p \in Processes, AcquireLock(p) PROVE LockInv'
  BY <1>1 DEF AcquireLock, CacheTypeOK, LockInv, Reserving, At
<1>2. ASSUME NEW p \in Processes, DropCache(p) PROVE LockInv'
  <2>1. kept' = {} /\ owner' = Nobody /\ ready' = FALSE
    BY <1>2 DEF DropCache
  <2> QED BY <2>1, FS_EmptySet DEF LockInv
<1>3. ASSUME NEW p \in Processes, Crash(p) PROVE LockInv'
  <2>1. CASE owner = p
    <3>1. kept' = {} /\ owner' = Nobody /\ ~ready'
      BY <1>3, <2>1 DEF Crash
    <3> QED BY <3>1, FS_EmptySet DEF LockInv
  <2>2. CASE owner # p
    <3>1. kept' = kept /\ owner' = owner /\ entries' = entries /\ (ready' <=> ready)
      BY <1>3, <2>2 DEF Crash
    <3> QED BY <3>1 DEF LockInv
  <2> QED BY <2>1, <2>2
<1>4. ASSUME Reclaim PROVE LockInv'
  BY <1>4 DEF Reclaim, CacheTypeOK, LockInv, Reserving, At
<1>5. ASSUME Reclaimed PROVE LockInv'
  BY <1>5, CacheAssumption, SMTT(20) DEF Reclaimed, CacheTypeOK, LockInv, Reserving,
     At
<1>6. ASSUME ReclaimFails PROVE LockInv'
  BY <1>6 DEF ReclaimFails, CacheTypeOK, LockInv, Reserving, At
<1>7. ASSUME NEW t \in Threads, NEW r \in Revisions, Reserve(t, r) PROVE LockInv'
  BY <1>7 DEF Reserve, CacheTypeOK, LockInv, Reserving, At
<1>8. ASSUME NEW t \in Threads, CreatePartial(t) PROVE LockInv'
  BY <1>8 DEF CreatePartial, CacheTypeOK, LockInv, Reserving, At, Goto
<1>9. ASSUME NEW t \in Threads, Open(t) PROVE LockInv'
  BY <1>9 DEF Open, CacheTypeOK, LockInv, Reserving, At
<1>10. ASSUME NEW t \in Threads, Finish(t) PROVE LockInv'
  BY <1>10 DEF Finish, CacheTypeOK, LockInv, Reserving, At, Goto
<1>11. ASSUME NEW t \in Threads, Publish(t) PROVE LockInv'
  BY <1>11 DEF Publish, CacheTypeOK, LockInv, Reserving, At, Goto
<1>12. ASSUME NEW t \in Threads, Return(t) PROVE LockInv'
  BY <1>12 DEF Return, CacheTypeOK, LockInv, Reserving, At, Goto
<1>13. ASSUME NEW t \in Threads, Fail(t) PROVE LockInv'
  BY <1>13 DEF Fail, CacheTypeOK, LockInv, Reserving, At, Goto
<1>14. ASSUME NEW t \in Threads, LinkAlias(t) PROVE LockInv'
  BY <1>14 DEF LinkAlias, CacheTypeOK, LockInv, Reserving, At, Goto
<1>15. ASSUME NEW t \in Threads, UnlinkAlias(t) PROVE LockInv'
  BY <1>15 DEF UnlinkAlias, CacheTypeOK, LockInv, Reserving, At, Goto
<1>16. ASSUME NEW t \in Threads, Remove(t) PROVE LockInv'
  BY <1>16 DEF Remove, CacheTypeOK, LockInv, Reserving, At, Goto
<1>17. ASSUME NEW t \in Threads, RemoveFails(t) PROVE LockInv'
  <2>1. CASE job[t].old
    BY <1>17, <2>1 DEF RemoveFails, LockInv
  <2>2. CASE ~job[t].old
    <3>1. ready
      BY <1>17, <2>2 DEF RemoveFails, CacheTypeOK, Reserving, At
    <3>2. IsFiniteSet(kept')
      BY <1>17, <2>2, FS_AddElement DEF RemoveFails, LockInv
    <3> QED BY <1>17, <3>1, <3>2 DEF RemoveFails, LockInv
  <2> QED BY <2>1, <2>2
<1>18. ASSUME NEW t \in Threads, ReleaseReservation(t) PROVE LockInv'
  BY <1>18, CacheAssumption, SMTT(20) DEF ReleaseReservation, CacheTypeOK, LockInv,
     Reserving, At, Minus
<1>19. ASSUME NEW r \in Revisions, WriteInPlace(r) PROVE LockInv'
  BY <1>19 DEF WriteInPlace, CacheTypeOK, LockInv, Reserving, At
<1>20. ASSUME NEW r \in Revisions, Replace(r) PROVE LockInv'
  BY <1>20 DEF Replace, CacheTypeOK, LockInv, Reserving, At
<1>21. CASE UNCHANGED cacheVars
  BY <1>21 DEF cacheVars, CacheTypeOK, LockInv, Reserving, At
<1> QED BY <1>1, <1>2, <1>3, <1>4, <1>5, <1>6, <1>7, <1>8, <1>9, <1>10, <1>11, <1>12, <1>13, <1>14, <1>15, <1>16, <1>17, <1>18, <1>19, <1>20, <1>21 DEF CacheNext, Materialize, Lease

LEMMA OldStep ==
    ASSUME CacheTypeOK, OldInv, [CacheNext]_cacheVars
    PROVE  OldInv'
<1>1. ASSUME NEW p \in Processes, AcquireLock(p) PROVE OldInv'
  BY <1>1 DEF AcquireLock, CacheTypeOK, Jobs, OldInv, At
<1>2. ASSUME NEW p \in Processes, DropCache(p) PROVE OldInv'
  <2> SUFFICES ASSUME NEW u \in Threads, job'[u].old
               PROVE  job'[u].step \in {"held", "aliased", "removed"}
    BY DEF OldInv
  <2>1. CASE Home[u] = p /\ ~At(u, "idle")
    <3>1. job[u].step \notin Making /\ job[u].step # "idle"
      BY <1>2, <2>1 DEF DropCache, At
    <3>2. job'[u].step = job[u].step /\ job[u].step \in Steps
      BY <1>2, <2>1 DEF DropCache, CacheTypeOK, Jobs
    <3> QED BY <3>1, <3>2 DEF Steps, Making
  <2>2. CASE ~(Home[u] = p /\ ~At(u, "idle"))
    BY <1>2, <2>2 DEF DropCache, OldInv
  <2> QED BY <2>1, <2>2
<1>3. ASSUME NEW p \in Processes, Crash(p) PROVE OldInv'
  BY <1>3 DEF Crash, CacheTypeOK, Jobs, OldInv, At, NoJob
<1>4. ASSUME Reclaim PROVE OldInv'
  BY <1>4 DEF Reclaim, CacheTypeOK, Jobs, OldInv, At
<1>5. ASSUME Reclaimed PROVE OldInv'
  BY <1>5 DEF Reclaimed, CacheTypeOK, Jobs, OldInv, At
<1>6. ASSUME ReclaimFails PROVE OldInv'
  BY <1>6 DEF ReclaimFails, CacheTypeOK, Jobs, OldInv, At
<1>7. ASSUME NEW t \in Threads, NEW r \in Revisions, Reserve(t, r) PROVE OldInv'
  BY <1>7 DEF Reserve, CacheTypeOK, Jobs, OldInv, At, NoJob
<1>8. ASSUME NEW t \in Threads, CreatePartial(t) PROVE OldInv'
  BY <1>8 DEF CreatePartial, CacheTypeOK, Jobs, OldInv, At, Goto
<1>9. ASSUME NEW t \in Threads, Open(t) PROVE OldInv'
  BY <1>9 DEF Open, CacheTypeOK, Jobs, OldInv, At
<1>10. ASSUME NEW t \in Threads, Finish(t) PROVE OldInv'
  BY <1>10 DEF Finish, CacheTypeOK, Jobs, OldInv, At, Goto
<1>11. ASSUME NEW t \in Threads, Publish(t) PROVE OldInv'
  BY <1>11 DEF Publish, CacheTypeOK, Jobs, OldInv, At, Goto
<1>12. ASSUME NEW t \in Threads, Return(t) PROVE OldInv'
  BY <1>12 DEF Return, CacheTypeOK, Jobs, OldInv, At, Goto
<1>13. ASSUME NEW t \in Threads, Fail(t) PROVE OldInv'
  BY <1>13 DEF Fail, CacheTypeOK, Jobs, OldInv, At, Goto, Making
<1>14. ASSUME NEW t \in Threads, LinkAlias(t) PROVE OldInv'
  BY <1>14 DEF LinkAlias, CacheTypeOK, Jobs, OldInv, At, Goto
<1>15. ASSUME NEW t \in Threads, UnlinkAlias(t) PROVE OldInv'
  BY <1>15 DEF UnlinkAlias, CacheTypeOK, Jobs, OldInv, At, Goto
<1>16. ASSUME NEW t \in Threads, Remove(t) PROVE OldInv'
  BY <1>16 DEF Remove, CacheTypeOK, Jobs, OldInv, At, Goto
<1>17. ASSUME NEW t \in Threads, RemoveFails(t) PROVE OldInv'
  BY <1>17 DEF RemoveFails, CacheTypeOK, Jobs, OldInv, At, NoJob
<1>18. ASSUME NEW t \in Threads, ReleaseReservation(t) PROVE OldInv'
  BY <1>18 DEF ReleaseReservation, CacheTypeOK, Jobs, OldInv, At, NoJob
<1>19. ASSUME NEW r \in Revisions, WriteInPlace(r) PROVE OldInv'
  BY <1>19 DEF WriteInPlace, CacheTypeOK, Jobs, OldInv, At
<1>20. ASSUME NEW r \in Revisions, Replace(r) PROVE OldInv'
  BY <1>20 DEF Replace, CacheTypeOK, Jobs, OldInv, At
<1>21. CASE UNCHANGED cacheVars
  BY <1>21 DEF cacheVars, CacheTypeOK, Jobs, OldInv, At
<1> QED BY <1>1, <1>2, <1>3, <1>4, <1>5, <1>6, <1>7, <1>8, <1>9, <1>10, <1>11, <1>12, <1>13, <1>14, <1>15, <1>16, <1>17, <1>18, <1>19, <1>20, <1>21 DEF CacheNext, Materialize, Lease

LEMMA KeptStep ==
    ASSUME CacheTypeOK, LockInv, KeptInv, [CacheNext]_cacheVars
    PROVE  KeptInv'
<1>1. ASSUME NEW p \in Processes, AcquireLock(p) PROVE KeptInv'
  BY <1>1 DEF AcquireLock, CacheTypeOK, Jobs, Files, LockInv, KeptInv, At
<1>2. ASSUME NEW p \in Processes, DropCache(p) PROVE KeptInv'
  BY <1>2 DEF DropCache, CacheTypeOK, Jobs, Files, LockInv, KeptInv, At
<1>3. ASSUME NEW p \in Processes, Crash(p) PROVE KeptInv'
  BY <1>3, CacheAssumption, SMTT(20) DEF Crash, CacheTypeOK, Jobs, Files, LockInv,
     KeptInv, At, NoJob
<1>4. ASSUME Reclaim PROVE KeptInv'
  BY <1>4 DEF Reclaim, CacheTypeOK, Jobs, Files, LockInv, KeptInv, At, OwnedName
<1>5. ASSUME Reclaimed PROVE KeptInv'
  BY <1>5 DEF Reclaimed, CacheTypeOK, Jobs, Files, LockInv, KeptInv, At, OwnedName
<1>6. ASSUME ReclaimFails PROVE KeptInv'
  BY <1>6 DEF ReclaimFails, CacheTypeOK, Jobs, Files, LockInv, KeptInv, At,
     OwnedName
<1>7. ASSUME NEW t \in Threads, NEW r \in Revisions, Reserve(t, r) PROVE KeptInv'
  BY <1>7 DEF Reserve, CacheTypeOK, Jobs, Files, LockInv, KeptInv, At, NoJob, Fresh
<1>8. ASSUME NEW t \in Threads, CreatePartial(t) PROVE KeptInv'
  BY <1>8 DEF CreatePartial, CacheTypeOK, Jobs, Files, LockInv, KeptInv, At, Goto
<1>9. ASSUME NEW t \in Threads, Open(t) PROVE KeptInv'
  BY <1>9 DEF Open, CacheTypeOK, Jobs, Files, LockInv, KeptInv, At
<1>10. ASSUME NEW t \in Threads, Finish(t) PROVE KeptInv'
  BY <1>10 DEF Finish, CacheTypeOK, Jobs, Files, LockInv, KeptInv, At, Goto, Named
<1>11. ASSUME NEW t \in Threads, Publish(t) PROVE KeptInv'
  BY <1>11 DEF Publish, CacheTypeOK, Jobs, Files, LockInv, KeptInv, At, Goto, Named
<1>12. ASSUME NEW t \in Threads, Return(t) PROVE KeptInv'
  BY <1>12 DEF Return, CacheTypeOK, Jobs, Files, LockInv, KeptInv, At, Goto
<1>13. ASSUME NEW t \in Threads, Fail(t) PROVE KeptInv'
  BY <1>13 DEF Fail, CacheTypeOK, Jobs, Files, LockInv, KeptInv, At, Goto, FilesOf,
     OwnedName
<1>14. ASSUME NEW t \in Threads, LinkAlias(t) PROVE KeptInv'
  BY <1>14 DEF LinkAlias, CacheTypeOK, Jobs, Files, LockInv, KeptInv, At, Goto,
     Named
<1>15. ASSUME NEW t \in Threads, UnlinkAlias(t) PROVE KeptInv'
  BY <1>15 DEF UnlinkAlias, CacheTypeOK, Jobs, Files, LockInv, KeptInv, At, Goto,
     Named
<1>16. ASSUME NEW t \in Threads, Remove(t) PROVE KeptInv'
  BY <1>16 DEF Remove, CacheTypeOK, Jobs, Files, LockInv, KeptInv, At, Goto, Named
<1>17. ASSUME NEW t \in Threads, RemoveFails(t) PROVE KeptInv'
  BY <1>17, CacheAssumption, SMTT(20) DEF RemoveFails, CacheTypeOK, Jobs, Files,
     LockInv, KeptInv, At, NoJob, Named
<1>18. ASSUME NEW t \in Threads, ReleaseReservation(t) PROVE KeptInv'
  BY <1>18, CacheAssumption, SMTT(20) DEF ReleaseReservation, CacheTypeOK, Jobs,
     Files, LockInv, KeptInv, At, NoJob
<1>19. ASSUME NEW r \in Revisions, WriteInPlace(r) PROVE KeptInv'
  BY <1>19 DEF WriteInPlace, CacheTypeOK, Jobs, Files, LockInv, KeptInv, At
<1>20. ASSUME NEW r \in Revisions, Replace(r) PROVE KeptInv'
  BY <1>20 DEF Replace, CacheTypeOK, Jobs, Files, LockInv, KeptInv, At
<1>21. CASE UNCHANGED cacheVars
  BY <1>21 DEF cacheVars, CacheTypeOK, Jobs, Files, LockInv, KeptInv, At
<1> QED BY <1>1, <1>2, <1>3, <1>4, <1>5, <1>6, <1>7, <1>8, <1>9, <1>10, <1>11, <1>12, <1>13, <1>14, <1>15, <1>16, <1>17, <1>18, <1>19, <1>20, <1>21 DEF CacheNext, Materialize, Lease

LEMMA FileStep ==
    ASSUME CacheTypeOK, OldInv, FileInv, [CacheNext]_cacheVars
    PROVE  FileInv'
<1>1. ASSUME NEW p \in Processes, AcquireLock(p) PROVE FileInv'
  BY <1>1 DEF AcquireLock, CacheTypeOK, Jobs, Files, Kinds, OldInv, FileInv,
     Reserving, At, Named, FilesOf, OwnedName
<1>2. ASSUME NEW p \in Processes, DropCache(p) PROVE FileInv'
  BY <1>2 DEF DropCache, CacheTypeOK, Jobs, Files, Kinds, OldInv, FileInv,
     Reserving, At, Named, FilesOf, OwnedName, Making
<1>3. ASSUME NEW p \in Processes, Crash(p) PROVE FileInv'
  BY <1>3 DEF Crash, CacheTypeOK, Jobs, Files, Kinds, OldInv, FileInv, Reserving,
     At, NoJob, Named, FilesOf, OwnedName
<1>4. ASSUME Reclaim PROVE FileInv'
  BY <1>4 DEF Reclaim, CacheTypeOK, Jobs, Files, Kinds, OldInv, FileInv, Reserving,
     At, Named, FilesOf, OwnedName
<1>5. ASSUME Reclaimed PROVE FileInv'
  BY <1>5 DEF Reclaimed, CacheTypeOK, Jobs, Files, Kinds, OldInv, FileInv,
     Reserving, At, Named, FilesOf, OwnedName
<1>6. ASSUME ReclaimFails PROVE FileInv'
  BY <1>6 DEF ReclaimFails, CacheTypeOK, Jobs, Files, Kinds, OldInv, FileInv,
     Reserving, At, Named, FilesOf, OwnedName
<1>7. ASSUME NEW t \in Threads, NEW r \in Revisions, Reserve(t, r) PROVE FileInv'
  BY <1>7 DEF Reserve, CacheTypeOK, Jobs, Files, Kinds, OldInv, FileInv, Reserving,
     At, NoJob, Fresh, Named, FilesOf, OwnedName
<1>8. ASSUME NEW t \in Threads, CreatePartial(t) PROVE FileInv'
  BY <1>8 DEF CreatePartial, CacheTypeOK, Jobs, Files, Kinds, OldInv, FileInv,
     Reserving, At, Goto, Named, FilesOf, OwnedName
<1>9. ASSUME NEW t \in Threads, Open(t) PROVE FileInv'
  BY <1>9 DEF Open, CacheTypeOK, Jobs, Files, Kinds, OldInv, FileInv, Reserving, At,
     Named, FilesOf, OwnedName
<1>10. ASSUME NEW t \in Threads, Finish(t) PROVE FileInv'
  BY <1>10 DEF Finish, CacheTypeOK, Jobs, Files, Kinds, OldInv, FileInv, Reserving,
     At, Goto, Named, FilesOf, OwnedName
<1>11. ASSUME NEW t \in Threads, Publish(t) PROVE FileInv'
  <2> DEFINE n == job[t].nonce
             new == [kind |-> "partial", nonce |-> n, bytes |-> job[t].want]
  <2>1. Named("partial", n) = {new}
    BY <1>11 DEF Publish, FileInv
  <2>2. [new EXCEPT !.kind = "payload"]
            = [kind |-> "payload", nonce |-> n, bytes |-> job[t].want]
    OBVIOUS
  <2>3. files' = (files \ {new}) \cup {[kind |-> "payload", nonce |-> n, bytes |-> job[t].want]}
    <3>1. {[f EXCEPT !.kind = "payload"] : f \in {new}} = {[new EXCEPT !.kind = "payload"]}
      OBVIOUS
    <3>2. files' = (files \ Named("partial", n)) \cup
                       {[f EXCEPT !.kind = "payload"] : f \in Named("partial", n)}
      BY <1>11, Zenon DEF Publish
    <3> QED BY <2>1, <2>2, <3>1, <3>2, Zenon
  <2>4. job' = [job EXCEPT ![t].step = "published"] /\ abandoned' = abandoned
    BY <1>11 DEF Publish, Goto
  <2>5. \A u \in Threads \ {t} : job'[u] = job[u] /\ (job[u].nonce # n \/ At(u, "idle"))
    BY <2>4 DEF CacheTypeOK
  <2>6. /\ job'[t].step = "published" /\ job'[t].nonce = n /\ job'[t].want = job[t].want
        /\ job'[t].old = job[t].old
    BY <2>4 DEF CacheTypeOK, Jobs
  <2>7. Named("partial", n)' = {}
    BY <2>1, <2>3, <2>6 DEF Named
  <2> HIDE DEF n, new
  <2>8. \A u \in Threads \ {t}, kind \in {"partial", "payload"} :
            ~At(u, "idle") => Named(kind, job[u].nonce)' = Named(kind, job[u].nonce)
    BY <2>3, <2>5 DEF Named, new
  <2> QED BY <2>3, <2>4, <2>5, <2>6, <2>7, <2>8, SMTT(30)
          DEF FileInv, Named, FilesOf, OwnedName, At, CacheTypeOK, Jobs, n, new
<1>12. ASSUME NEW t \in Threads, Return(t) PROVE FileInv'
  BY <1>12 DEF Return, CacheTypeOK, Jobs, Files, Kinds, OldInv, FileInv, Reserving,
     At, Goto, Named, FilesOf, OwnedName
<1>13. ASSUME NEW t \in Threads, Fail(t) PROVE FileInv'
  BY <1>13 DEF Fail, CacheTypeOK, Jobs, Files, Kinds, OldInv, FileInv, Reserving,
     At, Goto, Named, FilesOf, OwnedName, Making
<1>14. ASSUME NEW t \in Threads, LinkAlias(t) PROVE FileInv'
  BY <1>14 DEF LinkAlias, CacheTypeOK, Jobs, Files, Kinds, OldInv, FileInv,
     Reserving, At, Goto, Named, FilesOf, OwnedName
<1>15. ASSUME NEW t \in Threads, UnlinkAlias(t) PROVE FileInv'
  BY <1>15 DEF UnlinkAlias, CacheTypeOK, Jobs, Files, Kinds, OldInv, FileInv,
     Reserving, At, Goto, Named, FilesOf, OwnedName
<1>16. ASSUME NEW t \in Threads, Remove(t) PROVE FileInv'
  BY <1>16 DEF Remove, CacheTypeOK, Jobs, Files, Kinds, OldInv, FileInv, Reserving,
     At, Goto, Named, FilesOf, OwnedName
<1>17. ASSUME NEW t \in Threads, RemoveFails(t) PROVE FileInv'
  BY <1>17 DEF RemoveFails, CacheTypeOK, Jobs, Files, Kinds, OldInv, FileInv,
     Reserving, At, NoJob, Named, FilesOf, OwnedName
<1>18. ASSUME NEW t \in Threads, ReleaseReservation(t) PROVE FileInv'
  BY <1>18 DEF ReleaseReservation, CacheTypeOK, Jobs, Files, Kinds, OldInv, FileInv,
     Reserving, At, NoJob, Named, FilesOf, OwnedName
<1>19. ASSUME NEW r \in Revisions, WriteInPlace(r) PROVE FileInv'
  BY <1>19 DEF WriteInPlace, CacheTypeOK, Jobs, Files, Kinds, OldInv, FileInv,
     Reserving, At, Named, FilesOf, OwnedName
<1>20. ASSUME NEW r \in Revisions, Replace(r) PROVE FileInv'
  BY <1>20 DEF Replace, CacheTypeOK, Jobs, Files, Kinds, OldInv, FileInv, Reserving,
     At, Named, FilesOf, OwnedName
<1>21. CASE UNCHANGED cacheVars
  BY <1>21 DEF cacheVars, CacheTypeOK, Jobs, Files, Kinds, OldInv, FileInv,
     Reserving, At, Named, FilesOf, OwnedName
<1> QED BY <1>1, <1>2, <1>3, <1>4, <1>5, <1>6, <1>7, <1>8, <1>9, <1>10, <1>11, <1>12, <1>13, <1>14, <1>15, <1>16, <1>17, <1>18, <1>19, <1>20, <1>21 DEF CacheNext, Materialize, Lease

LEMMA DiskStep ==
    ASSUME CacheTypeOK, LockInv, OldInv, FileInv, DiskIsReserved, [CacheNext]_cacheVars
    PROVE  DiskIsReserved'
<1>1. ASSUME NEW p \in Processes, AcquireLock(p) PROVE DiskIsReserved'
  BY <1>1 DEF AcquireLock, CacheTypeOK, Jobs, Files, Kinds, LockInv, OldInv,
     FileInv, DiskIsReserved, Reserved, Reserving, At, Named, FilesOf, OwnedName
<1>2. ASSUME NEW p \in Processes, DropCache(p) PROVE DiskIsReserved'
  BY <1>2 DEF DropCache, CacheTypeOK, Jobs, Files, Kinds, LockInv, OldInv, FileInv,
     DiskIsReserved, Reserved, Reserving, At, Named, FilesOf, OwnedName, Making
<1>3. ASSUME NEW p \in Processes, Crash(p) PROVE DiskIsReserved'
  <2>1. CASE owner = p
    <3>1. ~ready'
      BY <1>3, <2>1 DEF Crash
    <3> QED BY <3>1 DEF DiskIsReserved
  <2>2. CASE owner # p
    <3>1. \A u \in Reserving : Home[u] # p
      BY <2>2 DEF CacheTypeOK
    <3>2. \A u \in Reserving : job'[u] = job[u]
      BY <1>3, <3>1 DEF Crash, Reserving, CacheTypeOK
    <3>3. \A u \in Reserving : u \in Reserving' /\ job'[u].nonce = job[u].nonce
      BY <3>2 DEF Reserving, At
    <3>4. /\ kept' = kept /\ abandoned' = abandoned /\ files' = files
          /\ ready' => ready
      BY <1>3, <2>2 DEF Crash
    <3>5. Reserved \subseteq Reserved'
      BY <3>3, <3>4 DEF Reserved
    <3> QED BY <3>4, <3>5 DEF DiskIsReserved
  <2> QED BY <2>1, <2>2
<1>4. ASSUME Reclaim PROVE DiskIsReserved'
  BY <1>4 DEF Reclaim, CacheTypeOK, Jobs, Files, Kinds, LockInv, OldInv, FileInv,
     DiskIsReserved, Reserved, Reserving, At, Named, FilesOf, OwnedName
<1>5. ASSUME Reclaimed PROVE DiskIsReserved'
  BY <1>5 DEF Reclaimed, CacheTypeOK, Jobs, Files, Kinds, LockInv, OldInv, FileInv,
     DiskIsReserved, Reserved, Reserving, At, Named, FilesOf, OwnedName
<1>6. ASSUME ReclaimFails PROVE DiskIsReserved'
  BY <1>6 DEF ReclaimFails, CacheTypeOK, Jobs, Files, Kinds, LockInv, OldInv,
     FileInv, DiskIsReserved, Reserved, Reserving, At, Named, FilesOf, OwnedName
<1>7. ASSUME NEW t \in Threads, NEW r \in Revisions, Reserve(t, r) PROVE DiskIsReserved'
  BY <1>7 DEF Reserve, CacheTypeOK, Jobs, Files, Kinds, LockInv, OldInv, FileInv,
     DiskIsReserved, Reserved, Reserving, At, NoJob, Fresh, Named, FilesOf,
     OwnedName
<1>8. ASSUME NEW t \in Threads, CreatePartial(t) PROVE DiskIsReserved'
  BY <1>8 DEF CreatePartial, CacheTypeOK, Jobs, Files, Kinds, LockInv, OldInv,
     FileInv, DiskIsReserved, Reserved, Reserving, At, Goto, Named, FilesOf,
     OwnedName
<1>9. ASSUME NEW t \in Threads, Open(t) PROVE DiskIsReserved'
  BY <1>9 DEF Open, CacheTypeOK, Jobs, Files, Kinds, LockInv, OldInv, FileInv,
     DiskIsReserved, Reserved, Reserving, At, Named, FilesOf, OwnedName
<1>10. ASSUME NEW t \in Threads, Finish(t) PROVE DiskIsReserved'
  BY <1>10 DEF Finish, CacheTypeOK, Jobs, Files, Kinds, LockInv, OldInv, FileInv,
     DiskIsReserved, Reserved, Reserving, At, Goto, Named, FilesOf, OwnedName
<1>11. ASSUME NEW t \in Threads, Publish(t) PROVE DiskIsReserved'
  BY <1>11 DEF Publish, CacheTypeOK, Jobs, Files, Kinds, LockInv, OldInv, FileInv,
     DiskIsReserved, Reserved, Reserving, At, Goto, Named, FilesOf, OwnedName
<1>12. ASSUME NEW t \in Threads, Return(t) PROVE DiskIsReserved'
  BY <1>12 DEF Return, CacheTypeOK, Jobs, Files, Kinds, LockInv, OldInv, FileInv,
     DiskIsReserved, Reserved, Reserving, At, Goto, Named, FilesOf, OwnedName
<1>13. ASSUME NEW t \in Threads, Fail(t) PROVE DiskIsReserved'
  <2>1. job' = [job EXCEPT ![t].step = "failed"] /\ ready' = ready /\ kept' = kept
    BY <1>13 DEF Fail, Goto
  <2>2. \A u \in Threads : /\ job'[u].nonce = job[u].nonce /\ job'[u].old = job[u].old
    BY <2>1 DEF CacheTypeOK, Jobs, At
  <2>3. \A u \in Reserving : u \in Reserving'
    BY <2>1 DEF Reserving, At, CacheTypeOK, Jobs
  <2>4. Reserved \subseteq Reserved'
    BY <2>1, <2>2, <2>3 DEF Reserved
  <2>5. files' \subseteq files /\ abandoned \subseteq abandoned'
    BY <1>13 DEF Fail
  <2> QED BY <2>1, <2>4, <2>5 DEF DiskIsReserved
<1>14. ASSUME NEW t \in Threads, LinkAlias(t) PROVE DiskIsReserved'
  BY <1>14 DEF LinkAlias, CacheTypeOK, Jobs, Files, Kinds, LockInv, OldInv, FileInv,
     DiskIsReserved, Reserved, Reserving, At, Goto, Named, FilesOf, OwnedName
<1>15. ASSUME NEW t \in Threads, UnlinkAlias(t) PROVE DiskIsReserved'
  BY <1>15 DEF UnlinkAlias, CacheTypeOK, Jobs, Files, Kinds, LockInv, OldInv,
     FileInv, DiskIsReserved, Reserved, Reserving, At, Goto, Named, FilesOf,
     OwnedName
<1>16. ASSUME NEW t \in Threads, Remove(t) PROVE DiskIsReserved'
  BY <1>16 DEF Remove, CacheTypeOK, Jobs, Files, Kinds, LockInv, OldInv, FileInv,
     DiskIsReserved, Reserved, Reserving, At, Goto, Named, FilesOf, OwnedName
<1>17. ASSUME NEW t \in Threads, RemoveFails(t) PROVE DiskIsReserved'
  <2>1. files' = files /\ abandoned' = abandoned /\ ready' = ready
    BY <1>17 DEF RemoveFails
  <2>2. \A u \in Reserving \ {t} : u \in Reserving' /\ job'[u].nonce = job[u].nonce
    BY <1>17 DEF RemoveFails, Reserving, At, CacheTypeOK
  <2>3. kept \subseteq kept'
    BY <1>17 DEF RemoveFails
  <2>4. t \in Reserving => \E k \in kept' : k.nonce = job[t].nonce
    <3>1. t \in Reserving =>
              [nonce |-> job[t].nonce, bytes |-> Size[job[t].want]] \in kept'
      BY <1>17 DEF RemoveFails, Reserving
    <3> QED BY <3>1
  <2>5. Reserved \subseteq Reserved'
    BY <2>2, <2>3, <2>4 DEF Reserved
  <2> QED BY <2>1, <2>5 DEF DiskIsReserved
<1>18. ASSUME NEW t \in Threads, ReleaseReservation(t) PROVE DiskIsReserved'
  <2>1. files' = files /\ abandoned' = abandoned /\ ready' = ready /\ kept' = kept
    BY <1>18 DEF ReleaseReservation
  <2>2. \A u \in Reserving \ {t} : u \in Reserving' /\ job'[u].nonce = job[u].nonce
    BY <1>18 DEF ReleaseReservation, Reserving, At, CacheTypeOK
  <2>3. Reserved \subseteq Reserved' \cup {job[t].nonce}
    BY <2>1, <2>2 DEF Reserved
  <2>4. ASSUME NEW f \in files, f.kind # "alias", f.nonce = job[t].nonce
        PROVE  f.nonce \in abandoned
    <3>1. f.kind \in {"partial", "payload"}
      BY <2>4 DEF CacheTypeOK, Files, Kinds
    <3>2. CASE At(t, "removed")
      <4>1. Named("partial", job[t].nonce) = {} /\ Named("payload", job[t].nonce) = {}
        BY <3>2 DEF FileInv, At
      <4> QED BY <2>4, <3>1, <4>1 DEF Named
    <3>3. CASE At(t, "failed")
      <4>1. FilesOf(job[t].nonce) = {} \/ job[t].nonce \in abandoned
        BY <3>3 DEF FileInv
      <4> QED BY <2>4, <3>1, <4>1 DEF FilesOf, OwnedName
    <3> QED BY <1>18, <3>2, <3>3 DEF ReleaseReservation, At
  <2> QED BY <2>1, <2>3, <2>4 DEF DiskIsReserved
<1>19. ASSUME NEW r \in Revisions, WriteInPlace(r) PROVE DiskIsReserved'
  <2>1. \A u \in Threads : /\ job'[u].step = job[u].step /\ job'[u].nonce = job[u].nonce
                          /\ job'[u].old = job[u].old
    BY <1>19 DEF WriteInPlace, CacheTypeOK, Jobs
  <2>2. Reserving' = Reserving
    BY <2>1 DEF Reserving, At
  <2>3. Reserved' = Reserved
    BY <1>19, <2>1, <2>2, Zenon DEF WriteInPlace, Reserved, Reserving
  <2> QED BY <1>19, <2>3 DEF WriteInPlace, DiskIsReserved
<1>20. ASSUME NEW r \in Revisions, Replace(r) PROVE DiskIsReserved'
  <2>1. \A u \in Threads : /\ job'[u].step = job[u].step /\ job'[u].nonce = job[u].nonce
                          /\ job'[u].old = job[u].old
    BY <1>20 DEF Replace, CacheTypeOK, Jobs
  <2>2. Reserving' = Reserving
    BY <2>1 DEF Reserving, At
  <2>3. Reserved' = Reserved
    BY <1>20, <2>1, <2>2, Zenon DEF Replace, Reserved, Reserving
  <2> QED BY <1>20, <2>3 DEF Replace, DiskIsReserved
<1>21. CASE UNCHANGED cacheVars
  BY <1>21 DEF cacheVars, CacheTypeOK, Jobs, Files, Kinds, LockInv, OldInv, FileInv,
     DiskIsReserved, Reserved, Reserving, At, Named, FilesOf, OwnedName
<1> QED BY <1>1, <1>2, <1>3, <1>4, <1>5, <1>6, <1>7, <1>8, <1>9, <1>10, <1>11, <1>12, <1>13, <1>14, <1>15, <1>16, <1>17, <1>18, <1>19, <1>20, <1>21 DEF CacheNext, Materialize, Lease

\* A step that changes neither which threads are idle nor whose leases are old
\* leaves the reservations as they are.
LEMMA SameReserving ==
    ASSUME \A u \in Threads : /\ job'[u].old = job[u].old
                              /\ (job'[u].step = "idle") <=> (job[u].step = "idle")
    PROVE  Reserving' = Reserving
BY DEF Reserving, At

LEMMA ReservingFinite ==
    ASSUME CacheTypeOK
    PROVE  /\ IsFiniteSet(Reserving)
           /\ Cardinality(Reserving) \in Nat
<1>1. Reserving \subseteq Threads
  BY DEF Reserving
<1>2. IsFiniteSet(Reserving)
  BY <1>1, CacheAssumption, FS_Subset
<1> QED BY <1>2, FS_CardinalityType

LEMMA EntriesStep ==
    ASSUME CacheTypeOK, LockInv, KeptInv, EntriesAccounted, [CacheNext]_cacheVars
    PROVE  EntriesAccounted'
<1>0. /\ IsFiniteSet(Reserving) /\ Cardinality(Reserving) \in Nat
      /\ IsFiniteSet(kept) /\ Cardinality(kept) \in Nat
  BY ReservingFinite, FS_CardinalityType DEF LockInv
<1>1. ASSUME NEW p \in Processes, AcquireLock(p) \/ DropCache(p)
      PROVE  EntriesAccounted'
  BY <1>1 DEF AcquireLock, DropCache, EntriesAccounted
<1>2. ASSUME NEW p \in Processes, Crash(p) PROVE EntriesAccounted'
  <2>1. CASE owner = p
    BY <1>2, <2>1 DEF Crash, EntriesAccounted
  <2>2. CASE owner # p
    <3>1. ASSUME ready' PROVE Reserving' = Reserving
      <4>1. ready
        BY <1>2, <2>2, <3>1 DEF Crash
      <4>2. \A u \in Threads : Home[u] = p => u \notin Reserving
        BY <2>2 DEF CacheTypeOK
      <4>3. \A u \in Threads : job'[u] = IF Home[u] = p THEN NoJob ELSE job[u]
        BY <1>2 DEF Crash
      <4>4. \A u \in Threads : Home[u] = p => u \notin Reserving'
        BY <4>3 DEF Reserving, At, NoJob
      <4>5. \A u \in Threads : Home[u] # p => (u \in Reserving' <=> u \in Reserving)
        BY <4>3 DEF Reserving, At
      <4> QED BY <4>2, <4>4, <4>5 DEF Reserving
    <3>2. kept' = kept /\ entries' = entries /\ (ready' => ready)
      BY <1>2, <2>2 DEF Crash
    <3> QED BY <3>1, <3>2 DEF EntriesAccounted
  <2> QED BY <2>1, <2>2
<1>3. ASSUME Reclaim \/ ReclaimFails PROVE EntriesAccounted'
  BY <1>3 DEF Reclaim, ReclaimFails, EntriesAccounted
<1>4. ASSUME Reclaimed PROVE EntriesAccounted'
  <2>1. Reserving' = {}
    BY <1>4 DEF Reclaimed, Reserving, At, CacheTypeOK
  <2>2. kept' = {} /\ entries' = 0
    BY <1>4 DEF Reclaimed, LockInv
  <2> QED BY <2>1, <2>2, FS_EmptySet DEF EntriesAccounted
<1>5. ASSUME NEW t \in Threads, NEW r \in Revisions, Reserve(t, r)
      PROVE  EntriesAccounted'
  <2>1. t \notin Reserving
    BY <1>5 DEF Reserve, Reserving
  <2>2. Reserving' = Reserving \cup {t}
    BY <1>5 DEF Reserve, Reserving, At, NoJob, CacheTypeOK
  <2>3. Cardinality(Reserving') = Cardinality(Reserving) + 1
    BY <1>0, <2>1, <2>2, FS_AddElement
  <2> QED BY <1>0, <1>5, <2>3 DEF Reserve, EntriesAccounted
<1>6. ASSUME NEW t \in Threads,
             \/ CreatePartial(t) \/ Open(t) \/ Finish(t) \/ Publish(t) \/ Return(t)
             \/ Fail(t) \/ LinkAlias(t) \/ UnlinkAlias(t) \/ Remove(t)
      PROVE  EntriesAccounted'
  <2>1. \A u \in Threads : /\ job'[u].old = job[u].old
                           /\ (job'[u].step = "idle") <=> (job[u].step = "idle")
    BY <1>6 DEF CreatePartial, Open, Finish, Publish, Return, Fail, LinkAlias, UnlinkAlias,
                Remove, Goto, At, CacheTypeOK, Jobs, Making
  <2>2. Reserving' = Reserving
    BY <2>1, SameReserving
  <2>3. UNCHANGED <<ready, entries, kept>>
    BY <1>6 DEF CreatePartial, Open, Finish, Publish, Return, Fail, LinkAlias, UnlinkAlias,
                Remove
  <2> QED BY <2>2, <2>3 DEF EntriesAccounted
<1>7. ASSUME NEW t \in Threads, RemoveFails(t) PROVE EntriesAccounted'
  <2>1. CASE job[t].old
    <3>1. Reserving' = Reserving
      BY <1>7, <2>1 DEF RemoveFails, Reserving, At, NoJob, CacheTypeOK
    <3> QED BY <1>7, <2>1, <3>1 DEF RemoveFails, EntriesAccounted
  <2>2. CASE ~job[t].old
    <3> DEFINE k == [nonce |-> job[t].nonce, bytes |-> Size[job[t].want]]
    <3>1. t \in Reserving /\ Reserving' = Reserving \ {t}
      BY <1>7, <2>2 DEF RemoveFails, Reserving, At, NoJob, CacheTypeOK
    <3>2. Cardinality(Reserving') = Cardinality(Reserving) - 1
      BY <1>0, <3>1, FS_RemoveElement
    <3>3. kept' = kept \cup {k}
      BY <1>7, <2>2 DEF RemoveFails
    <3>4. k \notin kept
      BY DEF KeptInv
    <3>5. Cardinality(kept') = Cardinality(kept) + 1
      BY <1>0, <3>3, <3>4, FS_AddElement
    <3>6. ready' = ready /\ entries' = entries
      BY <1>7 DEF RemoveFails
    <3> QED BY <1>0, <3>2, <3>5, <3>6 DEF EntriesAccounted
  <2> QED BY <2>1, <2>2
<1>8. ASSUME NEW t \in Threads, ReleaseReservation(t) PROVE EntriesAccounted'
  <2>1. kept' = kept /\ ready' = ready
    BY <1>8 DEF ReleaseReservation
  <2>2. CASE job[t].old
    <3>1. Reserving' = Reserving
      BY <1>8, <2>2 DEF ReleaseReservation, Reserving, At, NoJob, CacheTypeOK
    <3>2. entries' = entries
      BY <1>8, <2>2 DEF ReleaseReservation
    <3> QED BY <2>1, <3>1, <3>2 DEF EntriesAccounted
  <2>3. CASE ~job[t].old
    <3>1. t \in Reserving /\ Reserving' = Reserving \ {t}
      BY <1>8, <2>3 DEF ReleaseReservation, Reserving, At, NoJob, CacheTypeOK
    <3>2. Cardinality(Reserving') = Cardinality(Reserving) - 1
      BY <1>0, <3>1, FS_RemoveElement
    <3>3. Cardinality(Reserving) # 0
      BY <1>0, <3>1, FS_EmptySet
    <3>4. ready => entries >= 1
      BY <1>0, <3>3 DEF EntriesAccounted
    <3>5. ready => entries' = entries - 1
      BY <1>8, <2>3, <3>4 DEF ReleaseReservation, Minus
    <3> QED BY <1>0, <2>1, <3>2, <3>5 DEF EntriesAccounted
  <2> QED BY <2>2, <2>3
<1>9. ASSUME NEW r \in Revisions, WriteInPlace(r) \/ Replace(r) PROVE EntriesAccounted'
  <2>1. \A u \in Threads : /\ job'[u].old = job[u].old
                           /\ (job'[u].step = "idle") <=> (job[u].step = "idle")
    BY <1>9 DEF WriteInPlace, Replace, CacheTypeOK, Jobs
  <2>2. Reserving' = Reserving
    BY <2>1, SameReserving
  <2> QED BY <1>9, <2>2 DEF WriteInPlace, Replace, EntriesAccounted
<1>10. CASE UNCHANGED cacheVars
  BY <1>10 DEF cacheVars, EntriesAccounted, Reserving, At
<1> QED BY <1>1, <1>2, <1>3, <1>4, <1>5, <1>6, <1>7, <1>8, <1>9, <1>10
        DEF CacheNext, Materialize, Lease

-----------------------------------------------------------------------------
(* The reserved bytes *)

\* They are finitely many, and a cache that is not ready has counted none.
BytesInv ==
    /\ IsFiniteSet(ReservedBytes) /\ IsFiniteSet(KeptBytes)
    /\ owner # Nobody /\ ~ready => bytes = 0

LEMMA BytesOfCount ==
    ASSUME NEW x, NEW n \in Nat
    PROVE  IsFiniteSet(BytesOf(x, n)) /\ Cardinality(BytesOf(x, n)) = n
<1> DEFINE f == [i \in 1..n |-> <<x, i>>]
<1>1. f \in Bijection(1..n, BytesOf(x, n))
  <2>1. f \in [1..n -> BytesOf(x, n)]
    BY DEF BytesOf
  <2>2. \A i, j \in 1..n : f[i] = f[j] => i = j
    OBVIOUS
  <2>3. \A b \in BytesOf(x, n) : \E i \in 1..n : f[i] = b
    BY DEF BytesOf
  <2> HIDE DEF f
  <2> QED BY <2>1, <2>2, <2>3, Fun_IsBij
<1>2. IsFiniteSet(1..n) /\ Cardinality(1..n) = n
  BY FS_Interval
<1> QED
  BY <1>1, <1>2, FS_Bijection DEF ExistsBijection

LEMMA BytesAdded ==
    ASSUME NEW S, IsFiniteSet(S), NEW x, NEW n \in Nat,
           S \cap BytesOf(x, n) = {}
    PROVE  /\ IsFiniteSet(S \cup BytesOf(x, n))
           /\ Cardinality(S \cup BytesOf(x, n)) = Cardinality(S) + n
<1>1. IsFiniteSet(BytesOf(x, n)) /\ Cardinality(BytesOf(x, n)) = n
  BY BytesOfCount
<1>2. /\ IsFiniteSet(S \cup BytesOf(x, n))
      /\ Cardinality(S \cup BytesOf(x, n)) =
             Cardinality(S) + Cardinality(BytesOf(x, n))
             - Cardinality(S \cap BytesOf(x, n))
  <2> DEFINE B == BytesOf(x, n)
  <2>1. IsFiniteSet(B)
    BY <1>1
  <2> HIDE DEF B
  <2>2. /\ IsFiniteSet(S \cup B)
        /\ Cardinality(S \cup B) = Cardinality(S) + Cardinality(B) - Cardinality(S \cap B)
    BY <2>1, FS_Union
  <2> QED BY <2>2 DEF B
<1>3. Cardinality(S \cap BytesOf(x, n)) = 0
  BY FS_EmptySet
<1>4. Cardinality(S) \in Nat
  BY FS_CardinalityType
<1> QED
  BY <1>1, <1>2, <1>3, <1>4

\* Threads that stay where they are keep what they reserved.
LEMMA SameBytes ==
    ASSUME Reserving' = Reserving, \A t \in Reserving : job'[t].want = job[t].want
    PROVE  ReservedBytes' = ReservedBytes
BY DEF ReservedBytes, BytesOf

LEMMA FewerBytes ==
    ASSUME \A t \in Reserving' : t \in Reserving /\ job'[t].want = job[t].want
    PROVE  ReservedBytes' \subseteq ReservedBytes
<1> SUFFICES ASSUME NEW b \in ReservedBytes' PROVE b \in ReservedBytes
  OBVIOUS
<1>1. PICK t \in Reserving' : b \in BytesOf(t, Size[job'[t].want])
  BY DEF ReservedBytes
<1>2. t \in Reserving /\ b \in BytesOf(t, Size[job[t].want])
  BY <1>1
<1> QED
  BY <1>2 DEF ReservedBytes

\* A thread that gives up takes its bytes with it.
LEMMA BytesRemoved ==
    ASSUME CacheTypeOK, IsFiniteSet(ReservedBytes),
           NEW t \in Reserving, Reserving' = Reserving \ {t},
           \A u \in Reserving' : job'[u].want = job[u].want
    PROVE  /\ IsFiniteSet(ReservedBytes') /\ Cardinality(ReservedBytes') \in Nat
           /\ Size[job[t].want] \in Nat
           /\ Cardinality(ReservedBytes) =
                  Cardinality(ReservedBytes') + Size[job[t].want]
<1>1. Size[job[t].want] \in Nat
  <2>1. t \in Threads /\ job[t].want # Torn /\ job[t].want \in Revisions \cup {Torn}
    BY DEF Reserving, CacheTypeOK, Jobs
  <2> QED BY <2>1, CacheAssumption
<1> DEFINE n == Size[job[t].want]
<1>2. ReservedBytes = ReservedBytes' \cup BytesOf(t, n)
  BY DEF ReservedBytes
<1>3. ReservedBytes' \cap BytesOf(t, n) = {}
  BY DEF ReservedBytes, BytesOf
<1>4. IsFiniteSet(ReservedBytes') /\ Cardinality(ReservedBytes') \in Nat
  BY <1>2, FS_Subset, FS_CardinalityType
<1> HIDE DEF n
<1>5. Cardinality(ReservedBytes) = Cardinality(ReservedBytes') + n
  BY <1>1, <1>2, <1>3, <1>4, BytesAdded DEF n
<1> QED
  BY <1>1, <1>4, <1>5 DEF n

LEMMA BytesStep ==
    ASSUME CacheTypeOK, LockInv, KeptInv, BytesInv, BytesAccounted,
           [CacheNext]_cacheVars
    PROVE  BytesInv' /\ BytesAccounted'
<1>0. /\ Cardinality(ReservedBytes) \in Nat /\ Cardinality(KeptBytes) \in Nat
      /\ bytes \in Nat
  BY FS_CardinalityType DEF BytesInv, CacheTypeOK
<1>k. kept' = kept => KeptBytes' = KeptBytes
  BY DEF KeptBytes
<1>e. kept' = {} => KeptBytes' = {} /\ IsFiniteSet(KeptBytes')
  BY FS_EmptySet DEF KeptBytes
<1>1. ASSUME NEW p \in Processes, AcquireLock(p) PROVE BytesInv' /\ BytesAccounted'
  <2>1. /\ job' = job /\ kept' = kept /\ bytes' = 0 /\ ~ready'
    BY <1>1 DEF AcquireLock
  <2>2. ReservedBytes' = ReservedBytes
    BY <2>1 DEF ReservedBytes, Reserving, At
  <2> QED BY <1>k, <2>1, <2>2 DEF BytesInv, BytesAccounted
<1>2. ASSUME NEW p \in Processes, DropCache(p) PROVE BytesInv' /\ BytesAccounted'
  <2>1. /\ kept' = {} /\ ~ready' /\ owner' = Nobody
        /\ \A t \in Reserving' : t \in Reserving /\ job'[t].want = job[t].want
    BY <1>2 DEF DropCache, CacheTypeOK, Jobs, Reserving, At
  <2>2. ReservedBytes' \subseteq ReservedBytes
    BY <2>1, FewerBytes
  <2>3. IsFiniteSet(ReservedBytes')
    BY <2>2, FS_Subset DEF BytesInv
  <2> QED BY <1>e, <2>1, <2>3 DEF BytesInv, BytesAccounted
<1>3. ASSUME NEW p \in Processes, Crash(p) PROVE BytesInv' /\ BytesAccounted'
  <2>1. /\ bytes' = bytes
        /\ \A u \in Threads : job'[u] = IF Home[u] = p THEN NoJob ELSE job[u]
    BY <1>3 DEF Crash
  <2>2. \A u \in Reserving' : u \in Reserving /\ job'[u] = job[u]
    BY <2>1 DEF Reserving, At, NoJob
  <2>3. ReservedBytes' \subseteq ReservedBytes
    BY <2>2, FewerBytes
  <2>4. IsFiniteSet(ReservedBytes')
    BY <2>3, FS_Subset DEF BytesInv
  <2>5. CASE owner = p
    <3>1. kept' = {} /\ ~ready' /\ owner' = Nobody
      BY <1>3, <2>5 DEF Crash
    <3> QED BY <1>e, <2>4, <3>1 DEF BytesInv, BytesAccounted
  <2>6. CASE owner # p
    <3>1. kept' = kept /\ ready' = ready /\ owner' = owner
      BY <1>3, <2>6 DEF Crash, CacheTypeOK
    <3>2. ready => ReservedBytes' = ReservedBytes
      <4>1. \A u \in Threads : Home[u] = p => u \notin Reserving
        BY <2>6 DEF CacheTypeOK
      <4>2. Reserving' = Reserving
        BY <2>1, <2>2, <4>1 DEF Reserving, At
      <4> QED BY <2>2, <4>2, SameBytes DEF Reserving
    <3> QED BY <1>k, <2>1, <2>4, <3>1, <3>2 DEF BytesInv, BytesAccounted
  <2> QED BY <2>5, <2>6
<1>4. ASSUME Reclaim \/ ReclaimFails PROVE BytesInv' /\ BytesAccounted'
  <2>1. /\ job' = job /\ kept' = kept /\ bytes' = bytes /\ ~ready' /\ ~ready
        /\ owner' \in {owner, Nobody}
    BY <1>4 DEF Reclaim, ReclaimFails
  <2>2. ReservedBytes' = ReservedBytes
    BY <2>1 DEF ReservedBytes, Reserving, At
  <2> QED BY <1>k, <2>1, <2>2 DEF BytesInv, BytesAccounted
<1>5. ASSUME Reclaimed PROVE BytesInv' /\ BytesAccounted'
  <2>1. Reserving' = {}
    BY <1>5 DEF Reclaimed, Reserving, At, CacheTypeOK
  <2>2. kept' = {} /\ bytes' = 0 /\ ready'
    BY <1>5 DEF Reclaimed, LockInv, BytesInv
  <2>3. ReservedBytes' = {}
    BY <2>1 DEF ReservedBytes
  <2> QED BY <1>e, <2>2, <2>3, FS_EmptySet DEF BytesInv, BytesAccounted
<1>6. ASSUME NEW t \in Threads, NEW r \in Revisions, Reserve(t, r)
      PROVE  BytesInv' /\ BytesAccounted'
  <2>1. t \notin Reserving /\ Reserving' = Reserving \cup {t}
    BY <1>6 DEF Reserve, Reserving, At, NoJob, CacheTypeOK
  <2>2. /\ job'[t].want = r
        /\ \A u \in Reserving : job'[u].want = job[u].want
    BY <1>6, <2>1 DEF Reserve, NoJob, CacheTypeOK, Reserving
  <2>3. ReservedBytes' = ReservedBytes \cup BytesOf(t, Size[r])
    BY <2>1, <2>2 DEF ReservedBytes
  <2>4. ReservedBytes \cap BytesOf(t, Size[r]) = {}
    BY <2>1 DEF ReservedBytes, BytesOf
  <2>5. Size[r] \in Nat
    BY CacheAssumption
  <2>6. /\ IsFiniteSet(ReservedBytes')
        /\ Cardinality(ReservedBytes') = Cardinality(ReservedBytes) + Size[r]
    BY <2>3, <2>4, <2>5, BytesAdded DEF BytesInv
  <2>7. kept' = kept /\ bytes' = bytes + Size[r] /\ ready /\ ready'
    BY <1>6 DEF Reserve
  <2> QED BY <1>0, <1>k, <2>5, <2>6, <2>7 DEF BytesInv, BytesAccounted
<1>7. ASSUME NEW t \in Threads,
             \/ CreatePartial(t) \/ Open(t) \/ Finish(t) \/ Publish(t) \/ Return(t)
             \/ Fail(t) \/ LinkAlias(t) \/ UnlinkAlias(t) \/ Remove(t)
      PROVE  BytesInv' /\ BytesAccounted'
  <2>1. \A u \in Threads : /\ job'[u].old = job[u].old
                           /\ (job'[u].step = "idle") <=> (job[u].step = "idle")
    BY <1>7 DEF CreatePartial, Open, Finish, Publish, Return, Fail, LinkAlias, UnlinkAlias,
                Remove, Goto, At, CacheTypeOK, Jobs, Making
  <2>2. \A u \in Threads : job'[u].want = job[u].want
    BY <1>7 DEF CreatePartial, Open, Finish, Publish, Return, Fail, LinkAlias, UnlinkAlias,
                Remove, Goto, CacheTypeOK, Jobs
  <2>3. ReservedBytes' = ReservedBytes
    BY <2>1, <2>2, SameReserving, SameBytes DEF Reserving
  <2>4. UNCHANGED <<owner, ready, bytes, kept>>
    BY <1>7 DEF CreatePartial, Open, Finish, Publish, Return, Fail, LinkAlias, UnlinkAlias,
                Remove
  <2> QED BY <1>k, <2>3, <2>4 DEF BytesInv, BytesAccounted
<1>8. ASSUME NEW t \in Threads, \/ RemoveFails(t) \/ ReleaseReservation(t)
      PROVE  BytesInv' /\ BytesAccounted'
  <2>1. /\ ready' = ready /\ owner' = owner
        /\ job' = [job EXCEPT ![t] = NoJob] /\ ~At(t, "idle")
    BY <1>8 DEF RemoveFails, ReleaseReservation, At
  <2>2. \A u \in Threads : u # t => job'[u] = job[u]
    BY <2>1 DEF CacheTypeOK
  <2>3. Reserving' = Reserving \ {t}
    BY <2>1, <2>2 DEF Reserving, At, NoJob, CacheTypeOK
  <2>4. \A u \in Reserving' : job'[u].want = job[u].want
    BY <2>2, <2>3 DEF Reserving
  <2>5. CASE job[t].old
    <3>1. Reserving' = Reserving
      BY <2>3, <2>5 DEF Reserving
    <3>2. kept' = kept /\ bytes' = bytes
      BY <1>8, <2>5 DEF RemoveFails, ReleaseReservation
    <3> QED BY <1>k, <2>1, <2>4, <3>1, <3>2, SameBytes DEF BytesInv, BytesAccounted
  <2>6. CASE ~job[t].old
    <3> DEFINE n == Size[job[t].want]
    <3>1. t \in Reserving /\ ready
      BY <2>1, <2>6 DEF Reserving, CacheTypeOK
    <3>2. /\ IsFiniteSet(ReservedBytes') /\ Cardinality(ReservedBytes') \in Nat
          /\ n \in Nat
          /\ Cardinality(ReservedBytes) = Cardinality(ReservedBytes') + n
      BY <2>3, <2>4, <3>1, BytesRemoved DEF BytesInv
    <3>3. CASE RemoveFails(t)
      <4> DEFINE k == [nonce |-> job[t].nonce, bytes |-> n]
      <4>1. kept' = kept \cup {k} /\ k.bytes = n /\ bytes' = bytes
        BY <2>6, <3>3 DEF RemoveFails
      <4>2. k \notin kept
        BY DEF KeptInv
      <4> HIDE DEF k, n
      <4>3. KeptBytes' = KeptBytes \cup BytesOf(k, n)
        BY <4>1 DEF KeptBytes
      <4>4. KeptBytes \cap BytesOf(k, n) = {}
        BY <4>2 DEF KeptBytes, BytesOf
      <4>5. /\ IsFiniteSet(KeptBytes')
            /\ Cardinality(KeptBytes') = Cardinality(KeptBytes) + n
        BY <3>2, <4>3, <4>4, BytesAdded DEF BytesInv
      <4> QED BY <1>0, <2>1, <3>1, <3>2, <4>1, <4>5 DEF BytesInv, BytesAccounted
    <3>4. CASE ReleaseReservation(t)
      <4>1. kept' = kept /\ bytes' = Minus(bytes, n)
        BY <2>6, <3>4 DEF ReleaseReservation
      <4> HIDE DEF n
      <4>2. bytes' = bytes - n
        BY <1>0, <3>1, <3>2, <4>1 DEF BytesAccounted, Minus
      <4> QED BY <1>0, <1>k, <2>1, <3>1, <3>2, <4>1, <4>2 DEF BytesInv, BytesAccounted
    <3> QED BY <1>8, <3>3, <3>4
  <2> QED BY <2>5, <2>6
<1>9. ASSUME NEW r \in Revisions, WriteInPlace(r) \/ Replace(r)
      PROVE  BytesInv' /\ BytesAccounted'
  <2>1. \A u \in Threads : /\ job'[u].old = job[u].old
                           /\ (job'[u].step = "idle") <=> (job[u].step = "idle")
                           /\ job'[u].want = job[u].want
    BY <1>9 DEF WriteInPlace, Replace, CacheTypeOK, Jobs
  <2>2. ReservedBytes' = ReservedBytes
    BY <2>1, SameReserving, SameBytes DEF Reserving
  <2>3. UNCHANGED <<owner, ready, bytes, kept>>
    BY <1>9 DEF WriteInPlace, Replace
  <2> QED BY <1>k, <2>2, <2>3 DEF BytesInv, BytesAccounted
<1>10. CASE UNCHANGED cacheVars
  <2>1. UNCHANGED <<owner, ready, bytes, kept, job>>
    BY <1>10 DEF cacheVars
  <2>2. ReservedBytes' = ReservedBytes
    BY <2>1 DEF ReservedBytes, Reserving, At
  <2> QED BY <1>k, <2>1, <2>2 DEF BytesInv, BytesAccounted
<1> QED BY <1>1, <1>2, <1>3, <1>4, <1>5, <1>6, <1>7, <1>8, <1>9, <1>10
        DEF CacheNext, Materialize, Lease

\* The values of a function on a finite set are no more than its arguments.
LEMMA ValuesBounded ==
    ASSUME NEW S, IsFiniteSet(S), NEW f, f = [x \in S |-> f[x]],
           NEW T, T = {f[x] : x \in S}
    PROVE  /\ IsFiniteSet(T) /\ Cardinality(T) <= Cardinality(S)
<1>1. f \in Surjection(S, T)
  BY DEF Surjection
<1> QED BY <1>1, FS_Surjection

-----------------------------------------------------------------------------

CacheInv ==
    /\ CacheTypeOK /\ LockInv /\ OldInv /\ KeptInv /\ FileInv
    /\ DiskIsReserved /\ EntriesAccounted
    /\ BytesInv /\ BytesAccounted

LEMMA CacheInvInit == CacheInit => CacheInv
<1> SUFFICES ASSUME CacheInit PROVE CacheInv
  OBVIOUS
<1> USE DEF CacheInit
<1>1. NoJob \in Jobs
  BY DEF NoJob, Jobs, Steps
<1>2. \A t \in Threads : job[t] = NoJob
  OBVIOUS
<1>3. CacheTypeOK
  <2>1. /\ owner \in Processes \cup {Nobody}
        /\ ready \in BOOLEAN
        /\ ready => owner # Nobody
    OBVIOUS
  <2>2. job \in [Threads -> Jobs]
    BY <1>1
  <2>3. Reserving = {}
    BY <1>2 DEF Reserving, At, NoJob
  <2>4. \A t \in Threads : At(t, "idle") /\ job[t].nonce = 0 /\ job[t].want = Torn
    BY <1>2 DEF At, NoJob
  <2> QED BY <2>1, <2>2, <2>3, <2>4 DEF CacheTypeOK
<1>4. LockInv /\ KeptInv /\ DiskIsReserved /\ EntriesAccounted
  BY FS_EmptySet DEF LockInv, KeptInv, DiskIsReserved, EntriesAccounted
<1>5. OldInv /\ FileInv
  BY <1>2 DEF OldInv, FileInv, At, NoJob
<1>6. BytesInv /\ BytesAccounted
  <2>1. ReservedBytes = {} /\ KeptBytes = {}
    BY <1>2 DEF ReservedBytes, KeptBytes, Reserving, At, NoJob
  <2> QED BY <2>1, FS_EmptySet DEF BytesInv, BytesAccounted
<1> QED BY <1>3, <1>4, <1>5, <1>6 DEF CacheInv

LEMMA CacheInvariant == CacheSpec => []CacheInv
<1>1. CacheInv /\ [CacheNext]_cacheVars => CacheInv'
  <2> SUFFICES ASSUME CacheInv, [CacheNext]_cacheVars PROVE CacheInv'
    OBVIOUS
  <2> USE DEF CacheInv
  <2>1. CacheTypeOK'
    BY TypeStep
  <2>2. LockInv'
    BY LockStep
  <2>3. OldInv' /\ KeptInv' /\ FileInv'
    BY OldStep, KeptStep, FileStep
  <2>4. DiskIsReserved' /\ EntriesAccounted'
    BY DiskStep, EntriesStep
  <2>5. BytesInv' /\ BytesAccounted'
    BY BytesStep
  <2> QED BY <2>1, <2>2, <2>3, <2>4, <2>5
<1> QED BY <1>1, CacheInvInit, PTL DEF CacheSpec

\* For every number of threads, processes and nonces and all limits: the types
\* of the cache, and only threads of the lock's owner hold reservations.
THEOREM CacheTypes == CacheSpec => []CacheTypeOK
<1>1. CacheInv => CacheTypeOK
  BY DEF CacheInv
<1> QED BY <1>1, CacheInvariant, PTL

\* The counter of active entries of reserve and release_reservation is exact on
\* every path: no reservation is lost, none is returned twice.
THEOREM ReservationsAccounted == CacheSpec => []EntriesAccounted
<1>1. CacheInv => EntriesAccounted
  BY DEF CacheInv
<1> QED BY <1>1, CacheInvariant, PTL

\* The counter of active bytes is the sum of what is reserved, for contents of
\* any length: a reservation returns the bytes it took.
THEOREM ReservedBytesAccounted == CacheSpec => []BytesAccounted
<1>1. CacheInv => BytesAccounted
  BY DEF CacheInv
<1> QED BY <1>1, CacheInvariant, PTL

\* Every file of a live cache is reserved, or was left by a failed cleanup of
\* materialize.
THEOREM NothingUnreserved == CacheSpec => []DiskIsReserved
<1>1. CacheInv => DiskIsReserved
  BY DEF CacheInv
<1> QED BY <1>1, CacheInvariant, PTL

\* A consumer reads verified bytes at the path of its lease, which no other
\* thread, process or rewrite of the source takes away.
THEOREM LeasedBytesStay == CacheSpec => []LeaseKeepsFile
<1>1. CacheInv => LeaseKeepsFile
  BY DEF CacheInv, FileInv, LeaseKeepsFile
<1> QED BY <1>1, CacheInvariant, PTL

\* The files of a live cache are no more than max_active_entries, by the count
\* of the reservations they have.
THEOREM DirectoryBounded == CacheSpec => []DiskBounded
<1>1. CacheInv => DiskBounded
  <2> SUFFICES ASSUME CacheInv, ready
               PROVE  Cardinality({f.nonce : f \in {g \in files : g.kind # "alias"}}
                                  \ abandoned) <= MaxEntries
    BY DEF DiskBounded
  <2> DEFINE used == {f.nonce : f \in {g \in files : g.kind # "alias"}} \ abandoned
             mine == {job[t].nonce : t \in Reserving}
             left == {k.nonce : k \in kept}
  <2>1. used \subseteq mine \cup left
    BY DEF CacheInv, DiskIsReserved, Reserved
  <2>2. IsFiniteSet(Reserving) /\ IsFiniteSet(kept)
    BY ReservingFinite DEF CacheInv, LockInv
  <2>3. IsFiniteSet(mine) /\ Cardinality(mine) <= Cardinality(Reserving)
    <3> DEFINE f == [t \in Reserving |-> job[t].nonce]
    <3>1. mine = {f[t] : t \in Reserving} /\ f = [t \in Reserving |-> f[t]]
      OBVIOUS
    <3> HIDE DEF f, mine
    <3> QED BY <2>2, <3>1, ValuesBounded
  <2>4. IsFiniteSet(left) /\ Cardinality(left) <= Cardinality(kept)
    <3> DEFINE f == [k \in kept |-> k.nonce]
    <3>1. left = {f[k] : k \in kept} /\ f = [k \in kept |-> f[k]]
      OBVIOUS
    <3> HIDE DEF f, left
    <3> QED BY <2>2, <3>1, ValuesBounded
  <2>5. /\ IsFiniteSet(mine \cup left)
        /\ Cardinality(mine \cup left) <= Cardinality(mine) + Cardinality(left)
    <3>1. IsFiniteSet(mine \cap left)
      BY <2>3, FS_Intersection
    <3>2. Cardinality(mine \cap left) \in Nat
      BY <3>1, FS_CardinalityType
    <3>3. /\ IsFiniteSet(mine \cup left)
          /\ Cardinality(mine \cup left) =
                 Cardinality(mine) + Cardinality(left) - Cardinality(mine \cap left)
      BY <2>3, <2>4, FS_Union
    <3>4. Cardinality(mine) \in Nat /\ Cardinality(left) \in Nat
      BY <2>3, <2>4, FS_CardinalityType
    <3> HIDE DEF mine, left
    <3> QED BY <3>2, <3>3, <3>4
  <2>6. Cardinality(used) <= Cardinality(mine \cup left) /\ IsFiniteSet(used)
    BY <2>1, <2>5, FS_Subset
  <2>7. entries = Cardinality(Reserving) + Cardinality(kept) /\ entries <= MaxEntries
    BY DEF CacheInv, EntriesAccounted, LockInv
  <2>8. /\ Cardinality(used) \in Nat /\ Cardinality(mine) \in Nat /\ Cardinality(left) \in Nat
        /\ Cardinality(mine \cup left) \in Nat
        /\ Cardinality(Reserving) \in Nat /\ Cardinality(kept) \in Nat
    BY <2>2, <2>3, <2>4, <2>5, <2>6, FS_CardinalityType
  <2> HIDE DEF used, mine, left
  <2>9. Cardinality(used) <= MaxEntries
    BY <2>3, <2>4, <2>5, <2>6, <2>7, <2>8, CacheAssumption
  <2> QED BY <2>9 DEF used
<1> QED BY <1>1, CacheInvariant, PTL
=============================================================================
