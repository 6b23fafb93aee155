-------------------------- MODULE ChromaIndexProofs --------------------------
(* Proofs about ChromaIndex. *)
EXTENDS ChromaIndex, TLAPS

LEMMA LeaseFacts ==
  ASSUME NEW S, NEW ttl \in Nat \ {0}, NEW l \in LeaseType(S, ttl)
  PROVE  /\ Absent \in LeaseType(S, ttl)
         /\ \A t \in S : Granted(t, ttl) \in LeaseType(S, ttl)
         /\ Renewed(l, ttl) \in LeaseType(S, ttl)
         /\ Aged(l) \in LeaseType(S, ttl)
         /\ l.left > 1 => Aged(l) = [owner |-> l.owner, left |-> l.left - 1]
BY DEF LeaseType, Absent, Granted, Renewed, IsFree, Get, Aged

LEMMA WritersFacts ==
  /\ NoToken \notin Writers
  /\ \A s \in Searches : ProcessOf[s] \in Writers
BY ConstantsAssumption DEF Writers

(* Every reachable state is well typed. *)
THEOREM TypeCorrect == Spec => []TypeOK
<1> USE ConstantsAssumption, WritersFacts DEF UnderLock, Ended
<1>1. Init => TypeOK
  <2>1. 1 \in Batch
    BY DEF Batch
  <2>2. Absent \in LeaseType(Writers, TTL)
    BY DEF Absent, LeaseType
  <2>3. ASSUME Init PROVE stored \in BOOLEAN /\ damaged \in BOOLEAN /\ ok \in [Writers -> BOOLEAN]
    BY <2>3, Zenon DEF Init
  <2>4. ASSUME Init
        PROVE  /\ pc \in [Writers -> {"idle", "waiting"} \cup UnderLock \cup Ended]
               /\ batch \in [Writers -> Batch] /\ age \in [Writers -> Nat]
               /\ waited \in [Writers \cup Searches -> Nat]
    BY <2>1, <2>4 DEF Init
  <2>5. ASSUME Init
        PROVE  /\ chunks \in [Batch -> {"none", "fresh", "stale", "kept"}]
               /\ find \in [Searches -> {"idle", "waiting", "querying",
                                         "rebuilding", "again"} \cup Ended]
               /\ crashes \in Nat /\ failures \in Nat /\ deletes \in Nat
               /\ agings \in Nat /\ lock \in LeaseType(Writers, TTL)
    BY <2>2, <2>5 DEF Init
  <2>6. QED BY <2>3, <2>4, <2>5 DEF TypeOK
<1>2. TypeOK /\ [Next]_vars => TypeOK'
  <2> SUFFICES ASSUME TypeOK, [Next]_vars PROVE TypeOK'
    OBVIOUS
  <2> USE DEF TypeOK, counts
  <2>1. ASSUME NEW j \in Jobs, StartIndexing(j) PROVE TypeOK'
    BY <2>1 DEF StartIndexing, Goto
  <2>2. ASSUME NEW w \in Writers, Acquire(w) PROVE TypeOK'
    <3>1. 1 \in Batch
      BY DEF Batch
    <3>2. lock' \in LeaseType(Writers, TTL)
      BY <2>2, LeaseFacts DEF Acquire
    <3>3. pc' \in [Writers -> {"idle", "waiting"} \cup UnderLock \cup Ended]
      BY <2>2 DEF Acquire, Goto
    <3>4. QED BY <2>2, <3>1, <3>2, <3>3 DEF Acquire
  <2>3. ASSUME NEW w \in Writers, Leave(w)
        PROVE  /\ pc' \in [Writers -> {"idle", "waiting"} \cup UnderLock \cup Ended]
               /\ find' \in [Searches -> {"idle", "waiting", "querying",
                                          "rebuilding", "again"} \cup Ended]
               /\ ok' \in [Writers -> BOOLEAN]
               /\ age' \in [Writers -> Nat]
    <3>1. ok' \in [Writers -> BOOLEAN]
      BY <2>3, Zenon DEF Leave
    <3>2. pc' \in [Writers -> {"idle", "waiting"} \cup UnderLock \cup Ended]
      BY <2>3 DEF Leave, Goto
    <3>3. find' \in [Searches -> {"idle", "waiting", "querying",
                                  "rebuilding", "again"} \cup Ended]
      BY <2>3 DEF Leave, Settle
    <3>4. age' \in [Writers -> Nat]
      BY <2>3 DEF Leave
    <3>5. QED BY <3>1, <3>2, <3>3, <3>4
  <2>4. ASSUME NEW w \in Writers, GiveUp(w) PROVE TypeOK'
    BY <2>4, <2>3 DEF GiveUp
  <2>5. ASSUME NEW w \in Writers, Check(w) PROVE TypeOK'
    <3>1. ok' \in [Writers -> BOOLEAN]
      <4>1. CASE ok' = [ok EXCEPT ![w] = Present # {}]
        BY <4>1, Zenon
      <4>2. CASE ok' = ok
        BY <4>2
      <4>3. QED BY <2>5, <4>1, <4>2 DEF Check
    <3>2. failures' \in Nat
      BY <2>5 DEF Check, CallFails
    <3>3. pc' \in [Writers -> {"idle", "waiting"} \cup UnderLock \cup Ended]
      BY <2>5 DEF Check, Goto
    <3>4. QED BY <2>5, <3>1, <3>2, <3>3 DEF Check
  <2>6. ASSUME NEW w \in Writers, WriteBatch(w) PROVE TypeOK'
    BY <2>6 DEF WriteBatch, Goto
  <2>7. ASSUME NEW w \in Writers, Refresh(w) PROVE TypeOK'
    <3>1. lock' \in LeaseType(Writers, TTL)
      BY <2>7, LeaseFacts DEF Refresh
    <3>2. CASE batch[w] < Batches
      <4>1. batch[w] + 1 \in Batch
        BY <3>2 DEF Batch
      <4>2. QED BY <2>7, <3>1, <3>2, <4>1 DEF Refresh, Goto
    <3>3. CASE ~(batch[w] < Batches)
      <4>1. ok' \in [Writers -> BOOLEAN]
        BY <2>7, <3>3, Zenon DEF Refresh
      <4>2. damaged' \in BOOLEAN
        BY <2>7, <3>3, Zenon DEF Refresh
      <4>3. 1 \in Batch
        BY DEF Batch
      <4>4. QED BY <2>7, <3>1, <3>3, <4>1, <4>2, <4>3 DEF Refresh, Goto
    <3>4. QED BY <3>2, <3>3
  <2>8. ASSUME NEW w \in Writers, BatchFails(w) PROVE TypeOK'
    BY <2>8 DEF BatchFails, CallFails, Goto
  <2>9. ASSUME NEW w \in Writers, CleanUp(w) PROVE TypeOK'
    <3>1. 1 \in Batch
      BY DEF Batch
    <3>2. /\ pc' = [pc EXCEPT ![w] = "releasing"]
          /\ batch' = [batch EXCEPT ![w] = 1]
          /\ UNCHANGED <<lock, stored, ok, waited, age, find, crashes, deletes,
                         agings>>
      BY <2>9 DEF CleanUp, Goto
    <3>3. chunks' \in [Batch -> {"none", "fresh", "stale", "kept"}] /\ failures' \in Nat
      BY <2>9 DEF CleanUp, CallFails
    <3>4. damaged' \in BOOLEAN
      BY <2>9, Zenon DEF CleanUp
    <3>5. QED BY <3>1, <3>2, <3>3, <3>4
  <2>10. ASSUME NEW w \in Writers, ReleaseGet(w) PROVE TypeOK'
    <3>1. CASE Get(lock) = w
      BY <2>10, <3>1 DEF ReleaseGet, Goto
    <3>2. CASE Get(lock) # w
      <4>1. Leave(w)
        BY <2>10, <3>2 DEF ReleaseGet
      <4>2. QED BY <2>10, <2>3, <4>1 DEF ReleaseGet
    <3>3. QED BY <3>1, <3>2
  <2>11. ASSUME NEW w \in Writers, ReleaseDel(w) PROVE TypeOK'
    BY <2>11, <2>3, LeaseFacts DEF ReleaseDel
  <2>12. ASSUME NEW w \in Writers, ReleaseFails(w) PROVE TypeOK'
    BY <2>12, <2>3 DEF ReleaseFails, CallFails
  <2>13. ASSUME NEW s \in Searches, Search(s) PROVE TypeOK'
    <3>1. CASE StartSearch(s) \/ WaitOver(s)
      BY <3>1 DEF StartSearch, WaitOver, SearchTo
    <3>2. CASE Query(s)
      BY <3>2 DEF Query, SearchTo, Goto
    <3>3. CASE QueryAgain(s) \/ QueryFails(s)
      BY <3>3 DEF QueryAgain, QueryFails, SearchTo, CallFails
    <3>4. QED BY <2>13, <3>1, <3>2, <3>3 DEF Search
  <2>14. CASE ForceDelete
    <3>1. damaged' \in BOOLEAN
      BY <2>14, Zenon DEF ForceDelete
    <3>2. QED BY <2>14, <3>1 DEF ForceDelete
  <2>15. CASE Sweep
    BY <2>15 DEF Sweep
  <2>16. CASE GrowOld
    BY <2>16 DEF GrowOld
  <2>17. ASSUME NEW w \in Writers, Crash(w) PROVE TypeOK'
    <3>1. ok' \in [Writers -> BOOLEAN] /\ damaged' \in BOOLEAN
      BY <2>17, Zenon DEF Crash
    <3>2. 1 \in Batch
      BY DEF Batch
    <3>3. find' \in [Searches -> {"idle", "waiting", "querying",
                                  "rebuilding", "again"} \cup Ended]
      BY <2>17 DEF Crash
    <3>4. pc' \in [Writers -> {"idle", "waiting"} \cup UnderLock \cup Ended]
      BY <2>17 DEF Crash, Goto
    <3>5. waited' \in [Writers \cup Searches -> Nat]
      BY <2>17 DEF Crash
    <3>6. QED BY <2>17, <3>1, <3>2, <3>3, <3>4, <3>5 DEF Crash
  <2>18. CASE Tick
    BY <2>18, LeaseFacts DEF Tick
  <2>19. CASE UNCHANGED vars
    BY <2>19 DEF vars
  <2>20. QED
    BY <2>1, <2>2, <2>4, <2>5, <2>6, <2>7, <2>8, <2>9, <2>10, <2>11, <2>12,
       <2>13, <2>14, <2>15, <2>16, <2>17, <2>18, <2>19 DEF Next, Writer
<1>3. QED BY <1>1, <1>2, PTL DEF Spec

-----------------------------------------------------------------------------
(* As long as the time between two refreshes is shorter than the TTL, whoever *)
(* is under the lock owns the lease.                                         *)

\* A step that moves one writer only, outside the lock before and after, or
\* under it before and after, with the lease and its age left alone.
LEMMA LeaseKept ==
  ASSUME TypeOK, LeaseInv, NEW w \in Writers,
         pc' \in [Writers -> {"idle", "waiting"} \cup UnderLock \cup Ended],
         lock' = lock,
         \A v \in Writers : v # w => pc'[v] = pc[v] /\ age'[v] = age[v],
         \/ pc'[w] \notin UnderLock /\ age'[w] = 0
         \/ pc[w] \in UnderLock /\ pc'[w] \in UnderLock /\ age'[w] = age[w]
  PROVE  LeaseInv'
<1>1. \A v \in Writers : v # w => (v \in Holders' <=> v \in Holders)
  BY DEF Holders
<1>2. HolderOwnsLease'
  BY <1>1 DEF LeaseInv, HolderOwnsLease, Holders
<1>3. TimersAtRest'
  BY <1>1 DEF LeaseInv, TimersAtRest, Holders
<1>4. QED BY <1>2, <1>3 DEF LeaseInv

LEMMA LeaseInvariant ==
  ASSUME MaxBatch < TTL
  PROVE  Spec => []LeaseInv
<1> USE ConstantsAssumption, WritersFacts
<1>1. Init => LeaseInv
  BY DEF Init, LeaseInv, HolderOwnsLease, TimersAtRest, Holders, UnderLock
<1>2. TypeOK /\ TypeOK' /\ LeaseInv /\ [Next]_vars => LeaseInv'
  <2> SUFFICES ASSUME TypeOK, TypeOK', LeaseInv, [Next]_vars PROVE LeaseInv'
    OBVIOUS
  <2>0. pc' \in [Writers -> {"idle", "waiting"} \cup UnderLock \cup Ended]
    BY DEF TypeOK
  <2> USE <2>0
  <2>1. ASSUME NEW j \in Jobs, StartIndexing(j) PROVE LeaseInv'
    <3>1. j \in Writers /\ pc[j] = "idle" /\ pc'[j] = "waiting" /\ age' = age /\ lock' = lock
      BY <2>1 DEF StartIndexing, Goto, TypeOK, Writers
    <3>2. \A v \in Writers : v # j => pc'[v] = pc[v]
      BY <2>1 DEF StartIndexing, Goto, TypeOK
    <3>3. age[j] = 0
      BY <3>1 DEF LeaseInv, TimersAtRest, Holders, UnderLock
    <3>4. QED BY <3>1, <3>2, <3>3, LeaseKept DEF UnderLock
  <2>2. ASSUME NEW w \in Writers, Acquire(w) PROVE LeaseInv'
    <3>1. \A v \in Writers : v \notin Holders
      BY <2>2 DEF Acquire, IsFree, LeaseInv, HolderOwnsLease, Holders
    <3>2. /\ lock' = [owner |-> w, left |-> TTL]
          /\ age' = age
          /\ \A v \in Writers : v # w => pc'[v] = pc[v]
      BY <2>2 DEF Acquire, Goto, Granted, TypeOK
    <3>3. pc'[w] \in UnderLock
      BY <2>2 DEF Acquire, Goto, TypeOK, UnderLock
    <3>4. \A v \in Writers : age[v] = 0
      BY <3>1 DEF LeaseInv, TimersAtRest
    <3>5. \A v \in Writers : v \in Holders' => v = w
      BY <3>1, <3>2 DEF Holders
    <3>6. HolderOwnsLease'
      BY <3>2, <3>4, <3>5 DEF HolderOwnsLease, Get, Holders
    <3>7. QED BY <3>2, <3>4, <3>6 DEF LeaseInv, TimersAtRest
  <2>3. ASSUME NEW w \in Writers, Leave(w), lock' = lock PROVE LeaseInv'
    <3>1. /\ pc'[w] \in {"idle", "done", "failed"}
          /\ age'[w] = 0
          /\ \A v \in Writers : v # w => pc'[v] = pc[v] /\ age'[v] = age[v]
      BY <2>3 DEF Leave, Goto, TypeOK
    <3>2. QED BY <2>3, <3>1, LeaseKept DEF UnderLock
  <2>4. ASSUME NEW w \in Writers, GiveUp(w) PROVE LeaseInv'
    BY <2>4, <2>3 DEF GiveUp
  <2>5. ASSUME NEW w \in Writers,
               Check(w) \/ WriteBatch(w) \/ BatchFails(w) \/ CleanUp(w)
        PROVE  LeaseInv'
    <3>1. /\ lock' = lock /\ age' = age
          /\ pc[w] \in UnderLock /\ pc'[w] \in UnderLock
          /\ \A v \in Writers : v # w => pc'[v] = pc[v]
      BY <2>5 DEF Check, WriteBatch, BatchFails, CleanUp, Goto, TypeOK, UnderLock
    <3>2. QED BY <3>1, LeaseKept
  <2>6. ASSUME NEW w \in Writers, Refresh(w) PROVE LeaseInv'
    <3>1. /\ pc[w] = "refreshing" /\ pc'[w] \in {"writing", "releasing"}
          /\ age'[w] = 0
          /\ \A v \in Writers : v # w => pc'[v] = pc[v] /\ age'[v] = age[v]
      BY <2>6 DEF Refresh, Goto, TypeOK
    <3>2. Get(lock) = w
      BY <3>1 DEF LeaseInv, HolderOwnsLease, Holders, UnderLock
    <3>3. lock' = [lock EXCEPT !.left = TTL]
      BY <2>6, <3>2 DEF Refresh, Renewed, IsFree
    <3>4. lock'.owner = w /\ lock'.left = TTL
      BY <3>2, <3>3 DEF TypeOK, LeaseType, Get
    <3>5. \A v \in Writers : v # w => v \notin Holders /\ v \notin Holders'
      BY <3>1, <3>2 DEF LeaseInv, HolderOwnsLease, Holders
    <3>6. w \in Holders'
      BY <3>1 DEF Holders, UnderLock
    <3>7. HolderOwnsLease'
      BY <3>1, <3>4, <3>5 DEF HolderOwnsLease, Get, Holders
    <3>8. TimersAtRest'
      BY <3>1, <3>5, <3>6 DEF LeaseInv, TimersAtRest
    <3>9. QED BY <3>7, <3>8 DEF LeaseInv
  <2>7. ASSUME NEW w \in Writers, ReleaseGet(w) PROVE LeaseInv'
    <3>1. CASE Get(lock) = w
      <4>1. /\ lock' = lock /\ age' = age
            /\ pc[w] \in UnderLock /\ pc'[w] \in UnderLock
            /\ \A v \in Writers : v # w => pc'[v] = pc[v]
        BY <2>7, <3>1 DEF ReleaseGet, Goto, TypeOK, UnderLock
      <4>2. QED BY <4>1, LeaseKept
    <3>2. CASE Get(lock) # w
      BY <2>7, <3>2, <2>3 DEF ReleaseGet
    <3>3. QED BY <3>1, <3>2
  <2>8. ASSUME NEW w \in Writers, ReleaseDel(w) PROVE LeaseInv'
    <3>1. /\ pc[w] = "deleting" /\ pc'[w] \in {"idle", "done", "failed"}
          /\ age'[w] = 0
          /\ \A v \in Writers : v # w => pc'[v] = pc[v] /\ age'[v] = age[v]
      BY <2>8 DEF ReleaseDel, Leave, Goto, TypeOK
    <3>2. \A v \in Writers : v # w => v \notin Holders
      BY <3>1 DEF LeaseInv, HolderOwnsLease, Holders, UnderLock
    <3>3. \A v \in Writers : v \notin Holders'
      BY <3>1, <3>2 DEF Holders, UnderLock
    <3>4. QED BY <3>1, <3>2, <3>3 DEF LeaseInv, HolderOwnsLease, TimersAtRest, Holders
  <2>9. ASSUME NEW w \in Writers, ReleaseFails(w) PROVE LeaseInv'
    BY <2>9, <2>3 DEF ReleaseFails
  <2>10. ASSUME NEW s \in Searches, Query(s) PROVE LeaseInv'
    <3>1. lock' = lock /\ age' = age
      BY <2>10 DEF Query
    <3>2. CASE pc' = pc
      BY <3>1, <3>2 DEF LeaseInv, HolderOwnsLease, TimersAtRest, Holders
    <3>3. CASE pc[ProcessOf[s]] = "idle" /\ Goto(ProcessOf[s], "waiting")
      <4>1. /\ pc'[ProcessOf[s]] = "waiting"
            /\ \A v \in Writers : v # ProcessOf[s] => pc'[v] = pc[v]
        BY <3>3 DEF Goto, TypeOK
      <4>2. age[ProcessOf[s]] = 0
        BY <3>3 DEF LeaseInv, TimersAtRest, Holders, UnderLock
      <4>3. QED BY <3>1, <4>1, <4>2, LeaseKept DEF UnderLock
    <3>4. QED BY <2>10, <3>2, <3>3 DEF Query
  <2>11. ASSUME UNCHANGED <<lock, pc, age>> PROVE LeaseInv'
    BY <2>11 DEF LeaseInv, HolderOwnsLease, TimersAtRest, Holders
  <2>12. ASSUME NEW w \in Writers, Crash(w) PROVE LeaseInv'
    <3>1. /\ lock' = lock
          /\ pc'[w] \in {"idle", "crashed"} /\ age'[w] = 0
          /\ \A v \in Writers : v # w => pc'[v] = pc[v] /\ age'[v] = age[v]
      BY <2>12 DEF Crash, Goto, TypeOK
    <3>2. QED BY <3>1, LeaseKept DEF UnderLock
  <2>13. CASE Tick
    <3>1. pc' = pc /\ lock' = Aged(lock)
      BY <2>13 DEF Tick
    <3>2. \A v \in Writers : age'[v] = IF v \in Holders THEN age[v] + 1 ELSE 0
      BY <2>13 DEF Tick
    <3>3. Holders' = Holders
      BY <3>1 DEF Holders
    <3>4. ASSUME NEW v \in Writers, v \in Holders
          PROVE  lock'.owner = v /\ lock'.left = lock.left - 1 /\ age[v] < MaxBatch
      <4>1. age[v] < MaxBatch /\ age[v] \in Nat
        BY <2>13, <3>4 DEF Tick, TypeOK
      <4>2. lock.owner = v /\ lock.left + age[v] >= TTL /\ lock.left \in Nat
        BY <3>4 DEF LeaseInv, HolderOwnsLease, Get, TypeOK, LeaseType
      <4>3. lock.left > 1
        BY <4>1, <4>2
      <4>4. lock' = [owner |-> lock.owner, left |-> lock.left - 1]
        BY <3>1, <4>3, LeaseFacts DEF TypeOK
      <4>5. QED BY <4>1, <4>2, <4>4
    <3>5. \A v \in Writers : age[v] \in Nat /\ lock.left \in Nat
      BY DEF TypeOK, LeaseType
    <3>6. HolderOwnsLease'
      BY <3>2, <3>3, <3>4, <3>5 DEF LeaseInv, HolderOwnsLease, Get, Holders
    <3>7. TimersAtRest'
      BY <3>2, <3>3 DEF TimersAtRest
    <3>8. QED BY <3>6, <3>7 DEF LeaseInv
  <2>14. QED
    <3>1. ASSUME NEW s \in Searches, Search(s) PROVE LeaseInv'
      BY <3>1, <2>10, <2>11 DEF Search, StartSearch, WaitOver, QueryAgain, QueryFails
    <3>2. ASSUME ForceDelete \/ Sweep \/ GrowOld \/ UNCHANGED vars PROVE LeaseInv'
      BY <3>2, <2>11 DEF ForceDelete, Sweep, GrowOld, vars
    <3>3. ASSUME NEW w \in Writers, Writer(w) PROVE LeaseInv'
      BY <3>3, <2>2, <2>4, <2>5, <2>6, <2>7, <2>8, <2>9 DEF Writer
    <3>4. QED BY <2>1, <2>12, <2>13, <3>1, <3>2, <3>3 DEF Next
<1>3. QED BY <1>1, <1>2, TypeCorrect, PTL DEF Spec

-----------------------------------------------------------------------------
(* What the lease keeps in order: the chunks of the report.                  *)

LEMMA OneHolder ==
  ASSUME LeaseInv, NEW v \in Holders, NEW w \in Holders
  PROVE  v = w
BY DEF LeaseInv, HolderOwnsLease, Holders

LEMMA IndexingHolds == Indexing \subseteq Holders
BY DEF Indexing, Holders, MidIndexing, UnderLock

\* A step that touches no chunk, and at most takes an indexing to its clean-up.
LEMMA ChunksKept ==
  ASSUME TypeOK, ChunksInv,
         chunks' = chunks, stored' = stored, damaged' = damaged,
         Indexing' = Indexing,
         \A w \in Writers :
           pc'[w] \in {"checking", "writing", "refreshing"} =>
             \/ pc'[w] = pc[w] /\ batch'[w] = batch[w]
             \/ pc'[w] = "checking" /\ batch'[w] = 1
  PROVE  ChunksInv'
<1>1. Uniform(Batch)' <=> Uniform(Batch)
  BY DEF Uniform
<1>2. ASSUME NEW w \in Indexing', pc'[w] # "cleaning"
      PROVE  /\ w \in Indexing /\ pc[w] # "cleaning"
             /\ Written(w)' = Written(w)
             /\ Uniform(Batch \ Written(w)) => Uniform(Batch \ Written(w))'
  <2>1. pc'[w] = pc[w] /\ batch'[w] = batch[w]
    BY <1>2 DEF Indexing, MidIndexing
  <2>2. Written(w)' = Written(w)
    BY <2>1 DEF Written
  <2>3. QED BY <1>2, <2>1, <2>2 DEF Uniform
<1>3. Mark' = Mark
  BY DEF Mark
<1>4. ChunksAgree'
  BY <1>1, <1>2, <1>3 DEF ChunksInv, ChunksAgree
<1>5. RebuildsStartEmpty'
  BY ConstantsAssumption DEF ChunksInv, RebuildsStartEmpty, Present, Writers
<1>6. QED BY <1>4, <1>5 DEF ChunksInv

\* A step after which nobody indexes.
LEMMA NobodyIndexes ==
  ASSUME ChunksInv, Indexing' = {},
         ~damaged' => Uniform(Batch)',
         \A w \in Writers : pc'[w] = "checking" => pc[w] = "checking" /\ batch'[w] = batch[w]
  PROVE  ChunksInv'
BY ConstantsAssumption DEF ChunksInv, ChunksAgree, RebuildsStartEmpty, Indexing, MidIndexing, Writers

LEMMA ChunksInvariant ==
  ASSUME MaxBatch < TTL
  PROVE  Spec => []ChunksInv
<1> USE ConstantsAssumption, WritersFacts
<1>1. Init => ChunksInv
  <2>1. ASSUME Init
        PROVE  /\ \A w \in Writers : pc[w] = "idle"
               /\ \A b \in Batch : chunks[b] = "none"
    BY <2>1 DEF Init
  <2>2. ASSUME Init PROVE ChunksAgree
    BY <2>1, <2>2 DEF ChunksAgree, Indexing, MidIndexing, Uniform
  <2>3. ASSUME Init PROVE RebuildsStartEmpty
    BY <2>1, <2>3 DEF RebuildsStartEmpty, Writers
  <2>4. QED BY <2>2, <2>3 DEF ChunksInv
<1>2. TypeOK /\ TypeOK' /\ LeaseInv /\ LeaseInv' /\ ChunksInv /\ [Next]_vars
        => ChunksInv'
  <2> SUFFICES ASSUME TypeOK, TypeOK', LeaseInv, LeaseInv', ChunksInv, [Next]_vars
               PROVE  ChunksInv'
    OBVIOUS
  <2>0. \A v, w \in Indexing : v = w
    BY OneHolder, IndexingHolds
  <2>1. ASSUME NEW j \in Jobs, StartIndexing(j) PROVE ChunksInv'
    <3>1. \A v \in Writers : v # j => pc'[v] = pc[v]
      BY <2>1 DEF StartIndexing, Goto, TypeOK
    <3>2. j \in Writers /\ pc[j] = "idle" /\ pc'[j] = "waiting"
      BY <2>1 DEF StartIndexing, Goto, TypeOK, Writers
    <3>3. Indexing' = Indexing
      BY <3>1, <3>2 DEF Indexing, MidIndexing
    <3>4. QED BY <2>1, <3>1, <3>2, <3>3, ChunksKept DEF StartIndexing
  <2>2. ASSUME NEW w \in Writers, Acquire(w) PROVE ChunksInv'
    <3>1. Indexing = {}
      BY <2>2, IndexingHolds DEF Acquire, IsFree, LeaseInv, HolderOwnsLease, Holders
    <3>2. /\ \A v \in Writers : v # w => pc'[v] = pc[v] /\ batch'[v] = batch[v]
          /\ batch'[w] = 1
          /\ UNCHANGED <<chunks, stored, damaged>>
      BY <2>2 DEF Acquire, Goto, TypeOK
    <3>3. CASE w \in Processes
      <4>1. pc'[w] = "checking"
        BY <2>2, <3>3 DEF Acquire, Goto, TypeOK
      <4>2. Indexing' = Indexing
        BY <3>1, <3>2, <4>1 DEF Indexing, MidIndexing
      <4>3. QED BY <3>2, <4>1, <4>2, ChunksKept
    <3>4. CASE w \notin Processes
      <4>1. pc'[w] = "writing"
        BY <2>2, <3>4 DEF Acquire, Goto, TypeOK
      <4>2. Indexing' = {w}
        BY <3>1, <3>2, <4>1 DEF Indexing, MidIndexing
      <4>3. Written(w)' = {}
        BY <3>2, <4>1 DEF Written, Batch
      <4>4. ~damaged' => Uniform(Batch \ Written(w))'
        BY <3>1, <3>2, <4>3 DEF ChunksInv, ChunksAgree, Uniform
      <4>5. ChunksAgree'
        BY <4>2, <4>3, <4>4 DEF ChunksAgree
      <4>6. RebuildsStartEmpty'
        BY <3>2, <3>4 DEF ChunksInv, RebuildsStartEmpty, Present, Writers
      <4>7. QED BY <4>5, <4>6 DEF ChunksInv
    <3>5. QED BY <3>3, <3>4
  <2>3. ASSUME NEW w \in Writers, Leave(w), pc[w] \notin MidIndexing,
               UNCHANGED <<chunks, stored, damaged, batch>>
        PROVE  ChunksInv'
    <3>1. /\ pc'[w] \in {"idle", "done", "failed"}
          /\ \A v \in Writers : v # w => pc'[v] = pc[v]
      BY <2>3 DEF Leave, Goto, TypeOK
    <3>2. Indexing' = Indexing
      BY <2>3, <3>1 DEF Indexing, MidIndexing
    <3>3. QED BY <2>3, <3>1, <3>2, ChunksKept
  <2>4. ASSUME NEW w \in Writers, GiveUp(w) PROVE ChunksInv'
    BY <2>4, <2>3 DEF GiveUp, MidIndexing
  <2>5. ASSUME NEW w \in Writers, Check(w) PROVE ChunksInv'
    <3>1. /\ pc[w] = "checking"
          /\ \A v \in Writers : v # w => pc'[v] = pc[v]
          /\ UNCHANGED <<chunks, stored, damaged, batch>>
      BY <2>5 DEF Check, Goto, TypeOK
    <3>2. \A v \in Writers : v # w => v \notin Indexing
      BY <3>1, OneHolder, IndexingHolds DEF Holders, UnderLock
    <3>3. CASE pc'[w] = "releasing"
      <4>1. Indexing' = Indexing
        BY <3>1, <3>3 DEF Indexing, MidIndexing
      <4>2. QED BY <3>1, <3>3, <4>1, ChunksKept
    <3>4. CASE pc'[w] = "writing" /\ Present = {}
      <4>1. Indexing' = {w}
        BY <3>1, <3>2, <3>4 DEF Indexing, MidIndexing
      <4>2. \A b \in Batch : chunks'[b] = "none"
        BY <3>1, <3>4 DEF Present
      <4>3. batch'[w] = 1
        BY <3>1 DEF ChunksInv, RebuildsStartEmpty
      <4>4. Written(w)' = {}
        BY <3>4, <4>3 DEF Written, Batch
      <4>5. ChunksAgree'
        BY <4>1, <4>2, <4>4 DEF ChunksAgree, Uniform
      <4>6. RebuildsStartEmpty'
        BY <3>1, <3>4, <4>2, <4>3 DEF ChunksInv, RebuildsStartEmpty, Present, Writers
      <4>7. QED BY <4>5, <4>6 DEF ChunksInv
    <3>5. pc'[w] = "releasing" \/ (pc'[w] = "writing" /\ Present = {})
      BY <2>5 DEF Check, Goto, TypeOK
    <3>6. QED BY <3>3, <3>4, <3>5
  <2>6. ASSUME NEW w \in Writers, WriteBatch(w) PROVE ChunksInv'
    <3>1. /\ pc[w] = "writing" /\ pc'[w] = "refreshing"
          /\ \A v \in Writers : v # w => pc'[v] = pc[v]
          /\ chunks' = [chunks EXCEPT ![batch[w]] = Mark]
          /\ UNCHANGED <<stored, damaged, batch>>
      BY <2>6 DEF WriteBatch, Goto, TypeOK, Mark
    <3>2. \A v \in Writers : v # w => v \notin Holders
      BY <3>1, OneHolder DEF Holders, UnderLock
    <3>3. Indexing = {w} /\ Indexing' = {w}
      BY <3>1, <3>2, IndexingHolds DEF Indexing, MidIndexing
    <3>4. batch[w] \in Batch /\ batch[w] \in Nat
      BY DEF TypeOK, Batch
    <3>5. /\ Written(w)' = Written(w) \cup {batch[w]}
          /\ batch[w] \notin Written(w)
      BY <3>1, <3>4 DEF Written, Batch
    <3>6. /\ chunks'[batch[w]] = Mark
          /\ \A b \in Batch : b # batch[w] => chunks'[b] = chunks[b]
          /\ Mark' = Mark
      BY <3>1, <3>4 DEF TypeOK, Mark
    <3>7. /\ \A b \in Written(w) : chunks[b] \in {Mark, "none"}
          /\ ~damaged => /\ \A b \in Written(w) : chunks[b] = Mark
                         /\ Uniform(Batch \ Written(w))
      BY <3>1, <3>3 DEF ChunksInv, ChunksAgree
    <3>8. \A b \in Written(w)' : b \in Batch /\ chunks'[b] \in {Mark, "none"}
      BY <3>5, <3>6, <3>7, <3>4 DEF Written
    <3>9. ASSUME ~damaged'
          PROVE  /\ \A b \in Written(w)' : chunks'[b] = Mark
                 /\ Uniform(Batch \ Written(w))'
      <4>1. ~damaged
        BY <3>1, <3>9
      <4>2. QED BY <3>5, <3>6, <3>7, <4>1 DEF Uniform, Written
    <3>10. ChunksAgree'
      BY <3>3, <3>6, <3>8, <3>9 DEF ChunksAgree
    <3>11. RebuildsStartEmpty'
      BY <3>1, <3>2 DEF RebuildsStartEmpty, Holders, UnderLock, Writers
    <3>12. QED BY <3>10, <3>11 DEF ChunksInv
  <2>7. ASSUME NEW w \in Writers, Refresh(w) PROVE ChunksInv'
    <3>1. /\ pc[w] = "refreshing"
          /\ \A v \in Writers : v # w => pc'[v] = pc[v] /\ batch'[v] = batch[v]
          /\ UNCHANGED <<chunks, stored>>
      BY <2>7 DEF Refresh, Goto, TypeOK
    <3>2. \A v \in Writers : v # w => v \notin Holders
      BY <3>1, OneHolder DEF Holders, UnderLock
    <3>3. Indexing = {w}
      BY <3>1, <3>2, IndexingHolds DEF Indexing, MidIndexing
    <3>4. /\ \A b \in Written(w) : chunks[b] \in {Mark, "none"}
          /\ ~damaged => /\ \A b \in Written(w) : chunks[b] = Mark
                         /\ Uniform(Batch \ Written(w))
      BY <3>1, <3>3 DEF ChunksInv, ChunksAgree
    <3>5. batch[w] \in Nat /\ batch[w] >= 1 /\ batch[w] <= Batches
      BY DEF TypeOK, Batch
    <3>6. CASE batch[w] < Batches
      <4>1. pc'[w] = "writing" /\ batch'[w] = batch[w] + 1 /\ damaged' = damaged
        BY <2>7, <3>6 DEF Refresh, Goto, TypeOK
      <4>2. Written(w)' = Written(w)
        BY <3>1, <3>5, <4>1 DEF Written, Batch
      <4>3. Indexing' = {w}
        BY <3>1, <3>2, <4>1, IndexingHolds DEF Indexing, MidIndexing
      <4>4. ChunksAgree'
        BY <3>1, <3>4, <4>1, <4>2, <4>3 DEF ChunksAgree, Uniform, Mark
      <4>5. RebuildsStartEmpty'
        BY <3>1, <3>2, <3>5, <4>1 DEF RebuildsStartEmpty, Holders, UnderLock, Writers
      <4>6. QED BY <4>4, <4>5 DEF ChunksInv
    <3>7. CASE ~(batch[w] < Batches)
      <4>1. pc'[w] = "releasing" /\ damaged' = (damaged /\ ~Whole)
        BY <2>7, <3>7 DEF Refresh, Goto, TypeOK
      <4>2. Written(w) = Batch
        BY <3>1, <3>5, <3>7 DEF Written, Batch
      <4>3. Indexing' = {}
        BY <3>1, <3>2, <4>1, IndexingHolds DEF Indexing, MidIndexing
      <4>4. CASE ~damaged
        BY <3>1, <3>2, <3>4, <4>1, <4>2, <4>3, <4>4, NobodyIndexes
           DEF Uniform, Holders, UnderLock
      <4>5. CASE Whole
        <5>1. \A b \in Batch : chunks[b] = Mark
          BY <3>4, <4>2, <4>5 DEF Whole, Present
        <5>2. Uniform(Batch)'
          BY <3>1, <5>1 DEF Uniform
        <5>3. QED BY <3>1, <4>1, <4>3, <5>2, NobodyIndexes
      <4>6. CASE damaged /\ ~Whole
        BY <3>1, <4>1, <4>3, <4>6, NobodyIndexes
      <4>7. QED BY <4>4, <4>5, <4>6
    <3>8. QED BY <3>6, <3>7
  <2>8. ASSUME NEW w \in Writers, BatchFails(w) PROVE ChunksInv'
    <3>1. /\ pc[w] \in {"writing", "refreshing"} /\ pc'[w] = "cleaning"
          /\ \A v \in Writers : v # w => pc'[v] = pc[v]
          /\ UNCHANGED <<chunks, stored, damaged, batch>>
      BY <2>8 DEF BatchFails, Goto, TypeOK
    <3>2. Indexing' = Indexing
      BY <3>1 DEF Indexing, MidIndexing
    <3>3. QED BY <3>1, <3>2, ChunksKept
  <2>9. ASSUME NEW w \in Writers, CleanUp(w) PROVE ChunksInv'
    <3>1. /\ pc[w] = "cleaning" /\ pc'[w] = "releasing"
          /\ \A v \in Writers : v # w => pc'[v] = pc[v] /\ batch'[v] = batch[v]
      BY <2>9 DEF CleanUp, Goto, TypeOK
    <3>2. \A v \in Writers : v # w => v \notin Holders
      BY <3>1, OneHolder DEF Holders, UnderLock
    <3>3. Indexing' = {}
      BY <3>1, <3>2, IndexingHolds DEF Indexing, MidIndexing
    <3>4. ~damaged' => Uniform(Batch)'
      BY <2>9 DEF CleanUp, Uniform
    <3>5. QED BY <3>1, <3>3, <3>4, NobodyIndexes
  <2>10. ASSUME NEW w \in Writers, ReleaseGet(w) PROVE ChunksInv'
    <3>1. CASE Get(lock) = w
      <4>1. /\ pc[w] = "releasing" /\ pc'[w] = "deleting"
            /\ \A v \in Writers : v # w => pc'[v] = pc[v]
            /\ UNCHANGED <<chunks, stored, damaged, batch>>
        BY <2>10, <3>1 DEF ReleaseGet, Goto, TypeOK
      <4>2. Indexing' = Indexing
        BY <4>1 DEF Indexing, MidIndexing
      <4>3. QED BY <4>1, <4>2, ChunksKept
    <3>2. CASE Get(lock) # w
      BY <2>10, <3>2, <2>3 DEF ReleaseGet, MidIndexing
    <3>3. QED BY <3>1, <3>2
  <2>11. ASSUME NEW w \in Writers, ReleaseDel(w) \/ ReleaseFails(w) PROVE ChunksInv'
    BY <2>11, <2>3 DEF ReleaseDel, ReleaseFails, MidIndexing
  <2>12. ASSUME NEW s \in Searches, Query(s) PROVE ChunksInv'
    <3>1. UNCHANGED <<chunks, stored, damaged, batch>>
      BY <2>12 DEF Query
    <3>2. CASE pc' = pc
      <4>1. Indexing' = Indexing
        BY <3>2 DEF Indexing
      <4>2. QED BY <3>1, <3>2, <4>1, ChunksKept
    <3>3. CASE pc[ProcessOf[s]] = "idle" /\ Goto(ProcessOf[s], "waiting")
      <4>1. /\ pc'[ProcessOf[s]] = "waiting"
            /\ \A v \in Writers : v # ProcessOf[s] => pc'[v] = pc[v]
        BY <3>3 DEF Goto, TypeOK
      <4>2. Indexing' = Indexing
        BY <3>3, <4>1 DEF Indexing, MidIndexing
      <4>3. QED BY <3>1, <4>1, <4>2, ChunksKept
    <3>4. QED BY <2>12, <3>2, <3>3 DEF Query
  <2>13. ASSUME UNCHANGED <<chunks, stored, damaged, batch, pc>> PROVE ChunksInv'
    <3>1. Indexing' = Indexing
      BY <2>13 DEF Indexing
    <3>2. QED BY <2>13, <3>1, ChunksKept
  <2>14. CASE ForceDelete
    <3>1. /\ \A b \in Batch : chunks'[b] = "none"
          /\ damaged' = (Indexing # {})
          /\ UNCHANGED <<stored, pc, batch>>
      BY <2>14 DEF ForceDelete
    <3>2. Indexing' = Indexing
      BY <3>1 DEF Indexing
    <3>3. ASSUME NEW w \in Indexing'
          PROVE  damaged' /\ \A b \in Written(w)' : chunks'[b] = "none"
      BY <3>1, <3>2, <3>3 DEF Written
    <3>4. Uniform(Batch)'
      BY <3>1 DEF Uniform
    <3>5. ChunksAgree'
      BY <3>3, <3>4 DEF ChunksAgree
    <3>6. RebuildsStartEmpty'
      BY <3>1 DEF ChunksInv, RebuildsStartEmpty, Present
    <3>7. QED BY <3>5, <3>6 DEF ChunksInv
  <2>15. CASE Sweep
    <3>1. /\ \A b \in Batch : chunks'[b] = IF chunks[b] = "stale" THEN "none" ELSE chunks[b]
          /\ UNCHANGED <<stored, pc, batch, damaged>>
      BY <2>15 DEF Sweep
    <3>2. Indexing' = Indexing /\ Mark' = Mark /\ Mark # "stale"
      BY <3>1 DEF Indexing, Mark
    <3>3. \A w : Written(w)' = Written(w) /\ Written(w) \subseteq Batch
      BY <3>1 DEF Written
    <3>4. \A T \in SUBSET Batch : Uniform(T) => Uniform(T)'
      BY <3>1 DEF Uniform
    <3>5. ASSUME NEW w \in Indexing, pc[w] # "cleaning"
          PROVE  /\ \A b \in Written(w) : chunks'[b] \in {Mark, "none"}
                 /\ ~damaged => /\ \A b \in Written(w) : chunks'[b] = Mark
                                /\ Uniform(Batch \ Written(w))'
      <4>1. /\ \A b \in Written(w) : chunks[b] \in {Mark, "none"}
            /\ ~damaged => /\ \A b \in Written(w) : chunks[b] = Mark
                           /\ Uniform(Batch \ Written(w))
        BY <3>5 DEF ChunksInv, ChunksAgree
      <4>2. \A b \in Written(w) : chunks'[b] = chunks[b]
        BY <3>1, <3>2, <3>3, <4>1
      <4>3. ~damaged => Uniform(Batch \ Written(w))'
        BY <3>1, <3>3, <4>1 DEF Uniform
      <4>4. QED BY <4>1, <4>2, <4>3
    <3>6. Indexing = {} /\ ~damaged => Uniform(Batch)'
      BY <3>1 DEF ChunksInv, ChunksAgree, Uniform
    <3>7. ChunksAgree'
      BY <3>1, <3>2, <3>3, <3>5, <3>6 DEF ChunksAgree
    <3>8. RebuildsStartEmpty'
      BY <3>1 DEF ChunksInv, RebuildsStartEmpty, Present
    <3>9. QED BY <3>7, <3>8 DEF ChunksInv
  <2>16. CASE GrowOld
    <3>1. /\ \A b \in Batch : chunks'[b] = IF chunks[b] = "fresh" THEN "stale" ELSE chunks[b]
          /\ UNCHANGED <<stored, pc, batch, damaged>>
          /\ Indexing = {}
      BY <2>16 DEF GrowOld
    <3>2. Indexing' = {}
      BY <3>1 DEF Indexing
    <3>3. ~damaged' => Uniform(Batch)'
      BY <3>1 DEF ChunksInv, ChunksAgree, Uniform
    <3>4. QED BY <3>1, <3>2, <3>3, NobodyIndexes
  <2>17. ASSUME NEW w \in Writers, Crash(w) PROVE ChunksInv'
    <3>1. /\ pc'[w] \in {"idle", "crashed"}
          /\ \A v \in Writers : v # w => pc'[v] = pc[v] /\ batch'[v] = batch[v]
          /\ UNCHANGED <<chunks, stored>>
          /\ damaged' = (damaged \/ pc[w] \in MidIndexing)
      BY <2>17 DEF Crash, Goto, TypeOK
    <3>2. CASE pc[w] \in MidIndexing
      <4>1. \A v \in Writers : v # w => v \notin Indexing
        BY <2>0, <3>2 DEF Indexing
      <4>2. Indexing' = {}
        BY <3>1, <4>1 DEF Indexing, MidIndexing
      <4>3. damaged'
        BY <3>1, <3>2
      <4>4. QED BY <3>1, <4>2, <4>3, NobodyIndexes
    <3>3. CASE pc[w] \notin MidIndexing
      <4>1. damaged' = damaged
        BY <3>1, <3>3, Zenon DEF TypeOK
      <4>2. Indexing' = Indexing
        BY <3>1, <3>3 DEF Indexing, MidIndexing
      <4>3. QED BY <3>1, <4>1, <4>2, ChunksKept
    <3>4. QED BY <3>2, <3>3
  <2>18. QED
    <3>1. ASSUME NEW s \in Searches, Search(s) PROVE ChunksInv'
      BY <3>1, <2>12, <2>13 DEF Search, StartSearch, WaitOver, QueryAgain, QueryFails
    <3>2. ASSUME Tick \/ UNCHANGED vars PROVE ChunksInv'
      BY <3>2, <2>13 DEF Tick, vars
    <3>3. ASSUME NEW w \in Writers, Writer(w) PROVE ChunksInv'
      BY <3>3, <2>2, <2>4, <2>5, <2>6, <2>7, <2>8, <2>9, <2>10, <2>11 DEF Writer
    <3>4. QED BY <2>1, <2>14, <2>15, <2>16, <2>17, <3>1, <3>2, <3>3 DEF Next
<1>3. QED BY <1>1, <1>2, TypeCorrect, LeaseInvariant, PTL DEF Spec

(* At most one execution of addReport writes the report, whatever crashes     *)
(* (chromaIndexLock.ts: one Redis lock per report while its chunks are        *)
(* being written).                                                            *)
THEOREM WritersExclude ==
  ASSUME MaxBatch < TTL
  PROVE  Spec => []OneWriter
<1>1. LeaseInv => OneWriter
  BY OneHolder, IndexingHolds DEF OneWriter
<1>2. QED BY <1>1, LeaseInvariant, PTL

(* Between indexings the report is in Chroma as a whole or not at all, unless *)
(* an indexing died, could not clean up, or had its chunks deleted.           *)
THEOREM WholeOrAbsent ==
  ASSUME MaxBatch < TTL
  PROVE  Spec => []CompleteOrAbsent
<1>1. ChunksInv => CompleteOrAbsent
  BY DEF ChunksInv, ChunksAgree, CompleteOrAbsent, Uniform, Present
<1>2. QED BY <1>1, ChunksInvariant, PTL

(* No rebuild writes over a report that is there.                             *)
THEOREM NoReportIndexedTwice ==
  ASSUME MaxBatch < TTL
  PROVE  Spec => RebuildsOnlyFromNothing
<1>1. ChunksInv =>
        [\A p \in Processes :
           pc[p] = "writing" /\ batch[p] = 1 /\ pc'[p] = "refreshing"
             => Present = {}]_vars
  BY DEF ChunksInv, RebuildsStartEmpty
<1>2. QED BY <1>1, ChunksInvariant, PTL DEF RebuildsOnlyFromNothing
-----------------------------------------------------------------------------
(* What a search finds after the rebuild it has waited for.                  *)

\* Nothing has failed, been deleted or grown old; processes may have died.
Quiet == failures = 0 /\ deletes = 0 /\ agings = 0

MidWrite == {"writing", "refreshing"}

\* What has been written is there.
ChunksStay ==
  /\ \A b \in Batch : chunks[b] # "stale"
  /\ \A w \in Writers : pc[w] # "cleaning"
  /\ \A w \in Writers : pc[w] \in MidWrite => Written(w) \subseteq Present

\* An addReport that is about to return, and a search that has heard from one,
\* have the whole report.
OutcomesWhole ==
  /\ \A w \in Writers : ok[w] => Whole
  /\ \A s \in Searches : find[s] = "again" => Whole

QuietInv == Quiet => ChunksStay /\ (~damaged => OutcomesWhole)

\* A step that touches no chunk, and takes a writer to its first batch at most.
LEMMA QuietKept ==
  ASSUME QuietInv, chunks' = chunks, Quiet' => Quiet,
         damaged' \in BOOLEAN, ~damaged' => ~damaged,
         \A w \in Writers :
           pc'[w] \in MidWrite \cup {"cleaning"} =>
             \/ pc'[w] = pc[w] /\ batch'[w] = batch[w]
             \/ pc'[w] = "writing" /\ batch'[w] = 1,
         \A w \in Writers : ok'[w] => ok[w],
         \A s \in Searches :
           find'[s] = "again" => find[s] = "again" \/ \E w \in Writers : ok[w]
  PROVE  QuietInv'
<1> SUFFICES ASSUME Quiet' PROVE ChunksStay' /\ (~damaged' => OutcomesWhole')
  BY DEF QuietInv
<1>1. ChunksStay /\ (~damaged => OutcomesWhole)
  BY DEF QuietInv
<1>2. Present' = Present
  BY DEF Present
<1>3. ASSUME NEW w \in Writers, pc'[w] \in MidWrite PROVE Written(w)' \subseteq Present'
  <2>1. CASE pc'[w] = pc[w] /\ batch'[w] = batch[w]
    BY <1>1, <1>2, <1>3, <2>1 DEF ChunksStay, Written
  <2>2. CASE pc'[w] = "writing" /\ batch'[w] = 1
    BY <2>2 DEF Written, Batch
  <2>3. QED BY <1>3, <2>1, <2>2
<1>4. \A w \in Writers : pc'[w] # "cleaning"
  BY <1>1 DEF ChunksStay
<1>5. ChunksStay'
  BY <1>1, <1>3, <1>4 DEF ChunksStay
<1>6. ASSUME ~damaged' PROVE OutcomesWhole'
  BY <1>1, <1>2, <1>6 DEF OutcomesWhole, Whole
<1>7. QED BY <1>5, <1>6

LEMMA QuietInvariant ==
  ASSUME MaxBatch < TTL
  PROVE  Spec => []QuietInv
<1> USE ConstantsAssumption, WritersFacts
<1>1. Init => QuietInv
  <2> SUFFICES ASSUME Init PROVE ChunksStay /\ OutcomesWhole
    BY DEF QuietInv
  <2>1. ChunksStay
    BY DEF Init, ChunksStay, MidWrite
  <2>2. OutcomesWhole
    <3>1. \A w \in Writers : ~ok[w]
      BY Zenon DEF Init
    <3>2. \A s \in Searches : find[s] # "again"
      BY DEF Init
    <3>3. QED BY <3>1, <3>2 DEF OutcomesWhole
  <2>3. QED BY <2>1, <2>2
<1>2. TypeOK /\ TypeOK' /\ LeaseInv /\ ChunksInv /\ QuietInv /\ [Next]_vars => QuietInv'
  <2> SUFFICES ASSUME TypeOK, TypeOK', LeaseInv, ChunksInv, QuietInv, [Next]_vars
               PROVE  QuietInv'
    OBVIOUS
  <2> USE DEF counts
  <2>0. damaged \in BOOLEAN /\ damaged' \in BOOLEAN
    BY DEF TypeOK
  <2>1. ASSUME NEW j \in Jobs, StartIndexing(j) PROVE QuietInv'
    <3>1. /\ pc'[j] = "waiting"
          /\ \A w \in Writers : w # j => pc'[w] = pc[w]
          /\ UNCHANGED <<chunks, damaged, batch, ok, find, counts>>
      BY <2>1 DEF StartIndexing, Goto, TypeOK, Writers
    <3>2. QED BY <2>0, <3>1, QuietKept DEF Quiet, MidWrite
  <2>2. ASSUME NEW w \in Writers, Acquire(w) PROVE QuietInv'
    <3>1. /\ pc'[w] \in {"checking", "writing"} /\ batch'[w] = 1
          /\ \A v \in Writers : v # w => pc'[v] = pc[v] /\ batch'[v] = batch[v]
          /\ UNCHANGED <<chunks, damaged, ok, find, counts>>
      BY <2>2 DEF Acquire, Goto, TypeOK
    <3>2. QED BY <2>0, <3>1, QuietKept DEF Quiet, MidWrite
  <2>3. ASSUME NEW w \in Writers, Leave(w), UNCHANGED <<chunks, damaged, batch>>,
               Quiet' => Quiet
        PROVE  QuietInv'
    <3>1. /\ pc'[w] \in {"idle", "done", "failed"}
          /\ \A v \in Writers : v # w => pc'[v] = pc[v]
      BY <2>3 DEF Leave, Goto, TypeOK
    <3>2. \A v \in Writers : ok'[v] => ok[v]
      BY <2>3, Zenon DEF Leave, TypeOK
    <3>3. \A s \in Searches : find'[s] = "again" => find[s] = "again" \/ ok[w]
      BY <2>3 DEF Leave, Settle
    <3>4. QED BY <2>0, <2>3, <3>1, <3>2, <3>3, QuietKept DEF MidWrite
  <2>4. ASSUME NEW w \in Writers, GiveUp(w) PROVE QuietInv'
    BY <2>4, <2>3 DEF GiveUp, Quiet
  <2>5. ASSUME NEW w \in Writers, Check(w) PROVE QuietInv'
    <3>1. /\ pc[w] = "checking"
          /\ \A v \in Writers : v # w => pc'[v] = pc[v]
          /\ UNCHANGED <<chunks, damaged, batch, find, deletes, agings>>
      BY <2>5 DEF Check, Goto, TypeOK
    <3>2. CASE CallFails
      <4>1. ~Quiet'
        BY <3>2 DEF CallFails, Quiet, TypeOK
      <4>2. QED BY <4>1 DEF QuietInv
    <3>3. CASE /\ Goto(w, IF Present = {} THEN "writing" ELSE "releasing")
               /\ ok' = [ok EXCEPT ![w] = Present # {}]
               /\ UNCHANGED failures
      <4> SUFFICES ASSUME Quiet' PROVE ChunksStay' /\ (~damaged' => OutcomesWhole')
        BY DEF QuietInv
      <4>1. ChunksStay /\ (~damaged => OutcomesWhole)
        BY <3>1, <3>3 DEF QuietInv, Quiet
      <4>2. pc'[w] \in {"writing", "releasing"} /\ batch'[w] = 1
        BY <3>1, <3>3 DEF Goto, TypeOK, ChunksInv, RebuildsStartEmpty
      <4>3. Present' = Present
        BY <3>1 DEF Present
      <4>4. ASSUME NEW v \in Writers, pc'[v] \in MidWrite
            PROVE  Written(v)' \subseteq Present'
        <5>1. CASE v = w
          BY <4>2, <4>4, <5>1 DEF Written, Batch, MidWrite
        <5>2. CASE v # w
          BY <3>1, <4>1, <4>3, <4>4, <5>2 DEF ChunksStay, Written
        <5>3. QED BY <5>1, <5>2
      <4>5. ChunksStay'
        BY <3>1, <4>1, <4>2, <4>4 DEF ChunksStay
      <4>6. ASSUME ~damaged' PROVE OutcomesWhole'
        <5>1. OutcomesWhole
          BY <3>1, <4>1, <4>6
        <5>2. Indexing = {}
          BY <3>1, OneHolder, IndexingHolds DEF Holders, UnderLock, Indexing, MidIndexing
        <5>3. Present # {} => Whole
          BY <3>1, <4>6, <5>2 DEF ChunksInv, ChunksAgree, Uniform, Present, Whole
        <5>4. \A v \in Writers : ok'[v] => ok[v] \/ Present # {}
          BY <3>3, Zenon DEF TypeOK
        <5>5. QED BY <3>1, <4>3, <5>1, <5>3, <5>4 DEF OutcomesWhole, Whole
      <4>7. QED BY <4>5, <4>6
    <3>4. QED BY <2>5, <3>2, <3>3 DEF Check
  <2>6. ASSUME NEW w \in Writers, WriteBatch(w) PROVE QuietInv'
    <3> SUFFICES ASSUME Quiet' PROVE ChunksStay' /\ (~damaged' => OutcomesWhole')
      BY DEF QuietInv
    <3>1. /\ pc[w] = "writing" /\ pc'[w] = "refreshing"
          /\ \A v \in Writers : v # w => pc'[v] = pc[v]
          /\ UNCHANGED <<damaged, batch, ok, find, counts>>
      BY <2>6 DEF WriteBatch, Goto, TypeOK
    <3>2. ChunksStay /\ (~damaged => OutcomesWhole)
      BY <3>1 DEF QuietInv, Quiet
    <3>3. /\ \A b \in Batch : b # batch[w] => chunks'[b] = chunks[b]
          /\ chunks'[batch[w]] \in {"fresh", "kept"}
          /\ batch[w] \in Batch
      BY <2>6 DEF WriteBatch, TypeOK
    <3>4. Present \cup {batch[w]} \subseteq Present'
      BY <3>3 DEF Present
    <3>5. Written(w)' \subseteq Written(w) \cup {batch[w]}
      BY <3>1 DEF Written
    <3>6. \A v \in Writers : pc'[v] \in MidWrite => Written(v)' \subseteq Present'
      <4>1. Written(w)' \subseteq Present'
        BY <3>1, <3>2, <3>4, <3>5 DEF ChunksStay, MidWrite
      <4>2. ASSUME NEW v \in Writers, v # w, pc'[v] \in MidWrite
            PROVE  Written(v)' \subseteq Present'
        BY <3>1, <3>2, <3>4, <4>2 DEF ChunksStay, Written
      <4>3. QED BY <4>1, <4>2
    <3>7. ChunksStay'
      BY <3>1, <3>2, <3>3, <3>6 DEF ChunksStay
    <3>8. Whole => Whole'
      BY <3>4 DEF Whole, Present
    <3>9. ~damaged' => OutcomesWhole'
      BY <3>1, <3>2, <3>8 DEF OutcomesWhole
    <3>10. QED BY <3>7, <3>9
  <2>7. ASSUME NEW w \in Writers, Refresh(w) PROVE QuietInv'
    <3>1. /\ pc[w] = "refreshing"
          /\ \A v \in Writers : v # w => pc'[v] = pc[v] /\ batch'[v] = batch[v]
          /\ UNCHANGED <<chunks, find, counts>>
      BY <2>7 DEF Refresh, Goto, TypeOK
    <3> SUFFICES ASSUME Quiet' PROVE ChunksStay' /\ (~damaged' => OutcomesWhole')
      BY DEF QuietInv
    <3>2. ChunksStay /\ (~damaged => OutcomesWhole)
      BY <3>1 DEF QuietInv, Quiet
    <3>3. Present' = Present
      BY <3>1 DEF Present
    <3>4. batch[w] \in Nat /\ batch[w] >= 1 /\ batch[w] <= Batches
      BY DEF TypeOK, Batch
    <3>5. Written(w) \subseteq Present
      BY <3>1, <3>2 DEF ChunksStay, MidWrite
    <3>6. ASSUME NEW v \in Writers, v # w, pc'[v] \in MidWrite
          PROVE  Written(v)' \subseteq Present'
      BY <3>1, <3>2, <3>3, <3>6 DEF ChunksStay, Written
    <3>7. CASE batch[w] < Batches
      <4>1. pc'[w] = "writing" /\ batch'[w] = batch[w] + 1 /\ UNCHANGED <<ok, damaged>>
        BY <2>7, <3>7 DEF Refresh, Goto, TypeOK
      <4>2. Written(w)' = Written(w)
        BY <3>1, <3>4, <4>1 DEF Written, Batch
      <4>3. ChunksStay'
        BY <3>1, <3>2, <3>3, <3>5, <3>6, <4>1, <4>2 DEF ChunksStay
      <4>4. ~damaged' => OutcomesWhole'
        BY <3>1, <3>2, <3>3, <4>1 DEF OutcomesWhole, Whole
      <4>5. QED BY <4>3, <4>4
    <3>8. CASE ~(batch[w] < Batches)
      <4>1. pc'[w] = "releasing"
        BY <2>7, <3>8 DEF Refresh, Goto, TypeOK
      <4>2. Written(w) = Batch
        BY <3>1, <3>4, <3>8 DEF Written, Batch
      <4>3. Whole'
        BY <3>3, <3>5, <4>2 DEF Whole, Present
      <4>4. ChunksStay'
        BY <3>1, <3>2, <3>6, <4>1 DEF ChunksStay, MidWrite
      <4>5. QED BY <4>3, <4>4 DEF OutcomesWhole
    <3>9. QED BY <3>7, <3>8
  <2>8. ASSUME NEW w \in Writers, BatchFails(w) \/ ReleaseFails(w) PROVE QuietInv'
    <3>1. ~Quiet'
      BY <2>8 DEF BatchFails, ReleaseFails, CallFails, Quiet, TypeOK
    <3>2. QED BY <3>1 DEF QuietInv
  <2>9. ASSUME NEW w \in Writers, CleanUp(w) PROVE QuietInv'
    <3>1. pc[w] = "cleaning" /\ failures' >= failures /\ UNCHANGED <<deletes, agings>>
      BY <2>9 DEF CleanUp, CallFails, TypeOK
    <3>2. ~Quiet
      BY <3>1 DEF QuietInv, ChunksStay
    <3>3. ~Quiet'
      BY <3>1, <3>2 DEF Quiet, TypeOK
    <3>4. QED BY <3>3 DEF QuietInv
  <2>10. ASSUME NEW w \in Writers, ReleaseGet(w) PROVE QuietInv'
    <3>1. CASE Get(lock) = w
      <4>1. /\ pc'[w] = "deleting"
            /\ \A v \in Writers : v # w => pc'[v] = pc[v]
            /\ UNCHANGED <<chunks, damaged, batch, ok, find, counts>>
        BY <2>10, <3>1 DEF ReleaseGet, Goto, TypeOK
      <4>2. QED BY <2>0, <4>1, QuietKept DEF Quiet, MidWrite
    <3>2. CASE Get(lock) # w
      BY <2>10, <3>2, <2>3 DEF ReleaseGet, Quiet
    <3>3. QED BY <3>1, <3>2
  <2>11. ASSUME NEW w \in Writers, ReleaseDel(w) PROVE QuietInv'
    BY <2>11, <2>3 DEF ReleaseDel, Quiet
  <2>12. ASSUME NEW s \in Searches, Search(s), ~QueryFails(s) PROVE QuietInv'
    <3>1. /\ UNCHANGED <<chunks, damaged, batch, ok, counts>>
          /\ \A r \in Searches : find'[r] = "again" => find[r] = "again"
      BY <2>12 DEF Search, StartSearch, WaitOver, Query, QueryAgain, SearchTo, TypeOK
    <3>2. \A w \in Writers : pc'[w] = pc[w] \/ pc'[w] = "waiting"
      BY <2>12 DEF Search, StartSearch, WaitOver, Query, QueryAgain, Goto, TypeOK
    <3>3. QED BY <2>0, <3>1, <3>2, QuietKept DEF Quiet, MidWrite
  <2>13. ASSUME NEW s \in Searches, QueryFails(s) PROVE QuietInv'
    <3>1. ~Quiet'
      BY <2>13 DEF QueryFails, CallFails, Quiet, TypeOK
    <3>2. QED BY <3>1 DEF QuietInv
  <2>14. CASE ForceDelete \/ GrowOld
    <3>1. ~Quiet'
      BY <2>14 DEF ForceDelete, GrowOld, Quiet, TypeOK
    <3>2. QED BY <3>1 DEF QuietInv
  <2>15. CASE Sweep
    <3>1. ~Quiet /\ UNCHANGED counts
      BY <2>15 DEF Sweep, QuietInv, ChunksStay
    <3>2. QED BY <3>1 DEF QuietInv, Quiet
  <2>16. ASSUME NEW w \in Writers, Crash(w) PROVE QuietInv'
    <3>1. /\ pc'[w] \in {"idle", "crashed"}
          /\ \A v \in Writers : v # w => pc'[v] = pc[v] /\ batch'[v] = batch[v]
          /\ UNCHANGED <<chunks, failures, deletes, agings>>
          /\ \A s \in Searches : find'[s] = "again" => find[s] = "again"
      BY <2>16 DEF Crash, Goto, TypeOK
    <3>2. (\A v \in Writers : ok'[v] => ok[v]) /\ (~damaged' => ~damaged)
      BY <2>16, Zenon DEF Crash, TypeOK
    <3>3. QED BY <2>0, <3>1, <3>2, QuietKept DEF Quiet, MidWrite
  <2>17. CASE Tick \/ UNCHANGED vars
    <3>1. UNCHANGED <<chunks, damaged, batch, ok, find, pc, counts>>
      BY <2>17 DEF Tick, vars
    <3>2. QED BY <2>0, <3>1, QuietKept DEF Quiet
  <2>18. QED
    <3>1. ASSUME NEW w \in Writers, Writer(w) PROVE QuietInv'
      BY <3>1, <2>2, <2>4, <2>5, <2>6, <2>7, <2>8, <2>9, <2>10, <2>11 DEF Writer
    <3>2. QED BY <2>1, <2>12, <2>13, <2>14, <2>15, <2>16, <2>17, <3>1 DEF Next
<1>3. QED BY <1>1, <1>2, TypeCorrect, LeaseInvariant, ChunksInvariant, PTL DEF Spec

(* After the rebuild it waited for, whether by its own process or by another  *)
(* one, a search has the whole report before it, unless a call has failed, or *)
(* the report was deleted, swept or cut short by a crash meanwhile.           *)
(* (queryWithReindexOnMiss, vectordb.ts.)                                     *)
THEOREM RebuildsSeeAll ==
  ASSUME MaxBatch < TTL
  PROVE  Spec => []RebuildYieldsWhole
<1>1. QuietInv => RebuildYieldsWhole
  BY DEF QuietInv, Quiet, OutcomesWhole, RebuildYieldsWhole
<1>2. QED BY <1>1, QuietInvariant, PTL
=============================================================================
