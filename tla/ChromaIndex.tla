----------------------------- MODULE ChromaIndex -----------------------------
(***************************************************************************)
(* One report in the vector database: indexing it in batches under a lease *)
(* (lib/vectordb.ts, lib/chromaIndexLock.ts), searching it, rebuilding it  *)
(* from the stored markdown when a search finds nothing                    *)
(* (lib/chromaRetention.ts), sweeping it (workers/chromaSweep.ts) and      *)
(* deleting it for a forced re-run (workers/parsePdf.ts).                  *)
(*                                                                         *)
(* A writer is an execution of addReport: an indexMarkdown job, or the one *)
(* rebuild that a worker process may have in flight for the report.        *)
(***************************************************************************)
EXTENDS RedisLock, FiniteSets

CONSTANTS
  Jobs,          \* indexMarkdown executions
  Processes,     \* worker processes; a process is also the writer of its rebuild
  Searches,      \* searches of follow-up jobs
  ProcessOf,     \* [Searches -> Processes]
  Batches,       \* how many batches of chunks the report has
  TTL,           \* LOCK_TTL_MS, in ticks
  MaxWait,       \* MAX_WAIT_MS, in ticks
  MaxBatch,      \* the environment: time between two refreshes
  MaxCrashes,    \* bound: processes and executions that die
  MaxFailures,   \* bound: Chroma calls that fail after their retries
  MaxDeletes,    \* bound: forced deletions
  MaxAgings      \* bound: how often CHROMA_TTL_HOURS goes by

ASSUME ConstantsAssumption ==
  /\ NoToken \notin Jobs \cup Processes
  /\ Jobs \cap Processes = {}
  /\ ProcessOf \in [Searches -> Processes]
  /\ Batches \in Nat \ {0}
  /\ TTL \in Nat \ {0} /\ MaxWait \in Nat /\ MaxBatch \in Nat
  /\ MaxCrashes \in Nat /\ MaxFailures \in Nat /\ MaxDeletes \in Nat
  /\ MaxAgings \in Nat

Writers == Jobs \cup Processes
Batch == 1 .. Batches

VARIABLES
  lock,      \* the lease garbo:chroma:indexing:<sha1 of the url>
  chunks,    \* [Batch -> the state of that batch's chunks in Chroma]
  stored,    \* Report.markdown is there to rebuild from
  pc,        \* [Writers -> where the writer is in addReport]
  batch,     \* [Writers -> the batch it writes next]
  ok,        \* [Writers -> addReport is returning, rather than throwing]
  waited,    \* [Writers \cup Searches -> ticks spent waiting for the lease]
  age,       \* [Writers -> ticks since the lease was set or refreshed]
  find,      \* [Searches -> where the search is]
  damaged,   \* history: an indexing was cut short since the last whole one
  crashes, failures, deletes, agings

vars == <<lock, chunks, stored, pc, batch, ok, waited, age, find,
          damaged, crashes, failures, deletes, agings>>
counts == <<crashes, failures, deletes, agings>>

UnderLock == {"checking", "writing", "refreshing", "cleaning", "releasing", "deleting"}
Ended == {"done", "failed", "crashed"}

Holders == {w \in Writers : pc[w] \in UnderLock}

\* collection.get / collection.query with where: {source: url}
Present == {b \in Batch : chunks[b] # "none"}
Whole == Present = Batch

Init ==
  /\ lock = Absent
  /\ chunks = [b \in Batch |-> "none"]
  /\ stored \in BOOLEAN
  /\ pc = [w \in Writers |-> "idle"]
  /\ batch = [w \in Writers |-> 1]
  /\ ok = [w \in Writers |-> FALSE]
  /\ waited = [x \in Writers \cup Searches |-> 0]
  /\ age = [w \in Writers |-> 0]
  /\ find = [s \in Searches |-> "idle"]
  /\ damaged = FALSE
  /\ crashes = 0 /\ failures = 0 /\ deletes = 0 /\ agings = 0

Goto(w, label) == pc' = [pc EXCEPT ![w] = label]

\* A Chroma call fails for good: withChromaRetry throws.
CallFails == failures < MaxFailures /\ failures' = failures + 1

(***************************************************************************)
(* addReport and withChromaIndexLock                                       *)
(***************************************************************************)

\* An indexMarkdown job calls addReport.
StartIndexing(j) ==
  /\ pc[j] = "idle"
  /\ Goto(j, "waiting")
  /\ UNCHANGED <<lock, chunks, stored, batch, ok, waited, age, find,
                 damaged, counts>>

\* Mutation: SET without NX.
AcquireWithoutNX(w) ==
  /\ pc[w] = "waiting"
  /\ lock' = Granted(w, TTL)
  /\ Goto(w, IF w \in Processes THEN "checking" ELSE "writing")
  /\ batch' = [batch EXCEPT ![w] = 1]
  /\ waited' = [waited EXCEPT ![w] = 0]
  /\ UNCHANGED <<chunks, stored, ok, age, find, damaged, counts>>

\* Mutation: skipIfIndexed is looked at before the lock, not under it.
AcquireUnchecked(w) ==
  /\ pc[w] = "waiting"
  /\ IsFree(lock)
  /\ lock' = Granted(w, TTL)
  /\ Goto(w, "writing")
  /\ batch' = [batch EXCEPT ![w] = 1]
  /\ waited' = [waited EXCEPT ![w] = 0]
  /\ UNCHANGED <<chunks, stored, ok, age, find, damaged, counts>>

\* SET NX PX succeeds.  Only a rebuild passes skipIfIndexed.
Acquire(w) ==
  /\ pc[w] = "waiting"
  /\ IsFree(lock)
  /\ lock' = Granted(w, TTL)
  /\ Goto(w, IF w \in Processes THEN "checking" ELSE "writing")
  /\ batch' = [batch EXCEPT ![w] = 1]
  /\ waited' = [waited EXCEPT ![w] = 0]
  /\ UNCHANGED <<chunks, stored, ok, age, find, damaged, counts>>

\* skipIfIndexed && await hasReport(url): one chunk is enough.
Check(w) ==
  /\ pc[w] = "checking"
  /\ \/ /\ Goto(w, IF Present = {} THEN "writing" ELSE "releasing")
        /\ ok' = [ok EXCEPT ![w] = Present # {}]
        /\ UNCHANGED failures
     \/ /\ CallFails
        /\ Goto(w, "releasing")
        /\ UNCHANGED ok
  /\ UNCHANGED <<lock, chunks, stored, batch, waited, age, find, damaged,
                 crashes, deletes, agings>>

\* Mutation: batches are written without going on to the last one.
WriteBatchShort(w) ==
  /\ pc[w] = "writing"
  /\ chunks' = [chunks EXCEPT ![batch[w]] = IF stored THEN "fresh" ELSE "kept"]
  /\ Goto(w, IF batch[w] >= Batches - 1 THEN "releasing" ELSE "refreshing")
  /\ ok' = [ok EXCEPT ![w] = batch[w] >= Batches - 1]
  /\ UNCHANGED <<lock, stored, batch, waited, age, find, damaged, counts>>

\* collection.upsert of one batch; without indexedAt when the markdown is not
\* stored, so that the sweep keeps it.
WriteBatch(w) ==
  /\ pc[w] = "writing"
  /\ chunks' = [chunks EXCEPT ![batch[w]] = IF stored THEN "fresh" ELSE "kept"]
  /\ Goto(w, "refreshing")
  /\ UNCHANGED <<lock, stored, batch, ok, waited, age, find, damaged,
                 counts>>

\* Mutation: the loop runs once more than there are batches.
RefreshOnce(w) ==
  /\ pc[w] = "refreshing"
  /\ lock' = IF Get(lock) = w THEN Renewed(lock, TTL) ELSE lock
  /\ age' = [age EXCEPT ![w] = 0]
  /\ batch' = [batch EXCEPT ![w] = batch[w] + 1]
  /\ Goto(w, IF batch[w] <= Batches THEN "writing" ELSE "releasing")
  /\ UNCHANGED <<chunks, stored, ok, waited, find, damaged, counts>>

\* Mutation: the lease is left to itself during a long write.
RefreshNothing(w) ==
  /\ pc[w] = "refreshing"
  /\ age' = [age EXCEPT ![w] = 0]
  /\ IF batch[w] < Batches
     THEN /\ batch' = [batch EXCEPT ![w] = batch[w] + 1]
          /\ Goto(w, "writing")
          /\ UNCHANGED <<ok, damaged>>
     ELSE /\ batch' = [batch EXCEPT ![w] = 1]
          /\ Goto(w, "releasing")
          /\ ok' = [ok EXCEPT ![w] = TRUE]
          /\ damaged' = (damaged /\ ~Whole)
  /\ UNCHANGED <<lock, chunks, stored, waited, find, counts>>

\* refreshLock after the batch; then the next batch, or out of the loop.
Refresh(w) ==
  /\ pc[w] = "refreshing"
  /\ lock' = IF Get(lock) = w THEN Renewed(lock, TTL) ELSE lock
  /\ age' = [age EXCEPT ![w] = 0]
  /\ IF batch[w] < Batches
     THEN /\ batch' = [batch EXCEPT ![w] = batch[w] + 1]
          /\ Goto(w, "writing")
          /\ UNCHANGED <<ok, damaged>>
     ELSE /\ batch' = [batch EXCEPT ![w] = 1]
          /\ Goto(w, "releasing")
          /\ ok' = [ok EXCEPT ![w] = TRUE]
          /\ damaged' = (damaged /\ ~Whole)
  /\ UNCHANGED <<chunks, stored, waited, find, counts>>

\* An upsert fails after its retries, or the refresh fails.
BatchFails(w) ==
  /\ pc[w] \in {"writing", "refreshing"}
  /\ CallFails
  /\ Goto(w, "cleaning")
  /\ UNCHANGED <<lock, chunks, stored, batch, ok, waited, age, find,
                 damaged, crashes, deletes, agings>>

\* Mutation: the partial chunks are left where they are.
CleanUpNothing(w) ==
  /\ pc[w] = "cleaning"
  /\ Goto(w, "releasing")
  /\ batch' = [batch EXCEPT ![w] = 1]
  /\ UNCHANGED <<lock, chunks, stored, ok, waited, age, find, damaged,
                 counts>>

\* catch: delete what there is of the report (best effort), and rethrow.
CleanUp(w) ==
  /\ pc[w] = "cleaning"
  /\ \/ /\ chunks' = [b \in Batch |-> "none"]
        /\ damaged' = FALSE
        /\ UNCHANGED failures
     \/ /\ CallFails
        /\ damaged' = TRUE
        /\ UNCHANGED chunks
  /\ Goto(w, "releasing")
  /\ batch' = [batch EXCEPT ![w] = 1]
  /\ UNCHANGED <<lock, stored, ok, waited, age, find, crashes, deletes,
                 agings>>

\* Mutation: the searches hear of a rebuild that succeeds only.
SettleOnSuccess(w, success) ==
  find' = [s \in Searches |->
             IF find[s] = "rebuilding" /\ ProcessOf[s] = w /\ success
             THEN "again" ELSE find[s]]

\* What Leave does when rebuild w comes to an end: inFlight.delete, and the
\* promise is settled for every search that waits for it.
Settle(w, success) ==
  find' = [s \in Searches |->
             IF find[s] = "rebuilding" /\ ProcessOf[s] = w
             THEN IF success THEN "again" ELSE "failed"
             ELSE find[s]]

\* addReport returns or throws.  A process can then start another rebuild.
Leave(w) ==
  /\ Goto(w, IF w \in Processes THEN "idle" ELSE IF ok[w] THEN "done" ELSE "failed")
  /\ Settle(w, ok[w])
  /\ ok' = [ok EXCEPT ![w] = FALSE]
  /\ age' = [age EXCEPT ![w] = 0]

\* MAX_WAIT_MS is over: withChromaIndexLock throws, without a lease.
GiveUp(w) ==
  /\ pc[w] = "waiting"
  /\ ~IsFree(lock) /\ waited[w] > MaxWait
  /\ Leave(w)
  /\ waited' = [waited EXCEPT ![w] = 0]
  /\ UNCHANGED <<lock, chunks, stored, batch, damaged, counts>>

\* finally: redis.get(key), and compare with the token.
ReleaseGet(w) ==
  /\ pc[w] = "releasing"
  /\ IF Get(lock) = w
     THEN Goto(w, "deleting") /\ UNCHANGED <<ok, age, find>>
     ELSE Leave(w)
  /\ UNCHANGED <<lock, chunks, stored, batch, waited, damaged, counts>>

\* redis.del(key), a second command.
ReleaseDel(w) ==
  /\ pc[w] = "deleting"
  /\ lock' = Absent
  /\ Leave(w)
  /\ UNCHANGED <<chunks, stored, batch, waited, damaged, counts>>

\* get or del throws: logged, and the key is left to expire.
ReleaseFails(w) ==
  /\ pc[w] \in {"releasing", "deleting"}
  /\ CallFails
  /\ Leave(w)
  /\ UNCHANGED <<lock, chunks, stored, batch, waited, damaged, crashes,
                 deletes, agings>>

(***************************************************************************)
(* getRelevantParagraphs: queryWithReindexOnMiss                           *)
(***************************************************************************)

SearchTo(s, label) == find' = [find EXCEPT ![s] = label]

\* The follow-up job embeds its questions and waits for the lease to be free.
StartSearch(s) ==
  /\ find[s] = "idle"
  /\ SearchTo(s, "waiting")
  /\ UNCHANGED <<lock, chunks, stored, pc, batch, ok, waited, age,
                 damaged, counts>>

\* waitForChromaIndexing returns: nobody is indexing, or MAX_WAIT_MS is over.
\* The query itself runs later: withChromaLimit may queue it.
WaitOver(s) ==
  /\ find[s] = "waiting"
  /\ IsFree(lock) \/ waited[s] > MaxWait
  /\ SearchTo(s, "querying")
  /\ waited' = [waited EXCEPT ![s] = 0]
  /\ UNCHANGED <<lock, chunks, stored, pc, batch, ok, age, damaged,
                 counts>>

\* The query.  On a miss, reindexFromStoredMarkdown: join the rebuild that
\* this process has in flight, or start one if there is markdown to start from.
Query(s) ==
  /\ find[s] = "querying"
  /\ \/ Present # {} /\ SearchTo(s, "done") /\ UNCHANGED pc
     \/ /\ Present = {} /\ pc[ProcessOf[s]] # "idle"
        /\ SearchTo(s, "rebuilding")
        /\ UNCHANGED pc
     \/ /\ Present = {} /\ pc[ProcessOf[s]] = "idle" /\ stored
        /\ SearchTo(s, "rebuilding")
        /\ Goto(ProcessOf[s], "waiting")
     \/ /\ Present = {} /\ pc[ProcessOf[s]] = "idle" /\ ~stored
        /\ SearchTo(s, "failed")
        /\ UNCHANGED pc
  /\ UNCHANGED <<lock, chunks, stored, batch, ok, waited, age, damaged, counts>>

\* Once more after the rebuild, and without waiting: it takes what there is.
QueryAgain(s) ==
  /\ find[s] = "again"
  /\ SearchTo(s, "done")
  /\ UNCHANGED <<lock, chunks, stored, pc, batch, ok, waited, age, damaged,
                 counts>>

\* The query, or loading the markdown, fails for good.
QueryFails(s) ==
  /\ find[s] \in {"querying", "again"}
  /\ CallFails
  /\ SearchTo(s, "failed")
  /\ UNCHANGED <<lock, chunks, stored, pc, batch, ok, waited, age,
                 damaged, crashes, deletes, agings>>

(***************************************************************************)
(* What takes no lease: the forced re-run and the sweep                    *)
(***************************************************************************)

MidIndexing == {"writing", "refreshing", "cleaning"}
Indexing == {w \in Writers : pc[w] \in MidIndexing}

\* parsePdf with forceReindex: deleteReport, whoever is writing.
ForceDelete ==
  /\ deletes < MaxDeletes /\ deletes' = deletes + 1
  /\ chunks' = [b \in Batch |-> "none"]
  /\ damaged' = (Indexing # {})
  /\ UNCHANGED <<lock, stored, pc, batch, ok, waited, age, find, crashes,
                 failures, agings>>

\* Mutation: every batch has a timestamp of its own, and the first one is past
\* the cut-off before the others.
SweepHalf ==
  /\ \E b \in Batch : chunks[b] = "stale"
  /\ chunks' = [chunks EXCEPT ![1] = "none"]
  /\ UNCHANGED <<lock, stored, pc, batch, ok, waited, age, find, damaged,
                 counts>>

\* deleteStaleChunks: one delete, with the cut-off on indexedAt.
Sweep ==
  /\ \E b \in Batch : chunks[b] = "stale"
  /\ chunks' = [b \in Batch |-> IF chunks[b] = "stale" THEN "none" ELSE chunks[b]]
  /\ UNCHANGED <<lock, stored, pc, batch, ok, waited, age, find, damaged,
                 counts>>

\* CHROMA_TTL_HOURS go by.  Indexing takes minutes, so nobody is at it.
GrowOld ==
  /\ agings < MaxAgings /\ agings' = agings + 1
  /\ Indexing = {}
  /\ chunks' = [b \in Batch |-> IF chunks[b] = "fresh" THEN "stale" ELSE chunks[b]]
  /\ UNCHANGED <<lock, stored, pc, batch, ok, waited, age, find, damaged,
                 crashes, failures, deletes>>

(***************************************************************************)
(* Crashes and time                                                        *)
(***************************************************************************)

\* The process of an execution dies.  A worker process starts again without
\* its rebuild; the searches that ran in it are gone.  The lease stays behind.
Crash(w) ==
  /\ crashes < MaxCrashes /\ crashes' = crashes + 1
  /\ pc[w] \notin {"idle"} \cup Ended
  /\ Goto(w, IF w \in Processes THEN "idle" ELSE "crashed")
  /\ find' = [s \in Searches |->
                IF ProcessOf[s] = w /\ find[s] \notin {"idle"} \cup Ended
                THEN "crashed" ELSE find[s]]
  /\ damaged' = (damaged \/ pc[w] \in MidIndexing)
  /\ batch' = [batch EXCEPT ![w] = 1]
  /\ ok' = [ok EXCEPT ![w] = FALSE]
  /\ age' = [age EXCEPT ![w] = 0]
  /\ waited' = [x \in Writers \cup Searches |->
                  IF x = w \/ (x \in Searches /\ ProcessOf[x] = w) THEN 0 ELSE waited[x]]
  /\ UNCHANGED <<lock, chunks, stored, failures, deletes, agings>>

\* A tick is long against POLL_MS: whoever waits has tried again since the last.
WaitersPolled ==
  /\ \A w \in Writers : pc[w] = "waiting" => ~IsFree(lock) /\ waited[w] <= MaxWait
  /\ \A s \in Searches : find[s] = "waiting" => ~IsFree(lock) /\ waited[s] <= MaxWait

Tick ==
  /\ WaitersPolled
  /\ \A w \in Holders : age[w] < MaxBatch
  /\ lock' = Aged(lock)
  /\ age' = [w \in Writers |-> IF w \in Holders THEN age[w] + 1 ELSE 0]
  /\ waited' = [x \in Writers \cup Searches |->
                  IF \/ x \in Writers /\ pc[x] = "waiting"
                     \/ x \in Searches /\ find[x] = "waiting"
                  THEN waited[x] + 1 ELSE 0]
  /\ UNCHANGED <<chunks, stored, pc, batch, ok, find, damaged, counts>>

Writer(w) ==
  \/ Acquire(w) \/ GiveUp(w) \/ Check(w) \/ WriteBatch(w) \/ Refresh(w)
  \/ BatchFails(w) \/ CleanUp(w)
  \/ ReleaseGet(w) \/ ReleaseDel(w) \/ ReleaseFails(w)

Search(s) ==
  StartSearch(s) \/ WaitOver(s) \/ Query(s) \/ QueryAgain(s) \/ QueryFails(s)

Next ==
  \/ \E j \in Jobs : StartIndexing(j)
  \/ \E w \in Writers : Writer(w) \/ Crash(w)
  \/ \E s \in Searches : Search(s)
  \/ ForceDelete \/ Sweep \/ GrowOld \/ Tick

Spec == Init /\ [][Next]_vars

\* Whoever runs goes on, and time passes.  Nothing has to start, fail, crash,
\* be deleted or be swept.
FairSpec ==
  /\ Spec
  /\ \A w \in Writers : WF_vars(Writer(w))
  /\ \A s \in Searches : WF_vars(WaitOver(s) \/ Query(s) \/ QueryAgain(s))
  /\ WF_vars(Tick)

-----------------------------------------------------------------------------
(***************************************************************************)
(* Properties                                                              *)
(***************************************************************************)

TypeOK ==
  /\ lock \in LeaseType(Writers, TTL)
  /\ chunks \in [Batch -> {"none", "fresh", "stale", "kept"}]
  /\ stored \in BOOLEAN
  /\ pc \in [Writers -> {"idle", "waiting"} \cup UnderLock \cup Ended]
  /\ batch \in [Writers -> Batch]
  /\ ok \in [Writers -> BOOLEAN]
  /\ waited \in [Writers \cup Searches -> Nat]
  /\ age \in [Writers -> Nat]
  /\ find \in [Searches -> {"idle", "waiting", "querying", "rebuilding", "again"}
                              \cup Ended]
  /\ damaged \in BOOLEAN
  /\ crashes \in Nat /\ failures \in Nat /\ deletes \in Nat /\ agings \in Nat

\* chromaIndexLock.ts: one Redis lock per report while its chunks are being
\* written.  Whatever crashes, no two executions of addReport write at a time.
OneWriter == \A v, w \in Indexing : v = w

\* vectordb.ts, the catch block and the single indexedAt: nothing leaves a part
\* of a report behind.  When nobody indexes, the report is there as a whole or
\* not at all, whatever fails, is swept, or is deleted between two indexings;
\* only a crash in the middle, a clean-up that fails, or a forced deletion in
\* the middle can damage it.
CompleteOrAbsent ==
  Indexing = {} /\ ~damaged => Present \in {{}, Batch}

\* chromaRetention.ts: "must skip writing if the report got indexed meanwhile".
\* However many processes miss at once, a rebuild writes its first batch only
\* into an empty index: the report is not embedded twice.
RebuildsOnlyFromNothing ==
  [][\A p \in Processes :
       pc[p] = "writing" /\ batch[p] = 1 /\ pc'[p] = "refreshing"
         => Present = {}]_vars

\* queryWithReindexOnMiss: after a rebuild, whether it wrote the report itself
\* or found it written by another process, the second query has all of it to
\* search, unless the report was failed, deleted, swept or damaged meanwhile.
RebuildYieldsWhole ==
  \A s \in Searches :
    find[s] = "again" /\ ~damaged /\ failures = 0 /\ deletes = 0 /\ agings = 0
      => Whole

\* "a partly written report is never searched": a query draws from the whole
\* report or finds nothing.
NoPartialRead ==
  [][\A s \in Searches :
       find[s] \in {"querying", "again"} /\ find'[s] = "done"
         => Present \in {{}, Batch}]_vars

\* Nobody waits for ever: a search ends, whatever becomes of the holder of the
\* lease and of the rebuild that it shares with others.
EverySearchEnds == \A s \in Searches : find[s] = "waiting" ~> find[s] \in Ended

(***************************************************************************)
(* Why they hold                                                           *)
(***************************************************************************)

\* Whoever is under the lock finds its own token in it, and the lease has not
\* been used up since it was last refreshed.
HolderOwnsLease ==
  \A w \in Holders : /\ Get(lock) = w
                      /\ lock.left + age[w] >= TTL
                      /\ age[w] <= MaxBatch

Uniform(S) == \A a, b \in S : chunks[a] = chunks[b]

Mark == IF stored THEN "fresh" ELSE "kept"

\* The batches that w has written so far.
Written(w) == {b \in Batch : b < batch[w] \/ (b = batch[w] /\ pc[w] = "refreshing")}

\* Undisturbed, what an indexing has written carries its mark and what it has
\* not yet reached is of one kind; between indexings, everything is.
ChunksAgree ==
  /\ \A w \in Indexing : pc[w] # "cleaning" =>
       /\ \A b \in Written(w) : chunks[b] \in {Mark, "none"}
       /\ ~damaged => /\ \A b \in Written(w) : chunks[b] = Mark
                      /\ Uniform(Batch \ Written(w))
  /\ Indexing = {} /\ ~damaged => Uniform(Batch)

TimersAtRest ==
  \A w \in Writers \ Holders : age[w] = 0

\* A rebuild that is about to write its first batch has nothing to overwrite.
RebuildsStartEmpty ==
  /\ \A w \in Writers : pc[w] = "checking" => batch[w] = 1
  /\ \A p \in Processes : pc[p] = "writing" /\ batch[p] = 1 => Present = {}

LeaseInv == HolderOwnsLease /\ TimersAtRest
ChunksInv == ChunksAgree /\ RebuildsStartEmpty
IInv == TypeOK /\ LeaseInv /\ ChunksInv
=============================================================================
