----------------------------- MODULE CompanySave -----------------------------
(***************************************************************************)
(* saveToAPI jobs (workers/saveToAPI.ts) writing a company through the API *)
(* under withCompanySaveLock (lib/companySaveLock.ts).                     *)
(*                                                                         *)
(* An attempt is one execution of the processor for a job.  BullMQ runs a  *)
(* job a second time when it believes the first execution stalled, whether *)
(* that worker is dead or only slow, so the two may overlap.  The API      *)
(* request is served by another process: the handler goes on when the      *)
(* worker that sent it dies or stops listening.                            *)
(***************************************************************************)
EXTENDS RedisLock, FiniteSets

CONSTANTS
  Jobs,           \* saveToAPI jobs
  Companies,
  Runs,           \* pipeline runs (threadId)
  NoCompany,      \* a ReportRun row without companyId / companyReportId
  Attempts,       \* executions of those jobs; an attempt is also its lock token
  JobOf,          \* the job an attempt executes
  RetryOf,        \* the execution it repeats; itself for a job's first execution
  RunOf,          \* job.data.threadId
  JobCompany,     \* job.data.companyId
  SavesPeriods,   \* the jobs whose apiSubEndpoint is 'reporting-periods'
  TTL,            \* LOCK_TTL_MS, in ticks
  MaxWait,        \* MAX_WAIT_MS, in ticks
  MaxHold,        \* the environment: no attempt spends more ticks under the lock
  CanLoseAnswer,  \* the environment: fetch may fail while the handler runs on
  MaxCrashes,     \* bound: how many executions lose their worker
  MaxLinks        \* bound: how often each run's company is set while saves run

ASSUME ConstantsAssumption ==
  /\ NoToken \notin Attempts
  /\ JobOf \in [Attempts -> Jobs]
  /\ RetryOf \in [Attempts -> Attempts]
  /\ RunOf \in [Jobs -> Runs]
  /\ JobCompany \in [Jobs -> Companies]
  /\ NoCompany \notin Companies
  /\ SavesPeriods \subseteq Jobs
  /\ TTL \in Nat \ {0}
  /\ MaxWait \in Nat
  /\ MaxHold \in Nat
  /\ CanLoseAnswer \in BOOLEAN
  /\ MaxCrashes \in Nat
  /\ MaxLinks \in [Runs -> Nat]

VARIABLES
  lock,      \* [Companies -> lease]: garbo:company-save-lock:<companyId>
  pc,        \* where each attempt is in the processor
  target,    \* the companyId the attempt saves to
  ok,        \* the pending outcome of run(): it returned, rather than threw
  waited,    \* ticks since waitStartedAt
  age,       \* ticks since SET NX succeeded
  handler,   \* the API request of the attempt
  canonical, \* ReportRun.companyId
  archived,  \* the company that owns ReportRun.companyReportId
  links,     \* how often canonical was set
  met        \* history: who held the lock an attempt was waiting for

vars == <<lock, pc, target, ok, waited, age, handler, canonical, archived,
          links, met>>

PC == {"idle", "waiting", "locked", "saving", "releasing", "deleting",
       "returning", "done", "failed", "crashed"}

Ended == {"done", "failed", "crashed"}

UnderLock == {"locked", "saving", "releasing", "deleting"}

\* From SET NX to DEL, or as long as its request is being served.
Busy(a) == pc[a] \in UnderLock \/ handler[a] = "running"

Init ==
  /\ lock = [c \in Companies |-> Absent]
  /\ pc = [a \in Attempts |-> "idle"]
  /\ target = [a \in Attempts |-> JobCompany[JobOf[a]]]
  /\ ok = [a \in Attempts |-> FALSE]
  /\ waited = [a \in Attempts |-> 0]
  /\ age = [a \in Attempts |-> 0]
  /\ handler = [a \in Attempts |-> "none"]
  /\ canonical = [r \in Runs |-> NoCompany]
  /\ archived = [r \in Runs |-> NoCompany]
  /\ links = [r \in Runs |-> 0]
  /\ met = [a \in Attempts |-> {}]

Goto(a, label) == pc' = [pc EXCEPT ![a] = label]

(***************************************************************************)
(* The processor                                                           *)
(***************************************************************************)

\* Mutation: the ReportRun row is trusted to have a company.
CanonicalCompanyIdNoFallback(j) == canonical[RunOf[j]]

\* getCanonicalCompanyIdForThread: the run's company wins over the job's.
CanonicalCompanyId(j) ==
  IF canonical[RunOf[j]] # NoCompany THEN canonical[RunOf[j]] ELSE JobCompany[j]

\* BullMQ hands the job to a worker; again, once, if it takes the first
\* execution for stalled.  The company is read here, before the lock.
Start(a) ==
  /\ pc[a] = "idle"
  /\ RetryOf[a] # a => pc[RetryOf[a]] \notin {"idle", "done", "failed"}
  /\ Goto(a, "waiting")
  /\ target' = [target EXCEPT ![a] = CanonicalCompanyId(JobOf[a])]
  /\ UNCHANGED <<lock, ok, waited, age, handler, canonical, archived, links, met>>

\* Mutation: SET without NX.
AcquireWithoutNX(a) ==
  /\ pc[a] = "waiting"
  /\ lock' = [lock EXCEPT ![target[a]] = Granted(a, TTL)]
  /\ Goto(a, "locked")
  /\ UNCHANGED <<target, ok, waited, age, handler, canonical, archived, links, met>>

\* SET NX PX succeeds.
Acquire(a) ==
  /\ pc[a] = "waiting"
  /\ IsFree(lock[target[a]])
  /\ lock' = [lock EXCEPT ![target[a]] = Granted(a, TTL)]
  /\ Goto(a, "locked")
  /\ UNCHANGED <<target, ok, waited, age, handler, canonical, archived, links, met>>

\* Mutation: a waiter that throws cleans up the key it was waiting for.
GiveUpReleasing(a) ==
  /\ pc[a] = "waiting"
  /\ ~IsFree(lock[target[a]])
  /\ waited[a] > MaxWait
  /\ Goto(a, "failed")
  /\ lock' = [lock EXCEPT ![target[a]] = Absent]
  /\ UNCHANGED <<target, ok, waited, age, handler, canonical, archived, links, met>>

\* Mutation: the first failing SET throws.
GiveUpAtOnce(a) ==
  /\ pc[a] = "waiting"
  /\ ~IsFree(lock[target[a]])
  /\ Goto(a, "failed")
  /\ UNCHANGED <<lock, target, ok, waited, age, handler, canonical, archived, links, met>>

\* SET NX fails after MAX_WAIT_MS: withCompanySaveLock throws.
GiveUp(a) ==
  /\ pc[a] = "waiting"
  /\ ~IsFree(lock[target[a]])
  /\ waited[a] > MaxWait
  /\ Goto(a, "failed")
  /\ UNCHANGED <<lock, target, ok, waited, age, handler, canonical, archived, links, met>>

\* getRedis() or redis.set throws.
RedisFails(a) ==
  /\ pc[a] = "waiting"
  /\ Goto(a, "failed")
  /\ UNCHANGED <<lock, target, ok, waited, age, handler, canonical, archived, links, met>>

\* Mutation: return run() without await, so that finally does not wait for it.
SendRequestNotAwaited(a) ==
  /\ pc[a] = "locked"
  /\ handler' = [handler EXCEPT ![a] = "running"]
  /\ Goto(a, "releasing")
  /\ UNCHANGED <<lock, target, ok, waited, age, canonical, archived, links, met>>

\* apiFetch sends the request; the API starts to write the company.
SendRequest(a) ==
  /\ pc[a] = "locked"
  /\ handler' = [handler EXCEPT ![a] = "running"]
  /\ Goto(a, "saving")
  /\ UNCHANGED <<lock, target, ok, waited, age, canonical, archived, links, met>>

\* ensureToken throws, so that no request is sent.
NoRequest(a) ==
  /\ pc[a] = "locked"
  /\ Goto(a, "releasing")
  /\ UNCHANGED <<lock, target, ok, waited, age, handler, canonical, archived, links, met>>

\* The API process finishes the request (with any status).
HandlerEnds(a) ==
  /\ handler[a] = "running"
  /\ handler' = [handler EXCEPT ![a] = "answered"]
  /\ UNCHANGED <<lock, pc, target, ok, waited, age, canonical, archived, links, met>>

\* apiFetch returns a response, or run() throws on null (404) or an error.
ReceiveAnswer(a) ==
  /\ pc[a] = "saving"
  /\ handler[a] = "answered"
  /\ \E success \in BOOLEAN : ok' = [ok EXCEPT ![a] = success]
  /\ Goto(a, "releasing")
  /\ UNCHANGED <<lock, target, waited, age, handler, canonical, archived, links, met>>

\* fetch rejects (timeout, reset, gateway error); the API does not notice.
LoseAnswer(a) ==
  /\ CanLoseAnswer
  /\ pc[a] = "saving"
  /\ handler[a] = "running"
  /\ Goto(a, "releasing")
  /\ UNCHANGED <<lock, target, ok, waited, age, handler, canonical, archived, links, met>>

\* Mutation: the release waits for the attempt's own token to be there.
ReleaseGetOwnOnly(a) ==
  /\ pc[a] = "releasing"
  /\ Get(lock[target[a]]) = a
  /\ Goto(a, "deleting")
  /\ UNCHANGED <<lock, target, ok, waited, age, handler, canonical, archived, links, met>>

\* finally: redis.get(key), and compare with the token.
ReleaseGet(a) ==
  /\ pc[a] = "releasing"
  /\ Goto(a, IF Get(lock[target[a]]) = a THEN "deleting" ELSE "returning")
  /\ UNCHANGED <<lock, target, ok, waited, age, handler, canonical, archived, links, met>>

\* redis.del(key), a second command: it removes whatever is there by now.
ReleaseDel(a) ==
  /\ pc[a] = "deleting"
  /\ lock' = [lock EXCEPT ![target[a]] = Absent]
  /\ Goto(a, "returning")
  /\ UNCHANGED <<target, ok, waited, age, handler, canonical, archived, links, met>>

\* get or del throws: caught and logged, the key is left to expire.
ReleaseFails(a) ==
  /\ pc[a] \in {"releasing", "deleting"}
  /\ Goto(a, "returning")
  /\ UNCHANGED <<lock, target, ok, waited, age, handler, canonical, archived, links, met>>

\* After the lock: a period save that returned a companyReportId stores it on
\* the run.
Return(a) ==
  /\ pc[a] = "returning"
  /\ Goto(a, IF ok[a] THEN "done" ELSE "failed")
  /\ \/ /\ ok[a] /\ JobOf[a] \in SavesPeriods
        /\ archived' = [archived EXCEPT ![RunOf[JobOf[a]]] = target[a]]
     \/ UNCHANGED archived
  /\ ok' = [ok EXCEPT ![a] = FALSE]
  /\ UNCHANGED <<lock, target, waited, age, handler, canonical, links, met>>

(***************************************************************************)
(* The environment                                                         *)
(***************************************************************************)

\* The worker process dies.  Its lock and its request stay behind.
Crash(a) ==
  /\ pc[a] \notin {"idle"} \cup Ended
  /\ Cardinality({b \in Attempts : pc[b] = "crashed"}) < MaxCrashes
  /\ Goto(a, "crashed")
  /\ UNCHANGED <<lock, target, ok, waited, age, handler, canonical, archived, links, met>>

\* guessWikidata or checkDB (syncCanonicalReportRunCompanyId) links the run.
Link(r, c) ==
  /\ links[r] < MaxLinks[r]
  /\ canonical[r] # c
  /\ canonical' = [canonical EXCEPT ![r] = c]
  /\ links' = [links EXCEPT ![r] = links[r] + 1]
  /\ UNCHANGED <<lock, pc, target, ok, waited, age, handler, archived, met>>

\* A tick is long against POLL_INTERVAL_MS: a waiter has tried again since the
\* last one, and has left the loop if it could.
WaitersPolled ==
  \A a \in Attempts :
    pc[a] = "waiting" => /\ ~IsFree(lock[target[a]])
                         /\ waited[a] <= MaxWait

Tick ==
  /\ WaitersPolled
  /\ \A a \in Attempts : Busy(a) => age[a] < MaxHold
  /\ lock' = [c \in Companies |-> Aged(lock[c])]
  /\ waited' = [a \in Attempts |->
                  IF pc[a] = "waiting" THEN waited[a] + 1 ELSE 0]
  /\ age' = [a \in Attempts |-> IF Busy(a) THEN age[a] + 1 ELSE 0]
  /\ met' = [a \in Attempts |->
               IF pc[a] = "waiting" THEN met[a] \cup {lock[target[a]].owner}
                                    ELSE {}]
  /\ UNCHANGED <<pc, target, ok, handler, canonical, archived, links>>

Processor(a) ==
  \/ Start(a) \/ Acquire(a) \/ GiveUp(a) \/ RedisFails(a)
  \/ SendRequest(a) \/ NoRequest(a) \/ ReceiveAnswer(a) \/ LoseAnswer(a)
  \/ ReleaseGet(a) \/ ReleaseDel(a) \/ ReleaseFails(a) \/ Return(a)

Next ==
  \/ \E a \in Attempts : Processor(a) \/ HandlerEnds(a) \/ Crash(a)
  \/ \E r \in Runs, c \in Companies : Link(r, c)
  \/ Tick

Spec == Init /\ [][Next]_vars

\* A worker that lives keeps running its processor, the API finishes what it
\* started, and time passes.  Nothing makes an execution stall or a run link.
Progress(a) ==
  \/ Acquire(a) \/ GiveUp(a) \/ SendRequest(a) \/ ReceiveAnswer(a)
  \/ ReleaseGet(a) \/ ReleaseDel(a) \/ Return(a)

FairSpec ==
  /\ Spec
  /\ \A a \in Attempts : WF_vars(Progress(a)) /\ WF_vars(HandlerEnds(a))
  /\ WF_vars(Tick)

-----------------------------------------------------------------------------
(***************************************************************************)
(* Properties                                                              *)
(***************************************************************************)

TypeOK ==
  /\ lock \in [Companies -> LeaseType(Attempts, TTL)]
  /\ pc \in [Attempts -> PC]
  /\ target \in [Attempts -> Companies]
  /\ ok \in [Attempts -> BOOLEAN]
  /\ waited \in [Attempts -> Nat]
  /\ age \in [Attempts -> Nat]
  /\ handler \in [Attempts -> {"none", "running", "answered"}]
  /\ canonical \in [Runs -> Companies \cup {NoCompany}]
  /\ archived \in [Runs -> Companies \cup {NoCompany}]
  /\ links \in [Runs -> Nat]
  /\ met \in [Attempts -> SUBSET (Attempts \cup {NoToken})]

Writing(c) == {a \in Attempts : handler[a] = "running" /\ target[a] = c}

\* companySaveLock.ts: concurrent runs for one company do not interleave their
\* writes.  No two API requests for a company are served at the same time,
\* whatever crashes, stalls and expiries happen.  Holds when an attempt is
\* quicker than the lock's TTL and no answer is lost.
SavesSerialized ==
  \A c \in Companies : \A a, b \in Writing(c) : a = b

\* The get-then-del release and the TTL never take the lock from an attempt
\* that is still under it: only its own del removes its token.
LockOnlyEndedByOwner ==
  [][\A a \in Attempts :
       /\ lock[target[a]].owner = a
       /\ Busy(a)
       /\ lock'[target[a]].owner # a
       => pc[a] = "deleting" /\ pc'[a] = "returning"]_lock

\* MAX_WAIT_MS outlasts LOCK_TTL_MS: a save is never given up because of one
\* dead or stuck holder, only when the lock changed hands while it waited.
GivesUpOnlyUnderContention ==
  [][\A a \in Attempts : GiveUp(a) =>
       \E b, c \in met[a] \cup {lock[target[a]].owner} : b # c]_vars

\* Whatever the others do, an execution whose worker lives comes to an end: no
\* dead holder keeps it waiting, and losing the lock does not hold it up.
EveryAttemptEnds ==
  \A a \in Attempts : pc[a] # "idle" ~> pc[a] \in Ended

\* The writes implement one writer at a time per company.
Turn(S) == IF S = {} THEN NoToken ELSE CHOOSE a \in S : TRUE
writer == [c \in Companies |-> Turn(Writing(c))]

Serial == INSTANCE SerialAccess
            WITH Resource <- Companies, Actor <- Attempts, Nobody <- NoToken
ImplementsSerialAccess == Serial!Spec

\* Why SavesSerialized holds (the inductive part is proved in
\* CompanySaveProofs): an attempt under the lock finds its own token in it,
\* and the lease it took has not been used up by the time spent since.
HolderOwnsLease ==
  \A a \in Attempts :
    Busy(a) => /\ Get(lock[target[a]]) = a
               /\ lock[target[a]].left + age[a] >= TTL
               /\ age[a] <= MaxHold

RequestsBelongToHolders ==
  \A a \in Attempts :
    /\ handler[a] = "running" => pc[a] \in {"saving", "crashed"}
    /\ pc[a] \in {"idle", "waiting"} => age[a] = 0

IInv == TypeOK /\ HolderOwnsLease /\ RequestsBelongToHolders
=============================================================================
