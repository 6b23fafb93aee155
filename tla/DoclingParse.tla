---------------------------- MODULE DoclingParse ----------------------------
(***************************************************************************)
(* The doclingParsePDF worker on one job: a document is submitted to       *)
(* Docling, which parses it as a task of its own; the worker keeps the     *)
(* task's id in the job's data, polls the task, and keeps the text.  A     *)
(* retry of the job takes the task id from the data and only polls.        *)
(*                                                                         *)
(* Docling (docling-serve or Berget) and BullMQ are external.              *)
(***************************************************************************)
EXTENDS Naturals, FiniteSets

CONSTANTS
    Attempts,    \* attempts of the job (3 in the code)
    Posts,       \* requests one call of fetchWithRetry makes (3)
    PollLimit,   \* polls of a pending task that fit into 25 minutes
    MaxTasks,    \* bound: tasks Docling has room for
    MaxDeaths,   \* bound: deaths of the worker's process
    MaxRestarts, \* bound: times Docling forgets its tasks
    MaxTrouble   \* bound: calls that fail or whose answer is lost

ASSUME DoclingAssumption ==
    /\ {Attempts, Posts, MaxTasks} \subseteq Nat \ {0}
    /\ {PollLimit, MaxDeaths, MaxRestarts, MaxTrouble} \subseteq Nat

VARIABLES
    setup,    \* local format or Berget; whether a callback is wanted; never changes
    job,      \* the BullMQ job: state, place of the execution, attempts, the stored task id
    run,      \* what only this execution knows: the task it polls, its polls, its requests
    task,     \* Docling's tasks, by id
    text,     \* where the parsed text is: the registry row, the job's return value
    calls,    \* requests the callback has answered
    reads,    \* history: results that were read in full
    faults    \* deaths, restarts, trouble, and how many submissions lost their answer

vars == <<setup, job, run, task, text, calls, reads, faults>>

Ids == 1..MaxTasks
NoTask == 0
States == {"waiting", "active", "delayed", "completed", "failed"}
Places == {"begin", "submit", "store", "poll", "fetch", "persist", "callback", "return"}
TaskStates == {"none", "pending", "success", "failure", "gone"}

TypeOK ==
    /\ setup \in [local: BOOLEAN, callback: BOOLEAN]
    /\ job \in [st: States, pc: Places, att: 0..Attempts, stalls: 0..1, data: Ids \cup {NoTask}]
    /\ run \in [task: Ids \cup {NoTask}, polls: 0..PollLimit, posts: 0..Posts]
    /\ task \in [Ids -> TaskStates]
    /\ text \in [row: BOOLEAN, kept: BOOLEAN]
    /\ calls \in Nat
    /\ reads \in Nat
    /\ faults \in [deaths: 0..MaxDeaths, restarts: 0..MaxRestarts, trouble: 0..MaxTrouble,
                   lost: 0..MaxTrouble]

-----------------------------------------------------------------------------
(***************************************************************************)
(* BullMQ, as the worker relies on it.                                     *)
(***************************************************************************)

\* The attempt ends with an error: the job is delayed, or failed after its last attempt.
Throw(j) == [j EXCEPT !.att = @ + 1, !.pc = "begin",
                      !.st = IF j.att + 1 < Attempts THEN "delayed" ELSE "failed"]

\* UnrecoverableError: no further attempt.
GiveUp(j) == [j EXCEPT !.att = @ + 1, !.pc = "begin", !.st = "failed"]

\* The job of a dead worker goes to another one, once.
Stall(j) == IF j.stalls = 0 THEN [j EXCEPT !.pc = "begin", !.st = "waiting", !.stalls = 1]
                            ELSE [j EXCEPT !.pc = "begin", !.st = "failed"]

At(pc) == job.st = "active" /\ job.pc = pc
Goto(pc) == job' = [job EXCEPT !.pc = pc]
Trouble == /\ faults.trouble < MaxTrouble
           /\ faults' = [faults EXCEPT !.trouble = @ + 1]

Untaken == {t \in Ids : task[t] = "none"}
NextId == CHOOSE t \in Untaken : \A u \in Untaken : t <= u

AfterPersist == IF setup.callback THEN "callback" ELSE "return"

-----------------------------------------------------------------------------
(***************************************************************************)
(* Mutants.                                                                *)
(***************************************************************************)

\* A retry does not look at the stored task.
Mutant_Begin ==
    /\ job.st \in {"waiting", "delayed"}
    /\ job' = [job EXCEPT !.st = "active", !.pc = "submit"]
    /\ run' = [task |-> NoTask, polls |-> 0, posts |-> 0]
    /\ UNCHANGED <<setup, task, text, calls, reads, faults>>

\* An unreachable callback fails the attempt.
Mutant_CallbackFails ==
    /\ At("callback") /\ Trouble
    /\ job' = Throw(job)
    /\ UNCHANGED <<setup, run, task, text, calls, reads>>

\* A failed write is swallowed and the text with it.
Mutant_PersistFails ==
    /\ At("persist") /\ Trouble
    /\ Goto(AfterPersist)
    /\ UNCHANGED <<setup, run, task, text, calls, reads>>

\* The local format polls as long as the task is pending, like Berget's.
Mutant_PollTimesOut ==
    /\ At("poll") /\ task[run.task] = "pending"
    /\ setup.local /\ run.polls = PollLimit
    /\ run' = [run EXCEPT !.polls = 0]
    /\ UNCHANGED <<setup, job, task, text, calls, reads, faults>>

-----------------------------------------------------------------------------

Init ==
    /\ setup \in [local: BOOLEAN, callback: BOOLEAN]
    /\ job = [st |-> "waiting", pc |-> "begin", att |-> 0, stalls |-> 0, data |-> NoTask]
    /\ run = [task |-> NoTask, polls |-> 0, posts |-> 0]
    /\ task = [t \in Ids |-> "none"]
    /\ text = [row |-> FALSE, kept |-> FALSE]
    /\ calls = 0
    /\ reads = 0
    /\ faults = [deaths |-> 0, restarts |-> 0, trouble |-> 0, lost |-> 0]

\* An execution begins: with a task id in the data it polls that task, else it submits.
\* A delayed job waits out its 120 seconds first.
Begin ==
    /\ job.st \in {"waiting", "delayed"}
    /\ job' = [job EXCEPT !.st = "active", !.pc = IF job.data # NoTask THEN "poll" ELSE "submit"]
    /\ run' = [task |-> job.data, polls |-> 0, posts |-> 0]
    /\ UNCHANGED <<setup, task, text, calls, reads, faults>>

\* Docling takes the document as a new task and its answer arrives.
Submit ==
    /\ At("submit") /\ run.posts < Posts /\ Untaken # {}
    /\ task' = [task EXCEPT ![NextId] = "pending"]
    /\ run' = [run EXCEPT !.task = NextId, !.posts = @ + 1]
    /\ Goto("store")
    /\ UNCHANGED <<setup, text, calls, reads, faults>>

\* Docling takes the document but the answer is lost or late, so fetchWithRetry posts it again.
SubmitAnswerLost ==
    /\ At("submit") /\ run.posts < Posts /\ Untaken # {}
    /\ faults.trouble < MaxTrouble
    /\ faults' = [faults EXCEPT !.trouble = @ + 1, !.lost = @ + 1]
    /\ task' = [task EXCEPT ![NextId] = "pending"]
    /\ run' = [run EXCEPT !.posts = @ + 1]
    /\ job' = IF run.posts + 1 = Posts THEN Throw(job) ELSE job
    /\ UNCHANGED <<setup, text, calls, reads>>

\* Docling is unhealthy, unreachable or has no room (another attempt), or refuses the document.
SubmitFails ==
    /\ At("submit")
    /\ \/ Untaken = {} /\ job' = Throw(job) /\ UNCHANGED faults
       \/ Trouble /\ job' \in {Throw(job), GiveUp(job)}
    /\ UNCHANGED <<setup, run, task, text, calls, reads>>

\* The job's data gets the task id.  The call is not awaited; polling starts at once.
StoreTask ==
    /\ At("store")
    /\ job' = [job EXCEPT !.data = run.task, !.pc = "poll"]
    /\ UNCHANGED <<setup, run, task, text, calls, reads, faults>>

\* A pending task is polled again after two seconds.  Polling Berget counts nothing.
PollPending ==
    /\ At("poll") /\ task[run.task] = "pending"
    /\ setup.local /\ run.polls < PollLimit
    /\ run' = [run EXCEPT !.polls = @ + 1]
    /\ UNCHANGED <<setup, job, task, text, calls, reads, faults>>

\* After 25 minutes of one execution the local format gives up this attempt.
PollTimesOut ==
    /\ At("poll") /\ task[run.task] = "pending"
    /\ setup.local /\ run.polls = PollLimit
    /\ job' = Throw(job)
    /\ UNCHANGED <<setup, run, task, text, calls, reads, faults>>

\* The task is done.  Berget's answer has the text in it; docling-serve's is fetched next.
PollSuccess ==
    /\ At("poll") /\ task[run.task] = "success"
    /\ IF setup.local THEN Goto("fetch") /\ UNCHANGED reads
                      ELSE Goto("persist") /\ reads' = reads + 1
    /\ UNCHANGED <<setup, run, task, text, calls, faults>>

\* The task has failed: for good with docling-serve, this attempt only with Berget.
PollFailure ==
    /\ At("poll") /\ task[run.task] = "failure"
    /\ job' = IF setup.local THEN GiveUp(job) ELSE Throw(job)
    /\ UNCHANGED <<setup, run, task, text, calls, reads, faults>>

\* Docling does not know the task: the local format forgets the id, so that the next attempt
\* submits again; Berget's keeps it.
PollGone ==
    /\ At("poll") /\ task[run.task] = "gone"
    /\ job' = Throw([job EXCEPT !.data = IF setup.local THEN NoTask ELSE @])
    /\ UNCHANGED <<setup, run, task, text, calls, reads, faults>>

\* The poll fails: a network or gateway error, or, in the local format, a refusal.
PollFails ==
    /\ At("poll") /\ Trouble
    /\ \/ job' = Throw(job)
       \/ setup.local /\ job' = GiveUp(job)
    /\ UNCHANGED <<setup, run, task, text, calls, reads>>

FetchResult ==
    /\ At("fetch") /\ task[run.task] = "success"
    /\ reads' = reads + 1
    /\ Goto("persist")
    /\ UNCHANGED <<setup, run, task, text, calls, faults>>

\* The result is gone: the answer is no gateway error, so the job fails and keeps the stale id.
FetchGone ==
    /\ At("fetch") /\ task[run.task] = "gone"
    /\ job' = GiveUp(job)
    /\ UNCHANGED <<setup, run, task, text, calls, reads, faults>>

\* The fetch fails on its way, or the result has no text in it.
FetchFails ==
    /\ At("fetch") /\ Trouble
    /\ job' = Throw(job)
    /\ UNCHANGED <<setup, run, task, text, calls, reads>>

\* persistMarkdown writes the registry row; when that fails the text stays in the return value.
Persist ==
    /\ At("persist")
    /\ text' = [text EXCEPT !.row = TRUE]
    /\ Goto(AfterPersist)
    /\ UNCHANGED <<setup, run, task, calls, reads, faults>>

PersistFails ==
    /\ At("persist") /\ Trouble
    /\ text' = [text EXCEPT !.kept = TRUE]
    /\ Goto(AfterPersist)
    /\ UNCHANGED <<setup, run, task, calls, reads>>

\* The callback gets the text.  Its failure is logged and the job goes on.
Callback ==
    /\ At("callback")
    /\ calls' = calls + 1
    /\ Goto("return")
    /\ UNCHANGED <<setup, run, task, text, reads, faults>>

CallbackFails ==
    /\ At("callback") /\ Trouble
    /\ Goto("return")
    /\ UNCHANGED <<setup, run, task, text, calls, reads>>

\* The return value, with the text in it when the row could not be written, is what the
\* parent job sees.
Return ==
    /\ At("return")
    /\ job' = [job EXCEPT !.st = "completed"]
    /\ UNCHANGED <<setup, run, task, text, calls, reads, faults>>

\* The worker's process dies; what its execution knew is lost, and so is a return value
\* that was not returned.
Die ==
    /\ job.st = "active" /\ faults.deaths < MaxDeaths
    /\ faults' = [faults EXCEPT !.deaths = @ + 1]
    /\ job' = Stall(job)
    /\ text' = [text EXCEPT !.kept = FALSE]
    /\ UNCHANGED <<setup, run, task, calls, reads>>

-----------------------------------------------------------------------------

TaskEnds ==
    /\ \E t \in Ids, st \in {"success", "failure"} :
          task[t] = "pending" /\ task' = [task EXCEPT ![t] = st]
    /\ UNCHANGED <<setup, job, run, text, calls, reads, faults>>

\* Docling restarts, or its results expire: every task it had is unknown from now on.
DoclingForgets ==
    /\ faults.restarts < MaxRestarts
    /\ \E t \in Ids : task[t] \notin {"none", "gone"}
    /\ task' = [t \in Ids |-> IF task[t] = "none" THEN "none" ELSE "gone"]
    /\ faults' = [faults EXCEPT !.restarts = @ + 1]
    /\ UNCHANGED <<setup, job, run, text, calls, reads>>

Worker ==
    \/ Begin \/ Submit \/ SubmitAnswerLost \/ SubmitFails \/ StoreTask
    \/ PollPending \/ PollTimesOut \/ PollSuccess \/ PollFailure \/ PollGone \/ PollFails
    \/ FetchResult \/ FetchGone \/ FetchFails \/ Persist \/ PersistFails
    \/ Callback \/ CallbackFails \/ Return

Next == Worker \/ Die \/ TaskEnds \/ DoclingForgets

\* BullMQ runs a waiting job and the process goes on unless it dies.  Nothing is assumed of
\* Docling: a task may stay pending for ever.
Spec == Init /\ [][Next]_vars /\ WF_vars(Worker)

-----------------------------------------------------------------------------
(***************************************************************************)
(* Properties.                                                             *)
(***************************************************************************)

\* A document is never parsed by two tasks at the same time, however often the job times out,
\* is retried or finds its task forgotten, unless the answer to a submission was lost or a
\* worker died before it had stored the id.  (doclingParsePDF.ts: a retry resumes data.taskId.)
OneParseAtATime ==
    Cardinality({t \in Ids : task[t] = "pending"}) > 1 => faults.lost + faults.deaths > 0

\* A finished parse is read, and told to the callback, once: no failure to save the text or to
\* reach the callback sends the document round again, only the death of a worker does.  And a
\* completed job has left the text in the registry or in its own return value.
ParseIsKeptOnce ==
    /\ reads > 1 \/ calls > 1 => faults.deaths > 0
    /\ job.st = "completed" => text.row \/ text.kept

\* With docling-serve an execution ends, whatever Docling does: its polling has a limit below
\* the job's lock duration, so the one slot of the worker is never held for ever.
ExecutionsEnd == (setup.local /\ job.st = "active") ~> (job.st # "active")

\* No two tasks parse the document at a time, and its parse is read and told once.
ParsedOnce == OneParseAtATime /\ ParseIsKeptOnce
=============================================================================
