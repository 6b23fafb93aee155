----------------------------- MODULE RunArchive -----------------------------
(***************************************************************************)
(* The archive of one run.  Every worker process listens to every queue    *)
(* and, for each job that ends, brings the run's ReportRun row up to date: *)
(* it reads the job, upserts the row by thread id, fills in the registry   *)
(* report, adds a ReportRunJob and sets the status of the run.  Nothing    *)
(* orders the handlers of one event in two processes, or of two events.    *)
(* backfill-report-runs-from-bullmq.ts, started by hand, adds the jobs that *)
(* no handler got into the archive and then computes every status anew.    *)
(***************************************************************************)
EXTENDS Naturals, FiniteSets

CONSTANTS
    Processes,  \* the worker processes
    MaxLosses   \* bound: handlers that fail or whose process dies

ASSUME ArchiveAssumption == MaxLosses \in Nat

VARIABLES
    event,    \* what the jobs of the run have ended with, by job
    handler,  \* how far the handler of each event is, in each process
    runRow,   \* the ReportRun row
    filed,    \* the ReportRunJob rows: what each job is archived with
    script,   \* the backfill: its stage, the jobs it found and has still to look at, its verdict
    losses    \* handlers that were lost

avars == <<event, handler, runRow, filed, script, losses>>
livevars == <<event, handler, runRow, filed>>

\* A job that concludes nothing unless it fails, the gate, and sendCompanyLink.
Jobs == {"step", "gate", "link"}
Outcomes == {"none", "completed", "gated", "failed"}
Statuses == {"running", "failed", "completed", "skipped_no_emissions"}
Stages == {"idle", "read", "missed", "upserted", "done", "lost"}

ArchiveTypeOK ==
    /\ event \in [Jobs -> Outcomes]
    /\ handler \in [Processes -> [Jobs -> Stages]]
    /\ runRow \in [exists: BOOLEAN, status: Statuses]
    /\ filed \in [Jobs -> SUBSET {"completed", "failed"}]
    /\ script \in [at: {"off", "import", "write", "done"}, had: SUBSET Jobs,
                   todo: SUBSET Jobs, status: Statuses]
    /\ losses \in 0..MaxLosses

ArchiveInit ==
    /\ event = [j \in Jobs |-> "none"]
    /\ \E up \in SUBSET Processes :
          handler = [p \in Processes |-> [j \in Jobs |-> IF p \in up THEN "idle" ELSE "lost"]]
    /\ runRow = [exists |-> FALSE, status |-> "running"]
    /\ filed = [j \in Jobs |-> {}]
    /\ script = [at |-> "off", had |-> {}, todo |-> {}, status |-> "running"]
    /\ losses = 0

\* A job of the run ends.  Only the gate can end a run early.
JobEnds(j) ==
    /\ event[j] = "none"
    /\ \E o \in {"completed", "failed"} \cup (IF j = "gate" THEN {"gated"} ELSE {}) :
          event' = [event EXCEPT ![j] = o]
    /\ UNCHANGED <<handler, runRow, filed, script, losses>>

\* The status of an ended job: one that ended the run early has completed.
JobStatus(j) == IF event[j] = "failed" THEN "failed" ELSE "completed"

To(p, j, st) == handler' = [handler EXCEPT ![p][j] = st]

\* The job is read from its queue.  One that was pruned, or has no thread or no url, is left out.
ReadJob(p, j) ==
    /\ event[j] # "none" /\ handler[p][j] = "idle"
    /\ To(p, j, "read")
    /\ UNCHANGED <<event, runRow, filed, script, losses>>

\* Mutant: the row is looked up first and created a step later, which the unique thread id
\* refuses when another handler was faster; the error ends the handler.
Mutant_UpsertRun(p, j) ==
    /\ \/ /\ handler[p][j] = "read"
          /\ To(p, j, IF runRow.exists THEN "upserted" ELSE "missed")
          /\ UNCHANGED runRow
       \/ /\ handler[p][j] = "missed"
          /\ To(p, j, IF runRow.exists THEN "done" ELSE "upserted")
          /\ runRow' = [runRow EXCEPT !.exists = TRUE]
    /\ UNCHANGED <<event, filed, script, losses>>

\* One upsert creates the row or brings it up to date, so that no two handlers can both find
\* none.  The registry report, where it is missing, and a ReportRunJob follow.
UpsertRun(p, j) ==
    /\ handler[p][j] = "read"
    /\ runRow' = [runRow EXCEPT !.exists = TRUE]
    /\ filed' = [filed EXCEPT ![j] = @ \cup {JobStatus(j)}]
    /\ To(p, j, "upserted")
    /\ UNCHANGED <<event, script, losses>>

\* The status an event gives the run, or "running" when it concludes nothing.
StatusOf(j) ==
    CASE event[j] = "failed" -> "failed"
      [] j = "link" /\ event[j] = "completed" -> "completed"
      [] event[j] = "gated" -> "skipped_no_emissions"
      [] OTHER -> "running"

SetStatus(p, j) ==
    /\ handler[p][j] = "upserted"
    /\ runRow' = IF StatusOf(j) = "running" THEN runRow ELSE [runRow EXCEPT !.status = StatusOf(j)]
    /\ To(p, j, "done")
    /\ UNCHANGED <<event, filed, script, losses>>

\* An error is logged, or the process dies: the handler goes no further, and this process does
\* not see the event again.
HandlerLost(p, j) ==
    /\ handler[p][j] \in {"read", "upserted"}
    /\ losses < MaxLosses
    /\ losses' = losses + 1
    /\ To(p, j, "lost")
    /\ UNCHANGED <<event, runRow, filed, script>>

Handles(p, j) == ReadJob(p, j) \/ UpsertRun(p, j) \/ SetStatus(p, j)

\* The backfill lists the jobs that have ended and are still in Redis.
BackfillStarts ==
    /\ script.at = "off"
    /\ LET ended == {j \in Jobs : event[j] # "none"}
       IN script' = [script EXCEPT !.at = "import", !.had = ended, !.todo = ended]
    /\ UNCHANGED <<livevars, losses>>

\* Mutant: the row is looked for by the job's id alone, which jobs of other queues may have.
Mutant_ImportJob(j) ==
    /\ script.at = "import" /\ j \in script.todo
    /\ IF \E k \in Jobs : filed[k] # {}
       THEN UNCHANGED <<filed, runRow>>
       ELSE /\ filed' = [filed EXCEPT ![j] = {JobStatus(j)}]
            /\ runRow' = [runRow EXCEPT !.exists = TRUE]
    /\ script' = [script EXCEPT !.todo = @ \ {j}]
    /\ UNCHANGED <<event, handler, losses>>

\* One that has a row is left alone, for another the run's row is upserted and one added.
ImportJob(j) ==
    /\ script.at = "import" /\ j \in script.todo
    /\ IF filed[j] # {}
       THEN UNCHANGED <<filed, runRow>>
       ELSE /\ filed' = [filed EXCEPT ![j] = {JobStatus(j)}]
            /\ runRow' = [runRow EXCEPT !.exists = TRUE]
    /\ script' = [script EXCEPT !.todo = @ \ {j}]
    /\ UNCHANGED <<event, handler, losses>>

\* All rows of the archive are read; the gate is not among the things that count.  A run
\* without job rows is left alone.
ReconcileReads ==
    /\ script.at = "import" /\ script.todo = {}
    /\ script' = [script EXCEPT !.at = IF \E j \in Jobs : filed[j] # {} THEN "write" ELSE "done",
                     !.status = IF \E j \in Jobs : "failed" \in filed[j] THEN "failed"
                                ELSE IF "completed" \in filed["link"] THEN "completed"
                                ELSE "running"]
    /\ UNCHANGED <<livevars, losses>>

ReconcileWrites ==
    /\ script.at = "write"
    /\ runRow' = [runRow EXCEPT !.status = script.status]
    /\ script' = [script EXCEPT !.at = "done"]
    /\ UNCHANGED <<event, handler, filed, losses>>

Backfill == BackfillStarts \/ (\E j \in Jobs : ImportJob(j)) \/ ReconcileReads \/ ReconcileWrites

Live ==
    \/ \E j \in Jobs : JobEnds(j)
    \/ \E p \in Processes, j \in Jobs : Handles(p, j) \/ HandlerLost(p, j)

ArchiveNext == Live \/ Backfill

ArchiveSpec == ArchiveInit /\ [][ArchiveNext]_avars

\* A run does not stay "running" once a handler has got through with an event that concludes it,
\* its status is never one that no job of the run has given it, and when no two jobs disagree
\* the order of the handlers does not matter.  (startWorkers.ts: the loser of a findUnique and
\* create used to leave the run "running".)
ConcludedIsShown ==
    script.at # "done" =>
    /\ runRow.status # "running" => \E j \in Jobs : StatusOf(j) = runRow.status
    /\ \A p \in Processes, j \in Jobs :
          handler[p][j] = "done" /\ StatusOf(j) # "running" =>
              \E k \in Jobs : StatusOf(k) = runRow.status /\ StatusOf(k) # "running"

\* What no handler got into the archive, because it failed or its process died, the backfill
\* does: when it has imported, every job that had ended before it began is in the archive.
BackfillRecovers ==
    script.at \in {"write", "done"} =>
        \A j \in script.had : filed[j] # {} /\ runRow.exists

\* backfill-report-runs-from-bullmq.ts:317: "same coarse rule as live workers".  When every
\* handler has got through, the status the backfill leaves is one the handlers could have left.
ReconcileAgrees ==
    script.at = "done" /\ (\A p \in Processes, j \in Jobs : event[j] # "none" => handler[p][j] = "done") =>
        \A j \in Jobs : StatusOf(j) # "running" =>
            \E k \in Jobs : StatusOf(k) = runRow.status /\ StatusOf(k) # "running"

\* The archive shows a concluded run as concluded, whichever process wrote last, and after the
\* backfill also when the handlers of its events were lost.
ArchiveIsTrue == ConcludedIsShown /\ BackfillRecovers
=============================================================================
