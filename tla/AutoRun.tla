------------------------------- MODULE AutoRun -------------------------------
(***************************************************************************)
(* Auto-run: a ticker that starts pipeline runs for registry reports       *)
(* (api/services/pipelineAutoRunService.ts, lib/pipelineAutoRunLock.ts).   *)
(*                                                                         *)
(* A tick is one execution of runPipelineAutoRunTick.  The repeatable job, *)
(* other replicas and BullMQ's re-execution of a stalled job all start     *)
(* ticks, so several may be under way.  Its outer part holds the lease and *)
(* gives up after TICK_LOCK_TIMEOUT_MS; withTimeout only stops waiting, so *)
(* the inner part (runPipelineAutoRunTickLocked) then runs on without it.  *)
(*                                                                         *)
(* A run <<r, i>> is the i-th ReportRun row of report r, together with the *)
(* pipeline jobs of its thread.                                            *)
(***************************************************************************)
EXTENDS RedisLock, FiniteSets, Sequences, SequencesExt

CONSTANTS
  Ticks,        \* executions that can be under way at once; also lock tokens
  Reports,      \* the registry reports that pass the configured filters
  NoRun,
  Limits,       \* values of maxConcurrent (1 .. 10 in the code)
  DoclingOff,   \* DOCLING_FAILURE_AUTO_OFF
  ReportOff,    \* REPORT_FAILURE_AUTO_OFF
  TTL,          \* LOCK_TTL_MS, in units of time
  TickTimeout,  \* TICK_LOCK_TIMEOUT_MS
  MaxHold,      \* the environment: an outer part ends within this time
  Replicas,     \* worker processes: each writes a row for every finished job
  PatchesRace,  \* the environment: staff change the row while a tick runs
  MaxRuns,      \* bound: ReportRun rows of each report
  MaxEvents,    \* bound: recorded outcomes
  MaxStreak,    \* bound: consecutive failures
  MaxCrashes,   \* bound: ticks whose process dies
  MaxPatches    \* bound: staff changes

ASSUME ConstantsAssumption ==
  /\ NoToken \notin Ticks /\ IsFiniteSet(Reports)
  /\ Limits \subseteq Nat \ {0}
  /\ DoclingOff \in Nat \ {0} /\ ReportOff \in Nat \ {0}
  /\ TTL \in Nat \ {0} /\ TickTimeout \in Nat /\ MaxHold \in Nat
  /\ Replicas \in Nat \ {0}
  /\ PatchesRace \in BOOLEAN
  /\ MaxRuns \in [Reports -> Nat]
  /\ MaxEvents \in Nat /\ MaxStreak \in Nat
  /\ MaxCrashes \in Nat /\ MaxPatches \in Nat

VARIABLES
  lock,      \* the lease garbo:pipeline-auto-run-tick
  outer,     \* [Ticks -> what the outer part still has to do with the lease]
  age,       \* [Ticks -> time since SET NX succeeded]
  pc,        \* [Ticks -> where the inner part is]
  seen,      \* [Ticks -> what its observation read and folded]
  cap,       \* [Ticks -> the maxConcurrent it read]
  room,      \* [Ticks -> the slots it found free]
  todo,      \* [Ticks -> candidates left]
  current,   \* [Ticks -> the run it is enqueueing]
  config,    \* the PipelineAutoRunConfig row
  events,    \* the outcomes recorded so far, in the order of their times
  row,       \* [Runs -> ReportRun.status; "stale": running, not touched lately]
  flow,      \* [Runs -> the run's jobs in the queues]
  staff,     \* a staff change under way, with the config row it has read
  streak,    \* history: the failures that really came one after the other
  crashes,
  patches

inner == <<pc, seen, cap, room, todo, current>>
vars == <<lock, outer, age, inner, config, events, row, flow, staff, streak,
          crashes, patches>>

RunsOf(r) == {<<r, i>> : i \in 1 .. MaxRuns[r]}
Runs == UNION {RunsOf(r) : r \in Reports}

Counters == [docling : Nat, report : Nat]
NoFailures == [docling |-> 0, report |-> 0]
NotObserved == [fails |-> NoFailures, through |-> 0, enabled |-> FALSE,
                real |-> NoFailures]

InFlight == {"working", "parked", "resumed"}   \* the run has jobs in a queue
Occupying == {"working", "resumed"}            \* and they take a slot
Live(f) == flow[f] \in InFlight

\* Past the configuration read, with a decision to enqueue.
Enqueueing == {"selecting", "claiming", "adding"}

Init ==
  /\ lock = Absent
  /\ outer = [t \in Ticks |-> "none"]
  /\ age = [t \in Ticks |-> 0]
  /\ pc = [t \in Ticks |-> "idle"]
  /\ seen = [t \in Ticks |-> NotObserved]
  /\ cap = [t \in Ticks |-> 0]
  /\ room = [t \in Ticks |-> 0]
  /\ todo = [t \in Ticks |-> {}]
  /\ current = [t \in Ticks |-> NoRun]
  /\ config \in [enabled : BOOLEAN, paused : {FALSE}, max : Limits,
                 fails : {NoFailures}, through : {0}]
  /\ events = <<>>
  /\ row = [f \in Runs |-> "none"]
  /\ flow = [f \in Runs |-> "none"]
  /\ staff = [busy |-> FALSE, enabled |-> FALSE]
  /\ streak = NoFailures
  /\ crashes = 0
  /\ patches = 0

(***************************************************************************)
(* Outcomes: foldAutoRunOutcomeEvents and the poison rule                  *)
(***************************************************************************)

Count(c, event) ==
  CASE event = "doclingFailed" -> [docling |-> c.docling + 1, report |-> c.report + 1]
    [] event = "jobFailed" -> [c EXCEPT !.report = c.report + 1]
    [] event = "doclingCompleted" -> [c EXCEPT !.docling = 0]
    [] event = "concluded" -> NoFailures

Repeated(event) == [i \in 1 .. Replicas |-> event]

\* Mutation: the runs' own successes are left out of the fold.
CountRowsOfJobs(c, event) ==
  IF event = "concluded" THEN c ELSE FoldLeft(Count, c, Repeated(event))

\* Fold one outcome, with the row of every worker process that recorded it.
CountRows(c, event) == FoldLeft(Count, c, Repeated(event))

\* The outcomes later than outcomeObservedThrough.
Unseen == SubSeq(events, config.through + 1, Len(events))

\* Mutation: a failed auto-run may be taken up again.
PoisonNotFailed(f) == row[f] \in {"completed", "running"}

\* isPoisonLinkedReportRun (skipped_no_emissions counts as completed here).
Poison(f) == row[f] \in {"completed", "failed", "running"}

\* Mutation: the anti-join alone, without the URLs of queued jobs.
SelectableByRows(r) == \A f \in RunsOf(r) : ~Poison(f)

\* selectAutoRunCandidates: no poison run, and no queued job has its URL.
Selectable(r) == \A f \in RunsOf(r) : ~Poison(f) /\ ~Live(f)

\* countActivelyProcessingAutoRuns
Active == {f \in Runs : flow[f] \in Occupying}

(***************************************************************************)
(* The inner part: runPipelineAutoRunTickLocked                            *)
(***************************************************************************)

Goto(t, label) == pc' = [pc EXCEPT ![t] = label]

\* The inner part returns; a tick whose outer part is gone is then over.
Finish(t) ==
  /\ Goto(t, IF outer[t] = "none" THEN "idle" ELSE "finished")
  /\ seen' = [seen EXCEPT ![t] = NotObserved]
  /\ cap' = [cap EXCEPT ![t] = 0]
  /\ room' = [room EXCEPT ![t] = 0]
  /\ todo' = [todo EXCEPT ![t] = {}]
  /\ current' = [current EXCEPT ![t] = NoRun]

\* observeAutoRunOutcomes: read the row and the outcomes since.
ObserveRead(t) ==
  /\ pc[t] = "observing"
  /\ seen' = [seen EXCEPT ![t] =
                [fails |-> FoldLeft(CountRows, config.fails, Unseen),
                 through |-> Len(events),
                 enabled |-> config.enabled,
                 real |-> streak]]
  /\ Goto(t, "counting")
  /\ UNCHANGED <<lock, outer, age, cap, room, todo, current, config, events,
                 row, flow, staff, streak, crashes, patches>>

\* Mutation: the watermark is not moved.
ObserveWriteKeepingMark(t) ==
  /\ pc[t] = "counting"
  /\ config' = [config EXCEPT !.fails = seen[t].fails]
  /\ Goto(t, IF /\ seen[t].enabled
                /\ \/ seen[t].fails.docling >= DoclingOff
                   \/ seen[t].fails.report >= ReportOff
             THEN "disabling" ELSE "preflight")
  /\ UNCHANGED <<lock, outer, age, seen, cap, room, todo, current, events,
                 row, flow, staff, streak, crashes, patches>>

\* Mutation: only the report failures are compared with their limit.
ObserveWriteReportsOnly(t) ==
  /\ pc[t] = "counting"
  /\ config' = [config EXCEPT !.fails = seen[t].fails,
                              !.through = seen[t].through]
  /\ Goto(t, IF seen[t].enabled /\ seen[t].fails.report >= ReportOff
             THEN "disabling" ELSE "preflight")
  /\ UNCHANGED <<lock, outer, age, seen, cap, room, todo, current, events,
                 row, flow, staff, streak, crashes, patches>>

\* Write the counters and the watermark back; compare with the limits.
ObserveWrite(t) ==
  /\ pc[t] = "counting"
  /\ config' = [config EXCEPT !.fails = seen[t].fails,
                              !.through = seen[t].through]
  /\ Goto(t, IF /\ seen[t].enabled
                /\ \/ seen[t].fails.docling >= DoclingOff
                   \/ seen[t].fails.report >= ReportOff
             THEN "disabling" ELSE "preflight")
  /\ UNCHANGED <<lock, outer, age, seen, cap, room, todo, current, events,
                 row, flow, staff, streak, crashes, patches>>

\* softDisable
SoftDisable(t) ==
  /\ pc[t] = "disabling"
  /\ config' = [config EXCEPT !.enabled = FALSE]
  /\ Goto(t, "preflight")
  /\ UNCHANGED <<lock, outer, age, seen, cap, room, todo, current, events,
                 row, flow, staff, streak, crashes, patches>>

\* checkDoclingReachable sets or clears pausedReason.
Preflight(t) ==
  /\ pc[t] = "preflight"
  /\ \E reachable \in BOOLEAN : config' = [config EXCEPT !.paused = ~reachable]
  /\ Goto(t, "reading")
  /\ UNCHANGED <<lock, outer, age, seen, cap, room, todo, current, events,
                 row, flow, staff, streak, crashes, patches>>

\* The configuration that the rest of the tick goes by.
ReadConfig(t) ==
  /\ pc[t] = "reading"
  /\ IF config.enabled /\ ~config.paused
     THEN /\ cap' = [cap EXCEPT ![t] = config.max]
          /\ Goto(t, "scanning")
          /\ UNCHANGED <<seen, room, todo, current>>
     ELSE Finish(t)
  /\ UNCHANGED <<lock, outer, age, config, events, row, flow, staff, streak,
                 crashes, patches>>

\* Mutation: without max(0, ...), and a tick goes on with what it gets.
CountSlotsUnclamped(t) ==
  /\ pc[t] = "scanning"
  /\ room' = [room EXCEPT ![t] = cap[t] - Cardinality(Active)]
  /\ Goto(t, "selecting")
  /\ UNCHANGED <<lock, outer, age, seen, cap, todo, current, config, events, row,
                 flow, staff, streak, crashes, patches>>

\* Mutation: one slot too many.
CountSlotsOneMore(t) ==
  /\ pc[t] = "scanning"
  /\ IF Cardinality(Active) <= cap[t]
     THEN /\ room' = [room EXCEPT ![t] = cap[t] - Cardinality(Active) + 1]
          /\ Goto(t, "selecting")
          /\ UNCHANGED <<seen, cap, todo, current>>
     ELSE Finish(t)
  /\ UNCHANGED <<lock, outer, age, config, events, row, flow, staff, streak,
                 crashes, patches>>

\* slots = max(0, maxConcurrent - active)
CountSlots(t) ==
  /\ pc[t] = "scanning"
  /\ IF Cardinality(Active) < cap[t]
     THEN /\ room' = [room EXCEPT ![t] = cap[t] - Cardinality(Active)]
          /\ Goto(t, "selecting")
          /\ UNCHANGED <<seen, cap, todo, current>>
     ELSE Finish(t)
  /\ UNCHANGED <<lock, outer, age, config, events, row, flow, staff, streak,
                 crashes, patches>>

\* A queue scan or a query throws: the tick only stores lastError.
ScanFails(t) ==
  /\ pc[t] \in {"scanning", "selecting"}
  /\ Finish(t)
  /\ UNCHANGED <<lock, outer, age, config, events, row, flow, staff, streak,
                 crashes, patches>>

\* The candidates, as many as there are slots (in the order of their ids,
\* which says nothing here).
Select(t) ==
  /\ pc[t] = "selecting"
  /\ \E some \in SUBSET {r \in Reports : Selectable(r)} :
       /\ Cardinality(some) <= room[t]
       /\ Cardinality(some) < room[t] => \A r \in Reports : Selectable(r) => r \in some
       /\ IF some # {}
          THEN /\ todo' = [todo EXCEPT ![t] = some]
               /\ Goto(t, "claiming")
               /\ UNCHANGED <<seen, cap, room, current>>
          ELSE Finish(t)
  /\ UNCHANGED <<lock, outer, age, config, events, row, flow, staff, streak,
                 crashes, patches>>

IsNext(f) == row[f] = "none" /\ \A g \in RunsOf(f[1]) : g[2] < f[2] => row[g] # "none"

\* enqueueAutoRunReport: prisma.reportRun.create.
Claim(t) ==
  /\ pc[t] = "claiming"
  /\ \E r \in todo[t] : \E f \in RunsOf(r) :
       /\ IsNext(f)
       /\ row' = [row EXCEPT ![f] = "running"]
       /\ current' = [current EXCEPT ![t] = f]
       /\ todo' = [todo EXCEPT ![t] = todo[t] \ {r}]
  /\ Goto(t, "adding")
  /\ UNCHANGED <<lock, outer, age, seen, cap, room, config, events, flow,
                 staff, streak, crashes, patches>>

\* create throws.
ClaimFails(t) ==
  /\ pc[t] = "claiming"
  /\ streak.report < MaxStreak
  /\ Goto(t, "failing")
  /\ UNCHANGED <<lock, outer, age, seen, cap, room, todo, current, config,
                 events, row, flow, staff, streak, crashes, patches>>

\* queues.parsePdf.add, and on to the next candidate.
AddJob(t) ==
  /\ pc[t] = "adding"
  /\ flow' = [flow EXCEPT ![current[t]] = "working"]
  /\ IF todo[t] = {}
     THEN Finish(t)
     ELSE /\ Goto(t, "claiming")
          /\ current' = [current EXCEPT ![t] = NoRun]
          /\ UNCHANGED <<seen, cap, room, todo>>
  /\ UNCHANGED <<lock, outer, age, config, events, row, staff, streak, crashes,
                 patches>>

\* add throws, after or before it took effect; marking the run failed is best
\* effort.
AddFails(t) ==
  /\ pc[t] = "adding"
  /\ streak.report < MaxStreak
  /\ flow' \in {flow, [flow EXCEPT ![current[t]] = "working"]}
  /\ row' \in {row, [row EXCEPT ![current[t]] = "failed"]}
  /\ Goto(t, "failing")
  /\ current' = [current EXCEPT ![t] = NoRun]
  /\ UNCHANGED <<lock, outer, age, seen, cap, room, todo, config, events,
                 staff, streak, crashes, patches>>

\* The loop's catch: one more report failure, or the switch-off; then break.
CountEnqueueFailure(t) ==
  /\ pc[t] = "failing"
  /\ LET n == config.fails.report + 1
     IN config' = IF n >= ReportOff THEN [config EXCEPT !.enabled = FALSE]
                                    ELSE [config EXCEPT !.fails.report = n]
  /\ streak' = [streak EXCEPT !.report = streak.report + 1]
  /\ Finish(t)
  /\ UNCHANGED <<lock, outer, age, events, row, flow, staff, crashes, patches>>

(***************************************************************************)
(* The outer part: runPipelineAutoRunTick, tryWithPipelineAutoRunTickLock  *)
(***************************************************************************)

\* Mutation: SET without NX.
StartWithoutNX(t) ==
  /\ outer[t] = "none" /\ pc[t] = "idle"
  /\ PatchesRace \/ ~staff.busy
  /\ lock' = Granted(t, TTL)
  /\ outer' = [outer EXCEPT ![t] = "held"]
  /\ Goto(t, "observing")
  /\ UNCHANGED <<age, seen, cap, room, todo, current, config, events, row,
                 flow, staff, streak, crashes, patches>>

\* SET NX PX succeeds; a tick that finds the key there just returns.
Start(t) ==
  /\ outer[t] = "none" /\ pc[t] = "idle"
  /\ PatchesRace \/ ~staff.busy
  /\ IsFree(lock)
  /\ lock' = Granted(t, TTL)
  /\ outer' = [outer EXCEPT ![t] = "held"]
  /\ Goto(t, "observing")
  /\ UNCHANGED <<age, seen, cap, room, todo, current, config, events, row,
                 flow, staff, streak, crashes, patches>>

\* The outer part is over; so is the tick if its inner part has returned.
LetGo(t) ==
  /\ outer' = [outer EXCEPT ![t] = "none"]
  /\ age' = [age EXCEPT ![t] = 0]
  /\ pc' = [pc EXCEPT ![t] = IF pc[t] = "finished" THEN "idle" ELSE pc[t]]

\* The inner part has returned or the timeout has fired: finally reads the key.
Release(t) ==
  /\ outer[t] = "held"
  /\ pc[t] = "finished" \/ age[t] >= TickTimeout
  /\ IF Get(lock) = t
     THEN /\ outer' = [outer EXCEPT ![t] = "deleting"]
          /\ UNCHANGED <<age, pc>>
     ELSE LetGo(t)
  /\ UNCHANGED <<lock, seen, cap, room, todo, current, config, events, row,
                 flow, staff, streak, crashes, patches>>

\* redis.del removes whatever is there by now.
ReleaseDel(t) ==
  /\ outer[t] = "deleting"
  /\ lock' = Absent
  /\ LetGo(t)
  /\ UNCHANGED <<seen, cap, room, todo, current, config, events, row, flow,
                 staff, streak, crashes, patches>>

\* get or del throws: caught, the key is left to expire.
ReleaseFails(t) ==
  /\ \/ outer[t] = "deleting"
     \/ outer[t] = "held" /\ (pc[t] = "finished" \/ age[t] >= TickTimeout)
  /\ LetGo(t)
  /\ UNCHANGED <<lock, seen, cap, room, todo, current, config, events, row,
                 flow, staff, streak, crashes, patches>>

(***************************************************************************)
(* The runs, as the queues and startWorkers' saveRun show them             *)
(***************************************************************************)

\* A job of the run completes, which touches its row.
FlowProgress(f) ==
  /\ Live(f) /\ row[f] = "stale"
  /\ row' = [row EXCEPT ![f] = "running"]
  /\ UNCHANGED <<lock, outer, age, inner, config, events, flow, staff, streak,
                 crashes, patches>>

Record(event) ==
  /\ Len(events) < MaxEvents
  /\ events' = Append(events, event)
  /\ streak' = Count(streak, event)
  /\ streak'.report <= MaxStreak

DoclingCompletes(f) ==
  /\ Live(f)
  /\ Record("doclingCompleted")
  /\ row' = [row EXCEPT ![f] = IF row[f] = "stale" THEN "running" ELSE row[f]]
  /\ UNCHANGED <<lock, outer, age, inner, config, flow, staff, crashes, patches>>

\* A job of the run fails for good; its other jobs may go on.
FlowJobFails(f) ==
  /\ Live(f)
  /\ \E event \in {"doclingFailed", "jobFailed"} : Record(event)
  /\ row' = [row EXCEPT ![f] = "failed"]
  /\ flow' \in {flow, [flow EXCEPT ![f] = "ended"]}
  /\ UNCHANGED <<lock, outer, age, inner, config, staff, crashes, patches>>

\* sendCompanyLink completes, or the emissions gate ends the run.
FlowConcludes(f) ==
  /\ Live(f)
  /\ Record("concluded")
  /\ row' = [row EXCEPT ![f] = "completed"]
  /\ flow' = [flow EXCEPT ![f] = "ended"]
  /\ UNCHANGED <<lock, outer, age, inner, config, staff, crashes, patches>>

\* The jobs are gone and no worker process was listening to write it down.
FlowLost(f) ==
  /\ Live(f)
  /\ flow' = [flow EXCEPT ![f] = "ended"]
  /\ UNCHANGED <<lock, outer, age, inner, config, events, row, staff, streak,
                 crashes, patches>>

\* All that is left of the run waits for staff approval; staff approve.
Park(f) ==
  /\ flow[f] \in Occupying
  /\ flow' = [flow EXCEPT ![f] = "parked"]
  /\ UNCHANGED <<lock, outer, age, inner, config, events, row, staff, streak,
                 crashes, patches>>

Resume(f) ==
  /\ flow[f] = "parked"
  /\ flow' = [flow EXCEPT ![f] = "resumed"]
  /\ UNCHANGED <<lock, outer, age, inner, config, events, row, staff, streak,
                 crashes, patches>>

\* STALE_RUNNING_CLAIM_MS passes without a change of the row.  That is long
\* against a tick: no tick that may have seen the row young is still going.
GrowStale(f) ==
  /\ row[f] = "running"
  /\ \A t \in Ticks : pc[t] \notin Enqueueing
  /\ \E g \in RunsOf(f[1]) : row[g] = "none"
  /\ row' = [row EXCEPT ![f] = "stale"]
  /\ UNCHANGED <<lock, outer, age, inner, config, events, flow, staff, streak,
                 crashes, patches>>

(***************************************************************************)
(* Staff: patchPipelineAutoRunConfig                                       *)
(***************************************************************************)

MayPatch == PatchesRace \/ \A t \in Ticks : pc[t] = "idle"

PatchRead ==
  /\ ~staff.busy /\ patches < MaxPatches /\ MayPatch
  /\ staff' = [busy |-> TRUE, enabled |-> config.enabled]
  /\ patches' = patches + 1
  /\ UNCHANGED <<lock, outer, age, inner, config, events, row, flow, streak,
                 crashes>>

\* Switch on, switch off, or leave enabled as it was when the row was read;
\* with or without new limits and a reset of the counters.
PatchWrite ==
  /\ staff.busy /\ MayPatch
  /\ staff' = [busy |-> FALSE, enabled |-> FALSE]
  /\ \E on \in {TRUE, FALSE, staff.enabled}, max \in Limits, reset \in BOOLEAN :
       /\ config' = [config EXCEPT
                       !.enabled = on,
                       !.max = max,
                       !.paused = IF on /\ ~staff.enabled THEN FALSE ELSE @,
                       !.fails = IF reset THEN NoFailures ELSE @]
       /\ streak' = IF reset THEN FoldLeft(Count, NoFailures, Unseen) ELSE streak
  /\ UNCHANGED <<lock, outer, age, inner, events, row, flow, crashes, patches>>

(***************************************************************************)
(* The environment                                                         *)
(***************************************************************************)

\* The process dies; its lease stays behind.
Crash(t) ==
  /\ outer[t] # "none" \/ pc[t] # "idle"
  /\ crashes < MaxCrashes
  /\ outer' = [outer EXCEPT ![t] = "none"]
  /\ age' = [age EXCEPT ![t] = 0]
  /\ pc' = [pc EXCEPT ![t] = "idle"]
  /\ seen' = [seen EXCEPT ![t] = NotObserved]
  /\ cap' = [cap EXCEPT ![t] = 0]
  /\ room' = [room EXCEPT ![t] = 0]
  /\ todo' = [todo EXCEPT ![t] = {}]
  /\ current' = [current EXCEPT ![t] = NoRun]
  /\ crashes' = crashes + 1
  /\ UNCHANGED <<lock, config, events, row, flow, staff, streak, patches>>

\* Time passes; an outer part never outlives MaxHold.
Clock ==
  /\ \A t \in Ticks : outer[t] # "none" => age[t] < MaxHold
  /\ lock' = Aged(lock)
  /\ age' = [t \in Ticks |-> IF outer[t] # "none" THEN age[t] + 1 ELSE 0]
  /\ UNCHANGED <<outer, inner, config, events, row, flow, staff, streak,
                 crashes, patches>>

Inner(t) ==
  \/ ObserveRead(t) \/ ObserveWrite(t) \/ SoftDisable(t) \/ Preflight(t)
  \/ ReadConfig(t) \/ CountSlots(t) \/ ScanFails(t) \/ Select(t)
  \/ Claim(t) \/ ClaimFails(t) \/ AddJob(t) \/ AddFails(t)
  \/ CountEnqueueFailure(t)

Outer(t) == Start(t) \/ Release(t) \/ ReleaseDel(t) \/ ReleaseFails(t)

Flow(f) ==
  \/ FlowProgress(f) \/ DoclingCompletes(f) \/ FlowJobFails(f)
  \/ FlowConcludes(f) \/ FlowLost(f) \/ Park(f) \/ Resume(f) \/ GrowStale(f)

Next ==
  \/ \E t \in Ticks : Outer(t) \/ Inner(t) \/ Crash(t)
  \/ \E f \in Runs : Flow(f)
  \/ PatchRead \/ PatchWrite \/ Clock

Spec == Init /\ [][Next]_vars

-----------------------------------------------------------------------------
(***************************************************************************)
(* Properties                                                              *)
(***************************************************************************)

TicksOK ==
  /\ lock \in LeaseType(Ticks, TTL)
  /\ outer \in [Ticks -> {"none", "held", "deleting"}]
  /\ age \in [Ticks -> Nat]
  /\ pc \in [Ticks -> Enqueueing \cup {"idle", "observing", "counting",
              "disabling", "preflight", "reading", "scanning", "failing",
              "finished"}]
  /\ todo \in [Ticks -> SUBSET Reports]
  /\ current \in [Ticks -> Runs \cup {NoRun}]
  /\ row \in [Runs -> {"none", "running", "stale", "failed", "completed"}]
  /\ flow \in [Runs -> InFlight \cup {"none", "ended"}]

TypeOK ==
  /\ TicksOK
  /\ cap \in [Ticks -> Limits \cup {0}]
  /\ room \in [Ticks -> Nat]
  /\ config \in [enabled : BOOLEAN, paused : BOOLEAN, max : Limits,
                 fails : Counters, through : 0 .. Len(events)]

\* pipelineAutoRunLock.ts: overlapping ticks cannot double-enqueue.  No report
\* has two pipeline runs with jobs in the queues, whatever crashes, stale
\* claims and failing calls the ticks meet.  Holds while ticks end before
\* TICK_LOCK_TIMEOUT_MS and the TTL.
OneLiveRunPerReport ==
  \A r \in Reports : \A f, g \in RunsOf(r) : Live(f) /\ Live(g) => f = g

\* A report whose run is known to have completed or failed is not started
\* again, not even by a tick that selected it before the outcome was written.
ConcludedReportsRest ==
  [][\A r \in Reports :
       (\E f \in RunsOf(r) : row[f] \in {"completed", "failed"})
       => \A g \in RunsOf(r) : row[g] = "none" => row'[g] = "none"]_row

\* A tick that adds a job leaves at most maxConcurrent runs at work, as it
\* read it, runs that came back from an approval since not counted.
StartsWithinLimit ==
  [][\A t \in Ticks : AddJob(t) =>
       Cardinality({f \in Runs : flow'[f] = "working"}) <= cap[t]]_vars

\* The counters together with the outcomes that are still to be observed are
\* the real streaks: outcomeObservedThrough neither skips nor repeats one.  (A
\* failed enqueue counts at once, before older successes are observed, which
\* may then take it back.)
CountersExact ==
  LET fails == FoldLeft(CountRows, config.fails, Unseen)
  IN fails.docling = streak.docling /\ fails.report <= streak.report

\* pipeline.md: 3 consecutive Docling failures or 5 consecutive report failures
\* switch auto-run off.  It is not switched off for less.
SwitchOffIsEarned ==
  \A t \in Ticks :
    pc[t] = "disabling" => \/ seen[t].real.docling >= DoclingOff
                           \/ seen[t].real.report >= ReportOff

\* And for that much it is: a tick that has observed such a streak starts
\* nothing, unless staff intervene meanwhile.
StreakStopsTick ==
  \A t \in Ticks :
    pc[t] \in Enqueueing => seen[t].real.docling < DoclingOff

\* The counters are exact, a streak stops the tick that has seen it, and no more runs are started
\* than the limit it has read.
CountersDecide == [](CountersExact /\ StreakStopsTick) /\ StartsWithinLimit

\* Why OneLiveRunPerReport and ConcludedReportsRest hold (proved in
\* AutoRunProofs).  An outer part finds its own token in the lease, whose life
\* is not used up, and its timeout has not fired ...
HolderOwnsLease ==
  \A t \in Ticks :
    IF outer[t] = "none" THEN age[t] = 0
    ELSE /\ Get(lock) = t
         /\ lock.left + age[t] >= TTL
         /\ age[t] <= MaxHold

\* ... so that an inner part never runs without its outer part ...
InnerUnderLease ==
  \A t \in Ticks :
    /\ pc[t] # "idle" => outer[t] # "none"
    /\ outer[t] = "deleting" => pc[t] = "finished"

\* ... and nobody else starts a run of its candidates.
CandidatesFree ==
  \A t \in Ticks : pc[t] \in {"claiming", "adding"} =>
    \A r \in todo[t] : \A f \in RunsOf(r) :
      ~Live(f) /\ row[f] \notin {"completed", "failed"}

CurrentFree ==
  \A t \in Ticks : pc[t] = "adding" =>
    /\ current[t] \in Runs
    /\ row[current[t]] # "none"
    /\ current[t][1] \notin todo[t]
    /\ \A f \in RunsOf(current[t][1]) : ~Live(f)

\* The claim comes before the job.
ClaimedBeforeQueued == \A f \in Runs : Live(f) => row[f] # "none"

IInv ==
  /\ TicksOK
  /\ HolderOwnsLease
  /\ InnerUnderLease
  /\ CandidatesFree
  /\ CurrentFree
  /\ ClaimedBeforeQueued
  /\ OneLiveRunPerReport
=============================================================================
