------------------------------ MODULE RunFlow ------------------------------
(***************************************************************************)
(* The second half of a run: extractEmissions adds checkDB above the       *)
(* follow-up questions, checkDB adds sendCompanyLink above the diffs, a    *)
(* diff asks staff and enqueues saveToAPI, and extractGleifIds gives       *)
(* itself a child and waits for it.                                        *)
(*                                                                         *)
(* One job stands for each kind: scope for the questions that must be      *)
(* answered, lei for the one that need not, diff for the ten workers made  *)
(* of DiffWorker.  A diff has two executions when BullMQ believes that the *)
(* worker of one has died and it goes on all the same.                     *)
(***************************************************************************)
EXTENDS Naturals, FiniteSets, Sequences

CONSTANTS
    Values,     \* what a diff may propose: the model's answer differs from call to call
    Nothing,    \* not one of them
    FlowTries,  \* attempts of a job of a flow (3 in the code)
    MaxFaults,  \* bound: attempts that fail
    MaxStalls   \* bound: executions that BullMQ takes for dead

ASSUME FlowAssumption ==
    /\ Nothing \notin Values /\ FlowTries \in Nat \ {0}
    /\ MaxFaults \in Nat /\ MaxStalls \in Nat

VARIABLES
    kind,     \* does the run approve by itself; is its report new to the company; never changes
    jobs,     \* every job of the run: its state and attempts
    data,     \* the diff's job data: the approval in it
    exec,     \* the diff's executions
    gleif,    \* extractGleifIds: where it stands, and gleifDiffEnqueued in its data
    children, \* the diffGleifIds jobs it has added
    saves,    \* the saveToAPI jobs of the diff, in order
    answers,  \* history: the values staff have approved
    troubles  \* failed attempts and stalls so far

fvars == <<kind, jobs, data, exec, gleif, children, saves, answers, troubles>>

JobNames == {"scope", "lei", "checkDB", "diff", "gleif", "link"}
JobStates == {"absent", "children", "waiting", "active", "delayed", "completed", "failed"}
Execs == {"one", "two"}

\* The approval in a job's data: what it is about, whether it is given, the proposed value.  A
\* run that staff have linked to a company carries that approval in the data of every later job.
Approvals == [type: {"none", "companyLink", "diff"}, approved: BOOLEAN, value: Values \cup {Nothing}]
NoApproval == [type |-> "none", approved |-> FALSE, value |-> Nothing]
LinkApproved == [type |-> "companyLink", approved |-> TRUE, value |-> Nothing]

NoExec == [pc |-> "none", data |-> NoApproval, value |-> Nothing, forced |-> FALSE,
           lock |-> FALSE]

FlowTypeOK ==
    /\ kind \in [autoApprove: BOOLEAN, newReport: BOOLEAN]
    /\ jobs \in [JobNames -> [st: JobStates, att: 0..FlowTries]]
    /\ data \in Approvals
    /\ exec \in [Execs -> [pc: {"none", "look", "compute", "request", "delay", "save", "end"},
                           data: Approvals, value: Values \cup {Nothing}, forced: BOOLEAN,
                      lock: BOOLEAN]]
    /\ gleif \in [pc: {"none", "look", "lookup", "flag", "wait"}, enqueued: BOOLEAN]
    /\ \A c \in DOMAIN children : children[c] \in {"waiting", "completed", "failed"}
    /\ \A s \in DOMAIN saves : saves[s] \in [value: Values \cup {Nothing}, asked: BOOLEAN]
    /\ answers \subseteq Values
    /\ troubles \in [faults: 0..MaxFaults, stalls: 0..MaxStalls]

-----------------------------------------------------------------------------
(***************************************************************************)
(* BullMQ.  A parent runs when every child is finished; a child that has   *)
(* failed counts as finished only with ignoreDependencyOnFailure.          *)
(***************************************************************************)

Is(j, st) == jobs[j].st = st
Finished(js, j, ignored) == js[j].st = "completed" \/ (ignored /\ js[j].st = "failed")

\* Whether the failure of a child is ignored by its parent.  Nothing in these flows sets it.
Ignored(j) == FALSE

ChildrenOf(j) == CASE j = "checkDB" -> {"scope", "lei"}
                   [] j = "link" -> {"diff", "gleif"}
                   [] OTHER -> {}

\* The jobs js with every parent released whose children are finished.
Released(js) ==
    [j \in JobNames |->
        IF js[j].st = "children" /\ j # "gleif" /\ (\A c \in ChildrenOf(j) : Finished(js, c, Ignored(c)))
        THEN [js[j] EXCEPT !.st = "waiting"] ELSE js[j]]

Set(j, st) == jobs' = Released([jobs EXCEPT ![j].st = st])

Fault == troubles.faults < MaxFaults /\ troubles' = [troubles EXCEPT !.faults = @ + 1]

\* Mutant: one attempt too many.
Mutant_Thrown(j) == jobs' = Released([jobs EXCEPT ![j] =
    [st |-> IF @.att < FlowTries THEN "waiting" ELSE "failed", att |-> @.att + 1]])

\* An attempt of j ends with an error.
Thrown(j) == jobs' = Released([jobs EXCEPT ![j] =
    [st |-> IF @.att + 1 < FlowTries THEN "waiting" ELSE "failed", att |-> @.att + 1]])

-----------------------------------------------------------------------------

FlowInit ==
    /\ kind \in [autoApprove: BOOLEAN, newReport: BOOLEAN]
    /\ jobs = [j \in JobNames |-> [att |-> 0, st |-> CASE j \in {"scope", "lei"} -> "waiting"
                                                      [] j = "checkDB" -> "children"
                                                      [] OTHER -> "absent"]]
    /\ data \in {NoApproval, LinkApproved}
    /\ exec = [e \in Execs |-> NoExec]
    /\ gleif = [pc |-> "none", enqueued |-> FALSE]
    /\ children = <<>>
    /\ saves = <<>>
    /\ answers = {}
    /\ troubles = [faults |-> 0, stalls |-> 0]

\* A follow-up question is answered, or a question fails; so do checkDB and sendCompanyLink.
Runs(j) ==
    /\ Is(j, "waiting")
    /\ \/ Set(j, "completed") /\ UNCHANGED troubles
       \/ Fault /\ Thrown(j)
    /\ UNCHANGED <<kind, data, exec, gleif, children, saves, answers>>

\* checkDB adds sendCompanyLink and its children, and has the data of the run copied into them.
\* Without a LEI there is no GLEIF lookup.
CheckDB ==
    /\ Is("checkDB", "waiting")
    /\ \E lei \in BOOLEAN :
          jobs' = [jobs EXCEPT !["checkDB"].st = "completed", !["link"].st = "children",
                               !["diff"].st = "waiting",
                               !["gleif"].st = IF lei THEN "waiting" ELSE "completed"]
    /\ UNCHANGED <<kind, data, exec, gleif, children, saves, answers, troubles>>

-----------------------------------------------------------------------------
(***************************************************************************)
(* A diff.                                                                 *)
(***************************************************************************)

\* Mutants: an approval of another type counts; a diff is computed while its approval is pending.
Mutant_ApprovedForDiff(a) == a.approved
Mutant_ShouldRunDiff(a) == a.type \in {"none", "companyLink", "diff"}

\* isApprovedForDiffType, isPendingApprovalForDiffType, shouldRunDiffComputation.
ApprovedForDiff(a) == a.type = "diff" /\ a.approved
PendingForDiff(a) == a.type = "diff" /\ ~a.approved
ShouldRunDiff(a) == ~ApprovedForDiff(a) /\ ~PendingForDiff(a)

ExecAt(e, pc) == exec[e].pc = pc
Moves(e, pc) == exec' = [exec EXCEPT ![e].pc = pc]

\* BullMQ gives the job to a worker; what the execution knows of the data is what it was then.
DiffStarts ==
    /\ Is("diff", "waiting")
    /\ \E e \in Execs :
          /\ ExecAt(e, "none") /\ (e = "two" => exec["one"].pc # "none")
          /\ exec' = [exec EXCEPT ![e] = [NoExec EXCEPT !.pc = "look", !.data = data, !.lock = TRUE]]
    /\ Set("diff", "active")
    /\ UNCHANGED <<kind, data, gleif, children, saves, answers, troubles>>

DiffLooks(e) ==
    /\ ExecAt(e, "look")
    /\ exec' = [exec EXCEPT ![e].pc =
          IF ApprovedForDiff(exec[e].data) THEN "save"
          ELSE IF ShouldRunDiff(exec[e].data) THEN "compute" ELSE "delay",
                            ![e].value = IF ApprovedForDiff(exec[e].data) THEN exec[e].data.value ELSE @]
    /\ UNCHANGED <<kind, jobs, data, gleif, children, saves, answers, troubles>>

\* diffChanges asks the model what has changed: nothing, or a value that requires approval.
DiffChanges == Values \cup {Nothing}

\* A change is put to staff unless the run approves by itself.  When nothing has changed, the
\* periods of a report that is new to the company are saved all the same.
DiffComputes(e) ==
    /\ ExecAt(e, "compute")
    /\ \E v \in DiffChanges :
          \/ v = Nothing /\ ~kind.newReport /\ Moves(e, "end")
          \/ v = Nothing /\ kind.newReport /\ exec' = [exec EXCEPT ![e].pc = "save", ![e].forced = TRUE]
          \/ v # Nothing /\ exec' = [exec EXCEPT ![e].value = v, ![e].pc =
                                           IF kind.autoApprove THEN "save" ELSE "request"]
    /\ UNCHANGED <<kind, jobs, data, gleif, children, saves, answers, troubles>>

\* The model cannot be reached: the attempt fails.
DiffFails(e) ==
    /\ ExecAt(e, "compute") /\ Fault
    /\ exec' = [exec EXCEPT ![e] = NoExec]
    /\ IF exec[e].lock THEN Thrown("diff") ELSE UNCHANGED jobs
    /\ UNCHANGED <<kind, data, gleif, children, saves, answers>>

\* requestApproval writes the whole data of the execution back, with the approval in it.
DiffRequests(e) ==
    /\ ExecAt(e, "request")
    /\ data' = [type |-> "diff", approved |-> FALSE, value |-> exec[e].value]
    /\ Moves(e, "delay")
    /\ UNCHANGED <<kind, jobs, gleif, children, saves, answers, troubles>>

\* The end of an execution moves the job, unless its lock is gone.
Ends(e, st) ==
    /\ exec' = [exec EXCEPT ![e] = NoExec]
    /\ IF exec[e].lock THEN Set("diff", st) ELSE UNCHANGED jobs

\* A day's delay.
DiffDelays(e) ==
    /\ ExecAt(e, "delay")
    /\ Ends(e, "delayed")
    /\ UNCHANGED <<kind, data, gleif, children, saves, answers, troubles>>

\* enqueueSaveToAPI adds a job without a parent.
DiffSaves(e) ==
    /\ ExecAt(e, "save")
    /\ saves' = Append(saves, [value |-> exec[e].value,
                               asked |-> ~kind.autoApprove /\ ~exec[e].forced])
    /\ Moves(e, "end")
    /\ UNCHANGED <<kind, jobs, data, gleif, children, answers, troubles>>

DiffEnds(e) ==
    /\ ExecAt(e, "end")
    /\ Ends(e, "completed")
    /\ UNCHANGED <<kind, data, gleif, children, saves, answers, troubles>>

\* The delay is over.
DiffResumes ==
    /\ Is("diff", "delayed")
    /\ Set("diff", "waiting")
    /\ UNCHANGED <<kind, data, exec, gleif, children, saves, answers, troubles>>

\* Staff approve what the data proposes, and the job need not wait for the rest of its day.
StaffApprove ==
    /\ PendingForDiff(data)
    /\ data' = [data EXCEPT !.approved = TRUE]
    /\ answers' = answers \cup {data.value}
    /\ IF Is("diff", "delayed") THEN Set("diff", "waiting") ELSE UNCHANGED jobs
    /\ UNCHANGED <<kind, exec, gleif, children, saves, troubles>>

\* The worker is taken for dead and the job given to another; the execution may in truth go on.
DiffStalls ==
    /\ Is("diff", "active") /\ troubles.stalls < MaxStalls
    /\ troubles' = [troubles EXCEPT !.stalls = @ + 1]
    /\ Set("diff", "waiting")
    /\ \E e \in Execs :
          /\ exec[e].lock
          /\ exec' \in {[exec EXCEPT ![e].lock = FALSE], [exec EXCEPT ![e] = NoExec]}
    /\ UNCHANGED <<kind, data, gleif, children, saves, answers>>

-----------------------------------------------------------------------------
(***************************************************************************)
(* extractGleifIds.                                                        *)
(***************************************************************************)

ChildrenDone == \A c \in DOMAIN children : children[c] # "waiting"

GleifStarts ==
    /\ Is("gleif", "waiting")
    /\ gleif' = [gleif EXCEPT !.pc = "look"]
    /\ Set("gleif", "active")
    /\ UNCHANGED <<kind, data, exec, children, saves, answers, troubles>>

\* Mutant: the flag of an earlier execution is not looked at.
Mutant_GleifLooks ==
    /\ gleif.pc = "look"
    /\ gleif' = [gleif EXCEPT !.pc = "lookup"]
    /\ UNCHANGED <<kind, jobs, data, exec, children, saves, answers, troubles>>

\* A job that has its child already only completes.
GleifLooks ==
    /\ gleif.pc = "look"
    /\ IF gleif.enqueued
       THEN gleif' = [gleif EXCEPT !.pc = "none"] /\ Set("gleif", "completed")
       ELSE gleif' = [gleif EXCEPT !.pc = "lookup"] /\ UNCHANGED jobs
    /\ UNCHANGED <<kind, data, exec, children, saves, answers, troubles>>

\* GLEIF has no such record, or the LEI is not valid.
GleifKnowsNothing ==
    /\ gleif.pc = "lookup"
    /\ gleif' = [gleif EXCEPT !.pc = "none"]
    /\ Set("gleif", "completed")
    /\ UNCHANGED <<kind, data, exec, children, saves, answers, troubles>>

GleifLookupFails ==
    /\ gleif.pc = "lookup" /\ Fault
    /\ gleif' = [gleif EXCEPT !.pc = "none"]
    /\ Thrown("gleif")
    /\ UNCHANGED <<kind, data, exec, children, saves, answers>>

\* addDiff: a diffGleifIds job below this one.
GleifAdds ==
    /\ gleif.pc = "lookup"
    /\ children' = Append(children, "waiting")
    /\ gleif' = [gleif EXCEPT !.pc = "flag"]
    /\ UNCHANGED <<kind, jobs, data, exec, saves, answers, troubles>>

GleifFlags ==
    /\ gleif.pc = "flag"
    /\ gleif' = [pc |-> "wait", enqueued |-> TRUE]
    /\ UNCHANGED <<kind, jobs, data, exec, children, saves, answers, troubles>>

\* moveToWaitingChildren, and WaitingChildrenError while a child is unfinished.
GleifWaits ==
    /\ gleif.pc = "wait"
    /\ gleif' = [gleif EXCEPT !.pc = "none"]
    /\ Set("gleif", IF ChildrenDone THEN "completed" ELSE "children")
    /\ UNCHANGED <<kind, data, exec, children, saves, answers, troubles>>

\* diffGleifIds writes its plan or fails for good, which its parent ignores.
GleifDiffEnds(c) ==
    /\ children[c] = "waiting"
    /\ \/ children' = [children EXCEPT ![c] = "completed"] /\ UNCHANGED troubles
       \/ Fault /\ children' = [children EXCEPT ![c] = "failed"]
    /\ jobs' = IF Is("gleif", "children") /\ (\A d \in DOMAIN children : children'[d] # "waiting")
               THEN [jobs EXCEPT !["gleif"].st = "waiting"] ELSE jobs
    /\ UNCHANGED <<kind, data, exec, gleif, saves, answers>>

GleifStalls ==
    /\ Is("gleif", "active") /\ troubles.stalls < MaxStalls
    /\ troubles' = [troubles EXCEPT !.stalls = @ + 1]
    /\ gleif' = [gleif EXCEPT !.pc = "none"]
    /\ Set("gleif", "waiting")
    /\ UNCHANGED <<kind, data, exec, children, saves, answers>>

-----------------------------------------------------------------------------

FlowWorks ==
    \/ \E j \in {"scope", "lei", "link"} : Runs(j)
    \/ CheckDB
    \/ DiffStarts \/ DiffResumes
    \/ \E e \in Execs : \/ DiffLooks(e) \/ DiffComputes(e) \/ DiffFails(e) \/ DiffRequests(e)
                        \/ DiffDelays(e) \/ DiffSaves(e) \/ DiffEnds(e)
    \/ GleifStarts \/ GleifLooks \/ GleifKnowsNothing \/ GleifLookupFails
    \/ GleifAdds \/ GleifFlags \/ GleifWaits
    \/ \E c \in DOMAIN children : GleifDiffEnds(c)

FlowNext == FlowWorks \/ StaffApprove \/ DiffStalls \/ GleifStalls

FlowSpec == FlowInit /\ [][FlowNext]_fvars

-----------------------------------------------------------------------------
(***************************************************************************)
(* Properties.                                                             *)
(***************************************************************************)

\* Nothing a run proposes for a company reaches saveToAPI unless staff have approved that very
\* value or the run approves by itself; an approval of something else that the data carries from
\* an earlier job of the run does not count.
StaffDecide == \A s \in DOMAIN saves : saves[s].asked => saves[s].value \in answers

\* A GLEIF record is written through one child job, whichever execution adds it.
\* (extractGleifIdsProcess.ts: a resumed job sees gleifDiffEnqueued and completes.)  Only a worker
\* that dies between adding the child and setting the flag leaves a second one.
OneGleifDiff == Len(children) > 1 => troubles.stalls > 0

\* An answer of staff stays, and one proposal is saved once, however often the job is delayed,
\* retried or resumed.  Only an execution that BullMQ took for dead and that goes on writes its
\* old copy of the data over the answer, or saves again.  And the GLEIF lookup has one child.
AnswersAreKept ==
    /\ [][/\ ApprovedForDiff(data) => ApprovedForDiff(data') \/ troubles.stalls > 0
          /\ saves' # saves => saves = <<>> \/ troubles.stalls > 0]_fvars
    /\ []OneGleifDiff
=============================================================================
