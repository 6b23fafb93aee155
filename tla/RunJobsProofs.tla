--------------------------- MODULE RunJobsProofs ---------------------------
(***************************************************************************)
(* What is proved of the jobs of a run: what staff decide and what is done *)
(* once (RunFlow), what the archive of a run shows (RunArchive), what the  *)
(* lookups of LEI and ISINs come to (GleifLookup), and what the merge of   *)
(* the answers keeps (ScopeMerge).                                         *)
(***************************************************************************)
EXTENDS RunJobs, FiniteSetTheorems, WellFoundedInduction, TLAPS


ExecData == [pc: {"none", "look", "compute", "request", "delay", "save", "end"},
             data: Approvals, value: Values \cup {Nothing}, forced: BOOLEAN, lock: BOOLEAN]

Shapes ==
    /\ kind \in [autoApprove: BOOLEAN, newReport: BOOLEAN]
    /\ data \in Approvals
    /\ exec \in [Execs -> ExecData]
    /\ saves \in Seq([value: Values \cup {Nothing}, asked: BOOLEAN])

\* An approval of a diff, in the data or in what an execution has read of it, is an answer of
\* staff; an execution on its way to save has one, or needs none.
AnsweredByStaff ==
    /\ ApprovedForDiff(data) => data.value \in answers
    /\ \A e \in Execs :
        /\ ApprovedForDiff(exec[e].data) => exec[e].data.value \in answers
        /\ exec[e].pc = "save" => kind.autoApprove \/ exec[e].forced \/ exec[e].value \in answers

DecisionInv == Shapes /\ AnsweredByStaff /\ StaffDecide

JobTable == [JobNames -> [st: JobStates, att: Nat]]

JobShapes ==
    /\ jobs \in JobTable
    /\ gleif \in [pc: {"none", "look", "lookup", "flag", "wait"}, enqueued: BOOLEAN]
    /\ children \in Seq({"waiting", "completed", "failed"})
    /\ troubles \in [faults: Nat, stalls: Nat]

\* Until checkDB has run there is nothing of what it adds.
AddedByCheckDB ==
    \/ Is("checkDB", "completed")
    \/ /\ \A j \in {"diff", "gleif", "link"} : Is(j, "absent")
       /\ gleif.pc = "none" /\ exec = [e \in Execs |-> NoExec]

\* While nothing has stalled only one execution of the diff lives, and only while the job is
\* active; it decides on what the data still says, and after a save it only ends.
OneExecution ==
    /\ exec["two"].pc = "none"
    /\ exec["one"].pc # "none" => exec["one"].lock /\ Is("diff", "active")
    /\ exec["one"].pc = "look" => exec["one"].data.type = data.type
    /\ exec["one"].pc \in {"compute", "request"} => data.type # "diff"
    /\ saves # <<>> => \/ exec["one"].pc = "end"
                       \/ exec["one"].pc = "none" /\ Is("diff", "completed")

\* While nothing has stalled, a child that has been added is flagged before the job runs again.
FlagFollowsChild ==
    /\ gleif.pc # "none" => Is("gleif", "active")
    /\ Len(children) <= 1
    /\ gleif.pc = "lookup" => children = <<>>
    /\ gleif.pc \in {"none", "look", "wait"} /\ children # <<>> => gleif.enqueued

JobInv == /\ JobShapes /\ AddedByCheckDB
          /\ troubles.stalls = 0 => OneExecution /\ FlagFollowsChild

-----------------------------------------------------------------------------
(***************************************************************************)
(* Only what staff approve.                                                *)
(***************************************************************************)

LEMMA DecisionInitial == FlowInit => DecisionInv
<1> SUFFICES ASSUME FlowInit PROVE DecisionInv
  OBVIOUS
<1>1. NoApproval \in Approvals /\ LinkApproved \in Approvals
  BY DEF NoApproval, LinkApproved, Approvals
<1>2. NoExec \in ExecData
  BY <1>1 DEF NoExec, ExecData
<1>3. Shapes
  BY <1>1, <1>2 DEF FlowInit, Shapes
<1>4. AnsweredByStaff /\ StaffDecide
  BY DEF FlowInit, AnsweredByStaff, StaffDecide, ApprovedForDiff, NoApproval, LinkApproved, NoExec
<1> QED BY <1>3, <1>4 DEF DecisionInv

\* The steps of an execution and of the delay that leave the saves and the answers alone.
LEMMA ExecutionDecides ==
    ASSUME DecisionInv, NEW e \in Execs,
           DiffLooks(e) \/ DiffComputes(e) \/ DiffFails(e) \/ DiffRequests(e) \/ DiffDelays(e) \/ DiffEnds(e)
    PROVE  DecisionInv'
<1>1. NoApproval \in Approvals /\ NoExec \in ExecData
  BY DEF NoApproval, Approvals, NoExec, ExecData
<1>2. UNCHANGED <<kind, saves, answers>>
  BY DEF DiffLooks, DiffComputes, DiffFails, DiffRequests, DiffDelays, DiffEnds
<1>3. exec[e] \in ExecData
  BY DEF DecisionInv, Shapes
<1> DEFINE Next(x) == /\ x \in ExecData /\ exec' = [exec EXCEPT ![e] = x]
                      /\ ApprovedForDiff(x.data) => x.data.value \in answers
                      /\ x.pc = "save" => kind.autoApprove \/ x.forced \/ x.value \in answers
<1>4. PICK x \in ExecData : Next(x)
  <2>1. ApprovedForDiff(exec[e].data) => exec[e].data.value \in answers
    BY DEF DecisionInv, AnsweredByStaff
  <2>2. ~ApprovedForDiff(NoExec.data) /\ NoExec.pc = "none"
    BY DEF NoExec, NoApproval, ApprovedForDiff
  <2> SUFFICES \E x \in ExecData : Next(x)
    OBVIOUS
  <2>3. CASE DiffLooks(e)
    <3> DEFINE x == [exec[e] EXCEPT
               !.pc = IF ApprovedForDiff(exec[e].data) THEN "save"
                      ELSE IF ShouldRunDiff(exec[e].data) THEN "compute" ELSE "delay",
               !.value = IF ApprovedForDiff(exec[e].data) THEN exec[e].data.value ELSE @]
    <3>1. x \in ExecData
      BY <1>3 DEF ExecData, Approvals
    <3>2. exec' = [exec EXCEPT ![e] = x]
      BY <2>3 DEF DiffLooks
    <3>3. x.data = exec[e].data /\ (x.pc = "save" => ApprovedForDiff(exec[e].data) /\ x.value = exec[e].data.value)
      BY <1>3 DEF ExecData
    <3> HIDE DEF x
    <3>4. Next(x)
      BY <2>1, <3>1, <3>2, <3>3
    <3> QED BY <3>1, <3>4
  <2>4. CASE DiffComputes(e)
    <3>1. CASE Moves(e, "end")
      <4>1. Next([exec[e] EXCEPT !.pc = "end"])
        BY <1>3, <2>1, <3>1 DEF Moves, ExecData
      <4> QED BY <4>1
    <3>2. CASE exec' = [exec EXCEPT ![e].pc = "save", ![e].forced = TRUE]
      <4>1. Next([exec[e] EXCEPT !.pc = "save", !.forced = TRUE])
        BY <1>3, <2>1, <3>2 DEF ExecData
      <4> QED BY <4>1
    <3>3. ASSUME NEW v \in DiffChanges, v # Nothing,
                 exec' = [exec EXCEPT ![e].value = v, ![e].pc = IF kind.autoApprove THEN "save" ELSE "request"]
          PROVE  \E x \in ExecData : Next(x)
      <4>1. Next([exec[e] EXCEPT !.value = v, !.pc = IF kind.autoApprove THEN "save" ELSE "request"])
        BY <1>3, <2>1, <3>3 DEF ExecData, DiffChanges
      <4> QED BY <4>1
    <3> QED BY <2>4, <3>1, <3>2, <3>3 DEF DiffComputes
  <2>5. CASE DiffFails(e) \/ DiffDelays(e) \/ DiffEnds(e)
    <3>1. Next(NoExec)
      BY <1>1, <2>2, <2>5 DEF DiffFails, DiffDelays, DiffEnds, Ends
    <3> QED BY <1>1, <3>1
  <2>6. CASE DiffRequests(e)
    <3>1. Next([exec[e] EXCEPT !.pc = "delay"])
      BY <1>3, <2>1, <2>6 DEF DiffRequests, Moves, ExecData
    <3> QED BY <3>1
  <2> QED BY <2>3, <2>4, <2>5, <2>6
<1>5. data' \in Approvals /\ (ApprovedForDiff(data') => data'.value \in answers)
  <2>1. CASE DiffRequests(e)
    BY <1>3, <2>1 DEF DiffRequests, Approvals, ApprovedForDiff, ExecData
  <2>2. CASE data' = data
    BY <2>2 DEF DecisionInv, Shapes, AnsweredByStaff
  <2> QED BY <2>1, <2>2 DEF DiffLooks, DiffComputes, DiffFails, DiffDelays, DiffEnds
<1>6. Shapes'
  <2>1. exec' \in [Execs -> ExecData]
    BY <1>4 DEF DecisionInv, Shapes
  <2> QED BY <1>2, <1>5, <2>1 DEF DecisionInv, Shapes
<1>7. AnsweredByStaff'
  BY <1>2, <1>4, <1>5 DEF DecisionInv, Shapes, AnsweredByStaff, ApprovedForDiff
<1> QED BY <1>2, <1>6, <1>7 DEF DecisionInv, StaffDecide

LEMMA SaveDecides ==
    ASSUME DecisionInv, NEW e \in Execs, DiffSaves(e)
    PROVE  DecisionInv'
<1> DEFINE s == [value |-> exec[e].value, asked |-> ~kind.autoApprove /\ ~exec[e].forced]
<1>1. exec[e] \in ExecData /\ kind.autoApprove \in BOOLEAN /\ saves \in Seq([value: Values \cup {Nothing}, asked: BOOLEAN])
  BY DEF DecisionInv, Shapes
<1>2. s \in [value: Values \cup {Nothing}, asked: BOOLEAN] /\ (s.asked => s.value \in answers)
  BY <1>1 DEF DiffSaves, ExecAt, DecisionInv, AnsweredByStaff, ExecData
<1>3. /\ saves' = Append(saves, s) /\ exec' = [exec EXCEPT ![e].pc = "end"]
      /\ UNCHANGED <<kind, data, answers>>
  BY DEF DiffSaves, Moves
<1> HIDE DEF s
<1>4. StaffDecide'
  BY <1>1, <1>2, <1>3 DEF DecisionInv, StaffDecide
<1>5. Shapes'
  BY <1>1, <1>2, <1>3 DEF DecisionInv, Shapes, ExecData
<1>6. AnsweredByStaff'
  BY <1>1, <1>3 DEF DecisionInv, Shapes, AnsweredByStaff, ApprovedForDiff, ExecData
<1> QED BY <1>4, <1>5, <1>6 DEF DecisionInv

LEMMA DecisionStep == DecisionInv /\ [FlowNext]_fvars => DecisionInv'
<1> SUFFICES ASSUME DecisionInv, [FlowNext]_fvars PROVE DecisionInv'
  OBVIOUS
<1>1. NoApproval \in Approvals /\ NoExec \in ExecData
  BY DEF NoApproval, Approvals, NoExec, ExecData
<1>2. ASSUME UNCHANGED <<kind, data, exec, saves, answers>> PROVE DecisionInv'
  BY <1>2 DEF DecisionInv, Shapes, AnsweredByStaff, StaffDecide
<1>3. CASE DiffStarts
  <2>1. PICK e \in Execs : exec' = [exec EXCEPT ![e] = [NoExec EXCEPT !.pc = "look", !.data = data, !.lock = TRUE]]
    BY <1>3 DEF DiffStarts
  <2>2. UNCHANGED <<kind, data, saves, answers>>
    BY <1>3 DEF DiffStarts
  <2> DEFINE x == [NoExec EXCEPT !.pc = "look", !.data = data, !.lock = TRUE]
  <2>3. x \in ExecData /\ x.data = data /\ x.pc = "look"
    BY <1>1 DEF DecisionInv, Shapes, ExecData
  <2> HIDE DEF x
  <2>4. exec' = [exec EXCEPT ![e] = x]
    BY <2>1 DEF x
  <2> QED BY <2>2, <2>3, <2>4 DEF DecisionInv, Shapes, AnsweredByStaff, StaffDecide, ApprovedForDiff
<1>4. CASE DiffStalls
  <2>1. PICK e \in Execs : exec' \in {[exec EXCEPT ![e].lock = FALSE], [exec EXCEPT ![e] = NoExec]}
    BY <1>4 DEF DiffStalls
  <2>2. UNCHANGED <<kind, data, saves, answers>>
    BY <1>4 DEF DiffStalls
  <2>3. NoExec.pc = "none" /\ NoExec.data.type = "none"
    BY DEF NoExec, NoApproval
  <2>4. Shapes'
    <3>1. exec[e] \in ExecData /\ [exec[e] EXCEPT !.lock = FALSE] \in ExecData
      BY DEF DecisionInv, Shapes, ExecData
    <3>2. exec' = [exec EXCEPT ![e] = [exec[e] EXCEPT !.lock = FALSE]] \/ exec' = [exec EXCEPT ![e] = NoExec]
      BY <2>1
    <3>3. exec' \in [Execs -> ExecData]
      BY <1>1, <3>1, <3>2 DEF DecisionInv, Shapes
    <3> QED BY <2>2, <3>3 DEF DecisionInv, Shapes
  <2>5. AnsweredByStaff'
    BY <2>1, <2>2, <2>3 DEF DecisionInv, Shapes, AnsweredByStaff, ApprovedForDiff, ExecData
  <2> QED BY <2>2, <2>4, <2>5 DEF DecisionInv, StaffDecide
<1>5. CASE StaffApprove
  <2>1. /\ data' = [data EXCEPT !.approved = TRUE] /\ answers' = answers \cup {data.value}
        /\ UNCHANGED <<kind, exec, saves>>
    BY <1>5 DEF StaffApprove
  <2> QED BY <2>1 DEF DecisionInv, Shapes, Approvals, AnsweredByStaff, StaffDecide, ApprovedForDiff
<1>6. CASE GleifStalls \/ CheckDB \/ DiffResumes \/ GleifStarts \/ GleifLooks \/ GleifKnowsNothing
           \/ GleifLookupFails \/ GleifAdds \/ GleifFlags \/ GleifWaits
  BY <1>2, <1>6 DEF GleifStalls, CheckDB, DiffResumes, GleifStarts, GleifLooks, GleifKnowsNothing,
                    GleifLookupFails, GleifAdds, GleifFlags, GleifWaits
<1>7. CASE \/ \E j \in {"scope", "lei", "link"} : Runs(j)
           \/ \E c \in DOMAIN children : GleifDiffEnds(c)
           \/ UNCHANGED fvars
  BY <1>2, <1>7 DEF Runs, GleifDiffEnds, fvars
<1> QED BY <1>3, <1>4, <1>5, <1>6, <1>7, ExecutionDecides, SaveDecides DEF FlowNext, FlowWorks

\* A change of a diff that was not approved by itself is saved only with the answer of staff to
\* that value (DiffWorker.ts: shouldRunDiffComputation, isApprovedForDiffType, enqueueSaveToAPI).
THEOREM OnlyApproved == FlowSpec => []StaffDecide
<1>1. DecisionInv => StaffDecide
  BY DEF DecisionInv
<1> QED BY DecisionInitial, DecisionStep, <1>1, PTL DEF FlowSpec

-----------------------------------------------------------------------------
(***************************************************************************)
(* Once.                                                                   *)
(***************************************************************************)

\* What a step that moves job j to a state of S leaves of the others: only a parent whose
\* children are finished moves with it.
Moved(j, S) ==
    /\ jobs' \in JobTable /\ jobs'[j].st \in S
    /\ \A k \in JobNames \ {j} : Is(k, "children") \/ jobs'[k].st = jobs[k].st

LEMMA ReleasedLeaves ==
    ASSUME NEW js \in JobTable
    PROVE  /\ Released(js) \in JobTable
           /\ \A k \in JobNames : js[k].st # "children" \/ k = "gleif" => Released(js)[k] = js[k]
BY DEF Released, JobTable, JobNames, JobStates

LEMMA SetMoves ==
    ASSUME JobShapes, NEW j \in JobNames, NEW st \in JobStates, Set(j, st),
           st # "children" \/ j = "gleif"
    PROVE  Moved(j, {st})
<1> DEFINE js == [jobs EXCEPT ![j].st = st]
<1>1. js \in JobTable /\ js[j].st = st /\ \A k \in JobNames \ {j} : js[k] = jobs[k]
  BY DEF JobShapes, JobTable
<1>2. jobs' = Released(js)
  BY DEF Set
<1> HIDE DEF js
<1> QED BY <1>1, <1>2, ReleasedLeaves DEF Moved, Is

LEMMA ThrownMoves ==
    ASSUME JobShapes, NEW j \in JobNames, Thrown(j)
    PROVE  Moved(j, {"waiting", "failed"})
<1> DEFINE js == [jobs EXCEPT ![j] =
                    [st |-> IF @.att + 1 < FlowTries THEN "waiting" ELSE "failed", att |-> @.att + 1]]
<1>1. js \in JobTable /\ js[j].st \in {"waiting", "failed"} /\ \A k \in JobNames \ {j} : js[k] = jobs[k]
  BY DEF JobShapes, JobTable, JobStates
<1>2. jobs' = Released(js)
  BY DEF Thrown
<1> HIDE DEF js
<1> QED BY <1>1, <1>2, ReleasedLeaves DEF Moved, Is

\* A step of what checkDB has added.
LEMMA AddedKept ==
    ASSUME JobInv, NEW j \in {"diff", "gleif", "link"},
           ~Is(j, "absent") \/ gleif.pc # "none" \/ \E e \in Execs : exec[e].pc # "none",
           Moved(j, JobStates) \/ UNCHANGED jobs
    PROVE  AddedByCheckDB'
<1>1. NoExec.pc = "none"
  BY DEF NoExec
<1>2. Is("checkDB", "completed")
  BY <1>1 DEF JobInv, AddedByCheckDB
<1>3. Is("checkDB", "completed")'
  BY <1>2 DEF Moved, Is, JobNames
<1> QED BY <1>3 DEF AddedByCheckDB

LEMMA FlowInitial == FlowInit => JobInv
<1> SUFFICES ASSUME FlowInit PROVE JobInv
  OBVIOUS
<1>1. JobShapes
  BY DEF FlowInit, JobShapes, JobTable, JobStates
<1>2. AddedByCheckDB
  BY DEF FlowInit, AddedByCheckDB, Is, JobNames
<1>3. NoExec.pc = "none"
  BY DEF NoExec
<1>4. OneExecution /\ FlagFollowsChild
  BY <1>3 DEF FlowInit, OneExecution, FlagFollowsChild, Execs
<1> QED BY <1>1, <1>2, <1>4 DEF JobInv

-----------------------------------------------------------------------------

\* What a step of an execution of the diff has in common with the others.
LEMMA DiffStepKeeps ==
    ASSUME JobInv, Moved("diff", JobStates) \/ UNCHANGED jobs,
           UNCHANGED <<gleif, children>>,
           troubles' \in [faults: Nat, stalls: Nat], troubles'.stalls = troubles.stalls,
           ~Is("diff", "absent") \/ \E e \in Execs : exec[e].pc # "none",
           troubles.stalls = 0 => OneExecution'
    PROVE  JobInv'
<1>1. AddedByCheckDB'
  BY AddedKept
<1>2. JobShapes'
  BY DEF JobInv, JobShapes, Moved
<1>3. gleif.pc # "none" => (Is("gleif", "active") => Is("gleif", "active")')
  BY DEF Moved, Is, JobNames
<1> QED BY <1>1, <1>2, <1>3 DEF JobInv, FlagFollowsChild

LEMMA DiffJobStep ==
    ASSUME Shapes, JobInv, DiffStarts \/ DiffResumes
    PROVE  JobInv'
<1>0. Moved("diff", JobStates) /\ Moved("diff", {"active", "waiting"})
  <2>1. Moved("diff", {"active"}) \/ Moved("diff", {"waiting"})
    BY SetMoves DEF JobInv, DiffStarts, DiffResumes, JobNames, JobStates
  <2> QED BY <2>1 DEF Moved, JobStates
<1>1. UNCHANGED <<data, gleif, children, saves, troubles>>
  BY DEF DiffStarts, DiffResumes
<1>2. ~Is("diff", "absent")
  BY DEF DiffStarts, DiffResumes, Is
<1>3. ASSUME troubles.stalls = 0 PROVE OneExecution'
  <2>1. OneExecution
    BY <1>3 DEF JobInv
  <2>2. exec["one"].pc = "none" /\ exec["two"].pc = "none" /\ saves = <<>>
    BY <2>1 DEF OneExecution, DiffStarts, DiffResumes, Is
  <2>3. CASE DiffResumes
    BY <1>1, <2>2, <2>3 DEF DiffResumes, OneExecution
  <2>4. CASE DiffStarts
    <3>1. exec' = [exec EXCEPT !["one"] = [NoExec EXCEPT !.pc = "look", !.data = data, !.lock = TRUE]]
      BY <2>2, <2>4 DEF DiffStarts, ExecAt, Execs
    <3>2. /\ exec'["one"].pc = "look" /\ exec'["one"].data = data /\ exec'["one"].lock
          /\ exec'["two"].pc = "none"
      BY <2>2, <3>1 DEF Shapes, Execs, NoExec
    <3>3. Is("diff", "active")'
      <4>1. Moved("diff", {"active"})
        BY <2>4, SetMoves DEF JobInv, DiffStarts, JobNames, JobStates
      <4> QED BY <4>1 DEF Moved, Is
    <3> QED BY <1>1, <2>2, <3>2, <3>3 DEF OneExecution
  <2> QED BY <2>3, <2>4
<1>4. troubles \in [faults: Nat, stalls: Nat]
  BY DEF JobInv, JobShapes
<1> QED BY <1>0, <1>1, <1>2, <1>3, <1>4, DiffStepKeeps

\* The steps within an execution leave its job alone.
LEMMA ExecutionStep ==
    ASSUME Shapes, JobInv, NEW e \in Execs,
           DiffLooks(e) \/ DiffComputes(e) \/ DiffRequests(e) \/ DiffSaves(e)
    PROVE  JobInv'
<1>1. UNCHANGED <<jobs, gleif, children, troubles>> /\ exec[e].pc # "none"
  BY DEF DiffLooks, DiffComputes, DiffRequests, DiffSaves, ExecAt
<1>2. ASSUME troubles.stalls = 0 PROVE OneExecution'
  <2>1. OneExecution
    BY <1>2 DEF JobInv
  <2>2. e = "one" /\ exec["two"].pc = "none" /\ exec["one"].lock /\ Is("diff", "active")
    BY <1>1, <2>1 DEF OneExecution, Execs
  <2>3. exec["one"].pc # "end" => saves = <<>>
    BY <2>1, <2>2 DEF OneExecution, Is
  <2>4. exec["one"] \in ExecData
    BY DEF Shapes, Execs
  <2>5. /\ exec' \in [Execs -> ExecData] /\ exec'["two"] = exec["two"]
        /\ exec'["one"].lock /\ exec'["one"].data = exec["one"].data
    <3> DEFINE Next(x) == /\ x \in ExecData /\ x.lock = exec[e].lock /\ x.data = exec[e].data
                          /\ exec' = [exec EXCEPT ![e] = x]
    <3>0. exec[e] \in ExecData
      BY <2>2, <2>4
    <3>1. exec[e].data.value \in Values \cup {Nothing} /\ exec[e].value \in Values \cup {Nothing}
      BY <3>0 DEF ExecData, Approvals
    <3>2. PICK x \in ExecData : Next(x)
      <4> SUFFICES \E x \in ExecData : Next(x)
        OBVIOUS
      <4>2. CASE DiffLooks(e)
        <5> DEFINE pc == IF ApprovedForDiff(exec[e].data) THEN "save"
                         ELSE IF ShouldRunDiff(exec[e].data) THEN "compute" ELSE "delay"
                   v == IF ApprovedForDiff(exec[e].data) THEN exec[e].data.value ELSE exec[e].value
        <5>1. pc \in {"save", "compute", "delay"} /\ v \in Values \cup {Nothing}
          BY <3>1
        <5>2. exec' = [exec EXCEPT ![e].pc = pc, ![e].value = v]
          BY <2>2, <4>2 DEF DiffLooks
        <5> HIDE DEF pc, v
        <5>3. Next([exec[e] EXCEPT !.pc = pc, !.value = v])
          BY <3>0, <5>1, <5>2 DEF ExecData
        <5> QED BY <5>3
      <4>3. CASE DiffComputes(e)
        <5>1. CASE Moves(e, "end")
          <6>1. Next([exec[e] EXCEPT !.pc = "end"])
            BY <3>0, <5>1 DEF Moves, ExecData
          <6> QED BY <6>1
        <5>2. CASE exec' = [exec EXCEPT ![e].pc = "save", ![e].forced = TRUE]
          <6>1. Next([exec[e] EXCEPT !.pc = "save", !.forced = TRUE])
            BY <3>0, <5>2 DEF ExecData
          <6> QED BY <6>1
        <5>3. ASSUME NEW v \in DiffChanges,
                     exec' = [exec EXCEPT ![e].value = v, ![e].pc = IF kind.autoApprove THEN "save" ELSE "request"]
              PROVE  \E x \in ExecData : Next(x)
          <6>1. Next([exec[e] EXCEPT !.value = v, !.pc = IF kind.autoApprove THEN "save" ELSE "request"])
            BY <3>0, <5>3 DEF ExecData, DiffChanges
          <6> QED BY <6>1
        <5> QED BY <4>3, <5>1, <5>2, <5>3 DEF DiffComputes
      <4>5. CASE DiffRequests(e)
        <5>1. Next([exec[e] EXCEPT !.pc = "delay"])
          BY <3>0, <4>5 DEF DiffRequests, Moves, ExecData
        <5> QED BY <5>1
      <4>6. CASE DiffSaves(e)
        <5>1. Next([exec[e] EXCEPT !.pc = "end"])
          BY <3>0, <4>6 DEF DiffSaves, Moves, ExecData
        <5> QED BY <5>1
      <4> QED BY <4>2, <4>3, <4>5, <4>6
    <3> QED BY <2>2, <3>2 DEF Shapes, Execs
  <2>6. Is("diff", "active")'
    BY <1>1, <2>2 DEF Is
  <2>7. CASE DiffLooks(e)
    <3>1. /\ data' = data /\ saves' = <<>>
          /\ exec'["one"].pc \in {"save", "compute", "delay"}
          /\ exec'["one"].pc = "compute" => exec["one"].data.type # "diff"
          /\ exec["one"].data.type = data.type
      BY <2>1, <2>2, <2>3, <2>4, <2>7 DEF DiffLooks, OneExecution, ExecAt, Shapes, Execs, ExecData,
                       ShouldRunDiff, ApprovedForDiff, PendingForDiff, Approvals
    <3> QED BY <2>2, <2>5, <2>6, <3>1 DEF OneExecution
  <2>8. CASE DiffComputes(e)
    <3>1. /\ data' = data /\ saves' = <<>> /\ data.type # "diff"
          /\ exec'["one"].pc \in {"save", "request", "end"}
      BY <2>1, <2>2, <2>3, <2>4, <2>8 DEF DiffComputes, OneExecution, ExecAt, Moves, Shapes, Execs, ExecData
    <3> QED BY <2>2, <2>5, <2>6, <3>1 DEF OneExecution
  <2>9. CASE DiffRequests(e)
    <3>1. saves' = <<>> /\ exec'["one"].pc = "delay"
      BY <2>2, <2>3, <2>4, <2>9 DEF DiffRequests, ExecAt, Moves, Shapes, Execs, ExecData
    <3> QED BY <2>2, <2>5, <2>6, <3>1 DEF OneExecution
  <2>10. CASE DiffSaves(e)
    <3>1. exec'["one"].pc = "end"
      BY <2>2, <2>4, <2>10 DEF DiffSaves, Moves, Shapes, Execs, ExecData
    <3> QED BY <2>2, <2>5, <2>6, <3>1 DEF OneExecution
  <2> QED BY <2>7, <2>8, <2>9, <2>10
<1>3. troubles \in [faults: Nat, stalls: Nat]
  BY DEF JobInv, JobShapes
<1> QED BY <1>1, <1>2, <1>3, DiffStepKeeps

\* The end of an execution moves its job.
LEMMA ExecutionEnds ==
    ASSUME Shapes, JobInv, NEW e \in Execs, DiffFails(e) \/ DiffDelays(e) \/ DiffEnds(e)
    PROVE  JobInv'
<1>1. UNCHANGED <<data, gleif, children, saves>> /\ exec[e].pc # "none" /\ exec' = [exec EXCEPT ![e] = NoExec]
  BY DEF DiffFails, DiffDelays, DiffEnds, Ends, ExecAt
<1>2. troubles' \in [faults: Nat, stalls: Nat] /\ troubles'.stalls = troubles.stalls
  BY DEF JobInv, JobShapes, DiffFails, DiffDelays, DiffEnds, Fault
<1>3. Moved("diff", JobStates) \/ UNCHANGED jobs
  <2>1. Moved("diff", {"waiting", "failed"}) \/ Moved("diff", {"delayed"}) \/ Moved("diff", {"completed"})
        \/ UNCHANGED jobs
    BY SetMoves, ThrownMoves DEF JobInv, DiffFails, DiffDelays, DiffEnds, Ends, JobNames, JobStates
  <2> QED BY <2>1 DEF Moved, JobStates
<1>4. ASSUME troubles.stalls = 0 PROVE OneExecution'
  <2>1. OneExecution
    BY <1>4 DEF JobInv
  <2>2. e = "one" /\ exec["two"].pc = "none" /\ exec["one"].lock /\ Is("diff", "active")
    BY <1>1, <2>1 DEF OneExecution, Execs
  <2>3. exec'["one"].pc = "none" /\ exec'["two"].pc = "none"
    BY <1>1, <2>2 DEF Shapes, Execs, NoExec
  <2>4. saves # <<>> => Is("diff", "completed")'
    <3> SUFFICES ASSUME saves # <<>> PROVE Is("diff", "completed")'
      OBVIOUS
    <3>1. DiffEnds(e)
      BY <2>1, <2>2 DEF OneExecution, Is, DiffFails, DiffDelays, ExecAt
    <3>2. Moved("diff", {"completed"})
      BY <2>2, <3>1, SetMoves DEF JobInv, DiffEnds, Ends, JobNames, JobStates
    <3> QED BY <3>2 DEF Moved, Is
  <2> QED BY <1>1, <2>3, <2>4 DEF OneExecution
<1> QED BY <1>1, <1>2, <1>3, <1>4, DiffStepKeeps

LEMMA ApproveStep ==
    ASSUME Shapes, JobInv, StaffApprove
    PROVE  JobInv'
<1>1. UNCHANGED <<exec, gleif, children, saves, troubles>> /\ data'.type = data.type
  BY DEF StaffApprove, Shapes, Approvals
<1>2. UNCHANGED jobs \/ (Is("diff", "delayed") /\ Moved("diff", {"waiting"}))
  BY SetMoves DEF StaffApprove, JobInv, JobNames, JobStates
<1>3. ASSUME troubles.stalls = 0 PROVE OneExecution'
  BY <1>1, <1>2, <1>3 DEF JobInv, OneExecution, Is
<1>4. troubles \in [faults: Nat, stalls: Nat]
  BY DEF JobInv, JobShapes
<1>5. CASE Is("diff", "delayed") /\ Moved("diff", {"waiting"})
  <2>1. Moved("diff", JobStates)
    BY <1>5 DEF Moved, JobStates
  <2> QED BY <1>1, <1>3, <1>4, <1>5, <2>1, DiffStepKeeps DEF Is
<1>6. CASE UNCHANGED jobs
  <2>1. AddedByCheckDB'
    BY <1>1, <1>6 DEF JobInv, AddedByCheckDB, Is
  <2> QED BY <1>1, <1>3, <1>6, <2>1 DEF JobInv, JobShapes, FlagFollowsChild, Is
<1> QED BY <1>2, <1>5, <1>6

-----------------------------------------------------------------------------

\* What a step of extractGleifIds has in common with the others.
LEMMA GleifStepKeeps ==
    ASSUME JobInv, Moved("gleif", JobStates) \/ UNCHANGED jobs,
           UNCHANGED <<data, exec, saves>>,
           gleif' \in [pc: {"none", "look", "lookup", "flag", "wait"}, enqueued: BOOLEAN],
           children' \in Seq({"waiting", "completed", "failed"}),
           troubles' \in [faults: Nat, stalls: Nat], troubles'.stalls = troubles.stalls,
           ~Is("gleif", "absent") \/ gleif.pc # "none",
           troubles.stalls = 0 => FlagFollowsChild'
    PROVE  JobInv'
<1>1. AddedByCheckDB'
  BY AddedKept
<1>2. JobShapes'
  BY DEF JobInv, JobShapes, Moved
<1>3. \A st \in JobStates \ {"children"} : Is("diff", st) => Is("diff", st)'
  BY DEF Moved, Is, JobNames
<1>4. OneExecution => OneExecution'
  BY <1>3 DEF OneExecution, JobStates
<1> QED BY <1>1, <1>2, <1>4 DEF JobInv

LEMMA GleifJobStep ==
    ASSUME JobInv,
           GleifStarts \/ GleifLooks \/ GleifKnowsNothing \/ GleifLookupFails \/ GleifAdds
           \/ GleifFlags \/ GleifWaits
    PROVE  JobInv'
<1>0. /\ gleif \in [pc: {"none", "look", "lookup", "flag", "wait"}, enqueued: BOOLEAN]
      /\ children \in Seq({"waiting", "completed", "failed"})
      /\ troubles \in [faults: Nat, stalls: Nat] /\ JobShapes
  BY DEF JobInv, JobShapes
<1>1. UNCHANGED <<data, exec, saves>>
  BY DEF GleifStarts, GleifLooks, GleifKnowsNothing, GleifLookupFails, GleifAdds, GleifFlags, GleifWaits
<1>2. ~Is("gleif", "absent") \/ gleif.pc # "none"
  BY DEF GleifStarts, GleifLooks, GleifKnowsNothing, GleifLookupFails, GleifAdds, GleifFlags, GleifWaits, Is
<1>3. /\ gleif' \in [pc: {"none", "look", "lookup", "flag", "wait"}, enqueued: BOOLEAN]
      /\ children' \in Seq({"waiting", "completed", "failed"})
      /\ troubles' \in [faults: Nat, stalls: Nat] /\ troubles'.stalls = troubles.stalls
  <2>1. CASE GleifAdds
    BY <1>0, <2>1 DEF GleifAdds
  <2>2. CASE GleifLookupFails
    BY <1>0, <2>2 DEF GleifLookupFails, Fault
  <2>3. CASE GleifStarts \/ GleifLooks \/ GleifKnowsNothing \/ GleifFlags \/ GleifWaits
    <3>1. UNCHANGED <<children, troubles>>
      BY <2>3 DEF GleifStarts, GleifLooks, GleifKnowsNothing, GleifFlags, GleifWaits
    <3>2. \/ gleif' = [pc |-> "wait", enqueued |-> TRUE]
          \/ \E pc \in {"none", "look", "lookup"} : gleif' = [gleif EXCEPT !.pc = pc]
      <4>1. CASE GleifLooks
        <5>1. gleif' = [gleif EXCEPT !.pc = "none"] \/ gleif' = [gleif EXCEPT !.pc = "lookup"]
          BY <4>1 DEF GleifLooks
        <5> QED BY <5>1
      <4>2. CASE GleifStarts \/ GleifKnowsNothing
        BY <4>2 DEF GleifStarts, GleifKnowsNothing
      <4>3. CASE GleifFlags \/ GleifWaits
        BY <4>3 DEF GleifFlags, GleifWaits
      <4> QED BY <2>3, <4>1, <4>2, <4>3
    <3>3. gleif' \in [pc: {"none", "look", "lookup", "flag", "wait"}, enqueued: BOOLEAN]
      <4>1. gleif \in [pc: {"none", "look", "lookup", "flag", "wait"}, enqueued: BOOLEAN]
        BY <1>0
      <4>2. ASSUME NEW pc \in {"none", "look", "lookup"}
            PROVE  [gleif EXCEPT !.pc = pc] \in [pc: {"none", "look", "lookup", "flag", "wait"}, enqueued: BOOLEAN]
        BY <4>1
      <4>3. [pc |-> "wait", enqueued |-> TRUE] \in [pc: {"none", "look", "lookup", "flag", "wait"}, enqueued: BOOLEAN]
        OBVIOUS
      <4> QED BY <3>2, <4>2, <4>3
    <3> QED BY <1>0, <3>1, <3>3
  <2> QED BY <2>1, <2>2, <2>3
<1>4. /\ GleifStarts => Moved("gleif", {"active"})
      /\ GleifKnowsNothing => Moved("gleif", {"completed"})
      /\ GleifLookupFails => Moved("gleif", {"waiting", "failed"})
      /\ GleifWaits => Moved("gleif", {"completed"}) \/ Moved("gleif", {"children"})
      /\ GleifLooks => UNCHANGED jobs \/ Moved("gleif", {"completed"})
      /\ GleifAdds \/ GleifFlags => UNCHANGED jobs
  BY <1>0, SetMoves, ThrownMoves DEF GleifStarts, GleifLooks, GleifKnowsNothing, GleifLookupFails, GleifWaits,
              GleifAdds, GleifFlags, JobNames, JobStates
<1>5. Moved("gleif", JobStates) \/ UNCHANGED jobs
  BY <1>4 DEF Moved, JobStates
<1>6. ASSUME troubles.stalls = 0 PROVE FlagFollowsChild'
  <2>1. FlagFollowsChild
    BY <1>6 DEF JobInv
  <2>2. CASE GleifStarts
    <3>1. Is("gleif", "active")' /\ gleif.pc = "none" /\ gleif'.pc = "look" /\ UNCHANGED children
          /\ gleif'.enqueued = gleif.enqueued
      BY <1>0, <1>4, <2>1, <2>2 DEF GleifStarts, FlagFollowsChild, Is, Moved
    <3> QED BY <2>1, <3>1 DEF FlagFollowsChild
  <2>3. CASE GleifLooks
    <3>1. /\ UNCHANGED children /\ gleif'.enqueued = gleif.enqueued /\ gleif.pc = "look"
          /\ \/ gleif.enqueued /\ gleif'.pc = "none"
             \/ ~gleif.enqueued /\ gleif'.pc = "lookup" /\ UNCHANGED jobs
      BY <1>0, <2>3 DEF GleifLooks
    <3> QED BY <2>1, <3>1 DEF FlagFollowsChild, Is
  <2>4. CASE GleifKnowsNothing \/ GleifLookupFails
    <3>1. UNCHANGED children /\ gleif.pc = "lookup" /\ gleif'.pc = "none"
      BY <1>0, <2>4 DEF GleifKnowsNothing, GleifLookupFails
    <3> QED BY <2>1, <3>1 DEF FlagFollowsChild
  <2>5. CASE GleifAdds
    <3>1. children' = <<"waiting">> /\ gleif.pc = "lookup" /\ gleif'.pc = "flag" /\ UNCHANGED jobs
      BY <1>0, <2>1, <2>5 DEF GleifAdds, FlagFollowsChild
    <3>2. Len(children') = 1
      BY <3>1
    <3> QED BY <2>1, <3>1, <3>2 DEF FlagFollowsChild, Is
  <2>6. CASE GleifFlags
    <3>1. UNCHANGED <<children, jobs>> /\ gleif.pc = "flag" /\ gleif' = [pc |-> "wait", enqueued |-> TRUE]
      BY <2>6 DEF GleifFlags
    <3> QED BY <2>1, <3>1 DEF FlagFollowsChild, Is
  <2>7. CASE GleifWaits
    <3>1. UNCHANGED children /\ gleif.pc = "wait" /\ gleif'.pc = "none" /\ gleif'.enqueued = gleif.enqueued
      BY <1>0, <2>7 DEF GleifWaits
    <3> QED BY <2>1, <3>1 DEF FlagFollowsChild
  <2> QED BY <2>2, <2>3, <2>4, <2>5, <2>6, <2>7
<1> QED BY <1>1, <1>2, <1>3, <1>5, <1>6, GleifStepKeeps

LEMMA GleifChildStep ==
    ASSUME JobInv, NEW c \in DOMAIN children, GleifDiffEnds(c)
    PROVE  JobInv'
<1>1. UNCHANGED <<data, exec, gleif, saves>>
  BY DEF GleifDiffEnds
<1>2. JobShapes /\ AddedByCheckDB
  BY DEF JobInv
<1>3. jobs' = jobs \/ (Is("gleif", "children") /\ jobs' = [jobs EXCEPT !["gleif"].st = "waiting"])
  BY DEF GleifDiffEnds
<1>4. jobs' \in JobTable /\ \A k \in JobNames \ {"gleif"} : jobs'[k] = jobs[k]
  <2>1. jobs \in JobTable /\ "gleif" \in JobNames /\ "waiting" \in JobStates
    BY <1>2 DEF JobShapes, JobNames, JobStates
  <2> QED BY <1>3, <2>1 DEF JobTable
<1>5. /\ children' \in Seq({"waiting", "completed", "failed"}) /\ Len(children') = Len(children)
      /\ troubles' \in [faults: Nat, stalls: Nat] /\ troubles'.stalls = troubles.stalls
  BY <1>2 DEF GleifDiffEnds, JobShapes, Fault
<1>6. JobShapes'
  BY <1>1, <1>2, <1>4, <1>5 DEF JobShapes
<1>7. AddedByCheckDB'
  <2>1. CASE Is("checkDB", "completed")
    BY <1>4, <2>1 DEF AddedByCheckDB, Is, JobNames
  <2>2. CASE ~Is("checkDB", "completed")
    <3>1. jobs' = jobs
      BY <1>2, <1>3, <2>2 DEF AddedByCheckDB, Is
    <3> QED BY <1>1, <1>2, <3>1 DEF AddedByCheckDB, Is
  <2> QED BY <2>1, <2>2
<1>8. ASSUME troubles.stalls = 0 PROVE OneExecution' /\ FlagFollowsChild'
  <2>1. OneExecution /\ FlagFollowsChild
    BY <1>8 DEF JobInv
  <2>2. OneExecution'
    BY <1>1, <1>4, <2>1 DEF OneExecution, Is, JobNames
  <2>3. children # <<>>
    BY <1>2 DEF JobShapes
  <2>4. gleif.pc # "none" => Is("gleif", "active")'
    BY <1>3, <2>1 DEF FlagFollowsChild, Is
  <2> QED BY <1>1, <1>5, <2>1, <2>2, <2>3, <2>4 DEF FlagFollowsChild
<1> QED BY <1>5, <1>6, <1>7, <1>8 DEF JobInv

\* The jobs of which only the state is modelled.
LEMMA RunsStep ==
    ASSUME JobInv, NEW j \in {"scope", "lei", "link"}, Runs(j)
    PROVE  JobInv'
<1>1. UNCHANGED <<data, exec, gleif, children, saves>>
  BY DEF Runs
<1>2. troubles' \in [faults: Nat, stalls: Nat] /\ troubles'.stalls = troubles.stalls
  BY DEF Runs, JobInv, JobShapes, Fault
<1>3. Moved(j, JobStates)
  <2>1. Moved(j, {"completed"}) \/ Moved(j, {"waiting", "failed"})
    BY SetMoves, ThrownMoves DEF Runs, JobInv, JobNames, JobStates
  <2> QED BY <2>1 DEF Moved, JobStates
<1>4. JobShapes'
  BY <1>1, <1>2, <1>3 DEF JobInv, JobShapes, Moved
<1>5. AddedByCheckDB'
  <2>1. CASE Is("checkDB", "completed")
    BY <1>3, <2>1 DEF AddedByCheckDB, Moved, Is, JobNames
  <2>2. CASE ~Is("checkDB", "completed")
    <3>1. j # "link" /\ \A k \in {"diff", "gleif", "link"} : Is(k, "absent")
      BY <2>2 DEF JobInv, AddedByCheckDB, Runs, Is
    <3>2. \A k \in {"diff", "gleif", "link"} : Is(k, "absent")'
      BY <1>3, <3>1 DEF Moved, Is, JobNames
    <3> QED BY <1>1, <2>2, <3>2 DEF JobInv, AddedByCheckDB
  <2> QED BY <2>1, <2>2
<1>6. \A k \in {"diff", "gleif"}, st \in {"active", "completed"} : Is(k, st) => Is(k, st)'
  BY <1>3 DEF Moved, Is, JobNames
<1>7. OneExecution => OneExecution'
  BY <1>1, <1>6 DEF OneExecution
<1>8. FlagFollowsChild => FlagFollowsChild'
  BY <1>1, <1>6 DEF FlagFollowsChild
<1> QED BY <1>2, <1>4, <1>5, <1>7, <1>8 DEF JobInv

LEMMA CheckDBStep == JobInv /\ CheckDB => JobInv'
<1> SUFFICES ASSUME JobInv, CheckDB PROVE JobInv'
  OBVIOUS
<1>1. UNCHANGED <<data, exec, gleif, children, saves, troubles>>
  BY DEF CheckDB
<1>2. JobShapes /\ ~Is("checkDB", "completed")
  BY DEF JobInv, CheckDB, Is
<1>3. /\ \A k \in {"diff", "gleif", "link"} : Is(k, "absent")
      /\ gleif.pc = "none" /\ exec = [e \in Execs |-> NoExec]
  BY <1>2 DEF JobInv, AddedByCheckDB
<1>4. /\ jobs' \in JobTable /\ jobs'["checkDB"].st = "completed"
  <2>1. /\ jobs \in JobTable /\ {"checkDB", "link", "diff", "gleif"} \subseteq JobNames
        /\ {"completed", "children", "waiting"} \subseteq JobStates
    BY <1>2 DEF JobShapes, JobNames, JobStates
  <2>2. PICK named \in BOOLEAN :
          jobs' = [jobs EXCEPT !["checkDB"].st = "completed", !["link"].st = "children",
                               !["diff"].st = "waiting",
                               !["gleif"].st = IF named THEN "waiting" ELSE "completed"]
    BY DEF CheckDB
  <2> DEFINE one == [jobs EXCEPT !["checkDB"].st = "completed"]
             two == [one EXCEPT !["link"].st = "children"]
             three == [two EXCEPT !["diff"].st = "waiting"]
             four == [three EXCEPT !["gleif"].st = IF named THEN "waiting" ELSE "completed"]
  <2>3. one \in JobTable /\ one["checkDB"].st = "completed"
    BY <2>1 DEF JobTable
  <2> HIDE DEF one
  <2>4. two \in JobTable /\ two["checkDB"].st = "completed"
    BY <2>1, <2>3 DEF JobTable
  <2> HIDE DEF two
  <2>5. three \in JobTable /\ three["checkDB"].st = "completed"
    BY <2>1, <2>4 DEF JobTable
  <2> HIDE DEF three
  <2>6. four \in JobTable /\ four["checkDB"].st = "completed"
    BY <2>1, <2>5 DEF JobTable
  <2>7. jobs' = four
    BY <2>2 DEF four, three, two, one
  <2> QED BY <2>6, <2>7
<1>5. exec["one"].pc = "none" /\ exec["two"].pc = "none"
  BY <1>3 DEF Execs, NoExec
<1>6. ASSUME troubles.stalls = 0 PROVE OneExecution' /\ FlagFollowsChild'
  <2>1. OneExecution /\ FlagFollowsChild
    BY <1>6 DEF JobInv
  <2>2. saves = <<>>
    BY <1>3, <1>5, <2>1 DEF OneExecution, Is
  <2> QED BY <1>1, <1>3, <1>5, <2>1, <2>2 DEF OneExecution, FlagFollowsChild
<1>7. JobShapes' /\ AddedByCheckDB'
  BY <1>1, <1>2, <1>4 DEF JobShapes, AddedByCheckDB, Is
<1> QED BY <1>1, <1>6, <1>7 DEF JobInv

\* After a stall only the shapes are claimed.
LEMMA StallStep ==
    ASSUME JobInv, DiffStalls \/ GleifStalls
    PROVE  JobInv'
<1>1. JobShapes
  BY DEF JobInv
<1>2. troubles' \in [faults: Nat, stalls: Nat] /\ troubles'.stalls # 0
  BY <1>1 DEF JobShapes, DiffStalls, GleifStalls
<1>3. CASE DiffStalls
  <2>1. UNCHANGED <<gleif, children>> /\ ~Is("diff", "absent")
    BY <1>3 DEF DiffStalls, Is
  <2>2. Moved("diff", JobStates)
    <3>1. Moved("diff", {"waiting"})
      BY <1>1, <1>3, SetMoves DEF DiffStalls, JobNames, JobStates
    <3> QED BY <3>1 DEF Moved, JobStates
  <2>3. AddedByCheckDB'
    BY <2>1, <2>2, AddedKept
  <2> QED BY <1>1, <1>2, <2>1, <2>2, <2>3 DEF JobInv, JobShapes, Moved
<1>4. CASE GleifStalls
  <2>1. /\ UNCHANGED children /\ ~Is("gleif", "absent")
        /\ gleif' \in [pc: {"none", "look", "lookup", "flag", "wait"}, enqueued: BOOLEAN]
    BY <1>1, <1>4 DEF JobShapes, GleifStalls, Is
  <2>2. Moved("gleif", JobStates)
    <3>1. Moved("gleif", {"waiting"})
      BY <1>1, <1>4, SetMoves DEF GleifStalls, JobNames, JobStates
    <3> QED BY <3>1 DEF Moved, JobStates
  <2>3. AddedByCheckDB'
    BY <2>1, <2>2, AddedKept
  <2> QED BY <1>1, <1>2, <2>1, <2>2, <2>3 DEF JobInv, JobShapes, Moved
<1> QED BY <1>3, <1>4

LEMMA JobStep == Shapes /\ JobInv /\ [FlowNext]_fvars => JobInv'
<1> SUFFICES ASSUME Shapes, JobInv, [FlowNext]_fvars PROVE JobInv'
  OBVIOUS
<1>1. CASE UNCHANGED fvars
  BY <1>1 DEF fvars, JobInv, JobShapes, AddedByCheckDB, OneExecution, FlagFollowsChild, Is
<1>2. CASE FlowNext
  BY <1>2, DiffJobStep, ExecutionStep, ExecutionEnds, ApproveStep, GleifJobStep, GleifChildStep, RunsStep,
     CheckDBStep, StallStep
     DEF FlowNext, FlowWorks
<1> QED BY <1>1, <1>2

\* An answer of staff is written over, and a second save is made, only after a stall.
LEMMA KeptInStep ==
    ASSUME JobInv, [FlowNext]_fvars
    PROVE  /\ ApprovedForDiff(data) => ApprovedForDiff(data') \/ troubles.stalls > 0
           /\ saves' # saves => saves = <<>> \/ troubles.stalls > 0
<1>1. troubles.stalls \in Nat
  BY DEF JobInv, JobShapes
<1>2. ASSUME NEW e \in Execs, DiffRequests(e) PROVE ~ApprovedForDiff(data) \/ troubles.stalls > 0
  <2>1. CASE troubles.stalls = 0
    <3>1. OneExecution /\ exec[e].pc = "request"
      BY <1>2, <2>1 DEF JobInv, DiffRequests, ExecAt
    <3> QED BY <3>1 DEF OneExecution, Execs, ApprovedForDiff
  <2> QED BY <1>1, <2>1
<1>3. ASSUME NEW e \in Execs, DiffSaves(e) PROVE saves = <<>> \/ troubles.stalls > 0
  <2>1. CASE troubles.stalls = 0
    <3>1. OneExecution /\ exec[e].pc = "save"
      BY <1>3, <2>1 DEF JobInv, DiffSaves, ExecAt
    <3> QED BY <3>1 DEF OneExecution, Execs
  <2> QED BY <1>1, <2>1
<1>4. saves' # saves => \E e \in Execs : DiffSaves(e)
  <2>1. CASE UNCHANGED fvars
    BY <2>1 DEF fvars
  <2>2. CASE \/ \E j \in {"scope", "lei", "link"} : Runs(j)
             \/ \E c \in DOMAIN children : GleifDiffEnds(c)
             \/ CheckDB \/ DiffStarts \/ DiffResumes \/ StaffApprove \/ DiffStalls \/ GleifStalls
    BY <2>2 DEF Runs, GleifDiffEnds, CheckDB, DiffStarts, DiffResumes, StaffApprove, DiffStalls, GleifStalls
  <2>3. CASE GleifStarts \/ GleifLooks \/ GleifKnowsNothing \/ GleifLookupFails \/ GleifAdds \/ GleifFlags
             \/ GleifWaits
    BY <2>3 DEF GleifStarts, GleifLooks, GleifKnowsNothing, GleifLookupFails, GleifAdds, GleifFlags, GleifWaits
  <2>4. CASE \E e \in Execs : \/ DiffLooks(e) \/ DiffComputes(e) \/ DiffFails(e) \/ DiffRequests(e)
                              \/ DiffDelays(e) \/ DiffEnds(e)
    BY <2>4 DEF DiffLooks, DiffComputes, DiffFails, DiffRequests, DiffDelays, DiffEnds
  <2> QED BY <2>1, <2>2, <2>3, <2>4 DEF FlowNext, FlowWorks
<1>5. ApprovedForDiff(data) /\ ~ApprovedForDiff(data') => \E e \in Execs : DiffRequests(e)
  <2>1. CASE UNCHANGED fvars
    BY <2>1 DEF fvars
  <2>2. CASE \/ \E j \in {"scope", "lei", "link"} : Runs(j)
             \/ \E c \in DOMAIN children : GleifDiffEnds(c)
             \/ CheckDB \/ DiffStarts \/ DiffResumes \/ DiffStalls \/ GleifStalls
    BY <2>2 DEF Runs, GleifDiffEnds, CheckDB, DiffStarts, DiffResumes, DiffStalls, GleifStalls
  <2>3. CASE GleifStarts \/ GleifLooks \/ GleifKnowsNothing \/ GleifLookupFails \/ GleifAdds \/ GleifFlags
             \/ GleifWaits
    BY <2>3 DEF GleifStarts, GleifLooks, GleifKnowsNothing, GleifLookupFails, GleifAdds, GleifFlags, GleifWaits
  <2>4. CASE \E e \in Execs : \/ DiffLooks(e) \/ DiffComputes(e) \/ DiffFails(e) \/ DiffSaves(e)
                              \/ DiffDelays(e) \/ DiffEnds(e)
    BY <2>4 DEF DiffLooks, DiffComputes, DiffFails, DiffSaves, DiffDelays, DiffEnds
  <2>5. CASE StaffApprove
    BY <2>5 DEF StaffApprove, PendingForDiff, ApprovedForDiff
  <2> QED BY <2>1, <2>2, <2>3, <2>4, <2>5 DEF FlowNext, FlowWorks
<1> QED BY <1>2, <1>3, <1>4, <1>5

\* While no worker is taken for dead, an answer of staff stays in the job's data, a proposal is
\* saved once and extractGleifIds adds one child, however often a job fails, is delayed or resumed
\* (DiffWorker.ts: requestApproval, moveToDelayed; extractGleifIdsProcess.ts: gleifDiffEnqueued).
THEOREM DoneOnce == FlowSpec => AnswersAreKept
<1> DEFINE Kept == /\ ApprovedForDiff(data) => ApprovedForDiff(data') \/ troubles.stalls > 0
                   /\ saves' # saves => saves = <<>> \/ troubles.stalls > 0
<1>1. Shapes /\ JobInv /\ [FlowNext]_fvars => [Kept]_fvars
  BY KeptInStep
<1>2. JobInv => OneGleifDiff
  <2> SUFFICES ASSUME JobInv PROVE OneGleifDiff
    OBVIOUS
  <2>1. troubles.stalls \in Nat /\ Len(children) \in Nat
    BY DEF JobInv, JobShapes
  <2> QED BY <2>1 DEF JobInv, FlagFollowsChild, OneGleifDiff
<1>3. DecisionInv => Shapes
  BY DEF DecisionInv
<1>4. FlowSpec => []OneGleifDiff /\ [][Kept]_fvars
  BY DecisionInitial, DecisionStep, FlowInitial, JobStep, <1>1, <1>2, <1>3, PTL DEF FlowSpec
<1> QED BY <1>4 DEF AnswersAreKept

-----------------------------------------------------------------------------
(***************************************************************************)
(* Types.                                                                  *)
(***************************************************************************)

\* A job that is not given up has an attempt left.
TriesLeft == \A j \in JobNames :
    /\ jobs[j].att <= FlowTries
    /\ jobs[j].att < FlowTries \/ Is(j, "failed")

\* Only one execution of an active diff has its lock, and extractGleifIds runs only while active:
\* this is so after a stall as well.
LocksHeld ==
    /\ \A e \in Execs : exec[e].lock => Is("diff", "active")
    /\ \A d, e \in Execs : exec[d].lock /\ exec[e].lock => d = e
    /\ gleif.pc # "none" => Is("gleif", "active")

\* What is put to staff is a value.
ValuesAsked ==
    /\ data.type = "diff" => data.value \in Values
    /\ \A e \in Execs : exec[e].pc = "request" => exec[e].value \in Values
    /\ answers \subseteq Values

TroublesBounded == troubles.faults <= MaxFaults /\ troubles.stalls <= MaxStalls

FlowBounds == TriesLeft /\ LocksHeld /\ ValuesAsked /\ TroublesBounded

LEMMA ReleasedTries ==
    ASSUME NEW js \in JobTable,
           \A j \in JobNames : js[j].att <= FlowTries /\ (js[j].att < FlowTries \/ js[j].st = "failed")
    PROVE  \A j \in JobNames :
             /\ Released(js)[j].att <= FlowTries
             /\ Released(js)[j].att < FlowTries \/ Released(js)[j].st = "failed"
<1> TAKE j \in JobNames
<1>1. Released(js)[j] = js[j] \/ (js[j].st = "children" /\ Released(js)[j] = [js[j] EXCEPT !.st = "waiting"])
  BY DEF Released
<1>2. js[j] \in [st: JobStates, att: Nat]
  BY DEF JobTable
<1> QED BY <1>1, <1>2

\* A job that is not given up moves without losing an attempt.
LEMMA SetTries ==
    ASSUME JobShapes, TriesLeft, NEW j \in JobNames, NEW st \in JobStates, ~Is(j, "failed"), Set(j, st)
    PROVE  TriesLeft'
<1> DEFINE js == [jobs EXCEPT ![j].st = st]
<1>1. js \in JobTable
  BY DEF JobShapes, JobTable
<1>2. \A k \in JobNames : js[k].att <= FlowTries /\ (js[k].att < FlowTries \/ js[k].st = "failed")
  BY DEF JobShapes, JobTable, TriesLeft, Is
<1>3. jobs' = Released(js)
  BY DEF Set
<1> HIDE DEF js
<1> QED BY <1>1, <1>2, <1>3, ReleasedTries DEF TriesLeft, Is

LEMMA ThrownTries ==
    ASSUME JobShapes, TriesLeft, NEW j \in JobNames, ~Is(j, "failed"), Thrown(j)
    PROVE  TriesLeft'
<1> DEFINE js == [jobs EXCEPT ![j] =
                    [st |-> IF @.att + 1 < FlowTries THEN "waiting" ELSE "failed", att |-> @.att + 1]]
<1>1. FlowTries \in Nat /\ jobs[j].att \in Nat /\ jobs[j].att < FlowTries
  BY FlowAssumption DEF JobShapes, JobTable, TriesLeft
<1>2. js \in JobTable
  BY <1>1 DEF JobShapes, JobTable, JobStates
<1>3. \A k \in JobNames : js[k].att <= FlowTries /\ (js[k].att < FlowTries \/ js[k].st = "failed")
  <2>1. js[j].att = jobs[j].att + 1 /\ (js[j].att < FlowTries \/ js[j].st = "failed")
    BY <1>1 DEF JobShapes, JobTable
  <2>2. \A k \in JobNames \ {j} : js[k] = jobs[k]
    BY DEF JobShapes, JobTable
  <2> HIDE DEF js
  <2> QED BY <1>1, <2>1, <2>2 DEF TriesLeft, Is
<1>4. jobs' = Released(js)
  BY DEF Thrown
<1> HIDE DEF js
<1> QED BY <1>2, <1>3, <1>4, ReleasedTries DEF TriesLeft, Is

LEMMA BoundsInitial == FlowInit => FlowBounds
<1> SUFFICES ASSUME FlowInit PROVE FlowBounds
  OBVIOUS
<1>1. \A e \in Execs : ~exec[e].lock /\ exec[e].pc = "none"
  BY DEF FlowInit, NoExec
<1>2. TriesLeft
  BY FlowAssumption DEF FlowInit, TriesLeft
<1>3. LocksHeld /\ ValuesAsked
  BY <1>1 DEF FlowInit, LocksHeld, ValuesAsked, NoApproval, LinkApproved
<1>4. TroublesBounded
  BY FlowAssumption DEF FlowInit, TroublesBounded
<1> QED BY <1>2, <1>3, <1>4 DEF FlowBounds

LEMMA FaultBounded == JobShapes /\ TroublesBounded /\ (Fault \/ UNCHANGED troubles) => TroublesBounded'
BY FlowAssumption DEF JobShapes, Fault, TroublesBounded

\* The jobs of which only the state is modelled, and checkDB.
LEMMA RunsBounds ==
    ASSUME JobInv, FlowBounds, NEW j \in {"scope", "lei", "link"}, Runs(j)
    PROVE  FlowBounds'
<1>1. JobShapes /\ UNCHANGED <<data, exec, gleif, answers>> /\ ~Is(j, "failed") /\ j \in JobNames
  BY DEF JobInv, Runs, Is, JobNames
<1>2. TriesLeft' /\ Moved(j, JobStates)
  <2>1. CASE Set(j, "completed")
    BY <1>1, <2>1, SetTries, SetMoves DEF FlowBounds, JobStates, Moved
  <2>2. CASE Thrown(j)
    BY <1>1, <2>2, ThrownTries, ThrownMoves DEF FlowBounds, JobStates, Moved
  <2> QED BY <2>1, <2>2 DEF Runs
<1>3. \A k \in {"diff", "gleif"} : Is(k, "active") => Is(k, "active")'
  BY <1>2 DEF Moved, Is, JobNames
<1>4. LocksHeld' /\ ValuesAsked'
  BY <1>1, <1>3 DEF FlowBounds, LocksHeld, ValuesAsked
<1>5. TroublesBounded'
  BY <1>1, FaultBounded DEF Runs, FlowBounds
<1> QED BY <1>2, <1>4, <1>5 DEF FlowBounds

LEMMA CheckDBBounds == JobInv /\ FlowBounds /\ CheckDB => FlowBounds'
<1> SUFFICES ASSUME JobInv, FlowBounds, CheckDB PROVE FlowBounds'
  OBVIOUS
<1>1. UNCHANGED <<data, exec, gleif, answers, troubles>> /\ JobShapes /\ Is("checkDB", "waiting")
  BY DEF CheckDB, JobInv
<1>2. /\ \A k \in {"diff", "gleif", "link"} : Is(k, "absent")
      /\ gleif.pc = "none" /\ exec = [e \in Execs |-> NoExec]
  BY <1>1 DEF JobInv, AddedByCheckDB, Is
<1>3. \A k \in JobNames : jobs'[k].att = jobs[k].att /\ (jobs'[k].st = jobs[k].st \/ ~Is(k, "failed"))
  <2>1. PICK named \in BOOLEAN :
          jobs' = [jobs EXCEPT !["checkDB"].st = "completed", !["link"].st = "children",
                               !["diff"].st = "waiting",
                               !["gleif"].st = IF named THEN "waiting" ELSE "completed"]
    BY DEF CheckDB
  <2> DEFINE one == [jobs EXCEPT !["checkDB"].st = "completed"]
             two == [one EXCEPT !["link"].st = "children"]
             three == [two EXCEPT !["diff"].st = "waiting"]
             four == [three EXCEPT !["gleif"].st = IF named THEN "waiting" ELSE "completed"]
             Same(js, k) == js[k].att = jobs[k].att /\ (js[k].st = jobs[k].st \/ ~Is(k, "failed"))
  <2>0. jobs \in JobTable /\ {"checkDB", "link", "diff", "gleif"} \subseteq JobNames
        /\ {"completed", "children", "waiting"} \subseteq JobStates
    BY <1>1 DEF JobShapes, JobNames, JobStates
  <2>2. one \in JobTable /\ \A k \in JobNames : Same(one, k)
    BY <1>1, <2>0 DEF JobTable, Is
  <2> HIDE DEF one
  <2>3. two \in JobTable /\ \A k \in JobNames : Same(two, k)
    BY <1>2, <2>0, <2>2 DEF JobTable, Is
  <2> HIDE DEF two
  <2>4. three \in JobTable /\ \A k \in JobNames : Same(three, k)
    BY <1>2, <2>0, <2>3 DEF JobTable, Is
  <2> HIDE DEF three
  <2>5. four \in JobTable /\ \A k \in JobNames : Same(four, k)
    BY <1>2, <2>0, <2>4 DEF JobTable, Is
  <2>6. jobs' = four
    BY <2>1 DEF four, three, two, one
  <2> QED BY <2>5, <2>6
<1>4. TriesLeft'
  BY <1>3 DEF FlowBounds, TriesLeft, Is
<1>5. \A e \in Execs : ~exec'[e].lock
  BY <1>1, <1>2 DEF NoExec
<1>6. LocksHeld'
  BY <1>1, <1>2, <1>5 DEF LocksHeld
<1>7. ValuesAsked' /\ TroublesBounded'
  BY <1>1 DEF FlowBounds, ValuesAsked, TroublesBounded
<1> QED BY <1>4, <1>6, <1>7 DEF FlowBounds

-----------------------------------------------------------------------------

\* A step of the diff's job that leaves the execution e, if any, with the lock.
LEMMA DiffStartBounds ==
    ASSUME Shapes, JobInv, FlowBounds, DiffStarts
    PROVE  FlowBounds'
<1>1. JobShapes /\ UNCHANGED <<data, gleif, answers, troubles>> /\ Is("diff", "waiting") /\ Set("diff", "active")
  BY DEF DiffStarts, JobInv
<1>2. PICK e \in Execs : exec' = [exec EXCEPT ![e] = [NoExec EXCEPT !.pc = "look", !.data = data, !.lock = TRUE]]
  BY DEF DiffStarts
<1>3. /\ exec'[e].pc = "look" /\ \A d \in Execs \ {e} : exec'[d] = exec[d]
  BY <1>2 DEF Shapes, NoExec
<1>4. \A d \in Execs : ~exec[d].lock
  BY <1>1 DEF FlowBounds, LocksHeld, Is
<1>5. TriesLeft' /\ Moved("diff", {"active"})
  BY <1>1, SetTries, SetMoves DEF FlowBounds, JobNames, JobStates, Is
<1>6. Is("diff", "active")' /\ (Is("gleif", "active") => Is("gleif", "active")')
  BY <1>5 DEF Moved, Is, JobNames
<1>7. LocksHeld'
  BY <1>1, <1>3, <1>4, <1>6 DEF FlowBounds, LocksHeld
<1>8. ValuesAsked' /\ TroublesBounded'
  BY <1>1, <1>3 DEF FlowBounds, ValuesAsked, TroublesBounded
<1> QED BY <1>5, <1>7, <1>8 DEF FlowBounds

\* The steps within an execution.
LEMMA WithinBounds ==
    ASSUME Shapes, FlowBounds, NEW e \in Execs,
           DiffLooks(e) \/ DiffComputes(e) \/ DiffRequests(e) \/ DiffSaves(e)
    PROVE  FlowBounds'
<1>1. UNCHANGED <<jobs, gleif, answers, troubles>>
  BY DEF DiffLooks, DiffComputes, DiffRequests, DiffSaves
<1>2. exec \in [Execs -> ExecData] /\ exec[e] \in ExecData
  BY DEF Shapes
<1>3. /\ \A d \in Execs : exec'[d].lock = exec[d].lock
      /\ \A d \in Execs \ {e} : exec'[d] = exec[d]
      /\ exec'[e].pc = "request" => exec'[e].value \in Values
  <2>1. CASE DiffLooks(e)
    BY <1>2, <2>1 DEF DiffLooks, ExecData
  <2>2. CASE DiffComputes(e)
    <3>1. CASE Moves(e, "end")
      BY <1>2, <3>1 DEF Moves, ExecData
    <3>2. CASE exec' = [exec EXCEPT ![e].pc = "save", ![e].forced = TRUE]
      BY <1>2, <3>2 DEF ExecData
    <3>3. ASSUME NEW v \in DiffChanges, v # Nothing,
                 exec' = [exec EXCEPT ![e].value = v, ![e].pc = IF kind.autoApprove THEN "save" ELSE "request"]
          PROVE  /\ \A d \in Execs : exec'[d].lock = exec[d].lock
                 /\ \A d \in Execs \ {e} : exec'[d] = exec[d]
                 /\ exec'[e].pc = "request" => exec'[e].value \in Values
      <4>1. v \in Values
        BY <3>3 DEF DiffChanges
      <4> QED BY <1>2, <3>3, <4>1 DEF ExecData
    <3> QED BY <2>2, <3>1, <3>2, <3>3 DEF DiffComputes
  <2>3. CASE DiffRequests(e) \/ DiffSaves(e)
    BY <1>2, <2>3 DEF DiffRequests, DiffSaves, Moves, ExecData
  <2> QED BY <2>1, <2>2, <2>3
<1>4. data'.type = "diff" => data'.value \in Values
  BY DEF DiffLooks, DiffComputes, DiffRequests, DiffSaves, ExecAt, FlowBounds, ValuesAsked
<1>5. TriesLeft' /\ LocksHeld' /\ TroublesBounded'
  BY <1>1, <1>3 DEF FlowBounds, TriesLeft, LocksHeld, TroublesBounded, Is
<1>6. ValuesAsked'
  BY <1>1, <1>3, <1>4 DEF FlowBounds, ValuesAsked
<1> QED BY <1>5, <1>6 DEF FlowBounds

\* The end of an execution.
LEMMA EndBounds ==
    ASSUME Shapes, JobInv, FlowBounds, NEW e \in Execs, DiffFails(e) \/ DiffDelays(e) \/ DiffEnds(e)
    PROVE  FlowBounds'
<1>1. /\ JobShapes /\ UNCHANGED <<data, gleif, answers>> /\ exec' = [exec EXCEPT ![e] = NoExec]
      /\ Fault \/ UNCHANGED troubles
  BY DEF JobInv, DiffFails, DiffDelays, DiffEnds, Ends
<1>2. /\ ~exec'[e].lock /\ exec'[e].pc = "none" /\ \A d \in Execs \ {e} : exec'[d] = exec[d]
  BY <1>1 DEF Shapes, NoExec
<1>3. CASE ~exec[e].lock
  <2>1. UNCHANGED jobs
    BY <1>3 DEF DiffFails, DiffDelays, DiffEnds, Ends
  <2>2. TriesLeft' /\ LocksHeld'
    BY <1>1, <1>2, <2>1 DEF FlowBounds, TriesLeft, LocksHeld, Is
  <2> QED BY <1>1, <1>2, <2>2, FaultBounded DEF FlowBounds, ValuesAsked
<1>4. CASE exec[e].lock
  <2>1. Is("diff", "active") /\ \A d \in Execs : ~exec'[d].lock
    BY <1>2, <1>4 DEF FlowBounds, LocksHeld
  <2>2. ~Is("diff", "failed") /\ "diff" \in JobNames
    BY <2>1 DEF Is, JobNames
  <2>3. TriesLeft' /\ Moved("diff", JobStates)
    <3>1. CASE Thrown("diff")
      BY <1>1, <2>2, <3>1, ThrownTries, ThrownMoves DEF FlowBounds, JobStates, Moved
    <3>2. CASE Set("diff", "delayed") \/ Set("diff", "completed")
      BY <1>1, <2>2, <3>2, SetTries, SetMoves DEF FlowBounds, JobStates, Moved
    <3> QED BY <1>4, <3>1, <3>2 DEF DiffFails, DiffDelays, DiffEnds, Ends
  <2>4. Is("gleif", "active") => Is("gleif", "active")'
    BY <2>3 DEF Moved, Is, JobNames
  <2>5. LocksHeld'
    BY <1>1, <2>1, <2>4 DEF FlowBounds, LocksHeld
  <2> QED BY <1>1, <1>2, <2>3, <2>5, FaultBounded DEF FlowBounds, ValuesAsked
<1> QED BY <1>3, <1>4

\* The delay, staff, and a worker that is taken for dead.
LEMMA WaitBounds ==
    ASSUME Shapes, JobInv, FlowBounds, DiffResumes \/ StaffApprove
    PROVE  FlowBounds'
<1>1. JobShapes /\ UNCHANGED <<exec, gleif, troubles>>
  BY DEF JobInv, DiffResumes, StaffApprove
<1>2. TriesLeft' /\ LocksHeld'
  <2>1. CASE UNCHANGED jobs
    BY <1>1, <2>1 DEF FlowBounds, TriesLeft, LocksHeld, Is
  <2>2. CASE Is("diff", "delayed") /\ Set("diff", "waiting")
    <3>1. TriesLeft' /\ Moved("diff", {"waiting"})
      BY <1>1, <2>2, SetTries, SetMoves DEF FlowBounds, JobNames, JobStates, Is
    <3>2. Is("gleif", "active") => Is("gleif", "active")'
      BY <3>1 DEF Moved, Is, JobNames
    <3>3. \A e \in Execs : ~exec[e].lock
      BY <2>2 DEF FlowBounds, LocksHeld, Is
    <3> QED BY <1>1, <3>1, <3>2, <3>3 DEF FlowBounds, LocksHeld
  <2> QED BY <2>1, <2>2 DEF DiffResumes, StaffApprove
<1>3. ValuesAsked'
  <2>1. CASE DiffResumes
    BY <1>1, <2>1 DEF DiffResumes, FlowBounds, ValuesAsked
  <2>2. CASE StaffApprove
    <3>1. data.type = "diff" /\ data.value \in Values
      BY <2>2 DEF StaffApprove, PendingForDiff, FlowBounds, ValuesAsked
    <3>2. data'.value = data.value /\ answers' = answers \cup {data.value}
      BY <2>2 DEF StaffApprove, Shapes, Approvals
    <3> QED BY <1>1, <3>1, <3>2 DEF FlowBounds, ValuesAsked
  <2> QED BY <2>1, <2>2
<1> QED BY <1>1, <1>2, <1>3 DEF FlowBounds, TroublesBounded

LEMMA StallBounds ==
    ASSUME Shapes, JobInv, FlowBounds, DiffStalls \/ GleifStalls
    PROVE  FlowBounds'
<1>1. JobShapes /\ UNCHANGED <<data, answers>>
  BY DEF JobInv, DiffStalls, GleifStalls
<1>2. TroublesBounded'
  BY <1>1, FlowAssumption DEF JobShapes, DiffStalls, GleifStalls, FlowBounds, TroublesBounded
<1>3. CASE DiffStalls
  <2>1. PICK e \in Execs : exec[e].lock /\ exec' \in {[exec EXCEPT ![e].lock = FALSE], [exec EXCEPT ![e] = NoExec]}
    BY <1>3 DEF DiffStalls
  <2>2. /\ ~exec'[e].lock /\ (exec'[e].pc = "none" \/ (exec'[e].pc = exec[e].pc /\ exec'[e].value = exec[e].value))
        /\ \A d \in Execs \ {e} : exec'[d] = exec[d]
    <3>1. CASE exec' = [exec EXCEPT ![e].lock = FALSE]
      BY <3>1 DEF Shapes, ExecData
    <3>2. CASE exec' = [exec EXCEPT ![e] = NoExec]
      BY <3>2 DEF Shapes, NoExec
    <3> QED BY <2>1, <3>1, <3>2
  <2>3. TriesLeft' /\ Moved("diff", {"waiting"})
    BY <1>1, <1>3, SetTries, SetMoves DEF DiffStalls, FlowBounds, JobNames, JobStates, Is
  <2>4. UNCHANGED gleif /\ (Is("gleif", "active") => Is("gleif", "active")')
    BY <1>3, <2>3 DEF DiffStalls, Moved, Is, JobNames
  <2>5. \A d \in Execs : ~exec'[d].lock
    BY <2>1, <2>2 DEF FlowBounds, LocksHeld
  <2>6. LocksHeld'
    BY <2>4, <2>5 DEF FlowBounds, LocksHeld
  <2>7. ValuesAsked'
    BY <1>1, <2>2 DEF FlowBounds, ValuesAsked
  <2> QED BY <1>2, <2>3, <2>6, <2>7 DEF FlowBounds
<1>4. CASE GleifStalls
  <2>1. UNCHANGED exec /\ gleif'.pc = "none"
    BY <1>1, <1>4 DEF GleifStalls, JobShapes
  <2>2. TriesLeft' /\ Moved("gleif", {"waiting"})
    BY <1>1, <1>4, SetTries, SetMoves DEF GleifStalls, FlowBounds, JobNames, JobStates, Is
  <2>3. Is("diff", "active") => Is("diff", "active")'
    BY <2>2 DEF Moved, Is, JobNames
  <2>4. LocksHeld' /\ ValuesAsked'
    BY <1>1, <2>1, <2>3 DEF FlowBounds, LocksHeld, ValuesAsked
  <2> QED BY <1>2, <2>2, <2>4 DEF FlowBounds
<1> QED BY <1>3, <1>4

-----------------------------------------------------------------------------

LEMMA GleifBounds ==
    ASSUME JobInv, FlowBounds,
           GleifStarts \/ GleifLooks \/ GleifKnowsNothing \/ GleifLookupFails \/ GleifAdds
           \/ GleifFlags \/ GleifWaits
    PROVE  FlowBounds'
<1>1. JobShapes /\ UNCHANGED <<data, exec, answers>> /\ (Fault \/ UNCHANGED troubles)
  BY DEF JobInv, GleifStarts, GleifLooks, GleifKnowsNothing, GleifLookupFails, GleifAdds, GleifFlags, GleifWaits
<1>2. Is("gleif", "active") \/ (GleifStarts /\ Is("gleif", "waiting"))
  BY DEF FlowBounds, LocksHeld, GleifStarts, GleifLooks, GleifKnowsNothing, GleifLookupFails, GleifAdds,
         GleifFlags, GleifWaits
<1>3. ~Is("gleif", "failed") /\ "gleif" \in JobNames
  BY <1>2 DEF Is, JobNames
<1>4. \/ Set("gleif", "active") /\ GleifStarts
      \/ /\ gleif'.pc = "none"
         /\ Set("gleif", "completed") \/ Set("gleif", "children") \/ Thrown("gleif")
      \/ UNCHANGED jobs /\ gleif.pc # "none"
  <2>1. gleif \in [pc: {"none", "look", "lookup", "flag", "wait"}, enqueued: BOOLEAN]
    BY <1>1 DEF JobShapes
  <2>2. CASE GleifStarts
    BY <2>2 DEF GleifStarts
  <2>3. CASE GleifKnowsNothing \/ GleifLookupFails
    BY <2>1, <2>3 DEF GleifKnowsNothing, GleifLookupFails
  <2>4. CASE GleifWaits
    BY <2>1, <2>4 DEF GleifWaits
  <2>5. CASE GleifLooks
    BY <2>1, <2>5 DEF GleifLooks
  <2>6. CASE GleifAdds \/ GleifFlags
    BY <2>6 DEF GleifAdds, GleifFlags
  <2> QED BY <2>2, <2>3, <2>4, <2>5, <2>6
<1>5. TriesLeft' /\ (UNCHANGED jobs \/ Moved("gleif", JobStates))
      /\ (GleifStarts => Is("gleif", "active")')
  <2>1. CASE Set("gleif", "active") /\ GleifStarts
    <3>1. TriesLeft' /\ Moved("gleif", {"active"})
      BY <1>1, <1>3, <2>1, SetTries, SetMoves DEF FlowBounds, JobStates
    <3> QED BY <3>1 DEF Moved, Is, JobStates
  <2>2. CASE gleif'.pc = "none" /\ (Set("gleif", "completed") \/ Set("gleif", "children"))
    <3>1. TriesLeft' /\ Moved("gleif", JobStates)
      BY <1>1, <1>3, <2>2, SetTries, SetMoves DEF FlowBounds, JobStates, Moved
    <3>2. ~GleifStarts
      BY <1>1, <2>2 DEF GleifStarts, JobShapes
    <3> QED BY <3>1, <3>2
  <2>3. CASE gleif'.pc = "none" /\ Thrown("gleif")
    <3>1. TriesLeft' /\ Moved("gleif", JobStates)
      BY <1>1, <1>3, <2>3, ThrownTries, ThrownMoves DEF FlowBounds, JobStates, Moved
    <3>2. ~GleifStarts
      BY <1>1, <2>3 DEF GleifStarts, JobShapes
    <3> QED BY <3>1, <3>2
  <2>4. CASE UNCHANGED jobs /\ gleif.pc # "none"
    <3>1. ~GleifStarts
      BY <2>4 DEF GleifStarts, FlowBounds, LocksHeld, Is
    <3>2. TriesLeft'
      BY <2>4 DEF FlowBounds, TriesLeft, Is
    <3> QED BY <2>4, <3>1, <3>2
  <2> QED BY <1>4, <2>1, <2>2, <2>3, <2>4
<1>6. gleif'.pc # "none" => Is("gleif", "active")'
  BY <1>2, <1>4, <1>5 DEF Is
<1>7. Is("diff", "active") => Is("diff", "active")'
  BY <1>5 DEF Moved, Is, JobNames
<1>8. LocksHeld' /\ ValuesAsked'
  BY <1>1, <1>6, <1>7 DEF FlowBounds, LocksHeld, ValuesAsked
<1> QED BY <1>1, <1>5, <1>8, FaultBounded DEF FlowBounds

LEMMA ChildBounds ==
    ASSUME JobInv, FlowBounds, NEW c \in DOMAIN children, GleifDiffEnds(c)
    PROVE  FlowBounds'
<1>1. JobShapes /\ UNCHANGED <<data, exec, gleif, answers>> /\ (Fault \/ UNCHANGED troubles)
  BY DEF JobInv, GleifDiffEnds
<1>2. jobs' = jobs \/ (Is("gleif", "children") /\ jobs' = [jobs EXCEPT !["gleif"].st = "waiting"])
  BY DEF GleifDiffEnds
<1>3. \A k \in JobNames : jobs'[k] = jobs[k] \/ (Is(k, "children") /\ jobs'[k].att = jobs[k].att)
  BY <1>1, <1>2 DEF JobShapes, JobTable, JobNames, Is
<1>4. TriesLeft'
  BY <1>3 DEF FlowBounds, TriesLeft, Is
<1>5. \A k \in {"diff", "gleif"} : Is(k, "active") => Is(k, "active")'
  BY <1>3 DEF Is, JobNames
<1>6. LocksHeld' /\ ValuesAsked'
  BY <1>1, <1>5 DEF FlowBounds, LocksHeld, ValuesAsked
<1> QED BY <1>1, <1>4, <1>6, FaultBounded DEF FlowBounds

LEMMA BoundsStep == Shapes /\ JobInv /\ FlowBounds /\ [FlowNext]_fvars => FlowBounds'
<1> SUFFICES ASSUME Shapes, JobInv, FlowBounds, [FlowNext]_fvars PROVE FlowBounds'
  OBVIOUS
<1>1. CASE UNCHANGED fvars
  BY <1>1 DEF fvars, FlowBounds, TriesLeft, LocksHeld, ValuesAsked, TroublesBounded, Is
<1>2. CASE FlowNext
  BY <1>2, RunsBounds, CheckDBBounds, DiffStartBounds, WithinBounds, EndBounds, WaitBounds, StallBounds,
     GleifBounds, ChildBounds
     DEF FlowNext, FlowWorks
<1> QED BY <1>1, <1>2

LEMMA FlowTyped == Shapes /\ JobInv /\ FlowBounds => FlowTypeOK
<1> SUFFICES ASSUME Shapes, JobInv, FlowBounds PROVE FlowTypeOK
  OBVIOUS
<1>1. jobs \in [JobNames -> [st: JobStates, att: 0..FlowTries]]
  BY FlowAssumption DEF JobInv, JobShapes, JobTable, FlowBounds, TriesLeft
<1>2. \A c \in DOMAIN children : children[c] \in {"waiting", "completed", "failed"}
  BY DEF JobInv, JobShapes
<1>4. \A s \in DOMAIN saves : saves[s] \in [value: Values \cup {Nothing}, asked: BOOLEAN]
  <2>1. ASSUME NEW T, saves \in Seq(T) PROVE \A s \in DOMAIN saves : saves[s] \in T
    BY <2>1
  <2> QED BY <2>1 DEF Shapes
<1>3. troubles \in [faults: 0..MaxFaults, stalls: 0..MaxStalls]
  BY FlowAssumption DEF JobInv, JobShapes, FlowBounds, TroublesBounded
<1> QED BY <1>1, <1>2, <1>3, <1>4 DEF FlowTypeOK, Shapes, ExecData, JobInv, JobShapes, FlowBounds, ValuesAsked

\* The jobs of the two flows, the executions of a diff and what they have asked and saved are well
\* typed in every reachable state: no job has more attempts than the queues allow.
THEOREM FlowTypesHold == FlowSpec => []FlowTypeOK
<1>2. DecisionInv /\ JobInv /\ FlowBounds /\ [FlowNext]_fvars => DecisionInv' /\ JobInv' /\ FlowBounds'
  BY DecisionStep, JobStep, BoundsStep DEF DecisionInv
<1>3. FlowInit => DecisionInv /\ JobInv /\ FlowBounds
  BY DecisionInitial, FlowInitial, BoundsInitial
<1>4. DecisionInv /\ JobInv /\ FlowBounds => FlowTypeOK
  BY FlowTyped DEF DecisionInv
<1> QED BY <1>2, <1>3, <1>4, PTL DEF FlowSpec

-----------------------------------------------------------------------------
(***************************************************************************)
(* The archive of a run.                                                   *)
(***************************************************************************)

\* A handler, and the backfill, know only of jobs that have ended.
HandledHasEnded ==
    /\ \A p \in Processes, j \in Jobs :
          handler[p][j] \in {"read", "upserted", "done"} => event[j] # "none"
    /\ \A j \in script.had : event[j] # "none"

\* Until the backfill has written, the status of the run is that of one of its jobs, and not
\* "running" once a handler got through with one that concludes it.
StatusIsOfAJob ==
    script.at # "done" =>
        /\ runRow.status # "running" => \E j \in Jobs : StatusOf(j) = runRow.status
        /\ \A p \in Processes, j \in Jobs :
              handler[p][j] = "done" /\ StatusOf(j) # "running" => runRow.status # "running"

\* What is filed has a run, and what the backfill is through with is filed.
FiledUnderARun ==
    /\ \A j \in Jobs : filed[j] # {} => runRow.exists
    /\ \A j \in script.had \ script.todo : filed[j] # {}
    /\ script.at \in {"write", "done"} => script.todo = {}

ArchiveInv == ArchiveTypeOK /\ HandledHasEnded /\ StatusIsOfAJob /\ FiledUnderARun

LEMMA StatusFollowsEvent ==
    ASSUME NEW j \in Jobs, event[j] = "none" PROVE StatusOf(j) = "running"
  BY DEF StatusOf

LEMMA ArchiveInvInit == ArchiveInit => ArchiveInv
  BY ArchiveAssumption DEF ArchiveInit, ArchiveInv, ArchiveTypeOK, HandledHasEnded, StatusIsOfAJob,
     FiledUnderARun, Outcomes, Stages, Statuses

LEMMA ArchiveTypeStep == ArchiveTypeOK /\ [ArchiveNext]_avars => ArchiveTypeOK'
<1>. SUFFICES ASSUME ArchiveTypeOK, [ArchiveNext]_avars PROVE ArchiveTypeOK'
  OBVIOUS
<1>. USE ArchiveAssumption DEF ArchiveTypeOK
<1>1. ASSUME NEW j \in Jobs, JobEnds(j) PROVE ArchiveTypeOK'
  BY <1>1 DEF JobEnds, Outcomes
<1>2. ASSUME NEW p \in Processes, NEW j \in Jobs, ReadJob(p, j) PROVE ArchiveTypeOK'
  BY <1>2 DEF ReadJob, To, Stages
<1>3. ASSUME NEW p \in Processes, NEW j \in Jobs, UpsertRun(p, j) PROVE ArchiveTypeOK'
  BY <1>3 DEF UpsertRun, To, Stages, JobStatus
<1>4. ASSUME NEW p \in Processes, NEW j \in Jobs, SetStatus(p, j) PROVE ArchiveTypeOK'
  BY <1>4 DEF SetStatus, To, Stages, StatusOf, Statuses
<1>5. ASSUME NEW p \in Processes, NEW j \in Jobs, HandlerLost(p, j) PROVE ArchiveTypeOK'
  BY <1>5 DEF HandlerLost, To, Stages
<1>6. CASE BackfillStarts
  BY <1>6 DEF BackfillStarts, livevars
<1>7. ASSUME NEW j \in Jobs, ImportJob(j) PROVE ArchiveTypeOK'
  <2>1. script' \in [at: {"off", "import", "write", "done"}, had: SUBSET Jobs,
                    todo: SUBSET Jobs, status: Statuses]
    BY <1>7 DEF ImportJob
  <2>2. CASE filed[j] # {}
    BY <1>7, <2>1, <2>2 DEF ImportJob
  <2>3. CASE filed[j] = {}
    <3>1. filed' \in [Jobs -> SUBSET {"completed", "failed"}]
      BY <1>7, <2>3 DEF ImportJob, JobStatus
    <3>2. runRow' \in [exists: BOOLEAN, status: Statuses]
      BY <1>7, <2>3 DEF ImportJob
    <3>. QED
      BY <1>7, <2>1, <3>1, <3>2 DEF ImportJob
  <2>. QED
    BY <2>2, <2>3
<1>8. CASE ReconcileReads
  BY <1>8 DEF ReconcileReads, Statuses, livevars
<1>9. CASE ReconcileWrites
  BY <1>9 DEF ReconcileWrites
<1>10. CASE UNCHANGED avars
  BY <1>10 DEF avars
<1>. QED
  BY <1>1, <1>2, <1>3, <1>4, <1>5, <1>6, <1>7, <1>8, <1>9, <1>10
     DEF ArchiveNext, Live, Handles, Backfill

LEMMA ArchiveStep == ArchiveInv /\ [ArchiveNext]_avars => ArchiveInv'
<1>. SUFFICES ASSUME ArchiveInv, [ArchiveNext]_avars
              PROVE  (HandledHasEnded /\ StatusIsOfAJob /\ FiledUnderARun)'
  BY ArchiveTypeStep DEF ArchiveInv
<1>. USE DEF ArchiveInv, ArchiveTypeOK, HandledHasEnded, StatusIsOfAJob, FiledUnderARun
<1>. DEFINE Goal == (HandledHasEnded /\ StatusIsOfAJob /\ FiledUnderARun)'
<1>1. ASSUME NEW j \in Jobs, JobEnds(j) PROVE Goal
  BY <1>1, StatusFollowsEvent DEF JobEnds, StatusOf
<1>2. ASSUME NEW p \in Processes, NEW j \in Jobs, ReadJob(p, j) PROVE Goal
  BY <1>2 DEF ReadJob, To, StatusOf
<1>3. ASSUME NEW p \in Processes, NEW j \in Jobs, UpsertRun(p, j) PROVE Goal
  BY <1>3 DEF UpsertRun, To, StatusOf
<1>4. ASSUME NEW p \in Processes, NEW j \in Jobs, SetStatus(p, j) PROVE Goal
  BY <1>4 DEF SetStatus, To, StatusOf
<1>5. ASSUME NEW p \in Processes, NEW j \in Jobs, HandlerLost(p, j) PROVE Goal
  BY <1>5 DEF HandlerLost, To, StatusOf
<1>6. CASE BackfillStarts
  BY <1>6 DEF BackfillStarts, livevars, StatusOf
<1>7. ASSUME NEW j \in Jobs, ImportJob(j) PROVE Goal
  <2>1. /\ script'.had = script.had /\ script'.at = "import" /\ script.at = "import"
        /\ script'.todo = script.todo \ {j}
        /\ UNCHANGED <<event, handler>>
    BY <1>7 DEF ImportJob
  <2>2. /\ runRow'.status = runRow.status
        /\ runRow.exists => runRow'.exists
    BY <1>7 DEF ImportJob
  <2>3. CASE filed[j] # {}
    <3>1. UNCHANGED <<filed, runRow>>
      BY <1>7, <2>3 DEF ImportJob
    <3>. QED
      BY <2>1, <2>3, <3>1 DEF StatusOf
  <2>4. CASE filed[j] = {}
    <3>1. filed'[j] # {} /\ (\A k \in Jobs \ {j} : filed'[k] = filed[k]) /\ runRow'.exists
      <4>1. /\ filed' = [filed EXCEPT ![j] = {JobStatus(j)}]
            /\ runRow' = [runRow EXCEPT !.exists = TRUE]
        BY <1>7, <2>4 DEF ImportJob
      <4>2. {JobStatus(j)} # {}
        OBVIOUS
      <4>. QED
        BY <4>1, <4>2
    <3>2. HandledHasEnded'
      BY <2>1
    <3>3. StatusIsOfAJob'
      BY <2>1, <2>2 DEF StatusOf
    <3>4. FiledUnderARun'
      BY <2>1, <2>2, <3>1
    <3>. QED
      BY <3>2, <3>3, <3>4
  <2>. QED
    BY <2>3, <2>4
<1>8. CASE ReconcileReads
  BY <1>8 DEF ReconcileReads, livevars, StatusOf
<1>9. CASE ReconcileWrites
  BY <1>9 DEF ReconcileWrites, StatusOf
<1>10. CASE UNCHANGED avars
  BY <1>10 DEF avars, StatusOf
<1>. QED
  BY <1>1, <1>2, <1>3, <1>4, <1>5, <1>6, <1>7, <1>8, <1>9, <1>10
     DEF ArchiveNext, Live, Handles, Backfill

LEMMA ArchiveInvImplies == ArchiveInv => ArchiveIsTrue
  BY DEF ArchiveInv, ArchiveTypeOK, HandledHasEnded, StatusIsOfAJob, FiledUnderARun,
         ArchiveIsTrue, ConcludedIsShown, BackfillRecovers

\* The archive shows a concluded run as concluded, for any number of worker processes, and the
\* backfill brings into it what their handlers lost (startWorkers.ts: archiveBullmqJobEvent).
THEOREM Archived == ArchiveSpec => []ArchiveIsTrue
<1>1. ArchiveSpec => []ArchiveInv
  BY ArchiveInvInit, ArchiveStep, PTL DEF ArchiveSpec
<1>. QED
  BY <1>1, ArchiveInvImplies, PTL

\* The jobs of the flows and the archive hold what their types say, whatever fails or stalls and
\* whichever process handles an event.
THEOREM JobTypesHold == FlowSpec /\ ArchiveSpec => []JobTypesOK
<1>1. ArchiveSpec => []ArchiveInv
  BY ArchiveInvInit, ArchiveStep, PTL DEF ArchiveSpec
<1>2. ArchiveInv => ArchiveTypeOK
  BY DEF ArchiveInv
<1>3. FlowTypeOK /\ ArchiveTypeOK => JobTypesOK
  BY DEF JobTypesOK
<1> QED BY <1>1, <1>2, <1>3, FlowTypesHold, PTL

-----------------------------------------------------------------------------
(***************************************************************************)
(* The lookups of LEI and ISINs.                                           *)
(***************************************************************************)

\* How many pages n ISINs fill.
PagesFor(n) == (n + PageSize - 1) \div PageSize

\* The valid ISINs on the first n places of GLEIF's list.
Among(n) == {listed[i] : i \in (1..n) \cap DOMAIN listed} \cap ListedIsins

\* A lookup of a list that stays as it is has read the valid ISINs of all pages before the next.
PagesAreRead ==
    job.at = "isins" /\ steady =>
        /\ job.isins = Among((job.page - 1) * PageSize)
        /\ job.page > 1 => /\ job.total = Len(listed)
                           /\ job.last = IF listed = <<>> THEN 1 ELSE PagesFor(Len(listed))
        /\ job.page = 1 => job.last = 1

LookupShapes ==
    /\ listed \in Lists
    /\ job \in [at: {"lei", "search", "record", "isins", "ended"}, isins: SUBSET ListedIsins,
                page: Nat \ {0}, last: Nat, total: Nat]
    /\ IsFiniteSet(job.isins)

LookupInv == LookupShapes /\ PagesAreRead /\ LookupIsSound /\ (job.at # "ended" => plan = NoPlan)

LEMMA Sizes == PageSize \in Nat \ {0} /\ AutoIsins \in Nat \ {0}
  BY LookupAssumption

LEMMA PagesHoldAll ==
    ASSUME NEW n \in Nat
    PROVE  PagesFor(n) \in Nat /\ n <= PagesFor(n) * PageSize /\ (n > 0 => PagesFor(n) >= 1)
  BY Sizes DEF PagesFor

LEMMA OnePageMore ==
    ASSUME NEW p \in Nat \ {0}
    PROVE  /\ (p - 1) * PageSize \in Nat
           /\ ((p + 1) - 1) * PageSize = (p - 1) * PageSize + PageSize
  BY Sizes

LEMMA ListIsASequence ==
    ASSUME LookupShapes
    PROVE  /\ listed \in Seq(ListedIsins \cup Noise) /\ Len(listed) \in Nat
           /\ DOMAIN listed = 1..Len(listed)
  BY LookupAssumption DEF LookupShapes

LEMMA LookupInvInit == LookupInit => LookupInv
<1>. SUFFICES ASSUME LookupInit PROVE LookupInv
  OBVIOUS
<1>1. LookupShapes
  BY FS_EmptySet DEF LookupInit, LookupShapes, Fresh
<1>2. PagesAreRead /\ LookupIsSound /\ (job.at # "ended" => plan = NoPlan)
  BY DEF LookupInit, PagesAreRead, LookupIsSound, LeiIsVouched, AllOrNone, Fresh
<1>. QED
  BY <1>1, <1>2 DEF LookupInv

LEMMA LookupShapesStep == LookupShapes /\ [LookupNext]_lvars => LookupShapes'
<1>. SUFFICES ASSUME LookupShapes, [LookupNext]_lvars PROVE LookupShapes'
  OBVIOUS
<1>. USE DEF LookupShapes
<1>1. CASE leiFromWikidata \/ NoneFound \/ selectLeiFromGleif \/ NoRecord \/ planGleifIdentifierWrites
  BY <1>1 DEF leiFromWikidata, NoneFound, selectLeiFromGleif, NoRecord, planGleifIdentifierWrites, GoTo, Gleif
<1>2. CASE getGleifLinkedIdentifiers \/ LookupFails
  BY <1>2, FS_EmptySet DEF getGleifLinkedIdentifiers, LookupFails, Fresh, Gleif
<1>3. CASE ReadPage
  <2>. DEFINE first == (job.page - 1) * PageSize + 1
              places == (first .. first + PageSize - 1) \cap DOMAIN listed
              page == {listed[i] : i \in places}
              last == IF listed = <<>> THEN 1 ELSE (Len(listed) + PageSize - 1) \div PageSize
  <2>1. first \in Nat /\ Len(listed) \in Nat
    BY OnePageMore, ListIsASequence
  <2>2. IsFiniteSet(places)
    BY <2>1, Sizes, FS_Interval, FS_Subset
  <2>3. IsFiniteSet(job.isins \cup (page \cap ListedIsins))
    <3>. HIDE DEF places
    <3>. DEFINE f == [i \in places |-> listed[i]]
    <3>1. f \in Surjection(places, page)
      BY DEF Surjection
    <3>2. IsFiniteSet(page)
      BY <2>2, <3>1, FS_Surjection
    <3>. QED
      BY <3>2, FS_Subset, FS_Union
  <2>4. last \in Nat
    BY <2>1, PagesHoldAll DEF PagesFor
  <2>5. job' = [job EXCEPT !.isins = @ \cup (page \cap ListedIsins), !.page = @ + 1,
                           !.total = Len(listed), !.last = last]
    BY <1>3 DEF ReadPage
  <2>6. listed' = listed
    BY <1>3 DEF ReadPage, Gleif
  <2>. HIDE DEF page, last
  <2>7. (job.isins \cup (page \cap ListedIsins)) \in SUBSET ListedIsins /\ job.page + 1 \in Nat \ {0}
    OBVIOUS
  <2>8. job' \in [at: {"lei", "search", "record", "isins", "ended"}, isins: SUBSET ListedIsins,
                 page: Nat \ {0}, last: Nat, total: Nat]
    BY <2>1, <2>4, <2>5, <2>7
  <2>9. job'.isins = job.isins \cup (page \cap ListedIsins)
    BY <2>5
  <2>. QED
    BY <2>3, <2>6, <2>8, <2>9
<1>4. CASE ListChanges
  BY <1>4 DEF ListChanges
<1>5. CASE UNCHANGED lvars
  BY <1>5 DEF lvars
<1>. QED
  BY <1>1, <1>2, <1>3, <1>4, <1>5 DEF LookupNext

LEMMA PageAfterPage ==
    ASSUME LookupShapes, PagesAreRead, steady, ReadPage
    PROVE /\ job'.isins = Among(((job.page + 1) - 1) * PageSize)
          /\ job'.page = job.page + 1 /\ job'.total = Len(listed)
          /\ job'.last = IF listed = <<>> THEN 1 ELSE PagesFor(Len(listed))
<1>. DEFINE a == (job.page - 1) * PageSize
            page == {listed[i] : i \in (a + 1 .. a + 1 + PageSize - 1) \cap DOMAIN listed}
<1>1. a \in Nat /\ ((job.page + 1) - 1) * PageSize = a + PageSize
  BY OnePageMore DEF LookupShapes
<1>2. /\ job'.isins = job.isins \cup (page \cap ListedIsins)
      /\ job'.page = job.page + 1 /\ job'.total = Len(listed)
      /\ job'.last = IF listed = <<>> THEN 1 ELSE PagesFor(Len(listed))
  BY DEF ReadPage, LookupShapes, PagesFor
<1>3. job.isins = Among(a)
  BY DEF PagesAreRead, ReadPage
<1>. HIDE DEF a
<1>4. \A i \in DOMAIN listed : i \in Int
  BY ListIsASequence
<1>5. (1..(a + PageSize)) \cap DOMAIN listed =
          ((1..a) \cap DOMAIN listed) \cup ((a + 1 .. a + 1 + PageSize - 1) \cap DOMAIN listed)
  BY <1>1, <1>4, Sizes
<1>6. Among(a + PageSize) = Among(a) \cup (page \cap ListedIsins)
  BY <1>5 DEF Among
<1>. QED
  BY <1>1, <1>2, <1>3, <1>6

LEMMA PagesStep == LookupShapes /\ PagesAreRead /\ [LookupNext]_lvars => PagesAreRead'
<1>. SUFFICES ASSUME LookupShapes, PagesAreRead, [LookupNext]_lvars, job'.at = "isins", steady'
              PROVE  /\ job'.isins = Among((job.page - 1) * PageSize)'
                     /\ job'.page > 1 =>
                           /\ job'.total = Len(listed')
                           /\ job'.last = IF listed' = <<>> THEN 1 ELSE PagesFor(Len(listed'))
                     /\ job'.page = 1 => job'.last = 1
  BY DEF PagesAreRead
<1>1. CASE leiFromWikidata \/ NoneFound \/ selectLeiFromGleif \/ NoRecord \/ planGleifIdentifierWrites
           \/ LookupFails
  <2>1. \A at : GoTo(at) => job'.at = at
    BY DEF GoTo, LookupShapes
  <2>2. LookupFails => job'.at # "isins"
    BY DEF LookupFails, Fresh
  <2>. QED
    BY <1>1, <2>1, <2>2 DEF leiFromWikidata, NoneFound, selectLeiFromGleif, NoRecord, planGleifIdentifierWrites
<1>2. CASE getGleifLinkedIdentifiers
  <2>1. job'.isins = {} /\ job'.page = 1 /\ job'.last = 1
    BY <1>2 DEF getGleifLinkedIdentifiers, Fresh
  <2>2. 1..((job'.page - 1) * PageSize) = {}
    BY <2>1, Sizes
  <2>3. Among((job.page - 1) * PageSize)' = {}
    BY <2>2 DEF Among
  <2>. QED
    BY <2>1, <2>2, <2>3
<1>3. CASE ReadPage
  <2>1. steady /\ listed' = listed
    BY <1>3 DEF ReadPage, Gleif
  <2>2. job.page + 1 # 1
    BY DEF LookupShapes
  <2>3. /\ job'.isins = Among(((job.page + 1) - 1) * PageSize)
        /\ job'.page = job.page + 1 /\ job'.total = Len(listed)
        /\ job'.last = IF listed = <<>> THEN 1 ELSE PagesFor(Len(listed))
    BY <1>3, <2>1, PageAfterPage
  <2>4. Among((job.page - 1) * PageSize)' = Among(((job.page + 1) - 1) * PageSize)
    BY <2>1, <2>3 DEF Among
  <2>. QED
    BY <2>1, <2>2, <2>3, <2>4
<1>4. CASE ListChanges
  BY <1>4 DEF ListChanges
<1>5. CASE UNCHANGED lvars
  <2>1. UNCHANGED <<listed, job, steady>>
    BY <1>5 DEF lvars
  <2>2. Among((job.page - 1) * PageSize)' = Among((job.page - 1) * PageSize)
    BY <2>1 DEF Among
  <2>. QED
    BY <2>1, <2>2 DEF PagesAreRead
<1>. QED
  BY <1>1, <1>2, <1>3, <1>4, <1>5 DEF LookupNext

LEMMA VouchedStep == LookupShapes /\ LeiIsVouched /\ [LookupNext]_lvars => LeiIsVouched'
  BY DEF LookupNext, LeiIsVouched, leiFromWikidata, NoneFound, selectLeiFromGleif, NoRecord,
     planGleifIdentifierWrites, LookupFails, getGleifLinkedIdentifiers, ReadPage, ListChanges, Gleif,
     acceptLeiFromGleifCandidates, lvars

LEMMA PlanIsWhole ==
    ASSUME LookupShapes, PagesAreRead, steady, planGleifIdentifierWrites, plan' # NoPlan
    PROVE /\ plan'.write = ToSet(listed) \cap ListedIsins /\ Len(listed) <= AutoIsins
          /\ plan'.primary # {} => ToSet(listed) \cap ListedIsins = plan'.primary
<1>. DEFINE c == Cardinality(job.isins)
<1>1. job.page \in Nat \ {0} /\ job.last \in Nat /\ job.total \in Nat /\ c \in Nat /\ Len(listed) \in Nat
  BY ListIsASequence, FS_CardinalityType DEF LookupShapes
<1>2. MaxPages \in Nat /\ MaxPages >= 1
  BY Sizes, PagesHoldAll DEF MaxPages, PagesFor
<1>3. /\ job.at = "isins" /\ ~(job.page <= job.last /\ job.page <= MaxPages)
      /\ job.last <= MaxPages
      /\ plan' = [write |-> job.isins, primary |-> IF c = 1 THEN job.isins ELSE {}]
      /\ (IF job.total > c THEN job.total ELSE c) <= AutoIsins
  <2>1. job.at = "isins" /\ ~MorePages
    BY DEF planGleifIdentifierWrites
  <2>2. plan' = IF job.last > MaxPages \/ (IF job.total > c THEN job.total ELSE c) > AutoIsins THEN NoPlan
                ELSE [write |-> job.isins, primary |-> IF c = 1 THEN job.isins ELSE {}]
    BY DEF planGleifIdentifierWrites
  <2>3. ~(job.last > MaxPages) /\ ~((IF job.total > c THEN job.total ELSE c) > AutoIsins)
    BY <2>2
  <2>. QED
    BY <1>1, <1>2, <2>1, <2>2, <2>3, Sizes DEF MorePages
<1>. HIDE DEF c
<1>4. job.page > job.last /\ job.page > 1
  BY <1>1, <1>2, <1>3 DEF PagesAreRead
<1>5. /\ job.isins = Among((job.page - 1) * PageSize)
      /\ job.total = Len(listed)
      /\ job.last = IF listed = <<>> THEN 1 ELSE PagesFor(Len(listed))
  BY <1>3, <1>4 DEF PagesAreRead
<1>6. Len(listed) <= (job.page - 1) * PageSize
  <2>1. CASE listed = <<>>
    BY <2>1, OnePageMore, <1>1
  <2>2. CASE listed # <<>>
    <3>. DEFINE q == PagesFor(Len(listed))
    <3>1. q \in Nat /\ Len(listed) <= q * PageSize /\ q = job.last
      BY <1>1, <1>5, <2>2, PagesHoldAll
    <3>. HIDE DEF q
    <3>2. q * PageSize <= (job.page - 1) * PageSize
      BY <1>1, <1>4, <3>1, Sizes
    <3>. QED
      BY <1>1, <3>1, <3>2, Sizes
  <2>. QED
    BY <2>1, <2>2
<1>7. job.isins = ToSet(listed) \cap ListedIsins
  <2>. DEFINE m == (job.page - 1) * PageSize
  <2>1. m \in Nat /\ Len(listed) <= m /\ DOMAIN listed = 1..Len(listed)
    BY <1>1, <1>6, ListIsASequence, OnePageMore
  <2>2. (1..m) \cap DOMAIN listed = DOMAIN listed
    <3>. HIDE DEF m
    <3>. QED
      BY <1>1, <2>1
  <2>. QED
    BY <1>5, <2>2 DEF Among, ToSet
<1>8. Len(listed) <= AutoIsins
  BY <1>1, <1>3, <1>5, Sizes
<1>. QED
  BY <1>3, <1>7, <1>8

LEMMA LookupStep == LookupInv /\ [LookupNext]_lvars => LookupInv'
<1>. SUFFICES ASSUME LookupInv, [LookupNext]_lvars
              PROVE  AllOrNone' /\ (job'.at # "ended" => plan' = NoPlan)
  BY LookupShapesStep, PagesStep, VouchedStep DEF LookupInv, LookupIsSound
<1>1. CASE planGleifIdentifierWrites
  <2>1. job'.at = "ended" /\ UNCHANGED <<steady, listed>>
    BY <1>1 DEF planGleifIdentifierWrites, GoTo, Gleif, LookupInv, LookupShapes
  <2>2. AllOrNone'
    BY <1>1, <2>1, PlanIsWhole DEF AllOrNone, LookupInv, NoPlan
  <2>. QED
    BY <2>1, <2>2
<1>2. CASE leiFromWikidata \/ NoneFound \/ selectLeiFromGleif \/ NoRecord \/ LookupFails
           \/ getGleifLinkedIdentifiers \/ ReadPage \/ ListChanges
  <2>1. job.at # "ended" /\ plan' = plan
    BY <1>2 DEF leiFromWikidata, NoneFound, selectLeiFromGleif, NoRecord, LookupFails, getGleifLinkedIdentifiers,
                ReadPage, ListChanges
  <2>. QED
    BY <2>1 DEF LookupInv, AllOrNone, NoPlan
<1>3. CASE UNCHANGED lvars
  BY <1>3 DEF lvars, LookupInv, LookupIsSound, AllOrNone, NoPlan
<1>. QED
  BY <1>1, <1>2, <1>3 DEF LookupNext

\* The LEI of a run is vouched for and its ISINs are written all or none, for any lists, page
\* sizes and limits (extractLEI.ts, gleif.ts: getGleifLinkedIdentifiers).
THEOREM LookedUp == LookupSpec => []LookupIsSound
<1>1. LookupSpec => []LookupInv
  BY LookupInvInit, LookupStep, PTL DEF LookupSpec
<1>2. LookupInv => LookupIsSound
  BY DEF LookupInv
<1>. QED
  BY <1>1, <1>2, PTL

-----------------------------------------------------------------------------

\* What a question may be answered with.
AnswersOf(q) == Answers[q] \cup {NotAsked}

AnswersAreOfQuestions ==
    /\ Answered \subseteq Questions
    /\ \A q \in Answered : answer[q] \in AnswersOf(q)

\* checkDB has merged the answers there are.
MergeInv ==
    /\ AnswersAreOfQuestions
    /\ done => Answered = Questions /\ merged = mergeScope1AndScope2Results(answer)

LEMMA MergeInvInit == MergeInit => MergeInv
  BY DEF MergeInit, MergeInv, AnswersAreOfQuestions, Answered

LEMMA MergeInvStep == MergeInv /\ [MergeNext]_mvars => MergeInv'
<1>. SUFFICES ASSUME MergeInv, [MergeNext]_mvars PROVE MergeInv'
  OBVIOUS
<1>1. ASSUME NEW q \in Questions, FollowUpEnds(q) PROVE MergeInv'
  BY <1>1 DEF FollowUpEnds, MergeInv, AnswersAreOfQuestions, AnswersOf, Answered
<1>2. CASE CheckDBMerges
  BY <1>2 DEF CheckDBMerges, MergeInv, AnswersAreOfQuestions, Answered
<1>3. CASE UNCHANGED mvars
  BY <1>3 DEF mvars, MergeInv, AnswersAreOfQuestions, Answered
<1>. QED
  BY <1>1, <1>2, <1>3 DEF MergeNext

\* A set of numbers up to n has a greatest one.
LEMMA Greatest ==
    ASSUME NEW n \in Nat, NEW S, S \subseteq 1..n, S # {} PROVE \E x \in S : \A y \in S : y <= x
<1>. DEFINE D == {d \in Nat : n - d \in S}
            R == {p \in Nat \X Nat : p[1] < p[2]}
<1>1. D # {}
  <2>1. PICK y \in S : TRUE
    OBVIOUS
  <2>2. n - y \in Nat /\ n - (n - y) = y
    OBVIOUS
  <2>. QED
    BY <2>2
<1>2. IsWellFoundedOn(R, Nat)
  BY NatLessThanWellFounded DEF OpToRel
<1>3. PICK d \in D : \A e \in D : ~(<<e, d>> \in R)
  BY <1>1, <1>2, WFMin
<1>4. n - d \in S
  OBVIOUS
<1>5. ASSUME NEW y \in S PROVE y <= n - d
  <2>1. y \in 1..n /\ n - y \in Nat /\ n - (n - y) = y
    OBVIOUS
  <2>2. n - y \in D
    BY <2>1
  <2>3. ~(<<n - y, d>> \in R)
    BY <1>3, <2>2
  <2>4. ~(n - y < d)
    BY <2>1, <2>3
  <2>. QED
    BY <2>1, <2>4
<1>. QED
  BY <1>4, <1>5

\* Entries by year: every year of the entries, with the parts of one of them.
LEMMA IndexHasTheYears ==
    ASSUME NEW s, s \in Seq({s[i] : i \in DOMAIN s})
    PROVE /\ DOMAIN EntryIndex(s) = {s[i].year : i \in DOMAIN s}
          /\ \A y \in DOMAIN EntryIndex(s) : \E i \in DOMAIN s : s[i].year = y /\ EntryIndex(s)[y] = s[i].parts
<1>1. DOMAIN EntryIndex(s) = {s[i].year : i \in DOMAIN s}
  BY DEF EntryIndex
<1>2. ASSUME NEW y \in DOMAIN EntryIndex(s)
      PROVE \E i \in DOMAIN s : s[i].year = y /\ EntryIndex(s)[y] = s[i].parts
  <2>. DEFINE S == {i \in DOMAIN s : s[i].year = y}
              last == CHOOSE i \in DOMAIN s : s[i].year = y /\ \A k \in DOMAIN s : s[k].year = y => k <= i
  <2>1. S # {} /\ S \subseteq 1..Len(s) /\ Len(s) \in Nat
    BY <1>1
  <2>2. \E x \in S : \A k \in S : k <= x
    BY <2>1, Greatest
  <2>3. last \in DOMAIN s /\ s[last].year = y
    BY <2>2
  <2>4. EntryIndex(s)[y] = s[last].parts
    BY <1>1 DEF EntryIndex
  <2>. QED
    BY <2>3, <2>4
<1>. QED
  BY <1>1, <1>2

\* A list read backwards has the entries of the list.
LEMMA ReversedHasTheEntries ==
    ASSUME NEW s, s \in Seq({s[i] : i \in DOMAIN s})
    PROVE LET r == Reverse(s)
          IN /\ r \in Seq({r[i] : i \in DOMAIN r})
             /\ {r[i] : i \in DOMAIN r} = {s[i] : i \in DOMAIN s}
<1>. DEFINE r == Reverse(s)
<1>1. Len(s) \in Nat /\ DOMAIN s = 1..Len(s)
  OBVIOUS
<1>2. r = [i \in 1..Len(s) |-> s[(Len(s) - i) + 1]]
  BY DEF Reverse
<1>3. r \in Seq({r[i] : i \in DOMAIN r}) /\ DOMAIN r = 1..Len(s)
  <2>1. DOMAIN r = 1..Len(s)
    BY <1>2
  <2>2. r = [i \in 1..Len(s) |-> r[i]]
    BY <1>2
  <2>. HIDE DEF r
  <2>3. ASSUME NEW n \in Nat, NEW T, NEW f, f = [i \in 1..n |-> f[i]], \A i \in 1..n : f[i] \in T
        PROVE  f \in Seq(T)
    <3>1. f \in [1..n -> T]
      BY <2>3
    <3>. QED
      BY <3>1
  <2>4. \A i \in 1..Len(s) : r[i] \in {r[j] : j \in DOMAIN r}
    BY <2>1
  <2>. QED
    BY <1>1, <2>1, <2>2, <2>3, <2>4
<1>4. ASSUME NEW i \in 1..Len(s)
      PROVE  (Len(s) - i) + 1 \in 1..Len(s) /\ (Len(s) - ((Len(s) - i) + 1)) + 1 = i
  BY <1>1
<1>5. \A i \in 1..Len(s) : r[i] = s[(Len(s) - i) + 1] /\ s[i] = r[(Len(s) - i) + 1]
  BY <1>2, <1>4
<1>. QED
  BY <1>1, <1>3, <1>4, <1>5

\* So has the index of an old answer, which is read backwards.
LEMMA LegacyHasTheYears ==
    ASSUME NEW s, s # NotAsked, s \in Seq({s[i] : i \in DOMAIN s})
    PROVE /\ DOMAIN legacyByYear(s) = {s[i].year : i \in DOMAIN s}
          /\ \A y \in DOMAIN legacyByYear(s) :
                \E i \in DOMAIN s : s[i].year = y /\ legacyByYear(s)[y] = s[i].parts
<1>. DEFINE r == Reverse(s)
<1>1. r \in Seq({r[i] : i \in DOMAIN r}) /\ {r[i] : i \in DOMAIN r} = {s[i] : i \in DOMAIN s}
  BY ReversedHasTheEntries
<1>2. legacyByYear(s) = EntryIndex(r)
  BY DEF legacyByYear
<1>. HIDE DEF r
<1>3. /\ DOMAIN EntryIndex(r) = {r[i].year : i \in DOMAIN r}
      /\ \A y \in DOMAIN EntryIndex(r) : \E i \in DOMAIN r : r[i].year = y /\ EntryIndex(r)[y] = r[i].parts
  BY <1>1, IndexHasTheYears
<1>4. \A i \in DOMAIN r : \E j \in DOMAIN s : r[i] = s[j]
  BY <1>1
<1>5. \A j \in DOMAIN s : \E i \in DOMAIN r : r[i] = s[j]
  BY <1>1
<1>6. {r[i].year : i \in DOMAIN r} = {s[i].year : i \in DOMAIN s}
  BY <1>4, <1>5
<1>7. ASSUME NEW y \in DOMAIN legacyByYear(s)
      PROVE  \E i \in DOMAIN s : s[i].year = y /\ legacyByYear(s)[y] = s[i].parts
  <2>1. PICK i \in DOMAIN r : r[i].year = y /\ EntryIndex(r)[y] = r[i].parts
    BY <1>2, <1>3
  <2>2. PICK j \in DOMAIN s : r[i] = s[j]
    BY <1>4
  <2>. QED
    BY <1>2, <2>1, <2>2
<1>. QED
  BY <1>2, <1>3, <1>6, <1>7

\* An answer's years, and what it says of them, as checkDB and Says see it.
IndexOf(q, a) == IF q = "legacy" THEN legacyByYear(a) ELSE indexEntriesByYear(a)

LEMMA NoAnswerSaysNothing == ASSUME NEW q PROVE DOMAIN IndexOf(q, NotAsked) = {}
  BY DEF IndexOf, legacyByYear, indexEntriesByYear, EntryIndex

LEMMA AnswerSaysItsEntries ==
    ASSUME NEW q \in Questions, NEW a \in Answers[q]
    PROVE  /\ DOMAIN IndexOf(q, a) = {a[i].year : i \in DOMAIN a}
           /\ \A y \in DOMAIN IndexOf(q, a) :
                 \E i \in DOMAIN a : a[i].year = y /\ IndexOf(q, a)[y] = a[i].parts
<1>1. a # NotAsked /\ a \in Seq({a[i] : i \in DOMAIN a})
  BY MergeAssumption
<1>2. CASE q = "legacy"
  BY <1>1, <1>2, LegacyHasTheYears DEF IndexOf
<1>3. CASE q # "legacy"
  BY <1>1, <1>3, IndexHasTheYears DEF IndexOf, indexEntriesByYear
<1>. QED
  BY <1>2, <1>3

\* A question for one scope says nothing of the other.
LEMMA OneQuestionAPart ==
    ASSUME MergeInv, Answered = Questions, NEW y
    PROVE  Says("scope1", y, "scope2") \in NotFound /\ Says("scope2", y, "scope1") \in NotFound
<1>1. ASSUME NEW q \in {"scope1", "scope2"}, NEW p, p = IF q = "scope1" THEN "scope2" ELSE "scope1"
      PROVE  Says(q, y, p) = NotAsked
  <2>. DEFINE index == IndexOf(q, answer[q])
  <2>1. Says(q, y, p) = Of(index, y)[p]
    BY DEF Says, IndexOf
  <2>2. CASE y \notin DOMAIN index
    BY <1>1, <2>1, <2>2 DEF Of, NoEntry, Parts
  <2>3. CASE y \in DOMAIN index
    <3>1. answer[q] \in Answers[q]
      BY <2>3, NoAnswerSaysNothing DEF MergeInv, AnswersAreOfQuestions, AnswersOf, Questions
    <3>2. \A z \in DOMAIN index : \E i \in DOMAIN answer[q] : index[z] = answer[q][i].parts
      <4>1. q \in Questions
        BY DEF Questions
      <4>. QED
        BY <3>1, <4>1, AnswerSaysItsEntries
    <3>. HIDE DEF index
    <3>3. PICK i \in DOMAIN answer[q] : index[y] = answer[q][i].parts
      BY <2>3, <3>2
    <3>4. answer[q][i].parts[p] = NotAsked
      BY <1>1, <3>1, MergeAssumption
    <3>. QED
      BY <2>1, <2>3, <3>3, <3>4 DEF Of
  <2>. QED
    BY <2>2, <2>3
<1>2. Says("scope1", y, "scope2") = NotAsked
  BY <1>1
<1>3. Says("scope2", y, "scope1") = NotAsked
  BY <1>1
<1>. QED
  BY <1>2, <1>3 DEF NotFound

LEMMA MergeInvImplies == MergeInv => NothingFoundIsLost
<1>. SUFFICES ASSUME MergeInv, done PROVE NothingFoundIsLost
  BY DEF NothingFoundIsLost
<1>. DEFINE index(q) == IndexOf(q, answer[q])
            years == DOMAIN index("scope1") \cup DOMAIN index("scope2") \cup DOMAIN index("legacy")
            new == {q \in {"scope1", "scope2"} : answer[q] # NotAsked}
            Entry(y) == [year |-> y, parts |-> mergeEntriesForYear(Of(index("scope1"), y), Of(index("scope2"), y),
                                                                   Of(index("legacy"), y))]
<1>1. Answered = Questions /\ \A q \in Questions : answer[q] \in Answers[q] \cup {NotAsked}
  BY DEF MergeInv, AnswersAreOfQuestions, AnswersOf
<1>2. merged = IF new = {} \/ years = {}
               THEN IF answer["legacy"] = NotAsked THEN {} ELSE ToSet(answer["legacy"])
               ELSE {Entry(y) : y \in years}
  BY DEF MergeInv, mergeScope1AndScope2Results, collectAllYears, IndexOf
<1>3. \A q \in Questions, p \in Parts : \A y : Says(q, y, p) = Of(index(q), y)[p]
  BY DEF Says, IndexOf
<1>4. \A q \in Questions : answer[q] # NotAsked =>
          /\ answer[q] \in Answers[q]
          /\ DOMAIN index(q) = {answer[q][i].year : i \in DOMAIN answer[q]}
          /\ \A y \in DOMAIN index(q) :
                \E i \in DOMAIN answer[q] : answer[q][i].year = y /\ index(q)[y] = answer[q][i].parts
  BY <1>1, AnswerSaysItsEntries
<1>5. \A q \in Questions : answer[q] = NotAsked => DOMAIN index(q) = {}
  BY NoAnswerSaysNothing
<1>6. Years \subseteq years
  BY <1>4 DEF Years, Questions
<1>7. \A q \in Questions, p \in Parts : \A y : y \notin DOMAIN index(q) => Says(q, y, p) \in NotFound
  BY <1>3 DEF Of, NoEntry, NotFound
<1>. HIDE DEF index
<1>8. CASE new = {} \/ years = {}
  <2>1. \A q \in {"scope1", "scope2"} : DOMAIN index(q) = {}
    BY <1>5, <1>8 DEF Questions
  <2>2. merged = IF answer["legacy"] = NotAsked THEN {} ELSE ToSet(answer["legacy"])
    BY <1>2, <1>8
  <2>3. \A y \in DOMAIN index("legacy") : \E e \in merged : e.year = y /\ index("legacy")[y] = e.parts
    BY <1>4, <1>5, <2>2 DEF ToSet, Questions
  <2>4. ASSUME NEW q \in Questions, NEW y \in Years, NEW p \in {"scope1", "scope2"}
        PROVE  Says(q, y, p) \in NotFound \/ Found(y, p)
    <3>0. p \in Parts
      BY DEF Parts
    <3>1. CASE y \notin DOMAIN index(q)
      <4>1. Says(q, y, p) \in NotFound
        BY <1>7, <3>0, <3>1
      <4>. QED
        BY <4>1
    <3>2. CASE y \in DOMAIN index(q)
      <4>1. q = "legacy"
        BY <2>1, <3>2 DEF Questions
      <4>2. PICK e \in merged : e.year = y /\ index("legacy")[y] = e.parts
        BY <2>3, <3>2, <4>1
      <4>3. Says(q, y, p) = Of(index(q), y)[p]
        BY <1>3, <3>0
      <4>4. Says(q, y, p) = e.parts[p]
        BY <3>2, <4>1, <4>2, <4>3 DEF Of
      <4>. QED
        BY <4>2, <4>4 DEF Found
    <3>. QED
      BY <3>1, <3>2
  <2>5. \A y \in Years : \E e \in merged : e.year = y
    BY <1>6, <2>1, <2>3
  <2>6. new # {} => merged = {}
    <3>. SUFFICES ASSUME years = {}, answer["legacy"] # NotAsked PROVE ToSet(answer["legacy"]) = {}
      BY <1>8, <2>2
    <3>1. {answer["legacy"][i].year : i \in DOMAIN answer["legacy"]} = {}
      BY <1>4 DEF Questions
    <3>. QED
      BY <3>1 DEF ToSet
  <2>. QED
    BY <2>4, <2>5, <2>6 DEF NothingFoundIsLost
<1>9. CASE new # {} /\ years # {}
  <2>1. merged = {Entry(y) : y \in years}
    BY <1>2, <1>9
  <2>2. \A y : Entry(y).year = y
    OBVIOUS
  <2>3. ASSUME NEW q \in Questions, NEW y \in Years, NEW p \in {"scope1", "scope2"},
               Says(q, y, p) \notin NotFound
        PROVE  Found(y, p)
    <3>1. Entry(y) \in merged
      BY <1>6, <2>1
    <3>2. Entry(y).parts[p] = OrElse(Says(p, y, p), Says("legacy", y, p))
      <4>1. Entry(y).parts[p] = IF p = "scope1" THEN OrElse(Of(index("scope1"), y)[p], Of(index("legacy"), y)[p])
                                                ELSE OrElse(Of(index("scope2"), y)[p], Of(index("legacy"), y)[p])
        BY DEF mergeEntriesForYear, Parts
      <4>2. /\ p \in Questions /\ "legacy" \in Questions /\ p \in Parts
        BY DEF Questions, Parts
      <4>3. Says(p, y, p) = Of(index(p), y)[p] /\ Says("legacy", y, p) = Of(index("legacy"), y)[p]
        BY <1>3, <4>2
      <4>. HIDE DEF Entry
      <4>. QED
        BY <4>1, <4>3
    <3>3. q \in {p, "legacy"}
      BY <1>1, <2>3, OneQuestionAPart DEF Questions
    <3>4. OrElse(Says(p, y, p), Says("legacy", y, p)) \notin NotFound
      BY <2>3, <3>3 DEF OrElse
    <3>. QED
      BY <2>2, <3>1, <3>2, <3>4 DEF Found
  <2>4. \A y \in Years : \E e \in merged : e.year = y
    BY <1>6, <2>1, <2>2
  <2>5. \A d, e \in merged : d.year = e.year => d = e
    BY <2>1, <2>2
  <2>. QED
    BY <2>3, <2>4, <2>5 DEF NothingFoundIsLost
<1>. QED
  BY <1>8, <1>9

\* Whichever questions were answered, with whatever entries, the merge loses no year and nothing
\* that was found of scope 1 or scope 2 (mergeScopeResults.ts).
THEOREM NothingLost == MergeSpec => []NothingFoundIsLost
<1>1. MergeSpec => []MergeInv
  BY MergeInvInit, MergeInvStep, PTL DEF MergeSpec
<1>. QED
  BY <1>1, MergeInvImplies, PTL
=============================================================================
