---------------------------- MODULE AutoRunProofs ----------------------------
(* Proofs about AutoRun. *)
EXTENDS AutoRun, FiniteSetTheorems, SequenceTheorems, WellFoundedInduction, TLAPS

LEMMA LeaseFacts ==
  ASSUME NEW S, NEW ttl \in Nat \ {0}, NEW l \in LeaseType(S, ttl)
  PROVE  /\ Absent \in LeaseType(S, ttl)
         /\ \A t \in S : Granted(t, ttl) \in LeaseType(S, ttl)
         /\ Aged(l) \in LeaseType(S, ttl)
         /\ l.left > 1 => Aged(l) = [owner |-> l.owner, left |-> l.left - 1]
BY DEF LeaseType, Absent, Granted, Aged

LEMMA RunFacts ==
  /\ \A r \in Reports : \A f \in RunsOf(r) : f \in Runs /\ f[1] = r
  /\ \A f \in Runs : f[1] \in Reports /\ f \in RunsOf(f[1])
BY DEF Runs, RunsOf

\* What a step of the inner part leaves alone.
LEMMA InnerFrame ==
  ASSUME TicksOK, NEW t \in Ticks, Inner(t)
  PROVE  /\ pc[t] \notin {"idle", "finished"}
         /\ UNCHANGED <<lock, outer, age>>
         /\ \A b \in Ticks : b # t => pc'[b] = pc[b] /\ todo'[b] = todo[b]
                                      /\ current'[b] = current[b]
BY DEF TicksOK, Inner, ObserveRead, ObserveWrite, SoftDisable, Preflight,
   ReadConfig, CountSlots, ScanFails, Select, Claim, ClaimFails, AddJob,
   AddFails, CountEnqueueFailure, Finish, Goto

-----------------------------------------------------------------------------
(* Every reachable state is well typed (the part of TypeOK that the argument *)
(* needs; NumbersInvariant adds what the counters hold).                     *)
THEOREM TypeCorrect == Spec => []TicksOK
<1>1. Init => TicksOK
  BY ConstantsAssumption DEF Init, TicksOK, Absent, LeaseType
<1>2. TicksOK /\ [Next]_vars => TicksOK'
  <2> SUFFICES ASSUME TicksOK, [Next]_vars PROVE TicksOK'
    OBVIOUS
  <2> USE ConstantsAssumption DEF TicksOK, Enqueueing
  <2>1. ASSUME NEW t \in Ticks, Start(t) PROVE TicksOK'
    BY <2>1, LeaseFacts DEF Start, Goto
  <2>2. ASSUME NEW t \in Ticks, Release(t) PROVE TicksOK'
    BY <2>2 DEF Release, LetGo
  <2>3. ASSUME NEW t \in Ticks, ReleaseDel(t) PROVE TicksOK'
    BY <2>3, LeaseFacts DEF ReleaseDel, LetGo
  <2>4. ASSUME NEW t \in Ticks, ReleaseFails(t) PROVE TicksOK'
    BY <2>4 DEF ReleaseFails, LetGo
  <2>5. ASSUME NEW t \in Ticks, ObserveRead(t) \/ ObserveWrite(t)
                 \/ SoftDisable(t) \/ Preflight(t) PROVE TicksOK'
    BY <2>5 DEF ObserveRead, ObserveWrite, SoftDisable, Preflight, Goto
  <2>6. ASSUME NEW t \in Ticks, ReadConfig(t) \/ CountSlots(t) \/ ScanFails(t)
                 \/ CountEnqueueFailure(t) PROVE TicksOK'
    BY <2>6 DEF ReadConfig, CountSlots, ScanFails, CountEnqueueFailure, Finish, Goto
  <2>7. ASSUME NEW t \in Ticks, Select(t) PROVE TicksOK'
    BY <2>7 DEF Select, Finish, Goto
  <2>8. ASSUME NEW t \in Ticks, Claim(t) PROVE TicksOK'
    BY <2>8, RunFacts DEF Claim, Goto
  <2>9. ASSUME NEW t \in Ticks, ClaimFails(t) PROVE TicksOK'
    BY <2>9 DEF ClaimFails, Goto
  <2>10. ASSUME NEW t \in Ticks, AddJob(t) PROVE TicksOK'
    <3>1. /\ flow' = [flow EXCEPT ![current[t]] = "working"]
          /\ UNCHANGED <<lock, outer, age, row>>
      BY <2>10 DEF AddJob
    <3>2. flow' \in [Runs -> InFlight \cup {"none", "ended"}]
      BY <3>1 DEF InFlight
    <3>3. CASE todo[t] = {}
      BY <2>10, <3>1, <3>2, <3>3 DEF AddJob, Finish, Goto
    <3>4. CASE todo[t] # {}
      BY <2>10, <3>1, <3>2, <3>4 DEF AddJob, Goto
    <3>5. QED BY <3>3, <3>4
  <2>11. ASSUME NEW t \in Ticks, AddFails(t) PROVE TicksOK'
    BY <2>11 DEF AddFails, Goto, InFlight
  <2>12. ASSUME NEW t \in Ticks, Crash(t) PROVE TicksOK'
    BY <2>12 DEF Crash
  <2>13. ASSUME NEW f \in Runs, Flow(f) PROVE TicksOK'
    BY <2>13 DEF Flow, FlowProgress, DoclingCompletes, FlowJobFails, FlowConcludes,
       FlowLost, Park, Resume, GrowStale, InFlight, inner
  <2>14. CASE PatchRead \/ PatchWrite
    BY <2>14 DEF PatchRead, PatchWrite, inner
  <2>15. CASE Clock
    BY <2>15, LeaseFacts DEF Clock, inner
  <2>16. CASE UNCHANGED vars
    BY <2>16 DEF vars, inner
  <2>17. QED
    BY <2>1, <2>2, <2>3, <2>4, <2>5, <2>6, <2>7, <2>8, <2>9, <2>10, <2>11,
       <2>12, <2>13, <2>14, <2>15, <2>16 DEF Next, Outer, Inner
<1>3. QED BY <1>1, <1>2, PTL DEF Spec

-----------------------------------------------------------------------------
(* While outer parts end before their timeout and the TTL, a tick that is   *)
(* under way holds the lease.                                               *)

Lease == HolderOwnsLease /\ InnerUnderLease

LEMMA LeaseInvariant ==
  ASSUME MaxHold < TTL, MaxHold < TickTimeout
  PROVE  Spec => []Lease
<1> USE ConstantsAssumption
<1>1. Init => Lease
  BY DEF Init, Lease, HolderOwnsLease, InnerUnderLease
<1>2. TicksOK /\ TicksOK' /\ Lease /\ [Next]_vars => Lease'
  <2> SUFFICES ASSUME TicksOK, TicksOK', Lease, [Next]_vars PROVE Lease'
    OBVIOUS
  <2> USE DEF Lease, HolderOwnsLease, InnerUnderLease, Get
  <2>1. ASSUME NEW t \in Ticks, Start(t) PROVE Lease'
    <3>1. /\ lock' = [owner |-> t, left |-> TTL]
          /\ outer[t] = "none" /\ outer'[t] = "held" /\ pc'[t] = "observing"
          /\ \A b \in Ticks : outer[b] = "none"
          /\ \A b \in Ticks : b # t => outer'[b] = outer[b] /\ pc'[b] = pc[b]
          /\ age' = age
      BY <2>1 DEF Start, Goto, Granted, IsFree, TicksOK
    <3>2. QED BY <3>1
  <2>2. ASSUME NEW t \in Ticks, Inner(t) PROVE Lease'
    <3>1. /\ pc[t] \notin {"idle", "finished"}
          /\ UNCHANGED <<lock, outer, age>>
          /\ \A b \in Ticks : b # t => pc'[b] = pc[b]
      BY <2>2, InnerFrame
    <3>2. QED BY <3>1
  <2>3. ASSUME NEW t \in Ticks, Release(t) PROVE Lease'
    <3>1. pc[t] = "finished" /\ Get(lock) = t
      BY <2>3 DEF Release, TicksOK
    <3>2. QED BY <2>3, <3>1 DEF Release, TicksOK
  <2>4. ASSUME NEW t \in Ticks, ReleaseDel(t) PROVE Lease'
    <3>1. /\ outer'[t] = "none" /\ age'[t] = 0 /\ pc'[t] = "idle"
          /\ \A b \in Ticks : b # t => /\ outer'[b] = outer[b] /\ age'[b] = age[b]
                                       /\ pc'[b] = pc[b] /\ outer[b] = "none"
      BY <2>4 DEF ReleaseDel, LetGo, TicksOK
    <3>2. QED BY <3>1
  <2>5. ASSUME NEW t \in Ticks, ReleaseFails(t) PROVE Lease'
    <3>1. /\ outer'[t] = "none" /\ age'[t] = 0 /\ pc'[t] = "idle" /\ lock' = lock
          /\ \A b \in Ticks : b # t => /\ outer'[b] = outer[b] /\ age'[b] = age[b]
                                       /\ pc'[b] = pc[b]
      BY <2>5 DEF ReleaseFails, LetGo, TicksOK
    <3>2. QED BY <3>1
  <2>6. ASSUME NEW t \in Ticks, Crash(t) PROVE Lease'
    <3>1. /\ outer'[t] = "none" /\ age'[t] = 0 /\ pc'[t] = "idle" /\ lock' = lock
          /\ \A b \in Ticks : b # t => /\ outer'[b] = outer[b] /\ age'[b] = age[b]
                                       /\ pc'[b] = pc[b]
      BY <2>6 DEF Crash, TicksOK
    <3>2. QED BY <3>1
  <2>7. ASSUME NEW f \in Runs, Flow(f) PROVE Lease'
    <3>1. UNCHANGED <<lock, outer, age, pc>>
      BY <2>7 DEF Flow, FlowProgress, DoclingCompletes, FlowJobFails,
         FlowConcludes, FlowLost, Park, Resume, GrowStale, inner
    <3>2. QED BY <3>1
  <2>8. CASE PatchRead \/ PatchWrite
    BY <2>8 DEF PatchRead, PatchWrite, inner
  <2>9. CASE Clock
    <3>1. /\ lock' = Aged(lock) /\ UNCHANGED <<outer, pc>>
          /\ \A b \in Ticks : age'[b] = IF outer[b] # "none" THEN age[b] + 1 ELSE 0
          /\ \A b \in Ticks : outer[b] # "none" => age[b] < MaxHold
      BY <2>9 DEF Clock, inner
    <3>2. lock \in LeaseType(Ticks, TTL) /\ \A b \in Ticks : age[b] \in Nat
      BY DEF TicksOK
    <3>3. ASSUME NEW b \in Ticks, outer[b] # "none"
          PROVE  lock'.owner = b /\ lock'.left + age'[b] >= TTL /\ age'[b] <= MaxHold
      <4>1. lock.left \in Nat /\ lock.left + age[b] >= TTL /\ age[b] < MaxHold
        BY <3>1, <3>2, <3>3 DEF LeaseType
      <4>2. lock.left > 1
        BY <3>2, <4>1
      <4>3. lock' = [owner |-> lock.owner, left |-> lock.left - 1]
        BY <3>1, <3>2, <4>2, LeaseFacts
      <4>4. QED BY <3>1, <3>2, <3>3, <4>1, <4>3
    <3>4. QED BY <3>1, <3>3
  <2>10. CASE UNCHANGED vars
    BY <2>10 DEF vars, inner
  <2>11. QED
    BY <2>1, <2>2, <2>3, <2>4, <2>5, <2>6, <2>7, <2>8, <2>9, <2>10
       DEF Next, Outer
<1>3. QED BY <1>1, <1>2, TypeCorrect, PTL DEF Spec

-----------------------------------------------------------------------------
(* Nobody else starts a run of the candidates of the tick under way.         *)

Free == CandidatesFree /\ CurrentFree /\ ClaimedBeforeQueued /\ OneLiveRunPerReport

LEMMA OneTickUnderWay ==
  ASSUME TicksOK, Lease, NEW t \in Ticks, NEW b \in Ticks,
         pc[t] # "idle", pc[b] # "idle"
  PROVE  t = b
BY DEF Lease, HolderOwnsLease, InnerUnderLease, Get

\* Steps that leave the runs alone and bring no tick to its candidates.
LEMMA QuietStep ==
  ASSUME Free, UNCHANGED <<row, flow>>,
         \A t \in Ticks : pc'[t] \in {"claiming", "adding"} =>
           pc'[t] = pc[t] /\ todo'[t] = todo[t] /\ current'[t] = current[t]
  PROVE  Free'
BY DEF Free, CandidatesFree, CurrentFree, ClaimedBeforeQueued, OneLiveRunPerReport, Live

\* A run of a report that has none becomes live.
LEMMA FirstLiveRun ==
  ASSUME TicksOK, OneLiveRunPerReport, NEW c \in Runs,
         \A f \in RunsOf(c[1]) : ~Live(f),
         flow' = [flow EXCEPT ![c] = "working"]
  PROVE  /\ OneLiveRunPerReport'
         /\ \A f \in Runs : f[1] # c[1] => Live(f)' = Live(f)
<1>1. \A f \in Runs : f # c => flow'[f] = flow[f]
  BY DEF TicksOK
<1>2. \A r \in Reports : \A f \in RunsOf(r) : f \in Runs /\ f[1] = r
  BY RunFacts
<1>3. ASSUME NEW r \in Reports, NEW f \in RunsOf(r), NEW g \in RunsOf(r),
             Live(f)', Live(g)'
      PROVE  f = g
  <2>1. CASE r = c[1]
    <3>1. f = c /\ g = c
      BY <1>1, <1>2, <1>3, <2>1 DEF Live
    <3>2. QED BY <3>1
  <2>2. CASE r # c[1]
    <3>1. Live(f) /\ Live(g)
      BY <1>1, <1>2, <1>3, <2>2 DEF Live
    <3>2. QED BY <3>1 DEF OneLiveRunPerReport
  <2>3. QED BY <2>1, <2>2
<1>4. QED BY <1>1, <1>3 DEF OneLiveRunPerReport, Live

LEMMA FreeInvariant ==
  ASSUME MaxHold < TTL, MaxHold < TickTimeout
  PROVE  Spec => []Free
<1> USE ConstantsAssumption
<1>1. Init => Free
  <2> SUFFICES ASSUME Init PROVE Free
    OBVIOUS
  <2>1. \A f \in Runs : ~Live(f)
    BY DEF Init, Live, InFlight
  <2>2. QED
    BY <2>1, RunFacts DEF Init, Free, CandidatesFree, CurrentFree,
       ClaimedBeforeQueued, OneLiveRunPerReport
<1>2. TicksOK /\ TicksOK' /\ Lease /\ Free /\ [Next]_vars => Free'
  <2> SUFFICES ASSUME TicksOK, TicksOK', Lease, Free, [Next]_vars PROVE Free'
    OBVIOUS
  <2>1. ASSUME NEW t \in Ticks, Outer(t) PROVE Free'
    <3>1. /\ UNCHANGED <<row, flow, todo, current>>
          /\ \A b \in Ticks : pc'[b] \in {"claiming", "adding"} => pc'[b] = pc[b]
      BY <2>1 DEF Outer, Start, Release, ReleaseDel, ReleaseFails, LetGo, Goto, TicksOK
    <3>2. QED BY <3>1, QuietStep
  <2>2. ASSUME NEW t \in Ticks,
               \/ ObserveRead(t) \/ ObserveWrite(t) \/ SoftDisable(t)
               \/ Preflight(t) \/ ReadConfig(t) \/ CountSlots(t)
               \/ ScanFails(t) \/ ClaimFails(t) \/ CountEnqueueFailure(t)
        PROVE  Free'
    <3>1. UNCHANGED <<row, flow>> /\ pc'[t] \notin {"claiming", "adding"}
      BY <2>2 DEF ObserveRead, ObserveWrite, SoftDisable, Preflight, ReadConfig,
         CountSlots, ScanFails, ClaimFails, CountEnqueueFailure, Finish, Goto, TicksOK
    <3>2. Inner(t)
      BY <2>2 DEF Inner
    <3>3. QED BY <3>1, <3>2, InnerFrame, QuietStep
  <2>3. ASSUME NEW t \in Ticks, Select(t) PROVE Free'
    <3>1. UNCHANGED <<row, flow>> /\ pc[t] = "selecting" /\ pc'[t] # "adding"
      BY <2>3 DEF Select, Finish, Goto, TicksOK
    <3>2. pc'[t] = "claiming" => \A r \in todo'[t] : Selectable(r)
      BY <2>3 DEF Select, Finish, Goto, TicksOK
    <3>3. \A b \in Ticks : b # t => pc'[b] = pc[b] /\ pc[b] = "idle"
      BY <2>3, <3>1, InnerFrame, OneTickUnderWay DEF Inner
    <3>4. CandidatesFree'
      BY <3>1, <3>2, <3>3 DEF CandidatesFree, Selectable, Poison, Live
    <3>5. CurrentFree' /\ ClaimedBeforeQueued' /\ OneLiveRunPerReport'
      BY <3>1, <3>3 DEF CurrentFree, ClaimedBeforeQueued, OneLiveRunPerReport, Live, Free
    <3>6. QED BY <3>4, <3>5 DEF Free
  <2>4. ASSUME NEW t \in Ticks, Claim(t) PROVE Free'
    <3>1. PICK r \in todo[t] : \E f \in RunsOf(r) :
            /\ row' = [row EXCEPT ![f] = "running"]
            /\ current' = [current EXCEPT ![t] = f]
            /\ todo' = [todo EXCEPT ![t] = todo[t] \ {r}]
      BY <2>4 DEF Claim
    <3>2. PICK f \in RunsOf(r) :
            /\ row' = [row EXCEPT ![f] = "running"]
            /\ current' = [current EXCEPT ![t] = f]
            /\ todo' = [todo EXCEPT ![t] = todo[t] \ {r}]
      BY <3>1
    <3>3. flow' = flow /\ pc[t] = "claiming" /\ pc'[t] = "adding"
      BY <2>4 DEF Claim, Goto, TicksOK
    <3>4. r \in Reports /\ f \in Runs /\ f[1] = r
      BY RunFacts DEF TicksOK
    <3>5. \A b \in Ticks : b # t => pc'[b] = pc[b] /\ pc[b] = "idle"
      BY <2>4, <3>3, InnerFrame, OneTickUnderWay DEF Inner
    <3>6. /\ current'[t] = f /\ todo'[t] = todo[t] \ {r} /\ row'[f] = "running"
          /\ \A g \in Runs : g # f => row'[g] = row[g]
      BY <3>2, <3>4 DEF TicksOK
    <3>7. \A q \in todo[t] : \A g \in RunsOf(q) :
            ~Live(g) /\ row[g] \notin {"completed", "failed"}
      BY <3>3 DEF Free, CandidatesFree
    <3>8. \A g \in Runs : Live(g)' = Live(g)
      BY <3>3 DEF Live
    <3>9. \A q \in todo[t] \ {r} : \A g \in RunsOf(q) : g \in Runs /\ g # f
      BY <3>4, RunFacts DEF TicksOK
    <3>10. CandidatesFree'
      BY <3>5, <3>6, <3>7, <3>8, <3>9 DEF CandidatesFree
    <3>11. CurrentFree'
      BY <3>3, <3>4, <3>5, <3>6, <3>7 DEF CurrentFree, Live
    <3>12. OneLiveRunPerReport' /\ ClaimedBeforeQueued'
      BY <3>3, <3>6 DEF OneLiveRunPerReport, ClaimedBeforeQueued, Live, Free
    <3>13. QED BY <3>10, <3>11, <3>12 DEF Free
  <2>5. ASSUME NEW t \in Ticks, AddJob(t) \/ AddFails(t) PROVE Free'
    <3> DEFINE c == current[t]
    <3>1. /\ pc[t] = "adding" /\ pc'[t] # "adding"
          /\ pc'[t] = "claiming" => todo'[t] = todo[t] /\ row' = row
          /\ flow' \in {flow, [flow EXCEPT ![c] = "working"]}
      BY <2>5 DEF AddJob, AddFails, Finish, Goto, TicksOK
    <3>2. /\ c \in Runs /\ c[1] \in Reports /\ c[1] \notin todo[t]
          /\ \A f \in RunsOf(c[1]) : ~Live(f)
      BY <3>1, RunFacts DEF Free, CurrentFree
    <3>3. \A b \in Ticks : b # t => pc'[b] = pc[b] /\ pc[b] = "idle"
      BY <2>5, <3>1, InnerFrame, OneTickUnderWay DEF Inner
    <3>4. /\ OneLiveRunPerReport'
          /\ \A f \in Runs : f[1] # c[1] => Live(f)' = Live(f)
      BY <3>1, <3>2, FirstLiveRun DEF Free, OneLiveRunPerReport, Live
    <3>5. \A q \in todo[t] : q \in Reports /\ q # c[1]
      BY <3>2 DEF TicksOK
    <3>6. CandidatesFree'
      BY <3>1, <3>3, <3>4, <3>5, RunFacts DEF Free, CandidatesFree
    <3>7. CurrentFree'
      BY <3>1, <3>3 DEF CurrentFree
    <3>8. \A f \in Runs : row[f] # "none" => row'[f] # "none"
      <4>1. row' \in {row, [row EXCEPT ![c] = "failed"]}
        BY <2>5 DEF AddJob, AddFails
      <4>2. QED BY <3>2, <4>1 DEF TicksOK
    <3>9. ClaimedBeforeQueued'
      <4>1. row[c] # "none"
        BY <3>1 DEF Free, CurrentFree
      <4>2. \A f \in Runs : Live(f)' => Live(f) \/ f = c
        BY <3>1, <3>2 DEF Live, TicksOK
      <4>3. QED BY <3>8, <4>1, <4>2 DEF Free, ClaimedBeforeQueued
    <3>10. QED BY <3>4, <3>6, <3>7, <3>9 DEF Free
  <2>6. ASSUME NEW t \in Ticks, Crash(t) PROVE Free'
    <3>1. /\ UNCHANGED <<row, flow>> /\ pc'[t] = "idle"
          /\ \A b \in Ticks : b # t => pc'[b] = pc[b] /\ todo'[b] = todo[b]
                                       /\ current'[b] = current[b]
      BY <2>6 DEF Crash, TicksOK
    <3>2. QED BY <3>1, QuietStep
  <2>7. ASSUME NEW f \in Runs, Flow(f) PROVE Free'
    <3>1. UNCHANGED <<pc, todo, current>>
      BY <2>7 DEF Flow, FlowProgress, DoclingCompletes, FlowJobFails,
         FlowConcludes, FlowLost, Park, Resume, GrowStale, inner
    <3>2. \A g \in Runs : Live(g)' => Live(g)
      BY <2>7 DEF Flow, FlowProgress, DoclingCompletes, FlowJobFails,
         FlowConcludes, FlowLost, Park, Resume, GrowStale, Live, InFlight,
         Occupying, TicksOK
    <3>3. \A g \in Runs : row'[g] \in {"completed", "failed"} => row[g] = row'[g] \/ Live(g)
      BY <2>7 DEF Flow, FlowProgress, DoclingCompletes, FlowJobFails,
         FlowConcludes, FlowLost, Park, Resume, GrowStale, TicksOK
    <3>4. CandidatesFree'
      BY <3>1, <3>2, <3>3, RunFacts DEF Free, CandidatesFree, TicksOK
    <3>5. \A g \in Runs : row[g] # "none" => row'[g] # "none"
      BY <2>7 DEF Flow, FlowProgress, DoclingCompletes, FlowJobFails,
         FlowConcludes, FlowLost, Park, Resume, GrowStale, TicksOK
    <3>6. CurrentFree' /\ ClaimedBeforeQueued'
      BY <3>1, <3>2, <3>5, RunFacts DEF Free, CurrentFree, ClaimedBeforeQueued
    <3>7. OneLiveRunPerReport'
      BY <3>2, RunFacts DEF Free, OneLiveRunPerReport
    <3>8. QED BY <3>4, <3>6, <3>7 DEF Free
  <2>8. CASE PatchRead \/ PatchWrite \/ Clock \/ UNCHANGED vars
    <3>1. UNCHANGED <<pc, todo, current, row, flow>>
      BY <2>8 DEF PatchRead, PatchWrite, Clock, vars, inner
    <3>2. QED BY <3>1, QuietStep
  <2>9. QED
    BY <2>1, <2>2, <2>3, <2>4, <2>5, <2>6, <2>7, <2>8 DEF Next, Inner
<1>3. QED BY <1>1, <1>2, TypeCorrect, LeaseInvariant, PTL DEF Spec

(* For any number of ticks and reports, and any crashes, failing calls,      *)
(* approvals and staff changes: no report has two runs at work.              *)
THEOREM NoDoubleEnqueue ==
  ASSUME MaxHold < TTL, MaxHold < TickTimeout
  PROVE  Spec => []OneLiveRunPerReport
<1>1. Free => OneLiveRunPerReport
  BY DEF Free
<1>2. QED BY <1>1, FreeInvariant, PTL

(* A report with a completed or failed run is never started again.           *)
THEOREM ConcludedRest ==
  ASSUME MaxHold < TTL, MaxHold < TickTimeout
  PROVE  Spec => ConcludedReportsRest
<1> DEFINE Rests == \A r \in Reports :
       (\E f \in RunsOf(r) : row[f] \in {"completed", "failed"})
       => \A g \in RunsOf(r) : row[g] = "none" => row'[g] = "none"
<1>1. TicksOK /\ Free /\ [Next]_vars => [Rests]_row
  <2> SUFFICES ASSUME TicksOK, Free, [Next]_vars, row' # row,
                      NEW r \in Reports, NEW f \in RunsOf(r),
                      row[f] \in {"completed", "failed"},
                      NEW g \in RunsOf(r), row[g] = "none"
               PROVE  row'[g] = "none"
    OBVIOUS
  <2>1. g \in Runs /\ g[1] = r
    BY RunFacts
  <2> USE DEF TicksOK
  <2>2. ASSUME NEW t \in Ticks, Claim(t) PROVE row'[g] = "none"
    <3>1. PICK q \in todo[t] : \E h \in RunsOf(q) : row' = [row EXCEPT ![h] = "running"]
      BY <2>2 DEF Claim
    <3>2. PICK h \in RunsOf(q) : row' = [row EXCEPT ![h] = "running"]
      BY <3>1
    <3>3. q # r
      BY <2>2 DEF Claim, Free, CandidatesFree
    <3>4. h # g
      BY <2>1, <3>3, RunFacts
    <3>5. QED BY <2>1, <3>2, <3>4
  <2>3. ASSUME NEW t \in Ticks, AddFails(t) PROVE row'[g] = "none"
    <3>1. row' \in {row, [row EXCEPT ![current[t]] = "failed"]}
      BY <2>3 DEF AddFails
    <3>2. current[t] # g
      BY <2>3 DEF AddFails, Free, CurrentFree
    <3>3. QED BY <2>1, <3>1, <3>2
  <2>4. ASSUME NEW h \in Runs, Flow(h) PROVE row'[g] = "none"
    <3>1. row[h] # "none" /\ \A k \in Runs : k # h => row'[k] = row[k]
      BY <2>4 DEF Flow, FlowProgress, DoclingCompletes, FlowJobFails,
         FlowConcludes, FlowLost, Park, Resume, GrowStale, Free,
         ClaimedBeforeQueued, Occupying, InFlight, Live
    <3>2. QED BY <2>1, <3>1
  <2>5. QED
    <3>1. ASSUME NEW t \in Ticks, Outer(t) \/ Crash(t) PROVE row' = row
      BY <3>1 DEF Outer, Start, Release, ReleaseDel, ReleaseFails, Crash
    <3>2. ASSUME NEW t \in Ticks, Inner(t), ~Claim(t), ~AddFails(t) PROVE row' = row
      BY <3>2 DEF Inner, ObserveRead, ObserveWrite, SoftDisable, Preflight,
         ReadConfig, CountSlots, ScanFails, Select, ClaimFails, AddJob,
         CountEnqueueFailure
    <3>3. PatchRead \/ PatchWrite \/ Clock \/ UNCHANGED vars => row' = row
      BY DEF PatchRead, PatchWrite, Clock, vars
    <3>4. QED BY <2>2, <2>3, <2>4, <3>1, <3>2, <3>3 DEF Next
<1>2. QED BY <1>1, TypeCorrect, FreeInvariant, PTL DEF Spec, ConcludedReportsRest

-----------------------------------------------------------------------------
(* Folds of outcomes *)

\* Induction up to n: the numbers for which something holds are a set.
LEMMA UpTo ==
  ASSUME NEW n \in Nat, NEW G, 0 \in G, \A k \in 0 .. n - 1 : k \in G => k + 1 \in G
  PROVE  0 .. n \subseteq G
<1> DEFINE Bad == (0 .. n) \ G
           R == {p \in Nat \X Nat : p[1] < p[2]}
<1> SUFFICES ASSUME Bad # {} PROVE FALSE
  OBVIOUS
<1>1. IsWellFoundedOn(R, Nat)
  BY NatLessThanWellFounded DEF OpToRel
<1>2. PICK k \in Bad : \A j \in Bad : ~(<<j, k>> \in R)
  <2>1. Bad \subseteq Nat /\ Bad # {}
    OBVIOUS
  <2> HIDE DEF Bad, R
  <2>2. QED BY <1>1, <2>1, WFMin
<1>3. k # 0 /\ k - 1 \in 0 .. n - 1 /\ (k - 1) + 1 = k
  OBVIOUS
<1>4. k - 1 \notin G
  BY <1>3
<1>5. k - 1 \in Bad /\ k - 1 < k
  BY <1>3, <1>4
<1>6. <<k - 1, k>> \in R
  BY <1>3
<1> HIDE DEF R, Bad
<1>7. QED BY <1>2, <1>5, <1>6

\* A fold is a recursive function over the sets of positions, which takes the last one first.
IsFold(f, c, s, D) ==
  f = [S \in D |-> IF S = {} THEN c ELSE Count(f[S \ {Max(S)}], s[Max(S)])]
FoldOf(c, s) == CHOOSE f : IsFold(f, c, s, SUBSET DOMAIN s)
IsRowsFold(f, c, s, D) ==
  f = [S \in D |-> IF S = {} THEN c ELSE CountRows(f[S \ {Max(S)}], s[Max(S)])]
RowsFoldOf(c, s) == CHOOSE f : IsRowsFold(f, c, s, SUBSET DOMAIN s)

LEMMA FoldIs == ASSUME NEW c, NEW s PROVE FoldLeft(Count, c, s) = FoldOf(c, s)[DOMAIN s]
BY Zenon DEF FoldLeft, MapThenFoldSet, FoldOf, IsFold

LEMMA RowsFoldIs == ASSUME NEW c, NEW s PROVE FoldLeft(CountRows, c, s) = RowsFoldOf(c, s)[DOMAIN s]
BY Zenon DEF FoldLeft, MapThenFoldSet, RowsFoldOf, IsRowsFold

LEMMA LastIs == ASSUME NEW k \in Nat, NEW S \in SUBSET (1 .. k + 1), k + 1 \in S PROVE Max(S) = k + 1
<1>1. \E x \in S : \A y \in S : x >= y
  <2>1. \A y \in S : k + 1 >= y
    OBVIOUS
  <2>2. QED BY <2>1
<1>2. Max(S) \in S /\ \A y \in S : Max(S) >= y
  BY <1>1 DEF Max
<1>3. Max(S) \in 1 .. k + 1 /\ Max(S) >= k + 1
  BY <1>2
<1>4. \A x \in 1 .. k + 1 : x >= k + 1 => x = k + 1
  OBVIOUS
<1>5. QED BY <1>3, <1>4

\* That function exists: it is made for one position more at a time.
LEMMA FoldExists ==
  ASSUME NEW c, NEW s, NEW n \in Nat
  PROVE  \E f : IsFold(f, c, s, SUBSET (1 .. n))
<1> DEFINE G == {k \in Nat : \E f : IsFold(f, c, s, SUBSET (1 .. k))}
<1>1. 0 \in G
  <2>1. IsFold([S \in {{}} |-> c], c, s, {{}})
    BY DEF IsFold
  <2>2. SUBSET (1 .. 0) = {{}}
    OBVIOUS
  <2>3. QED BY <2>1, <2>2
<1>2. ASSUME NEW k \in 0 .. n - 1, k \in G PROVE k + 1 \in G
  <2>1. PICK f : IsFold(f, c, s, SUBSET (1 .. k))
    BY <1>2
  <2> DEFINE g == [S \in SUBSET (1 .. k + 1) |->
                     IF k + 1 \in S THEN Count(f[S \ {k + 1}], s[k + 1]) ELSE f[S]]
  <2>2. k \in Nat /\ k + 1 \in Nat /\ k + 1 \notin 1 .. k
    OBVIOUS
  <2>3. \A S \in SUBSET (1 .. k + 1) : k + 1 \notin S => S \in SUBSET (1 .. k)
    BY <2>2
  <2>4. \A S \in SUBSET (1 .. k) : S \in SUBSET (1 .. k + 1) /\ k + 1 \notin S /\ g[S] = f[S]
    BY <2>2
  <2>5. ASSUME NEW S \in SUBSET (1 .. k + 1)
        PROVE  g[S] = IF S = {} THEN c ELSE Count(g[S \ {Max(S)}], s[Max(S)])
    <3>1. CASE k + 1 \in S
      <4>1. Max(S) = k + 1
        BY <2>2, <3>1, LastIs
      <4>2. S \ {k + 1} \in SUBSET (1 .. k)
        BY <2>3
      <4>3. g[S \ {k + 1}] = f[S \ {k + 1}] /\ S # {} /\ g[S] = Count(f[S \ {k + 1}], s[k + 1])
        BY <2>4, <3>1, <4>2
      <4>4. QED BY <4>1, <4>3
    <3>2. CASE k + 1 \notin S
      <4>1. S \in SUBSET (1 .. k) /\ S \ {Max(S)} \in SUBSET (1 .. k)
        BY <2>3, <3>2
      <4>2. g[S] = f[S] /\ g[S \ {Max(S)}] = f[S \ {Max(S)}]
        BY <2>4, <4>1
      <4>3. f[S] = IF S = {} THEN c ELSE Count(f[S \ {Max(S)}], s[Max(S)])
        BY <2>1, <4>1 DEF IsFold
      <4>4. QED BY <4>2, <4>3
    <3>3. QED BY <3>1, <3>2
  <2>6. IsFold(g, c, s, SUBSET (1 .. k + 1))
    BY <2>5 DEF IsFold
  <2>7. QED BY <2>2, <2>6
<1> HIDE DEF G
<1>3. n \in G
  <2>1. 0 .. n \subseteq G
    BY <1>1, <1>2, UpTo
  <2>2. QED BY <2>1
<1>4. QED BY <1>3 DEF G

\* A worker process alone writes one row for an outcome.
LEMMA OneRow == ASSUME Replicas = 1, NEW c, NEW e PROVE CountRows(c, e) = Count(c, e)
<1> DEFINE s == Repeated(e)
<1>1. s = [i \in 1 .. 1 |-> e] /\ DOMAIN s = 1 .. 1 /\ s[1] = e
  BY DEF Repeated
<1>2. PICK g : IsFold(g, c, s, SUBSET (1 .. 1))
  BY FoldExists
<1>3. IsFold(FoldOf(c, s), c, s, SUBSET DOMAIN s)
  BY <1>1, <1>2 DEF FoldOf
<1> HIDE DEF s
<1>4. Max({1}) = 1 /\ {1} \ {1} = {} /\ 1 .. 1 = {1}
  BY LastIs
<1>5. FoldOf(c, s)[{}] = c /\ FoldOf(c, s)[{1}] = Count(FoldOf(c, s)[{}], s[1])
  <2> DEFINE f == FoldOf(c, s)
  <2>1. {} \in SUBSET DOMAIN s /\ {1} \in SUBSET DOMAIN s
    BY <1>1
  <2>2. IsFold(f, c, s, SUBSET DOMAIN s)
    BY <1>3
  <2> HIDE DEF f
  <2>3. \A S \in SUBSET DOMAIN s : f[S] = IF S = {} THEN c ELSE Count(f[S \ {Max(S)}], s[Max(S)])
    BY <2>2 DEF IsFold
  <2>4. f[{}] = c
    BY <2>1, <2>3
  <2>5. f[{1}] = Count(f[{1} \ {Max({1})}], s[Max({1})])
    BY <2>1, <2>3
  <2>6. QED BY <1>4, <2>4, <2>5 DEF f
<1>6. QED BY <1>1, <1>4, <1>5, FoldIs DEF CountRows, s

\* What the fold of a sequence is, by positions.
Through(f, k) == f[1 .. k]
Goes(f, c, s, n) ==
  /\ Through(f, 0) = c
  /\ \A k \in 0 .. n - 1 : Through(f, k + 1) = Count(Through(f, k), s[k + 1])
LEMMA Throughs ==
  ASSUME NEW c, NEW s, NEW n \in Nat, NEW f, IsFold(f, c, s, SUBSET (1 .. n))
  PROVE  Goes(f, c, s, n)
<1>1. Through(f, 0) = c
  <2>1. 1 .. 0 = {}
    OBVIOUS
  <2>2. QED BY <2>1 DEF IsFold, Through
<1>2. ASSUME NEW k \in 0 .. n - 1 PROVE Through(f, k + 1) = Count(Through(f, k), s[k + 1])
  <2> DEFINE S == 1 .. k + 1
  <2>0. \A j : /\ j \in S => j \in 1 .. n
               /\ j \in S /\ j # k + 1 <=> j \in 1 .. k
    OBVIOUS
  <2>1. S \in SUBSET (1 .. n) /\ S \in SUBSET (1 .. k + 1) /\ k + 1 \in S /\ S # {} /\ S \ {k + 1} = 1 .. k
    <3>1. S \ {k + 1} = 1 .. k
      BY <2>0
    <3>2. QED BY <2>0, <3>1
  <2>2. Max(S) = k + 1
    BY <2>1, LastIs
  <2> HIDE DEF S
  <2>3. f[S] = Count(f[S \ {k + 1}], s[k + 1])
    BY <2>1, <2>2 DEF IsFold
  <2>4. Through(f, k + 1) = f[S] /\ Through(f, k) = f[1 .. k]
    BY DEF Through, S
  <2>5. QED BY <2>1, <2>3, <2>4
<1>3. QED BY <1>1, <1>2 DEF Goes

\* With one worker process both folds of a sequence go through the same numbers.
LEMMA FoldGoes ==
  ASSUME Replicas = 1, NEW c, NEW s, NEW n \in Nat, DOMAIN s = 1 .. n
  PROVE  /\ FoldLeft(Count, c, s) = Through(FoldOf(c, s), n)
         /\ FoldLeft(CountRows, c, s) = FoldLeft(Count, c, s)
         /\ Goes(FoldOf(c, s), c, s, n)
<1>1. PICK h : IsFold(h, c, s, SUBSET (1 .. n))
  BY FoldExists
<1>2. \A D, f : IsRowsFold(f, c, s, D) <=> IsFold(f, c, s, D)
  BY OneRow DEF IsRowsFold, IsFold
<1> DEFINE f == FoldOf(c, s)
           g == RowsFoldOf(c, s)
<1>3. IsFold(f, c, s, SUBSET (1 .. n)) /\ IsFold(g, c, s, SUBSET (1 .. n))
  BY <1>1, <1>2 DEF FoldOf, RowsFoldOf
<1> HIDE DEF f, g
<1>4. Goes(f, c, s, n)
  BY <1>3, Throughs
<1>8. Goes(g, c, s, n)
  BY <1>3, Throughs
<1>5. Through(f, n) = Through(g, n)
  <2> DEFINE G == {k \in 0 .. n : Through(f, k) = Through(g, k)}
  <2>1. 0 \in G
    BY <1>4, <1>8 DEF Goes
  <2>2. ASSUME NEW k \in 0 .. n - 1, k \in G PROVE k + 1 \in G
    <3>1. Through(f, k + 1) = Count(Through(f, k), s[k + 1])
      BY <1>4 DEF Goes
    <3>2. Through(g, k + 1) = Count(Through(g, k), s[k + 1])
      BY <1>8 DEF Goes
    <3>3. k + 1 \in 0 .. n
      OBVIOUS
    <3>4. QED BY <2>2, <3>1, <3>2, <3>3
  <2> HIDE DEF G
  <2>3. 0 .. n \subseteq G
    BY <2>1, <2>2, UpTo
  <2>4. n \in G
    BY <2>3
  <2>5. QED BY <2>4 DEF G
<1>6. FoldLeft(Count, c, s) = Through(f, n) /\ FoldLeft(CountRows, c, s) = Through(g, n)
  BY FoldIs, RowsFoldIs DEF Through, f, g
<1>7. QED BY <1>4, <1>5, <1>6 DEF f

Outcomes == {"doclingFailed", "jobFailed", "doclingCompleted", "concluded"}

\* One outcome: what the counters hold, and one report failure more or less in them.
LEMMA CountIs ==
  ASSUME NEW c \in Counters, NEW d \in Counters, NEW e \in Outcomes
  PROVE  /\ Count(c, e) \in Counters
         /\ d.docling = c.docling => Count(d, e).docling = Count(c, e).docling
         /\ d.report <= c.report => Count(d, e).report <= Count(c, e).report
         /\ d.report <= c.report + 1 => Count(d, e).report <= Count(c, e).report + 1
<1> USE DEF Count, Counters, NoFailures, Outcomes
<1>1. CASE e = "doclingFailed"
  BY <1>1
<1>2. CASE e = "jobFailed"
  BY <1>2
<1>3. CASE e = "doclingCompleted"
  BY <1>3
<1>4. CASE e = "concluded"
  BY <1>4
<1>5. QED BY <1>1, <1>2, <1>3, <1>4

LEMMA FoldOfNone == ASSUME Replicas = 1, NEW c PROVE FoldLeft(Count, c, <<>>) = c
<1>1. DOMAIN <<>> = 1 .. 0 /\ 0 \in Nat
  OBVIOUS
<1> DEFINE s == <<>>
<1>2. DOMAIN s = 1 .. 0
  BY <1>1
<1> HIDE DEF s
<1>3. FoldLeft(Count, c, s) = c
  BY <1>1, <1>2, FoldGoes DEF Goes
<1>4. QED BY <1>3 DEF s

\* A fold of outcomes, and two of them from different counters.
LEMMA FoldTyped ==
  ASSUME Replicas = 1, NEW c \in Counters, NEW s \in Seq(Outcomes)
  PROVE  FoldLeft(Count, c, s) \in Counters
<1> DEFINE f == FoldOf(c, s)
           G == {k \in 0 .. Len(s) : Through(f, k) \in Counters}
<1>1. DOMAIN s = 1 .. Len(s) /\ Len(s) \in Nat /\ \A k \in 0 .. Len(s) - 1 : s[k + 1] \in Outcomes
  OBVIOUS
<1>2. FoldLeft(Count, c, s) = Through(f, Len(s)) /\ Goes(f, c, s, Len(s))
  BY <1>1, FoldGoes
<1> HIDE DEF f
<1>3. 0 \in G
  BY <1>1, <1>2 DEF Goes
<1>4. ASSUME NEW k \in 0 .. Len(s) - 1, k \in G PROVE k + 1 \in G
  <2>1. Through(f, k) \in Counters /\ s[k + 1] \in Outcomes
    BY <1>1, <1>4
  <2>2. Count(Through(f, k), s[k + 1]) \in Counters
    BY <2>1, CountIs
  <2>3. Through(f, k + 1) \in Counters /\ k + 1 \in 0 .. Len(s)
    BY <1>1, <1>2, <2>2 DEF Goes
  <2>4. QED BY <2>3
<1> HIDE DEF G
<1>5. 0 .. Len(s) \subseteq G
  BY <1>1, <1>3, <1>4, UpTo
<1>6. Len(s) \in G
  BY <1>1, <1>5
<1>7. QED BY <1>2, <1>6 DEF G

LEMMA FoldLike ==
  ASSUME Replicas = 1, NEW c \in Counters, NEW d \in Counters, NEW s \in Seq(Outcomes), NEW m \in {0, 1},
         d.docling = c.docling, d.report <= c.report + m
  PROVE  /\ FoldLeft(Count, d, s).docling = FoldLeft(Count, c, s).docling
         /\ FoldLeft(Count, d, s).report <= FoldLeft(Count, c, s).report + m
<1> DEFINE f == FoldOf(c, s)
           g == FoldOf(d, s)
           G == {k \in 0 .. Len(s) : /\ Through(f, k) \in Counters
                                     /\ Through(g, k) \in Counters
                                     /\ Through(g, k).docling = Through(f, k).docling
                                     /\ Through(g, k).report <= Through(f, k).report + m}
<1>1. DOMAIN s = 1 .. Len(s) /\ Len(s) \in Nat /\ \A k \in 0 .. Len(s) - 1 : s[k + 1] \in Outcomes
  OBVIOUS
<1>2. FoldLeft(Count, c, s) = Through(f, Len(s)) /\ Goes(f, c, s, Len(s))
  BY <1>1, FoldGoes
<1>3. FoldLeft(Count, d, s) = Through(g, Len(s)) /\ Goes(g, d, s, Len(s))
  BY <1>1, FoldGoes
<1> HIDE DEF f, g
<1>4. 0 \in G
  BY <1>1, <1>2, <1>3 DEF Goes
<1>5. ASSUME NEW k \in 0 .. Len(s) - 1, k \in G PROVE k + 1 \in G
  <2> DEFINE x == Through(f, k)
             y == Through(g, k)
             e == s[k + 1]
  <2>1. /\ x \in Counters /\ y \in Counters /\ e \in Outcomes
        /\ y.docling = x.docling /\ y.report <= x.report + m
    BY <1>1, <1>5
  <2>2. Through(f, k + 1) = Count(x, e) /\ Through(g, k + 1) = Count(y, e) /\ k + 1 \in 0 .. Len(s)
    BY <1>1, <1>2, <1>3 DEF Goes
  <2> HIDE DEF x, y, e
  <2>3. Count(x, e) \in Counters /\ Count(y, e) \in Counters
    BY <2>1, CountIs
  <2>4. Count(y, e).docling = Count(x, e).docling
    BY <2>1, CountIs
  <2>5. Count(y, e).report <= Count(x, e).report + m
    <3>1. x.report \in Nat /\ y.report \in Nat /\ Count(x, e).report \in Nat /\ Count(y, e).report \in Nat
      BY <2>1, <2>3 DEF Counters
    <3>2. CASE m = 0
      <4>1. y.report <= x.report
        BY <2>1, <3>1, <3>2
      <4>2. Count(y, e).report <= Count(x, e).report
        BY <2>1, <4>1, CountIs
      <4>3. QED BY <3>1, <3>2, <4>2
    <3>3. CASE m = 1
      <4>1. Count(y, e).report <= Count(x, e).report + 1
        BY <2>1, <3>3, CountIs
      <4>2. QED BY <3>3, <4>1
    <3>4. QED BY <3>2, <3>3
  <2>6. QED BY <2>2, <2>3, <2>4, <2>5
<1> HIDE DEF G
<1>6. 0 .. Len(s) \subseteq G
  BY <1>1, <1>4, <1>5, UpTo
<1>7. Len(s) \in G
  BY <1>1, <1>6
<1>8. QED BY <1>2, <1>3, <1>7 DEF G

\* One outcome more is folded last.
LEMMA FoldAppend ==
  ASSUME Replicas = 1, NEW c, NEW s \in Seq(Outcomes), NEW e \in Outcomes
  PROVE  FoldLeft(Count, c, Append(s, e)) = Count(FoldLeft(Count, c, s), e)
<1> DEFINE z == Append(s, e)
           f == FoldOf(c, s)
           g == FoldOf(c, z)
           n == Len(s)
           G == {k \in 0 .. n : Through(f, k) = Through(g, k)}
<1>1. DOMAIN s = 1 .. n /\ n \in Nat /\ DOMAIN z = 1 .. n + 1
  OBVIOUS
<1>2. z[n + 1] = e /\ \A k \in 0 .. n - 1 : z[k + 1] = s[k + 1]
  OBVIOUS
<1> HIDE DEF z, n
<1>3. FoldLeft(Count, c, s) = Through(f, n) /\ Goes(f, c, s, n)
  BY <1>1, FoldGoes
<1>4. FoldLeft(Count, c, z) = Through(g, n + 1) /\ Goes(g, c, z, n + 1)
  BY <1>1, FoldGoes
<1> HIDE DEF f, g
<1>5. 0 \in G
  BY <1>1, <1>3, <1>4 DEF Goes
<1>6. ASSUME NEW k \in 0 .. n - 1, k \in G PROVE k + 1 \in G
  <2>1. k \in 0 .. (n + 1) - 1 /\ k + 1 \in 0 .. n /\ Through(f, k) = Through(g, k) /\ z[k + 1] = s[k + 1]
    BY <1>1, <1>2, <1>6
  <2>2. Through(f, k + 1) = Count(Through(f, k), s[k + 1])
    BY <1>3 DEF Goes
  <2>3. Through(g, k + 1) = Count(Through(g, k), z[k + 1])
    BY <1>4, <2>1 DEF Goes
  <2>4. QED BY <2>1, <2>2, <2>3
<1> HIDE DEF G
<1>7. 0 .. n \subseteq G
  BY <1>1, <1>5, <1>6, UpTo
<1>8. n \in G /\ n \in 0 .. (n + 1) - 1
  BY <1>1, <1>7
<1>9. Through(g, n) = Through(f, n)
  BY <1>8 DEF G
<1>10. Through(g, n + 1) = Count(Through(g, n), e)
  BY <1>2, <1>4, <1>8 DEF Goes
<1>11. QED BY <1>3, <1>4, <1>9, <1>10 DEF z

-----------------------------------------------------------------------------
(* The counters account for the outcomes *)

\* Counters c, with the outcomes of ev later than n still to be counted, are the failures that
\* really came one after the other (a failed enqueue may be missing).
Accounts(c, n, ev, real) ==
  LET d == FoldLeft(Count, c, SubSeq(ev, n + 1, Len(ev)))
  IN d.docling = real.docling /\ d.report <= real.report

LEMMA LaterOutcomes ==
  ASSUME NEW ev \in Seq(Outcomes), NEW n \in 0 .. Len(ev)
  PROVE  /\ SubSeq(ev, n + 1, Len(ev)) \in Seq(Outcomes)
         /\ n = Len(ev) => SubSeq(ev, n + 1, Len(ev)) = <<>>
         /\ \A e \in Outcomes : LET z == Append(ev, e)
                                IN  SubSeq(z, n + 1, Len(z)) = Append(SubSeq(ev, n + 1, Len(ev)), e)
<1>1. Len(ev) \in Nat /\ \A i \in n + 1 .. Len(ev) : ev[i] \in Outcomes
  OBVIOUS
<1>2. /\ SubSeq(ev, n + 1, Len(ev)) \in Seq(Outcomes)
      /\ Len(SubSeq(ev, n + 1, Len(ev))) = Len(ev) - n
      /\ \A i \in 1 .. Len(ev) - n : SubSeq(ev, n + 1, Len(ev))[i] = ev[n + i]
  <2>1. /\ SubSeq(ev, n + 1, Len(ev)) \in Seq(Outcomes)
        /\ Len(SubSeq(ev, n + 1, Len(ev))) = IF n + 1 <= Len(ev) THEN Len(ev) - (n + 1) + 1 ELSE 0
        /\ \A i \in 1 .. Len(ev) - (n + 1) + 1 : SubSeq(ev, n + 1, Len(ev))[i] = ev[n + 1 + i - 1]
    <3>1. n + 1 \in Int /\ Len(ev) \in Int
      BY <1>1
    <3>2. QED BY <1>1, <3>1, SubSeqProperties
  <2>2. Len(ev) - (n + 1) + 1 = Len(ev) - n /\ \A i \in 1 .. Len(ev) - n : n + 1 + i - 1 = n + i
    BY <1>1
  <2>3. QED BY <1>1, <2>1, <2>2
<1>3. n = Len(ev) => SubSeq(ev, n + 1, Len(ev)) = <<>>
  BY <1>1, <1>2
<1>4. ASSUME NEW e \in Outcomes
      PROVE  SubSeq(Append(ev, e), n + 1, Len(Append(ev, e))) = Append(SubSeq(ev, n + 1, Len(ev)), e)
  <2> DEFINE z == Append(ev, e)
             s == SubSeq(ev, n + 1, Len(ev))
             u == SubSeq(z, n + 1, Len(z))
  <2>1. z \in Seq(Outcomes) /\ Len(z) = Len(ev) + 1 /\ z[Len(z)] = e /\ \A i \in 1 .. Len(ev) : z[i] = ev[i]
    BY <1>1
  <2> HIDE DEF z
  <2>2. /\ u \in Seq(Outcomes)
        /\ Len(u) = IF n + 1 <= Len(z) THEN Len(z) - (n + 1) + 1 ELSE 0
        /\ \A i \in 1 .. Len(z) - (n + 1) + 1 : u[i] = z[n + 1 + i - 1]
    <3>1. n + 1 \in Int /\ Len(z) \in Int /\ \A i \in n + 1 .. Len(z) : z[i] \in Outcomes
      BY <1>1, <2>1
    <3>2. QED BY <3>1, SubSeqProperties
  <2>3. Len(u) = Len(ev) - n + 1
    BY <1>1, <2>1, <2>2
  <2>4. \A i \in 1 .. Len(ev) - n + 1 : u[i] = z[n + i]
    <3>1. ASSUME NEW i \in 1 .. Len(ev) - n + 1 PROVE u[i] = z[n + i]
      <4>1. i \in 1 .. Len(z) - (n + 1) + 1 /\ n + 1 + i - 1 = n + i
        BY <1>1, <2>1
      <4>2. QED BY <2>2, <4>1
    <3>2. QED BY <3>1
  <2>5. s \in Seq(Outcomes) /\ Len(s) = Len(ev) - n /\ \A i \in 1 .. Len(ev) - n : s[i] = ev[n + i]
    BY <1>2
  <2> HIDE DEF s, u
  <2>6. Append(s, e) \in Seq(Outcomes) /\ Len(Append(s, e)) = Len(u)
    BY <2>3, <2>5
  <2>7. \A i \in 1 .. Len(u) : u[i] = Append(s, e)[i]
    <3>1. ASSUME NEW i \in 1 .. Len(u) PROVE u[i] = Append(s, e)[i]
      <4>1. CASE i = Len(ev) - n + 1
        <5>1. u[i] = z[n + i] /\ n + i = Len(z)
          BY <1>1, <2>1, <2>3, <2>4, <4>1
        <5>2. Append(s, e)[i] = e
          BY <2>5, <4>1
        <5>3. QED BY <2>1, <5>1, <5>2
      <4>2. CASE i # Len(ev) - n + 1
        <5>1. i \in 1 .. Len(ev) - n /\ n + i \in 1 .. Len(ev)
          BY <1>1, <2>3, <4>2
        <5>2. u[i] = z[n + i] /\ z[n + i] = ev[n + i] /\ s[i] = ev[n + i]
          BY <2>1, <2>3, <2>4, <2>5, <5>1
        <5>3. Append(s, e)[i] = s[i]
          BY <2>5, <5>1
        <5>4. QED BY <5>2, <5>3
      <4>3. QED BY <4>1, <4>2
    <3>2. QED BY <3>1
  <2>8. u = Append(s, e)
    BY <2>2, <2>6, <2>7, SeqEqual
  <2>9. QED BY <2>8 DEF u, s, z
<1>5. QED BY <1>2, <1>3, <1>4

LEMMA NothingLater ==
  ASSUME Replicas = 1, NEW c \in Counters, NEW ev \in Seq(Outcomes), NEW real
  PROVE  Accounts(c, Len(ev), ev, real) <=> c.docling = real.docling /\ c.report <= real.report
<1>1. Len(ev) \in 0 .. Len(ev)
  OBVIOUS
<1>2. SubSeq(ev, Len(ev) + 1, Len(ev)) = <<>>
  BY <1>1, LaterOutcomes
<1>3. FoldLeft(Count, c, SubSeq(ev, Len(ev) + 1, Len(ev))) = c
  BY <1>2, FoldOfNone
<1>4. QED BY <1>3 DEF Accounts

\* An outcome is recorded, an enqueue fails, staff reset the counters.
LEMMA AccountsGoOn ==
  ASSUME Replicas = 1, NEW ev \in Seq(Outcomes), NEW n \in 0 .. Len(ev), NEW c \in Counters,
         NEW real \in Counters
  PROVE  /\ \A e \in Outcomes : Accounts(c, n, ev, real) => Accounts(c, n, Append(ev, e), Count(real, e))
         /\ LET more == [real EXCEPT !.report = real.report + 1]
                one == [c EXCEPT !.report = c.report + 1]
            IN  Accounts(c, n, ev, real) => Accounts(c, n, ev, more) /\ Accounts(one, n, ev, more)
         /\ Accounts(c, n, ev, FoldLeft(Count, c, SubSeq(ev, n + 1, Len(ev))))
<1> DEFINE s == SubSeq(ev, n + 1, Len(ev))
           d == FoldLeft(Count, c, s)
           more == [real EXCEPT !.report = real.report + 1]
           one == [c EXCEPT !.report = c.report + 1]
<1>1. s \in Seq(Outcomes)
  BY LaterOutcomes
<1>2. \A e \in Outcomes : SubSeq(Append(ev, e), n + 1, Len(Append(ev, e))) = Append(s, e)
  BY LaterOutcomes
<1>3. Accounts(c, n, ev, real) <=> d.docling = real.docling /\ d.report <= real.report
  BY DEF Accounts
<1>4. Accounts(c, n, ev, more) <=> d.docling = more.docling /\ d.report <= more.report
  BY DEF Accounts
<1>5. Accounts(one, n, ev, more) <=> LET x == FoldLeft(Count, one, s)
                                     IN  x.docling = more.docling /\ x.report <= more.report
  BY DEF Accounts
<1>6. Accounts(c, n, ev, d) <=> d.docling = d.docling /\ d.report <= d.report
  BY DEF Accounts
<1>7. \A e \in Outcomes : Accounts(c, n, Append(ev, e), Count(real, e)) <=>
                            LET x == FoldLeft(Count, c, Append(s, e))
                            IN  x.docling = Count(real, e).docling /\ x.report <= Count(real, e).report
  BY <1>2 DEF Accounts
<1> HIDE DEF s
<1>8. d \in Counters
  BY <1>1, FoldTyped
<1>9. /\ one \in Counters /\ one.docling = c.docling /\ one.report <= c.report + 1
      /\ more \in Counters /\ more.docling = real.docling /\ more.report = real.report + 1
  BY DEF Counters
<1> HIDE DEF one, more
<1>10. FoldLeft(Count, one, s).docling = d.docling /\ FoldLeft(Count, one, s).report <= d.report + 1
  BY <1>1, <1>9, FoldLike
<1>11. FoldLeft(Count, one, s) \in Counters
  BY <1>1, <1>9, FoldTyped
<1>12. ASSUME NEW e \in Outcomes, Accounts(c, n, ev, real)
       PROVE  Accounts(c, n, Append(ev, e), Count(real, e))
  <2>1. FoldLeft(Count, c, Append(s, e)) = Count(d, e)
    BY <1>1, FoldAppend
  <2>2. d.docling = real.docling /\ d.report <= real.report
    BY <1>3, <1>12
  <2> HIDE DEF d
  <2>3. Count(d, e).docling = Count(real, e).docling /\ Count(d, e).report <= Count(real, e).report
    BY <1>8, <2>2, CountIs
  <2>4. QED BY <1>7, <2>1, <2>3
<1>13. ASSUME Accounts(c, n, ev, real) PROVE Accounts(c, n, ev, more) /\ Accounts(one, n, ev, more)
  <2>1. d.docling = real.docling /\ d.report <= real.report /\ d.report \in Nat /\ real.report \in Nat
    BY <1>3, <1>8, <1>13 DEF Counters
  <2> DEFINE x == FoldLeft(Count, one, s)
  <2>2. x.docling = d.docling /\ x.report <= d.report + 1 /\ x.report \in Nat
    BY <1>10, <1>11 DEF Counters
  <2>3. Accounts(one, n, ev, more) <=> x.docling = more.docling /\ x.report <= more.report
    BY <1>5
  <2> HIDE DEF x, d
  <2>4. x.report <= more.report /\ d.report <= more.report
    BY <1>9, <2>1, <2>2
  <2>5. QED BY <1>4, <1>9, <2>1, <2>2, <2>3, <2>4
<1>14. Accounts(c, n, ev, d)
  BY <1>6, <1>8 DEF Counters
<1>15. QED BY <1>12, <1>13, <1>14 DEF d, one, more, s

-----------------------------------------------------------------------------
(* The runs of the reports are finitely many *)

LEMMA FiniteRuns == IsFiniteSet(Runs)
<1>1. ASSUME NEW r \in Reports PROVE IsFiniteSet(RunsOf(r))
  <2> DEFINE f == [i \in 1 .. MaxRuns[r] |-> <<r, i>>]
  <2>1. MaxRuns[r] \in Nat
    BY ConstantsAssumption
  <2>2. f \in Surjection(1 .. MaxRuns[r], RunsOf(r))
    BY DEF Surjection, RunsOf
  <2>3. IsFiniteSet(1 .. MaxRuns[r])
    BY <2>1, FS_Interval
  <2> HIDE DEF f
  <2>4. QED BY <2>2, <2>3, FS_Surjection
<1> DEFINE Each == {RunsOf(r) : r \in Reports}
           g == [r \in Reports |-> RunsOf(r)]
<1>2. g \in Surjection(Reports, Each)
  BY DEF Surjection
<1>3. \A T \in Each : IsFiniteSet(T)
  BY <1>1
<1>4. UNION Each = Runs
  BY DEF Runs
<1> HIDE DEF g, Each
<1>5. IsFiniteSet(Each)
  BY <1>2, FS_Surjection, ConstantsAssumption
<1>6. QED BY <1>3, <1>4, <1>5, FS_UNION

\* The runs at work that no approval has held up.
Working(fl) == {f \in Runs : fl[f] = "working"}

LEMMA WorkingCounts ==
  ASSUME NEW fl, NEW gl
  PROVE  /\ Cardinality(Working(fl)) \in Nat
         /\ Working(gl) \subseteq Working(fl) => Cardinality(Working(gl)) <= Cardinality(Working(fl))
         /\ \A f : Working(gl) \subseteq Working(fl) \cup {f} =>
                     Cardinality(Working(gl)) <= Cardinality(Working(fl)) + 1
<1> DEFINE A == Working(fl)
           B == Working(gl)
<1>1. A \subseteq Runs /\ B \subseteq Runs
  BY DEF Working
<1> HIDE DEF A, B
<1>2. IsFiniteSet(A) /\ IsFiniteSet(B)
  BY <1>1, FiniteRuns, FS_Subset
<1>3. Cardinality(A) \in Nat /\ Cardinality(B) \in Nat
  BY <1>2, FS_CardinalityType
<1>4. B \subseteq A => Cardinality(B) <= Cardinality(A)
  BY <1>2, FS_Subset
<1>5. ASSUME NEW f, B \subseteq A \cup {f} PROVE Cardinality(B) <= Cardinality(A) + 1
  <2>1. IsFiniteSet(A \cup {f}) /\ Cardinality(A \cup {f}) <= Cardinality(A) + 1
    <3>1. Cardinality(A \cup {f}) = IF f \in A THEN Cardinality(A) ELSE Cardinality(A) + 1
      BY <1>2, FS_AddElement
    <3>2. IsFiniteSet(A \cup {f})
      BY <1>2, FS_AddElement
    <3>3. QED BY <1>3, <3>1, <3>2
  <2>2. Cardinality(B) <= Cardinality(A \cup {f}) /\ Cardinality(A \cup {f}) \in Nat
    BY <1>5, <2>1, FS_Subset, FS_CardinalityType
  <2>3. QED BY <1>3, <2>1, <2>2
<1>6. QED BY <1>3, <1>4, <1>5 DEF A, B

LEMMA ActiveCounts ==
  /\ Cardinality(Active) \in Nat
  /\ Cardinality(Working(flow)) <= Cardinality(Active)
<1>1. Active \subseteq Runs /\ Working(flow) \subseteq Active
  BY DEF Active, Working, Occupying
<1>2. IsFiniteSet(Active)
  BY <1>1, FiniteRuns, FS_Subset
<1>3. QED BY <1>1, <1>2, FS_Subset, FS_CardinalityType

LEMMA CandidatesCount ==
  ASSUME NEW S \in SUBSET Reports
  PROVE  Cardinality(S) \in Nat /\ \A r \in S : Cardinality(S \ {r}) = Cardinality(S) - 1
<1>1. IsFiniteSet(S)
  BY ConstantsAssumption, FS_Subset
<1>2. QED BY <1>1, FS_CardinalityType, FS_RemoveElement

-----------------------------------------------------------------------------
(* What the counters, the limits and the observations hold                   *)

Observation == [fails : Counters, through : Nat, enabled : BOOLEAN, real : Counters]

NumbersOK ==
  /\ events \in Seq(Outcomes)
  /\ streak \in Counters
  /\ config \in [enabled : BOOLEAN, paused : BOOLEAN, max : Limits, fails : Counters, through : Nat]
  /\ config.through \in 0 .. Len(events)
  /\ seen \in [Ticks -> Observation]
  /\ \A t \in Ticks : seen[t].through \in 0 .. Len(events)
  /\ cap \in [Ticks -> Nat]
  /\ room \in [Ticks -> Nat]
  /\ staff \in [busy : BOOLEAN, enabled : BOOLEAN]

LEMMA OneReportMore == ASSUME NEW c \in Counters PROVE [c EXCEPT !.report = c.report + 1] \in Counters
BY DEF Counters

\* A step of the inner part that changes only what one tick holds.
LEMMA NumbersAside ==
  ASSUME TicksOK, NumbersOK, NEW t \in Ticks,
         UNCHANGED <<events, streak, config, seen, cap, room, staff>> \/ Finish(t) \/ Crash(t),
         UNCHANGED <<events, streak, config, staff>>
  PROVE  NumbersOK'
<1> USE DEF NumbersOK, Observation
<1>1. CASE UNCHANGED <<events, streak, config, seen, cap, room, staff>>
  BY <1>1
<1>2. CASE ~UNCHANGED <<seen, cap, room>>
  <2>1. /\ seen' = [seen EXCEPT ![t] = NotObserved]
        /\ cap' = [cap EXCEPT ![t] = 0]
        /\ room' = [room EXCEPT ![t] = 0]
    BY <1>2 DEF Finish, Crash
  <2>2. NotObserved \in Observation /\ NotObserved.through = 0
    BY DEF NotObserved, NoFailures, Counters
  <2>3. Len(events) \in Nat
    OBVIOUS
  <2>4. seen' \in [Ticks -> Observation] /\ \A b \in Ticks : seen'[b].through \in 0 .. Len(events)
    BY <2>1, <2>2, <2>3
  <2>5. QED BY <2>1, <2>4
<1>3. QED BY <1>1, <1>2

LEMMA NumbersInvariant == ASSUME Replicas = 1 PROVE Spec => []NumbersOK
<1> USE ConstantsAssumption
<1>1. Init => NumbersOK
  <2> SUFFICES ASSUME Init PROVE NumbersOK
    OBVIOUS
  <2>1. NoFailures \in Counters /\ NotObserved \in Observation /\ NotObserved.through = 0
    BY DEF Observation, NotObserved, NoFailures, Counters
  <2>2. events \in Seq(Outcomes) /\ Len(events) = 0
    BY DEF Init
  <2>3. streak \in Counters /\ config.through = 0
    BY <2>1 DEF Init
  <2>4. config \in [enabled : BOOLEAN, paused : BOOLEAN, max : Limits, fails : Counters, through : Nat]
    <3>1. config \in [enabled : BOOLEAN, paused : {FALSE}, max : Limits, fails : {NoFailures}, through : {0}]
      BY DEF Init
    <3>2. {FALSE} \subseteq BOOLEAN /\ {NoFailures} \subseteq Counters /\ {0} \subseteq Nat
      BY <2>1
    <3> DEFINE C == config
    <3>3. /\ C = [enabled |-> C.enabled, paused |-> C.paused, max |-> C.max, fails |-> C.fails, through |-> C.through]
          /\ C.enabled \in BOOLEAN /\ C.paused \in {FALSE} /\ C.max \in Limits
          /\ C.fails \in {NoFailures} /\ C.through \in {0}
      BY <3>1
    <3> HIDE DEF C
    <3>4. C.paused \in BOOLEAN /\ C.fails \in Counters /\ C.through \in Nat
      BY <3>2, <3>3
    <3>5. C \in [enabled : BOOLEAN, paused : BOOLEAN, max : Limits, fails : Counters, through : Nat]
      BY <3>3, <3>4
    <3>6. QED BY <3>5 DEF C
  <2>5. seen \in [Ticks -> Observation] /\ \A t \in Ticks : seen[t].through = 0
    BY <2>1 DEF Init
  <2>6. QED BY <2>2, <2>3, <2>4, <2>5 DEF Init, NumbersOK
<1>2. TicksOK /\ NumbersOK /\ [Next]_vars => NumbersOK'
  <2> SUFFICES ASSUME TicksOK, NumbersOK, [Next]_vars PROVE NumbersOK'
    OBVIOUS
  <2>0. Len(events) \in Nat
    BY DEF NumbersOK
  <2>1. ASSUME NEW t \in Ticks, Outer(t) PROVE NumbersOK'
    <3>1. UNCHANGED <<events, streak, config, seen, cap, room, staff>>
      BY <2>1 DEF Outer, Start, Release, ReleaseDel, ReleaseFails
    <3>2. QED BY <3>1, NumbersAside
  <2>2. ASSUME NEW t \in Ticks, ObserveRead(t) PROVE NumbersOK'
    <3> DEFINE o == [fails |-> FoldLeft(CountRows, config.fails, Unseen), through |-> Len(events),
                     enabled |-> config.enabled, real |-> streak]
    <3>1. /\ seen' = [seen EXCEPT ![t] = o]
          /\ UNCHANGED <<events, streak, config, cap, room, staff>>
      BY <2>2 DEF ObserveRead
    <3>2. Unseen \in Seq(Outcomes)
      BY LaterOutcomes DEF NumbersOK, Unseen
    <3>3. DOMAIN Unseen = 1 .. Len(Unseen) /\ Len(Unseen) \in Nat
      BY <3>2
    <3>4. FoldLeft(CountRows, config.fails, Unseen) = FoldLeft(Count, config.fails, Unseen)
      BY <3>3, FoldGoes
    <3>5. FoldLeft(Count, config.fails, Unseen) \in Counters
      BY <3>2, FoldTyped DEF NumbersOK
    <3>6. o \in Observation /\ o.through = Len(events)
      BY <2>0, <3>4, <3>5 DEF NumbersOK, Observation
    <3> HIDE DEF o
    <3>7. seen' \in [Ticks -> Observation] /\ \A b \in Ticks : seen'[b].through \in 0 .. Len(events)
      BY <2>0, <3>1, <3>6 DEF NumbersOK
    <3>8. QED BY <3>1, <3>7 DEF NumbersOK
  <2>3. ASSUME NEW t \in Ticks, ObserveWrite(t) \/ SoftDisable(t) \/ Preflight(t) PROVE NumbersOK'
    <3>1. UNCHANGED <<events, streak, seen, cap, room, staff>>
      BY <2>3 DEF ObserveWrite, SoftDisable, Preflight
    <3>2. \/ config' = [config EXCEPT !.fails = seen[t].fails, !.through = seen[t].through]
          \/ \E b \in BOOLEAN : config' = [config EXCEPT !.paused = b]
          \/ config' = [config EXCEPT !.enabled = FALSE]
      BY <2>3 DEF ObserveWrite, SoftDisable, Preflight
    <3>3. seen[t].fails \in Counters /\ seen[t].through \in 0 .. Len(events) /\ seen[t].through \in Nat
      BY <2>0 DEF NumbersOK, Observation
    <3>4. /\ config' \in [enabled : BOOLEAN, paused : BOOLEAN, max : Limits, fails : Counters, through : Nat]
          /\ config'.through \in 0 .. Len(events)
      BY <3>2, <3>3 DEF NumbersOK
    <3>5. QED BY <3>1, <3>4 DEF NumbersOK
  <2>4. ASSUME NEW t \in Ticks, ReadConfig(t) PROVE NumbersOK'
    <3>1. CASE config.enabled /\ ~config.paused
      BY <2>4, <3>1 DEF ReadConfig, NumbersOK
    <3>2. CASE ~(config.enabled /\ ~config.paused)
      BY <2>4, <3>2, NumbersAside DEF ReadConfig
    <3>3. QED BY <3>1, <3>2
  <2>5. ASSUME NEW t \in Ticks, CountSlots(t) PROVE NumbersOK'
    <3>1. CASE Cardinality(Active) < cap[t]
      <4>1. cap[t] - Cardinality(Active) \in Nat
        BY <3>1, ActiveCounts DEF NumbersOK
      <4>2. /\ room' = [room EXCEPT ![t] = cap[t] - Cardinality(Active)]
            /\ UNCHANGED <<events, streak, config, seen, cap, staff>>
        BY <2>5, <3>1 DEF CountSlots
      <4>3. room' \in [Ticks -> Nat]
        BY <4>1, <4>2 DEF NumbersOK
      <4>4. QED BY <4>2, <4>3 DEF NumbersOK
    <3>2. CASE ~(Cardinality(Active) < cap[t])
      BY <2>5, <3>2, NumbersAside DEF CountSlots
    <3>3. QED BY <3>1, <3>2
  <2>6. ASSUME NEW t \in Ticks, ScanFails(t) \/ Crash(t) PROVE NumbersOK'
    <3>1. (Finish(t) \/ Crash(t)) /\ UNCHANGED <<events, streak, config, staff>>
      BY <2>6 DEF ScanFails, Crash
    <3>2. QED BY <3>1, NumbersAside
  <2>7. ASSUME NEW t \in Ticks, Select(t) \/ Claim(t) \/ ClaimFails(t) \/ AddJob(t) \/ AddFails(t)
        PROVE  NumbersOK'
    <3>1. /\ UNCHANGED <<events, streak, config, staff>>
          /\ Finish(t) \/ UNCHANGED <<seen, cap, room>>
      BY <2>7 DEF Select, Claim, ClaimFails, AddJob, AddFails
    <3>2. QED BY <3>1, NumbersAside
  <2>8. ASSUME NEW t \in Ticks, CountEnqueueFailure(t) PROVE NumbersOK'
    <3>1. /\ seen' = [seen EXCEPT ![t] = NotObserved]
          /\ cap' = [cap EXCEPT ![t] = 0]
          /\ room' = [room EXCEPT ![t] = 0]
          /\ UNCHANGED <<events, staff>>
      BY <2>8 DEF CountEnqueueFailure, Finish
    <3>2. NotObserved \in Observation /\ NotObserved.through = 0
      BY DEF NotObserved, NoFailures, Counters, Observation
    <3>3. seen' \in [Ticks -> Observation] /\ \A b \in Ticks : seen'[b].through \in 0 .. Len(events)
      BY <2>0, <3>1, <3>2 DEF NumbersOK
    <3>4. streak' \in Counters
      <4>1. streak' = [streak EXCEPT !.report = streak.report + 1]
        BY <2>8 DEF CountEnqueueFailure
      <4>2. QED BY <4>1, OneReportMore DEF NumbersOK
    <3>5. /\ config' \in [enabled : BOOLEAN, paused : BOOLEAN, max : Limits, fails : Counters, through : Nat]
          /\ config'.through = config.through
      <4>1. \/ config' = [config EXCEPT !.enabled = FALSE]
            \/ config' = [config EXCEPT !.fails.report = config.fails.report + 1]
        BY <2>8 DEF CountEnqueueFailure
      <4>2. [config.fails EXCEPT !.report = config.fails.report + 1] \in Counters
        <5>1. config.fails \in Counters
          BY DEF NumbersOK
        <5>2. QED BY <5>1, OneReportMore
      <4>3. QED BY <4>1, <4>2 DEF NumbersOK
    <3>6. QED BY <3>1, <3>3, <3>4, <3>5 DEF NumbersOK
  <2>9. ASSUME NEW f \in Runs, Flow(f) PROVE NumbersOK'
    <3>1. /\ UNCHANGED <<config, seen, cap, room, staff>>
          /\ \/ UNCHANGED <<events, streak>>
             \/ \E e \in Outcomes : Record(e)
      BY <2>9 DEF Flow, FlowProgress, DoclingCompletes, FlowJobFails, FlowConcludes, FlowLost, Park,
         Resume, GrowStale, inner, Outcomes
    <3>2. CASE UNCHANGED <<events, streak>>
      BY <3>1, <3>2 DEF NumbersOK
    <3>3. ASSUME NEW e \in Outcomes, Record(e) PROVE NumbersOK'
      <4>1. events' = Append(events, e) /\ streak' = Count(streak, e)
        BY <3>3 DEF Record
      <4>2. events' \in Seq(Outcomes) /\ Len(events') = Len(events) + 1
        BY <4>1 DEF NumbersOK
      <4>3. streak' \in Counters
        BY <4>1, CountIs DEF NumbersOK
      <4>4. \A n \in 0 .. Len(events) : n \in 0 .. Len(events')
        BY <2>0, <4>2
      <4>5. QED BY <3>1, <4>2, <4>3, <4>4 DEF NumbersOK
    <3>4. QED BY <3>1, <3>2, <3>3
  <2>10. CASE PatchRead
    BY <2>10 DEF PatchRead, NumbersOK, inner
  <2>11. CASE PatchWrite
    <3>1. Unseen \in Seq(Outcomes)
      BY LaterOutcomes DEF NumbersOK, Unseen
    <3>2. NoFailures \in Counters
      BY DEF NoFailures, Counters
    <3>3. FoldLeft(Count, NoFailures, Unseen) \in Counters
      BY <3>1, <3>2, FoldTyped
    <3>4. PICK on \in {TRUE, FALSE, staff.enabled}, max \in Limits, reset \in BOOLEAN :
       /\ config' = [config EXCEPT
                       !.enabled = on,
                       !.max = max,
                       !.paused = IF on /\ ~staff.enabled THEN FALSE ELSE @,
                       !.fails = IF reset THEN NoFailures ELSE @]
       /\ streak' = IF reset THEN FoldLeft(Count, NoFailures, Unseen) ELSE streak
      BY <2>11 DEF PatchWrite
    <3>5. /\ config' \in [enabled : BOOLEAN, paused : BOOLEAN, max : Limits, fails : Counters, through : Nat]
          /\ config'.through = config.through
      BY <3>2, <3>4 DEF NumbersOK
    <3>6. streak' \in Counters
      BY <3>3, <3>4 DEF NumbersOK
    <3>7. UNCHANGED <<events, seen, cap, room>> /\ staff' = [busy |-> FALSE, enabled |-> FALSE]
      BY <2>11 DEF PatchWrite, inner
    <3>8. QED BY <3>5, <3>6, <3>7 DEF NumbersOK
  <2>12. CASE Clock \/ UNCHANGED vars
    BY <2>12 DEF Clock, vars, inner, NumbersOK
  <2>13. QED
    BY <2>1, <2>2, <2>3, <2>4, <2>5, <2>6, <2>7, <2>8, <2>9, <2>10, <2>11, <2>12 DEF Next, Inner
<1>3. QED BY <1>1, <1>2, TypeCorrect, PTL DEF Spec

-----------------------------------------------------------------------------
(* The counters decide                                                       *)

\* A tick that has read the counters and not written them back holds what they would be now; one
\* that is past the switch-off has seen no streak of Docling failures; one that enqueues has room.
TickRight(t) ==
  /\ pc[t] = "counting" =>
       /\ Accounts(seen[t].fails, seen[t].through, events, streak)
       /\ seen[t].fails.docling = seen[t].real.docling
       /\ seen[t].fails.report <= seen[t].real.report
       /\ config.enabled => seen[t].enabled
  /\ pc[t] = "disabling" => seen[t].real.docling >= DoclingOff \/ seen[t].real.report >= ReportOff
  /\ pc[t] \in {"preflight", "reading"} => (config.enabled => seen[t].real.docling < DoclingOff)
  /\ pc[t] \in {"scanning"} \cup Enqueueing => seen[t].real.docling < DoclingOff
  /\ pc[t] = "selecting" => Cardinality(Working(flow)) + room[t] <= cap[t]
  /\ pc[t] = "claiming" => Cardinality(Working(flow)) + Cardinality(todo[t]) <= cap[t]
  /\ pc[t] = "adding" => Cardinality(Working(flow)) + Cardinality(todo[t]) + 1 <= cap[t]

Right ==
  /\ Accounts(config.fails, config.through, events, streak)
  /\ staff.busy => \A t \in Ticks : pc[t] = "idle"
  /\ \A t \in Ticks : TickRight(t)

\* The program counters at which nothing is claimed of a tick.
AtRest == {"idle", "observing", "failing", "finished"}

LEMMA RestIsRight == ASSUME NEW t \in Ticks, pc[t] \in AtRest PROVE TickRight(t)
BY DEF AtRest, TickRight, Enqueueing

\* A step of one tick: the others are idle, and so is staff.
LEMMA OthersRest ==
  ASSUME TicksOK, TicksOK', Lease, Right, NEW t \in Ticks, Inner(t), staff' = staff, TickRight(t)',
         Accounts(config.fails, config.through, events, streak)'
  PROVE  Right'
<1>1. pc[t] # "idle" /\ \A b \in Ticks : b # t => pc'[b] = pc[b]
  BY InnerFrame
<1>2. ASSUME NEW b \in Ticks, b # t PROVE TickRight(b)'
  <2>1. pc[b] = "idle"
    BY <1>1, <1>2, OneTickUnderWay
  <2>2. pc'[b] = "idle"
    BY <1>1, <1>2, <2>1
  <2>3. QED BY <2>2, RestIsRight DEF TickRight, Enqueueing
<1>3. ~staff.busy
  BY <1>1 DEF Right
<1>4. QED BY <1>2, <1>3 DEF Right


\* Steps that touch neither the counters nor what a tick has seen.
LEMMA CalmStep ==
  ASSUME TicksOK, NumbersOK, Right, UNCHANGED <<config, events, streak, staff>>,
         Working(flow') \subseteq Working(flow),
         \A t \in Ticks :
            \/ pc'[t] \in AtRest /\ (staff.busy => pc'[t] = "idle")
            \/ pc'[t] = pc[t] /\ seen'[t] = seen[t] /\ cap'[t] = cap[t] /\ room'[t] = room[t] /\ todo'[t] = todo[t]
  PROVE  Right'
<1>1. Accounts(config.fails, config.through, events, streak)'
  BY DEF Right
<1>2. ASSUME NEW t \in Ticks PROVE TickRight(t)' /\ (staff.busy => pc'[t] = "idle")
  <2>1. CASE pc'[t] \in AtRest /\ (staff.busy => pc'[t] = "idle")
    BY <2>1 DEF AtRest, TickRight, Enqueueing
  <2>2. CASE /\ pc'[t] = pc[t] /\ seen'[t] = seen[t] /\ cap'[t] = cap[t]
             /\ room'[t] = room[t] /\ todo'[t] = todo[t]
    <3> DEFINE w == Cardinality(Working(flow))
               v == Cardinality(Working(flow'))
               k == Cardinality(todo[t])
    <3>1. w \in Nat /\ v \in Nat /\ v <= w /\ k \in Nat /\ cap[t] \in Nat /\ room[t] \in Nat
      <4>1. todo[t] \in SUBSET Reports
        BY DEF TicksOK
      <4>2. QED BY <4>1, WorkingCounts, CandidatesCount DEF NumbersOK
    <3>2. /\ pc[t] = "selecting" => w + room[t] <= cap[t]
          /\ pc[t] = "claiming" => w + k <= cap[t]
          /\ pc[t] = "adding" => w + k + 1 <= cap[t]
      BY DEF Right, TickRight
    <3> HIDE DEF w, v, k
    <3>3. /\ pc[t] = "selecting" => v + room[t] <= cap[t]
          /\ pc[t] = "claiming" => v + k <= cap[t]
          /\ pc[t] = "adding" => v + k + 1 <= cap[t]
      BY <3>1, <3>2
    <3>4. TickRight(t)'
      BY <2>2, <3>3 DEF Right, TickRight, v, k
    <3>5. QED BY <2>2, <3>4 DEF Right
  <2>3. QED BY <2>1, <2>2
<1>3. QED BY <1>1, <1>2 DEF Right

LEMMA RightInvariant ==
  ASSUME MaxHold < TTL, MaxHold < TickTimeout, Replicas = 1, ~PatchesRace
  PROVE  Spec => []Right
<1> USE ConstantsAssumption
<1>1. Init => Right
  <2> SUFFICES ASSUME Init PROVE Right
    OBVIOUS
  <2>1. NoFailures \in Counters /\ events \in Seq(Outcomes) /\ Len(events) = 0
    BY DEF Init, NoFailures, Counters
  <2>2. config.fails = NoFailures /\ config.through = Len(events) /\ streak = NoFailures
    BY <2>1 DEF Init
  <2>3. Accounts(config.fails, config.through, events, streak)
    <3>1. NoFailures.report <= NoFailures.report
      BY <2>1 DEF Counters
    <3>2. Accounts(NoFailures, Len(events), events, NoFailures)
      BY <2>1, <3>1, NothingLater
    <3>3. QED BY <2>2, <3>2
  <2>4. \A t \in Ticks : pc[t] = "idle"
    BY DEF Init
  <2>5. QED BY <2>3, <2>4, RestIsRight DEF Right, AtRest
<1>2. TicksOK /\ TicksOK' /\ Lease /\ NumbersOK /\ NumbersOK' /\ Right /\ [Next]_vars => Right'
  <2> SUFFICES ASSUME TicksOK, TicksOK', Lease, NumbersOK, NumbersOK', Right, [Next]_vars PROVE Right'
    OBVIOUS
  <2>1. ASSUME NEW t \in Ticks, Outer(t) PROVE Right'
    <3>1. UNCHANGED <<config, events, streak, staff, seen, cap, room, todo, flow>>
      BY <2>1 DEF Outer, Start, Release, ReleaseDel, ReleaseFails
    <3>2. CASE Start(t)
      <4>1. ~staff.busy /\ pc' = [pc EXCEPT ![t] = "observing"]
        BY <3>2 DEF Start, Goto
      <4>2. \A b \in Ticks : pc'[b] = "observing" \/ pc'[b] = pc[b]
        BY <4>1 DEF TicksOK
      <4>3. QED BY <3>1, <4>1, <4>2, CalmStep DEF AtRest
    <3>3. CASE Release(t) \/ ReleaseDel(t) \/ ReleaseFails(t)
      <4>1. \A b \in Ticks : pc'[b] = "idle" \/ pc'[b] = pc[b]
        BY <3>3 DEF Release, ReleaseDel, ReleaseFails, LetGo, TicksOK
      <4>2. QED BY <3>1, <4>1, CalmStep DEF AtRest
    <3>4. QED BY <2>1, <3>2, <3>3 DEF Outer
  <2>2. ASSUME NEW t \in Ticks, Crash(t) PROVE Right'
    <3>1. UNCHANGED <<config, events, streak, staff, flow>>
      BY <2>2 DEF Crash
    <3>2. /\ pc'[t] = "idle"
          /\ \A b \in Ticks : b # t => /\ pc'[b] = pc[b] /\ seen'[b] = seen[b] /\ cap'[b] = cap[b]
                                       /\ room'[b] = room[b] /\ todo'[b] = todo[b]
      BY <2>2 DEF Crash, TicksOK, NumbersOK
    <3>3. QED BY <3>1, <3>2, CalmStep DEF AtRest
  <2>3. ASSUME NEW t \in Ticks, ObserveRead(t) PROVE Right'
    <3>1. /\ UNCHANGED <<config, events, streak, staff>> /\ Inner(t)
          /\ pc'[t] = "counting"
          /\ seen'[t] = [fails |-> FoldLeft(CountRows, config.fails, Unseen), through |-> Len(events),
                         enabled |-> config.enabled, real |-> streak]
      BY <2>3 DEF ObserveRead, Goto, TicksOK, NumbersOK, Inner
    <3> DEFINE d == FoldLeft(Count, config.fails, Unseen)
    <3>2. Unseen \in Seq(Outcomes)
      BY LaterOutcomes DEF NumbersOK, Unseen
    <3>3. DOMAIN Unseen = 1 .. Len(Unseen) /\ Len(Unseen) \in Nat
      BY <3>2
    <3>4. /\ seen'[t].fails = d /\ seen'[t].through = Len(events)
          /\ seen'[t].enabled = config.enabled /\ seen'[t].real = streak
      BY <3>1, <3>3, FoldGoes
    <3>5. d \in Counters /\ d.docling = streak.docling /\ d.report <= streak.report
      BY <3>2, FoldTyped DEF NumbersOK, Right, Accounts, Unseen
    <3> HIDE DEF d
    <3>6. Accounts(d, Len(events), events, streak)
      BY <3>5, NothingLater DEF NumbersOK
    <3>7. TickRight(t)'
      BY <3>1, <3>4, <3>5, <3>6 DEF TickRight, Enqueueing
    <3>8. Accounts(config.fails, config.through, events, streak)'
      BY <3>1 DEF Right
    <3>9. QED BY <3>1, <3>7, <3>8, OthersRest
  <2>4. ASSUME NEW t \in Ticks, ObserveWrite(t) PROVE Right'
    <3>1. /\ UNCHANGED <<seen, events, streak, staff>> /\ Inner(t) /\ pc[t] = "counting"
          /\ config' = [config EXCEPT !.fails = seen[t].fails, !.through = seen[t].through]
          /\ pc'[t] = IF /\ seen[t].enabled
                        /\ \/ seen[t].fails.docling >= DoclingOff
                           \/ seen[t].fails.report >= ReportOff
                     THEN "disabling" ELSE "preflight"
      BY <2>4 DEF ObserveWrite, Goto, TicksOK, Inner
    <3>2. /\ config'.fails = seen[t].fails /\ config'.through = seen[t].through
          /\ config'.enabled = config.enabled
      BY <3>1 DEF NumbersOK
    <3>3. /\ Accounts(seen[t].fails, seen[t].through, events, streak)
          /\ seen[t].fails.docling = seen[t].real.docling
          /\ seen[t].fails.report <= seen[t].real.report
          /\ config.enabled => seen[t].enabled
      BY <3>1 DEF Right, TickRight
    <3>4. seen[t].fails \in Counters /\ seen[t].real \in Counters
      BY DEF NumbersOK, Observation
    <3>5. TickRight(t)'
      <4>1. CASE pc'[t] = "disabling"
        <5>1. seen[t].real.docling >= DoclingOff \/ seen[t].real.report >= ReportOff
          BY <3>1, <3>3, <3>4, <4>1 DEF Counters
        <5>2. QED BY <3>1, <4>1, <5>1 DEF TickRight, Enqueueing
      <4>2. CASE pc'[t] = "preflight"
        <5>1. config.enabled => seen[t].real.docling < DoclingOff
          BY <3>1, <3>3, <3>4, <4>2 DEF Counters
        <5>2. QED BY <3>1, <3>2, <4>2, <5>1 DEF TickRight, Enqueueing
      <4>3. QED BY <3>1, <4>1, <4>2
    <3>6. Accounts(config.fails, config.through, events, streak)'
      BY <3>1, <3>2, <3>3
    <3>7. QED BY <3>1, <3>5, <3>6, OthersRest
  <2>5. ASSUME NEW t \in Ticks, SoftDisable(t) \/ Preflight(t) PROVE Right'
    <3>1. UNCHANGED <<seen, events, streak, staff>> /\ Inner(t)
      BY <2>5 DEF SoftDisable, Preflight, Inner
    <3>2. config'.fails = config.fails /\ config'.through = config.through
      BY <2>5 DEF SoftDisable, Preflight, NumbersOK
    <3>3. \/ pc'[t] = "preflight" /\ ~config'.enabled
          \/ pc[t] = "preflight" /\ pc'[t] = "reading" /\ config'.enabled = config.enabled
      <4>1. CASE SoftDisable(t)
        <5>1. config' = [config EXCEPT !.enabled = FALSE] /\ pc' = [pc EXCEPT ![t] = "preflight"]
          BY <4>1 DEF SoftDisable, Goto
        <5>2. ~config'.enabled /\ pc'[t] = "preflight"
          BY <5>1 DEF NumbersOK, TicksOK
        <5>3. QED BY <5>2
      <4>2. CASE Preflight(t)
        <5>1. /\ pc[t] = "preflight" /\ pc' = [pc EXCEPT ![t] = "reading"]
              /\ \E b \in BOOLEAN : config' = [config EXCEPT !.paused = ~b]
          BY <4>2 DEF Preflight, Goto
        <5>2. pc'[t] = "reading"
          BY <5>1 DEF TicksOK
        <5>3. config'.enabled = config.enabled
          BY <5>1 DEF NumbersOK
        <5>4. QED BY <5>1, <5>2, <5>3
      <4>3. QED BY <2>5, <4>1, <4>2
    <3>4. TickRight(t)'
      BY <3>1, <3>3 DEF TickRight, Enqueueing, Right
    <3>5. Accounts(config.fails, config.through, events, streak)'
      BY <3>1, <3>2 DEF Right
    <3>6. QED BY <3>1, <3>4, <3>5, OthersRest
  <2>6. ASSUME NEW t \in Ticks, ReadConfig(t) \/ CountSlots(t) \/ Select(t) \/ Claim(t) \/ AddJob(t)
                              \/ ScanFails(t) \/ ClaimFails(t) \/ AddFails(t)
        PROVE  Right'
    <3>1. UNCHANGED <<config, events, streak, staff>> /\ Inner(t)
      BY <2>6 DEF ReadConfig, CountSlots, Select, Claim, AddJob, ScanFails, ClaimFails, AddFails, Inner
    <3>2. Accounts(config.fails, config.through, events, streak)'
      BY <3>1 DEF Right
    <3>3. ASSUME pc'[t] \in AtRest PROVE TickRight(t)'
      BY <3>3 DEF AtRest, TickRight, Enqueueing
    <3>4. ASSUME Finish(t) PROVE pc'[t] \in AtRest
      BY <3>4 DEF Finish, Goto, AtRest, TicksOK
    <3>5. CASE ReadConfig(t)
      <4>1. CASE Finish(t)
        BY <3>3, <3>4, <4>1, <3>1, <3>2, OthersRest
      <4>2. CASE ~Finish(t)
        <5>1. config.enabled /\ pc[t] = "reading" /\ pc'[t] = "scanning" /\ seen' = seen
          BY <3>5, <4>2 DEF ReadConfig, Goto, TicksOK
        <5>2. TickRight(t)'
          BY <5>1 DEF TickRight, Enqueueing, Right
        <5>3. QED BY <5>2, <3>1, <3>2, OthersRest
      <4>3. QED BY <4>1, <4>2
    <3>6. CASE CountSlots(t)
      <4>1. CASE Finish(t)
        BY <3>3, <3>4, <4>1, <3>1, <3>2, OthersRest
      <4>2. CASE ~Finish(t)
        <5>1. /\ pc[t] = "scanning" /\ pc'[t] = "selecting" /\ UNCHANGED <<seen, cap, flow>>
              /\ room'[t] = cap[t] - Cardinality(Active)
          BY <3>6, <4>2 DEF CountSlots, Goto, TicksOK, NumbersOK
        <5>2. Cardinality(Working(flow)) + room'[t] <= cap[t]
          <6>1. /\ Cardinality(Active) \in Nat /\ Cardinality(Working(flow)) \in Nat
                /\ Cardinality(Working(flow)) <= Cardinality(Active) /\ cap[t] \in Nat
            BY ActiveCounts, WorkingCounts DEF NumbersOK
          <6>2. QED BY <5>1, <6>1
        <5>3. TickRight(t)'
          BY <5>1, <5>2 DEF TickRight, Enqueueing, Right
        <5>4. QED BY <5>3, <3>1, <3>2, OthersRest
      <4>3. QED BY <4>1, <4>2
    <3>7. CASE Select(t)
      <4>1. PICK some \in SUBSET {r \in Reports : Selectable(r)} :
              /\ Cardinality(some) <= room[t]
              /\ IF some # {}
                 THEN /\ todo' = [todo EXCEPT ![t] = some]
                      /\ Goto(t, "claiming")
                      /\ UNCHANGED <<seen, cap, room, current>>
                 ELSE Finish(t)
        BY <3>7 DEF Select
      <4>2. CASE some = {}
        BY <3>3, <3>4, <4>1, <4>2, <3>1, <3>2, OthersRest
      <4>3. CASE some # {}
        <5>1. /\ pc[t] = "selecting" /\ pc'[t] = "claiming" /\ UNCHANGED <<seen, cap, flow>>
              /\ todo'[t] = some
          BY <3>7, <4>1, <4>3 DEF Select, Goto, TicksOK
        <5>2. Cardinality(Working(flow)) + Cardinality(some) <= cap[t]
          <6>1. some \in SUBSET Reports
            OBVIOUS
          <6>2. /\ Cardinality(some) \in Nat /\ Cardinality(Working(flow)) \in Nat
                /\ cap[t] \in Nat /\ room[t] \in Nat
            BY <6>1, CandidatesCount, WorkingCounts DEF NumbersOK
          <6>3. Cardinality(Working(flow)) + room[t] <= cap[t]
            BY <5>1 DEF Right, TickRight
          <6>4. QED BY <4>1, <6>2, <6>3
        <5>3. TickRight(t)'
          BY <5>1, <5>2 DEF TickRight, Enqueueing, Right
        <5>4. QED BY <5>3, <3>1, <3>2, OthersRest
      <4>4. QED BY <4>2, <4>3
    <3>8. CASE Claim(t)
      <4>1. PICK r \in todo[t] : todo' = [todo EXCEPT ![t] = todo[t] \ {r}]
        BY <3>8 DEF Claim
      <4>2. /\ pc[t] = "claiming" /\ pc'[t] = "adding" /\ UNCHANGED <<seen, cap, flow>>
            /\ todo'[t] = todo[t] \ {r} /\ todo[t] \in SUBSET Reports
        BY <3>8, <4>1 DEF Claim, Goto, TicksOK
      <4>3. /\ Cardinality(todo[t]) \in Nat /\ Cardinality(todo[t] \ {r}) = Cardinality(todo[t]) - 1
            /\ Cardinality(Working(flow)) \in Nat /\ cap[t] \in Nat
        BY <4>1, <4>2, CandidatesCount, WorkingCounts DEF NumbersOK
      <4>4. Cardinality(Working(flow)) + Cardinality(todo[t]) <= cap[t]
        BY <4>2 DEF Right, TickRight
      <4>5. Cardinality(Working(flow)) + Cardinality(todo[t] \ {r}) + 1 <= cap[t]
        BY <4>3, <4>4
      <4>6. TickRight(t)'
        BY <4>2, <4>5 DEF TickRight, Enqueueing, Right
      <4>7. QED BY <4>6, <3>1, <3>2, OthersRest
    <3>9. CASE AddJob(t)
      <4>1. CASE todo[t] = {}
        BY <3>3, <3>4, <3>9, <4>1, <3>1, <3>2, OthersRest DEF AddJob
      <4>2. CASE todo[t] # {}
        <5>1. /\ pc[t] = "adding" /\ pc'[t] = "claiming" /\ UNCHANGED <<seen, cap, todo>>
              /\ flow' = [flow EXCEPT ![current[t]] = "working"] /\ todo[t] \in SUBSET Reports
          BY <3>9, <4>2 DEF AddJob, Goto, TicksOK
        <5>2. Cardinality(Working(flow')) + Cardinality(todo[t]) <= cap[t]
          <6>1. Working(flow') \subseteq Working(flow) \cup {current[t]}
            BY <5>1 DEF Working, TicksOK
          <6>2. /\ Cardinality(todo[t]) \in Nat /\ Cardinality(Working(flow)) \in Nat /\ cap[t] \in Nat
                /\ Cardinality(Working(flow')) \in Nat
                /\ Cardinality(Working(flow')) <= Cardinality(Working(flow)) + 1
            BY <5>1, <6>1, CandidatesCount, WorkingCounts DEF NumbersOK
          <6>3. Cardinality(Working(flow)) + Cardinality(todo[t]) + 1 <= cap[t]
            BY <5>1 DEF Right, TickRight
          <6>4. QED BY <6>2, <6>3
        <5>3. TickRight(t)'
          BY <5>1, <5>2 DEF TickRight, Enqueueing, Right
        <5>4. QED BY <5>3, <3>1, <3>2, OthersRest
      <4>3. QED BY <4>1, <4>2
    <3>10. CASE ScanFails(t) \/ ClaimFails(t) \/ AddFails(t)
      <4>1. pc'[t] \in AtRest
        BY <3>4, <3>10 DEF ScanFails, ClaimFails, AddFails, Goto, AtRest, TicksOK
      <4>2. QED BY <3>3, <4>1, <3>1, <3>2, OthersRest
    <3>11. QED BY <2>6, <3>5, <3>6, <3>7, <3>8, <3>9, <3>10
  <2>7. ASSUME NEW t \in Ticks, CountEnqueueFailure(t) PROVE Right'
    <3>1. /\ UNCHANGED <<events, staff>> /\ Inner(t) /\ Finish(t)
          /\ streak' = [streak EXCEPT !.report = streak.report + 1]
          /\ \/ config' = [config EXCEPT !.enabled = FALSE]
             \/ config' = [config EXCEPT !.fails.report = config.fails.report + 1]
      BY <2>7 DEF CountEnqueueFailure, Inner
    <3>2. /\ config'.fails = config.fails \/ config'.fails = [config.fails EXCEPT !.report = config.fails.report + 1]
          /\ config'.through = config.through
      BY <3>1 DEF NumbersOK
    <3>3. Accounts(config.fails, config.through, events, streak)
      BY DEF Right
    <3>4. /\ events \in Seq(Outcomes) /\ config.through \in 0 .. Len(events)
          /\ config.fails \in Counters /\ streak \in Counters
      BY DEF NumbersOK
    <3>5. /\ Accounts(config.fails, config.through, events, streak')
          /\ Accounts([config.fails EXCEPT !.report = config.fails.report + 1], config.through, events, streak')
      BY <3>1, <3>3, <3>4, AccountsGoOn
    <3>6. Accounts(config.fails, config.through, events, streak)'
      BY <3>1, <3>2, <3>5
    <3>7. pc'[t] \in AtRest
      BY <3>1 DEF Finish, Goto, AtRest, TicksOK
    <3>8. TickRight(t)'
      BY <3>7 DEF AtRest, TickRight, Enqueueing
    <3>9. QED BY <3>1, <3>6, <3>8, OthersRest
  <2>8. ASSUME NEW f \in Runs, Flow(f) PROVE Right'
    <3>1. UNCHANGED <<config, staff, pc, seen, cap, room, todo>>
      BY <2>8 DEF Flow, FlowProgress, DoclingCompletes, FlowJobFails, FlowConcludes, FlowLost, Park,
         Resume, GrowStale, inner
    <3>2. Working(flow') \subseteq Working(flow)
      <4>1. \A g \in Runs : flow'[g] = "working" => flow[g] = "working"
        BY <2>8 DEF Flow, FlowProgress, DoclingCompletes, FlowJobFails, FlowConcludes, FlowLost, Park,
           Resume, GrowStale, TicksOK
      <4>2. QED BY <4>1 DEF Working
    <3>3. UNCHANGED <<events, streak>> \/ \E e \in Outcomes : Record(e)
      BY <2>8 DEF Flow, FlowProgress, DoclingCompletes, FlowJobFails, FlowConcludes, FlowLost, Park,
         Resume, GrowStale, Outcomes
    <3>4. CASE UNCHANGED <<events, streak>>
      BY <3>1, <3>2, <3>4, CalmStep
    <3>5. ASSUME NEW e \in Outcomes, Record(e) PROVE Right'
      <4>1. events' = Append(events, e) /\ streak' = Count(streak, e)
        BY <3>5 DEF Record
      <4>2. events \in Seq(Outcomes) /\ streak \in Counters
        BY DEF NumbersOK
      <4>3. \A c \in Counters, n \in 0 .. Len(events) :
               Accounts(c, n, events, streak) => Accounts(c, n, events', streak')
        BY <4>1, <4>2, AccountsGoOn
      <4>4. Accounts(config.fails, config.through, events, streak)'
        BY <3>1, <4>3 DEF NumbersOK, Right
      <4>5. ASSUME NEW t \in Ticks PROVE TickRight(t)'
        <5> DEFINE w == Cardinality(Working(flow))
                   v == Cardinality(Working(flow'))
                   k == Cardinality(todo[t])
        <5>1. w \in Nat /\ v \in Nat /\ v <= w /\ k \in Nat /\ cap[t] \in Nat /\ room[t] \in Nat
          <6>1. todo[t] \in SUBSET Reports
            BY DEF TicksOK
          <6>2. QED BY <3>2, <6>1, WorkingCounts, CandidatesCount DEF NumbersOK
        <5>2. /\ pc[t] = "selecting" => w + room[t] <= cap[t]
              /\ pc[t] = "claiming" => w + k <= cap[t]
              /\ pc[t] = "adding" => w + k + 1 <= cap[t]
          BY DEF Right, TickRight
        <5> HIDE DEF w, v, k
        <5>3. /\ pc[t] = "selecting" => v + room[t] <= cap[t]
              /\ pc[t] = "claiming" => v + k <= cap[t]
              /\ pc[t] = "adding" => v + k + 1 <= cap[t]
          BY <5>1, <5>2
        <5>4. pc[t] = "counting" => Accounts(seen[t].fails, seen[t].through, events', streak')
          <6>1. seen[t].fails \in Counters /\ seen[t].through \in 0 .. Len(events)
            BY DEF NumbersOK, Observation
          <6>2. pc[t] = "counting" => Accounts(seen[t].fails, seen[t].through, events, streak)
            BY DEF Right, TickRight
          <6>3. QED BY <4>3, <6>1, <6>2
        <5>5. TickRight(t)
          BY DEF Right
        <5>6. QED BY <3>1, <5>3, <5>4, <5>5 DEF TickRight, v, k
      <4>6. QED BY <3>1, <4>4, <4>5 DEF Right
    <3>6. QED BY <3>3, <3>4, <3>5
  <2>9. CASE PatchRead
    <3>1. /\ \A t \in Ticks : pc'[t] = "idle"
          /\ UNCHANGED <<config, events, streak>>
      BY <2>9 DEF PatchRead, MayPatch, inner
    <3>2. \A t \in Ticks : TickRight(t)'
      BY <3>1 DEF TickRight, Enqueueing
    <3>3. QED BY <3>1, <3>2 DEF Right
  <2>10. CASE PatchWrite
    <3>1. /\ \A t \in Ticks : pc'[t] = "idle"
          /\ UNCHANGED events
      BY <2>10 DEF PatchWrite, MayPatch, inner
    <3>2. \A t \in Ticks : TickRight(t)'
      BY <3>1 DEF TickRight, Enqueueing
    <3>3. PICK reset \in BOOLEAN :
            /\ config'.fails = IF reset THEN NoFailures ELSE config.fails
            /\ config'.through = config.through
            /\ streak' = IF reset THEN FoldLeft(Count, NoFailures, Unseen) ELSE streak
      BY <2>10 DEF PatchWrite, NumbersOK
    <3>4. Accounts(config.fails, config.through, events, streak)'
      <4>1. CASE reset
        <5>1. NoFailures \in Counters
          BY DEF NoFailures, Counters
        <5>2. Accounts(NoFailures, config.through, events, FoldLeft(Count, NoFailures, Unseen))
          BY <5>1, AccountsGoOn DEF NumbersOK, Unseen
        <5>3. QED BY <3>1, <3>3, <4>1, <5>2
      <4>2. CASE ~reset
        BY <3>1, <3>3, <4>2 DEF Right
      <4>3. QED BY <4>1, <4>2
    <3>5. QED BY <3>1, <3>2, <3>4 DEF Right
  <2>11. CASE Clock \/ UNCHANGED vars
    <3>1. UNCHANGED <<config, events, streak, staff, pc, seen, cap, room, todo, flow>>
      BY <2>11 DEF Clock, vars, inner
    <3>2. QED BY <3>1, CalmStep
  <2>12. QED
    BY <2>1, <2>2, <2>3, <2>4, <2>5, <2>6, <2>7, <2>8, <2>9, <2>10, <2>11 DEF Next, Inner
<1>3. QED BY <1>1, <1>2, TypeCorrect, LeaseInvariant, NumbersInvariant, PTL DEF Spec

(* Where one worker process records the outcomes and staff do not interfere   *)
(* with a tick: outcomeObservedThrough neither skips nor repeats an outcome,  *)
(* a tick that has seen a streak of Docling failures starts nothing, and none *)
(* leaves more runs at work than the limit it has read.                       *)
THEOREM CountersAreRight ==
  ASSUME MaxHold < TTL, MaxHold < TickTimeout, Replicas = 1, ~PatchesRace
  PROVE  Spec => CountersDecide
<1>1. NumbersOK /\ Right => CountersExact /\ StreakStopsTick
  <2> SUFFICES ASSUME NumbersOK, Right PROVE CountersExact /\ StreakStopsTick
    OBVIOUS
  <2>1. Unseen \in Seq(Outcomes)
    BY LaterOutcomes DEF NumbersOK, Unseen
  <2>2. DOMAIN Unseen = 1 .. Len(Unseen) /\ Len(Unseen) \in Nat
    BY <2>1
  <2>3. FoldLeft(CountRows, config.fails, Unseen) = FoldLeft(Count, config.fails, Unseen)
    BY <2>2, FoldGoes
  <2>4. CountersExact
    BY <2>3 DEF CountersExact, Right, Accounts, Unseen
  <2>5. StreakStopsTick
    BY DEF StreakStopsTick, Right, TickRight
  <2>6. QED BY <2>4, <2>5
<1> DEFINE Within == \A t \in Ticks : AddJob(t) =>
                       Cardinality({f \in Runs : flow'[f] = "working"}) <= cap[t]
<1>2. TicksOK /\ NumbersOK /\ Right /\ [Next]_vars => [Within]_vars
  <2> SUFFICES ASSUME TicksOK, NumbersOK, Right, NEW t \in Ticks, AddJob(t)
               PROVE  Cardinality(Working(flow')) <= cap[t]
    BY DEF Working
  <2>1. /\ pc[t] = "adding" /\ todo[t] \in SUBSET Reports
        /\ flow' = [flow EXCEPT ![current[t]] = "working"]
    BY DEF AddJob, TicksOK
  <2>2. Working(flow') \subseteq Working(flow) \cup {current[t]}
    BY <2>1 DEF Working, TicksOK
  <2>3. /\ Cardinality(todo[t]) \in Nat /\ Cardinality(Working(flow)) \in Nat /\ cap[t] \in Nat
        /\ Cardinality(Working(flow')) \in Nat
        /\ Cardinality(Working(flow')) <= Cardinality(Working(flow)) + 1
    BY <2>1, <2>2, CandidatesCount, WorkingCounts DEF NumbersOK
  <2>4. Cardinality(Working(flow)) + Cardinality(todo[t]) + 1 <= cap[t]
    BY <2>1 DEF Right, TickRight
  <2>5. QED BY <2>3, <2>4
<1>3. QED
  BY <1>1, <1>2, TypeCorrect, NumbersInvariant, RightInvariant, PTL DEF Spec, CountersDecide, StartsWithinLimit

(* Under the same conditions auto-run is not switched off for less than three *)
(* Docling failures or five report failures that came one after the other     *)
(* (DoclingOff and ReportOff); more worker processes count each of them twice *)
(* (the run replicas).                                                        *)
THEOREM SwitchOffEarned ==
  ASSUME MaxHold < TTL, MaxHold < TickTimeout, Replicas = 1, ~PatchesRace
  PROVE  Spec => []SwitchOffIsEarned
<1>1. Right => SwitchOffIsEarned
  BY DEF SwitchOffIsEarned, Right, TickRight
<1>2. QED BY <1>1, RightInvariant, PTL
=============================================================================
