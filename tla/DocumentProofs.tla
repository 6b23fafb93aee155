--------------------------- MODULE DocumentProofs ---------------------------
(***************************************************************************)
(* What is proved of a report's document: that it is parsed by one task at *)
(* a time and its text kept once (DoclingParse), that the steps of a run   *)
(* know it by one name (ReportIdentity), that each job of a run finds its  *)
(* text, the same one, and precheck is reached once (ReportText), and that *)
(* an answer is given a page it stands on (FollowUp).                      *)
(***************************************************************************)
EXTENDS Document, FiniteSetTheorems, SequenceTheorems, WellFoundedInduction, TLAPS

\* The type of each variable; a job that is not over has an attempt left.
JobOK(j) ==
    /\ j \in [st: States, pc: Places, att: 0..Attempts, stalls: 0..1, data: Ids \cup {NoTask}]
    /\ j.st \in {"waiting", "active", "delayed"} => j.att < Attempts
    /\ j.st = "active" => j.pc # "begin"

RunShape == run \in [task: Ids \cup {NoTask}, polls: 0..PollLimit, posts: 0..Posts]

FaultShape ==
    /\ faults \in [deaths: 0..MaxDeaths, restarts: 0..MaxRestarts, trouble: 0..MaxTrouble,
                   lost: 0..MaxTrouble]
    /\ faults.lost <= faults.trouble

OtherShapes ==
    /\ setup \in [local: BOOLEAN, callback: BOOLEAN]
    /\ task \in [Ids -> TaskStates]
    /\ text \in [row: BOOLEAN, kept: BOOLEAN]
    /\ calls \in Nat /\ reads \in Nat

Shapes == JobOK(job) /\ RunShape /\ FaultShape /\ OtherShapes

\* What an execution knows of its task: none before it has submitted, then the one that is not
\* yet in the data, and the one of the data from there on.
KnowsItsTask ==
    /\ At("submit") => job.data = NoTask
    /\ At("store") => job.data = NoTask /\ run.task \in Ids
    /\ At("poll") \/ At("fetch") => job.data = run.task /\ run.task \in Ids

\* While no answer of a submission is lost and no worker dies, a task that parses the document
\* is the one in the data, or is about to be.
TaskIsKnown ==
    faults.lost = 0 /\ faults.deaths = 0 =>
        \A t \in Ids : task[t] = "pending" => job.data = t \/ (At("store") /\ run.task = t)

\* After the parse has been read, the execution does not turn back.
NoWayBack ==
    faults.deaths = 0 =>
        /\ reads <= 1 /\ calls <= 1
        /\ reads = 1 => At("persist") \/ At("callback") \/ At("return") \/ job.st = "completed"
        /\ calls = 1 => At("return") \/ job.st = "completed"

TextIsKept == At("callback") \/ At("return") \/ job.st = "completed" => text.row \/ text.kept

ParseInv == Shapes /\ KnowsItsTask /\ TaskIsKnown /\ NoWayBack /\ TextIsKept

-----------------------------------------------------------------------------

LEMMA Least == ASSUME NEW S, S \subseteq Nat, S # {} PROVE \E x \in S : \A y \in S : x <= y
<1>. DEFINE R == {p \in Nat \X Nat : p[1] < p[2]}
<1>1. IsWellFoundedOn(R, Nat)
  BY NatLessThanWellFounded DEF OpToRel
<1>2. PICK x \in S : \A y \in S : ~(<<y, x>> \in R)
  BY <1>1, WFMin
<1>3. ASSUME NEW y \in S PROVE x <= y
  <2>1. ~(<<y, x>> \in R) /\ x \in Nat /\ y \in Nat
    BY <1>2
  <2>. QED
    BY <2>1
<1>. QED
  BY <1>3

LEMMA NextIdIsFree == ASSUME Untaken # {} PROVE NextId \in Ids /\ task[NextId] = "none"
<1>1. Untaken \subseteq Nat
  BY DEF Untaken, Ids
<1>2. \E t \in Untaken : \A u \in Untaken : t <= u
  BY <1>1, Least
<1>3. NextId \in Untaken
  BY <1>2 DEF NextId
<1>. QED
  BY <1>3 DEF Untaken

LEMMA Counts ==
    /\ Attempts \in Nat \ {0} /\ Posts \in Nat \ {0} /\ MaxTasks \in Nat \ {0}
    /\ PollLimit \in Nat /\ MaxDeaths \in Nat /\ MaxRestarts \in Nat /\ MaxTrouble \in Nat
  BY DoclingAssumption

LEMMA ShapesAreTypes == Shapes => TypeOK
  BY DEF Shapes, JobOK, RunShape, FaultShape, OtherShapes, TypeOK

LEMMA ParseInit == Init => ParseInv
<1>. SUFFICES ASSUME Init PROVE ParseInv
  OBVIOUS
<1>1. JobOK(job) /\ RunShape
  BY Counts DEF Init, JobOK, RunShape, States, Places, NoTask
<1>2. FaultShape /\ OtherShapes
  BY Counts DEF Init, FaultShape, OtherShapes, TaskStates
<1>3. KnowsItsTask /\ TaskIsKnown /\ NoWayBack /\ TextIsKept
  BY DEF Init, KnowsItsTask, TaskIsKnown, NoWayBack, TextIsKept, At
<1>. QED
  BY <1>1, <1>2, <1>3 DEF ParseInv, Shapes

\* What BullMQ makes of a job whose attempt has ended.
LEMMA EndsOfAnAttempt ==
    ASSUME NEW j, JobOK(j), j.st = "active"
    PROVE JobOK(Throw(j)) /\ JobOK(GiveUp(j)) /\ JobOK(Stall(j))
<1>. USE DEF JobOK
<1>1. j.att + 1 \in 0..Attempts /\ j.att \in Nat
  BY Counts
<1>2. JobOK(Throw(j))
  <2>1. CASE j.att + 1 < Attempts
    <3>1. Throw(j) = [j EXCEPT !.att = @ + 1, !.pc = "begin", !.st = "delayed"]
      BY <2>1 DEF Throw
    <3>. QED
      BY <1>1, <2>1, <3>1 DEF States, Places
  <2>2. CASE ~(j.att + 1 < Attempts)
    <3>1. Throw(j) = [j EXCEPT !.att = @ + 1, !.pc = "begin", !.st = "failed"]
      BY <2>2 DEF Throw
    <3>. QED
      BY <1>1, <3>1 DEF States, Places
  <2>. QED
    BY <2>1, <2>2
<1>3. JobOK(GiveUp(j))
  BY <1>1 DEF GiveUp, States, Places
<1>4. JobOK(Stall(j))
  <2>1. CASE j.stalls = 0
    <3>1. Stall(j) = [j EXCEPT !.pc = "begin", !.st = "waiting", !.stalls = 1]
      BY <2>1 DEF Stall
    <3>2. Stall(j) \in [st: States, pc: Places, att: 0..Attempts, stalls: 0..1,
                        data: Ids \cup {NoTask}]
      <4>1. 1 \in 0..1 /\ "waiting" \in States /\ "begin" \in Places
        BY DEF States, Places
      <4>. QED
        BY <3>1, <4>1
    <3>3. Stall(j).att = j.att /\ Stall(j).st = "waiting"
      BY <3>1
    <3>. QED
      BY <3>2, <3>3
  <2>2. CASE j.stalls # 0
    <3>1. Stall(j) = [j EXCEPT !.pc = "begin", !.st = "failed"]
      BY <2>2 DEF Stall
    <3>. QED
      BY <3>1 DEF States, Places
  <2>. QED
    BY <2>1, <2>2
<1>. QED
  BY <1>2, <1>3, <1>4

LEMMA GotoKeeps ==
    ASSUME JobOK(job), NEW pc \in Places \ {"begin"}, Goto(pc) PROVE JobOK(job')
  BY DEF JobOK, Goto

LEMMA AfterPersistIsAPlace == AfterPersist \in Places \ {"begin"}
  BY DEF AfterPersist, Places

LEMMA TroubleKeeps == ASSUME FaultShape, Trouble PROVE FaultShape'
  BY Counts DEF FaultShape, Trouble

LEMMA JobStep == JobOK(job) /\ KnowsItsTask /\ RunShape /\ [Next]_vars => JobOK(job)'
<1>. SUFFICES ASSUME JobOK(job) /\ KnowsItsTask /\ RunShape, [Next]_vars PROVE JobOK(job)'
  OBVIOUS
<1>. USE DEF At
<1>1. CASE Begin
  BY <1>1 DEF Begin, JobOK, States, Places
<1>2. CASE Submit \/ PollSuccess \/ FetchResult \/ Callback \/ CallbackFails
  BY <1>2, GotoKeeps DEF Submit, PollSuccess, FetchResult, Callback, CallbackFails, Places
<1>3. CASE Persist \/ PersistFails
  BY <1>3, GotoKeeps, AfterPersistIsAPlace DEF Persist, PersistFails
<1>4. CASE SubmitAnswerLost \/ SubmitFails \/ PollTimesOut \/ PollFailure
          \/ PollFails \/ FetchGone \/ FetchFails \/ Die
  BY <1>4, EndsOfAnAttempt DEF SubmitAnswerLost, SubmitFails, PollTimesOut, PollFailure,
        PollFails, FetchGone, FetchFails, Die
<1>5. CASE StoreTask
  BY <1>5 DEF StoreTask, JobOK, KnowsItsTask, Places
<1>6. CASE PollGone
  <2>. DEFINE j == [job EXCEPT !.data = IF setup.local THEN NoTask ELSE @]
  <2>1. JobOK(j) /\ j.st = "active"
    BY <1>6 DEF PollGone, JobOK
  <2>. QED
    BY <1>6, <2>1, EndsOfAnAttempt DEF PollGone
<1>7. CASE Return
  BY <1>7 DEF Return, JobOK, States
<1>8. CASE PollPending \/ TaskEnds \/ DoclingForgets
  BY <1>8 DEF PollPending, TaskEnds, DoclingForgets
<1>9. CASE UNCHANGED vars
  BY <1>9 DEF vars
<1>. QED
  BY <1>1, <1>2, <1>3, <1>4, <1>5, <1>6, <1>7, <1>8, <1>9 DEF Next, Worker

LEMMA RunStep == RunShape /\ JobOK(job) /\ [Next]_vars => RunShape'
<1>. SUFFICES ASSUME RunShape /\ JobOK(job), [Next]_vars PROVE RunShape'
  OBVIOUS
<1>. USE Counts DEF RunShape
<1>1. CASE Begin
  BY <1>1 DEF Begin, JobOK
<1>2. CASE Submit
  <2>1. NextId \in Ids /\ run.posts + 1 \in 0..Posts
    BY <1>2, NextIdIsFree DEF Submit
  <2>2. run' = [run EXCEPT !.task = NextId, !.posts = @ + 1]
    BY <1>2 DEF Submit
  <2>. QED
    BY <2>1, <2>2
<1>3. CASE SubmitAnswerLost
  BY <1>3 DEF SubmitAnswerLost
<1>4. CASE PollPending
  BY <1>4 DEF PollPending
<1>5. CASE SubmitFails \/ StoreTask \/ PollTimesOut \/ PollSuccess \/ PollFailure
          \/ PollGone \/ PollFails \/ FetchResult \/ FetchGone \/ FetchFails
          \/ Persist \/ PersistFails \/ Callback \/ CallbackFails \/ Return
          \/ Die \/ TaskEnds \/ DoclingForgets
  BY <1>5 DEF SubmitFails, StoreTask, PollTimesOut, PollSuccess, PollFailure, PollGone,
        PollFails, FetchResult, FetchGone, FetchFails, Persist, PersistFails,
        Callback, CallbackFails, Return, Die, TaskEnds, DoclingForgets
<1>6. CASE UNCHANGED vars
  BY <1>6 DEF vars
<1>. QED
  BY <1>1, <1>2, <1>3, <1>4, <1>5, <1>6 DEF Next, Worker

LEMMA FaultStep == FaultShape /\ [Next]_vars => FaultShape'
<1>. SUFFICES ASSUME FaultShape, [Next]_vars PROVE FaultShape'
  OBVIOUS
<1>. USE Counts DEF FaultShape
<1>1. CASE SubmitAnswerLost
  <2>1. faults.trouble + 1 \in 0..MaxTrouble /\ faults.lost + 1 \in 0..MaxTrouble
    BY <1>1 DEF SubmitAnswerLost
  <2>2. faults' = [faults EXCEPT !.trouble = @ + 1, !.lost = @ + 1]
    BY <1>1 DEF SubmitAnswerLost
  <2>3. faults.lost \in Nat /\ faults.trouble \in Nat
    OBVIOUS
  <2>4. faults'.lost = faults.lost + 1 /\ faults'.trouble = faults.trouble + 1
    BY <2>2
  <2>5. faults'.lost <= faults'.trouble
    BY <2>3, <2>4
  <2>. QED
    BY <2>1, <2>2, <2>5
<1>2. CASE Die
  BY <1>2 DEF Die
<1>3. CASE DoclingForgets
  BY <1>3 DEF DoclingForgets
<1>4. CASE SubmitFails \/ PollFails \/ FetchFails \/ PersistFails \/ CallbackFails
  BY <1>4, TroubleKeeps DEF SubmitFails, PollFails, FetchFails, PersistFails, CallbackFails
<1>5. CASE Begin \/ Submit \/ StoreTask \/ PollPending \/ PollTimesOut \/ PollSuccess
          \/ PollFailure \/ PollGone \/ FetchResult \/ FetchGone \/ Persist
          \/ Callback \/ Return \/ TaskEnds
  BY <1>5 DEF Begin, Submit, StoreTask, PollPending, PollTimesOut, PollSuccess, PollFailure,
        PollGone, FetchResult, FetchGone, Persist, Callback, Return, TaskEnds
<1>6. CASE UNCHANGED vars
  BY <1>6 DEF vars
<1>. QED
  BY <1>1, <1>2, <1>3, <1>4, <1>5, <1>6 DEF Next, Worker

LEMMA OtherStep == OtherShapes /\ [Next]_vars => OtherShapes'
<1>. SUFFICES ASSUME OtherShapes, [Next]_vars PROVE OtherShapes'
  OBVIOUS
<1>. USE DEF OtherShapes
<1>1. CASE Submit \/ SubmitAnswerLost
  BY <1>1, NextIdIsFree DEF Submit, SubmitAnswerLost, TaskStates
<1>2. CASE TaskEnds
  BY <1>2 DEF TaskEnds, TaskStates
<1>3. CASE DoclingForgets
  BY <1>3 DEF DoclingForgets, TaskStates
<1>4. CASE FetchResult \/ PollSuccess \/ Callback
  BY <1>4 DEF FetchResult, PollSuccess, Callback
<1>5. CASE Persist \/ PersistFails \/ Die
  BY <1>5 DEF Persist, PersistFails, Die
<1>6. CASE Begin \/ SubmitFails \/ StoreTask \/ PollPending \/ PollTimesOut \/ PollFailure
          \/ PollGone \/ PollFails \/ FetchGone \/ FetchFails \/ CallbackFails
          \/ Return
  BY <1>6 DEF Begin, SubmitFails, StoreTask, PollPending, PollTimesOut, PollFailure, PollGone,
        PollFails, FetchGone, FetchFails, CallbackFails, Return
<1>7. CASE UNCHANGED vars
  BY <1>7 DEF vars
<1>. QED
  BY <1>1, <1>2, <1>3, <1>4, <1>5, <1>6, <1>7 DEF Next, Worker

LEMMA KnowsStep == Shapes /\ KnowsItsTask /\ [Next]_vars => KnowsItsTask'
<1>. SUFFICES ASSUME Shapes /\ KnowsItsTask, [Next]_vars PROVE KnowsItsTask'
  OBVIOUS
<1>. USE DEF Shapes, KnowsItsTask, At, JobOK, RunShape, NoTask
<1>1. CASE Begin
  BY <1>1 DEF Begin
<1>2. CASE Submit
  BY <1>2, NextIdIsFree DEF Submit, Goto
<1>3. CASE StoreTask \/ PollSuccess \/ Return
  BY <1>3 DEF StoreTask, PollSuccess, Return, Goto
<1>4. CASE FetchResult \/ Callback \/ CallbackFails \/ Persist \/ PersistFails
  BY <1>4 DEF FetchResult, Callback, CallbackFails, Persist, PersistFails, Goto, AfterPersist
<1>5. CASE SubmitAnswerLost \/ SubmitFails \/ PollTimesOut
          \/ PollFailure \/ PollFails \/ FetchGone \/ FetchFails
  BY <1>5 DEF SubmitAnswerLost, SubmitFails, PollTimesOut, PollFailure,
        PollFails, FetchGone, FetchFails, Throw, GiveUp
<1>6. CASE PollGone
  BY <1>6 DEF PollGone, Throw
<1>7. CASE Die
  BY <1>7 DEF Die, Stall
<1>8. CASE PollPending \/ TaskEnds \/ DoclingForgets
  BY <1>8 DEF PollPending, TaskEnds, DoclingForgets
<1>9. CASE UNCHANGED vars
  BY <1>9 DEF vars
<1>. QED
  BY <1>1, <1>2, <1>3, <1>4, <1>5, <1>6, <1>7, <1>8, <1>9 DEF Next, Worker

LEMMA TaskStep == Shapes /\ KnowsItsTask /\ TaskIsKnown /\ [Next]_vars => TaskIsKnown'
<1>. SUFFICES ASSUME Shapes /\ KnowsItsTask /\ TaskIsKnown, [Next]_vars PROVE TaskIsKnown'
  OBVIOUS
<1>. USE DEF Shapes, JobOK, RunShape, OtherShapes, FaultShape, KnowsItsTask, TaskIsKnown,
        At, NoTask, Ids
<1>1. CASE Begin
  BY <1>1 DEF Begin
<1>2. CASE Submit
  BY <1>2, NextIdIsFree DEF Submit, Goto
<1>3. CASE StoreTask
  BY <1>3 DEF StoreTask
<1>4. CASE PollSuccess
  BY <1>4 DEF PollSuccess, Goto
<1>5. CASE Return
  BY <1>5 DEF Return
<1>6. CASE FetchResult \/ Callback \/ CallbackFails \/ Persist \/ PersistFails
  BY <1>6 DEF FetchResult, Callback, CallbackFails,
        Persist, PersistFails, Goto, AfterPersist, Trouble
<1>7. CASE SubmitAnswerLost
  BY <1>7 DEF SubmitAnswerLost
<1>8. CASE SubmitFails \/ PollTimesOut \/ PollFailure \/ PollFails \/ FetchGone \/ FetchFails
  BY <1>8 DEF SubmitFails, PollTimesOut, PollFailure,
        PollFails, FetchGone, FetchFails, Throw, GiveUp, Trouble
<1>9. CASE PollGone
  BY <1>9 DEF PollGone, Throw
<1>10. CASE Die
  BY <1>10 DEF Die
<1>11. CASE TaskEnds \/ DoclingForgets
  BY <1>11 DEF TaskEnds, DoclingForgets
<1>12. CASE PollPending
  BY <1>12 DEF PollPending
<1>13. CASE UNCHANGED vars
  BY <1>13 DEF vars
<1>. QED
  BY <1>1, <1>2, <1>3, <1>4, <1>5, <1>6, <1>7, <1>8, <1>9, <1>10, <1>11, <1>12, <1>13
     DEF Next, Worker

LEMMA WayStep == Shapes /\ NoWayBack /\ [Next]_vars => NoWayBack'
<1>. SUFFICES ASSUME Shapes /\ NoWayBack, [Next]_vars PROVE NoWayBack'
  OBVIOUS
<1>. USE DEF Shapes, JobOK, OtherShapes, FaultShape, NoWayBack, At
<1>1. CASE Begin
  BY <1>1 DEF Begin
<1>2. CASE Submit \/ StoreTask \/ PollSuccess \/ Return
  BY <1>2 DEF Submit, StoreTask, PollSuccess, Return, Goto
<1>3. CASE FetchResult \/ Callback \/ CallbackFails \/ Persist \/ PersistFails
  BY <1>3 DEF FetchResult, Callback, CallbackFails,
        Persist, PersistFails, Goto, AfterPersist, Trouble
<1>4. CASE SubmitAnswerLost \/ SubmitFails \/ PollTimesOut \/ PollFailure
          \/ PollGone \/ PollFails \/ FetchGone \/ FetchFails
  BY <1>4 DEF SubmitAnswerLost, SubmitFails, PollTimesOut, PollFailure,
        PollGone, PollFails, FetchGone, FetchFails, Throw, GiveUp, Trouble
<1>5. CASE Die
  BY <1>5 DEF Die
<1>6. CASE TaskEnds \/ DoclingForgets
  BY <1>6 DEF TaskEnds, DoclingForgets
<1>7. CASE PollPending
  BY <1>7 DEF PollPending
<1>8. CASE UNCHANGED vars
  BY <1>8 DEF vars
<1>. QED
  BY <1>1, <1>2, <1>3, <1>4, <1>5, <1>6, <1>7, <1>8 DEF Next, Worker

LEMMA TextStep == Shapes /\ TextIsKept /\ [Next]_vars => TextIsKept'
<1>. SUFFICES ASSUME Shapes /\ TextIsKept, [Next]_vars PROVE TextIsKept'
  OBVIOUS
<1>. USE DEF Shapes, JobOK, OtherShapes, TextIsKept, At
<1>1. CASE Begin
  BY <1>1 DEF Begin
<1>2. CASE Submit \/ StoreTask \/ PollSuccess \/ Return
  BY <1>2 DEF Submit, StoreTask, PollSuccess, Return, Goto
<1>3. CASE FetchResult \/ Callback \/ CallbackFails \/ Persist \/ PersistFails
  BY <1>3 DEF FetchResult, Callback, CallbackFails, Persist, PersistFails, Goto, AfterPersist
<1>4. CASE SubmitAnswerLost \/ SubmitFails \/ PollTimesOut \/ PollFailure
          \/ PollGone \/ PollFails \/ FetchGone \/ FetchFails
  BY <1>4 DEF SubmitAnswerLost, SubmitFails, PollTimesOut, PollFailure,
        PollGone, PollFails, FetchGone, FetchFails, Throw, GiveUp
<1>5. CASE Die
  BY <1>5 DEF Die, Stall
<1>6. CASE PollPending \/ TaskEnds \/ DoclingForgets
  BY <1>6 DEF PollPending, TaskEnds, DoclingForgets
<1>7. CASE UNCHANGED vars
  BY <1>7 DEF vars
<1>. QED
  BY <1>1, <1>2, <1>3, <1>4, <1>5, <1>6, <1>7 DEF Next, Worker

LEMMA ParseStep == ParseInv /\ [Next]_vars => ParseInv'
  BY JobStep, RunStep, FaultStep, OtherStep, KnowsStep, TaskStep, WayStep, TextStep
     DEF ParseInv, Shapes

LEMMA ParseInvImplies == ParseInv => ParsedOnce
<1>. SUFFICES ASSUME ParseInv PROVE ParsedOnce
  OBVIOUS
<1>. USE DEF ParseInv
<1>1. OneParseAtATime
  <2>. DEFINE P == {t \in Ids : task[t] = "pending"}
  <2>. SUFFICES ASSUME ~(faults.lost + faults.deaths > 0) PROVE ~(Cardinality(P) > 1)
    BY DEF OneParseAtATime
  <2>1. faults.lost = 0 /\ faults.deaths = 0
    BY DEF Shapes, FaultShape
  <2>2. \A t, u \in P : t = u
    BY <2>1 DEF TaskIsKnown, KnowsItsTask, NoTask, Ids
  <2>3. CASE P = {}
    BY <2>3, FS_EmptySet
  <2>4. CASE P # {}
    <3>1. PICK t \in P : P = {t}
      BY <2>2, <2>4
    <3>. QED
      BY <3>1, FS_Singleton
  <2>. QED
    BY <2>3, <2>4
<1>2. ParseIsKeptOnce
  BY DEF ParseIsKeptOnce, NoWayBack, TextIsKept, Shapes, FaultShape, OtherShapes
<1>. QED
  BY <1>1, <1>2 DEF ParsedOnce

\* Every reachable state of the job and its tasks is well typed.
THEOREM TypeCorrect == Spec => []TypeOK
<1>1. Spec => []ParseInv
  BY ParseInit, ParseStep, PTL DEF Spec
<1>2. ParseInv => TypeOK
  BY ShapesAreTypes DEF ParseInv
<1>. QED
  BY <1>1, <1>2, PTL

\* A document is parsed by one task at a time, and its parse read, told and kept once.
THEOREM ParsedByOne == Spec => []ParsedOnce
<1>1. Spec => []ParseInv
  BY ParseInit, ParseStep, PTL DEF Spec
<1>. QED
  BY <1>1, ParseInvImplies, PTL

-----------------------------------------------------------------------------
(***************************************************************************)
(* The names a run gives its document.                                     *)
(***************************************************************************)

\* The period of the document itself, and that of the other year, in one order or the other.
TwoPeriods(j, o) == {<<buildPipelineReportIdentity(j), o>>, <<o, buildPipelineReportIdentity(j)>>}

\* checkDB names the document by the url the parse names it by.
LEMMA EarlyUrl ==
    ASSUME NEW j \in JobType
    PROVE buildEarlyRegistryPayload(j).url = canonicalPublicReportUrl(j)
  BY IdentityAssumption
     DEF buildEarlyRegistryPayload, Name, canonicalPublicReportUrl, Or, Web, JobType

\* A hash the job knows is the hash the save gives.
LEMMA ShaOfTheSave ==
    ASSUME NEW j \in JobType, j.sha256 # Absent, NEW o \in PeriodIdentity,
           NEW ps \in TwoPeriods(j, o)
    PROVE buildRegistryPayload(j, ps).sha256 = j.sha256
<1>1. mergeReportIdentityFromPeriods(j, ps).sha256 = j.sha256
  BY DEF mergeReportIdentityFromPeriods, buildPipelineReportIdentity, Or
<1>. QED
  BY <1>1 DEF buildRegistryPayload, Name, Or

\* When the other period knows no copy and no hash, what the save knows is the document's own.
LEMMA MergedAlone ==
    ASSUME NEW j \in JobType, NEW o \in PeriodIdentity,
           o.reportS3Url = Absent, o.reportSha256 = Absent, NEW ps \in TwoPeriods(j, o)
    PROVE LET i == buildPipelineReportIdentity(j)
          IN mergeReportIdentityFromPeriods(j, ps) =
                 [url |-> i.reportURL, sourceUrl |-> j.sourceUrl,
                  publicUrl |-> i.reportS3Url, sha256 |-> i.reportSha256]
<1>. DEFINE i == buildPipelineReportIdentity(j)
<1>1. DOMAIN ps = {1, 2} /\ {ps[1], ps[2]} = {i, o}
  BY DEF TwoPeriods
<1>. HIDE DEF i
<1>2. i.reportS3Url = Absent => ~ \E n \in DOMAIN ps : ps[n].reportS3Url # Absent
  BY <1>1
<1>3. i.reportSha256 = Absent => ~ \E n \in DOMAIN ps : ps[n].reportSha256 # Absent
  BY <1>1
<1>. QED
  BY <1>2, <1>3 DEF i, mergeReportIdentityFromPeriods, Or

\* The period that is taken for the document's has its url, even if it is the other one.
LEMMA MatchingHasTheUrl ==
    ASSUME NEW j \in JobType, NEW o \in PeriodIdentity,
           o.reportS3Url = Absent, o.reportSha256 = Absent, NEW ps \in TwoPeriods(j, o),
           NEW m, m = mergeReportIdentityFromPeriods(j, ps)
    PROVE findMatchingPeriod(m, ps).reportURL = canonicalPublicReportUrl(j)
<1>. DEFINE i == buildPipelineReportIdentity(j)
            p == findMatchingPeriod(m, ps)
<1>1. m = [url |-> i.reportURL, sourceUrl |-> j.sourceUrl,
           publicUrl |-> i.reportS3Url, sha256 |-> i.reportSha256]
  BY MergedAlone
<1>2. /\ i.reportURL = canonicalPublicReportUrl(j)
      /\ i.reportS3Url = Or(j.publicUrl, JobS3Url(j))
      /\ i.reportSha256 = j.sha256
  BY DEF buildPipelineReportIdentity
<1>3. canonicalPublicReportUrl(m) = i.reportURL /\ i.reportURL # Absent
  BY <1>1, <1>2, IdentityAssumption DEF canonicalPublicReportUrl, Or, JobType
<1>4. DOMAIN ps = {1, 2} /\ {ps[1], ps[2]} = {i, o}
  BY DEF TwoPeriods
<1>. DEFINE s3 == Or(m.publicUrl, JobS3Url(m))
            web == canonicalPublicReportUrl(m)
            hash == {n \in DOMAIN ps : m.sha256 # Absent /\ ps[n].reportSha256 = m.sha256}
            copy == {n \in DOMAIN ps : s3 # Absent /\ ps[n].reportS3Url = s3}
            url  == {n \in DOMAIN ps : web # Absent /\ ps[n].reportURL = web}
            hits == IF hash # {} THEN hash ELSE IF copy # {} THEN copy ELSE url
<1>. HIDE DEF i
<1>5. url # {}
  BY <1>3, <1>4
<1>6. hits # {} /\ hits \subseteq {1, 2}
  BY <1>4, <1>5
<1>7. p = ps[CHOOSE n \in hits : \A k \in hits : n <= k]
  BY <1>5 DEF findMatchingPeriod
<1>8. (CHOOSE n \in hits : \A k \in hits : n <= k) \in hits
  <2>. HIDE DEF hits
  <2>1. \E n \in hits : \A k \in hits : n <= k
    <3>1. CASE 1 \in hits
      BY <1>6, <3>1
    <3>2. CASE 1 \notin hits
      <4>1. hits = {2}
        BY <1>6, <3>2
      <4>. QED
        BY <4>1
    <3>. QED
      BY <3>1, <3>2
  <2>. QED
    BY <2>1
<1>9. \A n \in hash : ps[n] = i
  BY <1>1, <1>4
<1>10. \A n \in copy : ps[n].reportURL = i.reportURL
  <2>1. Or(m.publicUrl, JobS3Url(m)) = i.reportS3Url
    BY <1>1, <1>2, <1>3, IdentityAssumption DEF Or, JobS3Url, canonicalPublicReportUrl, JobType
  <2>. QED
    BY <2>1, <1>4
<1>11. \A n \in hits : ps[n].reportURL = i.reportURL
  BY <1>3, <1>9, <1>10
<1>. HIDE DEF hits
<1>. QED
  BY <1>2, <1>7, <1>8, <1>11

LEMMA UrlOfTheSave ==
    ASSUME NEW j \in JobType, NEW o \in PeriodIdentity,
           o.reportS3Url = Absent, o.reportSha256 = Absent, NEW ps \in TwoPeriods(j, o)
    PROVE buildRegistryPayload(j, ps).url = canonicalPublicReportUrl(j)
<1>. DEFINE m == mergeReportIdentityFromPeriods(j, ps)
            p == findMatchingPeriod(m, ps)
<1>1. p.reportURL = canonicalPublicReportUrl(j)
  BY MatchingHasTheUrl
<1>2. m.sourceUrl = j.sourceUrl /\ m.url = canonicalPublicReportUrl(j)
  BY DEF mergeReportIdentityFromPeriods, buildPipelineReportIdentity
<1>3. canonicalPublicReportUrl(m) = canonicalPublicReportUrl(j)
  BY <1>2 DEF canonicalPublicReportUrl, Or
<1>. HIDE DEF m, p
<1>4. buildRegistryPayload(j, ps).url = 
    LET web == Or(Web(p.reportURL), Or(Web(m.sourceUrl), Web(canonicalPublicReportUrl(m))))
    IN Or(web, Or(p.reportURL, canonicalPublicReportUrl(m)))
  BY DEF buildRegistryPayload, Name, m, p
<1>. QED
  BY <1>1, <1>2, <1>3, <1>4, IdentityAssumption DEF Or, Web, canonicalPublicReportUrl, JobType

\* What names have been given at each step, and what they are made from.
Knows == [parse |-> {}, early |-> {"parse"}, save |-> {"parse", "early"},
          saved |-> {"parse", "early", "save"}]

NamesInv ==
    /\ jobData \in JobType /\ older \in PeriodIdentity
    /\ at \in DOMAIN Knows /\ DOMAIN names \subseteq Knows[at]
    /\ "parse" \in DOMAIN names => names["parse"] = ParseName(jobData)
    /\ "early" \in DOMAIN names => names["early"] = buildEarlyRegistryPayload(jobData)
    /\ "save" \in DOMAIN names =>
        \E ps \in TwoPeriods(jobData, older) : names["save"] = buildRegistryPayload(jobData, ps)

LEMMA NamesInvInit == NamesInit => NamesInv
  BY IdentityAssumption DEF NamesInit, NamesInv, Knows

LEMMA NamesInvStep == NamesInv /\ [NamesNext]_nvars => NamesInv'
<1>. SUFFICES ASSUME NamesInv, [NamesNext]_nvars PROVE NamesInv'
  OBVIOUS
<1>. USE DEF NamesInv, Knows
<1>1. CASE Parse
  BY <1>1 DEF Parse, Add
<1>2. CASE CheckDBNames
  BY <1>2 DEF CheckDBNames, Add
<1>3. CASE SavePeriods /\ linked
  BY <1>3 DEF SavePeriods
<1>4. CASE SavePeriods /\ ~linked
  <2>1. PICK ps \in TwoPeriods(jobData, older) : Add("save", buildRegistryPayload(jobData, ps))
    BY <1>4 DEF SavePeriods, TwoPeriods
  <2>. QED
    BY <1>4, <2>1 DEF SavePeriods, Add
<1>5. CASE UNCHANGED nvars
  BY <1>5 DEF nvars
<1>. QED
  BY <1>1, <1>2, <1>3, <1>4, <1>5 DEF NamesNext

LEMMA NamesInvImplies == NamesInv => EveryStepFindsTheRow
<1>. SUFFICES ASSUME NamesInv, NEW s \in DOMAIN names, NEW t \in DOMAIN names,
                     CopyKnown \/ NothingOlder \/ "save" \notin {s, t}
              PROVE  FindsTheRow(names[s], names[t])
  BY DEF EveryStepFindsTheRow
<1>1. DOMAIN names \subseteq {"parse", "early", "save"}
  BY DEF NamesInv, Knows
<1>2. ASSUME NEW u \in {s, t}, u # "save"
      PROVE  /\ names[u].url = canonicalPublicReportUrl(jobData)
             /\ names[u].sha256 = jobData.sha256
  BY <1>1, <1>2, EarlyUrl
     DEF NamesInv, ParseName, buildPipelineReportIdentity, Name, buildEarlyRegistryPayload
<1>3. CASE "save" \notin {s, t} \/ NothingOlder
  <2>1. ASSUME NEW u \in {s, t}, u = "save", NothingOlder
        PROVE  names[u].url = canonicalPublicReportUrl(jobData)
    BY <2>1, UrlOfTheSave DEF NamesInv, NothingOlder
  <2>2. names[s].url = names[t].url
    BY <1>2, <1>3, <2>1
  <2>. QED
    BY <2>2 DEF FindsTheRow
<1>4. CASE CopyKnown
  <2>1. ASSUME NEW u \in {s, t}, u = "save"
        PROVE  names[u].sha256 = jobData.sha256
    BY <1>4, <2>1, ShaOfTheSave DEF NamesInv, CopyKnown
  <2>2. names[s].sha256 = jobData.sha256 /\ names[t].sha256 = jobData.sha256
    BY <1>2, <2>1
  <2>. QED
    BY <1>4, <2>2 DEF FindsTheRow, CopyKnown
<1>. QED
  BY <1>3, <1>4

\* Every step of a run finds the row of its document that another has written, for any urls, copies
\* and hashes a job can know, and whatever the period of another year says.
THEOREM OneName == NamesSpec => []EveryStepFindsTheRow
<1>1. NamesSpec => []NamesInv
  BY NamesInvInit, NamesInvStep, PTL DEF NamesSpec
<1>. QED
  BY <1>1, NamesInvImplies, PTL

-----------------------------------------------------------------------------
(***************************************************************************)
(* ReportText: whatever the route of a run, its jobs find a text, the same *)
(* one, and go on to precheck once.                                        *)
(***************************************************************************)

IndexJob == [st: {"none", "waiting", "active", "completed", "failed"}, text: Versions, got: Versions,
             sweepable: BOOLEAN, att: 0..Tries]
GateJob == [st: {"none", "waiting", "active", "told", "passed", "gated"}, text: Versions, got: Versions]
Flow == [docling: {"none", "waiting", "done", "failed"}, kept: BOOLEAN, idx: IndexJob, gate: GateJob]
Precheck == [st: {"waiting", "read", "failed"}, cached: Versions, got: Versions, att: 0..Tries]

TextShapes ==
    /\ asked \in [force: BOOLEAN, gate: BOOLEAN, mentions: [{Old, New} -> BOOLEAN]]
    /\ parser \in [st: {"waiting", "active", "completed", "failed"},
                   pc: {"look", "delete", "route", "return"}, has: BOOLEAN]
    /\ flows \in Seq(Flow) /\ pres \in Seq(Precheck)
    /\ row \in [ver: Versions, found: Finds]
    /\ index \in [ver: Versions, sweepable: BOOLEAN]
    /\ blows \in [crashes: 0..MaxCrashes, calls: 0..MaxBlows]
    /\ dropped \in BOOLEAN
    /\ parser.st = "waiting" => parser.pc = "look"
    /\ parser.pc = "delete" => asked.force
    /\ \A f \in DOMAIN flows : Index(f).st \in {"waiting", "active"} => Index(f).att < Tries
    /\ \A p \in DOMAIN pres : pres[p].st = "waiting" => pres[p].att < Tries

LEMMA TextShapesImply == TextShapes => TextTypeOK
<1>. SUFFICES ASSUME TextShapes PROVE TextTypeOK
  OBVIOUS
<1>1. ASSUME NEW f \in DOMAIN flows
      PROVE  /\ Docling(f) \in {"none", "waiting", "done", "failed"}
             /\ Index(f).st \in {"none", "waiting", "active", "completed", "failed"}
             /\ {Index(f).text, Index(f).got, Gate(f).text, Gate(f).got} \subseteq Versions
             /\ Gate(f).st \in {"none", "waiting", "active", "told", "passed", "gated"}
  <2>1. flows[f] \in Flow
    BY DEF TextShapes
  <2>. QED
    BY <2>1 DEF Docling, Index, Gate, Flow, IndexJob, GateJob
<1>2. \A p \in DOMAIN pres : pres[p] \in Precheck
  BY DEF TextShapes
<1>. QED
  BY <1>1, <1>2 DEF TextTypeOK, TextShapes, Precheck


\* A flow is another one, and all the others are as they were.
Becomes(f, d, k, i, g) ==
    /\ flows' \in Seq(Flow) /\ DOMAIN flows' = DOMAIN flows /\ Len(flows') = Len(flows)
    /\ flows'[f] = [docling |-> d, kept |-> k, idx |-> i, gate |-> g]
    /\ \A h \in DOMAIN flows : h # f => flows'[h] = flows[h]

LEMMA FlowFields ==
    ASSUME TextShapes, NEW f \in DOMAIN flows
    PROVE  /\ flows[f] \in Flow /\ Index(f) \in IndexJob /\ Gate(f) \in GateJob /\ flows[f].kept \in BOOLEAN
           /\ Docling(f) \in {"none", "waiting", "done", "failed"}
           /\ flows[f] = [docling |-> Docling(f), kept |-> flows[f].kept, idx |-> Index(f), gate |-> Gate(f)]
<1>1. flows[f] \in Flow
  BY DEF TextShapes
<1>. QED
  BY <1>1 DEF Flow, Docling, Index, Gate

LEMMA OneFlowBecomes ==
    ASSUME TextShapes, NEW f \in DOMAIN flows, NEW d, NEW k, NEW i, NEW g,
           flows' = [flows EXCEPT ![f] = [docling |-> d, kept |-> k, idx |-> i, gate |-> g]],
           [docling |-> d, kept |-> k, idx |-> i, gate |-> g] \in Flow
    PROVE  Becomes(f, d, k, i, g)
<1>. DEFINE r == [docling |-> d, kept |-> k, idx |-> i, gate |-> g]
<1>1. flows \in Seq(Flow) /\ r \in Flow /\ flows' = [flows EXCEPT ![f] = r]
  BY DEF TextShapes
<1>. HIDE DEF r
<1>2. /\ flows' \in Seq(Flow) /\ DOMAIN flows' = DOMAIN flows /\ Len(flows') = Len(flows) /\ flows'[f] = r
      /\ \A h \in DOMAIN flows : h # f => flows'[h] = flows[h]
  BY <1>1
<1>. QED
  BY <1>2 DEF Becomes, r

\* Records, field by field.
LEMMA Fields ==
    ASSUME NEW a, NEW b, NEW c, NEW d, NEW e, NEW v
    PROVE  LET r == [st |-> a, text |-> b, got |-> c, sweepable |-> d, att |-> e]
               g == [st |-> a, text |-> b, got |-> c]
               h == [docling |-> a, kept |-> b, idx |-> c, gate |-> d]
           IN /\ [r EXCEPT !.st = v] = [st |-> v, text |-> b, got |-> c, sweepable |-> d, att |-> e]
              /\ [r EXCEPT !.got = v] = [st |-> a, text |-> b, got |-> v, sweepable |-> d, att |-> e]
              /\ [r EXCEPT !.sweepable = v] = [st |-> a, text |-> b, got |-> c, sweepable |-> v, att |-> e]
              /\ [r EXCEPT !.att = v] = [st |-> a, text |-> b, got |-> c, sweepable |-> d, att |-> v]
              /\ [g EXCEPT !.st = v] = [st |-> v, text |-> b, got |-> c]
              /\ [g EXCEPT !.got = v] = [st |-> a, text |-> b, got |-> v]
              /\ [h EXCEPT !.docling = v] = [docling |-> v, kept |-> b, idx |-> c, gate |-> d]
              /\ [h EXCEPT !.kept = v] = [docling |-> a, kept |-> v, idx |-> c, gate |-> d]
  OBVIOUS

LEMMA DoclingSet ==
    ASSUME TextShapes, NEW f \in DOMAIN flows, NEW d \in {"done", "failed"}
    PROVE  /\ flows' = [flows EXCEPT ![f].docling = d] => Becomes(f, d, flows[f].kept, Index(f), Gate(f))
           /\ flows' = [flows EXCEPT ![f] = [@ EXCEPT !.docling = d, !.kept = TRUE]] =>
                 Becomes(f, d, TRUE, Index(f), Gate(f))
<1>1. /\ [flows[f] EXCEPT !.docling = d] = [docling |-> d, kept |-> flows[f].kept, idx |-> Index(f), gate |-> Gate(f)]
      /\ [flows[f] EXCEPT !.docling = d, !.kept = TRUE] =
            [docling |-> d, kept |-> TRUE, idx |-> Index(f), gate |-> Gate(f)]
  <2>1. flows[f] = [docling |-> Docling(f), kept |-> flows[f].kept, idx |-> Index(f), gate |-> Gate(f)]
    BY FlowFields
  <2>2. [flows[f] EXCEPT !.docling = d, !.kept = TRUE] = [[flows[f] EXCEPT !.docling = d] EXCEPT !.kept = TRUE]
    OBVIOUS
  <2>. DEFINE r == flows[f]
  <2>3. [r EXCEPT !.docling = d] = [docling |-> d, kept |-> r.kept, idx |-> Index(f), gate |-> Gate(f)]
    BY <2>1, Fields
  <2>4. [[r EXCEPT !.docling = d] EXCEPT !.kept = TRUE] = [docling |-> d, kept |-> TRUE, idx |-> Index(f), gate |-> Gate(f)]
    <3>1. ASSUME NEW t
          PROVE  [[r EXCEPT !.docling = d] EXCEPT !.kept = t] = [docling |-> d, kept |-> t, idx |-> Index(f), gate |-> Gate(f)]
      <4>1. [[docling |-> d, kept |-> r.kept, idx |-> Index(f), gate |-> Gate(f)] EXCEPT !.kept = t] =
               [docling |-> d, kept |-> t, idx |-> Index(f), gate |-> Gate(f)]
        OBVIOUS
      <4>. QED
        BY <2>3, <4>1
    <3>. QED
      BY <3>1, Zenon
  <2>. QED
    BY <2>2, <2>3, <2>4
<1>2. /\ [docling |-> d, kept |-> flows[f].kept, idx |-> Index(f), gate |-> Gate(f)] \in Flow
      /\ [docling |-> d, kept |-> TRUE, idx |-> Index(f), gate |-> Gate(f)] \in Flow
  BY FlowFields DEF Flow
<1>3. [flows EXCEPT ![f].docling = d] = [flows EXCEPT ![f] = [flows[f] EXCEPT !.docling = d]]
  OBVIOUS
<1>. QED
  BY <1>1, <1>2, <1>3, OneFlowBecomes

LEMMA IndexSet ==
    ASSUME TextShapes, NEW f \in DOMAIN flows, NEW i \in IndexJob, SetIndex(f, i)
    PROVE  Becomes(f, Docling(f), flows[f].kept, i, Gate(f))
<1>1. [flows[f] EXCEPT !.idx = i] = [docling |-> Docling(f), kept |-> flows[f].kept, idx |-> i, gate |-> Gate(f)]
  BY FlowFields DEF Flow, Docling, Gate
<1>2. [docling |-> Docling(f), kept |-> flows[f].kept, idx |-> i, gate |-> Gate(f)] \in Flow
  BY FlowFields DEF Flow
<1>3. flows' = [flows EXCEPT ![f] = [flows[f] EXCEPT !.idx = i]]
  BY DEF SetIndex
<1>. QED
  BY <1>1, <1>2, <1>3, OneFlowBecomes

LEMMA GateSet ==
    ASSUME TextShapes, NEW f \in DOMAIN flows, NEW g \in GateJob, SetGate(f, g)
    PROVE  Becomes(f, Docling(f), flows[f].kept, Index(f), g)
<1>1. [flows[f] EXCEPT !.gate = g] = [docling |-> Docling(f), kept |-> flows[f].kept, idx |-> Index(f), gate |-> g]
  BY FlowFields DEF Flow, Docling, Index
<1>2. [docling |-> Docling(f), kept |-> flows[f].kept, idx |-> Index(f), gate |-> g] \in Flow
  BY FlowFields DEF Flow
<1>3. flows' = [flows EXCEPT ![f] = [flows[f] EXCEPT !.gate = g]]
  BY DEF SetGate
<1>. QED
  BY <1>1, <1>2, <1>3, OneFlowBecomes

-----------------------------------------------------------------------------
\* What each step of a flow makes of it.

LEMMA TextsAreVersions ==
    ASSUME TextShapes, NEW f \in DOMAIN flows
    PROVE  IndexText(f) \in Versions /\ GateText(f) \in Versions
  BY FlowFields DEF TextShapes, IndexText, GateText, First, ByIdentity, ByUrl, IndexJob, GateJob, Versions, None, New

LEMMA IndexReading ==
    ASSUME TextShapes, NEW f \in DOMAIN flows, IndexReads(f), IndexText(f) # None
    PROVE  \E i \in IndexJob : /\ Becomes(f, Docling(f), flows[f].kept, i, Gate(f))
                               /\ i.st = "active" /\ i.got = IndexText(f) /\ i.text = Index(f).text
                               /\ i.att = Index(f).att /\ i.sweepable = (ByIdentity # None)
<1>. DEFINE i == [Index(f) EXCEPT !.st = "active", !.got = IndexText(f), !.sweepable = ByIdentity # None]
<1>1. i = [st |-> "active", text |-> Index(f).text, got |-> IndexText(f), sweepable |-> ByIdentity # None, att |-> Index(f).att]
  <2>. DEFINE r == Index(f)
  <2>1. r = [st |-> r.st, text |-> r.text, got |-> r.got, sweepable |-> r.sweepable, att |-> r.att]
    BY FlowFields DEF IndexJob
  <2>2. i = [[[r EXCEPT !.st = "active"] EXCEPT !.got = IndexText(f)] EXCEPT !.sweepable = ByIdentity # None]
    OBVIOUS
  <2>. HIDE DEF r, i
  <2>. QED
    BY <2>1, <2>2, Fields DEF r
<1>2. i \in IndexJob
  BY <1>1, FlowFields, TextsAreVersions DEF IndexJob
<1>3. SetIndex(f, i)
  BY DEF IndexReads
<1>. HIDE DEF i
<1>. QED
  BY <1>1, <1>2, <1>3, IndexSet

LEMMA IndexFailing ==
    ASSUME TextShapes, NEW f \in DOMAIN flows, IndexFailed(f), Index(f).st \in {"waiting", "active"}
    PROVE  \E i \in IndexJob : /\ Becomes(f, Docling(f), flows[f].kept, i, Gate(f))
                               /\ i.st \in {"waiting", "failed"} /\ i.got = Index(f).got /\ i.text = Index(f).text
                               /\ i.att = Index(f).att + 1 /\ i.sweepable = Index(f).sweepable
                               /\ i.st = "waiting" => i.att < Tries
<1>. DEFINE i == [Index(f) EXCEPT !.att = @ + 1, !.st = Retry(Index(f).att)]
<1>1. i = [st |-> Retry(Index(f).att), text |-> Index(f).text, got |-> Index(f).got,
           sweepable |-> Index(f).sweepable, att |-> Index(f).att + 1]
  <2>. DEFINE r == Index(f)
  <2>1. r = [st |-> r.st, text |-> r.text, got |-> r.got, sweepable |-> r.sweepable, att |-> r.att]
    BY FlowFields DEF IndexJob
  <2>2. i = [[r EXCEPT !.att = r.att + 1] EXCEPT !.st = Retry(r.att)]
    OBVIOUS
  <2>. HIDE DEF r, i
  <2>. QED
    BY <2>1, <2>2, Fields DEF r
<1>2. Index(f).att < Tries /\ Index(f).att \in Nat /\ Tries \in Nat
  BY FlowFields, TextAssumption DEF TextShapes, IndexJob
<1>3. /\ Retry(Index(f).att) \in {"waiting", "failed"}
      /\ Retry(Index(f).att) = "waiting" => Index(f).att + 1 < Tries
  BY DEF Retry
<1>4. i \in IndexJob
  BY <1>1, <1>2, <1>3, FlowFields DEF IndexJob
<1>5. SetIndex(f, i)
  BY DEF IndexFailed
<1>. HIDE DEF i
<1>. QED
  BY <1>1, <1>3, <1>4, <1>5, IndexSet

LEMMA IndexTurns ==
    ASSUME TextShapes, NEW f \in DOMAIN flows, NEW s \in {"completed", "waiting"},
           SetIndex(f, [Index(f) EXCEPT !.st = s])
    PROVE  \E i \in IndexJob : /\ Becomes(f, Docling(f), flows[f].kept, i, Gate(f))
                               /\ i.st = s /\ i.got = Index(f).got /\ i.text = Index(f).text
                               /\ i.att = Index(f).att /\ i.sweepable = Index(f).sweepable
<1>. DEFINE i == [Index(f) EXCEPT !.st = s]
<1>1. i \in IndexJob /\ i.st = s /\ i.got = Index(f).got /\ i.text = Index(f).text
      /\ i.att = Index(f).att /\ i.sweepable = Index(f).sweepable
  BY FlowFields DEF IndexJob
<1>. HIDE DEF i
<1>. QED
  BY <1>1, IndexSet DEF i

LEMMA GateReading ==
    ASSUME TextShapes, NEW f \in DOMAIN flows, GateReads(f)
    PROVE  \E g \in GateJob : /\ Becomes(f, Docling(f), flows[f].kept, Index(f), g)
                              /\ g.st = "active" /\ g.text = Gate(f).text /\ g.got = GateText(f)
<1>. DEFINE g == [Gate(f) EXCEPT !.st = "active", !.got = GateText(f)]
<1>1. g = [st |-> "active", text |-> Gate(f).text, got |-> GateText(f)]
  <2>. DEFINE r == Gate(f)
  <2>1. r = [st |-> r.st, text |-> r.text, got |-> r.got]
    BY FlowFields DEF GateJob
  <2>2. g = [[r EXCEPT !.st = "active"] EXCEPT !.got = GateText(f)]
    OBVIOUS
  <2>. HIDE DEF r, g
  <2>. QED
    BY <2>1, <2>2, Fields DEF r
<1>2. g \in GateJob
  BY <1>1, FlowFields, TextsAreVersions DEF GateJob
<1>3. SetGate(f, g)
  BY DEF GateReads
<1>. HIDE DEF g
<1>. QED
  BY <1>1, <1>2, <1>3, GateSet

LEMMA GateTurns ==
    ASSUME TextShapes, NEW f \in DOMAIN flows, NEW s \in {"told", "gated", "passed", "waiting"},
           SetGate(f, [Gate(f) EXCEPT !.st = s])
    PROVE  \E g \in GateJob : /\ Becomes(f, Docling(f), flows[f].kept, Index(f), g)
                              /\ g.st = s /\ g.text = Gate(f).text /\ g.got = Gate(f).got
<1>. DEFINE g == [Gate(f) EXCEPT !.st = s]
<1>1. g \in GateJob /\ g.st = s /\ g.text = Gate(f).text /\ g.got = Gate(f).got
  BY FlowFields DEF GateJob
<1>. HIDE DEF g
<1>. QED
  BY <1>1, GateSet DEF g

-----------------------------------------------------------------------------

InRow == row.ver # None \/ dropped
Stored == InRow \/ OnlyKept

\* A job of a flow that needs a text will find one.
FlowFinds(f) ==
    /\ Index(f).st # "none" /\ Docling(f) = "none" => Index(f).text # None
    /\ Index(f).st = "none" => Docling(f) = "none" /\ Gate(f).text # None
    /\ Index(f).text # None \/ Gate(f).text # None \/ Index(f).sweepable => InRow
    /\ Docling(f) = "done" => InRow \/ flows[f].kept
    /\ Index(f).st \in {"active", "completed"} => Index(f).got # None /\ Stored
    /\ Gate(f).st \notin {"none", "waiting"} => Stored
    /\ Index(f).att <= blows.calls \/ dropped

PrecheckFinds(p) ==
    /\ pres[p].cached # None \/ Stored
    /\ pres[p].att > 0 => dropped \/ OnlyKept

RouteFinds ==
    parser.st = "active" /\ parser.pc = "route" /\ parser.has /\ ~asked.force => index.ver # None \/ InRow

PlacesFind ==
    /\ \A f \in DOMAIN flows : FlowFinds(f)
    /\ \A p \in DOMAIN pres : PrecheckFinds(p)
    /\ index.sweepable => InRow
    /\ RouteFinds

\* The part of a flow that adds precheck has done so.
Turned(f) == (Gate(f).st = "none" /\ Index(f).st = "completed") \/ Gate(f).st \in {"told", "passed"}

\* While no worker dies a run has one route, and precheck is added at one end of it.
OneRoute ==
    blows.crashes = 0 =>
        /\ Len(flows) <= 1 /\ Len(pres) <= 1
        /\ parser.pc # "return" => flows = <<>> /\ pres = <<>>
        /\ \A f \in DOMAIN flows : pres # <<>> => Turned(f)

\* The text a run works on: a flow that asks Docling works on what Docling says.
Version == IF \E f \in DOMAIN flows : Docling(f) # "none" THEN New ELSE Old

Calm == ~dropped /\ ~OnlyKept /\ blows.crashes = 0

RowAgrees == row.ver \in IF \E f \in DOMAIN flows : Docling(f) = "done" THEN {New} ELSE {None, Old}

FlowAgrees(f) ==
    /\ Docling(f) \in {"waiting", "failed"} => Index(f).st = "waiting" /\ Gate(f).st \in {"none", "waiting"}
    /\ Index(f).text \in {None, Version} /\ Gate(f).text \in {None, Version}
    /\ Docling(f) # "none" => Index(f).text = None /\ Gate(f).text = None
    /\ Index(f).st \in {"active", "completed"} => Index(f).got = Version
    /\ Gate(f).st \notin {"none", "waiting"} => Gate(f).got \in {None, Version} /\ Index(f).st \in {"none", "completed"}

PresAgree ==
    \A p \in DOMAIN pres : pres[p].cached \in {None, Version} /\ (pres[p].st = "read" => pres[p].got = Version)

ChromaAgrees ==
    \/ index.ver \in {None, Version}
    \/ index.ver = Old /\ pres = <<>> /\ \A f \in DOMAIN flows : Index(f).st # "completed"

OneText == Calm => RowAgrees /\ (\A f \in DOMAIN flows : FlowAgrees(f)) /\ PresAgree /\ ChromaAgrees

TextInv == TextShapes /\ PlacesFind /\ OneRoute /\ OneText

LEMMA TextInvInit == TextInit => TextInv
<1>. SUFFICES ASSUME TextInit PROVE TextInv
  OBVIOUS
<1>1. flows = <<>> /\ pres = <<>> /\ DOMAIN flows = {} /\ DOMAIN pres = {} /\ Len(flows) = 0 /\ Len(pres) = 0
  BY DEF TextInit
<1>2. TextShapes
  <2>1. index \in [ver: Versions, sweepable: BOOLEAN]
    <3>1. index \in {[ver |-> 0, sweepable |-> FALSE], [ver |-> 1, sweepable |-> FALSE], [ver |-> 1, sweepable |-> TRUE]}
      BY DEF TextInit, NoIndex, None, Old
    <3>2. \A v \in {0, 1}, b \in BOOLEAN : [ver |-> v, sweepable |-> b] \in [ver: Versions, sweepable: BOOLEAN]
      BY DEF Versions, None, Old, New
    <3>3. FALSE \in BOOLEAN /\ TRUE \in BOOLEAN /\ 0 \in {0, 1} /\ 1 \in {0, 1}
      OBVIOUS
    <3>. QED
      BY <3>1, <3>2, <3>3, Zenon
  <2>4. row \in [ver: Versions, found: Finds]
    <3>1. row \in [ver: {None, Old}, found: Finds]
      BY DEF TextInit
    <3>. QED
      BY <3>1 DEF Versions
  <2>5. dropped \in BOOLEAN /\ asked \in [force: BOOLEAN, gate: BOOLEAN, mentions: [{Old, New} -> BOOLEAN]]
    BY DEF TextInit
  <2>2. blows \in [crashes: 0..MaxCrashes, calls: 0..MaxBlows]
    BY TextAssumption DEF TextInit
  <2>3. parser \in [st: {"waiting", "active", "completed", "failed"},
                    pc: {"look", "delete", "route", "return"}, has: BOOLEAN]
    BY DEF TextInit
  <2>6. parser.st = "waiting" /\ parser.pc = "look"
    BY DEF TextInit
  <2>. QED
    BY <1>1, <2>1, <2>2, <2>3, <2>4, <2>5, <2>6 DEF TextShapes
<1>3. PlacesFind
  BY <1>1 DEF TextInit, PlacesFind, RouteFinds, InRow, NoIndex, None, Old
<1>4. OneRoute
  BY <1>1 DEF TextInit, OneRoute
<1>5. OneText
  BY <1>1 DEF TextInit, OneText, RowAgrees, PresAgree, ChromaAgrees, Version, NoIndex
<1>. QED
  BY <1>2, <1>3, <1>4, <1>5 DEF TextInv

LEMMA TextInvImplies == TextInv => TextArrives
<1>. SUFFICES ASSUME TextInv PROVE TextArrives
  OBVIOUS
<1>1. TextIsFound
  <2>1. \A f \in DOMAIN flows : Index(f).att \in Nat /\ (Index(f).att <= blows.calls \/ dropped)
    BY FlowFields DEF TextInv, PlacesFind, FlowFinds, IndexJob
  <2>2. blows.calls \in Nat
    BY DEF TextInv, TextShapes
  <2>. QED
    BY <2>1, <2>2 DEF TextIsFound, TextInv, PlacesFind, PrecheckFinds
<1>2. OneTextPerRun
  <2>1. index.sweepable => dropped \/ row.ver # None
    BY DEF TextInv, PlacesFind, InRow
  <2>2. ASSUME Calm PROVE (\A f \in DOMAIN flows : GateAgrees(f)) /\ (\A p \in DOMAIN pres : PrecheckAgrees(p))
    <3>1. /\ \A f \in DOMAIN flows : FlowAgrees(f)
          /\ PresAgree /\ ChromaAgrees
      BY <2>2 DEF TextInv, OneText
    <3>2. \A f \in DOMAIN flows : GateAgrees(f)
      BY <3>1 DEF FlowAgrees, GateAgrees
    <3>3. \A p \in DOMAIN pres : PrecheckAgrees(p)
      BY <3>1 DEF PrecheckAgrees, PresAgree, ChromaAgrees, TextInv, TextShapes
    <3>. QED
      BY <3>2, <3>3
  <2>3. blows.crashes \in Nat
    BY DEF TextInv, TextShapes
  <2>. QED
    BY <2>1, <2>2, <2>3 DEF OneTextPerRun, Calm
<1>3. OnePrecheck
  BY DEF OnePrecheck, TextInv, OneRoute, TextShapes
<1>. QED
  BY <1>1, <1>2, <1>3 DEF TextArrives

-----------------------------------------------------------------------------
\* What keeps the invariant in a step of one flow.

LEMMA AfterBecoming ==
    ASSUME TextShapes, NEW f \in DOMAIN flows, NEW d, NEW k, NEW i, NEW g, Becomes(f, d, k, i, g)
    PROVE  /\ flows' \in Seq(Flow) /\ DOMAIN flows' = DOMAIN flows /\ Len(flows') = Len(flows)
           /\ Docling(f)' = d /\ flows'[f].kept = k /\ Index(f)' = i /\ Gate(f)' = g
           /\ \A h \in DOMAIN flows : h # f => /\ flows'[h] = flows[h]
                                               /\ Docling(h)' = Docling(h) /\ Index(h)' = Index(h) /\ Gate(h)' = Gate(h)
           /\ (flows[f].kept => k) /\ OnlyKept => OnlyKept'
  BY DEF Becomes, Docling, Index, Gate, OnlyKept

LEMMA Added ==
    ASSUME TextShapes, NEW c \in Versions, pres' = Append(pres, PrecheckJob(c))
    PROVE  /\ pres' \in Seq(Precheck) /\ Len(pres') = Len(pres) + 1 /\ pres' # <<>>
           /\ DOMAIN pres' = DOMAIN pres \cup {Len(pres) + 1} /\ Len(pres) + 1 \notin DOMAIN pres
           /\ pres'[Len(pres) + 1] = PrecheckJob(c)
           /\ \A p \in DOMAIN pres : pres'[p] = pres[p]
<1>1. PrecheckJob(c) \in Precheck
  BY TextAssumption DEF PrecheckJob, Precheck, Versions, None, Old, New
<1>2. pres \in Seq(Precheck)
  BY DEF TextShapes
<1>. QED
  BY <1>1, <1>2

\* What was found is still found.
Later ==
    /\ dropped => dropped'
    /\ InRow => InRow'
    /\ OnlyKept => OnlyKept'
    /\ blows.calls <= blows'.calls

LEMMA StillFinds ==
    ASSUME TextInv, Later, blows' \in [crashes: 0..MaxCrashes, calls: 0..MaxBlows],
           NEW h \in DOMAIN flows, flows'[h] = flows[h]
    PROVE  FlowFinds(h)'
<1>1. Docling(h)' = Docling(h) /\ Index(h)' = Index(h) /\ Gate(h)' = Gate(h) /\ flows'[h].kept = flows[h].kept
  BY DEF Docling, Index, Gate
<1>2. FlowFinds(h) /\ Index(h).att \in Nat /\ blows.calls \in Nat /\ blows'.calls \in Nat
  BY FlowFields, TextAssumption DEF TextInv, PlacesFind, IndexJob, TextShapes
<1>. QED
  BY <1>1, <1>2 DEF FlowFinds, Later, Stored

LEMMA StillFindsToo ==
    ASSUME TextInv, Later, NEW p \in DOMAIN pres, pres'[p] = pres[p]
    PROVE  PrecheckFinds(p)'
  BY DEF PrecheckFinds, Later, Stored, TextInv, PlacesFind

LEMMA PresStillFind ==
    ASSUME TextInv, Later,
           \/ pres' = pres
           \/ \E c \in Versions : pres' = Append(pres, PrecheckJob(c)) /\ (c # None \/ Stored')
    PROVE  /\ pres' \in Seq(Precheck) /\ \A p \in DOMAIN pres' : PrecheckFinds(p)'
           /\ \A p \in DOMAIN pres' : pres'[p].st = "waiting" => pres'[p].att < Tries
<1>1. CASE pres' = pres
  BY <1>1, StillFindsToo DEF TextInv, TextShapes
<1>2. ASSUME NEW c \in Versions, pres' = Append(pres, PrecheckJob(c)), c # None \/ Stored'
      PROVE  /\ pres' \in Seq(Precheck) /\ \A p \in DOMAIN pres' : PrecheckFinds(p)'
             /\ \A p \in DOMAIN pres' : pres'[p].st = "waiting" => pres'[p].att < Tries
  <2>1. PICK n : /\ pres' \in Seq(Precheck) /\ DOMAIN pres' = DOMAIN pres \cup {n}
                 /\ pres'[n] = PrecheckJob(c)
                 /\ \A p \in DOMAIN pres : pres'[p] = pres[p]
    BY <1>2, Added DEF TextInv
  <2>2. PrecheckFinds(n)'
    BY <1>2, <2>1 DEF PrecheckFinds, PrecheckJob
  <2>3. \A p \in DOMAIN pres : PrecheckFinds(p)'
    BY <2>1, StillFindsToo
  <2>4. \A p \in DOMAIN pres' : pres'[p].st = "waiting" => pres'[p].att < Tries
    BY <2>1, TextAssumption DEF TextInv, TextShapes, PrecheckJob
  <2>. QED
    BY <2>1, <2>2, <2>3, <2>4
<1>. QED
  BY <1>1, <1>2

LEMMA FlowStepFinds ==
    ASSUME TextInv, NEW f \in DOMAIN flows, NEW d, NEW k, NEW i, NEW g, Becomes(f, d, k, i, g),
           flows[f].kept => k,
           i.st \in {"waiting", "active"} => i.att < Tries,
           FlowFinds(f)',
           UNCHANGED <<asked, parser, dropped>>,
           row' \in [ver: Versions, found: Finds], row.ver # None => row'.ver # None,
           index' \in [ver: Versions, sweepable: BOOLEAN], index' = index \/ index'.ver # None,
           index'.sweepable => InRow',
           blows' \in [crashes: 0..MaxCrashes, calls: 0..MaxBlows], blows.calls <= blows'.calls,
           \/ pres' = pres
           \/ \E c \in Versions : pres' = Append(pres, PrecheckJob(c)) /\ (c # None \/ Stored')
    PROVE  TextShapes' /\ PlacesFind'
<1>1. /\ flows' \in Seq(Flow) /\ DOMAIN flows' = DOMAIN flows /\ Index(f)' = i
      /\ \A h \in DOMAIN flows : h # f => flows'[h] = flows[h] /\ Index(h)' = Index(h)
      /\ OnlyKept => OnlyKept'
  BY AfterBecoming DEF TextInv
<1>2. Later
  BY <1>1 DEF Later, InRow
<1>3. /\ pres' \in Seq(Precheck) /\ \A p \in DOMAIN pres' : PrecheckFinds(p)'
      /\ \A p \in DOMAIN pres' : pres'[p].st = "waiting" => pres'[p].att < Tries
  BY <1>2, PresStillFind
<1>4. \A h \in DOMAIN flows' : FlowFinds(h)'
  BY <1>1, <1>2, StillFinds
<1>5. \A h \in DOMAIN flows' : Index(h)'.st \in {"waiting", "active"} => Index(h)'.att < Tries
  BY <1>1 DEF TextInv, TextShapes
<1>6. TextShapes'
  BY <1>1, <1>3, <1>5 DEF TextInv, TextShapes
<1>7. RouteFinds'
  BY <1>2 DEF RouteFinds, TextInv, PlacesFind, Later
<1>8. PlacesFind'
  BY <1>3, <1>4, <1>7 DEF PlacesFind
<1>. QED
  BY <1>6, <1>8

\* While no worker has died there is one flow.
LEMMA OnlyFlow ==
    ASSUME TextInv, blows.crashes = 0, NEW f \in DOMAIN flows
    PROVE  DOMAIN flows = {f} /\ Len(flows) = 1 /\ parser.pc = "return" /\ (pres # <<>> => Turned(f))
<1>1. flows \in Seq(Flow) /\ Len(flows) <= 1 /\ (parser.pc # "return" => flows = <<>>)
  BY DEF TextInv, TextShapes, OneRoute
<1>2. Len(flows) = 1 /\ DOMAIN flows = {f} /\ flows # <<>>
  <2>1. Len(flows) \in Nat /\ DOMAIN flows = 1..Len(flows) /\ f \in 1..Len(flows)
    BY <1>1
  <2>2. Len(flows) = 1 /\ f = 1
    BY <1>1, <2>1
  <2>. QED
    BY <2>1, <2>2
<1>. QED
  BY <1>1, <1>2 DEF TextInv, OneRoute

LEMMA FlowStepRoutes ==
    ASSUME TextInv, NEW f \in DOMAIN flows, NEW d, NEW k, NEW i, NEW g, Becomes(f, d, k, i, g),
           parser' = parser, blows'.crashes = 0 => blows.crashes = 0,
           blows.crashes = 0 =>
              \/ pres' = pres /\ (Turned(f) => Turned(f)')
              \/ pres = <<>> /\ (\E c \in Versions : pres' = Append(pres, PrecheckJob(c))) /\ Turned(f)'
    PROVE  OneRoute'
<1>. SUFFICES ASSUME blows'.crashes = 0
              PROVE  /\ Len(flows') <= 1 /\ Len(pres') <= 1
                     /\ parser'.pc # "return" => flows' = <<>> /\ pres' = <<>>
                     /\ \A h \in DOMAIN flows' : pres' # <<>> => Turned(h)'
  BY DEF OneRoute
<1>1. DOMAIN flows = {f} /\ Len(flows) = 1 /\ parser.pc = "return" /\ (pres # <<>> => Turned(f))
  BY OnlyFlow
<1>2. DOMAIN flows' = {f} /\ Len(flows') = 1
  BY <1>1, AfterBecoming DEF TextInv
<1>3. Len(pres') <= 1
  <2>1. CASE pres' = pres
    BY <2>1 DEF TextInv, OneRoute
  <2>2. CASE pres = <<>> /\ (\E c \in Versions : pres' = Append(pres, PrecheckJob(c)))
    BY <2>2, Added DEF TextInv
  <2>. QED
    BY <2>1, <2>2
<1>. QED
  BY <1>1, <1>2, <1>3

LEMMA FlowStepAgrees ==
    ASSUME TextInv, NEW f \in DOMAIN flows, NEW d, NEW k, NEW i, NEW g, Becomes(f, d, k, i, g),
           dropped' = dropped, flows[f].kept => k, d = "none" <=> Docling(f) = "none",
           blows'.crashes = 0 => blows.crashes = 0,
           Calm /\ Calm' =>
              /\ row'.ver \in IF d = "done" THEN {New} ELSE {None, Old}
              /\ FlowAgrees(f)'
              /\ pres' = pres \/ \E c \in Versions \cap {None, Version} : pres' = Append(pres, PrecheckJob(c))
              /\ \/ index'.ver \in {None, Version}
                 \/ index'.ver = Old /\ pres' = <<>> /\ i.st # "completed"
    PROVE  OneText' /\ Version' = Version
<1>1. /\ DOMAIN flows' = DOMAIN flows /\ Docling(f)' = d /\ Index(f)' = i
      /\ \A h \in DOMAIN flows : h # f => Docling(h)' = Docling(h)
      /\ OnlyKept => OnlyKept'
  BY AfterBecoming DEF TextInv
<1>2. Version' = Version
  BY <1>1 DEF Version
<1>. SUFFICES ASSUME Calm' PROVE (RowAgrees /\ (\A h \in DOMAIN flows : FlowAgrees(h)) /\ PresAgree /\ ChromaAgrees)'
  BY <1>2 DEF OneText
<1>3. Calm
  BY <1>1 DEF Calm
<1>4. DOMAIN flows = {f} /\ PresAgree
  BY <1>3, OnlyFlow DEF Calm, TextInv, OneText
<1>5. RowAgrees'
  BY <1>1, <1>3, <1>4 DEF RowAgrees
<1>6. PresAgree'
  <2>1. CASE pres' = pres
    BY <1>2, <1>4, <2>1 DEF PresAgree
  <2>2. ASSUME NEW c \in Versions \cap {None, Version}, pres' = Append(pres, PrecheckJob(c)) PROVE PresAgree'
    <3>1. /\ DOMAIN pres' = DOMAIN pres \cup {Len(pres) + 1} /\ pres'[Len(pres) + 1] = PrecheckJob(c)
          /\ \A p \in DOMAIN pres : pres'[p] = pres[p]
      BY <2>2, Added DEF TextInv
    <3>. QED
      BY <1>2, <1>4, <3>1 DEF PresAgree, PrecheckJob
  <2>. QED
    BY <1>3, <2>1, <2>2
<1>7. ChromaAgrees'
  BY <1>1, <1>2, <1>3, <1>4 DEF ChromaAgrees
<1>. QED
  BY <1>1, <1>3, <1>4, <1>5, <1>6, <1>7

-----------------------------------------------------------------------------
\* The steps of a flow.

LEMMA Blown ==
    ASSUME TextShapes, Blow
    PROVE  /\ blows' \in [crashes: 0..MaxCrashes, calls: 0..MaxBlows]
           /\ blows'.crashes = blows.crashes /\ blows'.calls = blows.calls + 1 /\ blows.calls \in Nat
<1>1. PICK c \in 0..MaxCrashes, n \in 0..MaxBlows : blows = [crashes |-> c, calls |-> n]
  BY DEF TextShapes
<1>2. blows' = [crashes |-> c, calls |-> n + 1] /\ n < MaxBlows
  BY <1>1 DEF Blow
<1>3. n \in Nat /\ n + 1 \in 0..MaxBlows
  BY <1>2, TextAssumption
<1>. QED
  BY <1>1, <1>2, <1>3

LEMMA Crashed ==
    ASSUME TextShapes, Crash
    PROVE  /\ blows' \in [crashes: 0..MaxCrashes, calls: 0..MaxBlows]
           /\ blows'.crashes # 0 /\ blows'.calls = blows.calls /\ blows.calls \in Nat
  BY TextAssumption DEF TextShapes, Crash

LEMMA Values ==
    ASSUME TextShapes
    PROVE  /\ row.ver \in Versions /\ index.ver \in Versions /\ row.found \in Finds
           /\ blows.calls \in Nat /\ blows.crashes \in Nat
           /\ None # Old /\ None # New /\ Old # New /\ {None, Old, New} = Versions
           /\ Version \in Versions
  BY TextAssumption DEF TextShapes, None, Old, New, Versions, Version

\* The facts about the flow that a step changes.
LEMMA AboutFlow ==
    ASSUME TextInv, NEW f \in DOMAIN flows
    PROVE  /\ FlowFinds(f)
           /\ Calm => /\ FlowAgrees(f) /\ RowAgrees /\ ~flows[f].kept
                      /\ row.ver \in IF Docling(f) = "done" THEN {New} ELSE {None, Old}
                      /\ Version = IF Docling(f) # "none" THEN New ELSE Old
                      /\ \/ index.ver \in {None, Version}
                         \/ index.ver = Old /\ pres = <<>> /\ Index(f).st # "completed"
<1>1. FlowFinds(f)
  BY DEF TextInv, PlacesFind
<1>2. ASSUME Calm PROVE DOMAIN flows = {f}
  BY <1>2, OnlyFlow DEF Calm
<1>. QED
  BY <1>1, <1>2 DEF TextInv, OneText, RowAgrees, Version, ChromaAgrees, Calm, OnlyKept

LEMMA DoclingStep ==
    ASSUME TextInv, NEW f \in DOMAIN flows, DoclingPersists(f) \/ DoclingKeeps(f) \/ DoclingFails(f)
    PROVE  TextInv'
<1>. DEFINE d == IF DoclingFails(f) THEN "failed" ELSE "done"
<1>0. TextShapes /\ Docling(f) = "waiting" /\ Index(f) \in IndexJob /\ Gate(f) \in GateJob
      /\ UNCHANGED <<asked, parser, dropped, pres, index>>
  BY FlowFields DEF TextInv, DoclingPersists, DoclingKeeps, DoclingFails
<1>1. PICK x \in {"done", "failed"}, k \in BOOLEAN :
         /\ Becomes(f, x, k, Index(f), Gate(f)) /\ (flows[f].kept => k)
         /\ \/ x = "done" /\ k = flows[f].kept /\ blows' = blows
               /\ \E found \in {row.found, "url"} : row' = [ver |-> New, found |-> found]
            \/ x = "done" /\ k = TRUE /\ Blow /\ row' = row
            \/ x = "failed" /\ k = flows[f].kept /\ Blow /\ row' = row
  <2>1. CASE DoclingPersists(f)
    <3>1. Becomes(f, "done", flows[f].kept, Index(f), Gate(f))
      BY <1>0, <2>1, DoclingSet DEF DoclingPersists
    <3>. QED
      BY <1>0, <2>1, <3>1, FlowFields DEF DoclingPersists
  <2>2. CASE DoclingKeeps(f)
    <3>1. Becomes(f, "done", TRUE, Index(f), Gate(f))
      BY <1>0, <2>2, DoclingSet DEF DoclingKeeps
    <3>. QED
      BY <1>0, <2>2, <3>1 DEF DoclingKeeps
  <2>3. CASE DoclingFails(f)
    <3>1. Becomes(f, "failed", flows[f].kept, Index(f), Gate(f))
      BY <1>0, <2>3, DoclingSet DEF DoclingFails
    <3>. QED
      BY <1>0, <2>3, <3>1, FlowFields DEF DoclingFails
  <2>. QED
    BY <2>1, <2>2, <2>3
<1>2. /\ row' \in [ver: Versions, found: Finds] /\ (row' = row \/ row'.ver = New)
      /\ blows' \in [crashes: 0..MaxCrashes, calls: 0..MaxBlows] /\ blows.calls <= blows'.calls
      /\ blows'.crashes = blows.crashes
  BY <1>0, <1>1, Blown, Values DEF TextShapes, Finds
<1>3. InRow => InRow'
  BY <1>0, <1>2, Values DEF InRow
<1>4. /\ DOMAIN flows' = DOMAIN flows /\ Docling(f)' = x /\ flows'[f].kept = k /\ Index(f)' = Index(f) /\ Gate(f)' = Gate(f)
      /\ OnlyKept => OnlyKept'
  BY <1>0, <1>1, AfterBecoming
<1>5. FlowFinds(f)'
  <2>1. x = "done" => InRow' \/ k = TRUE
    BY <1>1, Values, <1>0 DEF InRow
  <2>2. Index(f).att \in Nat /\ blows'.calls \in Nat
    BY <1>0, <1>2, TextAssumption DEF IndexJob
  <2>. QED
    BY <1>0, <1>1, <1>2, <1>3, <1>4, <2>1, <2>2, AboutFlow, Values DEF FlowFinds, Stored
<1>6. TextShapes' /\ PlacesFind'
  <2>1. index' \in [ver: Versions, sweepable: BOOLEAN] /\ (index'.sweepable => InRow')
    BY <1>0, <1>3 DEF TextShapes, TextInv, PlacesFind
  <2>2. row.ver # None => row'.ver # None
    BY <1>0, <1>2, Values
  <2>3. Index(f).st \in {"waiting", "active"} => Index(f).att < Tries
    BY <1>0 DEF TextShapes
  <2>. QED
    BY <1>0, <1>1, <1>2, <1>5, <2>1, <2>2, <2>3, FlowStepFinds
<1>7. OneRoute'
  <2>1. Turned(f)' = Turned(f)
    BY <1>4 DEF Turned
  <2>. QED
    BY <1>0, <1>1, <1>2, <2>1, FlowStepRoutes
<1>8. OneText'
  <2>1. Calm' => (x = "failed" /\ row' = row) \/ (x = "done" /\ row'.ver = New)
    <3>1. k = TRUE => OnlyKept'
      BY <1>4 DEF OnlyKept
    <3>. QED
      BY <1>1, <3>1 DEF Calm
  <2>2. Version' = Version
    BY <1>0, <1>1, <1>4, AfterBecoming DEF Version
  <2>3. Calm /\ Calm' => FlowAgrees(f)'
    BY <1>0, <1>4, <2>2, AboutFlow DEF FlowAgrees
  <2>. QED
    BY <1>0, <1>1, <1>2, <1>4, <2>1, <2>3, AboutFlow, FlowStepAgrees
<1>. QED
  BY <1>6, <1>7, <1>8 DEF TextInv

\* A step that changes the index job or the gate of a flow and nothing but that.
LEMMA QuietStep ==
    ASSUME TextInv, NEW f \in DOMAIN flows, NEW i, NEW g, Becomes(f, Docling(f), flows[f].kept, i, g),
           UNCHANGED <<asked, parser, pres, row, index, dropped>>,
           blows' \in [crashes: 0..MaxCrashes, calls: 0..MaxBlows], blows.calls <= blows'.calls,
           blows'.crashes = 0 => blows.crashes = 0,
           i.st \in {"waiting", "active"} => i.att < Tries,
           i.st = "completed" => Index(f).st = "completed",
           blows'.crashes = 0 /\ Turned(f) => Turned(f)',
           FlowFinds(f)',
           Calm /\ Calm' => FlowAgrees(f)'
    PROVE  TextInv'
<1>1. TextShapes' /\ PlacesFind'
  <2>1. index' \in [ver: Versions, sweepable: BOOLEAN] /\ (index'.sweepable => InRow')
    BY DEF TextShapes, TextInv, PlacesFind, InRow
  <2>2. row' \in [ver: Versions, found: Finds]
    BY DEF TextShapes, TextInv
  <2>. QED
    BY <2>1, <2>2, FlowStepFinds
<1>2. OneRoute'
  <2>1. CASE blows'.crashes = 0
    BY <2>1, FlowStepRoutes
  <2>2. CASE blows'.crashes # 0
    BY <2>2 DEF OneRoute
  <2>. QED
    BY <2>1, <2>2
<1>3. OneText'
  BY AboutFlow, FlowStepAgrees
<1>. QED
  BY <1>1, <1>2, <1>3 DEF TextInv

LEMMA IndexReadsStep ==
    ASSUME TextInv, NEW f \in DOMAIN flows, IndexReads(f)
    PROVE  TextInv'
<1>0. /\ TextShapes /\ Index(f) \in IndexJob /\ Gate(f) \in GateJob
      /\ Index(f).st = "waiting" /\ Docling(f) \in {"none", "done"}
      /\ UNCHANGED <<asked, parser, pres, row, index, blows, dropped>>
  BY FlowFields DEF TextInv, IndexReads
<1>1. FlowFinds(f) /\ Index(f).att < Tries /\ blows \in [crashes: 0..MaxCrashes, calls: 0..MaxBlows]
  BY <1>0, AboutFlow DEF TextShapes
<1>2. CASE IndexText(f) = None
  <2>1. dropped
    BY <1>0, <1>1, <1>2, Values DEF FlowFinds, IndexText, First, ByIdentity, InRow
  <2>2. PICK i \in IndexJob : /\ Becomes(f, Docling(f), flows[f].kept, i, Gate(f))
                              /\ i.st \in {"waiting", "failed"} /\ i.text = Index(f).text
                              /\ i.sweepable = Index(f).sweepable /\ (i.st = "waiting" => i.att < Tries)
    BY <1>0, <1>2, IndexFailing DEF IndexReads
  <2>3. /\ Docling(f)' = Docling(f) /\ flows'[f].kept = flows[f].kept /\ Index(f)' = i /\ Gate(f)' = Gate(f)
        /\ OnlyKept => OnlyKept'
    BY <1>0, <2>2, AfterBecoming
  <2>4. FlowFinds(f)'
    BY <1>0, <1>1, <2>1, <2>2, <2>3 DEF FlowFinds, InRow, Stored
  <2>5. (Turned(f) => Turned(f)') /\ ~Calm'
    BY <1>0, <2>1, <2>3 DEF Turned, Calm
  <2>. QED
    BY <1>0, <1>1, <2>2, <2>4, <2>5, QuietStep
<1>3. CASE IndexText(f) # None
  <2>2. PICK i \in IndexJob : /\ Becomes(f, Docling(f), flows[f].kept, i, Gate(f))
                              /\ i.st = "active" /\ i.got = IndexText(f) /\ i.text = Index(f).text
                              /\ i.att = Index(f).att /\ i.sweepable = (ByIdentity # None)
    BY <1>0, <1>3, IndexReading
  <2>3. /\ Docling(f)' = Docling(f) /\ flows'[f].kept = flows[f].kept /\ Index(f)' = i /\ Gate(f)' = Gate(f)
        /\ OnlyKept => OnlyKept'
    BY <1>0, <2>2, AfterBecoming
  <2>4. Stored
    BY <1>0, <1>1, <1>3, Values DEF FlowFinds, IndexText, First, ByIdentity, InRow, Stored, OnlyKept
  <2>5. FlowFinds(f)'
    BY <1>0, <1>1, <1>3, <2>2, <2>3, <2>4 DEF FlowFinds, InRow, Stored, ByIdentity
  <2>6. ASSUME Calm, Calm' PROVE FlowAgrees(f)'
    <3>1. Version' = Version
      BY <1>0, <2>2, AfterBecoming DEF Version
    <3>2. IndexText(f) = Version
      BY <1>0, <1>1, <2>6, AboutFlow, Values DEF FlowFinds, FlowAgrees, IndexText, First, ByIdentity
    <3>. QED
      BY <1>0, <2>2, <2>3, <2>6, <3>1, <3>2, AboutFlow DEF FlowAgrees
  <2>7. Turned(f) => Turned(f)'
    BY <1>0, <2>3 DEF Turned
  <2>. QED
    BY <1>0, <1>1, <2>2, <2>5, <2>6, <2>7, QuietStep
<1>. QED
  BY <1>2, <1>3

LEMMA IndexAddFailsStep ==
    ASSUME TextInv, NEW f \in DOMAIN flows, IndexAddFails(f)
    PROVE  TextInv'
<1>0. /\ TextShapes /\ Index(f) \in IndexJob /\ Gate(f) \in GateJob
      /\ Index(f).st = "active" /\ Blow
      /\ UNCHANGED <<asked, parser, pres, row, index, dropped>>
  BY FlowFields DEF TextInv, IndexAddFails
<1>1. /\ blows' \in [crashes: 0..MaxCrashes, calls: 0..MaxBlows]
      /\ blows'.crashes = blows.crashes /\ blows'.calls = blows.calls + 1 /\ blows.calls \in Nat
  BY <1>0, Blown
<1>2. PICK i \in IndexJob : /\ Becomes(f, Docling(f), flows[f].kept, i, Gate(f))
                            /\ i.st \in {"waiting", "failed"} /\ i.text = Index(f).text /\ i.att = Index(f).att + 1
                            /\ i.sweepable = Index(f).sweepable /\ (i.st = "waiting" => i.att < Tries)
  BY <1>0, IndexFailing DEF IndexAddFails
<1>3. /\ Docling(f)' = Docling(f) /\ flows'[f].kept = flows[f].kept /\ Index(f)' = i /\ Gate(f)' = Gate(f)
      /\ OnlyKept => OnlyKept'
  BY <1>0, <1>2, AfterBecoming
<1>4. FlowFinds(f)'
  <2>1. Index(f).att \in Nat
    BY <1>0, TextAssumption DEF IndexJob
  <2>. QED
    BY <1>0, <1>1, <1>2, <1>3, <2>1, AboutFlow DEF FlowFinds, InRow, Stored
<1>5. ~Turned(f) \/ Turned(f)'
  BY <1>0, <1>3 DEF Turned
<1>6. ASSUME Calm PROVE FlowAgrees(f)'
  <2>1. Version' = Version
    BY <1>0, <1>2, AfterBecoming DEF Version
  <2>. QED
    BY <1>0, <1>2, <1>3, <1>6, <2>1, AboutFlow DEF FlowAgrees
<1>. QED
  BY <1>0, <1>1, <1>2, <1>4, <1>5, <1>6, QuietStep

LEMMA GateReadsStep ==
    ASSUME TextInv, NEW f \in DOMAIN flows, GateReads(f)
    PROVE  TextInv'
<1>0. /\ TextShapes /\ Index(f) \in IndexJob /\ Gate(f) \in GateJob
      /\ Gate(f).st = "waiting" /\ Index(f).st \in {"none", "completed"}
      /\ UNCHANGED <<asked, parser, pres, row, index, blows, dropped>>
  BY FlowFields DEF TextInv, GateReads
<1>1. FlowFinds(f) /\ blows \in [crashes: 0..MaxCrashes, calls: 0..MaxBlows]
  BY <1>0, AboutFlow DEF TextShapes
<1>2. PICK g \in GateJob : /\ Becomes(f, Docling(f), flows[f].kept, Index(f), g)
                           /\ g.st = "active" /\ g.text = Gate(f).text /\ g.got = GateText(f)
  BY <1>0, GateReading
<1>3. /\ Docling(f)' = Docling(f) /\ flows'[f].kept = flows[f].kept /\ Index(f)' = Index(f) /\ Gate(f)' = g
      /\ OnlyKept => OnlyKept'
  BY <1>0, <1>2, AfterBecoming
<1>4. Stored
  BY <1>0, <1>1 DEF FlowFinds, Stored
<1>5. FlowFinds(f)'
  BY <1>0, <1>1, <1>2, <1>3, <1>4 DEF FlowFinds, InRow, Stored
<1>6. ASSUME Calm PROVE FlowAgrees(f)'
  <2>1. Version' = Version
    BY <1>0, <1>2, AfterBecoming DEF Version
  <2>2. row.ver \in {None, Version} /\ Gate(f).text \in {None, Version}
    <3>1. Docling(f) \in {"none", "done"}
      BY <1>0, <1>6, AboutFlow, FlowFields DEF FlowAgrees
    <3>. QED
      BY <1>6, <3>1, AboutFlow DEF FlowAgrees
  <2>3. GateText(f) \in {None, Version}
    BY <2>2 DEF GateText, First, ByUrl
  <2>. QED
    BY <1>0, <1>2, <1>3, <1>6, <2>1, <2>3, AboutFlow DEF FlowAgrees
<1>7. Turned(f) => Turned(f)'
  BY <1>0, <1>3 DEF Turned
<1>8. Index(f).st \in {"waiting", "active"} => Index(f).att < Tries
  BY <1>0
<1>. QED
  BY <1>0, <1>1, <1>2, <1>5, <1>6, <1>7, <1>8, QuietStep

LEMMA GateTurnsStep ==
    ASSUME TextInv, NEW f \in DOMAIN flows, GateStops(f) \/ GateReturns(f)
    PROVE  TextInv'
<1>0. /\ TextShapes /\ Index(f) \in IndexJob /\ Gate(f) \in GateJob
      /\ UNCHANGED <<asked, parser, pres, row, index, blows, dropped>>
  BY FlowFields DEF TextInv, GateStops, GateReturns
<1>1. FlowFinds(f) /\ blows \in [crashes: 0..MaxCrashes, calls: 0..MaxBlows]
      /\ (Index(f).st \in {"waiting", "active"} => Index(f).att < Tries)
  BY <1>0, AboutFlow DEF TextShapes
<1>2. PICK s \in {"told", "gated", "passed", "waiting"} :
         /\ SetGate(f, [Gate(f) EXCEPT !.st = s])
         /\ (Gate(f).st = "active" /\ s = "gated") \/ (Gate(f).st = "told" /\ s = "passed")
  BY DEF GateStops, GateReturns
<1>3. PICK g \in GateJob : /\ Becomes(f, Docling(f), flows[f].kept, Index(f), g)
                           /\ g.st = s /\ g.text = Gate(f).text /\ g.got = Gate(f).got
  BY <1>0, <1>2, GateTurns
<1>4. /\ Docling(f)' = Docling(f) /\ flows'[f].kept = flows[f].kept /\ Index(f)' = Index(f) /\ Gate(f)' = g
      /\ OnlyKept => OnlyKept'
  BY <1>0, <1>3, AfterBecoming
<1>5. FlowFinds(f)'
  BY <1>0, <1>1, <1>2, <1>3, <1>4 DEF FlowFinds, InRow, Stored
<1>6. ASSUME Calm PROVE FlowAgrees(f)'
  <2>1. Version' = Version
    BY <1>0, <1>3, AfterBecoming DEF Version
  <2>. QED
    BY <1>0, <1>2, <1>3, <1>4, <1>6, <2>1, AboutFlow DEF FlowAgrees
<1>7. Turned(f) => Turned(f)'
  BY <1>0, <1>2, <1>3, <1>4 DEF Turned
<1>. QED
  BY <1>0, <1>1, <1>3, <1>5, <1>6, <1>7, QuietStep

LEMMA FlowJobDiesStep ==
    ASSUME TextInv, NEW f \in DOMAIN flows, FlowJobDies(f)
    PROVE  TextInv'
<1>0. /\ TextShapes /\ Index(f) \in IndexJob /\ Gate(f) \in GateJob /\ Crash
      /\ UNCHANGED <<asked, parser, pres, row, index, dropped>>
  BY FlowFields DEF TextInv, FlowJobDies
<1>1. /\ FlowFinds(f) /\ (Index(f).st \in {"waiting", "active"} => Index(f).att < Tries)
      /\ blows' \in [crashes: 0..MaxCrashes, calls: 0..MaxBlows]
      /\ blows'.crashes # 0 /\ blows'.calls = blows.calls /\ blows.calls \in Nat /\ ~Calm'
  BY <1>0, AboutFlow, Crashed DEF TextShapes, Calm
<1>2. CASE Index(f).st = "active" /\ SetIndex(f, [Index(f) EXCEPT !.st = "waiting"])
  <2>1. PICK i \in IndexJob : /\ Becomes(f, Docling(f), flows[f].kept, i, Gate(f))
                              /\ i.st = "waiting" /\ i.text = Index(f).text
                              /\ i.att = Index(f).att /\ i.sweepable = Index(f).sweepable
    BY <1>0, <1>2, IndexTurns
  <2>2. /\ Docling(f)' = Docling(f) /\ flows'[f].kept = flows[f].kept /\ Index(f)' = i /\ Gate(f)' = Gate(f)
        /\ OnlyKept => OnlyKept'
    BY <1>0, <2>1, AfterBecoming
  <2>3. FlowFinds(f)'
    BY <1>0, <1>1, <1>2, <2>1, <2>2 DEF FlowFinds, InRow, Stored
  <2>. QED
    BY <1>0, <1>1, <1>2, <2>1, <2>3, QuietStep
<1>3. CASE Gate(f).st \in {"active", "told"} /\ SetGate(f, [Gate(f) EXCEPT !.st = "waiting"])
  <2>1. PICK g \in GateJob : /\ Becomes(f, Docling(f), flows[f].kept, Index(f), g)
                             /\ g.st = "waiting" /\ g.text = Gate(f).text
    BY <1>0, <1>3, GateTurns
  <2>2. /\ Docling(f)' = Docling(f) /\ flows'[f].kept = flows[f].kept /\ Index(f)' = Index(f) /\ Gate(f)' = g
        /\ OnlyKept => OnlyKept'
    BY <1>0, <2>1, AfterBecoming
  <2>3. FlowFinds(f)'
    BY <1>0, <1>1, <1>3, <2>1, <2>2 DEF FlowFinds, InRow, Stored
  <2>. QED
    BY <1>0, <1>1, <2>1, <2>3, QuietStep
<1>. QED
  BY <1>2, <1>3 DEF FlowJobDies

LEMMA IndexAddsStep ==
    ASSUME TextInv, NEW f \in DOMAIN flows, IndexAdds(f)
    PROVE  TextInv'
<1>0. /\ TextShapes /\ Index(f) \in IndexJob /\ Gate(f) \in GateJob /\ Index(f).st = "active"
      /\ index' = [ver |-> Index(f).got, sweepable |-> Index(f).sweepable]
      /\ UNCHANGED <<asked, parser, row, blows, dropped>>
  BY FlowFields DEF TextInv, IndexAdds
<1>1. /\ FlowFinds(f) /\ row \in [ver: Versions, found: Finds]
      /\ blows \in [crashes: 0..MaxCrashes, calls: 0..MaxBlows]
  BY <1>0, AboutFlow DEF TextShapes
<1>2. PICK i \in IndexJob : /\ Becomes(f, Docling(f), flows[f].kept, i, Gate(f))
                            /\ i.st = "completed" /\ i.got = Index(f).got /\ i.text = Index(f).text
                            /\ i.att = Index(f).att /\ i.sweepable = Index(f).sweepable
  BY <1>0, IndexTurns DEF IndexAdds
<1>3. /\ Docling(f)' = Docling(f) /\ flows'[f].kept = flows[f].kept /\ Index(f)' = i /\ Gate(f)' = Gate(f)
      /\ OnlyKept => OnlyKept'
  BY <1>0, <1>2, AfterBecoming
<1>4. Stored /\ Stored'
  BY <1>0, <1>1, <1>3 DEF FlowFinds, Stored, InRow
<1>5. FlowFinds(f)'
  BY <1>0, <1>1, <1>2, <1>3, <1>4 DEF FlowFinds, InRow
<1>6. \/ Gate(f).st # "none" /\ pres' = pres
      \/ Gate(f).st = "none" /\ pres' = Append(pres, PrecheckJob(None))
  BY DEF IndexAdds, ParentOf
<1>7. None \in Versions
  BY DEF Versions
<1>8. TextShapes' /\ PlacesFind'
  <2>1. index' \in [ver: Versions, sweepable: BOOLEAN] /\ index'.ver # None /\ (index'.sweepable => InRow')
    BY <1>0, <1>1 DEF IndexJob, FlowFinds, InRow
  <2>. QED
    BY <1>0, <1>1, <1>2, <1>4, <1>5, <1>6, <1>7, <2>1, FlowStepFinds
<1>9. OneRoute'
  <2>1. Gate(f).st = "none" => Turned(f)' /\ ~Turned(f)
    BY <1>0, <1>2, <1>3 DEF Turned
  <2>2. Turned(f) => Turned(f)'
    BY <1>0, <1>2, <1>3 DEF Turned
  <2>3. blows.crashes = 0 /\ Gate(f).st = "none" => pres = <<>>
    BY <2>1, OnlyFlow
  <2>. QED
    BY <1>0, <1>2, <1>6, <1>7, <2>1, <2>2, <2>3, FlowStepRoutes
<1>10. OneText'
  <2>1. ASSUME Calm
        PROVE  /\ row'.ver \in IF Docling(f) = "done" THEN {New} ELSE {None, Old}
               /\ FlowAgrees(f)' /\ index'.ver = Version
    <3>1. Version' = Version
      BY <1>0, <1>2, AfterBecoming DEF Version
    <3>. QED
      BY <1>0, <1>2, <1>3, <2>1, <3>1, AboutFlow DEF FlowAgrees
  <2>2. None \in Versions \cap {None, Version}
    BY <1>7
  <2>. QED
    BY <1>0, <1>2, <1>6, <2>1, <2>2, FlowStepAgrees
<1>. QED
  BY <1>8, <1>9, <1>10 DEF TextInv

LEMMA GateAddsStep ==
    ASSUME TextInv, NEW f \in DOMAIN flows, GateAdds(f)
    PROVE  TextInv'
<1>0. /\ TextShapes /\ Index(f) \in IndexJob /\ Gate(f) \in GateJob /\ Gate(f).st = "active"
      /\ pres' = Append(pres, PrecheckJob(Gate(f).got)) /\ Gate(f).got \in Versions
      /\ UNCHANGED <<asked, parser, row, index, blows, dropped>>
  BY FlowFields DEF TextInv, GateAdds, GateJob
<1>1. /\ FlowFinds(f) /\ row \in [ver: Versions, found: Finds]
      /\ blows \in [crashes: 0..MaxCrashes, calls: 0..MaxBlows]
      /\ (Index(f).st \in {"waiting", "active"} => Index(f).att < Tries)
  BY <1>0, AboutFlow DEF TextShapes
<1>2. PICK g \in GateJob : /\ Becomes(f, Docling(f), flows[f].kept, Index(f), g)
                           /\ g.st = "told" /\ g.text = Gate(f).text /\ g.got = Gate(f).got
  BY <1>0, GateTurns DEF GateAdds
<1>3. /\ Docling(f)' = Docling(f) /\ flows'[f].kept = flows[f].kept /\ Index(f)' = Index(f) /\ Gate(f)' = g
      /\ OnlyKept => OnlyKept'
  BY <1>0, <1>2, AfterBecoming
<1>4. Stored /\ Stored'
  BY <1>0, <1>1, <1>3 DEF FlowFinds, Stored, InRow
<1>5. FlowFinds(f)'
  BY <1>0, <1>1, <1>2, <1>3, <1>4 DEF FlowFinds, InRow
<1>6. TextShapes' /\ PlacesFind'
  <2>1. index' \in [ver: Versions, sweepable: BOOLEAN] /\ (index'.sweepable => InRow')
    BY <1>0 DEF TextShapes, TextInv, PlacesFind, InRow
  <2>. QED
    BY <1>0, <1>1, <1>2, <1>4, <1>5, <2>1, FlowStepFinds
<1>7. OneRoute'
  <2>1. Turned(f)' /\ ~Turned(f)
    BY <1>0, <1>2, <1>3 DEF Turned
  <2>2. blows.crashes = 0 => pres = <<>>
    BY <2>1, OnlyFlow
  <2>. QED
    BY <1>0, <1>2, <2>1, <2>2, FlowStepRoutes
<1>8. OneText'
  <2>1. ASSUME Calm
        PROVE  /\ row'.ver \in IF Docling(f) = "done" THEN {New} ELSE {None, Old}
               /\ FlowAgrees(f)' /\ Gate(f).got \in Versions \cap {None, Version}
               /\ index'.ver \in {None, Version}
    <3>1. Version' = Version
      BY <1>0, <1>2, AfterBecoming DEF Version
    <3>2. FlowAgrees(f)'
      BY <1>0, <1>2, <1>3, <2>1, <3>1, AboutFlow DEF FlowAgrees
    <3>3. index.ver \in {None, Version}
      BY <1>0, <2>1, AboutFlow DEF FlowAgrees, FlowFinds
    <3>. QED
      BY <1>0, <2>1, <3>2, <3>3, AboutFlow DEF FlowAgrees
  <2>. QED
    BY <1>0, <1>2, <2>1, FlowStepAgrees
<1>. QED
  BY <1>6, <1>7, <1>8 DEF TextInv

-----------------------------------------------------------------------------
\* The steps of the other jobs and of the surroundings.  None of them changes a flow that is there.

ParserJob == [st: {"waiting", "active", "completed", "failed"},
              pc: {"look", "delete", "route", "return"}, has: BOOLEAN]

\* A step that leaves the flows as they are.
LEMMA AsideStep ==
    ASSUME TextInv, UNCHANGED <<asked, flows>>,
           parser' \in ParserJob, parser'.st = "waiting" => parser'.pc = "look",
           parser'.pc = "delete" => asked.force,
           row' \in [ver: Versions, found: Finds], index' \in [ver: Versions, sweepable: BOOLEAN],
           blows' \in [crashes: 0..MaxCrashes, calls: 0..MaxBlows], dropped' \in BOOLEAN,
           dropped => dropped', InRow => InRow', blows.calls <= blows'.calls,
           index'.sweepable => InRow', RouteFinds',
           \/ pres' = pres
           \/ \E c \in Versions : pres' = Append(pres, PrecheckJob(c)) /\ (c # None \/ Stored')
    PROVE  TextShapes' /\ PlacesFind'
<1>1. Later
  BY DEF Later, OnlyKept
<1>2. /\ pres' \in Seq(Precheck) /\ \A p \in DOMAIN pres' : PrecheckFinds(p)'
      /\ \A p \in DOMAIN pres' : pres'[p].st = "waiting" => pres'[p].att < Tries
  BY <1>1, PresStillFind
<1>3. TextShapes'
  BY <1>2 DEF TextInv, TextShapes, Index, ParserJob
<1>4. \A f \in DOMAIN flows' : FlowFinds(f)'
  BY <1>1, StillFinds
<1>. QED
  BY <1>2, <1>3, <1>4 DEF PlacesFind

\* One that leaves the prechecks as they are too.
LEMMA SameJobs ==
    ASSUME TextInv, UNCHANGED <<flows, pres>>,
           parser'.pc # "return" => parser.pc # "return", blows'.crashes = 0 => blows.crashes = 0,
           Calm' => Calm /\ row'.ver = row.ver /\ (index' = index \/ index'.ver = None)
    PROVE  OneRoute' /\ OneText'
<1>1. OneRoute'
  BY DEF OneRoute, TextInv, Turned, Gate, Index
<1>2. ASSUME Calm' PROVE (RowAgrees /\ (\A h \in DOMAIN flows : FlowAgrees(h)) /\ PresAgree /\ ChromaAgrees)'
  <2>1. Calm /\ RowAgrees /\ (\A h \in DOMAIN flows : FlowAgrees(h)) /\ PresAgree /\ ChromaAgrees
    BY <1>2 DEF TextInv, OneText
  <2>2. Version' = Version
    BY DEF Version, Docling
  <2>3. RowAgrees' /\ \A h \in DOMAIN flows' : FlowAgrees(h)'
    BY <1>2, <2>1, <2>2 DEF RowAgrees, FlowAgrees, Docling, Index, Gate
  <2>4. PresAgree' /\ ChromaAgrees'
    BY <1>2, <2>1, <2>2 DEF PresAgree, ChromaAgrees, Index
  <2>. QED
    BY <2>3, <2>4
<1>. QED
  BY <1>1, <1>2 DEF OneText

\* What the parser sees when nothing but the parser moves.
LEMMA ParserStep ==
    ASSUME TextInv, UNCHANGED <<asked, flows, pres, row, dropped>>,
           parser' \in ParserJob, parser'.st = "waiting" => parser'.pc = "look",
           parser'.pc = "delete" => asked.force,
           parser'.pc # "return" => parser.pc # "return" \/ blows'.crashes # 0,
           parser'.st = "active" /\ parser'.pc = "route" /\ parser'.has => asked.force \/ index'.ver # None,
           index' = index \/ index' = NoIndex,
           blows' = blows \/ Blow \/ Crash
    PROVE  TextInv'
<1>0. /\ TextShapes /\ blows' \in [crashes: 0..MaxCrashes, calls: 0..MaxBlows]
      /\ blows.calls <= blows'.calls /\ (blows'.crashes = 0 => blows.crashes = 0)
  <2>1. TextShapes
    BY DEF TextInv
  <2>. QED
    BY <2>1, Blown, Crashed DEF TextShapes, Blow, Crash
<1>1. /\ row \in [ver: Versions, found: Finds] /\ dropped \in BOOLEAN
      /\ index' \in [ver: Versions, sweepable: BOOLEAN] /\ (index'.sweepable => InRow')
  <2>1. NoIndex \in [ver: Versions, sweepable: BOOLEAN] /\ ~NoIndex.sweepable
    BY DEF NoIndex, Versions
  <2>2. index \in [ver: Versions, sweepable: BOOLEAN] /\ (index.sweepable => InRow)
    BY <1>0 DEF TextShapes, TextInv, PlacesFind
  <2>. QED
    BY <1>0, <2>1, <2>2 DEF TextShapes, InRow
<1>2. RouteFinds'
  BY DEF RouteFinds
<1>3. TextShapes' /\ PlacesFind'
  BY <1>0, <1>1, <1>2, AsideStep DEF InRow
<1>4. CASE blows'.crashes = 0
  <2>1. index' = index \/ index'.ver = None
    BY DEF NoIndex
  <2>2. Calm' => Calm
    BY <1>0 DEF Calm, OnlyKept
  <2>. QED
    BY <1>0, <1>3, <1>4, <2>1, <2>2, SameJobs DEF TextInv
<1>5. CASE blows'.crashes # 0
  BY <1>3, <1>5 DEF TextInv, OneRoute, OneText, Calm
<1>. QED
  BY <1>4, <1>5

LEMMA ParserSteps ==
    ASSUME TextInv, Look \/ DeleteIndex \/ RouteFails \/ ParserReturns \/ ParserDies
    PROVE  TextInv'
<1>0. /\ TextShapes /\ parser \in ParserJob /\ UNCHANGED <<asked, flows, pres, row, dropped>>
      /\ (parser.st = "waiting" => parser.pc = "look") /\ (parser.pc = "delete" => asked.force)
      /\ asked.force \in BOOLEAN
  BY DEF TextInv, TextShapes, ParserJob, Look, DeleteIndex, RouteFails, ParserReturns, ParserDies
<1>1. CASE Look
  <2>1. CASE /\ parser' = [st |-> "active", pc |-> IF asked.force THEN "delete" ELSE "route", has |-> index.ver # None]
             /\ UNCHANGED blows
    <3>1. parser' \in ParserJob
      BY <2>1 DEF ParserJob
    <3>. QED
      BY <1>0, <1>1, <2>1, <3>1, ParserStep DEF Look
  <2>2. CASE Blow /\ parser' = [parser EXCEPT !.st = "failed"]
    <3>1. parser' \in ParserJob /\ parser'.st = "failed" /\ parser'.pc = parser.pc
      BY <1>0, <2>2 DEF ParserJob
    <3>. QED
      BY <1>0, <1>1, <2>2, <3>1, ParserStep DEF Look
  <2>. QED
    BY <1>1, <2>1, <2>2 DEF Look
<1>2. CASE DeleteIndex
  <2>1. parser' \in ParserJob /\ parser'.st = "active" /\ parser'.pc = "route"
    BY <1>0, <1>2 DEF ParserJob, DeleteIndex
  <2>2. parser.pc = "delete" /\ (index' = index \/ index' = NoIndex) /\ (blows' = blows \/ Blow)
    BY <1>2 DEF DeleteIndex
  <2>. QED
    BY <1>0, <2>1, <2>2, ParserStep
<1>3. CASE RouteFails
  <2>1. parser' \in ParserJob /\ parser'.st = "failed" /\ parser'.pc = parser.pc
    BY <1>0, <1>3 DEF ParserJob, RouteFails
  <2>. QED
    BY <1>0, <1>3, <2>1, ParserStep DEF RouteFails
<1>4. CASE ParserReturns
  <2>1. parser' \in ParserJob /\ parser'.st = "completed" /\ parser'.pc = parser.pc
    BY <1>0, <1>4 DEF ParserJob, ParserReturns
  <2>. QED
    BY <1>0, <1>4, <2>1, ParserStep DEF ParserReturns
<1>5. CASE ParserDies
  <2>1. parser' \in ParserJob /\ parser'.st = "waiting" /\ parser'.pc = "look"
    BY <1>0, <1>5 DEF ParserJob, ParserDies
  <2>2. blows'.crashes # 0 /\ Crash /\ index' = index
    BY <1>0, <1>5, Crashed DEF ParserDies
  <2>. QED
    BY <1>0, <2>1, <2>2, ParserStep
<1>. QED
  BY <1>1, <1>2, <1>3, <1>4, <1>5

LEMMA RowRemovedStep == ASSUME TextInv, RowRemoved PROVE TextInv'
<1>0. TextShapes /\ dropped' = TRUE /\ UNCHANGED <<asked, parser, flows, pres, index, blows>>
  BY DEF TextInv, RowRemoved
<1>1. row' \in [ver: Versions, found: Finds]
  BY <1>0 DEF TextShapes, RowRemoved, Versions
<1>2. TextShapes' /\ PlacesFind'
  <2>1. /\ parser \in ParserJob /\ index \in [ver: Versions, sweepable: BOOLEAN]
        /\ blows \in [crashes: 0..MaxCrashes, calls: 0..MaxBlows] /\ blows.calls \in Nat
        /\ (parser.st = "waiting" => parser.pc = "look") /\ (parser.pc = "delete" => asked.force)
    BY <1>0, Values DEF TextShapes, ParserJob
  <2>2. InRow' /\ RouteFinds'
    BY <1>0 DEF InRow, RouteFinds
  <2>. QED
    BY <1>0, <1>1, <2>1, <2>2, AsideStep
<1>3. OneRoute' /\ OneText'
  BY <1>0, SameJobs DEF Calm
<1>. QED
  BY <1>2, <1>3 DEF TextInv

LEMMA SweepStep == ASSUME TextInv, Sweep PROVE TextInv'
<1>0. TextShapes /\ index' = NoIndex /\ InRow /\ UNCHANGED <<asked, parser, flows, pres, row, blows, dropped>>
  BY DEF TextInv, PlacesFind, Sweep
<1>1. /\ index' \in [ver: Versions, sweepable: BOOLEAN] /\ ~index'.sweepable /\ index'.ver = None
      /\ InRow' /\ RouteFinds'
  BY <1>0 DEF NoIndex, Versions, InRow, RouteFinds
<1>2. TextShapes' /\ PlacesFind'
  <2>1. /\ parser \in ParserJob /\ row \in [ver: Versions, found: Finds] /\ dropped \in BOOLEAN
        /\ blows \in [crashes: 0..MaxCrashes, calls: 0..MaxBlows] /\ blows.calls \in Nat
        /\ (parser.st = "waiting" => parser.pc = "look") /\ (parser.pc = "delete" => asked.force)
    BY <1>0, Values DEF TextShapes, ParserJob
  <2>. QED
    BY <1>0, <1>1, <2>1, AsideStep
<1>3. OneRoute' /\ OneText'
  <2>1. Calm' => Calm
    BY <1>0 DEF Calm, OnlyKept
  <2>. QED
    BY <1>0, <1>1, <2>1, SameJobs
<1>. QED
  BY <1>2, <1>3 DEF TextInv

LEMMA TextStutters == ASSUME TextInv, UNCHANGED tvars PROVE TextInv'
  BY DEF TextInv, tvars, TextShapes, PlacesFind, FlowFinds, PrecheckFinds, RouteFinds, InRow, Stored, OnlyKept,
         OneRoute, Turned, OneText, Calm, RowAgrees, FlowAgrees, PresAgree, ChromaAgrees, Version,
         Docling, Index, Gate

\* The route.
LEMMA FlowAdded ==
    ASSUME TextShapes, NEW x \in Flow, flows' = Append(flows, x)
    PROVE  \E n : /\ flows' \in Seq(Flow) /\ Len(flows') = Len(flows) + 1 /\ DOMAIN flows' = DOMAIN flows \cup {n}
                  /\ n \notin DOMAIN flows /\ flows'[n] = x /\ \A h \in DOMAIN flows : flows'[h] = flows[h]
<1>1. flows \in Seq(Flow)
  BY DEF TextShapes
<1>2. /\ flows' \in Seq(Flow) /\ Len(flows') = Len(flows) + 1 /\ DOMAIN flows' = DOMAIN flows \cup {Len(flows) + 1}
      /\ Len(flows) + 1 \notin DOMAIN flows
      /\ flows'[Len(flows) + 1] = x /\ \A h \in DOMAIN flows : flows'[h] = flows[h]
  BY <1>1
<1>. QED
  BY <1>2

\* A flow that is added asks Docling, or has the text of the row in the job that works first.
NewFlow(x) ==
    /\ x.kept = FALSE /\ x.idx.sweepable = FALSE /\ x.idx.att = 0
    /\ x.idx.st \in {"none", "waiting"} /\ x.gate.st \in {"none", "waiting"}
    /\ \/ x.docling = "waiting" /\ x.idx.st = "waiting" /\ x.idx.text = None /\ x.gate.text = None
       \/ /\ x.docling = "none" /\ row.ver # None
          /\ x.idx.text \in {None, row.ver} /\ x.gate.text \in {None, row.ver}
          /\ x.idx.st # "none" => x.idx.text # None
          /\ x.idx.st = "none" => x.gate.text # None

MadeOf(x, dl, st, gate, ver) ==
    /\ x \in Flow /\ x.docling = dl /\ x.kept = FALSE /\ x.idx.sweepable = FALSE /\ x.idx.att = 0
    /\ x.idx.st = st /\ x.gate.st = gate
    /\ x.idx.text = (IF st = "none" THEN None ELSE ver)
    /\ x.gate.text = (IF st = "none" THEN ver ELSE None)

LEMMA FlowsAreNew ==
    ASSUME TextShapes
    PROVE  /\ FreshFlow \in Flow /\ NewFlow(FreshFlow)
           /\ ByAddress # None => ReindexFlow(ByAddress) \in Flow /\ NewFlow(ReindexFlow(ByAddress))
           /\ ByUrl # None => /\ FlowOf("none", "none", "waiting", ByUrl) \in Flow
                              /\ NewFlow(FlowOf("none", "none", "waiting", ByUrl))
<1>1. 0 \in 0..Tries /\ GateOf \in {"none", "waiting"} /\ None \in Versions
  BY TextAssumption DEF GateOf, Versions
<1>2. ASSUME NEW dl \in {"none", "waiting"}, NEW st \in {"none", "waiting"}, NEW gate \in {"none", "waiting"},
             NEW ver \in Versions
      PROVE  MadeOf(FlowOf(dl, st, gate, ver), dl, st, gate, ver)
  BY <1>1 DEF FlowOf, Flow, IndexJob, GateJob, MadeOf
<1>3. /\ ByAddress \in Versions /\ (ByAddress # None => ByAddress = row.ver)
      /\ ByUrl \in Versions /\ (ByUrl # None => ByUrl = row.ver)
  BY Values, <1>1 DEF ByAddress, ByUrl
<1>. HIDE DEF FlowOf
<1>4. FreshFlow \in Flow /\ NewFlow(FreshFlow)
  <2>. DEFINE x == FlowOf("waiting", "waiting", GateOf, None)
  <2>1. "none" \in {"none", "waiting"} /\ "waiting" \in {"none", "waiting"} /\ "none" # "waiting"
    OBVIOUS
  <2>2. MadeOf(x, "waiting", "waiting", GateOf, None)
    BY <1>1, <1>2, <1>3, <2>1, Zenon
  <2>. HIDE DEF x
  <2>. QED
    BY <1>1, <2>1, <2>2 DEF FreshFlow, NewFlow, MadeOf, x
<1>5. ASSUME ByAddress # None PROVE ReindexFlow(ByAddress) \in Flow /\ NewFlow(ReindexFlow(ByAddress))
  <2>. DEFINE x == FlowOf("none", "waiting", GateOf, ByAddress)
  <2>1. "none" \in {"none", "waiting"} /\ "waiting" \in {"none", "waiting"} /\ "none" # "waiting"
    OBVIOUS
  <2>2. MadeOf(x, "none", "waiting", GateOf, ByAddress)
    BY <1>1, <1>2, <1>3, <2>1, Zenon
  <2>. HIDE DEF x
  <2>. QED
    BY <1>1, <1>3, <1>5, <2>1, <2>2 DEF ReindexFlow, NewFlow, MadeOf, x
<1>6. ASSUME ByUrl # None
      PROVE  /\ FlowOf("none", "none", "waiting", ByUrl) \in Flow
             /\ NewFlow(FlowOf("none", "none", "waiting", ByUrl))
  <2>. DEFINE x == FlowOf("none", "none", "waiting", ByUrl)
  <2>1. "none" \in {"none", "waiting"} /\ "waiting" \in {"none", "waiting"} /\ "none" # "waiting"
    OBVIOUS
  <2>2. MadeOf(x, "none", "none", "waiting", ByUrl)
    BY <1>1, <1>2, <1>3, <2>1, Zenon
  <2>. HIDE DEF x
  <2>. QED
    BY <1>3, <1>6, <2>1, <2>2 DEF NewFlow, MadeOf, x
<1>. QED
  BY <1>4, <1>5, <1>6

LEMMA RouteChoices ==
    ASSUME TextShapes, Route
    PROVE  \/ pres' = pres /\ \E x \in Flow : NewFlow(x) /\ flows' = Append(flows, x)
           \/ flows' = flows /\ pres' = Append(pres, PrecheckJob(index.ver)) /\ parser.has /\ ~asked.force
  BY FlowsAreNew DEF Route, AddFlow, AddPrecheck

LEMMA RouteStep == ASSUME TextInv, Route PROVE TextInv'
<1>0. /\ TextShapes /\ parser.st = "active" /\ parser.pc = "route"
      /\ parser' = [parser EXCEPT !.pc = "return"] /\ UNCHANGED <<asked, row, index, blows, dropped>>
  BY DEF TextInv, Route
<1>1. /\ parser' \in ParserJob /\ parser'.pc = "return" /\ parser'.st = "active"
      /\ row \in [ver: Versions, found: Finds] /\ index \in [ver: Versions, sweepable: BOOLEAN]
      /\ blows \in [crashes: 0..MaxCrashes, calls: 0..MaxBlows] /\ blows.calls \in Nat
      /\ dropped \in BOOLEAN /\ (index.sweepable => InRow)
  BY <1>0, Values DEF TextShapes, ParserJob, TextInv, PlacesFind
<1>2. RouteFinds' /\ (index.sweepable => InRow') /\ (InRow => InRow')
  BY <1>0, <1>1 DEF RouteFinds, InRow
<1>3. Calm' => blows.crashes = 0
  BY <1>0 DEF Calm
<1>4. blows.crashes = 0 => flows = <<>> /\ pres = <<>> /\ DOMAIN flows = {} /\ DOMAIN pres = {} /\ Len(flows) = 0
  BY <1>0 DEF TextInv, OneRoute
<1>5. CASE flows' = flows /\ pres' = Append(pres, PrecheckJob(index.ver)) /\ parser.has /\ ~asked.force
  <2>1. index.ver \in Versions /\ (index.ver # None \/ Stored')
    BY <1>0, <1>1, <1>2, <1>5 DEF TextInv, PlacesFind, RouteFinds, Stored
  <2>2. TextShapes' /\ PlacesFind'
    BY <1>0, <1>1, <1>2, <1>5, <2>1, AsideStep
  <2>3. PICK n : Len(pres') = Len(pres) + 1 /\ DOMAIN pres' = DOMAIN pres \cup {n} /\ pres'[n] = PrecheckJob(index.ver)
    BY <1>0, <1>5, <2>1, Added
  <2>4. OneRoute'
    BY <1>0, <1>1, <1>4, <1>5, <2>3 DEF OneRoute
  <2>5. ASSUME Calm' PROVE (RowAgrees /\ (\A h \in DOMAIN flows : FlowAgrees(h)) /\ PresAgree /\ ChromaAgrees)'
    <3>1. DOMAIN flows' = {} /\ DOMAIN pres' = {n} /\ Calm
      BY <1>0, <1>3, <1>4, <1>5, <2>3, <2>5 DEF Calm, OnlyKept
    <3>2. RowAgrees /\ ChromaAgrees /\ Version = Old /\ DOMAIN flows = {}
      BY <1>3, <1>4, <2>5, <3>1 DEF TextInv, OneText, Version
    <3>3. Version' = Old
      BY <3>1 DEF Version
    <3>4. index.ver \in {None, Old}
      BY <3>2 DEF ChromaAgrees
    <3>5. RowAgrees'
      BY <1>0, <3>1, <3>2 DEF RowAgrees
    <3>6. PresAgree'
      BY <2>3, <3>1, <3>3, <3>4 DEF PresAgree, PrecheckJob
    <3>7. ChromaAgrees'
      BY <1>0, <3>3, <3>4 DEF ChromaAgrees
    <3>. QED
      BY <3>1, <3>5, <3>6, <3>7
  <2>. QED
    BY <2>2, <2>4, <2>5 DEF TextInv, OneText
<1>6. ASSUME NEW x \in Flow, NewFlow(x), flows' = Append(flows, x), pres' = pres PROVE TextInv'
  <2>1. PICK n : /\ flows' \in Seq(Flow) /\ Len(flows') = Len(flows) + 1 /\ DOMAIN flows' = DOMAIN flows \cup {n}
                 /\ n \notin DOMAIN flows /\ flows'[n] = x /\ \A h \in DOMAIN flows : flows'[h] = flows[h]
    BY <1>0, <1>6, FlowAdded
  <2>2. Docling(n)' = x.docling /\ Index(n)' = x.idx /\ Gate(n)' = x.gate /\ flows'[n].kept = FALSE
    BY <1>6, <2>1 DEF Docling, Index, Gate, NewFlow
  <2>3. OnlyKept' = OnlyKept
    BY <2>1, <2>2 DEF OnlyKept
  <2>4. Later
    BY <1>0, <1>1, <1>2, <2>3 DEF Later
  <2>5. FlowFinds(n)'
    BY <1>0, <1>1, <1>6, <2>2 DEF FlowFinds, NewFlow, InRow
  <2>6. \A h \in DOMAIN flows' : FlowFinds(h)'
    BY <1>0, <1>1, <2>1, <2>4, <2>5, StillFinds
  <2>7. \A p \in DOMAIN pres' : PrecheckFinds(p)'
    BY <1>6, <2>4, StillFindsToo
  <2>8. PlacesFind'
    BY <1>0, <1>2, <2>6, <2>7 DEF PlacesFind
  <2>9. TextShapes'
    <3>1. \A h \in DOMAIN flows' : Index(h)'.st \in {"waiting", "active"} => Index(h)'.att < Tries
      BY <1>0, <1>6, <2>1, <2>2, TextAssumption DEF NewFlow, TextShapes, Index
    <3>. QED
      BY <1>0, <1>1, <1>6, <2>1, <3>1 DEF TextShapes, ParserJob
  <2>10. OneRoute'
    BY <1>0, <1>1, <1>4, <1>6, <2>1 DEF OneRoute
  <2>11. ASSUME Calm' PROVE (RowAgrees /\ (\A h \in DOMAIN flows : FlowAgrees(h)) /\ PresAgree /\ ChromaAgrees)'
    <3>1. DOMAIN flows' = {n} /\ DOMAIN pres' = {} /\ DOMAIN flows = {} /\ Calm
      BY <1>0, <1>3, <1>4, <1>6, <2>1, <2>3, <2>11 DEF Calm
    <3>2. RowAgrees /\ ChromaAgrees /\ Version = Old
      BY <3>1 DEF TextInv, OneText, Version
    <3>3. row.ver \in {None, Old} /\ index.ver \in {None, Old}
      BY <3>1, <3>2 DEF RowAgrees, ChromaAgrees
    <3>4. Version' = IF x.docling # "none" THEN New ELSE Old
      BY <2>2, <3>1 DEF Version
    <3>5. RowAgrees'
      BY <1>0, <1>6, <2>2, <3>1, <3>3 DEF RowAgrees, NewFlow
    <3>6. FlowAgrees(n)'
      BY <1>6, <2>2, <3>3, <3>4, Values DEF FlowAgrees, NewFlow
    <3>7. ChromaAgrees'
      BY <1>0, <1>3, <1>4, <1>6, <2>2, <2>11, <3>1, <3>3 DEF ChromaAgrees, NewFlow
    <3>. QED
      BY <3>1, <3>5, <3>6, <3>7 DEF PresAgree
  <2>. QED
    BY <2>8, <2>9, <2>10, <2>11 DEF TextInv, OneText
<1>. QED
  BY <1>0, <1>5, <1>6, RouteChoices

\* A precheck reads its text.
LEMMA PrecheckFields ==
    ASSUME NEW a, NEW b, NEW c, NEW d, NEW v
    PROVE  LET q == [st |-> a, cached |-> b, got |-> c, att |-> d]
           IN /\ [q EXCEPT !.st = v] = [st |-> v, cached |-> b, got |-> c, att |-> d]
              /\ [q EXCEPT !.got = v] = [st |-> a, cached |-> b, got |-> v, att |-> d]
              /\ [q EXCEPT !.att = v] = [st |-> a, cached |-> b, got |-> c, att |-> v]
  OBVIOUS

LEMMA PrecheckBecomes ==
    ASSUME TextShapes, NEW p \in DOMAIN pres, PrecheckReads(p)
    PROVE  \E q \in Precheck :
              /\ pres' = [pres EXCEPT ![p] = q] /\ q.cached = pres[p].cached
              /\ (q.st = "waiting" => q.att < Tries)
              /\ \/ PrecheckText(p) # None /\ q.st = "read" /\ q.got = PrecheckText(p) /\ q.att = pres[p].att
                 \/ PrecheckText(p) = None /\ q.st # "read"
<1>1. pres[p] \in Precheck /\ pres[p].st = "waiting" /\ pres[p].att < Tries /\ pres[p].att \in Nat /\ Tries \in Nat
  <2>1. pres[p] \in Precheck /\ pres[p].st = "waiting" /\ pres[p].att < Tries
    BY DEF TextShapes, PrecheckReads
  <2>. QED
    BY <2>1, TextAssumption DEF Precheck
<1>2. PrecheckText(p) \in Versions
  BY <1>1 DEF PrecheckText, First, ByIdentity, TextShapes, Precheck
<1>. DEFINE r == pres[p]
<1>3. /\ r = [st |-> r.st, cached |-> r.cached, got |-> r.got, att |-> r.att]
      /\ r.cached \in Versions /\ r.got \in Versions
  BY <1>1 DEF Precheck
<1>4. CASE PrecheckText(p) # None
  <2>. DEFINE q == [st |-> "read", cached |-> r.cached, got |-> PrecheckText(p), att |-> r.att]
  <2>1. [r EXCEPT !.st = "read", !.got = PrecheckText(p)] = q
    <3>1. [r EXCEPT !.st = "read", !.got = PrecheckText(p)] = [[r EXCEPT !.st = "read"] EXCEPT !.got = PrecheckText(p)]
      OBVIOUS
    <3>2. [r EXCEPT !.st = "read"] = [st |-> "read", cached |-> r.cached, got |-> r.got, att |-> r.att]
      BY <1>3
    <3>3. ASSUME NEW t
          PROVE  [[st |-> "read", cached |-> r.cached, got |-> r.got, att |-> r.att] EXCEPT !.got = t]
                    = [st |-> "read", cached |-> r.cached, got |-> t, att |-> r.att]
      OBVIOUS
    <3>. HIDE DEF r
    <3>. QED
      BY <3>1, <3>2, <3>3
  <2>2. q \in Precheck
    BY <1>1, <1>2 DEF Precheck
  <2>3. pres' = [pres EXCEPT ![p] = q]
    BY <1>4, <2>1 DEF PrecheckReads
  <2>4. q.cached = pres[p].cached
    BY <1>3
  <2>. QED
    BY <1>4, <2>2, <2>3, <2>4
<1>5. CASE PrecheckText(p) = None
  <2>. DEFINE q == [st |-> Retry(r.att), cached |-> r.cached, got |-> r.got, att |-> r.att + 1]
  <2>1. [r EXCEPT !.st = Retry(r.att), !.att = r.att + 1] = q
    <3>1. [r EXCEPT !.st = Retry(r.att), !.att = r.att + 1] = [[r EXCEPT !.st = Retry(r.att)] EXCEPT !.att = r.att + 1]
      OBVIOUS
    <3>2. [r EXCEPT !.st = Retry(r.att)] = [st |-> Retry(r.att), cached |-> r.cached, got |-> r.got, att |-> r.att]
      BY <1>3
    <3>3. ASSUME NEW t
          PROVE  [[st |-> Retry(r.att), cached |-> r.cached, got |-> r.got, att |-> r.att] EXCEPT !.att = t]
                    = [st |-> Retry(r.att), cached |-> r.cached, got |-> r.got, att |-> t]
      OBVIOUS
    <3>. HIDE DEF r
    <3>. QED
      BY <3>1, <3>2, <3>3
  <2>2. Retry(r.att) \in {"waiting", "failed"} /\ (Retry(r.att) = "waiting" => r.att + 1 < Tries)
    BY DEF Retry
  <2>3. q \in Precheck
    BY <1>1, <2>2 DEF Precheck
  <2>4. pres' = [pres EXCEPT ![p] = q]
    <3>. DEFINE t == [pres[p] EXCEPT !.st = Retry(pres[p].att), !.att = @ + 1]
    <3>1. pres' = [pres EXCEPT ![p] = t]
      BY <1>5 DEF PrecheckReads
    <3>2. t = [r EXCEPT !.st = Retry(r.att), !.att = r.att + 1]
      OBVIOUS
    <3>. HIDE DEF q, t
    <3>. QED
      BY <2>1, <3>1, <3>2
  <2>5. q.cached = pres[p].cached
    BY <1>3
  <2>. QED
    BY <1>5, <2>2, <2>3, <2>4, <2>5
<1>. QED
  BY <1>4, <1>5

LEMMA PrecheckStep == ASSUME TextInv, NEW p \in DOMAIN pres, PrecheckReads(p) PROVE TextInv'
<1>0. TextShapes /\ pres[p].st = "waiting" /\ UNCHANGED <<asked, parser, flows, row, index, blows, dropped>>
  BY DEF TextInv, PrecheckReads
<1>1. PICK q \in Precheck :
              /\ pres' = [pres EXCEPT ![p] = q] /\ q.cached = pres[p].cached
              /\ (q.st = "waiting" => q.att < Tries)
              /\ \/ PrecheckText(p) # None /\ q.st = "read" /\ q.got = PrecheckText(p) /\ q.att = pres[p].att
                 \/ PrecheckText(p) = None /\ q.st # "read"
  BY <1>0, PrecheckBecomes
<1>2. /\ pres' \in Seq(Precheck) /\ DOMAIN pres' = DOMAIN pres /\ Len(pres') = Len(pres) /\ pres'[p] = q
      /\ \A o \in DOMAIN pres : o # p => pres'[o] = pres[o]
  BY <1>0, <1>1 DEF TextShapes
<1>3. Later /\ (\A f \in DOMAIN flows : FlowFinds(f)') /\ RouteFinds' /\ (index'.sweepable => InRow')
  <2>1. Later
    BY <1>0, Values DEF Later, InRow, OnlyKept
  <2>. QED
    BY <1>0, <2>1, StillFinds DEF TextInv, TextShapes, PlacesFind, RouteFinds, InRow
<1>4. PrecheckFinds(p)'
  <2>1. PrecheckFinds(p)
    BY DEF TextInv, PlacesFind
  <2>2. PrecheckText(p) = None => dropped \/ OnlyKept
    BY <1>0, <2>1, Values DEF PrecheckText, First, ByIdentity, PrecheckFinds, Stored, InRow
  <2>. QED
    BY <1>0, <1>1, <1>2, <1>3, <2>1, <2>2 DEF PrecheckFinds, Stored, Later
<1>5. \A o \in DOMAIN pres' : PrecheckFinds(o)'
  BY <1>2, <1>3, <1>4, StillFindsToo
<1>6. PlacesFind'
  BY <1>0, <1>3, <1>5 DEF PlacesFind
<1>7. TextShapes'
  BY <1>0, <1>1, <1>2 DEF TextShapes, Index
<1>8. OneRoute'
  <2>1. pres # <<>> /\ (pres' = <<>> <=> Len(pres') = 0)
    BY <1>0, <1>2 DEF TextShapes
  <2>. QED
    BY <1>0, <1>2, <2>1 DEF OneRoute, TextInv, Turned, Gate, Index
<1>9. ASSUME Calm' PROVE (RowAgrees /\ (\A h \in DOMAIN flows : FlowAgrees(h)) /\ PresAgree /\ ChromaAgrees)'
  <2>1. Calm /\ RowAgrees /\ (\A h \in DOMAIN flows : FlowAgrees(h)) /\ PresAgree /\ ChromaAgrees
    BY <1>0, <1>9 DEF TextInv, OneText, Calm, OnlyKept
  <2>2. Version' = Version
    BY <1>0 DEF Version, Docling
  <2>3. pres # <<>>
    BY <1>0 DEF TextShapes
  <2>4. row.ver \in {None, Version}
    <3>1. CASE DOMAIN flows = {}
      BY <2>1, <3>1 DEF RowAgrees, Version
    <3>2. ASSUME NEW f \in DOMAIN flows PROVE row.ver \in {None, Version}
      <4>1. DOMAIN flows = {f} /\ Turned(f)
        BY <2>1, <2>3, OnlyFlow DEF Calm
      <4>2. Docling(f) \in {"none", "done"}
        BY <1>0, <2>1, <4>1, FlowFields DEF FlowAgrees, Turned
      <4>. QED
        BY <2>1, <4>1, <4>2 DEF RowAgrees, Version
    <3>. QED
      BY <3>1, <3>2
  <2>5. q.cached \in {None, Version} /\ (q.st = "read" => q.got = Version)
    BY <1>1, <2>1, <2>4 DEF PresAgree, PrecheckText, First, ByIdentity
  <2>6. PresAgree'
    BY <1>2, <2>1, <2>2, <2>5 DEF PresAgree
  <2>7. ChromaAgrees'
    BY <1>0, <2>1, <2>2, <2>3 DEF ChromaAgrees
  <2>8. RowAgrees' /\ \A h \in DOMAIN flows' : FlowAgrees(h)'
    BY <1>0, <2>1, <2>2 DEF RowAgrees, FlowAgrees, Docling, Index, Gate
  <2>. QED
    BY <2>6, <2>7, <2>8
<1>. QED
  BY <1>6, <1>7, <1>8, <1>9 DEF TextInv, OneText

LEMMA TextInvNext == TextInv /\ [TextNext]_tvars => TextInv'
<1>. SUFFICES ASSUME TextInv, [TextNext]_tvars PROVE TextInv'
  OBVIOUS
<1>1. CASE Look \/ DeleteIndex \/ RouteFails \/ ParserReturns \/ ParserDies
  BY <1>1, ParserSteps
<1>2. CASE Route
  BY <1>2, RouteStep
<1>3. ASSUME NEW f \in DOMAIN flows,
             \/ DoclingPersists(f) \/ DoclingKeeps(f) \/ DoclingFails(f)
             \/ IndexReads(f) \/ IndexAdds(f) \/ IndexAddFails(f)
             \/ GateReads(f) \/ GateAdds(f) \/ GateStops(f) \/ GateReturns(f) \/ FlowJobDies(f)
      PROVE  TextInv'
  BY <1>3, DoclingStep, IndexReadsStep, IndexAddsStep, IndexAddFailsStep, GateReadsStep, GateAddsStep,
     GateTurnsStep, FlowJobDiesStep
<1>4. ASSUME NEW p \in DOMAIN pres, PrecheckReads(p) PROVE TextInv'
  BY <1>4, PrecheckStep
<1>5. CASE RowRemoved
  BY <1>5, RowRemovedStep
<1>6. CASE Sweep
  BY <1>6, SweepStep
<1>7. CASE UNCHANGED tvars
  BY <1>7, TextStutters
<1>. QED
  BY <1>1, <1>2, <1>3, <1>4, <1>5, <1>6, <1>7 DEF TextNext

\* Whatever the route of a run, the calls that fail and the workers that die, every job finds a text,
\* the jobs work on the same one, and precheck is reached once (parsePdf.ts, indexMarkdown.ts,
\* checkEmissionsPresence.ts, precheck.ts).
THEOREM TextsArrive == TextSpec => []TextArrives
<1>1. TextSpec => []TextInv
  BY TextInvInit, TextInvNext, PTL DEF TextSpec
<1>. QED
  BY <1>1, TextInvImplies, PTL

\* The texts, flows and counts of a run keep their types.
THEOREM TextTypesCorrect == TextSpec => []TextTypeOK
<1>1. TextSpec => []TextInv
  BY TextInvInit, TextInvNext, PTL DEF TextSpec
<1>2. TextInv => TextTypeOK
  BY TextShapesImply DEF TextInv
<1>. QED
  BY <1>1, <1>2, PTL

-----------------------------------------------------------------------------
(***************************************************************************)
(* FollowUp: the page of an answer.                                        *)
(***************************************************************************)

\* A finite set that an order makes no circles in has a member none comes before.
LEMMA FirstOfAll ==
    ASSUME NEW S, IsFiniteSet(S), S # {}, NEW R,
           \A i \in S : <<i, i>> \notin R,
           \A i, j, k \in S : <<i, j>> \in R /\ <<j, k>> \in R => <<i, k>> \in R
    PROVE  \E i \in S : \A k \in S : <<k, i>> \notin R
<1> DEFINE before(i) == {k \in S : <<k, i>> \in R}
           ranks == {Cardinality(before(i)) : i \in S}
<1>1. \A i \in S : IsFiniteSet(before(i)) /\ Cardinality(before(i)) \in Nat
  BY FS_Subset, FS_CardinalityType
<1>2. PICK i \in S : \A k \in S : Cardinality(before(i)) <= Cardinality(before(k))
  <2> HIDE DEF before
  <2>1. ranks \subseteq Nat /\ ranks # {}
    BY <1>1
  <2>2. PICK x \in ranks : \A y \in ranks : x <= y
    BY <2>1, Least
  <2> QED BY <2>2
<1>3. ASSUME NEW k \in S, <<k, i>> \in R PROVE FALSE
  <2>1. before(k) \subseteq before(i) /\ k \in before(i) /\ k \notin before(k)
    BY <1>3
  <2>2. Cardinality(before(i)) <= Cardinality(before(k))
    BY <1>2
  <2>3. IsFiniteSet(before(i)) /\ Cardinality(before(i)) \in Nat /\ Cardinality(before(k)) \in Nat
    BY <1>1
  <2> HIDE DEF before
  <2>4. /\ Cardinality(before(k)) <= Cardinality(before(i))
        /\ Cardinality(before(i)) = Cardinality(before(k)) => before(i) = before(k)
    BY <2>1, <2>3, FS_Subset
  <2>5. Cardinality(before(i)) = Cardinality(before(k))
    BY <2>2, <2>3, <2>4
  <2> QED BY <2>1, <2>4, <2>5
<1> QED BY <1>3

DocShape == doc \in Seq([page: Nat \ {0}, kind: {"text", "table"}, num: Seq(Digits \cup {Dot}), len: Nat])

LEMMA Snippets ==
    ASSUME DocShape
    PROVE  /\ IsFiniteSet(DOMAIN doc) /\ DOMAIN doc = 1..Len(doc) /\ Len(doc) \in Nat /\ DOMAIN doc \subseteq Nat
           /\ \A i \in DOMAIN doc : /\ doc[i].page \in Nat /\ doc[i].kind \in {"text", "table"} /\ doc[i].len \in Nat
                                    /\ doc[i].num \in Seq(Digits \cup {Dot})
<1>1. DOMAIN doc = 1..Len(doc) /\ Len(doc) \in Nat
  BY DEF DocShape
<1>2. IsFiniteSet(DOMAIN doc)
  BY <1>1, FS_Interval
<1>3. \A i \in DOMAIN doc : doc[i] \in [page: Nat \ {0}, kind: {"text", "table"}, num: Seq(Digits \cup {Dot}), len: Nat]
  BY <1>1, ElementOfSeq DEF DocShape
<1> QED BY <1>1, <1>2, <1>3

\* Snippets come one after the other.
LEMMA SoonerIsAnOrder ==
    ASSUME DocShape
    PROVE  /\ \A i \in DOMAIN doc : ~Sooner(i, i)
           /\ \A i, j, k \in DOMAIN doc : Sooner(i, j) /\ Sooner(j, k) => Sooner(i, k)
           /\ \A i, j \in DOMAIN doc : i # j => Sooner(i, j) \/ Sooner(j, i)
BY Snippets DEF Sooner

\* Snippets of a page have ranks, and the first of them has rank 0.
LEMMA Ranks ==
    ASSUME DocShape
    PROVE  /\ IsFiniteSet(Pending) /\ Pending \subseteq DOMAIN doc
           /\ \A i \in Pending : Rank(i) \in Nat
           /\ \A p \in Pages(Pending) : \E i \in Pending : doc[i].page = p /\ Rank(i) = 0
           /\ \A i, k \in Pending : doc[k].page = doc[i].page /\ Sooner(k, i) => Rank(i) > 0
<1> DEFINE sooner(i) == {k \in Pending : doc[k].page = doc[i].page /\ Sooner(k, i)}
<1>1. IsFiniteSet(Pending) /\ Pending \subseteq DOMAIN doc
  BY Snippets, FS_Subset DEF Pending
<1>2. \A i : IsFiniteSet(sooner(i)) /\ Rank(i) = Cardinality(sooner(i))
  BY <1>1, FS_Subset DEF Rank
<1>3. \A i \in Pending : Rank(i) \in Nat /\ (Rank(i) = 0 <=> sooner(i) = {})
  BY <1>2, FS_CardinalityType, FS_EmptySet
<1>4. ASSUME NEW p \in Pages(Pending) PROVE \E i \in Pending : doc[i].page = p /\ Rank(i) = 0
  <2> DEFINE here == {i \in Pending : doc[i].page = p}
             R == {x \in here \X here : Sooner(x[1], x[2])}
  <2>1. IsFiniteSet(here) /\ here # {}
    BY <1>1, FS_Subset DEF Pages
  <2>2. \A i, k \in here : <<i, k>> \in R <=> Sooner(i, k)
    OBVIOUS
  <2>3. PICK i \in here : \A k \in here : <<k, i>> \notin R
    <3>1. \A i \in here : <<i, i>> \notin R
      BY <1>1, <2>2, SoonerIsAnOrder
    <3>2. \A i, j, k \in here : <<i, j>> \in R /\ <<j, k>> \in R => <<i, k>> \in R
      BY <1>1, <2>2, SoonerIsAnOrder
    <3> HIDE DEF R, here
    <3> QED BY <2>1, <3>1, <3>2, FirstOfAll
  <2>4. \A k \in Pending : doc[k].page = doc[i].page => ~Sooner(k, i)
    <3> HIDE DEF R
    <3>1. i \in here /\ doc[i].page = p
      BY <2>3
    <3>2. SUFFICES ASSUME NEW k \in Pending, doc[k].page = doc[i].page, Sooner(k, i) PROVE FALSE
      OBVIOUS
    <3>3. k \in here
      BY <3>1, <3>2
    <3> HIDE DEF here
    <3>4. <<k, i>> \in R
      BY <2>2, <3>1, <3>2, <3>3
    <3> QED BY <2>3, <3>3, <3>4
  <2>5. sooner(i) = {}
    BY <2>4
  <2> QED BY <1>3, <2>3, <2>5
<1>5. \A i, k \in Pending : doc[k].page = doc[i].page /\ Sooner(k, i) => Rank(i) > 0
  BY <1>3
<1> QED BY <1>1, <1>3, <1>4, <1>5

LEMMA TwoOfThem ==
    ASSUME NEW S, IsFiniteSet(S), ~(Cardinality(S) <= 1)
    PROVE  \E i, j \in S : i # j
<1>1. CASE S = {}
  BY <1>1, FS_EmptySet
<1>2. CASE S # {}
  <2>1. PICK i \in S : TRUE
    BY <1>2
  <2>2. S # {i}
    BY FS_Singleton
  <2> QED BY <2>1, <2>2
<1> QED BY <1>1, <1>2

\* A page that is left out of the sample was behind all that made it full.
LEMMA PagesTakeTurns ==
    ASSUME DocShape, NEW p \in Pages(Pending), NEW q \in Pages(Pending),
           Cardinality({i \in sampleSnippetsAcrossPages : doc[i].page = p}) = 0
    PROVE  Cardinality({i \in sampleSnippetsAcrossPages : doc[i].page = q}) <= 1
<1> DEFINE ahead(i) == {k \in Pending : \/ Rank(k) < Rank(i)
                                        \/ Rank(k) = Rank(i) /\ doc[k].page < doc[i].page}
           sample == sampleSnippetsAcrossPages
           kept(x) == {i \in sample : doc[i].page = x}
<1>1. /\ IsFiniteSet(Pending) /\ Pending \subseteq DOMAIN doc
      /\ \A i \in Pending : Rank(i) \in Nat
  BY Ranks
<1>2. \A i : i \in sample <=> i \in Pending /\ Cardinality(ahead(i)) < MaxSnippets
  BY DEF sampleSnippetsAcrossPages
<1>3. \A i : IsFiniteSet(ahead(i)) /\ Cardinality(ahead(i)) \in Nat
  BY <1>1, FS_Subset, FS_CardinalityType
<1>4. \A x : IsFiniteSet(kept(x))
  <2>1. sample \subseteq Pending
    BY <1>2
  <2> QED BY <1>1, <2>1, FS_Subset
<1>5. PICK f \in Pending : doc[f].page = p /\ Rank(f) = 0
  BY Ranks
<1>6. f \notin sample
  <2>1. kept(p) = {}
    BY <1>4, FS_EmptySet
  <2> QED BY <1>5, <2>1
<1> HIDE DEF sample
<1>7. ~(Cardinality(ahead(f)) < MaxSnippets)
  BY <1>2, <1>5, <1>6
<1>8. SUFFICES ASSUME ~(Cardinality(kept(q)) <= 1) PROVE FALSE
  BY DEF sample
<1>9. PICK a, b \in kept(q) : a # b
  <2> HIDE DEF kept
  <2> QED BY <1>4, <1>8, TwoOfThem
<1>10. PICK j \in kept(q) : Rank(j) > 0
  <2>1. a \in Pending /\ b \in Pending /\ doc[a].page = doc[b].page
    BY <1>2, <1>9
  <2>2. Sooner(a, b) \/ Sooner(b, a)
    BY <1>1, <1>9, <2>1, SoonerIsAnOrder
  <2>3. Rank(b) > 0 \/ Rank(a) > 0
    BY <2>1, <2>2, Ranks
  <2> QED BY <1>9, <2>3
<1>11. ahead(f) \subseteq ahead(j)
  <2>1. ASSUME NEW k \in ahead(f) PROVE k \in ahead(j)
    <3>1. k \in Pending /\ Rank(k) \in Nat /\ Rank(k) = 0
      BY <1>1, <1>5
    <3> QED BY <1>10, <3>1
  <2> QED BY <2>1
<1>12. Cardinality(ahead(f)) <= Cardinality(ahead(j))
  BY <1>3, <1>11, FS_Subset
<1>13. MaxSnippets \in Nat
  BY FollowUpAssumption
<1>14. Cardinality(ahead(j)) < MaxSnippets
  BY <1>2, <1>10
<1> HIDE DEF ahead
<1>15. Cardinality(ahead(f)) \in Nat /\ Cardinality(ahead(j)) \in Nat
  BY <1>3
<1> QED BY <1>7, <1>12, <1>13, <1>14, <1>15

\* A page that is found for chunks is that of a snippet which is one of them.
LEMMA PageOfASnippet ==
    ASSUME DocShape, NEW I \in SUBSET DOMAIN doc, pageNumberForMarkdownSnippet(I) # Unknown
    PROVE  \E s \in DOMAIN doc, i \in I :
              Text(i) = Text(s) /\ pageNumberForMarkdownSnippet(I) = doc[s].page
<1> DEFINE hits == {s \in sampleSnippetsAcrossPages : \E i \in I : Text(i) = Text(s)}
           better(s, t) == \/ doc[s].len > doc[t].len
                           \/ doc[s].len = doc[t].len /\ doc[s].page < doc[t].page
                           \/ doc[s].len = doc[t].len /\ doc[s].page = doc[t].page /\ Sooner(s, t)
           R == {x \in hits \X hits : better(x[1], x[2])}
           best == CHOOSE s \in hits : \A t \in hits : s = t \/ better(s, t)
<1>1. hits \subseteq DOMAIN doc /\ IsFiniteSet(hits)
  <2>1. sampleSnippetsAcrossPages \subseteq DOMAIN doc
    BY Ranks DEF sampleSnippetsAcrossPages
  <2> QED BY <2>1, Snippets, FS_Subset
<1>2. hits # {} /\ pageNumberForMarkdownSnippet(I) = doc[best].page
  BY DEF pageNumberForMarkdownSnippet, Best
<1>3. \A s, t \in hits : <<s, t>> \in R <=> better(s, t)
  OBVIOUS
<1>4. /\ \A s \in DOMAIN doc : doc[s].len \in Nat /\ doc[s].page \in Nat /\ ~Sooner(s, s)
      /\ \A s, t, u \in DOMAIN doc : Sooner(s, t) /\ Sooner(t, u) => Sooner(s, u)
      /\ \A s, t \in DOMAIN doc : s # t => Sooner(s, t) \/ Sooner(t, s)
  BY Snippets, SoonerIsAnOrder
<1>5. /\ \A s \in DOMAIN doc : ~better(s, s)
      /\ \A s, t, u \in DOMAIN doc : better(s, t) /\ better(t, u) => better(s, u)
      /\ \A s, t \in DOMAIN doc : s # t => better(s, t) \/ better(t, s)
  <2>1. \A s \in DOMAIN doc : ~better(s, s)
    BY <1>4
  <2>2. ASSUME NEW s \in DOMAIN doc, NEW t \in DOMAIN doc, NEW u \in DOMAIN doc, better(s, t), better(t, u)
        PROVE  better(s, u)
    BY <1>4, <2>2
  <2>3. \A s, t \in DOMAIN doc : s # t => better(s, t) \/ better(t, s)
    BY <1>4
  <2> QED BY <2>1, <2>2, <2>3
<1> HIDE DEF better, R
<1>6. PICK s \in hits : \A t \in hits : <<t, s>> \notin R
  <2>1. \A t \in hits : <<t, t>> \notin R
    BY <1>1, <1>3, <1>5
  <2>2. \A t, u, v \in hits : <<t, u>> \in R /\ <<u, v>> \in R => <<t, v>> \in R
    BY <1>1, <1>3, <1>5
  <2> HIDE DEF hits
  <2> QED BY <1>1, <1>2, <2>1, <2>2, FirstOfAll
<1>7. \A t \in hits : s = t \/ better(s, t)
  BY <1>1, <1>3, <1>5, <1>6
<1>8. best \in hits
  BY <1>7
<1> QED BY <1>1, <1>2, <1>8

\* Digits without a dot that stand alone in a number without a dot are that number.
LEMMA AloneIsAll ==
    ASSUME NEW t \in Seq(Digits \cup {Dot}), NEW n \in Seq(Digits \cup {Dot}), Whole(t), Whole(n),
           haystackContainsStandaloneNeedle(t, n)
    PROVE  t = n
<1>1. PICK i \in 1..Len(t) :
        LET end == i + Len(n) - 1
        IN /\ end <= Len(t) /\ SubSeq(t, i, end) = n
           /\ StandsAlone(n) => /\ i = 1 \/ t[i - 1] = Dot
                                /\ end = Len(t) \/ t[end + 1] = Dot
  BY DEF haystackContainsStandaloneNeedle
<1>2. /\ i + Len(n) - 1 <= Len(t)
      /\ SubSeq(t, i, i + Len(n) - 1) = n
      /\ i = 1 \/ t[i - 1] = Dot
      /\ i + Len(n) - 1 = Len(t) \/ t[i + Len(n) - 1 + 1] = Dot
  BY <1>1 DEF StandsAlone
<1>3. PICK tl \in Nat : tl = Len(t) /\ DOMAIN t = 1..tl
  BY LenProperties
<1>4. PICK nl \in Nat : nl = Len(n)
  BY LenProperties
<1>5. \A k \in 1..tl : t[k] # Dot
  BY <1>3 DEF Whole
<1>6. i \in 1..tl /\ i + nl - 1 <= tl
  BY <1>2, <1>3, <1>4
<1>7. i = 1
  <2>1. i # 1 => i - 1 \in 1..tl
    BY <1>6
  <2>2. i = 1 \/ t[i - 1] = Dot
    BY <1>2
  <2> QED BY <1>5, <2>1, <2>2
<1>8. i + nl - 1 = nl /\ i + nl - 1 + 1 = nl + 1
  BY <1>7
<1>9. nl = tl
  <2>1. nl = tl \/ t[nl + 1] = Dot
    BY <1>2, <1>3, <1>4, <1>8
  <2>2. nl # tl => nl + 1 \in 1..tl
    BY <1>6, <1>8
  <2> QED BY <1>5, <2>1, <2>2
<1>10. SubSeq(t, 1, Len(t)) = n
  BY <1>2, <1>3, <1>4, <1>7, <1>8, <1>9
<1>11. SubSeq(t, 1, Len(t)) = t
  BY <1>3, SubSeqProperties, SeqEqual
<1> QED BY <1>10, <1>11

Indexed == [i \in DOMAIN doc |-> PageOfChunk(i)]
Rebuilt == [i \in DOMAIN doc |-> Unknown]

\* In such a report as PageIsOfTheValue speaks of.
Plain == \A i, k \in DOMAIN doc : /\ Text(i) = Text(k) \/ section[i] = section[k] => doc[i].page = doc[k].page
                                   /\ Whole(doc[i].num)

LEMMA ChunkIsOnItsPage ==
    ASSUME DocShape, Plain, NEW i \in DOMAIN doc, PageOfChunk(i) # Unknown
    PROVE  PageOfChunk(i) = doc[i].page
<1>1. PICK I \in SUBSET DOMAIN doc : /\ PageOfChunk(i) = pageNumberForMarkdownSnippet(I)
                                      /\ \A k \in I : section[k] = section[i]
  <2>1. {i} \in SUBSET DOMAIN doc /\ {k \in DOMAIN doc : section[k] = section[i]} \in SUBSET DOMAIN doc
    OBVIOUS
  <2> QED BY <2>1 DEF PageOfChunk
<1>2. PICK s \in DOMAIN doc, k \in I : Text(k) = Text(s) /\ pageNumberForMarkdownSnippet(I) = doc[s].page
  BY <1>1, PageOfASnippet
<1>3. k \in DOMAIN doc /\ doc[k].page = doc[s].page /\ doc[k].page = doc[i].page
  BY <1>1, <1>2 DEF Plain
<1> QED BY <1>1, <1>2, <1>3

\* What a chunk scores for stands in its section.
LEMMA ScoreMeans ==
    ASSUME DocShape, Plain, NEW i \in DOMAIN doc, NEW j \in DOMAIN doc, NEW quote \in Quotes, NEW ref,
           needleScore([total |-> doc[j].num, quote |-> quote, ref |-> ref], i) > 0
    PROVE  \E k \in DOMAIN doc : /\ doc[k].page = doc[i].page
                                 /\ doc[k].num = doc[j].num \/ Text(k) = quote
<1> DEFINE v == [total |-> doc[j].num, quote |-> quote, ref |-> ref]
           there == {k \in DOMAIN doc : section[k] = section[i]}
<1>1. \A k \in there : k \in DOMAIN doc /\ doc[k].page = doc[i].page
  BY DEF Plain
<1>2. \/ quote # Unknown /\ \E k \in there : Text(k) = quote
      \/ \E k \in there : haystackContainsStandaloneNeedle(doc[k].num, doc[j].num)
  <2>1. ~(0 > 0)
    OBVIOUS
  <2> QED BY <2>1 DEF needleScore
<1>3. ASSUME NEW k \in there, haystackContainsStandaloneNeedle(doc[k].num, doc[j].num)
      PROVE  doc[k].num = doc[j].num
  <2>1. doc[k].num \in Seq(Digits \cup {Dot}) /\ doc[j].num \in Seq(Digits \cup {Dot})
    BY Snippets
  <2>2. Whole(doc[k].num) /\ Whole(doc[j].num)
    BY DEF Plain
  <2> QED BY <1>3, <2>1, <2>2, AloneIsAll
<1> QED BY <1>1, <1>2, <1>3

LEMMA ScoresAreNumbers ==
    ASSUME DocShape, NEW i \in DOMAIN doc, NEW j \in DOMAIN doc, NEW quote \in Quotes, NEW ref
    PROVE  needleScore([total |-> doc[j].num, quote |-> quote, ref |-> ref], i) \in Nat
<1>1. quote = Unknown \/ quote.len \in Nat
  BY FollowUpAssumption
<1>2. Len(doc[j].num) \in Nat
  BY Snippets, LenProperties
<1>3. (10 * Len(doc[j].num) + (IF Whole(doc[j].num) THEN 0 ELSE 50)) \in Nat
  <2>1. \A x \in Nat : 10 * x + 0 \in Nat /\ 10 * x + 50 \in Nat
    OBVIOUS
  <2> QED BY <1>2, <2>1
<1>4. quote # Unknown => 10 * quote.len \in Nat
  BY <1>1
<1> QED BY <1>3, <1>4 DEF needleScore

\* The page of needles is that of a chunk that scores.
LEMMA PageOfAScore ==
    ASSUME DocShape, NEW j \in DOMAIN doc, NEW quote \in Quotes, NEW ref,
           NEW n \in Nat, NEW chunks \in [1..n -> DOMAIN doc], NEW pages,
           pageNumberForNeedles([total |-> doc[j].num, quote |-> quote, ref |-> ref], chunks, pages) # Unknown
    PROVE  \E i \in DOMAIN doc :
              /\ needleScore([total |-> doc[j].num, quote |-> quote, ref |-> ref], i) > 0
              /\ pages[i] # Unknown
              /\ pageNumberForNeedles([total |-> doc[j].num, quote |-> quote, ref |-> ref], chunks, pages) = pages[i]
<1> DEFINE v == [total |-> doc[j].num, quote |-> quote, ref |-> ref]
           score(a) == needleScore(v, chunks[a])
           usable == {a \in DOMAIN chunks :
                        /\ \A b \in 1..(a - 1) : section[chunks[b]] # section[chunks[a]]
                        /\ pages[chunks[a]] # Unknown /\ needleScore(v, chunks[a]) > 0}
           better(a, b) == score(a) > score(b) \/ (score(a) = score(b) /\ a < b)
           R == {x \in usable \X usable : better(x[1], x[2])}
           best == CHOOSE a \in usable : \A b \in usable : a = b \/ better(a, b)
<1>1. usable # {} /\ pageNumberForNeedles(v, chunks, pages) = pages[chunks[best]]
  BY DEF pageNumberForNeedles, Best
<1>2. usable \subseteq 1..n /\ IsFiniteSet(usable)
  <2>1. DOMAIN chunks = 1..n /\ IsFiniteSet(1..n)
    BY FS_Interval
  <2> QED BY <2>1, FS_Subset
<1>3. \A a \in 1..n : score(a) \in Nat
  BY ScoresAreNumbers
<1>4. \A a \in usable : a \in 1..n /\ chunks[a] \in DOMAIN doc /\ pages[chunks[a]] # Unknown /\ needleScore(v, chunks[a]) > 0
  BY <1>2
<1> HIDE DEF score, usable
<1>5. \A a, b \in usable : <<a, b>> \in R <=> better(a, b)
  OBVIOUS
<1>6. /\ \A a \in usable : ~better(a, a)
      /\ \A a, b, c \in usable : better(a, b) /\ better(b, c) => better(a, c)
      /\ \A a, b \in usable : a # b => better(a, b) \/ better(b, a)
  BY <1>2, <1>3
<1> HIDE DEF better, R
<1>7. PICK a \in usable : \A b \in usable : <<b, a>> \notin R
  BY <1>1, <1>2, <1>5, <1>6, FirstOfAll
<1>8. \A b \in usable : a = b \/ better(a, b)
  BY <1>5, <1>6, <1>7
<1>9. best \in usable
  BY <1>8
<1> QED BY <1>1, <1>4, <1>9

-----------------------------------------------------------------------------

\* The inductive invariant: the pages a question has retrieved are those of the index as it was built from
\* Docling's snippets, or as it was rebuilt without pages.
PagesInv ==
    /\ DocShape /\ section \in [DOMAIN doc -> DOMAIN doc]
    /\ pageOf \in {Gone, Indexed, Rebuilt}
    /\ question.at \in {"ask", "fallback"} =>
          /\ question.pages \in {Indexed, Rebuilt}
          /\ \E n \in Nat : question.chunks \in [1..n -> DOMAIN doc]
    /\ PageIsOfTheValue

LEMMA PagesInvInit == FollowUpInit => PagesInv
<1> SUFFICES ASSUME FollowUpInit PROVE PagesInv
  OBVIOUS
<1>1. DocShape
  BY FollowUpAssumption DEF FollowUpInit, DocShape
<1>2. section \in [DOMAIN doc -> DOMAIN doc] /\ pageOf = Indexed /\ question.at = "search"
  BY DEF FollowUpInit, Indexed
<1> QED BY <1>1, <1>2 DEF PagesInv, PageIsOfTheValue

LEMMA PagesInvStep == PagesInv /\ [FollowUpNext]_fuvars => PagesInv'
<1> SUFFICES ASSUME PagesInv, [FollowUpNext]_fuvars PROVE PagesInv'
  OBVIOUS
<1>1. UNCHANGED <<doc, section>> /\ Indexed' = Indexed /\ Rebuilt' = Rebuilt
  <2>1. UNCHANGED <<doc, section>>
    BY DEF FollowUpNext, fuvars, ChromaSweep, reindexFromStoredMarkdown, getRelevantParagraphs, AttemptFails,
           withContextWindowFallback, attachPageProvenanceToExtraction
  <2> QED BY <2>1 DEF Indexed, Rebuilt, PageOfChunk, pageNumberForMarkdownSnippet, sampleSnippetsAcrossPages, Text,
                      Best, Pending, Rank, Sooner
<1>2. (DocShape /\ section \in [DOMAIN doc -> DOMAIN doc])'
  BY <1>1 DEF PagesInv, DocShape
<1>3. CASE UNCHANGED fuvars
  BY <1>1, <1>2, <1>3 DEF fuvars, PagesInv, PageIsOfTheValue, Text, Whole
<1>4. CASE ChromaSweep
  BY <1>1, <1>2, <1>4 DEF ChromaSweep, PagesInv, PageIsOfTheValue, Text, Whole
<1>5. CASE reindexFromStoredMarkdown
  BY <1>1, <1>2, <1>5 DEF reindexFromStoredMarkdown, PagesInv, PageIsOfTheValue, Text, Whole, Rebuilt
<1>6. CASE getRelevantParagraphs
  <2>1. PICK n \in 1..NResults : \E chunks \in [1..n -> DOMAIN doc] :
            question' = [question EXCEPT !.at = "ask", !.chunks = chunks, !.pages = pageOf]
    BY <1>6 DEF getRelevantParagraphs
  <2>2. n \in Nat /\ pageOf' = pageOf /\ pageOf \in {Indexed, Rebuilt}
    BY <1>6 DEF getRelevantParagraphs, PagesInv
  <2> QED BY <1>1, <1>2, <2>1, <2>2 DEF PagesInv, PageIsOfTheValue
<1>7. CASE AttemptFails
  <2>1. question'.at \in {"search", "failed"} /\ pageOf' = pageOf
    BY <1>7 DEF AttemptFails
  <2> QED BY <1>1, <1>2, <2>1 DEF PagesInv, PageIsOfTheValue
<1>8. CASE withContextWindowFallback
  BY <1>1, <1>2, <1>8 DEF withContextWindowFallback, PagesInv, PageIsOfTheValue
<1>9. CASE attachPageProvenanceToExtraction
  <2>1. PICK j \in DOMAIN doc, quote \in Quotes, ref \in {Unknown, "note"} :
            result' = [value |-> [total |-> doc[j].num, quote |-> quote, ref |-> ref],
                       page |-> withProvenance([total |-> doc[j].num, quote |-> quote, ref |-> ref],
                                   pageNumberForNeedles([total |-> doc[j].num, quote |-> quote, ref |-> ref],
                                                        question.chunks, question.pages))]
    BY <1>9 DEF attachPageProvenanceToExtraction
  <2>2. PICK n \in Nat : question.chunks \in [1..n -> DOMAIN doc]
    BY <1>9 DEF PagesInv, attachPageProvenanceToExtraction
  <2> DEFINE v == [total |-> doc[j].num, quote |-> quote, ref |-> ref]
             page == pageNumberForNeedles(v, question.chunks, question.pages)
  <2>3. ASSUME result'.page # Unknown, Plain
        PROVE  \E i \in DOMAIN doc : /\ doc[i].page = result'.page
                                     /\ doc[i].num = result'.value.total \/ Text(i) = result'.value.quote
    <3>1. page # Unknown /\ result'.page = page /\ result'.value.total = doc[j].num /\ result'.value.quote = quote
      BY <2>1, <2>3 DEF withProvenance
    <3>2. PICK i \in DOMAIN doc : needleScore(v, i) > 0 /\ question.pages[i] # Unknown /\ page = question.pages[i]
      BY <2>2, <3>1, PageOfAScore DEF PagesInv
    <3>3. question.pages = Indexed
      <4>1. question.pages \in {Indexed, Rebuilt}
        BY <1>9 DEF PagesInv, attachPageProvenanceToExtraction
      <4>2. question.pages # Rebuilt
        BY <3>2 DEF Rebuilt
      <4> QED BY <4>1, <4>2
    <3>4. PageOfChunk(i) = page /\ PageOfChunk(i) # Unknown
      BY <3>2, <3>3 DEF Indexed
    <3>5. page = doc[i].page
      BY <2>3, <3>4, ChunkIsOnItsPage DEF PagesInv
    <3>6. PICK k \in DOMAIN doc : doc[k].page = doc[i].page /\ (doc[k].num = doc[j].num \/ Text(k) = quote)
      BY <2>3, <3>2, ScoreMeans DEF PagesInv
    <3> QED BY <3>1, <3>5, <3>6
  <2>4. PageIsOfTheValue'
    <3>1. Plain' <=> Plain
      BY <1>1 DEF Plain, Text, Whole
    <3>2. \A i : Text(i)' = Text(i)
      BY <1>1 DEF Text
    <3> QED BY <1>1, <2>3, <3>1, <3>2 DEF PageIsOfTheValue, Plain
  <2>5. question'.at = "done" /\ pageOf' = pageOf
    BY <1>9 DEF attachPageProvenanceToExtraction, PagesInv
  <2> QED BY <1>1, <1>2, <2>4, <2>5 DEF PagesInv
<1> QED BY <1>3, <1>4, <1>5, <1>6, <1>7, <1>8, <1>9 DEF FollowUpNext

\* The page of an answer is one it stands on, and no page is heard twice before each is heard once.
THEOREM PagesFound == FollowUpSpec => []PagesAreRight
<1>1. PagesInv => PagesAreRight
  BY PagesTakeTurns DEF PagesInv, PagesAreRight, LaterPagesAreHeard
<1> QED BY PagesInvInit, PagesInvStep, <1>1, PTL DEF FollowUpSpec

-----------------------------------------------------------------------------

\* The Docling job, the row of a text and its index hold what their types say, at every step of
\* the parse, of the runs that read the text and of what fails under them.
THEOREM DocumentTypesHold == Spec /\ TextSpec => []DocumentTypesOK
<1>1. TypeOK /\ TextTypeOK => DocumentTypesOK
  BY DEF DocumentTypesOK
<1> QED BY <1>1, TypeCorrect, TextTypesCorrect, PTL
=============================================================================
