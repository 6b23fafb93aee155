------------------------------ MODULE GoalSave ------------------------------
(***************************************************************************)
(* The goals of a company; its initiatives are saved in the same way.  A   *)
(* goal may belong to a report.  The save of an extraction replaces the    *)
(* goals of the report that nobody has verified, in a transaction that     *)
(* first looks for them and then deletes what it found: staff may verify,  *)
(* change or delete a goal in between, and another save may overlap.  A    *)
(* goal is verified when its latest metadata is.                           *)
(***************************************************************************)
EXTENDS Naturals, FiniteSets, Sequences, SequencesExt

CONSTANTS
    Reports,    \* registry reports
    NoReport,   \* a goal of no report, a save that does not know its report
    Texts,      \* what goals say
    Writers,    \* requests that may be in flight together
    MaxGoals,   \* bound: goals ever made
    MaxWrites   \* bound: requests ever begun

ASSUME GoalAssumption ==
    NoReport \notin Reports /\ IsFiniteSet(Texts) /\ MaxGoals \in Nat /\ MaxWrites \in Nat

VARIABLES
    goals,      \* Goal, with the verified flags of its metadata, oldest first
    writer,     \* the requests
    made,       \* goals ever made
    writes,     \* requests ever begun
    mingled,    \* history: reports with overlapping saves
    touched     \* history: goals staff have changed after a save in flight had found them

gvars == <<goals, writer, made, writes, mingled, touched>>

AnyReport == Reports \cup {NoReport}
Resting == [pc |-> "idle"]
Writing == {w \in Writers : writer[w].pc # "idle"}

\* batch is the save that made the goal, 0 for staff.
GoalTypesOK ==
    /\ \A g \in goals : /\ g.id \in 1..made /\ g.report \in AnyReport /\ g.text \in Texts
                        /\ g.verified # <<>> /\ g.batch \in 0..writes
    /\ \A g, h \in goals : g.id = h.id => g = h
    /\ \A w \in Writing : writer[w].found \subseteq 1..made

\* Mutant: the oldest metadata decides.
Mutant_Verified(g) == Head(g.verified)

Verified(g) == Last(g.verified)

-----------------------------------------------------------------------------
(***************************************************************************)
(* POST /:id/goals of an extraction: its metadata first, then one          *)
(* transaction.                                                            *)
(***************************************************************************)

\* Mutant: the flag gets lost on the way from the diff to the save.
Mutant_Replaces(report) == FALSE

\* goalsInitiativesSaveExtras: a job that knows its report replaces.
Replaces(report) == report # NoReport

BeginExtraction(w) ==
    /\ writer[w] = Resting /\ writes < MaxWrites /\ writes' = writes + 1
    /\ \E r \in AnyReport, T \in SUBSET Texts :
        /\ T # {} \/ Replaces(r)
        /\ writer' = [writer EXCEPT ![w] = [pc |-> IF Replaces(r) THEN "find" ELSE "create",
                            report |-> r, texts |-> T, batch |-> writes + 1, found |-> {}]]
        /\ mingled' = mingled \cup {q \in {r} \ {NoReport} : \E v \in Writing : writer[v].report = r}
    /\ UNCHANGED <<goals, made, touched>>

\* deleteUnverifiedForReport looks for the goals of the report that nobody has verified.
FindUnverified(w) ==
    /\ writer[w].pc = "find"
    /\ writer' = [writer EXCEPT ![w].pc = "create",
            ![w].found = {g.id : g \in {h \in goals : h.report = writer[w].report /\ ~Verified(h)}}]
    /\ UNCHANGED <<goals, made, writes, mingled, touched>>

\* A goal that names no report is of the batch's.
ItemReport(report) == report

NewGoals(T, report, batch) ==
    LET ts == SetToSeq(T) IN
    {[id |-> made + i, report |-> ItemReport(report), text |-> ts[i], verified |-> <<FALSE>>,
      batch |-> batch] : i \in DOMAIN ts}

\* The rows it found go, whatever has become of them, and the new ones come.
Commit(w) ==
    /\ writer[w].pc = "create" /\ made + Cardinality(writer[w].texts) <= MaxGoals
    /\ goals' = {g \in goals : g.id \notin writer[w].found}
                \cup NewGoals(writer[w].texts, writer[w].report, writer[w].batch)
    /\ made' = made + Cardinality(writer[w].texts)
    /\ writer' = [writer EXCEPT ![w] = Resting]
    /\ UNCHANGED <<writes, mingled, touched>>

\* An error or a restart: the transaction leaves nothing.
Rollback(w) ==
    /\ w \in Writing /\ writer' = [writer EXCEPT ![w] = Resting]
    /\ UNCHANGED <<goals, made, writes, mingled, touched>>

-----------------------------------------------------------------------------
(***************************************************************************)
(* Staff.                                                                  *)
(***************************************************************************)

\* POST of a single goal, without replacing.
StaffCreate ==
    /\ writes < MaxWrites /\ writes' = writes + 1 /\ made < MaxGoals /\ made' = made + 1
    /\ \E r \in AnyReport, t \in Texts, v \in BOOLEAN :
        goals' = goals \cup {[id |-> made + 1, report |-> r, text |-> t, verified |-> <<v>>, batch |-> 0]}
    /\ UNCHANGED <<writer, mingled, touched>>

\* PATCH: new metadata, verified or not, and maybe another report or none (reportRelationUpdate).
StaffUpdate ==
    /\ writes < MaxWrites /\ writes' = writes + 1
    /\ \E g \in goals, r \in AnyReport, t \in Texts, v \in BOOLEAN :
        /\ goals' = (goals \ {g}) \cup
                    {[g EXCEPT !.report = r, !.text = t, !.verified = Append(@, v), !.batch = 0]}
        /\ touched' = touched \cup {i \in {g.id} : \E w \in Writing : i \in writer[w].found}
    /\ UNCHANGED <<writer, made, mingled>>

StaffDelete ==
    /\ \E g \in goals : goals' = goals \ {g}
    /\ UNCHANGED <<writer, made, writes, mingled, touched>>

-----------------------------------------------------------------------------

GoalInit ==
    /\ goals = {} /\ made = 0 /\ writes = 0 /\ mingled = {} /\ touched = {}
    /\ writer = [w \in Writers |-> Resting]

GoalNext ==
    \/ \E w \in Writers : BeginExtraction(w) \/ FindUnverified(w) \/ Commit(w) \/ Rollback(w)
    \/ StaffCreate \/ StaffUpdate \/ StaffDelete

GoalSpec == GoalInit /\ [][GoalNext]_gvars

-----------------------------------------------------------------------------
(***************************************************************************)
(* Properties.                                                             *)
(***************************************************************************)

\* However often a report is extracted again, what is left of the extractions, as far as staff
\* have not touched it, is the outcome of one of them, unless two saves of the report overlapped.
OneExtraction ==
    \A r \in Reports \ mingled :
        \A g, h \in goals : (g.report = r /\ h.report = r /\ g.batch # 0 /\ h.batch # 0)
                                => g.batch = h.batch

\* A goal whose latest metadata is verified is deleted by no save, unless staff changed it after
\* the save had found it unverified: the transaction does not look again before it deletes.
VerifiedIsKept ==
    [][\A g \in goals :
        (Last(g.verified) /\ writer' # writer /\ ~\E h \in goals' : h.id = g.id)
            => g.id \in touched]_gvars
=============================================================================
