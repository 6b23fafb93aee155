---------------------------- MODULE MCCompanyData ----------------------------
(***************************************************************************)
(* What is stored for a company: its reporting periods, its goals, its     *)
(* LEI, its identifiers with many rows, and its row itself, which the      *)
(* cleanup of empty companies may delete.  They share no row, so they are  *)
(* checked side by side: each behaviour is of one of them.                 *)
(***************************************************************************)
EXTENDS CompanyData

VARIABLE part

all == <<part, pvars, gvars, ivars, svars>>

\* The members of each set may be exchanged for one another.
Symmetry == Permutations(Companies) \cup Permutations(Values) \cup Permutations(Savers)
            \cup Permutations(Isins)

\* The parts a behaviour is not of begin in one way.
DataInit ==
    /\ part \in {"periods", "goals", "lei", "many", "shells"}
    /\ PeriodInit /\ GoalInit /\ IdInit
    /\ CASE part = "lei" -> TRUE
         [] part = "many" -> Cardinality(Born) = 1
         [] OTHER -> Born = Companies
    /\ IF part = "shells" THEN TRUE ELSE on = [c \in {} |-> {}]
    /\ ShellInit

\* Staff delete rows, and saves replace everything, only while no two saves overlap.
Overlap == Cardinality(Busy') > 1
SmallNext ==
    \/ /\ \E s \in Savers : SaveSteps(s)
       /\ Overlap => \A s \in Busy' : ~save'[s].body.replaceAll
    \/ (DeletePoint \/ DeletePeriod \/ ScriptMarks \/ ScriptDeletes) /\ ~Overlap

PeriodStep == part = "periods" /\ SmallNext /\ UNCHANGED <<part, gvars, ivars, svars>>
GoalStep == part = "goals" /\ GoalNext /\ UNCHANGED <<part, pvars, ivars, svars>>
LeiStep ==
    /\ part = "lei" /\ IdNext /\ \A r \in Requests : req'[r].kind \in LeiKinds \cup {"none"}
    /\ UNCHANGED <<part, pvars, gvars, svars>>
ManyStep ==
    /\ part = "many" /\ IdNext /\ \A r \in Requests : req'[r].kind \in ManyKinds \cup {"none"}
    /\ UNCHANGED <<part, pvars, gvars, svars>>
ShellStep == part = "shells" /\ ShellNext /\ UNCHANGED <<part, pvars, gvars, ivars>>

DataSpec == DataInit /\ [][PeriodStep \/ GoalStep \/ LeiStep \/ ManyStep \/ ShellStep]_all
=============================================================================
