----------------------------- MODULE MCRunJobs -----------------------------
(***************************************************************************)
(* The jobs of a run after its questions: the merge of the answers, the    *)
(* lookups of LEI and ISINs, the flows from the questions to the company   *)
(* link, and their archive, kept by all processes or by one and the        *)
(* backfill.  Side by side: each behaviour is of one of them.              *)
(***************************************************************************)
EXTENDS RunJobs

VARIABLE part

all == <<part, fvars, avars, mvars, lvars>>

\* Two years, each part found, not found or not asked for, and a combined value.
Entry(a, b, c) == {[year |-> y, parts |-> [scope1 |-> s, scope2 |-> t, scope1And2 |-> u]] :
                      y \in 1..2, s \in a, t \in b, u \in c}
UpTo(n, S) == UNION {[1..k -> S] : k \in 0..n}
MCAnswers == [scope1 |-> UpTo(2, Entry({Null, 10}, {NotAsked}, {NotAsked, Null, 12})),
              scope2 |-> UpTo(2, Entry({NotAsked}, {Null, 20}, {Null, 22})),
              legacy |-> UpTo(1, Entry({Null, 30}, {Null, 30}, {Null, 33}))]

\* What GLEIF may list: up to three pages, with what is not an ISIN among it.
MCLists == UNION {[1..n -> ListedIsins \cup Noise] : n \in 0..5}

\* The parts a behaviour is not of begin in one way.
JobsInit ==
    /\ part \in {"flow", "archive", "backfill", "scopes", "lookup"}
    /\ IF part = "flow" THEN TRUE
       ELSE kind = [autoApprove |-> FALSE, newReport |-> FALSE] /\ data = NoApproval
    /\ IF part = "lookup" THEN TRUE ELSE wikidata = NoLei /\ found = {} /\ listed = <<>>
    /\ FlowInit /\ ArchiveInit /\ MergeInit /\ LookupInit
    /\ LET up == {p \in Processes : handler[p]["step"] = "idle"}
       IN IF part = "backfill" THEN Cardinality(up) = 1 ELSE up = Processes

FlowStep == part = "flow" /\ FlowNext /\ UNCHANGED <<part, avars, mvars, lvars>>
ArchiveStep == part \in {"archive", "backfill"} /\ Live /\ UNCHANGED <<part, fvars, mvars, lvars>>
BackfillStep == part = "backfill" /\ Backfill /\ UNCHANGED <<part, fvars, mvars, lvars>>
ScopesStep == part = "scopes" /\ MergeNext /\ UNCHANGED <<part, fvars, avars, lvars>>
LookupStep == part = "lookup" /\ LookupNext /\ UNCHANGED <<part, fvars, avars, mvars>>

JobsSpec == JobsInit /\ [][FlowStep \/ ArchiveStep \/ BackfillStep \/ ScopesStep \/ LookupStep]_all
=============================================================================
