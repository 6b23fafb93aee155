------------------------------ MODULE MCDocument ------------------------------
(***************************************************************************)
(* A report from its parse to what is read from it: the Docling job, the   *)
(* routes of its text, the names the steps give the document, and a        *)
(* follow-up question with the pages of its answer.  What they have in     *)
(* common passes through job data and rows that each module has itself, so *)
(* they are checked side by side: each behaviour is of one of them.        *)
(***************************************************************************)
EXTENDS Document

CONSTANTS wa, wb, wo, xa, xo, ha, ho

VARIABLE part

all == <<part, vars, tvars, nvars, fuvars>>

\* What a job may know of its document: its source, a copy of it, its hash.
MCJobData == {[url |-> u, sourceUrl |-> s, publicUrl |-> p, sha256 |-> h] :
   u \in {wa, wb, xa}, s \in {wa, xa, Absent}, p \in {xa, Absent}, h \in {ha, Absent}}
MCOlder == [reportURL : {wo, Absent}, reportS3Url : {xo, Absent}, reportSha256 : {ho, Absent}]

\* Reports of three snippets on two pages, tables last, with a number that ends another.
Snippet == [page: {1, 2}, kind: {"text", "table"}, num: {<<5, 5>>, <<1, 5, 5>>}, len: {12}]
MCDocs == {d \in [1..3 -> Snippet] :
              \A i \in 1..2 : d[i].kind = "text" /\ (d[i].kind = d[i + 1].kind => d[i].page <= d[i + 1].page)}
MCQuotes == {[num |-> <<5, 5>>, len |-> 12], Unknown}

\* The parts a behaviour is not of begin in one way.
DocumentInit ==
    /\ part \in {"docling", "text", "names", "pages"}
    /\ IF part = "docling" THEN TRUE ELSE setup = [local |-> TRUE, callback |-> FALSE]
    /\ IF part = "text" THEN TRUE
       ELSE /\ asked = [force |-> FALSE, gate |-> FALSE, mentions |-> [v \in {Old, New} |-> FALSE]]
            /\ row = [ver |-> None, found |-> "url"]
            /\ index = NoIndex
    /\ IF part = "names" THEN TRUE
       ELSE /\ jobData = CHOOSE d \in JobData : TRUE
            /\ older = CHOOSE o \in OlderPeriods : TRUE
    /\ IF part = "pages" THEN TRUE
       ELSE doc = (CHOOSE d \in Docs : TRUE) /\ section = [i \in DOMAIN doc |-> 1]
    /\ Init /\ TextInit /\ NamesInit /\ FollowUpInit
    \* Only the gate asks what a text mentions.
    /\ ~asked.gate => asked.mentions = [v \in {Old, New} |-> FALSE]

DoclingStep == part = "docling" /\ Next /\ UNCHANGED <<part, tvars, nvars, fuvars>>
DoclingWorks == part = "docling" /\ Worker /\ UNCHANGED <<part, tvars, nvars, fuvars>>
\* Of a dead worker, a failed call and a removed row at most two come together.
TextStep ==
    /\ part = "text" /\ TextNext
    /\ blows'.crashes = 0 \/ blows'.calls = 0 \/ ~dropped'
    /\ UNCHANGED <<part, vars, nvars, fuvars>>
NamesStep == part = "names" /\ NamesNext /\ UNCHANGED <<part, vars, tvars, fuvars>>
PagesStep == part = "pages" /\ FollowUpNext /\ UNCHANGED <<part, vars, tvars, nvars>>

DocumentSpec ==
    DocumentInit /\ [][DoclingStep \/ TextStep \/ NamesStep \/ PagesStep]_all /\ WF_all(DoclingWorks)
=============================================================================
