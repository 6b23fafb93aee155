----------------------------- MODULE GleifLookup -----------------------------
(***************************************************************************)
(* How a run comes by the LEI of a company and what hangs on it.  extractLEI *)
(* takes the LEI of the Wikidata item, or searches GLEIF by name and lets  *)
(* an LLM choose among the records; extractGleifIds reads the record of the *)
(* LEI and its ISINs, page by page while GLEIF's list may change, and plans *)
(* what to write.  A failed job is run again from its beginning.           *)
(***************************************************************************)
EXTENDS Naturals, Sequences, FiniteSets, SequencesExt

CONSTANTS
    GleifLeis,   \* valid LEIs
    Noise,       \* what looks like a LEI or an ISIN and is not valid
    ListedIsins, \* valid ISINs
    NoLei,
    PageSize,    \* ISINs on a page
    AutoIsins,   \* more are left to staff
    Lists,       \* what GLEIF may list for a LEI: sequences of ListedIsins and Noise
    MaxTries,    \* bound: attempts of the two jobs
    MaxChanges   \* bound: changes of GLEIF's list during a lookup

ASSUME LookupAssumption ==
    /\ PageSize \in Nat \ {0} /\ AutoIsins \in Nat \ {0}
    /\ MaxTries \in Nat /\ MaxChanges \in Nat
    /\ NoLei \notin GleifLeis \cup Noise \cup ListedIsins /\ Noise \cap (GleifLeis \cup ListedIsins) = {}
    /\ Lists \subseteq Seq(ListedIsins \cup Noise)

VARIABLES
    wikidata, \* the LEI on the item, Noise or NoLei
    found,    \* the LEIs of the records the search by name gives
    listed,   \* GLEIF's list of ISINs of the LEI
    job,      \* the running job: where it is and what it knows
    lei,      \* what extractLEI has answered
    plan,     \* the ISINs to write, those among them as PRIMARY
    tries, changes, steady \* steady: GLEIF's list has not changed since the lookup began

lvars == <<wikidata, found, listed, job, lei, plan, tries, changes, steady>>

MaxPages == (AutoIsins + PageSize - 1) \div PageSize

Fresh == [at |-> "lei", isins |-> {}, page |-> 1, last |-> 1, total |-> 0]
NoPlan == [write |-> {}, primary |-> {}]

LookupInit ==
    /\ wikidata \in GleifLeis \cup Noise \cup {NoLei}
    /\ found \in SUBSET GleifLeis
    /\ listed \in Lists
    /\ job = Fresh /\ lei = NoLei /\ plan = NoPlan
    /\ tries = 0 /\ changes = 0 /\ steady = TRUE

GoTo(at) == job' = [job EXCEPT !.at = at]
Gleif == <<wikidata, found, listed, changes>>

-----------------------------------------------------------------------------
(* extractLEI *)

\* The LEI of the item, when it is valid.
leiFromWikidata ==
    /\ job.at = "lei"
    /\ IF wikidata \in GleifLeis THEN GoTo("record") /\ lei' = wikidata ELSE GoTo("search") /\ UNCHANGED lei
    /\ UNCHANGED <<Gleif, plan, tries, steady>>

\* No record, an LLM that fails or answers nonsense: there is no LEI.
NoneFound ==
    /\ job.at = "search"
    /\ GoTo("ended") /\ lei' = NoLei
    /\ UNCHANGED <<Gleif, plan, tries, steady>>

\* Mutant: any LEI that is one.
Mutant_acceptLeiFromGleifCandidates(choice) == IF choice \in GleifLeis THEN choice ELSE NoLei

\* What the LLM chose, if it is among the records.
acceptLeiFromGleifCandidates(choice) == IF choice \in GleifLeis /\ choice \in found THEN choice ELSE NoLei

selectLeiFromGleif ==
    /\ job.at = "search" /\ found # {}
    /\ \E choice \in GleifLeis \cup Noise : lei' = acceptLeiFromGleifCandidates(choice)
    /\ GoTo(IF lei' = NoLei THEN "ended" ELSE "record")
    /\ UNCHANGED <<Gleif, plan, tries, steady>>

-----------------------------------------------------------------------------
(* extractGleifIds *)

\* No record of the LEI, or no first page of its ISINs: there is nothing to write.
NoRecord ==
    /\ (job.at = "record") \/ (job.at = "isins" /\ job.page = 1)
    /\ GoTo("ended")
    /\ UNCHANGED <<Gleif, lei, plan, tries, steady>>

getGleifLinkedIdentifiers ==
    /\ job.at = "record"
    /\ job' = [Fresh EXCEPT !.at = "isins"]
    /\ steady' = TRUE
    /\ UNCHANGED <<Gleif, lei, plan, tries>>

\* Mutant: the last page that may be read is not.
Mutant_MorePages == job.page <= job.last /\ (job.page < MaxPages \/ job.page = 1)

MorePages == job.page <= job.last /\ job.page <= MaxPages

\* A page, with how many there are; what is not valid is left out.
ReadPage ==
    /\ job.at = "isins" /\ MorePages
    /\ LET first == (job.page - 1) * PageSize + 1
           page == {listed[i] : i \in (first .. first + PageSize - 1) \cap DOMAIN listed}
       IN job' = [job EXCEPT !.isins = @ \cup (page \cap ListedIsins), !.page = @ + 1, !.total = Len(listed),
                             !.last = IF listed = <<>> THEN 1 ELSE (Len(listed) + PageSize - 1) \div PageSize]
    /\ UNCHANGED <<Gleif, lei, plan, tries, steady>>

\* None without a page; with more than may be read, or more than are written, none either.  A
\* sole one is PRIMARY.
planGleifIdentifierWrites ==
    /\ job.at = "isins" /\ ~MorePages
    /\ LET n == IF job.total > Cardinality(job.isins) THEN job.total ELSE Cardinality(job.isins)
           truncated == job.last > MaxPages
       IN plan' = IF truncated \/ n > AutoIsins THEN NoPlan
                  ELSE [write |-> job.isins, primary |-> IF Cardinality(job.isins) = 1 THEN job.isins ELSE {}]
    /\ GoTo("ended")
    /\ UNCHANGED <<Gleif, lei, tries, steady>>

\* A request that fails fails the job, whose next attempt begins again.
LookupFails ==
    /\ job.at \in {"lei", "search", "record", "isins"} /\ tries < MaxTries
    /\ tries' = tries + 1
    /\ job' = [Fresh EXCEPT !.at = IF job.at \in {"lei", "search"} THEN "lei" ELSE "record"]
    /\ UNCHANGED <<Gleif, lei, plan, steady>>

\* GLEIF's list changes; before the first page is read, that is another list.
ListChanges ==
    /\ changes < MaxChanges /\ job.at = "isins" /\ job.page > 1
    /\ changes' = changes + 1
    /\ \E l \in Lists \ {listed} : listed' = l
    /\ steady' = FALSE
    /\ UNCHANGED <<wikidata, found, job, lei, plan, tries>>

LookupNext ==
    \/ leiFromWikidata \/ NoneFound \/ selectLeiFromGleif
    \/ NoRecord \/ getGleifLinkedIdentifiers \/ ReadPage \/ planGleifIdentifierWrites
    \/ LookupFails \/ ListChanges

LookupSpec == LookupInit /\ [][LookupNext]_lvars

-----------------------------------------------------------------------------

\* Whatever the LLM answers: the LEI of a run is valid, and Wikidata or GLEIF gives it for the
\* company (gleif.ts:70: "rejects managingLou and invented values").
LeiIsVouched == lei # NoLei => lei \in GleifLeis /\ lei \in found \cup {wikidata}

\* The ISINs to write are all valid ones GLEIF lists, or none when it lists more than are written
\* by themselves; however many pages they are on, and although attempts failed in between, unless
\* the list changed under the lookup.
AllOrNone ==
    steady /\ job.at = "ended" /\ plan # NoPlan =>
        /\ plan.write = ToSet(listed) \cap ListedIsins /\ Len(listed) <= AutoIsins
        /\ plan.primary # {} => ToSet(listed) \cap ListedIsins = plan.primary

\* A LEI is vouched for, and its ISINs are written all or none.
LookupIsSound == LeiIsVouched /\ AllOrNone
=============================================================================
