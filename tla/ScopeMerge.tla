----------------------------- MODULE ScopeMerge -----------------------------
(***************************************************************************)
(* The scope 1 and 2 emissions of a report.  Two follow-up questions, and   *)
(* an older one that asked for both scopes at once, are answered year by   *)
(* year, in any order; checkDB merges the answers into one entry per year, *)
(* which becomes the period of that year.  A part that was asked for and   *)
(* not found is null, one that was not asked for is absent.                *)
(***************************************************************************)
EXTENDS Naturals, Sequences, FiniteSets, SequencesExt

CONSTANTS
    Null, NotAsked, \* a part that was not found, that was not asked for
    Answers         \* what each question may be answered with, by question

Questions == {"scope1", "scope2", "legacy"}
Parts == {"scope1", "scope2", "scope1And2"}
NotFound == {Null, NotAsked}

\* An answer is a list of entries; the newer questions ask for one scope each and the combined
\* value (jobs/scope1/schema.ts, jobs/scope2/schema.ts).
ASSUME MergeAssumption ==
    /\ Null # NotAsked
    /\ \A q \in Questions : \A a \in Answers[q] :
          a # NotAsked /\ a \in Seq({a[i] : i \in DOMAIN a})
    /\ \A a \in Answers["scope1"] : \A i \in DOMAIN a : a[i].parts["scope2"] = NotAsked
    /\ \A a \in Answers["scope2"] : \A i \in DOMAIN a : a[i].parts["scope1"] = NotAsked

VARIABLES
    answer, \* the answers there are; NotAsked for a question that failed or was not asked
    merged, \* the entries checkDB goes on with
    done    \* it has merged

mvars == <<answer, merged, done>>

Answered == DOMAIN answer

MergeInit == answer = [q \in {} |-> <<>>] /\ merged = {} /\ done = FALSE

-----------------------------------------------------------------------------

\* a ?? b
OrElse(a, b) == IF a \in NotFound THEN b ELSE a

NoEntry == [p \in Parts |-> NotAsked]

\* The entries of an answer by year; of two for one year the last counts ...
EntryIndex(entries) ==
    [y \in {entries[i].year : i \in DOMAIN entries} |->
        LET last == CHOOSE i \in DOMAIN entries :
                        entries[i].year = y /\ \A k \in DOMAIN entries : entries[k].year = y => k <= i
        IN entries[last].parts]
indexEntriesByYear(entries) == IF entries = NotAsked THEN EntryIndex(<<>>) ELSE EntryIndex(entries)

\* ... in an old answer the first.
legacyByYear(entries) == IF entries = NotAsked THEN EntryIndex(<<>>) ELSE EntryIndex(Reverse(entries))

Of(index, y) == IF y \in DOMAIN index THEN index[y] ELSE NoEntry

\* The combined value is that of the first answer that says anything of it, be it null.
pickScope1And2(one, two, old) ==
    IF one["scope1And2"] # NotAsked THEN one["scope1And2"]
    ELSE IF two["scope1And2"] # NotAsked THEN two["scope1And2"] ELSE old["scope1And2"]

mergeEntriesForYear(one, two, old) ==
    [p \in Parts |-> CASE p = "scope1" -> OrElse(one[p], old[p])
                       [] p = "scope2" -> OrElse(two[p], old[p])
                       [] p = "scope1And2" -> pickScope1And2(one, two, old)]

\* Mutant: the years of the old answer are forgotten when there are others.
Mutant_collectAllYears(one, two, old) ==
    IF DOMAIN one \cup DOMAIN two # {} THEN DOMAIN one \cup DOMAIN two ELSE DOMAIN old

collectAllYears(one, two, old) == DOMAIN one \cup DOMAIN two \cup DOMAIN old

\* An old answer alone, or none with a year, is gone on with as it is.
mergeScope1AndScope2Results(a) ==
    LET one == indexEntriesByYear(a["scope1"])
        two == indexEntriesByYear(a["scope2"])
        old == legacyByYear(a["legacy"])
        years == collectAllYears(one, two, old)
    IN IF (a["scope1"] = NotAsked /\ a["scope2"] = NotAsked) \/ years = {}
       THEN IF a["legacy"] = NotAsked THEN {} ELSE ToSet(a["legacy"])
       ELSE {[year |-> y, parts |-> mergeEntriesForYear(Of(one, y), Of(two, y), Of(old, y))] : y \in years}

-----------------------------------------------------------------------------

\* A question is answered, or has failed for good and is left out.
FollowUpEnds(q) ==
    /\ q \notin Answered
    /\ \E a \in Answers[q] \cup {NotAsked} :
          answer' = [r \in Answered \cup {q} |-> IF r = q THEN a ELSE answer[r]]
    /\ UNCHANGED <<merged, done>>

\* checkDB starts when all its children have ended.
CheckDBMerges ==
    /\ ~done /\ Answered = Questions
    /\ done' = TRUE
    /\ merged' = mergeScope1AndScope2Results(answer)
    /\ UNCHANGED answer

MergeNext == (\E q \in Questions : FollowUpEnds(q)) \/ CheckDBMerges

MergeSpec == MergeInit /\ [][MergeNext]_mvars

-----------------------------------------------------------------------------

\* What each question says last (an old answer: first) of a part of a year.
Says(q, y, p) ==
    Of(IF q = "legacy" THEN legacyByYear(answer[q]) ELSE indexEntriesByYear(answer[q]), y)[p]

Years == UNION {{answer[q][i].year : i \in DOMAIN answer[q]} : q \in {q \in Questions : answer[q] # NotAsked}}
Found(y, p) == \E e \in merged : e.year = y /\ e.parts[p] \notin NotFound

\* Whichever questions were answered: no year is lost or doubled, and of each year what was found
\* of scope 1 or scope 2 is kept.
NothingFoundIsLost ==
    done =>
        /\ \A q \in Questions, y \in Years, p \in {"scope1", "scope2"} :
              Says(q, y, p) \in NotFound \/ Found(y, p)
        /\ \A y \in Years : \E e \in merged : e.year = y
        /\ (\E q \in {"scope1", "scope2"} : answer[q] # NotAsked) =>
              \A d, e \in merged : d.year = e.year => d = e
=============================================================================
