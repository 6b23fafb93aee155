--------------------------- MODULE EmissionTotals ---------------------------
(***************************************************************************)
(* The numbers the API works out when it lists a company: the total of a   *)
(* period, how a period compares with the one before, and the years its    *)
(* trend is drawn through.  Reports leave out what they like, so that each *)
(* has to choose among overlapping data points, and to know which years    *)
(* may be compared.  The regression itself is floating point and is not    *)
(* modelled, the choice of its points is.                                  *)
(***************************************************************************)
EXTENDS Naturals, FiniteSets, FiniteSetsExt

CONSTANTS
    Years,    \* years of reporting periods
    Cats,     \* scope 3 categories
    NoNumber, \* nothing reported
    Blank,    \* a part of scope 3 that is listed without a number
    Reported  \* what a period of a year may report, by year

Scope2 == {"mb", "lb", "unknown"}
Points == {"scope1", "scope1And2", "scope3", "stated"} \cup Scope2 \cup Cats

ASSUME TotalsAssumption ==
    /\ Years \subseteq Nat /\ NoNumber \notin Nat /\ Cats \cap ({"scope1", "scope1And2", "scope3", "stated"} \cup Scope2) = {}
    /\ IsFiniteSet(Cats) /\ Blank # NoNumber /\ Blank \notin Nat
    /\ Reported \in [Years -> SUBSET [Points -> Nat \cup {NoNumber, Blank}]]
    /\ \A y \in Years : \A e \in Reported[y], p \in Points \ (Cats \cup {"scope3"}) : e[p] # Blank

VARIABLES
    periods, \* the emissions of the company by year
    baseYear \* the base year of the company, or NoNumber

evars == <<periods, baseYear>>

TotalsInit == periods = [y \in {} |-> NoNumber] /\ baseYear \in Years \cup {NoNumber}

\* A period that is corrected is as if it had been saved so at first: each is saved once.
ReportPeriod(y) ==
    /\ y \notin DOMAIN periods
    /\ \E e \in Reported[y] : periods' = [z \in DOMAIN periods \cup {y} |-> IF z = y THEN e ELSE periods[z]]
    /\ UNCHANGED baseYear

TotalsNext == \E y \in Years : ReportPeriod(y)

TotalsSpec == TotalsInit /\ [][TotalsNext]_evars

-----------------------------------------------------------------------------
(* companyEmissionsCalculator.ts *)

Or(a, b) == IF a \notin {NoNumber, Blank} THEN a ELSE b
OrZero(n) == Or(n, 0)
Sum(e, S) == FoldSet(LAMBDA p, sum : sum + OrZero(e[p]), 0, S)
Numbers(e, S) == {p \in S : e[p] \notin {NoNumber, Blank}}
Listed(e, S) == {p \in S : e[p] # NoNumber}

calculateScope2Total(e) == Or(e["mb"], Or(e["lb"], e["unknown"]))

\* Mutant: what was reported of both together is added to what was reported of each.
Mutant_calculateScope1And2Total(e) ==
    IF e["scope1"] # NoNumber \/ calculateScope2Total(e) # NoNumber \/ e["scope1And2"] # NoNumber
    THEN OrZero(e["scope1"]) + OrZero(calculateScope2Total(e)) + OrZero(e["scope1And2"]) ELSE NoNumber

\* Scopes 1 and 2 apart, if there is one of them, else together.
calculateScope1And2Total(e) ==
    IF e["scope1"] # NoNumber \/ calculateScope2Total(e) # NoNumber
    THEN OrZero(e["scope1"]) + OrZero(calculateScope2Total(e))
    ELSE e["scope1And2"]

\* The categories, if one has a number, else the stated total of scope 3.
calculateScope3Total(e) == IF Numbers(e, Cats) # {} THEN Sum(e, Cats) ELSE Or(e["scope3"], NoNumber)

calculatedTotalEmissions(e) ==
    LET scopes == calculateScope1And2Total(e)
        scope3 == calculateScope3Total(e)
    IN IF scopes = NoNumber /\ scope3 = NoNumber THEN e["stated"] ELSE OrZero(scopes) + OrZero(scope3)

\* Mutant: the categories are added up without looking for the same ones in the other period.
Mutant_calculateScope3EmissionsTotals(e, f) ==
    IF Listed(e, Cats) # {} /\ Listed(f, Cats) # {} THEN <<Sum(e, Cats), Sum(f, Cats)>>
    ELSE IF e["scope3"] # NoNumber /\ f["scope3"] # NoNumber THEN <<OrZero(e["scope3"]), OrZero(f["scope3"])>> ELSE <<0, 0>>

\* Categories both list, if both list any and not all are 0, else the stated totals.
calculateScope3EmissionsTotals(e, f) ==
    LET both == Listed(e, Cats) \cap Listed(f, Cats)
    IN IF Listed(e, Cats) # {} /\ Listed(f, Cats) # {} /\ Sum(e, Cats) + Sum(f, Cats) > 0
       THEN <<Sum(e, both), Sum(f, both)>>
       ELSE IF e["scope3"] # NoNumber /\ f["scope3"] # NoNumber THEN <<OrZero(e["scope3"]), OrZero(f["scope3"])>> ELSE <<0, 0>>

\* The totals an adjusted change is worked out from.
calculateEmissionTotals(e, f) ==
    LET s == calculateScope1And2Total(e)
        t == calculateScope1And2Total(f)
        scope3 == calculateScope3EmissionsTotals(e, f)
    IN IF s # NoNumber /\ t # NoNumber THEN <<s + scope3[1], t + scope3[2]>> ELSE scope3

-----------------------------------------------------------------------------
(* companyEmissionsFutureTrendCalculator.ts *)

hasScope3Data(e) == \E p \in Cats \cup {"scope3"} : OrZero(e[p]) > 0
hasScope1And2Data(e) == Numbers(e, Scope2 \cup {"scope1", "scope1And2"}) # {}

FromBaseYear == {y \in DOMAIN periods : baseYear = NoNumber \/ y >= baseYear}

\* Mutant: years with scope 3 are left out, instead of ruling the type out.
Mutant_getValidDataPeriods(type) ==
    {y \in FromBaseYear : IF type = "scope3" THEN hasScope3Data(periods[y])
                          ELSE hasScope1And2Data(periods[y]) /\ ~hasScope3Data(periods[y])}

\* Scopes 1 and 2 alone, only when no year has scope 3.
getValidDataPeriods(type) ==
    IF type = "scope1and2" /\ \E y \in FromBaseYear : hasScope3Data(periods[y]) THEN {}
    ELSE {y \in FromBaseYear : IF type = "scope3" THEN hasScope3Data(periods[y])
                               ELSE hasScope1And2Data(periods[y]) /\ ~hasScope3Data(periods[y])}

determineEmissionsType ==
    IF baseYear # NoNumber /\ baseYear \notin FromBaseYear THEN "none"
    ELSE IF Cardinality(getValidDataPeriods("scope3")) >= 3 THEN "scope3"
    ELSE IF Cardinality(getValidDataPeriods("scope1and2")) >= 3 THEN "scope1and2" ELSE "none"

\* For scopes 1 and 2 all years, those that have neither included.
extractEmissionsArray(type) == {y \in FromBaseYear : type = "scope3" => hasScope3Data(periods[y])}

\* The years through which the trend is drawn: of those with a total, three at least.
calculateFutureEmissionTrend ==
    LET type == determineEmissionsType
        points == {y \in extractEmissionsArray(type) : calculatedTotalEmissions(periods[y]) # NoNumber}
    IN IF type # "none" /\ Cardinality(points) >= 3 THEN points ELSE {}

-----------------------------------------------------------------------------
(* companyService.ts: what is added to the periods of a company that is read. *)

addCalculatedTotalEmissions == [y \in DOMAIN periods |-> calculatedTotalEmissions(periods[y])]

\* Each period but the first, with the one before it.
addEmissionTrendsToReportingPeriods ==
    {pair \in (DOMAIN periods) \X (DOMAIN periods) :
        pair[2] < pair[1] /\ \A z \in DOMAIN periods : z <= pair[2] \/ z >= pair[1]}

-----------------------------------------------------------------------------

\* Data points that are accounts of the same emissions.
Overlap(p, q) ==
    \/ p = "stated" \/ q = "stated"
    \/ p \in Scope2 /\ q \in Scope2
    \/ "scope1And2" \in {p, q} /\ {p, q} \cap (Scope2 \cup {"scope1"}) # {}
    \/ "scope3" \in {p, q} /\ {p, q} \cap Cats # {}

\* Whatever a report leaves out or says twice: its total adds data points no two of which are of
\* the same emissions, and leaves none out but those that are of the same as one that is counted.
TotalCountsOnce ==
    \A y \in DOMAIN periods :
        LET e == periods[y]
            there == Numbers(e, Points)
            total == addCalculatedTotalEmissions[y]
        IN IF there = {} THEN total = NoNumber
           ELSE \E K \in SUBSET there :
                    /\ K # {} /\ total = Sum(e, K)
                    /\ \A p, q \in K : p # q => ~Overlap(p, q)
                    /\ \A p \in there \ K : \E q \in K : Overlap(p, q)

\* Both scopes, however they are reported.
Complete(e) == IF e["scope1"] # NoNumber \/ calculateScope2Total(e) # NoNumber
               THEN e["scope1"] # NoNumber /\ calculateScope2Total(e) # NoNumber
               ELSE e["scope1And2"] # NoNumber

\* Where each of two successive periods has both of scopes 1 and 2 or neither, and lists nothing
\* without a number, their adjusted change is worked out from data both report, without what only
\* one of them has.
AdjustedIsLikeForLike ==
    \A pair \in addEmissionTrendsToReportingPeriods :
        LET e == periods[pair[1]]
            f == periods[pair[2]]
            scopes(d) == calculateScope1And2Total(d)
            both == Numbers(e, Cats \cup {"scope3"}) \cap Numbers(f, Cats \cup {"scope3"})
        IN (\A d \in {e, f} : /\ Complete(d) \/ scopes(d) = NoNumber
                              /\ Listed(d, Points) = Numbers(d, Points)) =>
               \E K \in SUBSET both, take \in {{}, {"scopes"}} :
                  /\ "scope3" \in K => K = {"scope3"}
                  /\ take # {} <=> scopes(e) # NoNumber /\ scopes(f) # NoNumber
                  /\ calculateEmissionTotals(e, f) =
                        <<Sum(e, K) + (IF take = {} THEN 0 ELSE scopes(e)),
                          Sum(f, K) + (IF take = {} THEN 0 ELSE scopes(f))>>

\* "When companies start reporting scope 3 emissions often dramatically rise": a trend is never
\* drawn through years with and years without scope 3, nor through fewer than three or ones
\* before the base year.
TrendDoesNotMix ==
    calculateFutureEmissionTrend # {} =>
        /\ Cardinality(calculateFutureEmissionTrend) >= 3
        /\ \A y \in calculateFutureEmissionTrend : baseYear # NoNumber => y >= baseYear /\ baseYear \in DOMAIN periods
        /\ \A y, z \in calculateFutureEmissionTrend : hasScope3Data(periods[y]) <=> hasScope3Data(periods[z])

\* Nothing is counted twice, and changes and trends compare what is alike.
EmissionsAreFair == TotalCountsOnce /\ AdjustedIsLikeForLike /\ TrendDoesNotMix
=============================================================================
