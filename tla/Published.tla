----------------------------- MODULE Published -----------------------------
(***************************************************************************)
(* What the API makes of the data for others, one part per service: the    *)
(* registry of reports and its upkeep (RegistryUpkeep), the keys of        *)
(* clients (ApiKeys), the cached list of companies (ListCache), the claims *)
(* pushed to Wikidata (WikidataClaims), the totals, changes and trends of  *)
(* a company's periods (EmissionTotals).  The parts share no variable.     *)
(***************************************************************************)
EXTENDS RegistryUpkeep, ApiKeys, ListCache, WikidataClaims, EmissionTotals

\* A type invariant for each part; those of registry and claims are of every state.
PublishedTypesOK == TypeOK /\ KeyTypesOK /\ CacheTypesOK /\ ClaimsTypeOK
=============================================================================
