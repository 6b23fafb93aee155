----------------------------- MODULE MCPublished -----------------------------
(***************************************************************************)
(* Instances of the parts of Published.  Side by side: each behaviour is   *)
(* of one of them.                                                         *)
(***************************************************************************)
EXTENDS Published, TLC

CONSTANTS r1, r2, q1, q2, w1, w2, x1, h1, f1, f2, k1, k2

VARIABLE part

all == <<part, upvars, kvars, cvars, wvars, evars>>

Symmetry == Permutations(Editors)

-----------------------------------------------------------------------------
(* One document at two web addresses, with or without a cached copy. *)

Identity(url, source, s3, sha) ==
  [url |-> url, sourceUrl |-> source, s3Url |-> s3, sha256 |-> sha, nulls |-> FALSE]
Row(i) == [url |-> i.url, sourceUrl |-> i.sourceUrl, s3Url |-> i.s3Url, sha256 |-> i.sha256,
           markdown |-> None]

\* REPORT_REGISTRY.md, "How rows are created".
Crawled(w) == Identity(w, None, None, None)
Linked(w) == Identity(w, w, None, None)
Cached(w) == Identity(w, w, x1, h1)
Uploaded == Identity(x1, None, x1, h1)
OldPipeline(w) == Identity(x1, w, None, None)

RowKinds == {Crawled(w1), Crawled(w2), OldPipeline(w1), Linked(w2), Cached(w1), Cached(w2), Uploaded}

\* r1: a link whose copy could not be cached; r2: another link to the same
\* file, or the file; q1: the crawler, or a backfill.
MCInputsOf == (r1 :> {Linked(w1)}) @@ (r2 :> {Cached(w2), Uploaded})
                @@ (q1 :> {Crawled(w2), Cached(w1)}) @@ (q2 :> {Crawled(w1)})

\* At most three rows, of every kind the schema admits together.
MCSeeds == {s \in UNION {[1 .. n -> {Row(k) : k \in RowKinds}] : n \in 0 .. 3} : Unique(s)}

\* Old periods with the link only, or the copy only, and one with a hash.
Filing(url, s3, sha) == [url |-> url, s3Url |-> s3, sha256 |-> sha]
MCFilings == {<<Filing(w1, None, None), Filing(w2, None, h1)>>,
              <<Filing(w2, None, None), Filing(x1, None, None)>>,
              <<Filing(x1, None, None), Filing(w2, x1, h1)>>}

MCFileOf == (w1 :> f1) @@ (w2 :> f2) @@ (x1 :> f2)

-----------------------------------------------------------------------------
(* What periods report, for the claims and for the totals. *)

Claims(a, m, l, u, c, s) ==
  [k \in Inputs |-> CASE k = "scope1" -> a [] k = "mb" -> m [] k = "lb" -> l [] k = "unknown" -> u
      [] k = "stated" -> s [] OTHER -> c]
MCReportsOf == {Claims(1, 1, 2, 1, 0, Unreported), Claims(0, Unreported, 1, 2, 1, Unreported),
                Claims(2, Unreported, Unreported, Unreported, 1, 3)}
OnWikidata(i, k, st, en, v) == [id |-> i, kind |-> k, start |-> st, end |-> en, value |-> v]
MCOnItem == {{},
  {OnWikidata(1, "scope1", 1, 1, 2), OnWikidata(2, "scope1", 2, 1, 1), OnWikidata(3, "scope1", 1, 1, 1)},
  {OnWikidata(1, "c1", 1, 1, 1), OnWikidata(2, "c1", 1, 1, 0), OnWikidata(3, "scope1", 1, 2, 1)},
  {OnWikidata(1, "total", 1, 1, 2), OnWikidata(2, "total", 1, 1, 1), OnWikidata(3, "total", 2, 1, 4)}}

Emissions(scopes, scope3, stated) ==
    [p \in Points |-> CASE p = "scope1" -> scopes[1] [] p = "mb" -> scopes[2] [] p = "lb" -> scopes[3]
       [] p = "unknown" -> NoNumber [] p = "scope1And2" -> scopes[4]
       [] p = k1 -> scope3[1] [] p = k2 -> scope3[2] [] p = "scope3" -> scope3[3] [] p = "stated" -> stated]
N == NoNumber
Rich == {Emissions(s, t, N) :
           s \in {<<N, N, N, N>>, <<1, N, N, N>>, <<N, 2, 4, N>>, <<1, 2, N, 8>>, <<N, N, N, 8>>},
           t \in {<<N, N, N>>, <<N, N, 64>>, <<0, N, 64>>, <<16, N, N>>, <<16, 32, 64>>, <<Blank, 32, Blank>>}}
Plain == {Emissions(<<1, N, N, N>>, <<N, N, N>>, N), Emissions(<<N, N, N, 8>>, <<0, N, N>>, N),
          Emissions(<<1, N, 4, N>>, <<16, N, N>>, 128), Emissions(<<N, N, N, N>>, <<N, N, N>>, 128)}
MCReported == [y \in Years |-> IF y \in {2, 3} THEN Rich ELSE Plain]

-----------------------------------------------------------------------------

\* Without a script both runs and the poster are at work, on at most two rows, the poster with a
\* link only when there are two; with a script only the first run is.
RegistryInit ==
  /\ UpkeepInit
  /\ IF script.at = "none"
     THEN /\ up[q1] # Idle /\ created < 3 /\ \A r \in Runs : job[r].at = "parse"
          /\ created = 2 => input[q1] = Crawled(w2)
     ELSE /\ up[q1] = Idle /\ \A r \in Runs : job[r].at = "parse" <=> r = r1
          /\ input[q1] = Crawled(w2) /\ input[r2] = Uploaded

\* A registry in which nothing happens.
NoRegistry ==
  /\ input = [a \in Actors |-> CHOOSE i \in InputsOf[a] : TRUE]
  /\ report = <<>> /\ created = 0 /\ shell = <<>> /\ shells = 0 /\ period = <<>> /\ deletes = 0
  /\ up = [a \in Actors |-> Idle]
  /\ job = [r \in Runs |-> [at |-> "failed", row |-> NoRow, shell |-> NoShell, to |-> NoShell,
                            other |-> NoShell]]
  /\ script = [at |-> "none", rows |-> [id \in {} |-> None], todo |-> {}, clean |-> TRUE]
  /\ filed = <<>> /\ clusters = {}

\* The parts a behaviour is not of begin in one way.
PublishedInit ==
    /\ part \in {"registry", "keys", "list", "claims", "totals"}
    /\ IF part = "registry" THEN RegistryInit ELSE NoRegistry
    /\ IF part = "claims" THEN TRUE ELSE item = {} /\ company = CHOOSE p \in Period : TRUE
    /\ IF part = "totals" THEN TRUE ELSE baseYear = NoNumber
    /\ KeyInit /\ CacheInit /\ ClaimsInit /\ TotalsInit
    /\ part # "keys" => DOMAIN grants = DOMAIN Legacy /\ keys = [k \in Keys |-> Absent]

\* Requests are counted for one key that the environment does not give, and while no seed runs:
\* what the seed does to a key does not depend on its count.
SmallKeyNext ==
    KeyNext /\ DOMAIN bucket' \cap EnvKeys = {} /\ (seed' # 0 => bucket' = <<>>)

RegistryStep == part = "registry" /\ UpkeepNext /\ UNCHANGED <<part, kvars, cvars, wvars, evars>>
KeysStep == part = "keys" /\ SmallKeyNext /\ UNCHANGED <<part, upvars, cvars, wvars, evars>>
ListStep == part = "list" /\ CacheNext /\ UNCHANGED <<part, upvars, kvars, wvars, evars>>
ClaimsStep == part = "claims" /\ ClaimsNext /\ UNCHANGED <<part, upvars, kvars, cvars, evars>>
TotalsStep == part = "totals" /\ TotalsNext /\ UNCHANGED <<part, upvars, kvars, cvars, wvars>>

PublishedSpec ==
    PublishedInit /\ [][RegistryStep \/ KeysStep \/ ListStep \/ ClaimsStep \/ TotalsStep]_all
=============================================================================
