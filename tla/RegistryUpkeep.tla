--------------------------- MODULE RegistryUpkeep ---------------------------
(***************************************************************************)
(* The two scripts that tidy the registry of ReportRegistry, each started  *)
(* by hand as a job of its own while the pipeline may be working:          *)
(*                                                                         *)
(*   dedupe    reads the whole table once, groups the rows of one document *)
(*             and merges each group in a transaction of its own;          *)
(*   backfill  reads the identities that periods have of their documents,  *)
(*             groups them and upserts one row per group, as Clerk.        *)
(*                                                                         *)
(* Everything here is of one company, which every row names; dry runs and  *)
(* the mapping files are left out.                                         *)
(***************************************************************************)
EXTENDS ReportRegistry

CONSTANTS
  Clerk,      \* the poster whose upserts are the backfill's
  FileOf,     \* [Urls -> name of the file at the end of the url]
  Filings     \* what periods have of their documents: sequences, in the order of the periods

VARIABLES
  script,     \* [at, rows: the table it read, todo: groups to merge, clean: nobody else wrote]
  filed,      \* the periods' identities, never changes
  clusters    \* groups of periods the backfill has still to upsert

upvars == <<vars, script, filed, clusters>>

FiledType == [url : Urls \cup {None}, s3Url : StorageUrls \cup {None}, sha256 : Hashes \cup {None}]

ASSUME UpkeepAssumption ==
  /\ Clerk \in Posters
  /\ DOMAIN FileOf = Urls
  /\ Filings \subseteq Seq(FiledType)

\* The sets a union-find over S ends in: nothing links one to the rest, and
\* none falls apart.
Components(S, linked) ==
  LET Closed(C) == \A a \in C, b \in S \ C : <<a, b>> \notin linked /\ <<b, a>> \notin linked
  IN {C \in (SUBSET S) \ {{}} : Closed(C) /\ \A D \in (SUBSET C) \ {{}, C} : ~Closed(D)}

Shared(a, b) == a = b /\ a # None

(***************************************************************************)
(* dedupe-report-registry.ts                                               *)
(***************************************************************************)

WebsOf(row) == {row.url, row.sourceUrl} \cap WebUrls
StoragesOf(row) == {row.s3Url, row.url} \cap StorageUrls

\* Mutation: the same column only, no link between url and sourceUrl.
OneDocumentStraight(p, q) ==
  \/ \E c \in Identifying : Shared(p[c], q[c])
  \/ \E w \in WebsOf(p), x \in StoragesOf(q) : FileOf[w] = FileOf[x]

\* Two rows of one document: the same value, a url that is the other's source,
\* or a web address and a copy with the same file name.
OneDocument(p, q) ==
  \/ \E c \in Identifying : Shared(p[c], q[c])
  \/ Shared(p.url, q.sourceUrl)
  \/ \E w \in WebsOf(p), x \in StoragesOf(q) : FileOf[w] = FileOf[x]

\* findDuplicateReportGroups
Groups(rows) ==
  LET linked == {e \in (DOMAIN rows) \X (DOMAIN rows) : OneDocument(rows[e[1]], rows[e[2]])}
  IN {G \in Components(DOMAIN rows, linked) : Cardinality(G) > 1}

DedupeReads ==
  /\ script.at = "dedupe"
  /\ script' = [at |-> "merging", rows |-> report, todo |-> Groups(report), clean |-> TRUE]
  /\ UNCHANGED <<vars, filed, clusters>>

\* What is written is what was read at the start.  The merged markdown is not
\* written, nor is what no row of the group has.
DedupePlan(group) ==
  LET rows == script.rows
      Ahead(j, k) == \/ Score(rows[j]) > Score(rows[k])
                     \/ /\ Score(rows[j]) = Score(rows[k])
                        /\ \/ rows[j].sha256 # None /\ rows[k].sha256 = None
                           \/ (rows[j].sha256 # None <=> rows[k].sha256 # None) /\ j < k
      keep == CHOOSE j \in group : \A k \in group \ {j} : Ahead(j, k)
      merged == Merging(rows, keep, group \ {keep})
  IN [keep |-> keep, drop |-> group \ {keep},
      set |-> [c \in {d \in Identifying : merged[d] # None} |-> merged[c]]]

\* A row that is gone, or a value another row has by now, ends the script.
DedupeMerges ==
  /\ script.at = "merging"
  /\ \E group \in script.todo :
       LET p == DedupePlan(group)
       IN IF Applies(p)
          THEN /\ report' = After(p)
               /\ shell' = Unlinked(p.drop)
               /\ up' = Dirtied(up, None)
               /\ script' = [script EXCEPT !.todo = @ \ {group}]
          ELSE /\ script' = [script EXCEPT !.at = "threw"]
               /\ UNCHANGED <<report, shell, up>>
  /\ UNCHANGED <<created, shells, period, job, deletes, input, filed, clusters>>

DedupeEnds ==
  /\ script.at = "merging" /\ script.todo = {}
  /\ script' = [script EXCEPT !.at = "deduped"]
  /\ UNCHANGED <<vars, filed, clusters>>

(***************************************************************************)
(* backfill-report-from-periods.ts                                         *)
(***************************************************************************)

CopyUrl(f) == IF f.s3Url # None THEN f.s3Url ELSE IF f.url \in StorageUrls THEN f.url ELSE None

\* unionPeriodsByIdentityKeys
SameKeys(f, g) ==
  \/ Shared(f.sha256, g.sha256)
  \/ Shared(CopyUrl(f), CopyUrl(g))
  \/ Shared(f.url, g.url)

\* bestWebUrl, bestS3Url, bestSha256: the first period that has one.
FirstOf(group, value) ==
  LET has == {n \in group : value[n] # None}
  IN IF has = {} THEN None ELSE value[Min(has)]
BestWebUrl(group) ==
  FirstOf(group, [n \in group |-> IF filed[n].url \in WebUrls THEN filed[n].url ELSE None])
BestS3Url(group) == FirstOf(group, [n \in group |-> CopyUrl(filed[n])])
BestSha256(group) == FirstOf(group, [n \in group |-> filed[n].sha256])

\* shouldMergeComplementaryClusters: a link without copy and a copy without link
\* may be one file.
Complementary(G, H) ==
  \/ Shared(BestSha256(G), BestSha256(H))
  \/ /\ BestWebUrl(G) # None /\ BestS3Url(H) # None
     /\ FileOf[BestWebUrl(G)] = FileOf[BestS3Url(H)]

BackfillReads ==
  /\ script.at = "backfill"
  /\ LET same == {e \in (DOMAIN filed) \X (DOMAIN filed) : SameKeys(filed[e[1]], filed[e[2]])}
         groups == Components(DOMAIN filed, same)
         alike == {e \in groups \X groups : Complementary(e[1], e[2])}
     IN clusters' = {UNION C : C \in Components(groups, alike)}
  /\ script' = [script EXCEPT !.at = "upserting"]
  /\ UNCHANGED <<vars, filed>>

\* What the group does not have is given as null.
Payload(group) ==
  LET web == BestWebUrl(group)
  IN [url |-> IF web # None THEN web ELSE BestS3Url(group), sourceUrl |-> web,
      s3Url |-> BestS3Url(group), sha256 |-> BestSha256(group), nulls |-> TRUE]

\* One group after the other, whether the upsert before it failed or not; a
\* group that has a hash and no address is left out.
BackfillUpserts ==
  /\ script.at = "upserting" /\ up[Clerk].at \in {"idle", "done", "threw"}
  /\ \E group \in clusters :
       /\ clusters' = clusters \ {group}
       /\ IF Payload(group).url = None
          THEN UNCHANGED <<input, up>>
          ELSE /\ input' = [input EXCEPT ![Clerk] = Payload(group)]
               /\ up' = [up EXCEPT ![Clerk] = [Idle EXCEPT !.at = "find"]]
  /\ UNCHANGED <<report, created, links, job, deletes, script, filed>>

BackfillEnds ==
  /\ script.at = "upserting" /\ up[Clerk].at \in {"idle", "done", "threw"} /\ clusters = {}
  /\ script' = [script EXCEPT !.at = "backfilled"]
  /\ UNCHANGED <<vars, filed, clusters>>

Script == DedupeReads \/ DedupeMerges \/ DedupeEnds \/ BackfillReads \/ BackfillUpserts \/ BackfillEnds

UpkeepInit ==
  /\ Init
  /\ up[Clerk] = Idle
  /\ \E at \in {"none", "dedupe", "backfill"} :
       script = [at |-> at, rows |-> [id \in {} |-> None], todo |-> {}, clean |-> TRUE]
  /\ filed \in IF script.at = "backfill" THEN Filings ELSE {<<>>}
  /\ clusters = {}

\* Somebody else has written, or an upsert of the script has failed.
Disturbs == IF up'[Clerk] = up[Clerk] THEN report' # report ELSE up'[Clerk].at = "threw"

Others ==
  /\ Next
  /\ script' = IF Disturbs THEN [script EXCEPT !.clean = FALSE] ELSE script
  /\ UNCHANGED <<filed, clusters>>

UpkeepNext == Script \/ Others
UpkeepSpec == UpkeepInit /\ [][UpkeepNext]_upvars

-----------------------------------------------------------------------------

\* REPORT_REGISTRY.md, "Deduplication script": a pass that nobody disturbs leaves
\* no two rows known by one value, whatever the merging has moved between columns.
OnePassIsEnough ==
  script.at = "deduped" /\ script.clean =>
    \A j, k \in DOMAIN report : j # k => ~Describes(report[j], report[k])
=============================================================================
