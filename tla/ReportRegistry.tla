--------------------------- MODULE ReportRegistry ---------------------------
(***************************************************************************)
(* The registry of documents (table Report) and what hangs on it.  A       *)
(* document is known by up to four values: a primary url, a source url,    *)
(* the url of the cached copy and its hash.  Several writers look for its  *)
(* row by any of them and write afterwards:                                *)
(*                                                                         *)
(*   upserts   create, patch or merge rows (registryService.ts): the       *)
(*             crawler, staff, guessWikidata, checkDB and period saves;    *)
(*   parses    store the markdown in the oldest row they find              *)
(*             (doclingParsePDF.ts, persistMarkdown);                      *)
(*   staff     delete rows.                                                *)
(*                                                                         *)
(* A CompanyReport ("shell") ties a company to a row, and its reporting    *)
(* period hangs on the shell.  The runs here belong to one company and     *)
(* save one year; CompanySave keeps their saves apart.  Every step is one  *)
(* Prisma call or the commit of one transaction.  A value an input does not *)
(* have is None: undefined, or null when the input has nulls.              *)
(***************************************************************************)
EXTENDS Naturals, FiniteSetsExt, SequencesExt

CONSTANTS
  WebUrls, StorageUrls, Hashes,
  None,           \* a value that is not there, or not known
  Text,           \* a markdown that is there
  NoRow, NoShell,
  Runs,           \* pipeline runs
  Posters,        \* other upserts: a crawler's, a backfill of guessWikidata
  InputsOf,       \* [Runs \cup Posters -> identities each may have of its document]
  Seeds,          \* the registries there may be at first
  MaxRows,        \* bound: rows ever created
  MaxShells,      \* bound: shells ever created
  MaxDeletes      \* bound: rows deleted by staff

Actors == Runs \cup Posters
RowIds == 1 .. MaxRows        \* cuids: ordered by the time of their creation
ShellIds == 1 .. MaxShells
Urls == WebUrls \cup StorageUrls

RowType == [url : Urls, sourceUrl : WebUrls \cup {None}, s3Url : StorageUrls \cup {None},
            sha256 : Hashes \cup {None}, markdown : {None, Text}]
IdentityType == [url : Urls, sourceUrl : WebUrls \cup {None},
                 s3Url : StorageUrls \cup {None}, sha256 : Hashes \cup {None},
                 nulls : BOOLEAN]   \* what is not known is given as null

Partial(S, T) == UNION {[D -> T] : D \in SUBSET S}

ASSUME ValuesAssumption ==
  /\ WebUrls \cap StorageUrls = {}
  /\ None \notin Urls \cup Hashes \cup {Text} \cup Actors
  /\ Runs \cap Posters = {}
  /\ InputsOf \in [Actors -> SUBSET IdentityType]
ASSUME BoundsAssumption ==
  /\ MaxRows \in Nat /\ MaxShells \in Nat /\ MaxDeletes \in Nat
  /\ NoRow \notin RowIds /\ NoShell \notin ShellIds
ASSUME SeedsAssumption ==
  \A seed \in Seeds : \E n \in 0 .. MaxRows : seed \in [1 .. n -> RowType]

VARIABLES
  input,      \* [Actors -> the identity it has of its document], never changes
  report,     \* Report: its rows by id
  created,    \* rows created so far
  shell,      \* CompanyReport.registryReportId by id
  shells,     \* shells created so far
  period,     \* [shells with a period of the year -> the run whose data it has]
  up,         \* [Actors -> the upsert, or persistMarkdown, it is in]
  job,        \* [Runs -> where the run is, the row and shell in its job data]
  deletes     \* rows deleted by staff so far

vars == <<input, report, created, shell, shells, period, up, job, deletes>>
links == <<shell, shells, period>>

\* What a writer is about to do: delete rows, and set some columns of one row,
\* or all columns of a new one (keep = NoRow).
Columns == {"url", "sourceUrl", "s3Url", "sha256", "markdown"}
Identifying == Columns \ {"markdown"}
PlanType == [keep : RowIds \cup {NoRow}, drop : SUBSET RowIds,
             set : Partial(Columns, Urls \cup Hashes \cup {None, Text})]
NoPlan == [keep |-> NoRow, drop |-> {}, set |-> [c \in {} |-> None]]

UpType == [at : {"idle", "find", "merge", "put", "done", "threw"},
           ids : SUBSET RowIds, plan : PlanType, row : RowIds \cup {NoRow},
           clean : BOOLEAN]
Idle == [at |-> "idle", ids |-> {}, plan |-> NoPlan, row |-> NoRow, clean |-> TRUE]

JobType == [at : {"parse", "store", "check", "early", "shell", "queued", "infer",
                  "period", "linked", "link", "set", "move", "tidy",
                  "done", "failed"},
            row : RowIds \cup {NoRow}, shell : ShellIds \cup {NoShell},
            to : ShellIds \cup {NoShell}, other : ShellIds \cup {NoShell}]

Init ==
  /\ input \in {f \in [Actors -> UNION {InputsOf[a] : a \in Actors}] :
                 \A a \in Actors : f[a] \in InputsOf[a]}
  /\ report \in Seeds
  /\ created = Cardinality(DOMAIN report)
  /\ shell = <<>> /\ shells = 0 /\ period = <<>>
  /\ \E callers \in SUBSET Posters :
       up = [a \in Actors |-> IF a \in callers THEN [Idle EXCEPT !.at = "find"] ELSE Idle]
  /\ \E alive \in SUBSET Runs :
       job = [r \in Runs |-> [at |-> IF r \in alive THEN "parse" ELSE "failed", row |-> NoRow,
                             shell |-> NoShell, to |-> NoShell, other |-> NoShell]]
  /\ deletes = 0

Over(f, g) == [c \in DOMAIN g |-> IF c \in DOMAIN f THEN f[c] ELSE g[c]]
With(f, x, y) == [z \in DOMAIN f \cup {x} |-> IF z = x THEN y ELSE f[z]]
Without(f, S) == [z \in DOMAIN f \ S |-> f[z]]

(***************************************************************************)
(* Finding and merging rows: registryReportIdentity.ts                     *)
(***************************************************************************)

\* Mutation: without the cross-links between url and sourceUrl.
MatchesStraight(i, row) ==
  \/ i.sha256 # None /\ row.sha256 = i.sha256
  \/ i.sourceUrl # None /\ row.sourceUrl = i.sourceUrl
  \/ row.url = i.url
  \/ i.s3Url # None /\ row.s3Url = i.s3Url

\* buildReportMatchConditions
Matches(i, row) ==
  \/ i.sha256 # None /\ row.sha256 = i.sha256
  \/ i.sourceUrl # None /\ i.sourceUrl \in {row.sourceUrl, row.url}
  \/ i.url \in {row.url, row.sourceUrl}
  \/ i.s3Url # None /\ row.s3Url = i.s3Url

Matching(i) == {id \in DOMAIN report : Matches(i, report[id])}

Score(row) == Cardinality({c \in Identifying : row[c] # None})

\* pickRowToKeep: most identity fields, then a hash, then the oldest.
Outranks(j, k) ==
  \/ Score(report[j]) > Score(report[k])
  \/ /\ Score(report[j]) = Score(report[k])
     /\ \/ report[j].sha256 # None /\ report[k].sha256 = None
        \/ /\ report[j].sha256 # None <=> report[k].sha256 # None
           /\ j < k
RowToKeep(ids) == CHOOSE j \in ids : \A k \in ids \ {j} : Outranks(j, k)

\* Mutation: the markdown is not among the fields that are copied.
CopyMissingIdentity(keep, gone) ==
  [c \in Columns |-> IF c \notin {"url", "markdown"} /\ keep[c] = None THEN gone[c]
                     ELSE IF c = "url" /\ gone.url \in WebUrls /\ keep.url \in StorageUrls THEN gone.url
                     ELSE keep[c]]

\* copyMissingFields: only empty fields are filled, except that a web url wins
\* over a storage url, and the storage url of the other row may become s3Url.
CopyMissing(keep, gone) ==
  LET filled == [c \in Columns |-> IF c # "url" /\ keep[c] = None THEN gone[c] ELSE keep[c]]
  IN IF gone.url \in WebUrls /\ keep.url \in StorageUrls
     THEN [filled EXCEPT !.url = gone.url]
     ELSE IF gone.url \in StorageUrls /\ keep.s3Url = None
          THEN [filled EXCEPT !.s3Url = gone.url]
          ELSE filled

\* The row keep, once it has got what it misses from each of the others, the oldest first.
Merging(rows, keep, drop) ==
  MapThenFoldSet(LAMBDA id, row : CopyMissing(row, rows[id]), rows[keep], LAMBDA id : id,
                 LAMBDA ids : Max(ids), drop)

(***************************************************************************)
(* What the writers set: registryService.ts, doclingParsePDF.ts            *)
(***************************************************************************)

\* findWebUrlUpgrade
Upgraded(storedUrl, i) ==
  IF storedUrl \in StorageUrls /\ i.url \in WebUrls THEN i.url ELSE storedUrl

\* What the input gives; a null is given, too, and clears the column.
Given(i) == {c \in {"sourceUrl", "s3Url", "sha256"} : i[c] # None \/ i.nulls}

CreatePlan(i, text) ==
  [keep |-> NoRow, drop |-> {},
   set |-> [c \in Columns |-> IF c = "markdown" THEN text ELSE i[c]]]

\* patchRow: what the input has replaces what the row has.
PatchPlan(id, i) ==
  LET url == Upgraded(report[id].url, i)
  IN [keep |-> id, drop |-> {},
      set |-> [c \in Given(i) \cup (IF url = report[id].url THEN {} ELSE {"url"}) |->
                 IF c = "url" THEN url ELSE i[c]]]

\* applyMergedRows: every column is written, the markdown too.
MergePlan(ids, i) ==
  LET keep == RowToKeep(ids)
      merged == Merging(report, keep, ids \ {keep})
  IN [keep |-> keep, drop |-> ids \ {keep},
      set |-> [c \in Columns |-> IF c = "url" THEN Upgraded(merged.url, i)
                                 ELSE IF c \in Given(i) THEN i[c] ELSE merged[c]]]

IsMerge(p) == p.keep # NoRow /\ DOMAIN p.set = Columns

\* persistMarkdown: only empty identity fields are filled.
StorePlan(i) ==
  LET ids == Matching(i)
  IN IF ids = {} THEN CreatePlan(i, Text)
     ELSE LET id == Min(ids)
          IN [keep |-> id, drop |-> {},
              set |-> [c \in {"markdown"} \cup {d \in Given(i) : i[d] # None /\ report[id][d] = None} |->
                         IF c = "markdown" THEN Text ELSE i[c]]]

\* The unique columns of the schema and its migrations.
Unique(rows) ==
  \A j, k \in DOMAIN rows : j # k =>
    \A c \in Identifying : rows[j][c] # None => rows[j][c] # rows[k][c]

Target(p) == IF p.keep = NoRow THEN created + 1 ELSE p.keep

\* The table after plan p.
After(p) ==
  With(Without(report, p.drop), Target(p),
       IF p.keep = NoRow THEN p.set ELSE Over(p.set, report[p.keep]))

\* Mutation: the row that is kept is written before the others are deleted.
AppliesWriteFirst(p) ==
  /\ p.drop \subseteq DOMAIN report
  /\ p.keep # NoRow => p.keep \in DOMAIN report
  /\ Unique(With(report, Target(p), After(p)[Target(p)]))

\* No row it names is gone (P2025), no unique column is violated (P2002).
Applies(p) ==
  /\ p.drop \subseteq DOMAIN report
  /\ p.keep # NoRow => p.keep \in DOMAIN report
  /\ Unique(After(p))

\* The references of dropped rows: onDelete SetNull.
Unlinked(ids) == [s \in DOMAIN shell |-> IF shell[s] \in ids THEN NoRow ELSE shell[s]]

\* Somebody else's writing is no longer up to date with the table.
Dirtied(ups, a) ==
  [b \in Actors |-> IF b # a /\ ups[b].at \in {"merge", "put"}
                    THEN [ups[b] EXCEPT !.clean = FALSE] ELSE ups[b]]

(***************************************************************************)
(* upsertReportInRegistry, called by actor a                               *)
(***************************************************************************)

\* findMany outside any transaction.
Find(a) ==
  /\ up[a].at = "find"
  /\ LET ids == Matching(input[a])
     IN up' = [up EXCEPT ![a] =
          IF Cardinality(ids) > 1
          THEN [Idle EXCEPT !.at = "merge", !.ids = ids]
          ELSE [Idle EXCEPT !.at = "put",
                  !.plan = IF ids = {} THEN CreatePlan(input[a], None)
                           ELSE PatchPlan(Min(ids), input[a])]]
  /\ UNCHANGED <<report, created, links, job, deletes, input>>

\* The transaction reads the rows again, those that are still there.
ReadAgain(a) ==
  /\ up[a].at = "merge"
  /\ LET ids == up[a].ids \cap DOMAIN report
     IN up' = [up EXCEPT ![a] =
          IF ids = {} THEN [Idle EXCEPT !.at = "threw"]
          ELSE [@ EXCEPT !.at = "put", !.ids = {}, !.plan = MergePlan(ids, input[a])]]
  /\ UNCHANGED <<report, created, links, job, deletes, input>>

\* The write, or the commit of the transaction.
Put(a) ==
  /\ up[a].at = "put"
  /\ LET p == up[a].plan
     IN IF Applies(p)
        THEN /\ Target(p) \in RowIds
             /\ report' = After(p)
             /\ created' = IF p.keep = NoRow THEN created + 1 ELSE created
             /\ shell' = Unlinked(p.drop)
             /\ up' = Dirtied([up EXCEPT ![a] = [Idle EXCEPT !.at = "done", !.row = Target(p)]], a)
        ELSE /\ up' = [up EXCEPT ![a] = [Idle EXCEPT !.at = "threw"]]
             /\ UNCHANGED <<report, created, shell>>
  /\ UNCHANGED <<shells, period, job, deletes, input>>

Upsert(a) == Find(a) \/ ReadAgain(a) \/ Put(a)

(***************************************************************************)
(* A run: the parse, checkDB, the save                                     *)
(***************************************************************************)

To(r, place) == job' = [job EXCEPT ![r].at = place]
Return(r) == up' = [up EXCEPT ![r] = Idle]
Call(r) == up' = [up EXCEPT ![r] = [Idle EXCEPT !.at = "find"]]

\* persistMarkdown: findFirst, oldest row first.
ParseFinds(r) ==
  /\ job[r].at = "parse"
  /\ To(r, "store")
  /\ up' = [up EXCEPT ![r] = [Idle EXCEPT !.at = "put", !.plan = StorePlan(input[r])]]
  /\ UNCHANGED <<report, created, links, deletes, input>>

\* It has written, or thrown: the job then keeps the markdown in its return value.
ParseEnds(r) ==
  /\ job[r].at = "store" /\ up[r].at \in {"done", "threw"}
  /\ To(r, "check")
  /\ Return(r)
  /\ UNCHANGED <<report, created, links, deletes, input>>

\* checkDB: the early upsert ...
CheckBegins(r) ==
  /\ job[r].at = "check"
  /\ To(r, "early")
  /\ Call(r)
  /\ UNCHANGED <<report, created, links, deletes, input>>

\* ... whose failure is caught: the row is looked up instead, for its type.
EarlyReturns(r) ==
  /\ job[r].at = "early"
  /\ \/ up[r].at = "done" /\ job' = [job EXCEPT ![r].at = "shell", ![r].row = up[r].row]
     \/ /\ up[r].at = "threw"
        /\ LET ids == Matching(input[r])
           IN job' = [job EXCEPT ![r].at = "queued",
                                 ![r].row = IF ids = {} THEN NoRow ELSE RowToKeep(ids)]
  /\ Return(r)
  /\ UNCHANGED <<report, created, links, deletes, input>>

ShellsOf(row) == {s \in DOMAIN shell : shell[s] = row}

\* findOrCreateCompanyReport: an upsert by (companyId, registryReportId).
FindOrCreate(row, s) ==
  /\ row \in DOMAIN report
  /\ IF ShellsOf(row) # {}
     THEN s \in ShellsOf(row) /\ UNCHANGED <<shell, shells>>
     ELSE /\ s = shells + 1 /\ s \in ShellIds
          /\ shell' = With(shell, s, row)
          /\ shells' = s

\* The shell of the early row, or a foreign key error, caught as well.
CheckEnds(r) ==
  /\ job[r].at = "shell"
  /\ \/ \E s \in ShellIds : FindOrCreate(job[r].row, s)
                            /\ job' = [job EXCEPT ![r].at = "queued", ![r].shell = s]
     \/ /\ job[r].row \notin DOMAIN report
        /\ To(r, "queued")
        /\ UNCHANGED <<shell, shells>>
  /\ UNCHANGED <<report, created, period, up, deletes, input>>

\* saveToAPI sends the period; the company's lock admits one save at a time.
Saving == {"infer", "period", "linked", "link", "set", "move", "tidy"}

\* The request fails (4xx or 5xx); the job is tried again or has failed for good.
SaveFails(r) ==
  /\ \/ To(r, "failed")
     \/ job' = [job EXCEPT ![r].at = "queued", ![r].to = NoShell]

\* resolveCompanyReportIdForSave: the shell of the job, else the shell of its
\* row, else an upsert.
SaveBegins(r) ==
  /\ job[r].at = "queued"
  /\ \A q \in Runs : job[q].at \notin Saving
  /\ \/ /\ job[r].shell # NoShell
        /\ IF job[r].shell \in DOMAIN shell
           THEN job' = [job EXCEPT ![r].at = "period", ![r].to = job[r].shell]
           ELSE SaveFails(r)
        /\ UNCHANGED <<shell, shells, up>>
     \/ /\ job[r].shell = NoShell /\ job[r].row # NoRow
        /\ \/ \E s \in ShellIds : FindOrCreate(job[r].row, s)
                                  /\ job' = [job EXCEPT ![r].at = "period", ![r].to = s]
           \/ /\ job[r].row \notin DOMAIN report
              /\ SaveFails(r)
              /\ UNCHANGED <<shell, shells>>
        /\ UNCHANGED up
     \/ /\ job[r].shell = NoShell /\ job[r].row = NoRow
        /\ To(r, "infer")
        /\ Call(r)
        /\ UNCHANGED <<shell, shells>>
  /\ UNCHANGED <<report, created, period, deletes, input>>

\* The upsert has returned: its shell.
SaveInfers(r) ==
  /\ job[r].at = "infer" /\ up[r].at \in {"done", "threw"}
  /\ \/ /\ up[r].at = "done"
        /\ \E s \in ShellIds : FindOrCreate(up[r].row, s)
                               /\ job' = [job EXCEPT ![r].at = "period", ![r].to = s]
     \/ /\ up[r].at = "threw" \/ up[r].row \notin DOMAIN report
        /\ SaveFails(r)
        /\ UNCHANGED <<shell, shells>>
  /\ Return(r)
  /\ UNCHANGED <<report, created, period, deletes, input>>

\* Mutation: under the shell of the job, not the one just resolved.
SavePeriodOfJob(r) ==
  /\ job[r].at = "period"
  /\ period' = With(period, job[r].shell, r)
  /\ To(r, "linked")
  /\ UNCHANGED <<report, created, shell, shells, up, deletes, input>>

\* upsertReportingPeriod and the data below it.
SavePeriod(r) ==
  /\ job[r].at = "period"
  /\ period' = With(period, job[r].to, r)
  /\ To(r, "linked")
  /\ UNCHANGED <<report, created, shell, shells, up, deletes, input>>

\* The answer: ok, with a shell and its row.
Answer(r, s, row) == job' = [job EXCEPT ![r] = [at |-> "done", row |-> row, shell |-> @.shell,
                                                to |-> s, other |-> NoShell]]

\* ensureCompanyReportRegistryLink: a shell that has a row is left alone.
LinkBegins(r) ==
  /\ job[r].at = "linked"
  /\ LET s == job[r].to
     IN IF shell[s] # NoRow
        THEN Answer(r, s, shell[s]) /\ UNCHANGED up
        ELSE To(r, "link") /\ Call(r)
  /\ UNCHANGED <<report, created, links, deletes, input>>

\* The upsert has returned: does another shell have that row?
LinkFinds(r) ==
  /\ job[r].at = "link" /\ up[r].at \in {"done", "threw"}
  /\ \/ /\ up[r].at = "done"
        /\ LET others == ShellsOf(up[r].row) \ {job[r].to}
           IN \/ others = {} /\ To(r, "set")
              \/ \E s \in others : job' = [job EXCEPT ![r].at = "move", ![r].other = s]
        /\ UNCHANGED up
     \/ up[r].at = "threw" /\ SaveFails(r) /\ Return(r)
  /\ UNCHANGED <<report, created, links, deletes, input>>

\* No: the shell gets the row, unless the row is gone or checkDB of another run
\* has just made a shell for it (P2003, P2002).
LinkSets(r) ==
  /\ job[r].at = "set"
  /\ LET row == up[r].row
     IN IF row \in DOMAIN report /\ ShellsOf(row) \subseteq {job[r].to}
        THEN shell' = [shell EXCEPT ![job[r].to] = row] /\ Answer(r, job[r].to, row)
        ELSE SaveFails(r) /\ UNCHANGED shell
  /\ Return(r)
  /\ UNCHANGED <<report, created, shells, period, deletes, input>>

\* Mutation: the period is left where it is.
LinkMovesNothing(r) ==
  /\ job[r].at = "move"
  /\ To(r, "tidy")
  /\ UNCHANGED <<report, created, links, up, deletes, input>>

\* Yes: reassignPeriodsToCanonicalShell.  The period moves, or is deleted when
\* that shell has one of its own;
LinkMoves(r) ==
  /\ job[r].at = "move"
  /\ LET s == job[r].other
     IN period' = IF s \in DOMAIN period THEN Without(period, {job[r].to})
                  ELSE With(Without(period, {job[r].to}), s, period[job[r].to])
  /\ To(r, "tidy")
  /\ UNCHANGED <<report, created, shell, shells, up, deletes, input>>

\* and a shell that is left without period and row is deleted.
LinkTidies(r) ==
  /\ job[r].at = "tidy"
  /\ shell' = IF shell[job[r].to] = NoRow /\ job[r].to \notin DOMAIN period
              THEN Without(shell, {job[r].to}) ELSE shell
  /\ Answer(r, job[r].other, up[r].row)
  /\ Return(r)
  /\ UNCHANGED <<report, created, shells, period, deletes, input>>

(***************************************************************************)
(* Staff                                                                   *)
(***************************************************************************)

\* deleteReportFromRegistry
StaffDeletes(id) ==
  /\ deletes < MaxDeletes /\ deletes' = deletes + 1
  /\ id \in DOMAIN report
  /\ report' = Without(report, {id})
  /\ shell' = Unlinked({id})
  /\ up' = Dirtied(up, None)
  /\ UNCHANGED <<created, shells, period, job, input>>

Run(r) ==
  \/ ParseFinds(r) \/ ParseEnds(r) \/ CheckBegins(r) \/ EarlyReturns(r) \/ CheckEnds(r)
  \/ SaveBegins(r) \/ SaveInfers(r) \/ SavePeriod(r)
  \/ LinkBegins(r) \/ LinkFinds(r) \/ LinkSets(r) \/ LinkMoves(r) \/ LinkTidies(r)

Next ==
  \/ \E r \in Runs : Run(r)
  \/ \E a \in Actors : Upsert(a)
  \/ \E id \in RowIds : StaffDeletes(id)

Spec == Init /\ [][Next]_vars

-----------------------------------------------------------------------------
(***************************************************************************)
(* Properties                                                              *)
(***************************************************************************)

TypeOK ==
  /\ \E D \in SUBSET RowIds : report \in [D -> RowType]
  /\ created \in 0 .. MaxRows
  /\ \E D \in SUBSET ShellIds : shell \in [D -> RowIds \cup {NoRow}]
  /\ shells \in 0 .. MaxShells
  /\ \E D \in SUBSET ShellIds : period \in [D -> Runs]
  /\ \A a \in Actors :
       /\ up[a].at \in {"idle", "find", "merge", "put", "done", "threw"}
       /\ up[a].ids \subseteq RowIds /\ up[a].plan.drop \subseteq RowIds
       /\ {up[a].row, up[a].plan.keep} \subseteq RowIds \cup {NoRow}
  /\ job \in [Runs -> JobType]

\* The row is known by a value of the identity: a web address in either column,
\* the copy, or the hash.
Describes(row, i) ==
  \/ ({row.url, row.sourceUrl} \cap {i.url, i.sourceUrl}) \ {None} # {}
  \/ row.s3Url = i.s3Url /\ i.s3Url # None
  \/ row.sha256 = i.sha256 /\ i.sha256 # None

\* REPORT_REGISTRY.md, "Duplicate prevention": an upsert that nobody has
\* disturbed since it looked leaves one row that answers to its input, its own,
\* however many it has found and under whatever columns.
OneRowAfterUpsert ==
  [][\A a \in Actors :
       /\ up[a].at = "put" /\ up'[a].at = "done" /\ up[a].clean
       /\ a \in Runs => job[a].at # "store"
       => {id \in DOMAIN report' : Describes(report'[id], input[a])} = {up'[a].row}]_vars

\* Nor does it fail.
UndisturbedUpsertSucceeds ==
  [][\A a \in Actors :
       /\ up[a].at = "put" /\ up[a].clean
       /\ a \in Runs => job[a].at # "store"
       => up'[a].at # "threw"]_vars

\* persistMarkdown: "must not silently drop the only copy of the parse".  If a
\* row of the document has its markdown, the one row that an undisturbed upsert
\* leaves has it.
MarkdownSurvives ==
  [][\A a \in Actors :
       /\ up[a].at = "put" /\ up'[a].at = "done" /\ up[a].clean
       /\ \E id \in DOMAIN report : Describes(report[id], input[a]) /\ report[id].markdown = Text
       => report'[up'[a].row].markdown = Text]_vars

\* A save that answers ok names a shell that has the year, and the row of that
\* shell unless the row is gone by now.
AnswersAreTrue ==
  [][\A r \in Runs : job[r].at # "done" /\ job'[r].at = "done" =>
       LET s == job'[r].to
       IN /\ s \in DOMAIN period' /\ s \in DOMAIN shell'
          /\ job'[r].row \in DOMAIN report' => shell'[s] = job'[r].row]_vars

\* Upserts that nothing disturbs succeed, leave one row of the document and keep its markdown.
UpsertsAreSound == OneRowAfterUpsert /\ UndisturbedUpsertSucceeds /\ MarkdownSurvives
=============================================================================
