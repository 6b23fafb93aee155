# Garbo: models and proofs of the report pipeline

Garbo reads sustainability reports of companies. A PDF enters as a BullMQ job, is parsed with Docling, indexed in a vector
database, searched by language models, linked to a company, compared with what the API knows and saved through the API. Some
forty workers, up to fifteen replicas of them, an API, Postgres, Redis and Chroma share that state, and staff answer questions
in between. This directory holds TLA+ modules of the parts in which leases, retries, approvals and failures meet, TLC
configurations that check them on small instances, and TLAPS proofs of the properties that matter most.

Paths below are those of the repository (`src/lib/...`), i.e. without the `src/` of the checkout.

## 1. Inventory

### Components, their state and operations

| component | state | operations | here |
|---|---|---|---|
| Company save lock, saveToAPI | one Redis key per company (random token, 15 min TTL); `ReportRun.companyId`, `.companyReportId`; the request in the API | read the run's company, wait for the key up to 20 min, send the request, get-then-del release, store the companyReportId | `CompanySave` |
| Pipeline auto-run | the `PipelineAutoRunConfig` row, `ReportRun` rows, a Redis key for the tick, jobs in the queues, `ReportRunJob` rows | tick: observe outcomes, soft-disable, Docling preflight, count slots, select, claim, add; staff patch | `AutoRun` |
| Chroma index | chunks of a report with `indexedAt`, a Redis key per URL, `inFlight` rebuilds per process, `Report.markdown` | `addReport`, `getRelevantParagraphs`, rebuild on a miss, forced deletion, sweep | `ChromaIndex` |
| Linking a report to a company | `Company` rows and identifiers, aliases, `ReportRun.companyId`, job data and approvals of precheck, guessWikidata and checkDB, advisory locks on names | resolve, create, propose and approve a Wikidata id, resolve again, answers of staff | `CompanyLink` |
| Docling parse | a task id in job data, the task at Docling, markdown in `Report` or in the return value | submit, poll, resubmit after 404, persist, callback; routes of the text to the later jobs | `DoclingParse`, `ReportText` |
| Gates and flows of a run | BullMQ flows (parents, children, delayed and failed jobs) | precheck's two flows, emissions gate, follow-ups, company link | `RunFlow`, `ReportText`, `CompanyLink` |
| Archive of runs | `ReportRun`, `ReportRunJob` | every worker process writes every event; backfill from BullMQ | `RunArchive` |
| Follow-up extraction | chunks and their pages | retrieve, ask, give the answer a page, merge the scopes | `FollowUp`, `ScopeMerge` |
| Diffs and approvals | job data (`approval`, `autoApprove`) | compare, ask, save | `RunFlow`, `GleifLookup`, `Identifiers` |
| Report registry and company reports | `Report` (unique url, sourceUrl, sha256; partly unique s3Url), `CompanyReport`, `ReportingPeriod` | upsert, patch, merge, delete, link; dedupe and backfill scripts | `ReportRegistry`, `RegistryUpkeep`, `ReportIdentity` |
| Companies and what belongs to them | identifiers, periods, emissions, goals, initiatives, metadata | create, update, verify, delete | `PeriodSave`, `GoalSave`, `Identifiers` |
| API keys, sessions, caches | key rows, roles, rate windows in memory, Redis cache | gate, make, revoke, seed; read, edit, clear | `ApiKeys`, `ListCache` |
| Calculators and other pure rules | none | totals, changes, trends, disposable shells, merges | `EmissionTotals`, `ShellCleanup`, `ScopeMerge` |
| Clients of Wikidata and GLEIF | claims on an item; GLEIF's lists | upload, search, read page by page | `WikidataClaims`, `GleifLookup` |
| Scripts, seeds, tests | none of their own | dedupe, backfills, cleanup of shells, removal of doubles, seed of keys | in the modules of what they change |
| Server, routes, schemas | none | registration | not modelled |

### How they interact

    auto-run --add--> parsePdf --> doclingParsePDF --> indexMarkdown --> precheck
       ^ ReportRun rows                  |                   |            |   \
       | ReportRunJob rows               v                   v            |    +--> guessWikidata   (sibling flow)
    startWorkers (QueueEvents)        Report.markdown     Chroma          v            |
                                                             ^      extractEmissions   | Company, ReportRun
                                                             |        + follow-ups ----+--> checkDB --> diffs --> saveToAPI
                                                          searches                                               (lock) --> API

* Calls: saveToAPI, precheck, guessWikidata and checkDB reach companies through HTTP only. A request lives on in the API when
  its sender dies or stops listening.
* Messages: jobs between queues; BullMQ runs a job again when it has failed (attempts) or when it believes it stalled, so an
  execution can meet an older execution of its own job.
* Shared rows: `ReportRun.companyId` is written by precheck, guessWikidata and checkDB, and read by every save
  (`CompanyLink` writes what `CompanySave.Link` treats as given); `ReportRun.status` is written by auto-run and by every worker
  process. Registry rows are written by the parse, checkDB, every save, staff and two scripts.
* Shared keys: the three locks follow one scheme, `RedisLock`.
* Staff: an approval lives in job data; an answer moves the job back to its queue.

### Hard behaviours

Interleaved runs of one company; leases that expire, and a release made of two commands; executions that stall and go on;
crashes between two writes; requests whose answer is lost; timeouts that only stop waiting; a decision (candidates, company,
absence of a lock, rows found) used after it has gone stale; a part of a report that looks like the whole; counters filled by
several observers; a job that waits for another job that has failed; scripts run beside the live system; people who answer
late. `PROJECT.json` lists them under "hazards", each at its line, with the property that would catch it.

### What makes each component correct

* Save lock: writes of one company never overlap; a lock is ended by its owner only; one dead holder fails nobody else; every
  execution ends.
* Auto-run: one live run per report; a concluded report is not started again; no more runs than slots; counters equal to the
  real streaks, a switch-off exactly for such a streak.
* Chroma: one writer; a report that is whole or absent; rebuilds that do not repeat each other; searches that end.
* Company link: one row for one new name; no verified Wikidata id that nobody approved; the choice of staff is where the data
  go; saves are reached.
* Parse: one task at a time parses a document, its text is kept once, every later job finds it, the same one, whatever the route.
* Flows: only approved changes are saved, once; a given answer is not asked for again; a child is added once.
* Archive: what is archived has happened; a concluded run is shown as concluded.
* Registry: one row per document however it is found; a merge keeps the markdown; a save answers with the company report that
  has its year; each step of a run finds the same row.
* Data: one emission per kind and period, with its history; the goals of a report come from one extraction, verified ones stay;
  column and row of a LEI agree, one PRIMARY per type; no company in use is deleted.
* Published: a cached list is the list of now; quotas of keys; totals that count nothing twice; uploads that settle.

## 2. Modules

| module | models | composed with |
|---|---|---|
| `RedisLock` | value of one Redis key: SET NX PX, GET, PEXPIRE, expiry | extended by the next three that are not abstract |
| `SerialAccess` | abstract: one writer per resource, turns that begin where nobody writes | refined by `CompanySave` |
| `CompanySave` | `lib/companySaveLock.ts`, `workers/saveToAPI.ts`, `lib/api.ts`, `lib/pipelineRunCompanyId.ts` | `RedisLock`, `SerialAccess` |
| `AutoRun` | `api/services/pipelineAutoRunService.ts`, `lib/pipelineAutoRunLock.ts`, `startWorkers.ts` as far as counters see it | `RedisLock` |
| `ChromaIndex` | `lib/vectordb.ts`, `lib/chromaIndexLock.ts`, `lib/chromaRetention.ts`, `workers/chromaSweep.ts`, `workers/parsePdf.ts` (deletion) | `RedisLock` |
| `CompanyLink` | `workers/precheck.ts`, `workers/guessWikidata.ts`, `workers/checkDB.ts`, `lib/pipelineCompany*.ts`, `api/services/companyService.ts` (create, update) | - |
| `DoclingParse` | `workers/doclingParsePDF.ts` | `MCDocument` |
| `ReportText` | `workers/parsePdf.ts`, `doclingParsePDF.ts` (how it ends), `indexMarkdown.ts`, `checkEmissionsPresence.ts`, the start of `precheck.ts` | `MCDocument` |
| `ReportIdentity` | `lib/reportSaveIdentity.ts`, `lib/canonicalPublicReportUrl.ts`, `workers/saveToAPI.utils.ts`, the payloads of guessWikidata, checkDB and the parse | `MCDocument` |
| `FollowUp` | `lib/sourceReference.ts`, `lib/doclingPageLookup.ts`, pages in `lib/vectordb.ts`, `lib/FollowUpWorker.ts` | `MCDocument` |
| `RunFlow` | `workers/extractEmissions.ts`, `checkDB.ts` (fan-out), `lib/DiffWorker.ts`, `lib/PipelineWorker.ts`, `lib/saveUtils.ts`, `workers/extractGleifIds*.ts` | `MCRunJobs` |
| `RunArchive` | `startWorkers.ts`, `lib/reportRunPersistence.ts`, `scripts/backfill-report-runs-from-bullmq.ts` | `MCRunJobs` |
| `ScopeMerge` | `lib/mergeScopeResults.ts` | `MCRunJobs` |
| `GleifLookup` | `workers/extractLEI.ts`, `extractGleifIdsProcess.ts`, `lib/gleif.ts` | `MCRunJobs` |
| `PeriodSave` | `api/routes/internal/company.reportingPeriods.ts` with its services, `scripts/remove-duplicate-emissions.ts` | `MCCompanyData` |
| `GoalSave` | `api/services/goalService.ts`, `lib/goalsInitiativesSave.ts`, the goals routes | `MCCompanyData` |
| `Identifiers` | `api/services/companyIdentifierService.ts`, `lib/leiOwnership.ts`, `lib/gleifIdentifierWrite.ts`, the identifier routes | `MCCompanyData` |
| `ShellCleanup` | `scripts/cleanup-empty-company-shells.ts`, `lib/disposableCompanyShell.ts` | `MCCompanyData` |
| `ReportRegistry` | `api/services/registryService.ts`, `registryReportIdentity.ts`, `companyReportService.ts`, `persistMarkdown`, checkDB's early upsert, the period route | - |
| `RegistryUpkeep` | `scripts/dedupe-report-registry.ts`, `backfill-report-from-periods.ts`, `api/services/registryReportDedupe.ts` | `ReportRegistry`, `MCPublished` |
| `ListCache` | `api/routes/external/company.read.ts`, `createCache.ts`, `lib/redisCacheSingleton.ts`, the clears of internal routes | `MCPublished` |
| `ApiKeys` | `api/plugins/clientApiKeyGate.ts`, `clientApiKeys.admin.ts`, `prisma/seedClientApi.ts` | `MCPublished` |
| `EmissionTotals` | `lib/company-emissions/*` | `MCPublished` |
| `WikidataClaims` | `lib/wikidata/edit.ts`, `util.ts`, `read.ts` | `MCPublished` |
| `Document` | `DoclingParse`, `ReportText`, `ReportIdentity`, `FollowUp` side by side, with the types of all | `MCDocument` |
| `RunJobs` | `RunFlow`, `RunArchive`, `ScopeMerge`, `GleifLookup` side by side, with the types of all | `MCRunJobs` |
| `CompanyData` | `PeriodSave`, `GoalSave`, `Identifiers`, `ShellCleanup` side by side, with the types of all | `MCCompanyData` |
| `Published` | `RegistryUpkeep`, `ApiKeys`, `ListCache`, `WikidataClaims`, `EmissionTotals` side by side, with the types of all | `MCPublished` |
| `MC*` | small instances for TLC | |
| `*Proofs` | theorems | TLAPS |

Definitions marked "Mutation" or "Mutant" are wrong on purpose: each replaces the definition after it to show that a property
can fail. No specification uses them.

Modules that share no variable are put side by side in `Document`, `RunJobs`, `CompanyData` and `Published`, which their proofs extend as well,
and checked in one instance: `MCDocument`, `MCRunJobs`, `MCCompanyData` and `MCPublished` have a variable `part` that picks, at the beginning, which of them a behaviour is of; the others stay where they began. That gives one
run for several small modules and adds nothing to what each may do. `MCCompanySave` holds two instances of one module in the same way.

### CompanySave

An *attempt* is an execution of the saveToAPI processor. `pc` follows it: waiting, locked, saving, releasing (GET), deleting
(DEL), returning. `lock` is Redis, `handler` the request in the API, which is a second process: `HandlerEnds` is its step,
and neither `Crash` nor `LoseAnswer` stops it. `RetryOf` makes an attempt the second execution of a job that BullMQ took for stalled; `Link`
is the run row being moved to another company at any moment. Time is a tick; `WaitersPolled` says that a tick is long against
the poll interval. `met` is a history of whom a waiter has waited for. What the save writes is abstracted to the fact that it is
being served; the bodies are `PeriodSave`, `GoalSave`, `Identifiers` and `ReportRegistry`.

### AutoRun

A *tick* is one execution of `runPipelineAutoRunTick`, split into an outer part (`outer`, `age`: lease and timeout) and an
inner part (`pc` and what it has read), since the timeout abandons the one and not the other. A *run* is a `ReportRun` row
(`row`) with its jobs (`flow`: working, parked on an approval, resumed after it). `events` are outcomes in the order of their
times, `config.through` is `outcomeObservedThrough`. `streak` is a history of consecutive failures as they really happened.
"stale" is a running row older than `STALE_RUNNING_CLAIM_MS`.

### ChromaIndex

A *writer* is an execution of `addReport`: an indexing job or the one rebuild a process may have in flight. A report is a
number of batches; a batch in Chroma is absent, fresh or stale by its `indexedAt`, or kept (no markdown to rebuild from, so
never swept). A search is waiting, querying, rebuilding (it shares its process's promise) and querying again. `damaged` is a
history: an indexing died midway, its clean-up failed, or the report was deleted under it, and no whole indexing came since.

### CompanyLink

Three job records per run (`pre`, `guess`, `chk`), each with the `ask` it put to staff; the `company` table with name, aliases
and Wikidata id; the run row; the advisory locks; and `stray`, create requests that outlive the transaction that held the lock.
Names are normalised keys, of which the model keeps equality and the shared core token that decides "similar". Language models
and Wikidata answer with any id or none. Staff choose among what they are offered. Faults (a failing lookup, a transaction that
ends early, a death) are counted by kind, and a property that excludes one says so in its premise.

### The document: DoclingParse, ReportText, ReportIdentity, FollowUp

`DoclingParse` follows one job through its attempts: `job` is what BullMQ has (state, data with the task id), `run` what only the
execution knows, `task` Docling's tasks. An answer may be lost after the task was made, Docling may restart and forget its tasks,
a worker may die anywhere. `ReportText` has the routes from parsePdf on. A text is a version (Old, New) in one of four places:
the registry row, job data, the return value of the Docling job, Chroma. `index` is whole, by version; what is inside of an index
being written is `ChromaIndex`. `ReportIdentity` works out, step by step, the names the code gives a document, from the job data
it has there, and asks whether the row's unique columns find the row of the step before. `FollowUp` follows pages: from Docling's
snippets to chunks, from retrieved sections to the page attached to a value, through sweeps, rebuilds and retries. Numbers are
sequences of digits, as the search for them is what can go wrong.

### The jobs after it: RunFlow, RunArchive, ScopeMerge, GleifLookup

`RunFlow` has one job of each kind (`scope` for questions that must be answered, `lei` for one that need not, `diff` for the
workers made by DiffWorker) with BullMQ's states, and two executions of the diff for a stall. `data` is the approval in its job
data; `answers` is a history of what staff approved. `RunArchive` has a handler for each event in each process, four steps each
(read, upsert, file, status), in any order, and the backfill. `ScopeMerge` takes any answers of the three questions and merges them
entry by entry. `GleifLookup` reads GLEIF's list page by page while it changes, `plan` is what it would write.

### Data of a company: PeriodSave, GoalSave, Identifiers, ShellCleanup

Each keeps its tables as sets of rows with ids and splits a request where the code awaits. In `PeriodSave` the data points of a
save are written side by side; `past` is the history a row should have, `raced` and `doubled` name rows written by overlapping
requests, which the code does not guard. In `GoalSave` the transaction finds, then deletes by id what it found; `mingled` names
reports with overlapping saves. `Identifiers` has LEI in column and row, and rows of ISINs with one PRIMARY; requests are staff's, a
save's with its snapshot, or a backfill's; `contested` and `muddled` name what overlaps. `ShellCleanup` has runs that create,
choose and leave companies beside the script's three statements.

### What is published: ReportRegistry, RegistryUpkeep, ListCache, ApiKeys, EmissionTotals, WikidataClaims

A document has up to four identifying values: `url`, `sourceUrl`, `s3Url`, `sha256`. `report` is the table, `shell` the company
reports of one company with the row each hangs on, `period` the shells that have the year that is saved. An upsert (`up`) is split
where the code is: the search outside any transaction (`Find`), the second read of a merge (`ReadAgain`), the write (`Put`), which
fails as Prisma does when a row is gone or a unique column would repeat. What it is about to write is a *plan*: rows to delete,
columns to set. `clean` is a history: nobody else has written since the search. A run goes through the parse (`persistMarkdown` is
a plan of its own over the oldest row), checkDB's early upsert and shell, and the save, whose link step may move the year to
another shell. The saves of the company take turns, which is what `CompanySave` shows. An identity has `nulls`: what it does not know is left out
(`undefined`, nothing is written) or given as null (the column is cleared), which only the backfill does in the instance.
`RegistryUpkeep` adds the two scripts: the dedupe reads the table once and merges each group in a transaction of its own; the
backfill upserts as one of the posters.

`ListCache`: `content` counts the changes of the list, a fingerprint is what the code computes of counts and times; an entry is
`sure` when its reader took it without anything written in between. `ApiKeys`: `bucket` is the server's map of windows, `hits` a
history of what was let through. `EmissionTotals` are operators over any emissions of up to four years, each compared with a
definition of what may be counted. `WikidataClaims` splits an upload where it awaits; `quiet` counts undisturbed uploads.

## 3. Runs

| run | asks | outcome |
|---|---|---|
| `company_save` | is a lock ever ended by another, does one dead holder fail a waiter, do the writes refine `SerialAccess`; with slow saves and lost answers, does every execution end | hold |
| `company_save_lost_answer` | do writes of a company overlap when `fetch` fails under a live request | violated, finding 1 |
| `auto_run` | one live run per report, concluded reports rest, counters are the real streaks and stop the tick that sees them, slots | hold |
| `auto_run_replicas` | the same counters with two worker processes | violated, finding 2 |
| `chroma_index` | one writer, whole or absent, rebuilds write into nothing, searches are served and end | hold |
| `chroma_partial_read` | is a partly written report ever searched | violated, finding 3 |
| `company_link` | shells, verified ids, saves reached, the choice of staff in checkDB | hold |
| `company_link_choice` | does an answer given to guessWikidata stand | violated, finding 4 |
| `document` | is a report parsed once, does every job find its text, every step its row, is a value's page one it stands on, do executions end | hold |
| `run_jobs` | do staff decide and are their answers kept, is the archive true, does the merge lose nothing, is the lookup all or none | hold |
| `company_data` | are periods whole and undisturbed saves one step, goals of one extraction and verified ones kept, identifiers in agreement, used companies kept | hold |
| `published` | do upserts leave one row and one pass of the dedupe suffice, are the answers of saves true, are lists current, keys limited, totals fair, uploads settled | hold |

### Bounds, and why they are enough

* `company_save`: two jobs of two runs, one with a second execution; two companies; TTL 2 and wait 2 ticks, at most 1 tick
  under the lock; one crash; one change of the run's company. Exclusion is between two attempts; a third is there to take the
  lock between a GET and a DEL or after an expiry. TTL 2 lets a lease age without ending, which TTL 1 would not. Beside it, in
  variables of its own, the instance `Slow` has one attempt per job, answers that are lost and a save of up to 3 ticks, longer than
  the TTL, so that leases do get lost.
* `auto_run`: two ticks, two reports, one of which may be claimed twice (after a stale claim), `maxConcurrent` 1 or 2, one crash, up
  to three outcomes, limits 2 and 3 of failures, one staff change. A double start needs two ticks and one report; a second report makes a
  tick go on after its first start and gives slots something to limit; three outcomes reach a limit, pass it and break a streak. The
  constraint `Small` keeps these from multiplying: a crash comes with the first report only, a change by staff with one run and one outcome,
  three outcomes with one run.
* `chroma_index`: one job, one process, two searches in it, two batches, one each of crash, failing call, deletion and ageing.
  Two batches are the least with a part; the job and the rebuild are two writers. `chroma_partial_read` has two processes.
* `company_link`: two runs with the same name and one id, and an older company that owns the id under another name or bears a
  similar name without it; one run with autoApprove; one fault of any kind at any moment, where the other company has the other name. Four
  rows allow a company per run, the old one and one too many.
* `document`: 3 attempts and 3 requests, as in the code, one poll without an answer, four tasks, two deaths, restarts and troubles each; for the
  routes 2 attempts, and of a dead worker, a failed call and a removed row at most two together; names from three web addresses, two
  copies and two hashes; reports of three snippets on two pages, with a number that ends another one.
* `run_jobs`: 2 attempts, 3 faults, one stall; two processes or one with the backfill, one lost handler; answers of up to two
  years, each part found, not found or not asked for; lists of up to five entries with pages of two, so that one spans three pages.
* `company_data`: two saves of one category and one single point, 6 ids; four goals of two reports, three requests; two companies, LEIs and
  ISINs, three requests; two runs and two companies beside one pass of the cleanup, one retry. Staff delete rows, and a save replaces
  everything, only while no two saves overlap.
* `published`: every registry of at most three rows (two without a script) out of seven shapes that `REPORT_REGISTRY.md` lists, as far as unique
  columns admit them together; two runs and a third writer, or one run and a script; up to four rows, three shells, one deletion. Two rows already
  there and one created are the least that make a merge of three. Two keys, quota 2 in 2 ticks; one reader and two editors, two edits; three
  uploads, one change by others; four years, which is one more than a comparison and a gap need.

Only what no property distinguishes is taken as symmetric (ticks in `auto_run`; companies, values, requests and ISINs in `company_data`;
editors in `published`), in runs without liveness properties. `company_link`, `document`, `run_jobs`, `company_data` and
`published` stop when their work is done or a bound is reached, and staff may never answer: their configurations, and that of
`company_link_choice`, say `CHECK_DEADLOCK FALSE`. Elsewhere time goes on for ever.

### Fairness

* `company_save` (`Slow`): a live worker runs its processor (`Progress`), the API finishes what it has begun (`HandlerEnds`) and time
  passes (`Tick`). No fairness for starting, crashing, losing an answer, Redis errors, or linking. The processor is an async
  function in a live event loop, and every wait in it is a timer.
* `ChromaIndex!FairSpec`: the same for writers, searches and time.
* `CompanyLink`: queues are served, each job type of each run on its own, since they are workers of their own. Staff
  promise nothing, which is why `SavesAreReached` names open questions as its exception; faults are never owed.
* `document`: the doclingParsePDF worker goes on with its job (`DoclingWorks`); Docling owes nothing. Its polls are counted, which is why
  executions end. Polling at Berget has no count, and `ExecutionsEnd` speaks of docling-serve only.
* The other runs have no liveness property: what they model depends on people or on scripts, or is safety.

### Findings

1. **Lost answer** (`company_save_lost_answer`). `withCompanySaveLock` releases as soon as `run()` throws, also when `fetch` failed
   while the API still writes. The next save of the company starts beside it, which the comment above the lock excludes.
2. **Replicas** (`auto_run_replicas`). Each worker process writes its own `ReportRunJob` row for a finished job, and the counters count
   rows; with two processes half the documented number of failures switches auto-run off.
3. **Partial read** (`chroma_partial_read`). A search waits until no lease is there and queries later, holding nothing; a rebuild that began
   in between has written some batches only.
4. **Choice undone** (`company_link_choice`). Staff say that the report belongs to its run's company although another owns the Wikidata id;
   the finished guessWikidata job still shows that id, and checkDB moves the run to its owner.

Faults that the properties exclude by a premise are behaviours of the code as well: a failed name search counts as "no such
company" and a transaction that ends under its holder frees the lock while the request goes on (both can give two rows of one name);
a death after the program's own approval marks an id verified that nobody saw; a staff patch that overlaps a tick can undo what
the tick writes (`PatchesRace`); a tick that goes on for longer than its 90 s timeout keeps starting reports beside the next tick, since
`withTimeout` only stops waiting (TickTimeout = MaxHold gives two live runs of one report); upserts that disturb each other can leave two
rows of a document, or fail on a unique column; overlapping saves of a period can double a category of scope 3, and overlapping requests for a
LEI can give it to two companies.

### Observations

Things met while modelling that no checked property speaks about, or that the model has and its properties exclude.

* Registry: `patchRow` overwrites `sourceUrl`, `s3Url` and `sha256` with what it is given, although `doc/REPORT_REGISTRY.md` says "Fields that are
  already set are kept"; a merge forgets web addresses beyond two; `persistMarkdown` takes the oldest row and fills in a copy or hash that
  another row of the document may have, in which case the write fails and the markdown stays in the job's return value only. The backfill
  writes nulls over filled fields (`scripts/backfill-report-from-periods.ts:375`, against `doc/REPORT_REGISTRY.md:99`); the merged s3Url of the
  dedupe can collide, which ends the script, and rows it deletes take their markdown and report type with them. A save's identity is filled
  from the periods of other documents too (`mergeReportIdentityFromPeriods`).
* Upserts: `copyMissingFields` makes the storage url of a row it deletes the s3Url of the row it keeps (`registryReportIdentity.ts:346`); if a third row, of
  another document as far as the search can tell, has that copy, the write violates the unique index and the upsert fails, again at each retry. Rows
  (url, source, copy, hash) of that kind: (w1, w2, -, h1), (x1, w1, -, -) and (w2, -, x1, -), with the input (w1, w1, -, h1). A caller that gives null
  for all but the url takes from a row the source url by which it has just found it (`api/schemas/request.ts:519`).
* Pages: `lib/sourceReference.ts:226` treats a needle as numeric only if one digit precedes the separator, so that "55.1" is found in "155.1",
  although the comment above it asks for a standalone token. An index rebuilt from stored markdown has no pages; a value that names its own
  source gets no page.
* Merge: a null of scope 1's combined value hides scope 2's (`lib/mergeScopeResults.ts:241`).
* Flows: a failed LEI or GLEIF lookup blocks its parent (`workers/checkDB.ts:550`, `extractEmissions.ts:200`) although
  `doc/GLEIF_IDENTIFIERS_PLAN.md:151` says it should not; the reconciliation resets `skipped_no_emissions` to running
  (`scripts/backfill-report-runs-from-bullmq.ts:317`); the `wikidataUpload` worker is not registered.
* Identifiers: an empty LEI in a POST leaves its row (`companyService.ts:656`, against `doc/COMPANY_IDENTIFIERS_PLAN.md:106`); deleting a LEI answers
  404 when only the row is left; BIC is not among the identifiers that keep a shell (`lib/disposableCompanyShell.ts:49`).
* Data: a save of a period answers ok though one of its points failed; a connect on an optional one-to-one detaches the row that was there;
  `remove-duplicate-emissions.ts:44` marks the row it keeps, too, when that has two metadata rows. The cleanup can delete a company that a run
  has created and not yet written into its row.
* Published: an empty extraction leaves the cached list stale for up to 24 h; a read between a metadata write and the write of its value keeps
  old data under the new fingerprint; the rate window is fixed although called rolling; the seed enables revoked keys of the environment
  again; claims of 0 in scope 3 are added and removed in turn; an adjusted change counts a missing scope as 0.
* Elsewhere: `withChromaLimit` (`lib/vectordb.ts:52`) lets one caller too many in; polling at Berget has no limit;
  `scripts/link-periods-to-company-reports.ts` is dead; the header of a renewed session never reaches the client.

## 4. Proofs

Proved for every value of the constants that satisfies the modules' assumptions; TLC evaluates those assumptions in each run.

| module | theorem | property | further assumptions |
|---|---|---|---|
| `CompanySaveProofs` | `TypeCorrect` | `TypeOK` | none |
| | `Serialized` | `SavesSerialized` | `MaxHold < TTL`, no lost answers |
| | `OnlyTheOwnerEnds` | `LockOnlyEndedByOwner` | the same |
| | `WritesTakeTurns` | `ImplementsSerialAccess` | the same |
| | `GivesUpBehindTwo` | `GivesUpOnlyUnderContention` | `TTL <= MaxWait` |
| `AutoRunProofs` | `TypeCorrect` | `TicksOK` | none |
| | `NoDoubleEnqueue` | `OneLiveRunPerReport` | `MaxHold < TTL`, `MaxHold < TickTimeout` |
| | `ConcludedRest` | `ConcludedReportsRest` | the same |
| | `CountersAreRight` | `CountersDecide` | the same, `Replicas = 1`, `~PatchesRace` |
| | `SwitchOffEarned` | `SwitchOffIsEarned` | the same as before it |
| `ChromaIndexProofs` | `TypeCorrect` | `TypeOK` | none |
| | `WritersExclude` | `OneWriter` | `MaxBatch < TTL` |
| | `WholeOrAbsent` | `CompleteOrAbsent` | the same |
| | `NoReportIndexedTwice` | `RebuildsOnlyFromNothing` | the same |
| | `RebuildsSeeAll` | `RebuildYieldsWhole` | the same |
| `CompanyLinkProofs` | `TypeCorrect` | `TypeOK` | none |
| | `ShellsAreShared` | `OneShellPerName` | none |
| | `SaveChoiceKept` | `SaveChoiceStands` | none |
| | `VerifiedIsVouched` | `VerifiedByStaff` | none |
| `DocumentProofs` | `TypeCorrect`, `TextTypesCorrect` | `TypeOK`, `TextTypeOK` | none |
| | `ParsedByOne` | `ParsedOnce` | none |
| | `TextsArrive` | `TextArrives` | none |
| | `OneName` | `EveryStepFindsTheRow` | none |
| | `PagesFound` | `PagesAreRight` | none |
| | `DocumentTypesHold` | `DocumentTypesOK` | none |
| `RunJobsProofs` | `OnlyApproved` | `StaffDecide` | none |
| | `DoneOnce` | `AnswersAreKept` | none |
| | `Archived` | `ArchiveIsTrue` | none |
| | `LookedUp` | `LookupIsSound` | none |
| | `NothingLost` | `NothingFoundIsLost` | none |
| | `FlowTypesHold`, `JobTypesHold` | `FlowTypeOK`, `JobTypesOK` | none |
| `CompanyDataProofs` | `ExtractionsReplace` | `OneExtraction` | none |
| | `VerifiedStays` | `VerifiedIsKept` | none |
| | `InUseIsKept` | `UsedCompaniesStay` | none |
| | `IdentifierTypes`, `IdentifiersHold` | `IdTypeOK`, `IdentifiersAgree` | none |
| | `PeriodsHold` | `PeriodsAreWhole` | none |
| | `OkSavesAreOneStep` | `OkIsOneStep` | none |
| | `PeriodTypesHold`, `GoalTypesHold`, `ShellTypesHold`, `DataTypesHold` | `PeriodTypesOK`, `GoalTypesOK`, `ShellTypeOK`, `DataTypesOK` | none |
| `PublishedProofs` | `CachedListsAreCurrent` | `CachedIsCurrent` | none |
| | `SavesAnswerTruly` | `AnswersAreTrue` | none |
| | `MarkdownKept` | `MarkdownSurvives` | none |
| | `OneRowIsLeft` | `OneRowAfterUpsert` | inputs are `Named` |
| | `UpsertsAreRight` | `UpsertsAreSound` | the same, seeds are `Unique`, always `CopiesAreFree` |
| | `OnePassSuffices` | `OnePassIsEnough` | none |
| | `KeysStayLimited` | `KeysAreLimited` | none |
| | `EmissionsFair` | `EmissionsAreFair` | none |
| | `UploadsAreRight` | `UploadsSettle` | none |
| | `RegistryTypesHold`, `KeyTypesHold`, `CacheTypesHold`, `ClaimsTypesHold`, `PublishedTypesHold` | `TypeOK`, `KeyTypesOK`, `CacheTypesOK`, `ClaimsTypeOK`, `PublishedTypesOK` | none |

`SavesSerialized` is the property of finding 1: it is violated with lost answers and proved without them, where
`ImplementsSerialAccess` is what a passing run checks. `TypeCorrect` of `AutoRunProofs` covers `TicksOK`, the part of `TypeOK` on which the other
proofs rest. `SwitchOffIsEarned` is stated beside its proof: a switch-off comes only after as many failures as the limits ask for.

The assumptions of the last column:

* `MaxHold < TTL`, `MaxHold < TickTimeout`, `MaxBatch < TTL`, `TTL <= MaxWait`: how long something may take, against the limits in the code; the
  first two of them are what the findings and the faults named in section 3 are about.
* `Replicas = 1`: with more, finding 2. `~PatchesRace`: a staff patch that overlaps a tick may undo what the tick writes; the run checks the property
  without such patches, too.
* `Named`: a caller that gives null for what it does not know gives something besides its url. The request schema admits
  `{url, sourceUrl: null, s3Url: null, sha256: null}`; found by its source url, a row loses the column it was found by and no longer answers to that
  input. No caller in the repository sends it: the backfill gives the web address as source or has a copy (`NamedStep`).
* `Unique(seed)`: the unique indexes hold at the beginning, as they do in a database. `ReportRegistry` applies no plan that breaks them.
* `CopiesAreFree`: no row that an undisturbed upsert leaves alone has, as its copy, the url of a row that it deletes. It is a condition on states, true
  in all of the instance's, and the upsert can fail without it (see the observations).

The arguments:

* **Locks.** "At most one under the lock" is not inductive: a lease may expire under its holder. What is inductive is
  `HolderOwnsLease`: whoever is under the lock finds its own token there, and life left plus time spent is at least the TTL. With
  `MaxHold < TTL` the lease outlives the attempt, two holders would share one token, and the DEL after a GET meets what the GET
  saw. `RequestsBelongToHolders` ties the request to an attempt that still counts as holding, also after its worker has died:
  that is where "no lost answers" enters. For the refinement, a request begins only where nobody is writing since its sender owns
  the lease. `GivesUpBehindTwo` needs no such assumption: a waiter that has met one holder only has seen its lease age with every
  tick it waited, so a wait beyond the TTL needs a second holder.
* **Auto-run.** Candidates are chosen once and used later. `CandidatesFree` and `CurrentFree` say that those of a tick stay without
  a live or concluded run; they are inductive since only a tick starts runs and `InnerUnderLease` (an inner part runs under its
  lease) leaves room for one tick.
* **Counters.** `Accounts` says what the stored counters are in terms of the outcomes up to `outcomeObservedThrough` and of the streaks of now:
  the later outcomes, counted on top of them, give the real streak of Docling failures, and at most that of reports. It goes on when an outcome is
  appended (`AccountsGoOn`) and when a tick has folded what it has read. `TickRight` carries it through the steps between a tick's read
  and its write. With a second worker process an outcome has two rows, and `Accounts` breaks at once; a staff patch in between resets what
  the tick then writes back.
* **Index.** `ChunksAgree`: undisturbed, what a writer has written bears its mark and the rest is of one kind, so that the sweep takes
  all or nothing and an interrupted rewrite of old chunks is the only way to a mixture. `RebuildsStartEmpty` connects the check
  under the lease with the first batch. `QuietInv`: as long as no call fails and nothing is deleted or grows old, what has been written stays
  (`ChunksStay`), so a rebuild that reaches its last batch, after whatever crashes, and one that finds an undamaged report, leave all of it.
* **Links.** `LockInv`: an advisory lock is held by the run that is looking or creating under it. `ShellInv`: a run about to create has seen no row of
  its name, which nobody else can have created since. `ChkInv` and `Unstarted`: what a checkDB job holds is its staff's choice. `VouchedInv`: an
  approval in job data that is not the program's own has been given by a person.
* **Parse.** `ParseInv`: the task an execution polls is the one in the job's data or one whose answer it alone has (`KnowsItsTask`, `TaskIsKnown`); a
  result is read only by an execution that then completes or dies (`NoWayBack`); a completed job has left its text (`TextIsKept`).
* **Text.** `TextInv`, by places: `PlacesFind` says of each place a later job looks into that it has a text if the earlier job ended; `OneRoute` that
  parsePdf, also when it is run again after a death, has taken one route; `OneText` that the places which the jobs of one route read agree, although old
  and new texts may both be there.
* **Names.** `NamesInv` gives, for each step, the row that stands for the document and shows that the keys of the next step find it: the
  source or the copy is always among them, and no step changes a column by which a later one searches.
* **Pages.** `PagesInv`: the pages a question has retrieved are those of the index as built from Docling's snippets (`Indexed`) or as rebuilt without
  pages (`Rebuilt`). What is hard is not the invariant but the scan: `PageOfAScore` says that the best scored chunk has a positive score and
  a page, `ScoreMeans` that a positive score is the quote or the number itself, `PagesTakeTurns` that the snippets are drawn page by page.
* **Jobs.** `DecisionInv`: what an execution is about to save is approved by itself or is among the answers. `JobInv` says, as long as nothing has
  stalled, that one execution of the diff lives, holds the job's lock and decides on what the data still says, that the flag in the data of
  extractGleifIds follows its child, and that nothing is saved before checkDB has added the diff.
* **Archive.** `ArchiveInv`: what a handler has read or written has ended (`HandledHasEnded`), a status is that of a job that ended
  (`StatusIsOfAJob`), and a job is filed only under a run that is there.
* **Lookup.** `LookupInv`: the pages read so far are valid ISINs of the list, and a plan exists only once the job has ended.
* **Merge.** `MergeInv` describes the entries of the merge by year and part; its lemmas say of a filtered or deduplicated sequence which elements it
  has, without induction, from its defining property.
* **Goals.** `GoalInv`: what a transaction has found and will delete was unverified when found and has been changed since only by a request in
  `touched`; two saves that do not overlap take turns, so the second finds all that the first left.
* **Cleanup.** `ShellInv`: the row of a run follows its stage (`RowFollows`), and the script's turn knows what was true when it came to the company
  (`TurnKnows`), so that what it deletes was in no use then.
* **Identifiers.** `IdInv`: of a LEI that is not contested one company is the owner and one the asker, and what a request has looked up still
  holds (`Looks`), since only the asker can gain it. A request that is alone has its value in the column from the moment it is half
  done, and the row it found is the one that is there (`Undisturbed`); so its last write makes column and row agree, and no index refuses
  staff's value. What another request found keeps its company, its type and, if there may be several, its value (`SeenStays`).
* **Periods.** `PeriodInv`: two saves that share a category have been noted (`Noted`), so of the others each knows the row of a category it is to
  write, or that there is none (`Knows`); a row hangs below one of its parent's kind (`RowsFit`), so that a deletion takes what belongs to it; what
  a save that is alone remembers of a row is what the row says (`Remembers`), so the metadata it makes tells the value it overwrites.
* **Saves as one step.** `OkInv` adds what a save that is alone and has lost nothing has reached (`Progress`, `Points1`): what is listed for deletion is
  all that is shown; then the year shows what it did before, or nothing; and each point shows the value of the body once it is written, and
  the one before until then. A category that has several rows stays so (`ManyIn`), and of the other kinds there is never more than one.
* **Cache.** `CacheInv`: no entry is of a time to come (`NotOfTheFuture`), every edit that is over shows in the fingerprint or has cleared
  (`EditsShow`), and an entry that is out of date is older than the newest metadata or about to be cleared (`StaleShow`).
* **Registry.** `SaveInv`: the shell a save has found, linked or moved to has its year until it answers, and the row of that shell is the
  one it wrote, unless the row has been merged or deleted since. Other upserts, saves and both scripts keep it: each of their plans deletes
  rows only while moving their shells to the row that stays.
* **Upserts.** `UpsertInv`: as long as nobody else writes, what an upsert is about to write is a plan for the rows that are there (`PlanSeen`: a new row
  where none matches, a patch of the one that does, or a merge of all that do), and the plan of `persistMarkdown` stores its text. A merge is
  a fold over the rows it deletes. `MergingFollows` says of it by induction over the subsets of those rows, as a least counterexample, what holds of
  the kept row and goes on with each row copied into it; from it follow that a common url survives in one of two columns
  (`MergedHasUrl`), that the text does (`MergedHasText`), and where every value comes from (`MergedFrom`). So the new row is found by the input
  (`SeenMatches`), every other row that was found is deleted (`OthersDoNotMatch`), and a value that another row has could only be the url of
  a deleted row that became the copy (`SeenApplies`, the assumption `CopiesAreFree`).
* **Dedupe.** `PassInv`: groups are the components of "one document", so rows of two groups share nothing; while nobody else writes, a group that is
  done has one row left, whose addresses are those of rows of its group (`FromTogether`), and from the first merge on no column has a value twice
  (`Tidy`).
* **Keys.** `KeyInv`: hits of a window that is under way are at most its count, those before it were of one window (`WindowFits`); so any stretch of a
  window's length has two quotas at most. `SeedState` follows the seed through its steps: what roles grant at each, so that moving keys from one to the
  next takes nothing from them, and a key in the trial role has a time to live and a scope (`TrialIsLimited`).
* **Totals.** Sums over categories do not depend on the order in which a fold takes them, which is shown by induction over the subsets of a finite set;
  then every total is the sum of what may be counted, and a change compares sums over the same points.
* **Claims.** An undisturbed edit leaves an item `HalfSettled` (no kind twice, each that is reported with its value or still missing), a second one
  `Settled`. `UploadInv` keeps ids and kinds apart; `QuietInv` connects both with the number of quiet uploads.
* **Types.** Where types need more than themselves: `TableInv` (rows of a year hang on rows that are there, metadata on a data point, ids are
  used once), `FlowBounds` (tries left and faults used, locks of jobs that run), `PlacesTyped` (what each place of a run
  knows), `CacheBounds`.

Only model-checked:

* liveness under fairness, which the prover cannot do: `ExecutionsEnd`, and the parts of `SlowSavesEnd`, `SavesArrive` and `SearchesAreServed` that say
  that something ends or arrives. Their other parts are theorems: `GivesUpBehindTwo`, `SaveChoiceKept`, `NoReportIndexedTwice`, `RebuildsSeeAll`.

Folds over a finite set and sums are within reach, although the library's induction theorems are not: the defining function of the fold is over the
subsets, and a least counterexample by cardinality replaces the induction. The modules that are proved about declare no RECURSIVE operator.

## 5. Plan

1. *Done*: every component but server, routes and schemas is modelled and checked; each component has its theorems as listed.
2. *Done*: every safety property that a passing run checks is stated by a theorem. What proofs could still do: `UpsertsAreSound` with the fault of
   `CopiesAreFree` told apart in the property itself, and the passing counters of `AutoRun` for patches that do race.
3. Left of the models: names, years and types of reports, edits and links by staff in the registry; reruns of single
   follow-ups; groups of duplicate companies.

## 6. What is not modelled

Prompts and answers of models; embeddings and ranking; formatting of messages; HTTP validation, routes and schemas; the regression of trends in
floating point; scripts that import or seed once on a quiet database; sessions of staff (signatures). Within the modelled parts: where chunks are
cut, `withChromaLimit`, page limits of the auto-run scans, overrides and display names in linking, the fields an archive row has beside its
status, industries, tags and descriptions of companies. `PROJECT.json` says it for each component.
