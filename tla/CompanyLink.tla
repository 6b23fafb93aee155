---------------------------- MODULE CompanyLink ----------------------------
(***************************************************************************)
(* How a report is tied to a company.  Three jobs of one run, and the      *)
(* staff who answer them, write the same rows:                             *)
(*                                                                         *)
(*   precheck       finds the company by name, or creates it under an      *)
(*                  advisory lock on the name, or asks staff;              *)
(*   guessWikidata  a sibling of everything that follows: gives the        *)
(*                  company a Wikidata id, or asks staff which company it  *)
(*                  is when another one already has that id;               *)
(*   checkDB        resolves the company a second time before the data of  *)
(*                  the run is handed out to the diff and save workers.    *)
(*                                                                         *)
(* "run row" is ReportRun.companyId, which saveToAPI reads at every save   *)
(* (module CompanySave starts there).  Names are normalised match keys; two*)
(* names are similar when they share their core token.  Reports here carry *)
(* no LEI, no Wikidata id of an earlier run and no override, and staff     *)
(* enter no display name.                                                  *)
(***************************************************************************)
EXTENDS Integers, FiniteSets

CONSTANTS
    Runs,           \* pipeline runs (threadIds)
    Companies,      \* ids the database can hand out
    Names, Qids,    \* normalised names, Wikidata ids
    NoRun, NoCompany, NoName, NoQid,
    NameOf,         \* the name extracted from each run's report
    Core,           \* the core token of each name
    AutoApprove,    \* runs whose job data has autoApprove
    Seeds,          \* the company tables there may be before the first run
    MaxFaults       \* bound on the number of faults

FaultKinds == {"lookup", "lock", "death"}
RowType == [name: Names \cup {NoName}, qid: Qids \cup {NoQid},
            verified: BOOLEAN, alts: SUBSET Names, fresh: BOOLEAN]

ASSUME SetsAssumption == /\ NoRun \notin Runs /\ NoCompany \notin Companies
                         /\ NoName \notin Names /\ NoQid \notin Qids
                         /\ AutoApprove \subseteq Runs
ASSUME NamesAssumption == /\ NameOf \in [Runs -> Names]
                          /\ DOMAIN Core = Names
ASSUME FaultsAssumption == MaxFaults \in Nat
\* Nobody's pipeline has made the companies of the seeds.
ASSUME SeedsAssumption == \A seed \in Seeds :
    /\ seed \in [Companies -> RowType]
    /\ \A c \in Companies : ~seed[c].fresh /\ ~seed[c].verified

VARIABLES
    company,    \* the Company table; "fresh": still bears the name precheck created it with
    runCompany, \* ReportRun.companyId of each run
    lock,       \* holder of pg_advisory_xact_lock of each name
    stray,      \* create requests still running although their transaction has ended
    pre,        \* the precheck job of each run
    guess,      \* its guessWikidata job
    chk,        \* its checkDB job
    vouched,    \* Wikidata ids a person has approved (history)
    faults      \* how often each kind of fault has struck (history)

vars == <<company, runCompany, lock, stray, pre, guess, chk, vouched, faults>>
table == <<company, runCompany>>

AskType == [kind: {"none", "link", "wikidata"}, ok: BOOLEAN,
            cands: SUBSET Companies, link: Companies \cup {NoCompany},
            qid: Qids \cup {NoQid}]
PreType == [at: {"resolve", "lock", "look", "create", "flows", "done"},
            company: Companies \cup {NoCompany}, ask: AskType]
GuessType == [at: {"off", "queued", "auto", "autoPatch", "patch", "keep",
                   "autoSync", "sync", "done", "failed"},
              company: Companies \cup {NoCompany}, name: Names \cup {NoName},
              qid: Qids \cup {NoQid}, ask: AskType]
ChkType == [at: {"off", "queued", "resolve", "fan", "done"},
            company: Companies \cup {NoCompany}, qid: Qids \cup {NoQid}, ask: AskType]

TypeOK ==
    /\ company \in [Companies -> RowType]
    /\ runCompany \in [Runs -> Companies \cup {NoCompany}]
    /\ lock \in [Names -> Runs \cup {NoRun}]
    /\ stray \in [Runs -> Nat]
    /\ pre \in [Runs -> PreType]
    /\ guess \in [Runs -> GuessType]
    /\ chk \in [Runs -> ChkType]
    /\ vouched \subseteq Qids
    /\ faults \in [FaultKinds -> Nat]

NoAsk == [kind |-> "none", ok |-> FALSE, cands |-> {}, link |-> NoCompany, qid |-> NoQid]

\* requestApproval("companyLink", ..., false): any earlier approval of the job is overwritten.
LinkAsk(cs) == [NoAsk EXCEPT !.kind = "link", !.cands = cs]

\* requestApproval("wikidata", ..., approved).
WikidataAsk(q, approved) == [NoAsk EXCEPT !.kind = "wikidata", !.qid = q, !.ok = approved]

Pending(ask) == ask.kind # "none" /\ ~ask.ok

Init ==
    /\ company \in Seeds
    /\ runCompany = [r \in Runs |-> NoCompany]
    /\ lock = [n \in Names |-> NoRun]
    /\ stray = [r \in Runs |-> 0]
    /\ pre = [r \in Runs |-> [at |-> "resolve", company |-> NoCompany, ask |-> NoAsk]]
    /\ guess = [r \in Runs |-> [at |-> "off", company |-> NoCompany, name |-> NoName,
                               qid |-> NoQid, ask |-> NoAsk]]
    /\ chk = [r \in Runs |-> [at |-> "off", company |-> NoCompany, qid |-> NoQid, ask |-> NoAsk]]
    /\ vouched = {}
    /\ faults = [k \in FaultKinds |-> 0]

Strikes(k) == /\ faults["lookup"] + faults["lock"] + faults["death"] < MaxFaults
              /\ faults' = [faults EXCEPT ![k] = @ + 1]

-----------------------------------------------------------------------------
(* Looking companies up. *)

Exists(c) == company[c].name # NoName
KnownAs(c) == {company[c].name} \cup company[c].alts

\* What the name searches return, and its part that matches the name itself, or an alias.
Hits(n)     == {c \in Companies : Exists(c) /\ \E m \in KnownAs(c) : Core[m] = Core[n]}
Exact(n)    == {c \in Hits(n) : company[c].name = n}
AliasOf(n)  == {c \in Hits(n) : n \in company[c].alts}

\* assessCompanyLinkResolution: one exact match links, no hit creates, all else asks.
Matches(n, c) == Exact(n) = {c}
Unclear(n)    == Hits(n) # {} /\ \A c \in Companies : ~Matches(n, c)
Choices(n)    == IF Exact(n) # {} THEN Exact(n)
                 ELSE IF AliasOf(n) # {} THEN AliasOf(n) ELSE Hits(n)

OwnersOf(q) == {c \in Companies : Exists(c) /\ company[c].qid = q}

\* The id of a new row.  Ids are interchangeable, so they are handed out in a fixed order;
\* the pool bounds the number of companies.
IsNew(c) == ~Exists(c) /\ c = CHOOSE d \in Companies : ~Exists(d)
NewRow(n, byPrecheck) == [name |-> n, qid |-> NoQid, verified |-> FALSE, alts |-> {},
                          fresh |-> byPrecheck]

\* collectAlternativeName: the report's name becomes an alias unless it is the name.
WithAlias(row, n) == IF row.name = n THEN row ELSE [row EXCEPT !.alts = @ \cup {n}]

-----------------------------------------------------------------------------
(* precheck *)

Free(r) == [n \in Names |-> IF lock[n] = r THEN NoRun ELSE lock[n]]

\* The job settles on an existing company: job data, run row, alias.
Adopt(r, c) ==
    /\ pre' = [pre EXCEPT ![r].at = "flows", ![r].company = c]
    /\ runCompany' = [runCompany EXCEPT ![r] = c]
    /\ company' = [company EXCEPT ![c] = WithAlias(@, NameOf[r])]

\* The same for a row the job has just created.
Found(r, c, byPrecheck) ==
    /\ IsNew(c)
    /\ pre' = [pre EXCEPT ![r].at = "flows", ![r].company = c]
    /\ runCompany' = [runCompany EXCEPT ![r] = c]
    /\ company' = [company EXCEPT ![c] = NewRow(NameOf[r], byPrecheck)]

AskStaff(r) == /\ pre' = [pre EXCEPT ![r].at = "resolve",
                                     ![r].ask = LinkAsk(Choices(NameOf[r]))]
               /\ UNCHANGED table

\* First resolution, outside the lock.
PrecheckResolves(r) ==
    /\ pre[r].at = "resolve" /\ pre[r].ask.kind = "none"
    /\ \/ \E c \in Companies : Matches(NameOf[r], c) /\ Adopt(r, c)
       \/ Unclear(NameOf[r]) /\ AskStaff(r)
       \/ /\ Hits(NameOf[r]) = {}
          /\ pre' = [pre EXCEPT ![r].at = "lock"]
          /\ UNCHANGED table
    /\ UNCHANGED <<lock, stray, guess, chk, vouched, faults>>

TakesLock(r) ==
    /\ pre[r].at = "lock" /\ lock[NameOf[r]] = NoRun
    /\ lock' = [lock EXCEPT ![NameOf[r]] = r]
    /\ pre' = [pre EXCEPT ![r].at = "look"]
    /\ UNCHANGED <<company, runCompany, stray, guess, chk, vouched, faults>>

\* Mutant: the name is not searched again under the lock.
LooksOnce(r) ==
    /\ pre[r].at = "look"
    /\ pre' = [pre EXCEPT ![r].at = "create"]
    /\ UNCHANGED <<company, runCompany, lock, stray, guess, chk, vouched, faults>>

\* Second resolution, inside the lock: another run may have created the row meanwhile.
LooksAgain(r) ==
    /\ pre[r].at = "look"
    /\ \/ \E c \in Companies : Matches(NameOf[r], c) /\ Adopt(r, c) /\ lock' = Free(r)
       \/ Unclear(NameOf[r]) /\ AskStaff(r) /\ lock' = Free(r)
       \/ /\ Hits(NameOf[r]) = {}
          /\ pre' = [pre EXCEPT ![r].at = "create"]
          /\ UNCHANGED <<company, runCompany, lock>>
    /\ UNCHANGED <<stray, guess, chk, vouched, faults>>

\* The API creates the row; the transaction ends and the lock with it.
CreateLands(r) ==
    /\ pre[r].at = "create"
    /\ \E c \in Companies : Found(r, c, TRUE)
    /\ lock' = Free(r)
    /\ UNCHANGED <<stray, guess, chk, vouched, faults>>

\* searchCompaniesByName answers an error of the API with the empty list.
SearchFails(r) ==
    /\ \/ pre[r].at = "resolve" /\ pre[r].ask.kind = "none"
       \/ pre[r].at = "look"
    /\ Strikes("lookup")
    /\ pre' = [pre EXCEPT ![r].at = IF @ = "look" THEN "create" ELSE "lock"]
    /\ UNCHANGED <<company, runCompany, lock, stray, guess, chk, vouched>>

\* The transaction ends under the job (its timeout, a lost connection): the
\* attempt fails and is retried, and a request it had sent goes on.
TransactionEnds(r) ==
    /\ pre[r].at \in {"lock", "look", "create"}
    /\ Strikes("lock")
    /\ pre' = [pre EXCEPT ![r].at = "resolve"]
    /\ lock' = Free(r)
    /\ stray' = [stray EXCEPT ![r] = IF pre[r].at = "create" THEN @ + 1 ELSE @]
    /\ UNCHANGED <<company, runCompany, guess, chk, vouched>>

\* Mutant: a request that never ended lands as well.
StrayLandsTwice(r) ==
    /\ stray' = [stray EXCEPT ![r] = @ - 1]
    /\ \E c \in Companies : /\ IsNew(c)
                            /\ company' = [company EXCEPT ![c] = NewRow(NameOf[r], TRUE)]
    /\ UNCHANGED <<runCompany, lock, pre, guess, chk, vouched, faults>>

StrayLands(r) ==
    /\ stray[r] > 0
    /\ stray' = [stray EXCEPT ![r] = @ - 1]
    /\ \E c \in Companies : /\ IsNew(c)
                            /\ company' = [company EXCEPT ![c] = NewRow(NameOf[r], TRUE)]
    /\ UNCHANGED <<runCompany, lock, pre, guess, chk, vouched, faults>>

\* The answer of staff is carried out: a new company (no lock taken), or the one they chose.
PrecheckObeys(r) ==
    /\ pre[r].at = "resolve" /\ pre[r].ask.ok
    /\ \/ pre[r].ask.link = NoCompany /\ \E c \in Companies : Found(r, c, FALSE)
       \/ pre[r].ask.link # NoCompany /\ Adopt(r, pre[r].ask.link)
    /\ UNCHANGED <<lock, stray, guess, chk, vouched, faults>>

\* Two independent flows: the extraction, which ends in checkDB, and guessWikidata.
StartFlows(r) ==
    /\ pre[r].at = "flows"
    /\ pre' = [pre EXCEPT ![r] = [at |-> "done", company |-> NoCompany, ask |-> NoAsk]]
    /\ guess' = [guess EXCEPT ![r].at = "queued", ![r].company = pre[r].company]
    /\ chk' = [chk EXCEPT ![r].at = "queued", ![r].company = pre[r].company]
    /\ UNCHANGED <<company, runCompany, lock, stray, vouched, faults>>

-----------------------------------------------------------------------------
(* guessWikidata *)

\* requestCompanyLinkIfWikidataConflict: another company has the id.
Conflict(r, q) == OwnersOf(q) \ {guess[r].company}

\* preferRicherDiacriticCompanyName, on names that are match keys.
PreferredName(c, n) == IF Core[company[c].name] = Core[n] THEN company[c].name ELSE n

\* persistApprovedWikidata begins: job data, and the name the request will carry.
Persist(r, at, c) == guess' = [guess EXCEPT ![r].at = at, ![r].company = c,
                                  ![r].name = PreferredName(c, NameOf[r])]

AskLink(r, q) == guess' = [guess EXCEPT ![r].at = "queued", ![r].qid = q,
                              ![r].ask = LinkAsk(Conflict(r, q) \cup {guess[r].company})]

\* No approval yet: search, let the model select, and check who has the id.
SearchesWikidata(r) ==
    /\ guess[r].at = "queued" /\ guess[r].ask.kind = "none"
    /\ \/ guess' = [guess EXCEPT ![r].at = "done", ![r].company = NoCompany]
       \/ \E q \in Qids :
            \/ Conflict(r, q) # {} /\ AskLink(r, q)
            \/ /\ Conflict(r, q) = {}
               /\ \/ guess' = [guess EXCEPT ![r].ask = WikidataAsk(q, FALSE)]
                  \* Known in production, or a job with autoApprove: approved by the program.
                  \/ guess' = [guess EXCEPT ![r].at = "auto", ![r].ask = WikidataAsk(q, TRUE)]
    /\ UNCHANGED <<company, runCompany, lock, stray, pre, chk, vouched, faults>>

\* The program has just approved its own proposal: check once more, then persist unverified.
AutoChecks(r) ==
    /\ guess[r].at = "auto"
    /\ LET q == guess[r].ask.qid IN
       \/ Conflict(r, q) # {} /\ AskLink(r, q)
       \/ Conflict(r, q) = {} /\ Persist(r, "autoPatch", guess[r].company)
    /\ UNCHANGED <<company, runCompany, lock, stray, pre, chk, vouched, faults>>

\* The job starts with an approved Wikidata id (or an approved "no Wikidata").
TakesApproval(r) ==
    /\ guess[r].at = "queued" /\ guess[r].ask.kind = "wikidata" /\ guess[r].ask.ok
    /\ LET q == guess[r].ask.qid IN
       \/ q = NoQid /\ guess' = [guess EXCEPT ![r].at = "done", ![r].company = NoCompany]
       \/ q # NoQid /\ Conflict(r, q) # {} /\ AskLink(r, q)
       \/ q # NoQid /\ Conflict(r, q) = {} /\ Persist(r, "patch", guess[r].company)
    /\ UNCHANGED <<company, runCompany, lock, stray, pre, chk, vouched, faults>>

\* The job starts with the company staff chose; if it is its own, the id is not assigned.
TakesLink(r) ==
    /\ guess[r].at = "queued" /\ guess[r].ask.kind = "link" /\ guess[r].ask.ok
    /\ LET c == guess[r].ask.link IN
       Persist(r, IF c = guess[r].company THEN "keep" ELSE "patch", c)
    /\ UNCHANGED <<company, runCompany, lock, stray, pre, chk, vouched, faults>>

\* findCompanyByWikidataId answers an error of the API with "nobody has it".
OwnerLookupFails(r) ==
    /\ guess[r].at = "queued" /\ guess[r].ask.kind = "wikidata" /\ guess[r].ask.ok
    /\ guess[r].ask.qid # NoQid
    /\ Strikes("lookup")
    /\ Persist(r, "patch", guess[r].company)
    /\ UNCHANGED <<company, runCompany, lock, stray, pre, chk, vouched>>

PersistedQid(r) == IF guess[r].ask.kind = "link" THEN guess[r].qid ELSE guess[r].ask.qid
Taken(r) == OwnersOf(PersistedQid(r)) \ {guess[r].company} # {}

Renamed(row, n) == IF row.name = n THEN row ELSE [row EXCEPT !.name = n, !.fresh = FALSE]

\* Mutant: what the program has approved itself counts as verified as well.
PatchVerifies(r) ==
    /\ guess[r].at \in {"patch", "autoPatch", "keep"}
    /\ guess[r].at # "keep" => ~Taken(r)
    /\ company' = [company EXCEPT ![guess[r].company] =
         IF guess[r].at = "keep" THEN Renamed(@, guess[r].name)
         ELSE [Renamed(@, guess[r].name) EXCEPT
                 !.qid = PersistedQid(r), !.verified = r \notin AutoApprove]]
    /\ guess' = [guess EXCEPT ![r].at = IF @ = "autoPatch" THEN "autoSync" ELSE "sync",
                              ![r].name = NoName]
    /\ UNCHANGED <<runCompany, lock, stray, pre, chk, vouched, faults>>

\* POST /companies/:id with the name, and the id unless it is another company's.
PatchLands(r) ==
    /\ guess[r].at \in {"patch", "autoPatch", "keep"}
    /\ guess[r].at # "keep" => ~Taken(r)
    /\ company' = [company EXCEPT ![guess[r].company] =
         IF guess[r].at = "keep" THEN Renamed(@, guess[r].name)
         ELSE [Renamed(@, guess[r].name) EXCEPT
                 !.qid = PersistedQid(r),
                 !.verified = guess[r].at = "patch" /\ r \notin AutoApprove]]
    /\ guess' = [guess EXCEPT ![r].at = IF @ = "autoPatch" THEN "autoSync" ELSE "sync",
                              ![r].name = NoName]
    /\ UNCHANGED <<runCompany, lock, stray, pre, chk, vouched, faults>>

Retry(r) == guess' = [guess EXCEPT ![r].at = "queued", ![r].name = NoName]

\* An error after the program had approved the id because production knows it is taken for
\* "not known there": staff are asked.  (With autoApprove the program approves it once more.)
Swallow(r) == /\ guess[r].at \in {"auto", "autoPatch", "autoSync"} /\ r \notin AutoApprove
              /\ guess' = [guess EXCEPT ![r].at = "queued", ![r].name = NoName,
                                        ![r].ask = WikidataAsk(@.qid, FALSE)]

\* 409: another company has got the id meanwhile.
PatchRejected(r) ==
    /\ guess[r].at \in {"patch", "autoPatch"} /\ Taken(r)
    /\ \/ (guess[r].at = "patch" \/ r \in AutoApprove) /\ Retry(r)
       \/ Swallow(r)
    /\ UNCHANGED <<company, runCompany, lock, stray, pre, chk, vouched, faults>>

\* syncCanonicalReportRunCompanyId: the run row gets the job's company.
Syncs(r) ==
    /\ guess[r].at \in {"autoSync", "sync"}
    /\ runCompany' = [runCompany EXCEPT ![r] = guess[r].company]
    /\ guess' = [guess EXCEPT ![r].at = "done", ![r].company = NoCompany]
    /\ UNCHANGED <<company, lock, stray, pre, chk, vouched, faults>>

\* The execution dies or throws: the job is run again from the top, unless it swallows it ...
GuessDies(r) ==
    /\ guess[r].at \in {"auto", "autoPatch", "patch", "keep", "autoSync", "sync"}
    /\ Strikes("death")
    /\ Retry(r) \/ Swallow(r)
    /\ UNCHANGED <<company, runCompany, lock, stray, pre, chk, vouched>>

\* ... or it has thrown in its last attempt.
GuessFails(r) ==
    /\ guess[r].at = "queued"
    /\ Strikes("death")
    /\ guess' = [guess EXCEPT ![r].at = "failed", ![r].company = NoCompany]
    /\ UNCHANGED <<company, runCompany, lock, stray, pre, chk, vouched>>

-----------------------------------------------------------------------------
(* checkDB *)

\* Mutant: the state of the job is not looked at.
LinkPendingInAnyState(r) == guess[r].ask.kind = "link" /\ ~guess[r].ask.ok

\* isCompanyLinkResolutionPendingForThread
LinkPending(r) == /\ guess[r].at \notin {"off", "done", "failed"}
                  /\ guess[r].ask.kind = "link" /\ ~guess[r].ask.ok

\* getWikidataNodeForThread: what the guessWikidata job says, unless it still waits for staff.
NodeForThread(r) ==
    IF Pending(guess[r].ask) THEN NoQid
    ELSE IF guess[r].ask.kind = "wikidata" THEN guess[r].ask.qid
    ELSE guess[r].qid

CanonicalCompany(r) == IF runCompany[r] # NoCompany THEN runCompany[r] ELSE chk[r].company

\* The data of the run will be saved under c; run row and alias when that is a change.
SaveUnder(r, c, node) ==
    /\ chk' = [chk EXCEPT ![r].at = "fan", ![r].company = c, ![r].qid = node]
    /\ IF c = chk[r].company THEN UNCHANGED table
       ELSE /\ runCompany' = [runCompany EXCEPT ![r] = c]
            /\ company' = [company EXCEPT ![c] = WithAlias(@, NameOf[r])]

\* The job starts behind the gate with the company of the run row; it goes back to wait
\* while a question of its own is open.
CheckBegins(r) ==
    /\ chk[r].at = "queued" /\ ~LinkPending(r)
    /\ ~chk[r].ask.ok
    /\ chk' = [chk EXCEPT ![r].at = IF Pending(chk[r].ask) THEN "queued" ELSE "resolve",
                          ![r].company = CanonicalCompany(r)]
    /\ UNCHANGED <<company, runCompany, lock, stray, pre, guess, vouched, faults>>

\* Mutant: the choice of staff does not keep the job from resolving again.
CheckObeysAndResolves(r) ==
    /\ chk[r].at = "queued" /\ ~LinkPending(r)
    /\ chk[r].ask.ok
    /\ LET c == chk[r].ask.link IN
       /\ chk' = [chk EXCEPT ![r].at = "resolve", ![r].company = c]
       /\ runCompany' = [runCompany EXCEPT ![r] = c]
       /\ company' = [company EXCEPT ![c] = WithAlias(@, NameOf[r])]
    /\ UNCHANGED <<lock, stray, pre, guess, vouched, faults>>

\* The job starts with the company staff chose for the save: no second resolution.
CheckObeys(r) ==
    /\ chk[r].at = "queued" /\ ~LinkPending(r)
    /\ chk[r].ask.ok
    /\ LET c == chk[r].ask.link IN
       /\ chk' = [chk EXCEPT ![r].at = "fan", ![r].company = c]
       /\ runCompany' = [runCompany EXCEPT ![r] = c]
       /\ company' = [company EXCEPT ![c] = WithAlias(@, NameOf[r])]
    /\ UNCHANGED <<lock, stray, pre, guess, vouched, faults>>

\* resolvePipelineCompanyAfterIdentifiers: the owner of the Wikidata id, else the name, else
\* the company at hand.
CheckResolves(r) ==
    /\ chk[r].at = "resolve"
    /\ LET node == IF chk[r].qid # NoQid THEN chk[r].qid ELSE NodeForThread(r)
           owners == IF node = NoQid THEN {} ELSE OwnersOf(node)
       IN \/ \E c \in owners : SaveUnder(r, c, node)
          \/ /\ owners = {}
             /\ \/ \E c \in Companies : Matches(NameOf[r], c) /\ SaveUnder(r, c, node)
                \/ /\ Unclear(NameOf[r])
                   /\ chk' = [chk EXCEPT ![r].at = "queued", ![r].qid = node,
                                         ![r].ask = LinkAsk(Choices(NameOf[r]))]
                   /\ UNCHANGED table
                \/ Hits(NameOf[r]) = {} /\ SaveUnder(r, chk[r].company, node)
    /\ UNCHANGED <<lock, stray, pre, guess, vouched, faults>>

\* The diff jobs and, after them, the saves of the run are on their way.
FansOut(r) ==
    /\ chk[r].at = "fan"
    /\ chk' = [chk EXCEPT ![r].at = "done", ![r].qid = NoQid]
    /\ UNCHANGED <<company, runCompany, lock, stray, pre, guess, vouched, faults>>

CheckDies(r) ==
    /\ chk[r].at \in {"resolve", "fan"}
    /\ Strikes("death")
    /\ chk' = [chk EXCEPT ![r].at = "queued"]
    /\ UNCHANGED <<company, runCompany, lock, stray, pre, guess, vouched>>

-----------------------------------------------------------------------------
(* Staff, in Validate *)

Answered(ask, c, q) == [ask EXCEPT !.ok = TRUE, !.cands = {}, !.link = c, !.qid = q]

\* precheck offers its candidates and a new company.
StaffPrecheck(r) ==
    /\ pre[r].ask.kind = "link" /\ ~pre[r].ask.ok
    /\ \E c \in pre[r].ask.cands \cup {NoCompany} :
          pre' = [pre EXCEPT ![r].ask = Answered(@, c, NoQid)]
    /\ UNCHANGED <<company, runCompany, lock, stray, guess, chk, vouched, faults>>

\* guessWikidata offers the owner of the id and the company of the run.
StaffLink(r) ==
    /\ guess[r].at = "queued" /\ guess[r].ask.kind = "link" /\ ~guess[r].ask.ok
    /\ \E c \in guess[r].ask.cands :
          /\ guess' = [guess EXCEPT ![r].ask = Answered(@, c, NoQid)]
          /\ vouched' = IF c = guess[r].company THEN vouched ELSE vouched \cup {guess[r].qid}
    /\ UNCHANGED <<company, runCompany, lock, stray, pre, chk, faults>>

\* The proposed Wikidata id is approved, or "no Wikidata" is.
StaffWikidata(r) ==
    /\ guess[r].at = "queued" /\ guess[r].ask.kind = "wikidata" /\ ~guess[r].ask.ok
    /\ \/ /\ guess' = [guess EXCEPT ![r].ask = Answered(@, NoCompany, @.qid)]
          /\ vouched' = vouched \cup {guess[r].ask.qid}
       \/ /\ guess' = [guess EXCEPT ![r].ask = Answered(@, NoCompany, NoQid)]
          /\ UNCHANGED vouched
    /\ UNCHANGED <<company, runCompany, lock, stray, pre, chk, faults>>

StaffCheck(r) ==
    /\ chk[r].ask.kind = "link" /\ ~chk[r].ask.ok
    /\ \E c \in chk[r].ask.cands : chk' = [chk EXCEPT ![r].ask = Answered(@, c, NoQid)]
    /\ UNCHANGED <<company, runCompany, lock, stray, pre, guess, vouched, faults>>

-----------------------------------------------------------------------------
Precheck(r) == \/ PrecheckResolves(r) \/ TakesLock(r) \/ LooksAgain(r) \/ CreateLands(r)
               \/ PrecheckObeys(r) \/ StartFlows(r)
Guess(r) == \/ SearchesWikidata(r) \/ AutoChecks(r) \/ TakesApproval(r) \/ TakesLink(r)
            \/ PatchLands(r) \/ PatchRejected(r) \/ Syncs(r)
Check(r) == CheckBegins(r) \/ CheckObeys(r) \/ CheckResolves(r) \/ FansOut(r)
Fault(r) == \/ SearchFails(r) \/ TransactionEnds(r) \/ OwnerLookupFails(r)
            \/ GuessDies(r) \/ GuessFails(r) \/ CheckDies(r)
Staff(r) == StaffPrecheck(r) \/ StaffLink(r) \/ StaffWikidata(r) \/ StaffCheck(r)

Next == \E r \in Runs : Precheck(r) \/ Guess(r) \/ Check(r) \/ StrayLands(r) \/ Fault(r) \/ Staff(r)

Spec == Init /\ [][Next]_vars

\* Queues are served: a job that is due is run.  Nobody promises that staff answer.
Fairness == \A r \in Runs : WF_vars(Precheck(r)) /\ WF_vars(Guess(r)) /\ WF_vars(Check(r))
FairSpec == Spec /\ Fairness

-----------------------------------------------------------------------------
(* Properties *)

\* pipelineCompanyCreate.ts: "so concurrent precheck jobs share one row".  As long as no
\* search has failed and no transaction has ended under its holder, no two rows bear the
\* same name under which precheck created them.
OneShellPerName ==
    faults["lookup"] = 0 /\ faults["lock"] = 0 =>
        \A c, d \in Companies :
            company[c].fresh /\ company[d].fresh /\ company[c].name = company[d].name => c = d

\* The Wikidata upload trusts "verified": as long as no execution of guessWikidata has
\* died, a verified id is one that a person has approved.
VerifiedByStaff ==
    faults["death"] = 0 =>
        \A c \in Companies : company[c].verified => company[c].qid \in vouched

\* checkDB skips its re-resolution once staff have chosen the company for the save: the data
\* goes where they said, whatever guessWikidata wrote in between.
SaveChoiceStands ==
    \A r \in Runs : chk[r].at \in {"fan", "done"} /\ chk[r].ask.ok => chk[r].company = chk[r].ask.link

\* pipelineRunCompanyId.ts: the gate "does not block saves for ordinary Wikidata approval
\* delays", and a guessWikidata job that has failed for good blocks nothing: a run gets to
\* its saves unless somebody has a company link to answer.
LinkUnanswered(r) == \/ Pending(pre[r].ask) \/ Pending(chk[r].ask)
                     \/ guess[r].at = "queued" /\ guess[r].ask.kind = "link" /\ ~guess[r].ask.ok
SavesAreReached == \A r \in Runs : []<>(chk[r].at = "done" \/ LinkUnanswered(r))

\* guessWikidata asks staff "which company this report belongs to before saving": after it
\* has written their answer to the run row, nothing but a later answer of staff moves the run.
StaffLinkStands ==
    [][\A r \in Runs :
         guess[r].at = "done" /\ guess[r].ask.kind = "link" /\ runCompany[r] = guess[r].ask.link
           => runCompany'[r] = runCompany[r] \/ chk[r].ask.ok]_vars
=============================================================================
