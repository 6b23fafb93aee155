---------------------------- MODULE ShellCleanup ----------------------------
(***************************************************************************)
(* cleanup-empty-company-shells.ts, run by hand with --apply while the     *)
(* pipeline works.  Precheck creates a company from a name; checkDB, with  *)
(* the identifiers of the report, may turn to another one and leave an     *)
(* empty shell behind.  The script lists the shells page by page, looks at *)
(* each again when its turn comes, and deletes it with all that hangs on   *)
(* it.  The reading of the company, the counting of its runs and the       *)
(* deletion are three statements, and the pipeline goes on between them.   *)
(***************************************************************************)
EXTENDS Naturals, FiniteSets

CONSTANTS
    Firms,      \* internal ids, of companies there are and are not yet
    ReportRuns, \* runs of reports
    Things,     \* what may be on a company: fields, identifiers, records
    Counted,    \* the things the script looks at
    MaxRetries, \* bound: failed runs that are run again
    MaxPasses   \* bound: how often the script is run

ASSUME ShellAssumption == Counted \subseteq Things /\ MaxRetries \in Nat /\ MaxPasses \in Nat

VARIABLES
    on,    \* what is on a company that is there; the ids of those that are, are its domain
    runOf, \* a run: its stage, the company it works with, whether checkDB chose that
    row,   \* its ReportRun row: status and the company it names
    list,  \* the shells the script has still to come to
    turn,  \* the one it is at: its stage, what it read, what was true when it came to it
    retries, passes

svars == <<on, runOf, row, list, turn, retries, passes>>

There == DOMAIN on
NoRun == [at |-> "idle"]
Stages == {"waiting", "parsing", "created", "working", "failed", "ended"}

ShellTypeOK ==
    /\ There \subseteq Firms /\ \A c \in There : on[c] \subseteq Things
    /\ \A r \in ReportRuns : runOf[r].at \in Stages /\ runOf[r].company \subseteq Firms
                       /\ row[r].status \in {"none", "running", "failed", "completed"}
                       /\ row[r].company \subseteq Firms
    /\ list \subseteq Firms
    /\ turn.at \in {"idle", "pages", "runs", "delete"}

ShellInit ==
    /\ \E S \in SUBSET Firms : on \in [S -> {{}} \cup {{t} : t \in Things}]
    /\ runOf = [r \in ReportRuns |-> [at |-> "waiting", company |-> {}, chosen |-> FALSE]]
    /\ row = [r \in ReportRuns |-> [status |-> "none", company |-> {}]]
    /\ list = {} /\ turn = NoRun
    /\ retries = 0 /\ passes = 0

-----------------------------------------------------------------------------
(* The pipeline, as far as it touches companies and rows of runs. *)

ByScript == UNCHANGED <<list, turn, passes>>

\* The first job of a run that ends creates its row.
RunBegins(r) ==
    /\ runOf[r].at = "waiting"
    /\ runOf' = [runOf EXCEPT ![r].at = "parsing"]
    /\ row' = [row EXCEPT ![r].status = "running"]
    /\ UNCHANGED <<on, retries>> /\ ByScript

\* Precheck creates a company ...
PrecheckCreates(r) ==
    /\ runOf[r].at = "parsing"
    /\ \E c \in Firms \ There :
          /\ on' = [d \in There \cup {c} |-> IF d = c THEN {} ELSE on[d]]
          /\ runOf' = [runOf EXCEPT ![r] = [at |-> "created", company |-> {c}, chosen |-> FALSE]]
    /\ UNCHANGED <<row, retries>> /\ ByScript

\* ... or finds one; then, in a statement of its own, the row names it.
PrecheckFinds(r) ==
    /\ runOf[r].at = "parsing"
    /\ \E c \in There : runOf' = [runOf EXCEPT ![r] = [at |-> "created", company |-> {c}, chosen |-> FALSE]]
    /\ UNCHANGED <<on, row, retries>> /\ ByScript

syncRunCompanyId(r) ==
    /\ runOf[r].at = "created"
    /\ runOf' = [runOf EXCEPT ![r].at = "working"]
    /\ row' = [row EXCEPT ![r].company = runOf[r].company]
    /\ UNCHANGED <<on, retries>> /\ ByScript

\* checkDB turns to another company, known by an identifier, and leaves the first to itself.
\* The identifiers of a report do not change, so that it does so once.
Relinks(r) ==
    /\ runOf[r].at = "working" /\ ~runOf[r].chosen
    /\ \E c \in There \ runOf[r].company : 
          on[c] # {} /\ runOf' = [runOf EXCEPT ![r] = [at |-> "created", company |-> {c}, chosen |-> TRUE]]
    /\ UNCHANGED <<on, row, retries>> /\ ByScript

\* What the report says is saved; of a company that is gone the API says 404.
Saves(r) ==
    /\ runOf[r].at = "working"
    /\ \E c \in runOf[r].company :
          IF c \in There
          THEN /\ \E t \in Things : on' = [on EXCEPT ![c] = @ \cup {t}]
               /\ runOf' = [runOf EXCEPT ![r].at = "ended"]
               /\ row' = [row EXCEPT ![r].status = "completed"]
          ELSE /\ runOf' = [runOf EXCEPT ![r].at = "failed"]
               /\ row' = [row EXCEPT ![r].status = "failed"]
               /\ UNCHANGED on
    /\ UNCHANGED retries /\ ByScript

RunFails(r) ==
    /\ runOf[r].at = "working"
    /\ runOf' = [runOf EXCEPT ![r].at = "failed"]
    /\ row' = [row EXCEPT ![r].status = "failed"]
    /\ UNCHANGED <<on, retries>> /\ ByScript

\* A failed job that is tried again leaves the status of the row as it is.
Retried(r) ==
    /\ runOf[r].at = "failed" /\ retries < MaxRetries
    /\ retries' = retries + 1
    /\ runOf' = [runOf EXCEPT ![r].at = "working"]
    /\ UNCHANGED <<on, row>> /\ ByScript

StaffAdd(c) ==
    /\ c \in There
    /\ \E t \in Things : on' = [on EXCEPT ![c] = @ \cup {t}]
    /\ UNCHANGED <<runOf, row, retries>> /\ ByScript

RunSteps ==
    \/ \E r \in ReportRuns : \/ RunBegins(r) \/ PrecheckCreates(r) \/ PrecheckFinds(r) \/ syncRunCompanyId(r)
                       \/ Relinks(r) \/ Saves(r) \/ RunFails(r) \/ Retried(r)
    \/ \E c \in Firms : StaffAdd(c)

-----------------------------------------------------------------------------
(* The script. *)

ByPipeline == UNCHANGED <<runOf, row, retries>>

\* Runs under way whose row names the company.
Active(c) == {r \in ReportRuns : row[r].status = "running" /\ c \in row[r].company}

\* No period, identifier, field or record, and no run.
isDisposable(things, active) == things \cap Counted = {} /\ active = {}

\* A page of companies is read ...
ListPage ==
    /\ turn.at = "idle" /\ list = {} /\ passes < MaxPasses
    /\ passes' = passes + 1
    /\ turn' = [at |-> "pages", things |-> on]
    /\ UNCHANGED <<on, list>> /\ ByPipeline

\* ... then the runs of these; the disposable ones are listed.
ListRuns ==
    /\ turn.at = "pages"
    /\ list' = {c \in DOMAIN turn.things : isDisposable(turn.things[c], Active(c))}
    /\ turn' = NoRun
    /\ UNCHANGED <<on, passes>> /\ ByPipeline

\* One that is gone is skipped, another is read again.
ComesTo(c) ==
    /\ turn.at = "idle" /\ c \in list
    /\ list' = list \ {c}
    /\ turn' = IF c \in There THEN [at |-> "runs", company |-> c, things |-> on[c], had |-> on[c], used |-> Active(c)]
               ELSE NoRun
    /\ UNCHANGED <<on, passes>> /\ ByPipeline

\* Mutant: what was true when the list was made is taken for granted.
Mutant_CountsRuns ==
    /\ turn.at = "runs"
    /\ turn' = [turn EXCEPT !.at = "delete"]
    /\ UNCHANGED <<on, list, passes>> /\ ByPipeline

CountsRuns ==
    /\ turn.at = "runs"
    /\ turn' = IF isDisposable(turn.things, Active(turn.company)) THEN [turn EXCEPT !.at = "delete"] ELSE NoRun
    /\ UNCHANGED <<on, list, passes>> /\ ByPipeline

\* The company and all that hangs on it; an error is counted.
Deletes ==
    /\ turn.at = "delete"
    /\ on' = [c \in There \ {turn.company} |-> on[c]]
    /\ turn' = NoRun
    /\ UNCHANGED <<list, passes>> /\ ByPipeline

Script == ListPage \/ ListRuns \/ (\E c \in Firms : ComesTo(c)) \/ CountsRuns \/ Deletes

ShellNext == RunSteps \/ Script

ShellSpec == ShellInit /\ [][ShellNext]_svars

-----------------------------------------------------------------------------

\* However old the list is: a company that had something the script looks at when its turn came,
\* or that a run under way named from then on, is not deleted.
UsedCompaniesStay ==
    turn.at = "delete" =>
        /\ turn.had \cap Counted = {}
        /\ ~ \E r \in turn.used : row[r].status = "running" /\ turn.company \in row[r].company

\* cleanup-empty-company-shells.ts:3: "name-only rows with no periods, identifiers, profile
\* fields, or related records".  Of a company that is deleted nothing was there at its turn.
OnlyNamesGo == turn.at = "delete" => turn.had = {}
=============================================================================
