----------------------------- MODULE PeriodSave -----------------------------
(***************************************************************************)
(* POST /:id/reporting-periods, for one year of one report.  A save finds  *)
(* or makes the period, its emissions, and then writes the data points     *)
(* side by side, each in steps of its own and with a metadata row that     *)
(* remembers the value before.  Saves of staff, of the pipeline and        *)
(* retries of both may overlap, and staff may delete rows meanwhile.       *)
(*                                                                         *)
(* scope1 stands for the data points an emissions row has one of (scope 2, *)
(* scope 1 and 2, biogenic, the stated total, turnover, employees), which  *)
(* a unique index guards.  The categories of scope 3 have no such index.   *)
(* The script that removes doubles afterwards is here as well.             *)
(***************************************************************************)
EXTENDS Naturals, FiniteSets, Sequences, SequencesExt

CONSTANTS
    Cats,       \* categories of scope 3
    Values,     \* what a data point may be
    None,       \* no value
    Savers,     \* requests that may be in flight together
    MaxIds,     \* bound: rows ever made
    MaxSaves    \* bound: saves ever begun

ASSUME PeriodAssumption ==
    /\ Values \cap {None, "absent", "null"} = {}
    /\ Cats \cap {"scope1", "scope3", "emissions", "read1", "write1"} = {}
    /\ MaxIds \in Nat /\ MaxSaves \in Nat

VARIABLES
    period,     \* the ReportingPeriod of the report and year: its id, or 0
    rows,       \* Emissions, Scope1, Scope3 and Scope3Category rows below it or detached
    metadata,   \* Metadata of the data points, numbered from the oldest on
    save,       \* the requests
    used,       \* ids given out
    saves,      \* saves begun
    script,     \* remove-duplicate-emissions: the rows it has marked, or None
    past,       \* history: the values a row has had before, with the number of the write after each
    raced,      \* history: rows that overlapping requests have written
    doubled     \* history: categories that overlapping saves have had

pvars == <<period, rows, metadata, save, used, saves, script, past, raced, doubled>>

Ids == 1..MaxIds
Points == {"scope1"} \cup Cats
Row(id, owner, kind, val) == [id |-> id, owner |-> owner, kind |-> kind, val |-> val]

\* What a body says of scope 1: nothing, null, or a value; and of scope 3: nothing, or some of
\* the categories.
Bodies == [scope1: {"absent", "null"} \cup Values,
           scope3: BOOLEAN, cats: UNION {[K -> Values] : K \in SUBSET Cats},
           replaceAll: BOOLEAN]

\* scope3 is null or has no categories when cats is empty, and is not there when it is FALSE.
CatsOf(body) == body.cats
Sendable == {b \in Bodies : b.scope3 \/ b.cats = <<>>}

Idle == [pc |-> "idle"]
Busy == {s \in Savers : save[s].pc # "idle"}

PeriodTypesOK ==
    /\ period \in 0..MaxIds /\ used \in 0..MaxIds /\ saves \in 0..MaxSaves
    /\ \A x \in rows : /\ x.id \in 1..used
                       /\ x.owner \in {0, period} \cup {y.id : y \in rows}
                       /\ x.kind \in Points \cup {"emissions", "scope3"}
                       /\ x.val \in Values \cup {None}
    /\ \A x, y \in rows : x.id = y.id => x = y
    /\ \A m \in metadata : \E x \in rows : x.id = m.row /\ x.kind \in Points
    /\ \A m, n \in metadata : m.at = n.at => m = n
    /\ \A s \in Busy : save[s].body \in Bodies /\ DOMAIN save[s].match \subseteq Cats

-----------------------------------------------------------------------------
(***************************************************************************)
(* Tables.                                                                 *)
(***************************************************************************)

Exists(id) == \E x \in rows : x.id = id
Below(owner, kind) == {x \in rows : x.owner = owner /\ x.kind = kind}
IdBelow(owner, kind) ==
    IF owner = 0 \/ Below(owner, kind) = {} THEN 0 ELSE (CHOOSE x \in Below(owner, kind) : TRUE).id
ValueOf(id) == (CHOOSE x \in rows : x.id = id).val

\* The rows that go with the given ones: children are deleted with their parent.
WithChildren(ids) == ids \cup {x.id : x \in {y \in rows : y.owner \in ids}}
Cascade(ids) == WithChildren(WithChildren(WithChildren(ids)))

MetadataOf(ids) == {m \in metadata : m.row \in ids}

\* Mutant: the children stay.
Mutant_Delete(ids) ==
    /\ rows' = {x \in rows : x.id \notin ids}
    /\ metadata' = {m \in metadata : m.row \notin ids}

\* Metadata of a deleted row loses its link, and is of no row from then on.
Delete(ids) ==
    LET gone == Cascade(ids)
    IN /\ rows' = {x \in rows : x.id \notin gone}
       /\ metadata' = {m \in metadata : m.row \notin gone}

\* A row under a parent that may have one: Prisma detaches the one that is there, or the unique
\* index refuses a second that comes at the same moment.
Attach(owner, kind, id) ==
    rows' = {IF x.owner = owner /\ x.kind = kind THEN [x EXCEPT !.owner = 0] ELSE x : x \in rows}
            \cup {Row(id, owner, kind, None)}

-----------------------------------------------------------------------------
(***************************************************************************)
(* What the report's year says, and what a save should make of it.         *)
(***************************************************************************)

Emissions == IdBelow(period, "emissions")
Scope3 == IdBelow(Emissions, "scope3")

Shown == [scope1 |-> {x.val : x \in IF Emissions = 0 THEN {} ELSE Below(Emissions, "scope1")},
          cats |-> [k \in Cats |-> {x.val : x \in IF Scope3 = 0 THEN {} ELSE Below(Scope3, k)}]]

Nothing == [scope1 |-> {}, cats |-> [k \in Cats |-> {}]]

\* The save as a single step.
Applied(before, body) ==
    LET base == IF body.replaceAll THEN Nothing ELSE before
    IN [scope1 |-> CASE body.scope1 = "absent" -> base.scope1
                     [] body.scope1 = "null" -> {}
                     [] OTHER -> {body.scope1},
        cats |-> [k \in Cats |-> IF k \in DOMAIN CatsOf(body) THEN {CatsOf(body)[k]} ELSE base.cats[k]]]

-----------------------------------------------------------------------------
(***************************************************************************)
(* A save begins.                                                          *)
(***************************************************************************)

Disturbed(f) == [s \in Savers |-> IF s \in Busy THEN [f[s] EXCEPT !.alone = FALSE, !.before = Nothing] ELSE f[s]]

BeginSave(s) ==
    /\ save[s] = Idle /\ saves < MaxSaves
    /\ \E body \in Sendable :
        /\ save' = [Disturbed(save) EXCEPT ![s] =
            [pc |-> IF body.replaceAll THEN "list" ELSE "period", body |-> body, alone |-> Busy = {},
             lost |-> FALSE, before |-> IF Busy = {} THEN Shown ELSE Nothing, purge |-> <<>>, period |-> 0, emissions |-> 0,
             scope1 |-> 0, prev1 |-> None, scope3 |-> 0, match |-> <<>>, prev |-> <<>>,
             todo |-> {}]]
        /\ doubled' = doubled \cup {k \in DOMAIN CatsOf(body) :
                                        \E t \in Busy : k \in DOMAIN CatsOf(save[t].body)}
    /\ saves' = saves + 1
    /\ UNCHANGED <<period, rows, metadata, used, script, past, raced>>

Set(s, q) == save' = [save EXCEPT ![s] = q]
At(s, pc) == save[s].pc = pc
Quiet == UNCHANGED <<period, rows, metadata, used, saves, script, past, raced, doubled>>

\* The answer is an error; what has been written stays.
Fails(s) == Set(s, Idle) /\ Quiet

\* replaceAllEmissions lists what the period has, and deletes it row by row; it is refused in
\* production.
ListAll(s) ==
    /\ At(s, "list")
    /\ LET cats == {x.id : x \in UNION {Below(Scope3, k) : k \in Cats}}
           one(id) == IF id = 0 THEN <<>> ELSE <<id>>
       IN Set(s, [save[s] EXCEPT !.pc = "purge",
            !.purge = (IF Scope3 = 0 THEN <<>> ELSE SetToSeq(cats) \o <<Scope3>>)
                      \o one(IdBelow(Emissions, "scope1"))])
    /\ Quiet

\* A row that has gone meanwhile ends the request with an error.
PurgeOne(s) ==
    /\ At(s, "purge") /\ save[s].purge # <<>>
    /\ IF Exists(Head(save[s].purge))
       THEN /\ Delete({Head(save[s].purge)})
            /\ Set(s, [save[s] EXCEPT !.purge = Tail(@)])
            /\ UNCHANGED <<period, used, saves, script, past, raced, doubled>>
       ELSE Fails(s)
Purged(s) ==
    At(s, "purge") /\ save[s].purge = <<>> /\ Set(s, [save[s] EXCEPT !.pc = "period"]) /\ Quiet

\* upsertReportingPeriod, and the id of the emissions the period has.
UpsertPeriod(s) ==
    /\ At(s, "period") /\ (period = 0 => used < MaxIds)
    /\ period' = IF period = 0 THEN used + 1 ELSE period
    /\ used' = IF period = 0 THEN used + 1 ELSE used
    /\ Set(s, [save[s] EXCEPT !.pc = "emissions", !.period = period', !.emissions = Emissions])
    /\ UNCHANGED <<rows, metadata, saves, script, past, raced, doubled>>

\* Mutant: what the body does not mention is taken for null.
Mutant_Drops(body) == body.scope1 \in {"null", "absent"}

Drops(body) == body.scope1 = "null"

\* The points a body writes.
Todo(body, e) ==
    (IF IF Drops(body) THEN IdBelow(e, "scope1") # 0 ELSE body.scope1 # "absent"
     THEN {"read1"} ELSE {}) \cup
    (IF body.scope3 THEN {"scope3"} ELSE {})

\* upsertEmissions makes emissions when the period had none, and reads what is below them.
UpsertEmissions(s) ==
    /\ At(s, "emissions")
    /\ LET q == save[s]  e == save[s].emissions  IN
       IF Exists(e)
       THEN /\ Set(s, [q EXCEPT !.pc = "points", !.todo = Todo(q.body, e),
                        !.scope1 = IdBelow(e, "scope1"), !.scope3 = IdBelow(e, "scope3")])
            /\ Quiet
       ELSE IF q.period # period THEN Fails(s)
       ELSE /\ used < MaxIds /\ used' = used + 1
            /\ Attach(period, "emissions", used + 1)
            /\ Set(s, [q EXCEPT !.pc = "points", !.emissions = used + 1, !.todo = Todo(q.body, 0)])
            /\ UNCHANGED <<period, metadata, saves, script, past, raced, doubled>>

-----------------------------------------------------------------------------
(***************************************************************************)
(* The data points of a save, side by side (Promise.allSettled).           *)
(***************************************************************************)

Does(s, step) == At(s, "points") /\ step \in save[s].todo
Next1(s, step, then) == [save[s] EXCEPT !.todo = (@ \ {step}) \cup then]

\* A point that fails is not reported: the answer is ok without it.
LoseStep(s) ==
    /\ At(s, "points")
    /\ \E step \in save[s].todo : Set(s, [Next1(s, step, {}) EXCEPT !.lost = TRUE, !.before = Nothing])
    /\ Quiet

\* Mutant: the value is taken from the save.
Mutant_Previous(id, v) == IF Exists(id) /\ ValueOf(id) # v THEN v ELSE None

\* The value a metadata row remembers: the one there is, when it changes.
Previous(id, v) == IF Exists(id) /\ ValueOf(id) # v THEN ValueOf(id) ELSE None

\* buildScope1Promise deletes the row for null, and for a value reads the row there is.
Scope1Reads(s) ==
    /\ Does(s, "read1") /\ ~Drops(save[s].body)
    /\ Set(s, [Next1(s, "read1", {"write1"}) EXCEPT
                !.prev1 = Previous(save[s].scope1, save[s].body.scope1)])
    /\ Quiet
Scope1Deletes(s) ==
    /\ Does(s, "read1") /\ Drops(save[s].body)
    /\ Exists(save[s].scope1) /\ Delete({save[s].scope1})
    /\ Set(s, Next1(s, "read1", {}))
    /\ UNCHANGED <<period, used, saves, script, past, raced, doubled>>

\* The number of the next metadata row.
NextNumber == 1 + Max({0} \cup {m.at : m \in metadata})
Remember(id, prev) == metadata' = metadata \cup {[at |-> NextNumber, row |-> id, prev |-> prev]}

\* A row gets a value, with the metadata made for it; the history notes what it had.
Change(s, id, v, prev) ==
    /\ rows' = {IF x.id = id THEN [x EXCEPT !.val = v] ELSE x : x \in rows}
    /\ Remember(id, prev)
    /\ past' = IF ValueOf(id) = v THEN past ELSE [past EXCEPT ![id] = @ \cup {[at |-> NextNumber, val |-> ValueOf(id)]}]
    /\ raced' = IF save[s].alone THEN raced ELSE raced \cup {id}
    /\ UNCHANGED used

\* A row under its parent, from which the one that is there is detached.
MakeSingle(s, v) ==
    LET q == save[s]  IN
    /\ Exists(q.emissions) /\ used < MaxIds /\ used' = used + 1
    /\ rows' = {IF x.owner = q.emissions /\ x.kind = "scope1" THEN [x EXCEPT !.owner = 0]
                ELSE x : x \in rows} \cup {Row(used + 1, q.emissions, "scope1", v)}
    /\ Remember(used + 1, q.prev1)
    /\ raced' = IF q.alone THEN raced ELSE raced \cup {used + 1}
    /\ UNCHANGED past

\* The row it had found is updated.  When it has gone, an update fails (scopes, biogenic) and an
\* upsert makes the row again (stated total, turnover, employees).
Scope1Writes(s) ==
    /\ Does(s, "write1")
    /\ LET v == save[s].body.scope1  IN
       IF Exists(save[s].scope1) THEN Change(s, save[s].scope1, v, save[s].prev1) ELSE MakeSingle(s, v)
    /\ Set(s, Next1(s, "write1", {}))
    /\ UNCHANGED <<period, saves, script, doubled>>

\* Mutant: a category is not looked for among those there are.
Mutant_Matching(s3, k) == {0}

\* The row of a category, any when there are several.
Matching(s3, k) == IF Below(s3, k) = {} THEN {0} ELSE {x.id : x \in Below(s3, k)}

\* upsertScope3 finds or makes the scope 3 row, and reads its categories.
UpsertScope3(s) ==
    /\ Does(s, "scope3")
    /\ LET q == save[s]  C == CatsOf(save[s].body)
           go(id, m) == Set(s, [Next1(s, "scope3", DOMAIN C) EXCEPT !.scope3 = id, !.match = m,
                                    !.prev = [k \in DOMAIN C |-> Previous(m[k], C[k])]])
       IN IF Exists(q.scope3)
          THEN \E m \in [DOMAIN C -> 0..used] :
                /\ \A k \in DOMAIN C : m[k] \in Matching(q.scope3, k)
                /\ go(q.scope3, m) /\ Quiet
          ELSE /\ Exists(q.emissions) /\ used < MaxIds /\ used' = used + 1
               /\ Attach(q.emissions, "scope3", used + 1)
               /\ go(used + 1, [k \in DOMAIN C |-> 0])
               /\ UNCHANGED <<period, metadata, saves, script, past, raced, doubled>>

\* The category is updated, or made when there was none or it has gone.
UpsertCategory(s) ==
    \E k \in Cats :
        /\ Does(s, k)
        /\ LET q == save[s]  v == CatsOf(save[s].body)[k]  id == save[s].match[k]  IN
           IF Exists(id) THEN Change(s, id, v, q.prev[k])
           ELSE /\ Exists(q.scope3) /\ used < MaxIds /\ used' = used + 1
                /\ rows' = rows \cup {Row(used + 1, q.scope3, k, v)}
                /\ Remember(used + 1, q.prev[k])
                /\ raced' = IF q.alone THEN raced ELSE raced \cup {used + 1}
                /\ UNCHANGED past
        /\ Set(s, Next1(s, k, {}))
        /\ UNCHANGED <<period, saves, script, doubled>>

\* ok, whatever became of the points.
Answer(s) == At(s, "points") /\ save[s].todo = {} /\ Set(s, Idle) /\ Quiet

\* The server dies, or a query on the way to the points fails.
EndsEarly(s) == s \in Busy /\ Fails(s)

-----------------------------------------------------------------------------
(***************************************************************************)
(* Deletions by staff, and the script.                                     *)
(***************************************************************************)

DeletePoint ==
    \E x \in rows :
        /\ x.kind # "emissions" /\ Delete({x.id}) /\ save' = Disturbed(save)
        /\ UNCHANGED <<period, used, saves, script, past, raced, doubled>>

DeletePeriod ==
    /\ period # 0 /\ period' = 0 /\ Delete({period}) /\ save' = Disturbed(save)
    /\ UNCHANGED <<used, saves, script, past, raced, doubled>>

\* What the script looks for: categories of a scope 3 row, and rows there may be one of, which
\* the unique indexes have not let in.
DoubleCats == {x \in rows : x.kind \in Cats /\ Cardinality(Below(x.owner, x.kind)) > 1}
DoubleSingles ==
    {x \in rows : x.kind = "scope1" /\ x.owner # 0 /\ Cardinality(Below(x.owner, x.kind)) > 1}

\* Of the metadata of rows with the same category the newest is kept, and the rows of all the
\* others are marked.
Marked(s3, k) ==
    LET M == MetadataOf({x.id : x \in Below(s3, k)})
    IN {m.row : m \in {n \in M : \E o \in M : o.at > n.at}}

ScriptMarks ==
    /\ script = None
    /\ \E x \in DoubleCats \cup DoubleSingles : script' = Marked(x.owner, x.kind)
    /\ UNCHANGED <<period, rows, metadata, save, used, saves, past, raced, doubled>>
ScriptDeletes ==
    /\ script # None /\ script' = None
    /\ Delete(script) /\ save' = Disturbed(save)
    /\ UNCHANGED <<period, used, saves, past, raced, doubled>>

-----------------------------------------------------------------------------

PeriodInit ==
    /\ period = 0 /\ rows = {} /\ metadata = {} /\ used = 0 /\ saves = 0 /\ script = None
    /\ save = [s \in Savers |-> Idle]
    /\ past = [id \in Ids |-> {}] /\ raced = {} /\ doubled = {}

SaveSteps(s) ==
    \/ BeginSave(s) \/ ListAll(s) \/ PurgeOne(s) \/ Purged(s) \/ UpsertPeriod(s)
    \/ UpsertEmissions(s) \/ Scope1Reads(s) \/ Scope1Deletes(s) \/ Scope1Writes(s)
    \/ UpsertScope3(s) \/ UpsertCategory(s) \/ LoseStep(s) \/ Answer(s) \/ EndsEarly(s)

PeriodNext ==
    (\E s \in Savers : SaveSteps(s)) \/ DeletePoint \/ DeletePeriod \/ ScriptMarks \/ ScriptDeletes

PeriodSpec == PeriodInit /\ [][PeriodNext]_pvars

-----------------------------------------------------------------------------
(***************************************************************************)
(* Properties.                                                             *)
(***************************************************************************)

\* A scope 3 row has one row of a category, although no index says so, unless saves with that
\* category have overlapped.
OneRowPerCategory ==
    \A x \in rows : x.kind \in Cats \ doubled => Cardinality(Below(x.owner, x.kind)) = 1

\* The previous values in its metadata tell every value a row has had, each where it was
\* overwritten, unless requests that overlapped another have written the row: each of them may
\* have read the value before the other's.
HistoryTellsAll ==
    \A x \in rows :
        (x.kind \in Points /\ x.id \notin raced) =>
            {[at |-> m.at, val |-> m.prev] : m \in {n \in MetadataOf({x.id}) : n.prev # None}} = past[x.id]

\* A save that is answered with ok, that nothing has disturbed and that lost no point on the way
\* has the effect of a single step: what the body names is as it says, all else as before.
AnswersAsOneStep(s) ==
    (Answer(s) /\ save[s].alone /\ ~save[s].lost) =>
        \/ Shown = Applied(save[s].before, save[s].body)
        \/ \E k \in Cats : Cardinality(Below(Scope3, k)) > 1
OkIsOneStep == [][\A s \in Savers : AnswersAsOneStep(s)]_pvars

\* A category has one row unless saves of it overlapped, and every value it had is in its history.
PeriodsAreWhole == OneRowPerCategory /\ HistoryTellsAll
=============================================================================
