---------------------------- MODULE Identifiers ----------------------------
(***************************************************************************)
(* The identifiers of companies.  A LEI is kept twice, in the column       *)
(* Company.lei and in a row of company_identifiers, and nothing in the     *)
(* database makes it unique: every request looks for another owner before  *)
(* it writes, one query at a time, and the other requests of the API run   *)
(* between its queries.  ISINs and BICs have many rows of a company, of    *)
(* which one may be PRIMARY; ISIN stands for both.                         *)
(*                                                                         *)
(* A request is staff's, or the save at the end of a pipeline job, whose   *)
(* decision was made from a snapshot of the company, or a backfill's.      *)
(***************************************************************************)
EXTENDS Naturals, FiniteSets, Sequences, SequencesExt

CONSTANTS
    Companies,    \* companies that exist or may be created
    Leis, Isins, Orgs, \* well-formed values of the three types
    NoValue,      \* no value, or an empty one
    Requests,     \* requests that may be in flight together
    MaxAutoIsins, \* MAX_AUTO_ISINS
    MaxRows,      \* bound: rows of company_identifiers
    MaxBegun      \* bound: requests ever made

ASSUME IdentifierAssumption ==
    /\ NoValue \notin Leis \cup Isins \cup Orgs
    /\ IsFiniteSet(Isins) /\ MaxAutoIsins \in Nat /\ MaxRows \in Nat /\ MaxBegun \in Nat

VARIABLES
    col,       \* Company.lei; companies that do not exist have no entry
    idRows,    \* company_identifiers
    req,       \* the requests
    begun,     \* how many requests there have been
    contested, \* history: LEIs that requests of two companies have asked for at once
    muddled,   \* history: companies whose last LEI request overlapped another, or failed halfway
    emptied    \* history: companies whose LEI an update has set to the empty string

ivars == <<col, idRows, req, begun, contested, muddled, emptied>>

Born == DOMAIN col
IdValues == Leis \cup Isins \cup Orgs
Types == {"LEI", "ORG_NUMBER", "ISIN"}
Singular == {"LEI", "ORG_NUMBER"}

Rows == [id: 1..MaxRows, co: Companies, type: Types, val: IdValues, primary: BOOLEAN]
NoRow == [id |-> 0]

\* The role asked for: keep is an undefined one.
Roles == {"keep", "primary", "plain"}
Items == [type: Types, val: IdValues, role: Roles]

LeiKinds == {"set_lei", "update", "create", "diff_lei", "backfill", "clear", "clear_value"}
Batches == {"batch", "gleif_backfill"}
ManyKinds == {"set", "delete"} \cup Batches
Pipeline == {"diff_lei", "batch"}

NoRequest == [kind |-> "none"]
Flying == {r \in Requests : req[r].kind # "none"}

IdTypeOK ==
    /\ Born \subseteq Companies /\ \A c \in Born : col[c] \in Leis \cup {NoValue}
    /\ idRows \subseteq Rows
    /\ \A x, y \in idRows : x.id = y.id => x = y
    /\ \A r \in Flying :
        /\ req[r].kind \in LeiKinds \cup ManyKinds
        /\ req[r].co \in Companies /\ req[r].val \in IdValues \cup {NoValue}
        /\ req[r].seen \in idRows \cup Rows \cup {NoRow}
        /\ \A i \in DOMAIN req[r].items : req[r].items[i] \in Items
    /\ begun \in 0..MaxBegun
    /\ contested \subseteq Leis /\ muddled \subseteq Companies /\ emptied \subseteq Companies

-----------------------------------------------------------------------------
(***************************************************************************)
(* What a request finds in the two tables.                                 *)
(***************************************************************************)

RowsOf(c, type) == {x \in idRows : x.co = c /\ x.type = type}
OthersInColumn(c, v) == {d \in Born \ {c} : col[d] = v}
OthersInRows(c, type, v) == {x \in idRows : x.co # c /\ x.type = type /\ x.val = v}

LeiOwned(c, v) == (c \in Born /\ col[c] = v) \/ \E x \in RowsOf(c, "LEI") : x.val = v

\* Ids that no row has and no request remembers.
FreshIds == (1..MaxRows) \ ({x.id : x \in idRows} \cup {req[r].seen.id : r \in Flying})

-----------------------------------------------------------------------------
(***************************************************************************)
(* History.                                                                *)
(***************************************************************************)

\* A LEI stays contested while two companies have it or a request still asks for it.
WatchContest ==
    LET asks(r, v) == req'[r].kind \in LeiKinds /\ req'[r].val = v
        owns(c, v) == (c \in DOMAIN col' /\ col'[c] = v) \/
                      \E x \in idRows' : x.co = c /\ x.type = "LEI" /\ x.val = v
    IN contested' = {v \in Leis :
        \/ \E r, s \in Requests : asks(r, v) /\ asks(s, v) /\ req'[r].co # req'[s].co
        \/ v \in contested /\ \/ \E r \in Requests : asks(r, v)
                              \/ \E c, d \in Companies : c # d /\ owns(c, v) /\ owns(d, v)}

\* The column has been written by these steps' requests and the row not yet.
HalfDone(r) == req[r].pc \in {"row_table", "row_column", "row_find", "row_write"}
               /\ req[r].kind \in LeiKinds

-----------------------------------------------------------------------------
(***************************************************************************)
(* A request begins and ends.                                              *)
(***************************************************************************)

Neighbours(r, c) == {s \in Flying \ {r} : req[s].co = c}

Request(kind, c, pc, v) ==
    [kind |-> kind, co |-> c, pc |-> pc, type |-> "LEI", val |-> v, role |-> "keep",
     seen |-> NoRow, items |-> <<>>, body |-> <<>>, alone |-> TRUE, snapPrimary |-> FALSE]

Begin(r, q) ==
    /\ req[r].kind = "none" /\ begun < MaxBegun
    /\ begun' = begun + 1
    /\ IF Neighbours(r, q.co) = {}
       THEN req' = [req EXCEPT ![r] = q] /\ UNCHANGED muddled
       ELSE /\ req' = [s \in Requests |-> IF s = r THEN [q EXCEPT !.alone = FALSE]
                                          ELSE IF s \in Neighbours(r, q.co)
                                          THEN [req[s] EXCEPT !.alone = FALSE] ELSE req[s]]
            /\ muddled' = muddled \cup {q.co}
    /\ UNCHANGED <<col, idRows, emptied>> /\ WatchContest

\* POST /:id/identifiers with a LEI, and with an empty value; DELETE /:id/identifiers/LEI, with
\* or without a value.
BeginSetLei(r) == \E c \in Born, v \in Leis : Begin(r, Request("set_lei", c, "own_table", v))
BeginClear(r) == \E c \in Born : Begin(r, Request("clear", c, "clear", NoValue))
BeginClearValue(r) == \E c \in Born, v \in Leis : Begin(r, Request("clear_value", c, "read", v))

\* POST /:id with a LEI; with none, or with an empty one, no owner is looked for.
BeginUpdate(r) ==
    \E c \in Born, v \in Leis \cup {NoValue} :
        Begin(r, Request("update", c, IF v = NoValue THEN "column" ELSE "free_column", v))

\* POST / creates a company.
BeginCreate(r) ==
    \E c \in Companies \ (Born \cup {req[s].co : s \in Flying}), v \in Leis :
        Begin(r, Request("create", c, "free_column", v))

\* decideLeiWrite, its part about the company itself: the incoming LEI is new and none is there.
DecidesToWrite(c, v) == col[c] = NoValue

\* diffLEI, with the company as checkDB has read it.
BeginDiffLei(r) ==
    \E c \in Born, v \in Leis :
        DecidesToWrite(c, v) /\ Begin(r, Request("diff_lei", c, "find_column", v))

\* backfill-company-identifiers has read the column of every company.
BeginBackfill(r) ==
    \E c \in Born : col[c] # NoValue /\ Begin(r, Request("backfill", c, "row_table", col[c]))

\* POST /:id/identifiers for an organisation number or an ISIN, with or without a role; DELETE.
BeginSet(r) ==
    \E c \in Born, role \in Roles, type \in {"ORG_NUMBER", "ISIN"} :
        \E v \in IF type = "ISIN" THEN Isins ELSE Orgs :
            Begin(r, [Request("set", c, "row_table", v) EXCEPT !.type = type, !.role = role])
BeginDelete(r) ==
    \E x \in idRows :
        x.type # "LEI" /\ Begin(r, [Request("delete", x.co, "delete", x.val) EXCEPT !.type = x.type])

\* planGleifIdentifierWrites: what GLEIF links to the LEI of a company, added to what the
\* company has.  A single ISIN becomes PRIMARY unless one is; too many are left out.
PlannedIsins(existing, isins, total, truncated) ==
    LET setPrimary == Cardinality(isins) = 1 /\ ~\E x \in existing : x.type = "ISIN" /\ x.primary
        has(v) == \E x \in existing : x.type = "ISIN" /\ x.val = v
    IN IF truncated \/ total > MaxAutoIsins \/ Cardinality(isins) > MaxAutoIsins THEN {}
       ELSE {[type |-> "ISIN", val |-> v, role |-> IF setPrimary THEN "primary" ELSE "keep"] :
                v \in {w \in isins : setPrimary \/ ~has(w)}}

PlannedOrg(existing, org) ==
    IF org = NoValue \/ \E x \in existing : x.type = "ORG_NUMBER" THEN {}
    ELSE {[type |-> "ORG_NUMBER", val |-> org, role |-> "keep"]}

\* The ISINs come in the order GLEIF has them.
PlanGleifWrites(existing, isins, total, truncated, org) ==
    {s \o SetToSeq(PlannedOrg(existing, org)) :
        s \in SetToSeqs(PlannedIsins(existing, isins, total, truncated))}

\* A batch works on the first of its items.
OnItem(q, items) ==
    [q EXCEPT !.items = items, !.type = Head(items).type, !.val = Head(items).val,
              !.role = Head(items).role, !.pc = "row_table", !.seen = NoRow]

\* The plan is made from the identifiers of a company and then written, item by item.
BeginPlanned(r, kind) ==
    \E c \in Born, isins \in SUBSET Isins, truncated \in BOOLEAN, org \in Orgs \cup {NoValue} :
        LET existing == {x \in idRows : x.co = c}
        IN \E plan \in PlanGleifWrites(existing, isins, Cardinality(isins), truncated, org) :
           /\ plan # <<>>
           /\ Begin(r, OnItem([Request(kind, c, "row_table", NoValue) EXCEPT !.body = plan,
                    !.snapPrimary = \E x \in existing : x.type = "ISIN" /\ x.primary], plan))

\* diffGleifIds and then POST /:id/identifiers/batch.
BeginBatch(r) == BeginPlanned(r, "batch")

\* backfill-gleif-identifiers has read the identifiers of all companies before it plans for one.
BeginGleifBackfill(r) == BeginPlanned(r, "gleif_backfill")

\* Requests whose success leaves the two tables alike, whatever they were.
Settles(q) == q.kind \in {"set_lei", "clear", "clear_value", "backfill"} \/
              (q.kind \in {"update", "create", "diff_lei"} /\ q.val # NoValue)

\* The request ends: ok, or with an error or nothing done.
Finish(r) ==
    /\ req' = [req EXCEPT ![r] = NoRequest]
    /\ muddled' = IF req[r].alone /\ Settles(req[r]) THEN muddled \ {req[r].co} ELSE muddled
    /\ emptied' = IF req[r].alone /\ Settles(req[r]) THEN emptied \ {req[r].co} ELSE emptied

Refuse(r) ==
    /\ IF req[r].kind \in Batches /\ Len(req[r].items) > 1
       THEN req' = [req EXCEPT ![r] = OnItem(@, Tail(@.items))]
       ELSE req' = [req EXCEPT ![r] = NoRequest]
    /\ muddled' = IF HalfDone(r) THEN muddled \cup {req[r].co} ELSE muddled
    /\ UNCHANGED emptied

\* An item of a batch, or the whole request, is done.
Done(r) ==
    IF req[r].kind \in Batches /\ Len(req[r].items) > 1
    THEN req' = [req EXCEPT ![r] = OnItem(@, Tail(@.items))] /\ UNCHANGED <<muddled, emptied>>
    ELSE Finish(r)

Go(r, pc) == req' = [req EXCEPT ![r].pc = pc] /\ UNCHANGED <<muddled, emptied>>

-----------------------------------------------------------------------------
(***************************************************************************)
(* The queries of a request.                                               *)
(***************************************************************************)

ReqAt(r, pc) == req[r].kind # "none" /\ req[r].pc = pc
Looked == UNCHANGED <<col, idRows>> /\ WatchContest

\* findCompanyByLei asks the API for the company with the LEI, by column and then by row.
FindInColumn(r) ==
    /\ ReqAt(r, "find_column")
    /\ IF OthersInColumn(req[r].co, req[r].val) # {} THEN Refuse(r) ELSE Go(r, "find_table")
    /\ Looked
FindInTable(r) ==
    /\ ReqAt(r, "find_table")
    /\ IF OthersInRows(req[r].co, "LEI", req[r].val) # {} THEN Refuse(r) ELSE Go(r, "free_column")
    /\ Looked

\* findOtherCompanyOwningLei, before a company is created or updated.
FreeInColumn(r) ==
    /\ ReqAt(r, "free_column")
    /\ IF OthersInColumn(req[r].co, req[r].val) # {} THEN Refuse(r) ELSE Go(r, "free_table")
    /\ Looked
FreeInTable(r) ==
    /\ ReqAt(r, "free_table")
    /\ IF OthersInRows(req[r].co, "LEI", req[r].val) # {} THEN Refuse(r) ELSE Go(r, "column")
    /\ Looked

\* Mutant: the rows are not searched.
Mutant_OwnInTable(r, pc, next) == ReqAt(r, pc) /\ Go(r, next) /\ Looked

\* assertValueNotOwnedByOtherCompany, for a LEI and then for any identifier.
OwnInTable(r, pc, next) ==
    /\ ReqAt(r, pc)
    /\ IF OthersInRows(req[r].co, req[r].type, req[r].val) # {} THEN Refuse(r) ELSE Go(r, next)
    /\ Looked
OwnInColumn(r, pc, next) ==
    /\ ReqAt(r, pc)
    /\ IF OthersInColumn(req[r].co, req[r].val) # {} THEN Refuse(r) ELSE Go(r, next)
    /\ Looked

\* The column is written.  An update without a LEI goes on with the one it finds there, and one
\* with an empty LEI empties it and touches no row.
WriteColumn(r) ==
    /\ ReqAt(r, "column")
    /\ LET q == req[r]  c == req[r].co  IN
       \E empty \in IF q.kind = "update" /\ q.val = NoValue THEN BOOLEAN ELSE {FALSE} :
           LET v == IF q.val # NoValue THEN q.val ELSE IF empty THEN NoValue ELSE col[c]
           IN /\ col' = [d \in Born \cup {c} |-> IF d = c THEN v ELSE col[d]]
              /\ req' = [req EXCEPT ![r] = IF v = NoValue THEN NoRequest
                                           ELSE [q EXCEPT !.val = v, !.pc = "row_table"]]
              /\ emptied' = IF empty THEN emptied \cup {c} ELSE emptied
    /\ UNCHANGED <<idRows, muddled>> /\ WatchContest

\* Mutant: a batch writes organisation numbers like staff do.
Mutant_CreateOnly(q) == FALSE

\* Staff may set an organisation number over another; a batch only where there is none.
CreateOnly(q) == q.kind \in Batches /\ q.type = "ORG_NUMBER"

SkipsUnchanged(q) == q.kind \notin {"set", "set_lei"}

Existing(q) ==
    LET there == {x \in RowsOf(q.co, q.type) : q.type \in Singular \/ x.val = q.val}
    IN IF there = {} THEN NoRow ELSE CHOOSE x \in there : TRUE

\* upsertIdentifier looks for the row it will change.
FindRow(r) ==
    /\ ReqAt(r, "row_find")
    /\ LET q == req[r]  x == Existing(req[r])
           same == x.val = q.val /\ (q.role = "keep" \/ x.primary = (q.role = "primary"))
       IN IF x # NoRow /\ (CreateOnly(q) \/ (same /\ SkipsUnchanged(q))) THEN Done(r)
          ELSE req' = [req EXCEPT ![r].pc = "row_write", ![r].seen = x] /\ UNCHANGED <<muddled, emptied>>
    /\ Looked

\* A request ends with an error between two queries, or in one; a save of the pipeline may be
\* tried again from its first query.
Fail(r) ==
    /\ r \in Flying
    /\ \/ req' = [req EXCEPT ![r] = NoRequest]
       \/ /\ req[r].kind \in Pipeline /\ req[r].pc \notin {"find_column", "find_table"}
          /\ req' = [req EXCEPT ![r] =
                IF @.kind \in Batches THEN OnItem(@, @.body)
                ELSE [@ EXCEPT !.pc = "free_column", !.seen = NoRow]]
    /\ muddled' = IF HalfDone(r) THEN muddled \cup {req[r].co} ELSE muddled
    /\ UNCHANGED emptied /\ Looked

\* Mutant: the other PRIMARY row keeps its role.
Mutant_Demoted(q, id) == idRows

\* Demoting the other PRIMARY rows, when the role is PRIMARY.
Demoted(q, id) ==
    {IF q.role = "primary" /\ x.co = q.co /\ x.type = q.type /\ x.id # id
     THEN [x EXCEPT !.primary = FALSE] ELSE x : x \in idRows}

\* The unique indexes of company_identifiers: one row of a singular type, one of a value, one PRIMARY.
UniqueRows(rs) ==
    \A x, y \in rs :
        (x # y /\ x.co = y.co /\ x.type = y.type) =>
            x.type \notin Singular /\ x.val # y.val /\ ~(x.primary /\ y.primary)

\* The transaction at the end of upsertIdentifier demotes, then changes the row it found or adds
\* one.  The row may be gone (P2025), and one may have appeared (P2002: skipped in a batch).
WriteRow(r) ==
    /\ ReqAt(r, "row_write")
    /\ LET q == req[r]  x == req[r].seen
           written == IF x = NoRow
               THEN Demoted(q, 0) \cup
                    {[id |-> CHOOSE i \in FreshIds : \A j \in FreshIds : i <= j, co |-> q.co,
                      type |-> q.type, val |-> q.val, primary |-> q.role = "primary"]}
               ELSE {IF y.id = x.id
                     THEN [y EXCEPT !.val = q.val,
                            !.primary = IF q.role = "keep" THEN @ ELSE q.role = "primary"]
                     ELSE y : y \in Demoted(q, x.id)}
       IN /\ x = NoRow => FreshIds # {}
          /\ x # NoRow => \E y \in idRows : y.id = x.id
          /\ IF UniqueRows(written) THEN idRows' = written /\ Done(r) ELSE Refuse(r) /\ UNCHANGED idRows
    /\ UNCHANGED col /\ WatchContest

\* deleteCompanyIdentifierValue reads the column first.
ReadColumn(r) ==
    /\ ReqAt(r, "read")
    /\ IF col[req[r].co] # req[r].val THEN Refuse(r) ELSE Go(r, "clear")
    /\ Looked

\* Mutant: the row is left.
Mutant_ClearLei(r) ==
    /\ ReqAt(r, "clear")
    /\ col' = [col EXCEPT ![req[r].co] = NoValue]
    /\ UNCHANGED idRows
    /\ Finish(r) /\ WatchContest

\* One transaction clears the column and removes the row.
ClearLei(r) ==
    /\ ReqAt(r, "clear")
    /\ col' = [col EXCEPT ![req[r].co] = NoValue]
    /\ idRows' = idRows \ RowsOf(req[r].co, "LEI")
    /\ Finish(r) /\ WatchContest

\* The other types have rows only: all of the type, or the one with the value.
DeleteRows(r) ==
    /\ ReqAt(r, "delete")
    /\ idRows' = idRows \ {x \in RowsOf(req[r].co, req[r].type) :
                            req[r].type = "ORG_NUMBER" \/ x.val = req[r].val}
    /\ Finish(r) /\ UNCHANGED col /\ WatchContest

-----------------------------------------------------------------------------

IdInit ==
    /\ \E B \in (SUBSET Companies) \ {{}} : col = [c \in B |-> NoValue]
    /\ idRows = {}
    /\ req = [r \in Requests |-> NoRequest]
    /\ begun = 0
    /\ contested = {} /\ muddled = {} /\ emptied = {}

IdBegins(r) ==
    \/ BeginSetLei(r) \/ BeginClear(r) \/ BeginClearValue(r) \/ BeginUpdate(r) \/ BeginCreate(r)
    \/ BeginDiffLei(r) \/ BeginBackfill(r) \/ BeginSet(r) \/ BeginDelete(r) \/ BeginBatch(r)
    \/ BeginGleifBackfill(r)

IdSteps(r) ==
    \/ FindInColumn(r) \/ FindInTable(r) \/ FreeInColumn(r) \/ FreeInTable(r)
    \/ OwnInTable(r, "own_table", "own_column")
    \/ OwnInColumn(r, "own_column", "column")
    \/ WriteColumn(r)
    \/ OwnInTable(r, "row_table", IF req[r].type = "LEI" THEN "row_column" ELSE "row_find")
    \/ OwnInColumn(r, "row_column", "row_find")
    \/ FindRow(r) \/ WriteRow(r) \/ ReadColumn(r) \/ ClearLei(r) \/ DeleteRows(r) \/ Fail(r)

IdNext == \E r \in Requests : IdBegins(r) \/ (IdSteps(r) /\ UNCHANGED begun)

IdSpec == IdInit /\ [][IdNext]_ivars

-----------------------------------------------------------------------------
(***************************************************************************)
(* Properties.                                                             *)
(***************************************************************************)

\* A LEI belongs to one company, counting the column and the row, unless requests of two
\* companies have asked for it at the same time: then both may find it free (the lookups of
\* companyIdentifierService see only what is written).
LeiHasOneOwner ==
    \A v \in Leis \ contested : Cardinality({c \in Companies : LeiOwned(c, v)}) <= 1

\* The column and the row of a company agree when no request of it is in flight, its last LEI
\* request was alone and did not fail halfway, and no update has emptied the column: whatever an
\* earlier race or error has left, the next LEI request puts right.
TablesAgree ==
    \A c \in Born \ (muddled \cup emptied) :
        (\A r \in Flying : req[r].co # c) =>
            {x.val : x \in RowsOf(c, "LEI")} = {col[c]} \ {NoValue}

\* Staff's value is written with the role asked for.
Honoured(r) ==
    (WriteRow(r) /\ req[r].kind = "set" /\ req[r].alone) =>
        \E x \in idRows' : /\ x.co = req[r].co /\ x.type = req[r].type /\ x.val = req[r].val
                           /\ req[r].role # "keep" => (x.primary <=> req[r].role = "primary")
\* Staff's value is there, with the role asked for, once a request of theirs that none of the
\* same company overlaps has written it: the demotion comes first, so that no index refuses it.
SetIsHonoured == [][\A r \in Requests : Honoured(r)]_ivars

\* A step of a batch keeps the organisation numbers, and the ISINs where one was PRIMARY.
OnlyAdds(r) ==
    (req[r].kind \in Batches /\ req'[r] # req[r]) =>
        \A x \in idRows : x.type = "ORG_NUMBER" \/ req[r].snapPrimary => x \in idRows'
\* What GLEIF adds is only added.  A batch changes no organisation number, even one that staff have set
\* since its plan was made, and takes PRIMARY from no row when one was PRIMARY at the time of the
\* plan; it removes nothing.
BatchOnlyAdds == [][\A r \in Requests : OnlyAdds(r)]_ivars

\* A LEI has one owner, column and rows of a company agree, staff's choice of the PRIMARY stands
\* and a batch only adds.
IdentifiersAgree == [](LeiHasOneOwner /\ TablesAgree) /\ SetIsHonoured /\ BatchOnlyAdds
=============================================================================
