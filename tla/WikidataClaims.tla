--------------------------- MODULE WikidataClaims ---------------------------
(***************************************************************************)
(* The emissions of a company as claims on its Wikidata item.  An upload   *)
(* fetches the company, turns its last period into claims, reads those on  *)
(* the item, works out which to add and which to remove, and sends one     *)
(* edit.  Between the reading and the edit anybody may change the item; an *)
(* edit that is refused is logged and forgotten, and the next upload has   *)
(* to make up for it.                                                      *)
(***************************************************************************)
EXTENDS Integers, FiniteSets, FiniteSetsExt

CONSTANTS
    ReportsOf,    \* what a company may report of a period: from Inputs to a number or Unreported
    Categories,   \* scope 3 categories
    Unreported,   \* nothing reported
    Ends,         \* the ends of periods
    OnItem,       \* what the item may hold before the first upload: sets of claims with ids
    OthersValues, \* bound: the values of claims by others
    MaxChanges,   \* bound: edits of the item by others and changes of the company
    MaxUploads    \* bound: uploads

Scopes == {"scope1", "mb", "lb", "unknown"}
Inputs == Scopes \cup Categories \cup {"stated"}
ClaimKinds == Scopes \cup Categories \cup {"scope3", "total"}

Claim == [kind : ClaimKinds, start : 1..2, end : Ends, value : Nat]

\* What others put on the item, within the bound OthersValues.
OthersClaim == [kind : ClaimKinds, start : 1..2, end : Ends, value : OthersValues]

Period == [end : Ends, emissions : ReportsOf]

\* Claims on an item have ids of their own.
ItemOK(claims) ==
    /\ claims \subseteq [id : Nat, kind : ClaimKinds, start : 1..2, end : Ends, value : Nat]
    /\ IsFiniteSet(claims)
    /\ \A e, f \in claims : e.id = f.id => e = f

ASSUME ClaimsAssumption ==
    /\ IsFiniteSet(Categories) /\ Categories \cap (Scopes \cup {"stated", "scope3", "total"}) = {}
    /\ ReportsOf \subseteq [Inputs -> Nat \cup {Unreported}] /\ Unreported \notin Nat
    /\ Ends \subseteq Nat /\ Ends # {}
    /\ \A claims \in OnItem : ItemOK(claims)
    /\ OthersValues \subseteq Nat /\ MaxChanges \in Nat /\ MaxUploads \in Nat

VARIABLES
    company,         \* the last period of the company: its end and what it reports
    item,            \* the claims on the Wikidata item, in the order of their ids
    upload,          \* the running upload: its stage, the period it fetched, the claims it read
    quiet,           \* uploads that have ended since the company or the item was changed by others
    changes, uploads \* how often others changed the company or the item, and uploads

wvars == <<company, item, upload, quiet, changes, uploads>>

ClaimsTypeOK ==
    /\ company \in Period
    /\ ItemOK(item)
    /\ upload.at \in {"idle", "fetched", "read"} /\ upload.period \in Period
    /\ quiet \in 0..MaxUploads /\ changes \in 0..MaxChanges /\ uploads \in 0..MaxUploads

ClaimsInit ==
    /\ company \in Period
    /\ item \in OnItem
    /\ upload = [at |-> "idle", period |-> company, seen |-> {}, fresh |-> FALSE]
    /\ quiet = 0 /\ changes = 0 /\ uploads = 0

-----------------------------------------------------------------------------
(* What is to be on the item. *)

ValueOf(n) == IF n = Unreported THEN 0 ELSE n
Added(S, d) == FoldSet(LAMBDA k, sum : sum + ValueOf(d[k]), 0, S)

\* The scope 3 total: the stated one, 0 included, else the sum of the categories if there is any.
Scope3(d) == IF d["stated"] # Unreported THEN d["stated"]
             ELSE IF Added(Categories, d) > 0 THEN Added(Categories, d) ELSE Unreported

Of(kind, value, end) == [kind |-> kind, start |-> 1, end |-> end, value |-> value]

\* A scope of 0 is not claimed, a category of 0 is.
transformEmissionsToClaims(p) ==
    LET d == p.emissions
    IN {Of(k, d[k], p.end) : k \in {k \in Scopes : d[k] \notin {Unreported, 0}}
                                   \cup {k \in Categories : d[k] # Unreported}}
       \cup (IF Scope3(d) # Unreported THEN {Of("scope3", Scope3(d), p.end)} ELSE {})

\* The total: market-based before location-based before unknown, and the scope 3 total, of
\* which the categories are part.
Preferred(d) == IF ValueOf(d["mb"]) # 0 THEN "mb" ELSE IF ValueOf(d["lb"]) # 0 THEN "lb" ELSE "unknown"
calculateTotalEmissions(p) ==
    ValueOf(p.emissions["scope1"]) + ValueOf(p.emissions[Preferred(p.emissions)]) + ValueOf(Scope3(p.emissions))

-----------------------------------------------------------------------------
(* What an upload adds and removes, from the claims it has read. *)

\* Claims of the same kind and end that say something else; each is replaced by a new copy.
Replaced(c, seen) ==
    {e \in seen : e.kind = c.kind /\ e.end = c.end /\ (e.start # c.start \/ e.value # c.value)}

\* One that is not on the item, nor is a newer one, is added.
Missing(c, seen) == \A e \in seen : e.kind = c.kind => e.end < c.end

\* Mutant: the claim that is replaced stays.
Mutant_diffCarbonFootprintClaims(claims, seen) ==
    [new |-> {<<c, e.id>> : c \in {c \in claims : Missing(c, seen)}, e \in {[id |-> 0]}}
             \cup UNION {{<<c, e.id>> : e \in Replaced(c, seen)} : c \in claims},
     rm  |-> {}]

diffCarbonFootprintClaims(claims, seen) ==
    [new |-> {<<c, 0>> : c \in {c \in claims : Missing(c, seen)}}
             \cup UNION {{<<c, e.id>> : e \in Replaced(c, seen)} : c \in claims},
     rm  |-> UNION {Replaced(c, seen) : c \in claims}]

\* Totals of the same end are looked at up to the first that is right; the start is not compared.
diffTotalCarbonFootprintClaims(p, claims, seen) ==
    LET total == calculateTotalEmissions(p)
        same == {e \in seen : e.kind = "total" /\ e.end = p.end}
        right == {e \in same : e.value = total}
    IN IF claims = {} THEN [new |-> {}, rm |-> {}]
       ELSE [new |-> IF right = {} THEN {<<Of("total", total, p.end), 0>>} ELSE {},
             rm  |-> {e \in same \ right : \A r \in right : e.id < r.id}]

\* Mutant: whether the other one stays is not asked, so that both go.
Mutant_removeExistingDuplicates(seen, rm) ==
    {e \in seen \ rm : \E f \in seen : f.id # e.id /\ f.kind = e.kind /\ f.start = e.start /\ f.end = e.end}

\* Of claims of one kind and period, whatever they say, the last stays.
removeExistingDuplicates(seen, rm) ==
    {e \in seen \ rm : \E f \in seen \ rm : f.id > e.id /\ f.kind = e.kind /\ f.start = e.start /\ f.end = e.end}

\* A scope 3 claim of 0: the total is one as well, read from the item its category is "".
removeZeroValueClaims(seen) == {e \in seen : e.value = 0 /\ e.kind \in Categories \cup {"scope3"}}

Plan(p, seen) ==
    LET claims == transformEmissionsToClaims(p)
        scopes == diffCarbonFootprintClaims(claims, seen)
        total == diffTotalCarbonFootprintClaims(p, claims, seen)
        rm == scopes.rm \cup total.rm
    IN [new |-> scopes.new \cup total.new,
        rm  |-> rm \cup removeExistingDuplicates(seen, rm) \cup removeZeroValueClaims(seen)]

-----------------------------------------------------------------------------

\* Claims put on the item get ids after those that are there.
Numbered(copies) ==
    LET top == IF item = {} THEN 0 ELSE Max({e.id : e \in item})
        Put(c, done) == done \cup {[id |-> top + 1 + Cardinality(done), kind |-> c[1].kind,
                                    start |-> c[1].start, end |-> c[1].end, value |-> c[1].value]}
    IN FoldSet(Put, {}, copies)

\* The script fetches the companies, with what is saved at that moment.
pushWikidata ==
    /\ upload.at = "idle" /\ uploads < MaxUploads
    /\ uploads' = uploads + 1
    /\ upload' = [at |-> "fetched", period |-> company, seen |-> {}, fresh |-> TRUE]
    /\ UNCHANGED <<company, item, quiet, changes>>

\* Its turn comes: the claims on the item are read.  A company without claims is left out.
getClaims ==
    /\ upload.at = "fetched"
    /\ IF transformEmissionsToClaims(upload.period) = {}
       THEN upload' = [upload EXCEPT !.at = "idle"]
       ELSE upload' = [upload EXCEPT !.at = "read", !.seen = item]
    /\ UNCHANGED <<company, item, quiet, changes, uploads>>

\* The read or the edit fails: it is logged and the script goes on.
UploadFails ==
    /\ upload.at \in {"fetched", "read"}
    /\ upload' = [upload EXCEPT !.at = "idle"]
    /\ UNCHANGED <<company, item, quiet, changes, uploads>>

\* One edit adds and removes; Wikidata refuses it when a claim to remove is gone.
editEntity ==
    /\ upload.at = "read"
    /\ LET plan == Plan(upload.period, upload.seen)
       IN IF plan.rm \subseteq item
          THEN item' = (item \ plan.rm) \cup Numbered(plan.new)
          ELSE UNCHANGED item
    /\ quiet' = IF upload.fresh THEN quiet + 1 ELSE quiet
    /\ upload' = [upload EXCEPT !.at = "idle"]
    /\ UNCHANGED <<company, changes, uploads>>

\* A newer period, or a correction of the last, is saved.
CompanyChanges ==
    /\ changes < MaxChanges
    /\ changes' = changes + 1
    /\ company' \in Period \ {company}
    /\ company'.end >= company.end
    /\ quiet' = 0
    /\ upload' = [upload EXCEPT !.fresh = FALSE]
    /\ UNCHANGED <<item, uploads>>

\* Somebody else adds a claim or takes one away.
OthersEdit ==
    /\ changes < MaxChanges
    /\ changes' = changes + 1
    /\ \/ \E c \in OthersClaim : item' = item \cup Numbered({<<c, 0>>})
       \/ \E e \in item : item' = item \ {e}
    /\ quiet' = 0
    /\ upload' = [upload EXCEPT !.fresh = FALSE]
    /\ UNCHANGED <<company, uploads>>

ClaimsNext ==
    \/ pushWikidata \/ getClaims \/ UploadFails \/ editEntity
    \/ CompanyChanges \/ OthersEdit

ClaimsSpec == ClaimsInit /\ [][ClaimsNext]_wvars

-----------------------------------------------------------------------------

Zero(e) == e.value = 0 /\ e.kind \in Categories \cup {"scope3"}

\* The item says what the company reports: each kind once with its value and period unless a
\* newer one is there, and the total.  Scope 3 claims of 0 are added and removed in turn.
ItemIsRight ==
    /\ \A c \in transformEmissionsToClaims(company) :
          \/ Zero(c)
          \/ \E e \in item : e.kind = c.kind /\ e.end > c.end
          \/ \E e \in item :
                /\ {f \in item : f.kind = c.kind /\ f.end = c.end} = {e}
                /\ e.start = c.start /\ e.value = c.value
    /\ transformEmissionsToClaims(company) # {} =>
          \E e \in item : e.kind = "total" /\ e.end = company.end
                          /\ e.value = calculateTotalEmissions(company)

\* An edit made from claims that are still those of the item replaces but does not lose: of each
\* kind and end that had a claim one is left, unless a scope 3 claim of 0 was among them.
NothingIsLost ==
    [][upload.at = "read" /\ upload'.at = "idle" /\ upload.seen = item =>
         \A e \in item :
            \/ \E f \in item' : f.kind = e.kind /\ f.end = e.end
            \/ \E z \in item : Zero(z) /\ z.kind = e.kind /\ z.end = e.end]_item

\* Two uploads that nothing disturbs settle the item, whatever went wrong or was added by others
\* before, and none loses a claim.
UploadsSettle == [](quiet >= 2 => ItemIsRight) /\ NothingIsLost
=============================================================================
