------------------------------ MODULE ListCache ------------------------------
(***************************************************************************)
(* GET /api/companies and the staff list read the whole list of companies  *)
(* through a Redis cache.  The list is kept under a fingerprint of the     *)
(* database (how many rows there are, how new the newest metadata is),     *)
(* taken before the list is read.  Requests that change companies write    *)
(* metadata first, or clear the cache afterwards, or clear it before, and  *)
(* nobody waits for a clear: it lists the keys and then deletes those.     *)
(* Readers, editors and clears overlap; Redis may fail at any call.        *)
(***************************************************************************)
EXTENDS Naturals, FiniteSets, FiniteSetsExt

CONSTANTS
    Readers, \* requests of the list
    Editors, \* requests that change companies
    MaxEdits \* bound: edits ever begun

ASSUME CacheAssumption == MaxEdits \in Nat

VARIABLES
    content, \* what the list says: one more with every change of it
    counted, \* how many companies, periods, links and emissions there are
    times,   \* updatedAt of the metadata there is
    cache,   \* Redis: entries [fp, content, sure]
    reader,
    editor,
    clears,  \* clears under way: the keys listed, or none yet
    edits    \* edits ever begun

cvars == <<content, counted, times, cache, reader, editor, clears, edits>>

\* Kinds of requests: a data point, goal or industry with new metadata; an update of a company
\* or its identifiers; a deletion; goals of a report replaced by none.
EditKinds == {"datapoint", "update", "delete", "replace"}

\* Mutant: only the rows are counted.
Mutant_Fingerprint == <<counted, 0>>

\* getCompaniesDatabaseFingerprint, one transaction.
Fingerprint == <<counted, Max(times \cup {0})>>

Free(p) == p.pc = "idle"
Rest == [pc |-> "idle"]
Editing == {e \in Editors : ~Free(editor[e])}
Quiescent == Editing = {} /\ clears = {}
Entries(fp) == {x \in cache : x.fp = fp}

CacheTypesOK ==
    /\ \A x \in cache : x.content <= content /\ \A y \in cache : x.fp = y.fp => x = y
    /\ times \subseteq 1..MaxEdits /\ edits \in 0..MaxEdits
    /\ \A r \in Readers : ~Free(reader[r]) => reader[r].pc \in {"data", "list", "store"}

-----------------------------------------------------------------------------
(***************************************************************************)
(* A request of the list.                                                  *)
(***************************************************************************)

SetReader(r, q) == reader' = [reader EXCEPT ![r] = q]
OtherEditors == UNCHANGED <<content, counted, times, editor, clears, edits>>

\* sure: no edit has been under way since the fingerprint was taken.
TakeFingerprint(r) ==
    /\ Free(reader[r])
    /\ SetReader(r, [pc |-> "data", fp |-> Fingerprint, content |-> 0, sure |-> Quiescent])
    /\ UNCHANGED cache /\ OtherEditors

\* A list that is there is sent; none is there, or Redis fails.
FindCached(r) ==
    /\ reader[r].pc = "data"
    /\ \/ Entries(reader[r].fp) # {} /\ SetReader(r, Rest)
       \/ SetReader(r, [reader[r] EXCEPT !.pc = "list"])
    /\ UNCHANGED cache /\ OtherEditors

\* getAllCompaniesForPublicRead
ReadList(r) ==
    /\ reader[r].pc = "list"
    /\ SetReader(r, [reader[r] EXCEPT !.pc = "store", !.content = content])
    /\ UNCHANGED cache /\ OtherEditors

\* The list is stored, unless Redis fails, and sent.
StoreList(r) ==
    /\ reader[r].pc = "store"
    /\ LET q == reader[r] IN
       cache' \in {cache, (cache \ Entries(q.fp)) \cup {[fp |-> q.fp, content |-> q.content, sure |-> q.sure]}}
    /\ SetReader(r, Rest) /\ OtherEditors

\* The request dies, or an entry is a day old.
StopReading(r) ==
    /\ ~Free(reader[r]) /\ SetReader(r, Rest) /\ UNCHANGED cache /\ OtherEditors
Expire ==
    /\ \E x \in cache : cache' = cache \ {x}
    /\ UNCHANGED reader /\ OtherEditors

-----------------------------------------------------------------------------
(***************************************************************************)
(* Edits.                                                                  *)
(***************************************************************************)

SetEditor(e, q) == editor' = [editor EXCEPT ![e] = q]

\* A list that is read while an edit is under way may be of before or after it.
Unsure == reader' = [r \in Readers |-> IF Free(reader[r]) THEN reader[r] ELSE [reader[r] EXCEPT !.sure = FALSE]]

\* What is cached is not to be relied upon any longer.
Spoil(S) == {IF x \in S THEN [x EXCEPT !.sure = FALSE] ELSE x : x \in cache}

\* redisCache.clear(), which nobody waits for; id tells the clears apart.
StartClear == clears' = clears \cup {[id |-> edits', keys |-> {}, listed |-> FALSE]}

\* The first step of each kind: metadata, the write, the clear.
BeginEdit(e) ==
    /\ Free(editor[e]) /\ edits < MaxEdits /\ edits' = edits + 1 /\ Unsure
    /\ \E kind \in EditKinds : SetEditor(e, [pc |-> IF kind = "datapoint" THEN "metadata" ELSE "write",
                                         kind |-> kind, id |-> edits + 1])
                           /\ IF kind = "delete" THEN StartClear ELSE UNCHANGED clears
    /\ UNCHANGED <<content, counted, times, cache>>

\* metadataService.createMetadata: the newest from here on.
CreateMetadata(e) ==
    /\ editor[e].pc = "metadata"
    /\ times' = times \cup {editor[e].id}
    /\ SetEditor(e, [editor[e] EXCEPT !.pc = "write"])
    /\ UNCHANGED <<content, counted, cache, reader, clears, edits>>

\* Mutant: an update clears nothing.
Mutant_Clears(kind) == FALSE

Clears(kind) == kind = "update"

\* The change itself.  A deletion may be of a row that is counted; what a replacement deletes
\* takes its metadata along; a creation adds rows that are counted.
Write(e) ==
    /\ editor[e].pc = "write"
    /\ LET kind == editor[e].kind IN
       /\ content' = content + 1
       /\ CASE kind = "delete" -> counted' \in {counted, counted - 1} /\ counted' >= 0 /\ UNCHANGED times
            [] kind = "replace" -> /\ UNCHANGED counted
                                   /\ \E t \in times \cup {0} : times' = times \ {t}
            [] OTHER -> counted' \in {counted, counted + 1} /\ UNCHANGED times
       \* Nobody hears of a replacement by nothing.
       /\ cache' = IF kind = "replace" THEN Spoil(cache) ELSE cache
       /\ clears' = IF Clears(kind)
                    THEN clears \cup {[id |-> editor[e].id, keys |-> {}, listed |-> FALSE]}
                    ELSE clears
    /\ SetEditor(e, Rest)
    /\ Unsure
    /\ UNCHANGED <<edits>>

\* The request fails before its write.
FailEdit(e) ==
    /\ ~Free(editor[e]) /\ SetEditor(e, Rest) /\ Unsure
    /\ UNCHANGED <<content, counted, times, cache, clears, edits>>

\* clear(): KEYS, and DEL of what they were.
ListKeys(c) ==
    /\ ~c.listed
    /\ clears' = (clears \ {c}) \cup {[c EXCEPT !.listed = TRUE, !.keys = {x.fp : x \in cache}]}
    /\ UNCHANGED <<content, counted, times, cache, reader, editor, edits>>
DeleteKeys(c) ==
    /\ c.listed /\ clears' = clears \ {c}
    /\ cache' = {x \in cache : x.fp \notin c.keys}
    /\ Unsure
    /\ UNCHANGED <<content, counted, times, editor, edits>>

\* Redis fails: the clear ends with a warning and everything stays.
LoseClear(c) ==
    /\ clears' = clears \ {c} /\ cache' = Spoil(cache) /\ Unsure
    /\ UNCHANGED <<content, counted, times, editor, edits>>

-----------------------------------------------------------------------------

CacheInit ==
    /\ content = 0 /\ counted = 1 /\ times = {} /\ cache = {} /\ clears = {} /\ edits = 0
    /\ reader = [r \in Readers |-> Rest] /\ editor = [e \in Editors |-> Rest]

CacheNext ==
    \/ \E r \in Readers : \/ TakeFingerprint(r) \/ FindCached(r) \/ ReadList(r)
                          \/ StoreList(r) \/ StopReading(r)
    \/ \E e \in Editors : BeginEdit(e) \/ CreateMetadata(e) \/ Write(e) \/ FailEdit(e)
    \/ \E c \in clears : ListKeys(c) \/ DeleteKeys(c) \/ LoseClear(c)
    \/ Expire

CacheSpec == CacheInit /\ [][CacheNext]_cvars

-----------------------------------------------------------------------------
(***************************************************************************)
(* Properties.                                                             *)
(***************************************************************************)

\* When no edit and no clear is under way, the list that is cached for the database as it is
\* says what the database says, if it was read while no edit was under way, and since then no
\* clear has failed and no report's goals have been replaced by none.
CachedIsCurrent ==
    Quiescent => \A x \in Entries(Fingerprint) : x.sure => x.content = content
=============================================================================
