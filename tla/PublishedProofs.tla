-------------------------- MODULE PublishedProofs --------------------------
(***************************************************************************)
(* What is proved of what the API publishes:                               *)
(*                                                                         *)
(*   ListCache        the cached list of companies is the list of now;     *)
(*   ReportRegistry,  a save which answers ok has put its year where the   *)
(*   RegistryUpkeep   answer says, and one pass of the dedupe script is    *)
(*                    enough;                                              *)
(*   ApiKeys          no key gets more than two quotas in the length of a  *)
(*                    window, trial keys are limited, and the seed takes   *)
(*                    no access away;                                      *)
(*   EmissionTotals   totals count once, changes and trends compare like   *)
(*                    with like;                                           *)
(*   WikidataClaims   two uploads settle an item, and none loses a claim;  *)
(*                                                                         *)
(* and that each of them keeps to its types.                               *)
(***************************************************************************)
EXTENDS Published, FiniteSetTheorems, WellFoundedInduction, TLAPS

Fingerprints == Nat \X Nat
Reading == [pc: {"data", "list", "store"}, fp: Fingerprints, content: Nat, sure: BOOLEAN]
Edit == [pc: {"metadata", "write"}, kind: EditKinds, id: Nat]

CacheShapes ==
    /\ content \in Nat /\ counted \in Nat /\ edits \in Nat /\ times \subseteq 1..edits
    /\ cache \subseteq [fp: Fingerprints, content: Nat, sure: BOOLEAN]
    /\ reader \in [Readers -> {Rest} \cup Reading]
    /\ editor \in [Editors -> {Rest} \cup Edit] /\ \A e \in Editing : editor[e].id \in 1..edits
    /\ clears \subseteq [id: Nat, keys: SUBSET Fingerprints, listed: BOOLEAN]

\* What is under a fingerprint was there before the next edit began.
NotOfTheFuture ==
    /\ \A x \in cache : x.fp[2] <= edits
    /\ \A r \in Readers : ~Free(reader[r]) => reader[r].fp[2] <= edits

Newest == Max(times \cup {0})

ToBeCleared(x) == \E c \in clears : ~c.listed \/ x.fp \in c.keys

\* A request that is sure has the fingerprint and the list of now.
SureReaders ==
    \A r \in Readers : ~Free(reader[r]) /\ reader[r].sure =>
        /\ Quiescent /\ reader[r].fp = Fingerprint
        /\ reader[r].pc = "store" => reader[r].content = content

\* A sure entry is older than every edit under way, and will be told from what the edit makes:
\* by the metadata it has written, or because a clear is on its way.
EditsShow ==
    \A e \in Editing, x \in cache : x.sure =>
        /\ x.fp[2] < editor[e].id
        /\ editor[e].kind = "datapoint" /\ editor[e].pc = "write" => editor[e].id \in times
        /\ editor[e].kind = "delete" => ToBeCleared(x)

\* A sure entry that is not of now can be told from what is now, or is to be cleared.
StaleShow == \A x \in cache : x.sure => x.content = content \/ x.fp[2] < Newest \/ ToBeCleared(x)

CacheInv == CacheShapes /\ NotOfTheFuture /\ SureReaders /\ EditsShow /\ StaleShow

-----------------------------------------------------------------------------

\* A set of numbers up to n has a greatest one, or is empty.
LEMMA GreatestOf ==
    ASSUME NEW n \in Nat, NEW T, T \subseteq 1..n
    PROVE  Max(T \cup {0}) \in T \cup {0} /\ \A t \in T \cup {0} : t <= Max(T \cup {0})
<1>. DEFINE S == T \cup {0}
            D == {d \in Nat : n - d \in S}
            R == {p \in Nat \X Nat : p[1] < p[2]}
<1>0. S \subseteq 0..n /\ 0 \in S
  OBVIOUS
<1>1. D # {}
  <2>1. n \in D
    BY <1>0
  <2>. QED
    BY <2>1
<1>2. IsWellFoundedOn(R, Nat)
  BY NatLessThanWellFounded DEF OpToRel
<1>3. PICK d \in D : \A e \in D : ~(<<e, d>> \in R)
  BY <1>1, <1>2, WFMin
<1>4. n - d \in S
  OBVIOUS
<1>5. ASSUME NEW y \in S PROVE n - d >= y
  <2>1. y \in 0..n /\ n - y \in Nat /\ n - (n - y) = y
    BY <1>0
  <2>2. n - y \in D
    BY <2>1
  <2>3. ~(<<n - y, d>> \in R)
    BY <1>3, <2>2
  <2>4. ~(n - y < d)
    BY <2>1, <2>3
  <2>. QED
    BY <2>1, <2>4
<1>6. \E x \in S : \A y \in S : x >= y
  BY <1>4, <1>5
<1>7. Max(S) \in S /\ \A y \in S : Max(S) >= y
  BY <1>6 DEF Max
<1>. QED
  BY <1>0, <1>7

\* The second half of a fingerprint is the newest metadata there is.
LEMMA FingerprintIsOfNow ==
    ASSUME CacheShapes
    PROVE  Newest \in Nat /\ Newest <= edits /\ Fingerprint \in Fingerprints /\ Fingerprint[2] = Newest
           /\ \A t \in times : t <= Newest
<1>1. Newest \in times \cup {0} /\ \A t \in times \cup {0} : t <= Newest
  BY GreatestOf DEF CacheShapes, Newest
<1>2. Newest \in Nat /\ Newest <= edits
  BY <1>1 DEF CacheShapes
<1>3. Fingerprint = <<counted, Newest>>
  BY DEF Fingerprint, Newest
<1>. QED
  BY <1>1, <1>2, <1>3 DEF CacheShapes, Fingerprints

LEMMA CacheInvInit == CacheInit => CacheInv
<1>. SUFFICES ASSUME CacheInit PROVE CacheInv
  OBVIOUS
<1>1. CacheShapes
  BY DEF CacheInit, CacheShapes, Editing, Free, Rest
<1>. QED
  BY <1>1 DEF CacheInit, CacheInv, NotOfTheFuture, SureReaders, EditsShow, StaleShow, Free, Rest, Editing

-----------------------------------------------------------------------------

LEMMA ReadingStep ==
    ASSUME CacheInv, NEW r \in Readers,
           TakeFingerprint(r) \/ FindCached(r) \/ ReadList(r) \/ StoreList(r) \/ StopReading(r)
    PROVE  CacheInv'
<1>. USE DEF CacheInv
<1>. DEFINE q == reader'[r]
            now == UNCHANGED <<content, counted, times, editor, clears, edits>>
<1>1. now /\ Newest' = Newest /\ Fingerprint' = Fingerprint /\ Editing' = Editing /\ Quiescent' = Quiescent
  BY DEF TakeFingerprint, FindCached, ReadList, StoreList, StopReading, OtherEditors, Newest, Fingerprint, Quiescent,
         Editing
<1>2. /\ q \in {Rest} \cup Reading /\ reader' = [reader EXCEPT ![r] = q]
      /\ ~Free(q) => q.fp[2] <= edits
      /\ ~Free(q) /\ q.sure => /\ Quiescent /\ q.fp = Fingerprint
                               /\ q.pc = "store" => q.content = content
  <2>1. CASE TakeFingerprint(r)
    <3>1. q = [pc |-> "data", fp |-> Fingerprint, content |-> 0, sure |-> Quiescent] /\ reader' = [reader EXCEPT ![r] = q]
      BY <2>1 DEF TakeFingerprint, SetReader, CacheShapes
    <3>2. q \in Reading /\ q.fp = Fingerprint /\ q.sure = Quiescent /\ q.pc = "data"
      BY <3>1, FingerprintIsOfNow DEF Reading, Quiescent
    <3>. HIDE DEF q
    <3>. QED
      BY <3>1, <3>2, FingerprintIsOfNow
  <2>2. CASE FindCached(r) \/ StopReading(r)
    <3>1. reader' = [reader EXCEPT ![r] = q] /\ (q = Rest \/ (q = [reader[r] EXCEPT !.pc = "list"] /\ reader[r].pc = "data"))
      <4>1. reader' = [reader EXCEPT ![r] = Rest] \/ reader' = [reader EXCEPT ![r] = [reader[r] EXCEPT !.pc = "list"]]
        BY <2>2 DEF FindCached, StopReading, SetReader
      <4>2. reader[r].pc = "data" \/ reader' = [reader EXCEPT ![r] = Rest]
        BY <2>2 DEF FindCached, StopReading, SetReader
      <4>3. reader \in [Readers -> {Rest} \cup Reading]
        BY DEF CacheShapes
      <4>4. q = Rest \/ q = [reader[r] EXCEPT !.pc = "list"]
        BY <4>1, <4>3
      <4>5. reader' = [reader EXCEPT ![r] = q]
        BY <4>1, <4>3
      <4>6. reader[r].pc # "data" => q = Rest
        BY <4>2, <4>3
      <4>. QED
        BY <4>4, <4>5, <4>6
    <3>2. CASE q = Rest
      BY <3>1, <3>2 DEF Rest, Free
    <3>3. CASE q = [reader[r] EXCEPT !.pc = "list"] /\ reader[r].pc = "data"
      <4>1. reader[r] \in Reading
        BY <3>3 DEF CacheShapes, Rest
      <4>2. q \in Reading /\ q.pc = "list" /\ q.fp = reader[r].fp /\ q.sure = reader[r].sure
        BY <3>3, <4>1 DEF Reading
      <4>. QED
        BY <3>1, <3>3, <4>1, <4>2 DEF NotOfTheFuture, SureReaders, Free
    <3>. QED
      BY <3>1, <3>2, <3>3
  <2>3. CASE ReadList(r)
    <3>1. reader' = [reader EXCEPT ![r] = q] /\ q = [reader[r] EXCEPT !.pc = "store", !.content = content] /\ reader[r].pc = "list"
      BY <2>3 DEF ReadList, SetReader, CacheShapes
    <3>2. reader[r] \in Reading
      BY <3>1 DEF CacheShapes, Rest
    <3>3. q \in Reading /\ q.content = content /\ q.fp = reader[r].fp /\ q.sure = reader[r].sure
      BY <3>1, <3>2 DEF Reading, CacheShapes
    <3>. QED
      BY <3>1, <3>2, <3>3 DEF NotOfTheFuture, SureReaders, Free
  <2>4. CASE StoreList(r)
    <3>1. reader' = [reader EXCEPT ![r] = q] /\ q = Rest
      BY <2>4 DEF StoreList, SetReader, CacheShapes
    <3>. QED
      BY <3>1 DEF Rest, Free
  <2>. QED
    BY <2>1, <2>2, <2>3, <2>4
<1>. HIDE DEF q
\* What the cache has then: what it had, or the list of a sure request.
<1>3. \A x \in cache' : \/ x \in cache
                        \/ /\ x \in [fp: Fingerprints, content: Nat, sure: BOOLEAN] /\ x.fp[2] <= edits
                           /\ x.sure => Quiescent /\ x.content = content
  <2>1. CASE StoreList(r)
    <3>. DEFINE x == [fp |-> reader[r].fp, content |-> reader[r].content, sure |-> reader[r].sure]
    <3>1. reader[r] \in Reading /\ ~Free(reader[r])
      BY <2>1 DEF StoreList, CacheShapes, Rest, Free
    <3>2. \A y \in cache' : y \in cache \/ y = x
      BY <2>1 DEF StoreList
    <3>3. x \in [fp: Fingerprints, content: Nat, sure: BOOLEAN] /\ x.fp[2] <= edits
      BY <3>1 DEF Reading, NotOfTheFuture
    <3>4. x.sure => Quiescent /\ x.content = content
      BY <2>1, <3>1 DEF SureReaders, StoreList
    <3>. HIDE DEF x
    <3>. QED
      BY <3>2, <3>3, <3>4
  <2>2. CASE ~StoreList(r)
    BY <2>2 DEF TakeFingerprint, FindCached, ReadList, StopReading
  <2>. QED
    BY <2>1, <2>2
<1>4. CacheShapes'
  BY <1>1, <1>2, <1>3 DEF CacheShapes
<1>5. NotOfTheFuture'
  BY <1>1, <1>2, <1>3 DEF NotOfTheFuture, CacheShapes
<1>6. SureReaders'
  <2>. SUFFICES ASSUME NEW s \in Readers, ~Free(reader'[s]), reader'[s].sure
                PROVE  /\ Quiescent /\ reader'[s].fp = Fingerprint
                       /\ reader'[s].pc = "store" => reader'[s].content = content
    BY <1>1 DEF SureReaders
  <2>1. CASE s = r
    BY <1>2, <2>1 DEF q
  <2>2. CASE s # r
    <3>1. reader'[s] = reader[s]
      BY <1>2, <2>2 DEF CacheShapes
    <3>. QED
      BY <3>1 DEF SureReaders
  <2>. QED
    BY <2>1, <2>2
<1>7. EditsShow'
  BY <1>1, <1>3 DEF EditsShow, ToBeCleared, Quiescent
<1>8. StaleShow'
  BY <1>1, <1>3 DEF StaleShow, ToBeCleared
<1>. QED
  BY <1>4, <1>5, <1>6, <1>7, <1>8

-----------------------------------------------------------------------------

\* After a write or a failure no request of the list is sure.
LEMMA UnsureAreUnsure ==
    ASSUME CacheShapes, Unsure
    PROVE  /\ reader' \in [Readers -> {Rest} \cup Reading]
           /\ \A r \in Readers : ~Free(reader'[r]) => ~reader'[r].sure /\ ~Free(reader[r]) /\ reader'[r].fp = reader[r].fp
<1>1. ASSUME NEW r \in Readers
      PROVE  LET q == IF Free(reader[r]) THEN reader[r] ELSE [reader[r] EXCEPT !.sure = FALSE]
             IN /\ q \in {Rest} \cup Reading
                /\ ~Free(q) => ~q.sure /\ ~Free(reader[r]) /\ q.fp = reader[r].fp
  <2>1. CASE Free(reader[r])
    BY <2>1 DEF CacheShapes
  <2>2. CASE ~Free(reader[r])
    <3>1. reader[r] \in Reading
      BY <2>2 DEF CacheShapes, Free, Rest
    <3>. QED
      BY <2>2, <3>1 DEF Reading
  <2>. QED
    BY <2>1, <2>2
<1>. QED
  BY <1>1 DEF Unsure

\* What is spoilt is not sure.
LEMMA SpoiltIsNotSure ==
    ASSUME CacheShapes
    PROVE  \A x \in Spoil(cache) : /\ ~x.sure /\ x \in [fp: Fingerprints, content: Nat, sure: BOOLEAN]
                                   /\ \E y \in cache : x.fp = y.fp
  BY DEF Spoil, CacheShapes

LEMMA EditingStep ==
    ASSUME CacheInv, NEW e \in Editors, BeginEdit(e) \/ CreateMetadata(e) \/ Write(e) \/ FailEdit(e)
    PROVE  CacheInv'
<1>. USE DEF CacheInv
<1>1. CASE BeginEdit(e)
  <2>1. PICK kind \in EditKinds :
           /\ editor' = [editor EXCEPT ![e] = [pc |-> IF kind = "datapoint" THEN "metadata" ELSE "write",
                                              kind |-> kind, id |-> edits + 1]]
           /\ IF kind = "delete" THEN StartClear ELSE UNCHANGED clears
    BY <1>1 DEF BeginEdit, SetEditor
  <2>. DEFINE q == [pc |-> IF kind = "datapoint" THEN "metadata" ELSE "write", kind |-> kind, id |-> edits + 1]
  <2>2. /\ edits' = edits + 1 /\ UNCHANGED <<content, counted, times, cache>> /\ Unsure
        /\ Newest' = Newest
    BY <1>1 DEF BeginEdit, Newest
  <2>3. q \in Edit /\ q.id = edits + 1 /\ (q.kind = "datapoint" => q.pc # "write") /\ (q.kind = "delete" => kind = "delete")
    BY DEF Edit, CacheShapes
  <2>4. editor' = [editor EXCEPT ![e] = q]
    BY <2>1
  <2>. HIDE DEF q
  <2>5. clears' \subseteq [id: Nat, keys: SUBSET Fingerprints, listed: BOOLEAN] /\ clears \subseteq clears'
    <3>. DEFINE c == [id |-> edits + 1, keys |-> {}, listed |-> FALSE]
    <3>1. clears' = clears \cup {c} \/ clears' = clears
      BY <2>1, <2>2 DEF StartClear
    <3>2. c \in [id: Nat, keys: SUBSET Fingerprints, listed: BOOLEAN]
      BY DEF CacheShapes
    <3>. HIDE DEF c
    <3>. QED
      BY <3>1, <3>2 DEF CacheShapes
  <2>6. kind = "delete" => \E c \in clears' : ~c.listed
    <3>. DEFINE c == [id |-> edits', keys |-> {}, listed |-> FALSE]
    <3>1. kind = "delete" => c \in clears'
      BY <2>1 DEF StartClear
    <3>2. ~c.listed
      OBVIOUS
    <3>. QED
      BY <3>1, <3>2
  <2>7. CacheShapes'
    <3>1. editor' \in [Editors -> {Rest} \cup Edit]
      BY <2>3, <2>4 DEF CacheShapes
    <3>2. ASSUME NEW d \in Editors, ~Free(editor'[d]) PROVE editor'[d].id \in 1..edits'
      <4>1. editor'[d] = IF d = e THEN q ELSE editor[d]
        BY <2>4 DEF CacheShapes
      <4>. QED
        BY <2>2, <2>3, <3>2, <4>1 DEF CacheShapes, Editing
    <3>. QED
      BY <2>2, <2>5, <3>1, <3>2, UnsureAreUnsure DEF CacheShapes, Editing
  <2>8. NotOfTheFuture'
    <3>1. \A x \in cache : x.fp[2] \in Nat
      BY DEF CacheShapes, Fingerprints
    <3>2. \A r \in Readers : ~Free(reader[r]) => reader[r].fp[2] \in Nat
      BY DEF CacheShapes, Fingerprints, Reading, Free, Rest
    <3>. QED
      BY <2>2, <3>1, <3>2, UnsureAreUnsure DEF NotOfTheFuture, CacheShapes
  <2>9. SureReaders'
    BY <2>2, UnsureAreUnsure DEF SureReaders
  <2>10. ASSUME NEW x \in cache PROVE ToBeCleared(x) => ToBeCleared(x)'
    BY <2>5 DEF ToBeCleared
  <2>11. EditsShow'
    <3>. SUFFICES ASSUME NEW d \in Editors, ~Free(editor'[d]), NEW x \in cache, x.sure
                  PROVE  /\ x.fp[2] < editor'[d].id
                         /\ editor'[d].kind = "datapoint" /\ editor'[d].pc = "write" => editor'[d].id \in times
                         /\ editor'[d].kind = "delete" => ToBeCleared(x)'
      BY <2>2 DEF EditsShow, Editing
    <3>1. CASE d = e
      <4>1. editor'[d] = q
        BY <2>4, <3>1 DEF CacheShapes
      <4>2. x.fp[2] < edits + 1
        BY DEF NotOfTheFuture, CacheShapes, Fingerprints
      <4>3. q.kind = "delete" => ToBeCleared(x)'
        BY <2>3, <2>6 DEF ToBeCleared
      <4>. QED
        BY <2>3, <4>1, <4>2, <4>3
    <3>2. CASE d # e
      <4>1. editor'[d] = editor[d]
        BY <2>4, <3>2 DEF CacheShapes
      <4>. QED
        BY <2>10, <4>1 DEF EditsShow, Editing
    <3>. QED
      BY <3>1, <3>2
  <2>12. StaleShow'
    BY <2>2, <2>10 DEF StaleShow
  <2>. QED
    BY <2>7, <2>8, <2>9, <2>11, <2>12
<1>2. CASE CreateMetadata(e)
  <2>. DEFINE q == [editor[e] EXCEPT !.pc = "write"]
  <2>1. /\ times' = times \cup {editor[e].id} /\ editor' = [editor EXCEPT ![e] = q] /\ editor[e].pc = "metadata"
        /\ UNCHANGED <<content, counted, cache, reader, clears, edits>>
    BY <1>2 DEF CreateMetadata, SetEditor
  <2>2. editor[e] \in Edit
    BY <2>1 DEF CacheShapes, Rest
  <2>3. q \in Edit /\ q.id = editor[e].id /\ q.kind = editor[e].kind /\ ~Free(q)
    BY <2>2 DEF Edit, Free
  <2>. HIDE DEF q
  <2>4. e \in Editing /\ ~Quiescent /\ Editing' = Editing
    BY <2>1, <2>2, <2>3 DEF Editing, Free, Quiescent, CacheShapes
  <2>5. CacheShapes'
    <3>1. editor' \in [Editors -> {Rest} \cup Edit]
      BY <2>1, <2>3 DEF CacheShapes
    <3>2. \A d \in Editing : editor'[d].id \in 1..edits
      BY <2>1, <2>3 DEF CacheShapes, Editing
    <3>3. times' \subseteq 1..edits
      BY <2>1, <2>4 DEF CacheShapes
    <3>. QED
      BY <2>1, <2>4, <3>1, <3>2, <3>3 DEF CacheShapes
  <2>6. Newest <= Newest' /\ Newest \in Nat /\ Newest' \in Nat
    <3>1. Newest \in times \cup {0} /\ Newest' \in times' \cup {0} /\ \A t \in times' \cup {0} : t <= Newest'
      BY <2>5, GreatestOf DEF CacheShapes, Newest
    <3>. QED
      BY <2>1, <2>5, <3>1 DEF CacheShapes
  <2>7. NotOfTheFuture' /\ SureReaders'
    BY <2>1, <2>4 DEF NotOfTheFuture, SureReaders
  <2>8. EditsShow'
    <3>. SUFFICES ASSUME NEW d \in Editing, NEW x \in cache, x.sure
                  PROVE  /\ x.fp[2] < editor'[d].id
                         /\ editor'[d].kind = "datapoint" /\ editor'[d].pc = "write" => editor'[d].id \in times'
                         /\ editor'[d].kind = "delete" => ToBeCleared(x)'
      BY <2>1, <2>4 DEF EditsShow
    <3>1. editor'[d] = IF d = e THEN q ELSE editor[d]
      BY <2>1 DEF CacheShapes, Editing
    <3>2. ToBeCleared(x)' = ToBeCleared(x)
      BY <2>1 DEF ToBeCleared
    <3>. QED
      BY <2>1, <2>3, <2>4, <3>1, <3>2 DEF EditsShow
  <2>9. StaleShow'
    <3>. SUFFICES ASSUME NEW x \in cache, x.sure PROVE (x.content = content \/ x.fp[2] < Newest \/ ToBeCleared(x))'
      BY <2>1 DEF StaleShow
    <3>1. x.fp[2] \in Nat
      BY DEF CacheShapes, Fingerprints
    <3>2. ToBeCleared(x)' = ToBeCleared(x)
      BY <2>1 DEF ToBeCleared
    <3>. QED
      BY <2>1, <2>6, <3>1, <3>2 DEF StaleShow
  <2>. QED
    BY <2>5, <2>7, <2>8, <2>9
<1>3. CASE FailEdit(e)
  <2>1. /\ editor' = [editor EXCEPT ![e] = Rest] /\ Unsure
        /\ UNCHANGED <<content, counted, times, cache, clears, edits>>
    BY <1>3 DEF FailEdit, SetEditor
  <2>2. Editing' \subseteq Editing /\ \A d \in Editing' : editor'[d] = editor[d]
    BY <2>1 DEF Editing, CacheShapes, Free, Rest
  <2>3. CacheShapes'
    <3>1. editor' \in [Editors -> {Rest} \cup Edit]
      BY <2>1 DEF CacheShapes
    <3>. QED
      BY <2>1, <2>2, <3>1, UnsureAreUnsure DEF CacheShapes
  <2>4. NotOfTheFuture' /\ SureReaders'
    BY <2>1, UnsureAreUnsure DEF NotOfTheFuture, SureReaders
  <2>5. EditsShow'
    BY <2>1, <2>2 DEF EditsShow, ToBeCleared
  <2>6. StaleShow'
    BY <2>1 DEF StaleShow, ToBeCleared, Newest
  <2>. QED
    BY <2>3, <2>4, <2>5, <2>6
<1>4. CASE Write(e)
  <2>. DEFINE kind == editor[e].kind
  <2>1. /\ editor' = [editor EXCEPT ![e] = Rest] /\ Unsure /\ edits' = edits /\ content' = content + 1
        /\ editor[e].pc = "write"
        /\ cache' = IF kind = "replace" THEN Spoil(cache) ELSE cache
    BY <1>4 DEF Write, SetEditor
  <2>2. editor[e] \in Edit /\ e \in Editing /\ ~Quiescent
    BY <2>1 DEF CacheShapes, Rest, Editing, Free, Quiescent
  <2>3. counted' \in Nat
    <3>1. CASE kind = "delete"
      BY <1>4, <3>1 DEF Write, CacheShapes
    <3>2. CASE kind = "replace"
      BY <1>4, <3>2 DEF Write, CacheShapes
    <3>3. CASE kind \notin {"delete", "replace"}
      BY <1>4, <3>3 DEF Write, CacheShapes
    <3>. QED
      BY <3>1, <3>2, <3>3
  <2>4. times' \subseteq times /\ (kind # "replace" => times' = times)
    <3>1. CASE kind = "delete"
      BY <1>4, <3>1 DEF Write
    <3>2. CASE kind = "replace"
      BY <1>4, <3>2 DEF Write
    <3>3. CASE kind \notin {"delete", "replace"}
      BY <1>4, <3>3 DEF Write
    <3>. QED
      BY <3>1, <3>2, <3>3
  <2>5. /\ clears \subseteq clears' /\ clears' \subseteq [id: Nat, keys: SUBSET Fingerprints, listed: BOOLEAN]
        /\ kind = "update" => \E c \in clears' : ~c.listed
    <3>. DEFINE c == [id |-> editor[e].id, keys |-> {}, listed |-> FALSE]
    <3>1. clears' = IF kind = "update" THEN clears \cup {c} ELSE clears
      BY <1>4 DEF Write, Clears
    <3>2. c \in [id: Nat, keys: SUBSET Fingerprints, listed: BOOLEAN] /\ ~c.listed
      BY <2>2 DEF Edit
    <3>. HIDE DEF c
    <3>. QED
      BY <3>1, <3>2 DEF CacheShapes
  <2>6. \A x \in cache' : /\ x \in [fp: Fingerprints, content: Nat, sure: BOOLEAN]
                          /\ \E y \in cache : x.fp = y.fp
                          /\ x.sure => x \in cache /\ kind # "replace"
    BY <2>1, SpoiltIsNotSure DEF CacheShapes
  <2>7. Editing' \subseteq Editing /\ \A d \in Editing' : editor'[d] = editor[d]
    BY <2>1 DEF Editing, CacheShapes, Free, Rest
  <2>8. CacheShapes'
    <3>1. editor' \in [Editors -> {Rest} \cup Edit]
      BY <2>1 DEF CacheShapes
    <3>2. cache' \subseteq [fp: Fingerprints, content: Nat, sure: BOOLEAN]
      BY <2>6
    <3>. QED
      BY <2>1, <2>3, <2>4, <2>5, <2>7, <3>1, <3>2, UnsureAreUnsure DEF CacheShapes
  <2>9. NotOfTheFuture' /\ SureReaders'
    BY <2>1, <2>6, UnsureAreUnsure DEF NotOfTheFuture, SureReaders
  <2>10. ASSUME NEW x \in cache PROVE ToBeCleared(x) => ToBeCleared(x)'
    BY <2>5 DEF ToBeCleared
  <2>11. EditsShow'
    <3>. SUFFICES ASSUME NEW d \in Editing', NEW x \in cache', x.sure
                  PROVE  /\ x.fp[2] < editor[d].id
                         /\ editor[d].kind = "datapoint" /\ editor[d].pc = "write" => editor[d].id \in times'
                         /\ editor[d].kind = "delete" => ToBeCleared(x)'
      BY <2>7 DEF EditsShow
    <3>1. x \in cache /\ times' = times /\ d \in Editing
      BY <2>4, <2>6, <2>7
    <3>. QED
      BY <2>10, <3>1 DEF EditsShow
  <2>12. StaleShow'
    <3>. SUFFICES ASSUME NEW x \in cache', x.sure PROVE x.fp[2] < Newest' \/ ToBeCleared(x)'
      BY DEF StaleShow
    <3>1. x \in cache /\ kind # "replace" /\ times' = times
      BY <2>4, <2>6
    <3>2. CASE kind = "datapoint"
      <4>1. x.fp[2] < editor[e].id /\ editor[e].id \in times
        BY <2>1, <2>2, <3>1, <3>2 DEF EditsShow
      <4>2. Newest' = Newest /\ Newest \in Nat /\ editor[e].id <= Newest /\ editor[e].id \in Nat /\ x.fp[2] \in Nat
        BY <2>2, <3>1, <4>1, FingerprintIsOfNow DEF Newest, Edit, CacheShapes, Fingerprints
      <4>. QED
        BY <4>1, <4>2
    <3>3. CASE kind = "delete"
      BY <2>2, <2>10, <3>1, <3>3 DEF EditsShow
    <3>4. CASE kind = "update"
      BY <2>5, <3>4 DEF ToBeCleared
    <3>. QED
      BY <2>2, <3>1, <3>2, <3>3, <3>4 DEF Edit, EditKinds
  <2>. QED
    BY <2>8, <2>9, <2>11, <2>12
<1>. QED
  BY <1>1, <1>2, <1>3, <1>4

LEMMA ClearingStep ==
    ASSUME CacheInv, NEW c \in clears, ListKeys(c) \/ DeleteKeys(c) \/ LoseClear(c)
    PROVE  CacheInv'
<1>. USE DEF CacheInv
<1>1. UNCHANGED <<content, counted, times, editor, edits>> /\ Newest' = Newest /\ Editing' = Editing /\ ~Quiescent
  BY DEF ListKeys, DeleteKeys, LoseClear, Newest, Editing, Quiescent
<1>2. c \in [id: Nat, keys: SUBSET Fingerprints, listed: BOOLEAN]
  BY DEF CacheShapes
<1>3. clears' \subseteq [id: Nat, keys: SUBSET Fingerprints, listed: BOOLEAN]
  <2>1. CASE ListKeys(c)
    <3>. DEFINE d == [c EXCEPT !.listed = TRUE, !.keys = {x.fp : x \in cache}]
    <3>1. clears' = (clears \ {c}) \cup {d}
      BY <2>1 DEF ListKeys
    <3>2. {x.fp : x \in cache} \subseteq Fingerprints
      BY DEF CacheShapes
    <3>3. d \in [id: Nat, keys: SUBSET Fingerprints, listed: BOOLEAN]
      BY <1>2, <3>2
    <3>. HIDE DEF d
    <3>. QED
      BY <3>1, <3>3 DEF CacheShapes
  <2>2. CASE DeleteKeys(c) \/ LoseClear(c)
    BY <2>2 DEF DeleteKeys, LoseClear, CacheShapes
  <2>. QED
    BY <2>1, <2>2
<1>4. \A x \in cache' : /\ x \in [fp: Fingerprints, content: Nat, sure: BOOLEAN]
                        /\ \E y \in cache : x.fp = y.fp
                        /\ x.sure => x \in cache
  BY SpoiltIsNotSure DEF ListKeys, DeleteKeys, LoseClear, CacheShapes
<1>5. UNCHANGED reader \/ Unsure
  BY DEF ListKeys, DeleteKeys, LoseClear
<1>6. ASSUME NEW x \in cache', x.sure, ToBeCleared(x) PROVE ToBeCleared(x)'
  <2>1. PICK d \in clears : ~d.listed \/ x.fp \in d.keys
    BY <1>6 DEF ToBeCleared
  <2>2. CASE ListKeys(c)
    <3>. DEFINE d2 == [c EXCEPT !.listed = TRUE, !.keys = {y.fp : y \in cache}]
    <3>1. clears' = (clears \ {c}) \cup {d2}
      BY <2>2 DEF ListKeys
    <3>2. d2.keys = {y.fp : y \in cache}
      BY <1>2
    <3>. HIDE DEF d2
    <3>3. x.fp \in d2.keys
      BY <1>4, <1>6, <3>2
    <3>. QED
      BY <3>1, <3>3 DEF ToBeCleared
  <2>3. CASE DeleteKeys(c)
    <3>1. d # c /\ clears' = clears \ {c}
      BY <2>1, <2>3 DEF DeleteKeys
    <3>. QED
      BY <2>1, <3>1 DEF ToBeCleared
  <2>4. CASE LoseClear(c)
    BY <1>6, <2>4, SpoiltIsNotSure DEF LoseClear
  <2>. QED
    BY <2>2, <2>3, <2>4
<1>7. CacheShapes'
  <2>1. reader' \in [Readers -> {Rest} \cup Reading]
    BY <1>5, UnsureAreUnsure DEF CacheShapes
  <2>2. cache' \subseteq [fp: Fingerprints, content: Nat, sure: BOOLEAN]
    BY <1>4
  <2>. QED
    BY <1>1, <1>3, <2>1, <2>2 DEF CacheShapes
<1>8. NotOfTheFuture'
  BY <1>1, <1>4, <1>5, UnsureAreUnsure DEF NotOfTheFuture
<1>9. SureReaders'
  BY <1>1, <1>5, UnsureAreUnsure DEF SureReaders
<1>10. EditsShow'
  BY <1>1, <1>4, <1>6 DEF EditsShow
<1>11. StaleShow'
  BY <1>1, <1>4, <1>6 DEF StaleShow
<1>. QED
  BY <1>7, <1>8, <1>9, <1>10, <1>11

LEMMA CacheInvStep == CacheInv /\ [CacheNext]_cvars => CacheInv'
<1>. SUFFICES ASSUME CacheInv, [CacheNext]_cvars PROVE CacheInv'
  OBVIOUS
<1>1. CASE Expire
  <2>1. cache' \subseteq cache /\ UNCHANGED <<reader, content, counted, times, editor, clears, edits>>
    BY <1>1 DEF Expire, OtherEditors
  <2>2. CacheShapes' /\ NotOfTheFuture'
    BY <2>1 DEF CacheInv, CacheShapes, NotOfTheFuture, Editing
  <2>3. SureReaders'
    BY <2>1 DEF CacheInv, SureReaders, Quiescent, Editing, Fingerprint
  <2>4. EditsShow'
    BY <2>1 DEF CacheInv, EditsShow, Editing, ToBeCleared
  <2>5. StaleShow'
    BY <2>1 DEF CacheInv, StaleShow, ToBeCleared, Newest
  <2>. QED
    BY <2>2, <2>3, <2>4, <2>5 DEF CacheInv
<1>2. CASE UNCHANGED cvars
  <2>1. UNCHANGED <<cache, reader, content, counted, times, editor, clears, edits>>
    BY <1>2 DEF cvars
  <2>2. CacheShapes' /\ NotOfTheFuture'
    BY <2>1 DEF CacheInv, CacheShapes, NotOfTheFuture, Editing
  <2>3. SureReaders'
    BY <2>1 DEF CacheInv, SureReaders, Quiescent, Editing, Fingerprint
  <2>4. EditsShow' /\ StaleShow'
    BY <2>1 DEF CacheInv, EditsShow, StaleShow, ToBeCleared, Newest, Editing
  <2>. QED
    BY <2>2, <2>3, <2>4 DEF CacheInv
<1>. QED
  BY <1>1, <1>2, ReadingStep, EditingStep, ClearingStep DEF CacheNext

LEMMA CacheInvImplies == CacheInv => CachedIsCurrent
<1>. SUFFICES ASSUME CacheInv, Quiescent, NEW x \in Entries(Fingerprint), x.sure PROVE x.content = content
  BY DEF CachedIsCurrent
<1>1. x \in cache /\ x.fp = Fingerprint
  BY DEF Entries
<1>2. x.fp[2] = Newest /\ Newest \in Nat
  BY <1>1, FingerprintIsOfNow DEF CacheInv
<1>3. ~ToBeCleared(x)
  BY DEF Quiescent, ToBeCleared
<1>. QED
  BY <1>1, <1>2, <1>3 DEF CacheInv, StaleShow

\* For any requests and edits in flight, and whichever calls to Redis fail: a sure list that is cached
\* for the database as it is says what the database says (companyReadService.ts, redisCache.ts).
THEOREM CachedListsAreCurrent == CacheSpec => []CachedIsCurrent
<1>1. CacheSpec => []CacheInv
  BY CacheInvInit, CacheInvStep, PTL DEF CacheSpec
<1>. QED
  BY <1>1, CacheInvImplies, PTL

-----------------------------------------------------------------------------
(* Types of the cache *)

OneEach(S) == \A x \in S, y \in S : x.fp = y.fp => x = y

\* Nothing that is cached or about to be is newer than the list, and a fingerprint has one entry.
CacheBounds ==
    /\ edits <= MaxEdits
    /\ OneEach(cache) /\ \A x \in cache : x.content <= content
    /\ \A r \in Readers : reader[r].pc = "store" => reader[r].content <= content

ReadersStay ==
    \A r \in Readers : reader'[r].pc = "store" =>
        \/ reader[r].pc = "store" /\ reader'[r].content = reader[r].content
        \/ reader'[r].content = content

LEMMA UnsureStay == ASSUME CacheShapes, Unsure PROVE ReadersStay
<1>1. ASSUME NEW r \in Readers, reader'[r].pc = "store"
      PROVE  reader[r].pc = "store" /\ reader'[r].content = reader[r].content
  <2>. DEFINE q == reader[r]
  <2>1. q \in {Rest} \cup Reading
    BY DEF CacheShapes
  <2>2. reader'[r] = IF Free(q) THEN q ELSE [q EXCEPT !.sure = FALSE]
    BY DEF Unsure
  <2>. HIDE DEF q
  <2>3. reader'[r].pc = q.pc /\ reader'[r].content = q.content
    <3>1. CASE Free(q)
      BY <2>2, <3>1
    <3>2. CASE q \in Reading /\ ~Free(q)
      BY <2>2, <3>2 DEF Reading
    <3>. QED
      BY <2>1, <3>1, <3>2 DEF Free, Rest
  <2>. QED
    BY <1>1, <2>3 DEF q
<1>. QED
  BY <1>1 DEF ReadersStay

LEMMA SpoilBounds ==
    ASSUME NEW S, CacheShapes, CacheBounds
    PROVE  OneEach(Spoil(S)) /\ \A x \in Spoil(S) : x.content <= content
<1>1. ASSUME NEW y \in Spoil(S)
      PROVE  \E x \in cache : y.fp = x.fp /\ y.content = x.content /\ y = IF x \in S THEN [x EXCEPT !.sure = FALSE] ELSE x
  <2>1. PICK x \in cache : y = IF x \in S THEN [x EXCEPT !.sure = FALSE] ELSE x
    BY DEF Spoil
  <2>2. x \in [fp: Fingerprints, content: Nat, sure: BOOLEAN]
    BY DEF CacheShapes
  <2>3. y.fp = x.fp /\ y.content = x.content
    BY <2>1, <2>2
  <2>. QED
    BY <2>1, <2>3
<1>2. ASSUME NEW y \in Spoil(S), NEW z \in Spoil(S), y.fp = z.fp PROVE y = z
  <2>1. PICK x \in cache : y.fp = x.fp /\ y = IF x \in S THEN [x EXCEPT !.sure = FALSE] ELSE x
    BY <1>1
  <2>2. PICK w \in cache : z.fp = w.fp /\ z = IF w \in S THEN [w EXCEPT !.sure = FALSE] ELSE w
    BY <1>1
  <2>3. x = w
    BY <1>2, <2>1, <2>2 DEF CacheBounds, OneEach
  <2>. QED
    BY <2>1, <2>2, <2>3
<1>3. ASSUME NEW y \in Spoil(S) PROVE y.content <= content
  <2>1. PICK x \in cache : y.content = x.content
    BY <1>1
  <2>. QED
    BY <2>1 DEF CacheBounds
<1>. QED
  BY <1>2, <1>3 DEF OneEach

LEMMA BoundsFrom ==
    ASSUME CacheShapes, CacheBounds, content' \in {content, content + 1}, edits' <= MaxEdits, OneEach(cache'),
           \A x \in cache' : x.content \in Nat /\ x.content <= content, ReadersStay
    PROVE  CacheBounds'
<1>1. content \in Nat /\ content <= content'
  BY DEF CacheShapes
<1>2. \A x \in cache' : x.content <= content'
  BY <1>1
<1>3. ASSUME NEW r \in Readers, reader'[r].pc = "store" PROVE reader'[r].content <= content'
  <2>1. CASE reader'[r].content = content
    BY <1>1, <2>1
  <2>2. CASE reader[r].pc = "store" /\ reader'[r].content = reader[r].content
    <3>1. reader[r].content \in Nat /\ reader[r].content <= content
      BY <2>2 DEF CacheShapes, CacheBounds, Reading, Rest
    <3>. QED
      BY <1>1, <2>2, <3>1
  <2>. QED
    BY <1>3, <2>1, <2>2 DEF ReadersStay
<1>. QED
  BY <1>2, <1>3 DEF CacheBounds, OneEach

LEMMA ReadersBounds ==
    ASSUME CacheShapes, CacheBounds, NEW r \in Readers,
           TakeFingerprint(r) \/ FindCached(r) \/ ReadList(r) \/ StoreList(r) \/ StopReading(r)
    PROVE  CacheBounds'
<1>. DEFINE q == reader[r]
<1>1. UNCHANGED <<content, edits>>
  BY DEF TakeFingerprint, FindCached, ReadList, StoreList, StopReading, OtherEditors
<1>2. q \in {Rest} \cup Reading /\ reader = [p \in Readers |-> reader[p]]
  BY DEF CacheShapes
<1>3. ReadersStay
  <2>1. PICK w : reader' = [reader EXCEPT ![r] = w] /\ (w.pc = "store" => w.content = content)
    <3>1. CASE TakeFingerprint(r)
      <4>. DEFINE v == [pc |-> "data", fp |-> Fingerprint, content |-> 0, sure |-> Quiescent]
      <4>1. v.pc = "data" /\ reader' = [reader EXCEPT ![r] = v]
        BY <3>1 DEF TakeFingerprint, SetReader
      <4>. HIDE DEF v
      <4>. QED
        BY <4>1
    <3>2. CASE FindCached(r)
      <4>1. q.pc = "data"
        BY <3>2 DEF FindCached
      <4>. DEFINE v == [q EXCEPT !.pc = "list"]
      <4>2. v.pc = "list"
        BY <1>2, <4>1 DEF Rest, Reading
      <4>3. Rest.pc = "idle"
        BY DEF Rest
      <4>4. reader' = [reader EXCEPT ![r] = Rest] \/ reader' = [reader EXCEPT ![r] = v]
        BY <3>2 DEF FindCached, SetReader
      <4>. HIDE DEF v
      <4>. QED
        BY <4>2, <4>3, <4>4
    <3>3. CASE ReadList(r)
      <4>. DEFINE v == [q EXCEPT !.pc = "store", !.content = content]
      <4>1. q.pc = "list"
        BY <3>3 DEF ReadList
      <4>2. v.content = content
        BY <1>2, <4>1 DEF Rest, Reading
      <4>3. reader' = [reader EXCEPT ![r] = v]
        BY <3>3 DEF ReadList, SetReader
      <4>. HIDE DEF v
      <4>. QED
        BY <4>2, <4>3
    <3>4. CASE StoreList(r) \/ StopReading(r)
      <4>1. reader' = [reader EXCEPT ![r] = Rest]
        BY <3>4 DEF StoreList, StopReading, SetReader
      <4>2. Rest.pc = "idle"
        BY DEF Rest
      <4>. QED
        BY <4>1, <4>2
    <3>. QED
      BY <3>1, <3>2, <3>3, <3>4
  <2>2. \A p \in Readers : reader'[p] = IF p = r THEN w ELSE reader[p]
    BY <1>2, <2>1
  <2>. QED
    BY <2>1, <2>2 DEF ReadersStay
<1>4. OneEach(cache') /\ \A x \in cache' : x.content \in Nat /\ x.content <= content
  <2>1. \A x \in cache : x.content \in Nat /\ x.content <= content
    BY DEF CacheShapes, CacheBounds
  <2>2. CASE UNCHANGED cache
    BY <2>1, <2>2 DEF CacheBounds, OneEach
  <2>3. CASE StoreList(r)
    <3>. DEFINE e == [fp |-> q.fp, content |-> q.content, sure |-> q.sure]
    <3>1. q.pc = "store" /\ cache' \in {cache, (cache \ Entries(q.fp)) \cup {e}}
      BY <2>3 DEF StoreList
    <3>2. q.content \in Nat /\ q.content <= content
      BY <1>2, <3>1 DEF Rest, Reading, CacheBounds
    <3>3. e.fp = q.fp /\ e.content = q.content
      OBVIOUS
    <3>. HIDE DEF e, q
    <3>4. CASE cache' = (cache \ Entries(q.fp)) \cup {e}
      <4>1. \A x \in cache' : x = e \/ (x \in cache /\ x.fp # q.fp)
        BY <3>4 DEF Entries
      <4>2. OneEach(cache')
        BY <3>3, <4>1 DEF CacheBounds, OneEach
      <4>. QED
        BY <2>1, <3>2, <3>3, <4>1, <4>2
    <3>. QED
      BY <2>2, <3>1, <3>4
  <2>. QED
    BY <2>2, <2>3 DEF TakeFingerprint, FindCached, ReadList, StopReading
<1>. QED
  BY <1>1, <1>3, <1>4, BoundsFrom DEF CacheBounds

LEMMA CacheBoundsStep == CacheInv /\ CacheBounds /\ [CacheNext]_cvars => CacheBounds'
<1>. SUFFICES ASSUME CacheShapes, CacheBounds, [CacheNext]_cvars PROVE CacheBounds'
  BY DEF CacheInv
<1>1. ASSUME NEW r \in Readers, TakeFingerprint(r) \/ FindCached(r) \/ ReadList(r) \/ StoreList(r) \/ StopReading(r)
      PROVE  CacheBounds'
  BY <1>1, ReadersBounds
<1>2. ASSUME UNCHANGED reader PROVE ReadersStay
  BY <1>2 DEF ReadersStay
<1>3. \A x \in cache : x.content \in Nat /\ x.content <= content
  BY DEF CacheShapes, CacheBounds
<1>4. ASSUME cache' \subseteq cache
      PROVE  OneEach(cache') /\ \A x \in cache' : x.content \in Nat /\ x.content <= content
  BY <1>3, <1>4 DEF CacheBounds, OneEach
<1>5. ASSUME cache' = Spoil(cache)
      PROVE  OneEach(cache') /\ \A x \in cache' : x.content \in Nat /\ x.content <= content
  <2>1. ASSUME NEW y \in Spoil(cache) PROVE y.content \in Nat
    <3>1. PICK x \in cache : y = IF x \in cache THEN [x EXCEPT !.sure = FALSE] ELSE x
      BY DEF Spoil
    <3>2. x \in [fp: Fingerprints, content: Nat, sure: BOOLEAN]
      BY DEF CacheShapes
    <3>. QED
      BY <3>1, <3>2
  <2>. QED
    BY <1>5, <2>1, SpoilBounds
<1>6. edits \in Nat /\ MaxEdits \in Nat /\ edits <= MaxEdits
  BY CacheAssumption DEF CacheShapes, CacheBounds
<1>7. ASSUME NEW e \in Editors, BeginEdit(e) \/ CreateMetadata(e) \/ Write(e) \/ FailEdit(e)
      PROVE  CacheBounds'
  <2>1. content' \in {content, content + 1} /\ edits' <= MaxEdits
    BY <1>6, <1>7 DEF BeginEdit, CreateMetadata, Write, FailEdit
  <2>2. UNCHANGED cache \/ cache' = Spoil(cache)
    BY <1>7 DEF BeginEdit, CreateMetadata, Write, FailEdit
  <2>3. ReadersStay
    BY <1>2, <1>7, UnsureStay DEF BeginEdit, CreateMetadata, Write, FailEdit
  <2>. QED
    BY <1>4, <1>5, <2>1, <2>2, <2>3, BoundsFrom
<1>8. ASSUME NEW c \in clears, ListKeys(c) \/ DeleteKeys(c) \/ LoseClear(c)
      PROVE  CacheBounds'
  <2>1. UNCHANGED <<content, edits>>
    BY <1>8 DEF ListKeys, DeleteKeys, LoseClear
  <2>2. cache' \subseteq cache \/ cache' = Spoil(cache)
    BY <1>8 DEF ListKeys, DeleteKeys, LoseClear
  <2>3. ReadersStay
    BY <1>2, <1>8, UnsureStay DEF ListKeys, DeleteKeys, LoseClear
  <2>. QED
    BY <1>4, <1>5, <1>6, <2>1, <2>2, <2>3, BoundsFrom
<1>9. CASE Expire
  <2>1. UNCHANGED <<content, edits, reader>> /\ cache' \subseteq cache
    BY <1>9 DEF Expire, OtherEditors
  <2>. QED
    BY <1>2, <1>4, <1>6, <2>1, BoundsFrom
<1>10. CASE UNCHANGED cvars
  <2>1. UNCHANGED <<content, edits, reader, cache>>
    BY <1>10 DEF cvars
  <2>. QED
    BY <1>2, <1>4, <1>6, <2>1, BoundsFrom
<1>. QED
  BY <1>1, <1>7, <1>8, <1>9, <1>10 DEF CacheNext

\* Nothing that is cached is newer than the list, and no fingerprint has two entries.
THEOREM CacheTypesHold == CacheSpec => []CacheTypesOK
<1>1. CacheInit => CacheBounds
  BY CacheAssumption DEF CacheInit, CacheBounds, OneEach, Rest
<1>2. CacheInit => CacheInv
  BY CacheInvInit
<1>3. CacheInv /\ [CacheNext]_cvars => CacheInv'
  BY CacheInvStep
<1>4. CacheInv /\ CacheBounds => CacheTypesOK
  <2>. SUFFICES ASSUME CacheInv, CacheBounds PROVE CacheTypesOK
    OBVIOUS
  <2>1. edits \in 0..MaxEdits /\ times \subseteq 1..MaxEdits
    BY CacheAssumption DEF CacheInv, CacheShapes, CacheBounds
  <2>2. \A r \in Readers : ~Free(reader[r]) => reader[r].pc \in {"data", "list", "store"}
    BY DEF CacheInv, CacheShapes, Reading, Rest, Free
  <2>. QED
    BY <2>1, <2>2 DEF CacheTypesOK, CacheBounds, OneEach
<1>. QED
  BY <1>1, <1>2, <1>3, <1>4, CacheBoundsStep, PTL DEF CacheSpec

-----------------------------------------------------------------------------
(* The registry of documents *)

\* The shape of records and tables; types of values are not needed.
UpRecord(u) == u = [at |-> u.at, ids |-> u.ids, plan |-> u.plan, row |-> u.row, clean |-> u.clean]
JobRecord(j) == j = [at |-> j.at, row |-> j.row, shell |-> j.shell, to |-> j.to, other |-> j.other]

UpShape == up = [a \in Actors |-> up[a]] /\ \A a \in Actors : UpRecord(up[a])
JobShape == job = [r \in Runs |-> job[r]] /\ \A r \in Runs : JobRecord(job[r])
TableShapes ==
    /\ created \in Nat /\ created <= MaxRows /\ DOMAIN report \subseteq 1 .. created
    /\ shells \in Nat /\ DOMAIN shell \subseteq 1 .. shells
    /\ shell = [s \in DOMAIN shell |-> shell[s]]

\* A row that is kept is not among those that are dropped, and a row that was written is there or was.
PlanKept(a) ==
    /\ up[a].at = "put" => up[a].plan.keep \notin up[a].plan.drop
    /\ up[a].at = "done" => up[a].row \in 1 .. created
PlansKeepTheirRow == \A a \in Actors : PlanKept(a)

OneSaves == \A q, r \in Runs : job[q].at \in Saving /\ job[r].at \in Saving => q = r

\* What the save of a run has found is still so.
SaveStands(r) ==
    /\ job[r].at \in Saving \ {"infer"} => job[r].to \in DOMAIN shell
    /\ job[r].at \in {"linked", "link", "set", "move"} => job[r].to \in DOMAIN period
    /\ job[r].at \in {"set", "move", "tidy"} => up[r].at = "done"
    /\ job[r].at \in {"move", "tidy"} =>
          /\ job[r].other \in DOMAIN shell /\ job[r].other # job[r].to
          /\ up[r].row \in DOMAIN report => shell[job[r].other] = up[r].row
    /\ job[r].at = "tidy" => job[r].other \in DOMAIN period

\* The dedupe script merges groups of rows that were there.
GroupsOfRows == \A G \in script.todo : G # {} /\ G \subseteq RowIds

SaveInv ==
    /\ UpShape /\ JobShape /\ TableShapes /\ PlansKeepTheirRow /\ OneSaves
    /\ \A r \in Runs : SaveStands(r)

-----------------------------------------------------------------------------

\* Records, field by field.
LEMMA JobFields ==
    ASSUME NEW j, JobRecord(j), NEW v
    PROVE  /\ [j EXCEPT !.at = v] = [at |-> v, row |-> j.row, shell |-> j.shell, to |-> j.to, other |-> j.other]
           /\ [j EXCEPT !.row = v] = [at |-> j.at, row |-> v, shell |-> j.shell, to |-> j.to, other |-> j.other]
           /\ [j EXCEPT !.shell = v] = [at |-> j.at, row |-> j.row, shell |-> v, to |-> j.to, other |-> j.other]
           /\ [j EXCEPT !.to = v] = [at |-> j.at, row |-> j.row, shell |-> j.shell, to |-> v, other |-> j.other]
           /\ [j EXCEPT !.other = v] = [at |-> j.at, row |-> j.row, shell |-> j.shell, to |-> j.to, other |-> v]
<1>1. j = [at |-> j.at, row |-> j.row, shell |-> j.shell, to |-> j.to, other |-> j.other]
  BY DEF JobRecord
<1>2. [j EXCEPT !.at = v] = [at |-> v, row |-> j.row, shell |-> j.shell, to |-> j.to, other |-> j.other]
  BY <1>1
<1>3. [j EXCEPT !.row = v] = [at |-> j.at, row |-> v, shell |-> j.shell, to |-> j.to, other |-> j.other]
  BY <1>1
<1>4. [j EXCEPT !.shell = v] = [at |-> j.at, row |-> j.row, shell |-> v, to |-> j.to, other |-> j.other]
  BY <1>1
<1>5. [j EXCEPT !.to = v] = [at |-> j.at, row |-> j.row, shell |-> j.shell, to |-> v, other |-> j.other]
  BY <1>1
<1>6. [j EXCEPT !.other = v] = [at |-> j.at, row |-> j.row, shell |-> j.shell, to |-> j.to, other |-> v]
  BY <1>1
<1>. QED
  BY <1>2, <1>3, <1>4, <1>5, <1>6

LEMMA UpFields ==
    ASSUME NEW u, UpRecord(u), NEW v
    PROVE  /\ [u EXCEPT !.at = v] = [at |-> v, ids |-> u.ids, plan |-> u.plan, row |-> u.row, clean |-> u.clean]
           /\ [u EXCEPT !.ids = v] = [at |-> u.at, ids |-> v, plan |-> u.plan, row |-> u.row, clean |-> u.clean]
           /\ [u EXCEPT !.plan = v] = [at |-> u.at, ids |-> u.ids, plan |-> v, row |-> u.row, clean |-> u.clean]
           /\ [u EXCEPT !.row = v] = [at |-> u.at, ids |-> u.ids, plan |-> u.plan, row |-> v, clean |-> u.clean]
           /\ [u EXCEPT !.clean = v] = [at |-> u.at, ids |-> u.ids, plan |-> u.plan, row |-> u.row, clean |-> v]
<1>1. u = [at |-> u.at, ids |-> u.ids, plan |-> u.plan, row |-> u.row, clean |-> u.clean]
  BY DEF UpRecord
<1>2. [u EXCEPT !.at = v] = [at |-> v, ids |-> u.ids, plan |-> u.plan, row |-> u.row, clean |-> u.clean]
  BY <1>1
<1>3. [u EXCEPT !.ids = v] = [at |-> u.at, ids |-> v, plan |-> u.plan, row |-> u.row, clean |-> u.clean]
  BY <1>1
<1>4. [u EXCEPT !.plan = v] = [at |-> u.at, ids |-> u.ids, plan |-> v, row |-> u.row, clean |-> u.clean]
  BY <1>1
<1>5. [u EXCEPT !.row = v] = [at |-> u.at, ids |-> u.ids, plan |-> u.plan, row |-> v, clean |-> u.clean]
  BY <1>1
<1>6. [u EXCEPT !.clean = v] = [at |-> u.at, ids |-> u.ids, plan |-> u.plan, row |-> u.row, clean |-> v]
  BY <1>1
<1>. QED
  BY <1>2, <1>3, <1>4, <1>5, <1>6

\* The job of one run becomes another.
Becomes(r, at, row, sh, to, other) ==
    /\ JobShape' /\ job'[r] = [at |-> at, row |-> row, shell |-> sh, to |-> to, other |-> other]
    /\ \A q \in Runs : q # r => job'[q] = job[q]

LEMMA JobSet ==
    ASSUME JobShape, NEW r \in Runs, NEW a, NEW b, NEW c, NEW d, NEW e,
           job' = [job EXCEPT ![r] = [at |-> a, row |-> b, shell |-> c, to |-> d, other |-> e]]
    PROVE  Becomes(r, a, b, c, d, e)
<1>. DEFINE v == [at |-> a, row |-> b, shell |-> c, to |-> d, other |-> e]
<1>1. JobRecord(v)
  BY DEF JobRecord
<1>2. job = [q \in Runs |-> job[q]] /\ job' = [job EXCEPT ![r] = v] /\ \A q \in Runs : JobRecord(job[q])
  BY DEF JobShape
<1>. HIDE DEF v
<1>3. job' = [q \in Runs |-> IF q = r THEN v ELSE job[q]]
  BY <1>2
<1>4. job' = [q \in Runs |-> job'[q]] /\ job'[r] = v /\ \A q \in Runs : q # r => job'[q] = job[q]
  BY <1>3
<1>5. \A q \in Runs : JobRecord(job'[q])
  BY <1>1, <1>2, <1>4
<1>. QED
  BY <1>4, <1>5 DEF Becomes, JobShape, v

LEMMA JobTo ==
    ASSUME JobShape, NEW r \in Runs, NEW at, To(r, at)
    PROVE  Becomes(r, at, job[r].row, job[r].shell, job[r].to, job[r].other)
<1>. DEFINE j == job[r]
<1>1. j = [at |-> j.at, row |-> j.row, shell |-> j.shell, to |-> j.to, other |-> j.other]
  BY DEF JobShape, JobRecord
<1>2. job' = [job EXCEPT ![r] = [j EXCEPT !.at = at]]
  BY DEF To
<1>3. [j EXCEPT !.at = at] = [at |-> at, row |-> j.row, shell |-> j.shell, to |-> j.to, other |-> j.other]
  BY JobFields DEF JobShape
<1>. HIDE DEF j
<1>4. job' = [job EXCEPT ![r] = [at |-> at, row |-> j.row, shell |-> j.shell, to |-> j.to, other |-> j.other]]
  BY <1>2, <1>3
<1>. QED
  BY <1>4, JobSet DEF j

LEMMA JobSets ==
    ASSUME JobShape, NEW r \in Runs, NEW at, NEW v
    PROVE  /\ job' = [job EXCEPT ![r].at = at, ![r].row = v] =>
                 Becomes(r, at, v, job[r].shell, job[r].to, job[r].other)
           /\ job' = [job EXCEPT ![r].at = at, ![r].shell = v] =>
                 Becomes(r, at, job[r].row, v, job[r].to, job[r].other)
           /\ job' = [job EXCEPT ![r].at = at, ![r].to = v] =>
                 Becomes(r, at, job[r].row, job[r].shell, v, job[r].other)
           /\ job' = [job EXCEPT ![r].at = at, ![r].other = v] =>
                 Becomes(r, at, job[r].row, job[r].shell, job[r].to, v)
<1>. DEFINE j == job[r]
            m == [at |-> at, row |-> j.row, shell |-> j.shell, to |-> j.to, other |-> j.other]
<1>1. j = [at |-> j.at, row |-> j.row, shell |-> j.shell, to |-> j.to, other |-> j.other]
  BY DEF JobShape, JobRecord
<1>2. [j EXCEPT !.at = at] = m
  BY JobFields DEF JobShape
<1>3. job = [q \in Runs |-> job[q]]
  BY DEF JobShape
<1>4. [job EXCEPT ![r].at = at] = [job EXCEPT ![r] = [j EXCEPT !.at = at]]
  OBVIOUS
<1>. HIDE DEF j, m
<1>5. [job EXCEPT ![r].at = at] = [q \in Runs |-> IF q = r THEN m ELSE job[q]]
  BY <1>2, <1>3, <1>4
<1>6. /\ [job EXCEPT ![r].at = at, ![r].row = v] = [[job EXCEPT ![r].at = at] EXCEPT ![r].row = v]
      /\ [job EXCEPT ![r].at = at, ![r].shell = v] = [[job EXCEPT ![r].at = at] EXCEPT ![r].shell = v]
      /\ [job EXCEPT ![r].at = at, ![r].to = v] = [[job EXCEPT ![r].at = at] EXCEPT ![r].to = v]
      /\ [job EXCEPT ![r].at = at, ![r].other = v] = [[job EXCEPT ![r].at = at] EXCEPT ![r].other = v]
  OBVIOUS
<1>. DEFINE h == [job EXCEPT ![r].at = at]
<1>7. h = [q \in Runs |-> IF q = r THEN m ELSE job[q]]
  BY <1>5
<1>. HIDE DEF h
<1>8. /\ [h EXCEPT ![r].row = v] = [job EXCEPT ![r] = [m EXCEPT !.row = v]]
      /\ [h EXCEPT ![r].shell = v] = [job EXCEPT ![r] = [m EXCEPT !.shell = v]]
      /\ [h EXCEPT ![r].to = v] = [job EXCEPT ![r] = [m EXCEPT !.to = v]]
      /\ [h EXCEPT ![r].other = v] = [job EXCEPT ![r] = [m EXCEPT !.other = v]]
  BY <1>3, <1>7
<1>9. /\ [m EXCEPT !.row = v] = [at |-> at, row |-> v, shell |-> j.shell, to |-> j.to, other |-> j.other]
      /\ [m EXCEPT !.shell = v] = [at |-> at, row |-> j.row, shell |-> v, to |-> j.to, other |-> j.other]
      /\ [m EXCEPT !.to = v] = [at |-> at, row |-> j.row, shell |-> j.shell, to |-> v, other |-> j.other]
      /\ [m EXCEPT !.other = v] = [at |-> at, row |-> j.row, shell |-> j.shell, to |-> j.to, other |-> v]
  <2>1. JobRecord(m) /\ m.at = at /\ m.row = j.row /\ m.shell = j.shell /\ m.to = j.to /\ m.other = j.other
    BY DEF JobRecord, m
  <2>2. /\ [m EXCEPT !.row = v] = [at |-> m.at, row |-> v, shell |-> m.shell, to |-> m.to, other |-> m.other]
        /\ [m EXCEPT !.shell = v] = [at |-> m.at, row |-> m.row, shell |-> v, to |-> m.to, other |-> m.other]
        /\ [m EXCEPT !.to = v] = [at |-> m.at, row |-> m.row, shell |-> m.shell, to |-> v, other |-> m.other]
        /\ [m EXCEPT !.other = v] = [at |-> m.at, row |-> m.row, shell |-> m.shell, to |-> m.to, other |-> v]
    BY <2>1, JobFields
  <2>. QED
    BY <2>1, <2>2
<1>10. ASSUME job' = [job EXCEPT ![r].at = at, ![r].row = v]
       PROVE  Becomes(r, at, v, j.shell, j.to, j.other)
  BY <1>6, <1>8, <1>9, <1>10, JobSet DEF h
<1>11. ASSUME job' = [job EXCEPT ![r].at = at, ![r].shell = v]
       PROVE  Becomes(r, at, j.row, v, j.to, j.other)
  BY <1>6, <1>8, <1>9, <1>11, JobSet DEF h
<1>12. ASSUME job' = [job EXCEPT ![r].at = at, ![r].to = v]
       PROVE  Becomes(r, at, j.row, j.shell, v, j.other)
  BY <1>6, <1>8, <1>9, <1>12, JobSet DEF h
<1>13. ASSUME job' = [job EXCEPT ![r].at = at, ![r].other = v]
       PROVE  Becomes(r, at, j.row, j.shell, j.to, v)
  BY <1>6, <1>8, <1>9, <1>13, JobSet DEF h
<1>. QED
  BY <1>10, <1>11, <1>12, <1>13 DEF j

\* Records of upserts.
LEMMA IdleBut ==
    ASSUME NEW v, NEW w
    PROVE  /\ [Idle EXCEPT !.at = v] = [at |-> v, ids |-> {}, plan |-> NoPlan, row |-> NoRow, clean |-> TRUE]
           /\ [Idle EXCEPT !.at = v, !.ids = w] = [at |-> v, ids |-> w, plan |-> NoPlan, row |-> NoRow, clean |-> TRUE]
           /\ [Idle EXCEPT !.at = v, !.plan = w] = [at |-> v, ids |-> {}, plan |-> w, row |-> NoRow, clean |-> TRUE]
           /\ [Idle EXCEPT !.at = v, !.row = w] = [at |-> v, ids |-> {}, plan |-> NoPlan, row |-> w, clean |-> TRUE]
<1>1. UpRecord(Idle) /\ Idle.ids = {} /\ Idle.plan = NoPlan /\ Idle.row = NoRow /\ Idle.clean = TRUE
  BY DEF Idle, UpRecord
<1>. DEFINE u == [Idle EXCEPT !.at = v]
<1>2. u = [at |-> v, ids |-> {}, plan |-> NoPlan, row |-> NoRow, clean |-> TRUE]
  <2>1. u = [at |-> v, ids |-> Idle.ids, plan |-> Idle.plan, row |-> Idle.row, clean |-> Idle.clean]
    BY <1>1, UpFields
  <2>. QED
    BY <1>1, <2>1, Zenon
<1>3. UpRecord(u) /\ u.at = v /\ u.ids = {} /\ u.plan = NoPlan /\ u.row = NoRow /\ u.clean = TRUE
  BY <1>2 DEF UpRecord
<1>4. /\ [Idle EXCEPT !.at = v, !.ids = w] = [u EXCEPT !.ids = w]
      /\ [Idle EXCEPT !.at = v, !.plan = w] = [u EXCEPT !.plan = w]
      /\ [Idle EXCEPT !.at = v, !.row = w] = [u EXCEPT !.row = w]
  OBVIOUS
<1>. HIDE DEF u
<1>5. /\ [u EXCEPT !.ids = w] = [at |-> v, ids |-> w, plan |-> NoPlan, row |-> NoRow, clean |-> TRUE]
      /\ [u EXCEPT !.plan = w] = [at |-> v, ids |-> {}, plan |-> w, row |-> NoRow, clean |-> TRUE]
      /\ [u EXCEPT !.row = w] = [at |-> v, ids |-> {}, plan |-> NoPlan, row |-> w, clean |-> TRUE]
  <2>1. [u EXCEPT !.ids = w] = [at |-> u.at, ids |-> w, plan |-> u.plan, row |-> u.row, clean |-> u.clean]
    BY <1>3, UpFields
  <2>2. [u EXCEPT !.plan = w] = [at |-> u.at, ids |-> u.ids, plan |-> w, row |-> u.row, clean |-> u.clean]
    BY <1>3, UpFields
  <2>3. [u EXCEPT !.row = w] = [at |-> u.at, ids |-> u.ids, plan |-> u.plan, row |-> w, clean |-> u.clean]
    BY <1>3, UpFields
  <2>. QED
    BY <1>3, <2>1, <2>2, <2>3, Zenon
<1>. QED
  BY <1>2, <1>4, <1>5 DEF u

LEMMA UpSet ==
    ASSUME UpShape, NEW a \in Actors, NEW u, UpRecord(u), up' = [up EXCEPT ![a] = u]
    PROVE  UpShape' /\ up'[a] = u /\ \A b \in Actors : b # a => up'[b] = up[b]
<1>1. up = [b \in Actors |-> up[b]] /\ \A b \in Actors : UpRecord(up[b])
  BY DEF UpShape
<1>2. up' = [b \in Actors |-> IF b = a THEN u ELSE up[b]]
  BY <1>1
<1>3. up' = [b \in Actors |-> up'[b]] /\ up'[a] = u /\ \A b \in Actors : b # a => up'[b] = up[b]
  BY <1>2
<1>4. \A b \in Actors : UpRecord(up'[b])
  BY <1>1, <1>3
<1>. QED
  BY <1>3, <1>4 DEF UpShape

\* Somebody's writing turns stale, and nothing else of it changes.
LEMMA DirtiedKeeps ==
    ASSUME NEW u, u = [b \in Actors |-> u[b]], \A b \in Actors : UpRecord(u[b]), NEW a, up' = Dirtied(u, a)
    PROVE  UpShape' /\ \A b \in Actors : /\ up'[b].at = u[b].at /\ up'[b].row = u[b].row
                                         /\ up'[b].plan = u[b].plan /\ (b = a => up'[b] = u[b])
<1>1. ASSUME NEW b \in Actors, NEW t, NEW w, w = [u[b] EXCEPT !.clean = t]
      PROVE  UpRecord(w) /\ w.at = u[b].at /\ w.row = u[b].row /\ w.plan = u[b].plan
  <2>1. w = [at |-> u[b].at, ids |-> u[b].ids, plan |-> u[b].plan, row |-> u[b].row, clean |-> t]
    BY <1>1, UpFields
  <2>. QED
    BY <2>1 DEF UpRecord
<1>2. /\ up' = [b \in Actors |-> up'[b]]
      /\ \A b \in Actors : /\ up'[b] \in {u[b], [u[b] EXCEPT !.clean = FALSE]}
                           /\ b = a => up'[b] = u[b]
  BY DEF Dirtied
<1>4. ASSUME NEW b \in Actors
      PROVE  up'[b] = u[b] \/ \E t \in BOOLEAN : up'[b] = [u[b] EXCEPT !.clean = t]
  BY <1>2
<1>3. ASSUME NEW b \in Actors
      PROVE  UpRecord(up'[b]) /\ up'[b].at = u[b].at /\ up'[b].row = u[b].row /\ up'[b].plan = u[b].plan
  <2>1. CASE up'[b] = u[b]
    BY <2>1, Zenon
  <2>2. CASE \E t \in BOOLEAN : up'[b] = [u[b] EXCEPT !.clean = t]
    <3>1. PICK t \in BOOLEAN : up'[b] = [u[b] EXCEPT !.clean = t]
      BY <2>2
    <3>. DEFINE w == up'[b]
    <3>2. w = [u[b] EXCEPT !.clean = t]
      BY <3>1
    <3>. HIDE DEF w
    <3>3. UpRecord(w) /\ w.at = u[b].at /\ w.row = u[b].row /\ w.plan = u[b].plan
      BY <1>1, <3>2
    <3>. QED
      BY <3>3 DEF w
  <2>. QED
    BY <1>4, <2>1, <2>2
<1>. QED
  BY <1>2, <1>3 DEF UpShape

-----------------------------------------------------------------------------
\* What a save has found stands while others work.

LEMMA StandsStill ==
    ASSUME NEW r \in Runs, SaveStands(r), job'[r] = job[r],
           job[r].at \in Saving => DOMAIN shell \subseteq DOMAIN shell' /\ DOMAIN period \subseteq DOMAIN period',
           job[r].at \in {"set", "move", "tidy"} => up'[r].at = up[r].at /\ up'[r].row = up[r].row,
           job[r].at \in {"move", "tidy"} /\ up[r].row \in DOMAIN report' =>
               up[r].row \in DOMAIN report /\ shell'[job[r].other] = shell[job[r].other]
    PROVE  SaveStands(r)'
  BY DEF SaveStands, Saving

\* A run that saves nothing has found nothing.
LEMMA NothingFound == ASSUME NEW r \in Runs, job'[r].at \notin Saving PROVE SaveStands(r)'
  BY DEF SaveStands, Saving

LEMMA OthersRest ==
    ASSUME SaveInv, NEW r \in Runs, job[r].at \in Saving, NEW q \in Runs, q # r, job'[q] = job[q]
    PROVE  job'[q].at \notin Saving /\ SaveStands(q)'
  BY NothingFound DEF SaveInv, OneSaves

LEMMA StillOneSaves ==
    ASSUME SaveInv, NEW r \in Runs, \A q \in Runs : q # r => job'[q] = job[q],
           job[r].at \in Saving \/ job'[r].at \notin Saving \/ \A q \in Runs : job[q].at \notin Saving
    PROVE  OneSaves'
  BY DEF SaveInv, OneSaves

\* A run that answers ok in this step names a shell with the year, and the row of the shell unless
\* that is gone.
AnswerIsTrue(r) ==
    job[r].at # "done" /\ job'[r].at = "done" =>
        LET s == job'[r].to
        IN /\ s \in DOMAIN period' /\ s \in DOMAIN shell'
           /\ job'[r].row \in DOMAIN report' => shell'[s] = job'[r].row

\* What a step that is not of the tables leaves alone.
ShellsGrow ==
    /\ TableShapes' /\ DOMAIN shell \subseteq DOMAIN shell'
    /\ \A s \in DOMAIN shell : shell'[s] = shell[s]

LEMMA SameTables == ASSUME TableShapes, UNCHANGED <<report, created, shell, shells>> PROVE ShellsGrow
  BY DEF ShellsGrow, TableShapes

\* A step of one run, of its job and its upsert.
OfRun(r) ==
    /\ JobShape' /\ \A q \in Runs : q # r => job'[q] = job[q]
    /\ UpShape' /\ \A a \in Actors : a # r => up'[a] = up[a]
    /\ PlanKept(r)'
    /\ UNCHANGED <<report, created>>

LEMMA PlansOfOthers == ASSUME SaveInv, NEW r \in Runs, OfRun(r) PROVE PlansKeepTheirRow'
  BY DEF SaveInv, OfRun, PlansKeepTheirRow, PlanKept

\* A run outside its save takes a step.
LEMMA BesideSaves ==
    ASSUME SaveInv, NEW r \in Runs, OfRun(r), ShellsGrow, UNCHANGED period,
           job[r].at \notin Saving, job'[r].at \notin Saving
    PROVE  SaveInv'
<1>1. OneSaves'
  BY StillOneSaves DEF OfRun
<1>2. ASSUME NEW q \in Runs
      PROVE  SaveStands(q)'
  <2>1. CASE q = r
    BY <2>1, NothingFound
  <2>2. CASE q # r
    <3>1. SaveStands(q) /\ job'[q] = job[q] /\ up'[q] = up[q]
      BY <2>2 DEF SaveInv, OfRun, Actors
    <3>2. DOMAIN shell \subseteq DOMAIN shell' /\ DOMAIN period \subseteq DOMAIN period'
      BY DEF ShellsGrow
    <3>3. job[q].at \in {"move", "tidy"} => shell'[job[q].other] = shell[job[q].other]
      BY <3>1 DEF SaveStands, ShellsGrow
    <3>. QED
      BY <3>1, <3>2, <3>3, StandsStill DEF OfRun
  <2>. QED
    BY <2>1, <2>2
<1>. QED
  BY <1>1, <1>2, PlansOfOthers DEF SaveInv, OfRun, ShellsGrow

\* A run takes a step of its save, into it or out of it.
LEMMA OfSave ==
    ASSUME SaveInv, NEW r \in Runs, OfRun(r), TableShapes',
           job[r].at \in Saving \/ \A q \in Runs : job[q].at \notin Saving,
           SaveStands(r)'
    PROVE  SaveInv'
<1>1. OneSaves'
  BY StillOneSaves DEF OfRun
<1>2. ASSUME NEW q \in Runs, q # r
      PROVE  SaveStands(q)'
  <2>1. job'[q] = job[q] /\ job[q].at \notin Saving
    BY <1>2, OthersRest DEF OfRun
  <2>. QED
    BY <2>1, NothingFound
<1>. QED
  BY <1>1, <1>2, PlansOfOthers DEF SaveInv, OfRun

LEMMA IdleRecord == UpRecord(Idle) /\ Idle.at = "idle"
  BY DEF Idle, UpRecord

LEMMA Returned ==
    ASSUME SaveInv, NEW r \in Runs, Return(r)
    PROVE  /\ UpShape' /\ \A a \in Actors : a # r => up'[a] = up[a]
           /\ PlanKept(r)'
<1>1. r \in Actors /\ up' = [up EXCEPT ![r] = Idle]
  BY DEF Actors, Return
<1>2. UpShape' /\ up'[r] = Idle /\ \A a \in Actors : a # r => up'[a] = up[a]
  BY <1>1, IdleRecord, UpSet DEF SaveInv
<1>. QED
  BY <1>2, IdleRecord DEF PlanKept

LEMMA Called ==
    ASSUME SaveInv, NEW r \in Runs, Call(r)
    PROVE  /\ UpShape' /\ \A a \in Actors : a # r => up'[a] = up[a]
           /\ PlanKept(r)'
<1>. DEFINE u == [Idle EXCEPT !.at = "find"]
<1>1. r \in Actors /\ up' = [up EXCEPT ![r] = u]
  BY DEF Actors, Call
<1>2. UpRecord(u) /\ u.at = "find"
  <2>1. u = [at |-> "find", ids |-> {}, plan |-> NoPlan, row |-> NoRow, clean |-> TRUE]
    BY IdleBut
  <2>. QED
    BY <2>1 DEF UpRecord
<1>. HIDE DEF u
<1>3. UpShape' /\ up'[r] = u /\ \A a \in Actors : a # r => up'[a] = up[a]
  BY <1>1, <1>2, UpSet DEF SaveInv
<1>. QED
  BY <1>2, <1>3 DEF PlanKept

LEMMA NotCalled ==
    ASSUME SaveInv, NEW r \in Runs, UNCHANGED <<up, created>>
    PROVE  /\ UpShape' /\ \A a \in Actors : a # r => up'[a] = up[a]
           /\ PlanKept(r)'
  BY DEF SaveInv, UpShape, PlansKeepTheirRow, PlanKept, Actors

\* The shell of a row, found or made.
LEMMA ShellFound ==
    ASSUME SaveInv, NEW row, NEW s \in ShellIds, FindOrCreate(row, s), UNCHANGED <<report, created>>
    PROVE  ShellsGrow /\ s \in DOMAIN shell'
<1>1. TableShapes /\ MaxShells \in Nat
  BY BoundsAssumption DEF SaveInv
<1>2. CASE s \in ShellsOf(row) /\ UNCHANGED <<shell, shells>>
  BY <1>1, <1>2 DEF ShellsGrow, TableShapes, ShellsOf
<1>3. CASE s = shells + 1 /\ shell' = With(shell, s, row) /\ shells' = s
  <2>1. /\ DOMAIN shell' = DOMAIN shell \cup {s} /\ shell' = [z \in DOMAIN shell' |-> shell'[z]]
        /\ \A z \in DOMAIN shell : z # s => shell'[z] = shell[z]
    BY <1>3 DEF With
  <2>2. s \notin DOMAIN shell /\ shells' \in Nat /\ DOMAIN shell' \subseteq 1 .. shells'
    BY <1>1, <1>3, <2>1 DEF TableShapes
  <2>. QED
    BY <1>1, <2>1, <2>2 DEF ShellsGrow, TableShapes
<1>. QED
  BY <1>2, <1>3 DEF FindOrCreate

-----------------------------------------------------------------------------
\* The steps of a run.

Stepped(r) == SaveInv' /\ AnswerIsTrue(r) /\ OfRun(r)

LEMMA ParseSteps ==
    ASSUME SaveInv, NEW r \in Runs, ParseFinds(r) \/ ParseEnds(r) \/ CheckBegins(r) \/ EarlyReturns(r)
    PROVE  Stepped(r)
<1>. SUFFICES ASSUME job[r].at \notin Saving, job'[r].at \notin Saving, job'[r].at # "done", OfRun(r),
                     UNCHANGED <<shell, shells, period>>
              PROVE  Stepped(r)
  <2>1. CASE ParseFinds(r)
    <3>. DEFINE p == StorePlan(input[r])
                u == [Idle EXCEPT !.at = "put", !.plan = p]
    <3>1. r \in Actors /\ up' = [up EXCEPT ![r] = u]
      BY <2>1 DEF ParseFinds, Actors
    <3>2. p.keep \notin p.drop
      <4>1. p.drop = {}
        BY DEF StorePlan, CreatePlan
      <4>. QED
        BY <4>1
    <3>. HIDE DEF p
    <3>3. UpRecord(u) /\ u.at = "put" /\ u.plan = p
      <4>1. u = [at |-> "put", ids |-> {}, plan |-> p, row |-> NoRow, clean |-> TRUE]
        BY IdleBut
      <4>. QED
        BY <4>1 DEF UpRecord
    <3>. HIDE DEF u
    <3>4. UpShape' /\ up'[r] = u /\ \A a \in Actors : a # r => up'[a] = up[a]
      BY <3>1, <3>3, UpSet DEF SaveInv
    <3>5. PlanKept(r)'
      BY <3>2, <3>3, <3>4 DEF PlanKept
    <3>6. Becomes(r, "store", job[r].row, job[r].shell, job[r].to, job[r].other)
      BY <2>1, JobTo DEF ParseFinds, SaveInv
    <3>. QED
      BY <2>1, <3>4, <3>5, <3>6 DEF ParseFinds, Becomes, OfRun, Saving, links
  <2>2. CASE ParseEnds(r)
    <3>1. Becomes(r, "check", job[r].row, job[r].shell, job[r].to, job[r].other)
      BY <2>2, JobTo DEF ParseEnds, SaveInv
    <3>. QED
      BY <2>2, <3>1, Returned DEF ParseEnds, Becomes, OfRun, Saving, links
  <2>3. CASE CheckBegins(r)
    <3>1. Becomes(r, "early", job[r].row, job[r].shell, job[r].to, job[r].other)
      BY <2>3, JobTo DEF CheckBegins, SaveInv
    <3>. QED
      BY <2>3, <3>1, Called DEF CheckBegins, Becomes, OfRun, Saving, links
  <2>4. CASE EarlyReturns(r)
    <3>1. \E at \in {"shell", "queued"}, v \in {up[r].row, NoRow, RowToKeep(Matching(input[r]))} :
             Becomes(r, at, v, job[r].shell, job[r].to, job[r].other)
      <4>1. \E at \in {"shell", "queued"}, v \in {up[r].row, NoRow, RowToKeep(Matching(input[r]))} :
               job' = [job EXCEPT ![r].at = at, ![r].row = v]
        BY <2>4 DEF EarlyReturns
      <4>. QED
        BY <4>1, JobSets DEF SaveInv
    <3>. QED
      BY <2>4, <3>1, Returned DEF EarlyReturns, Becomes, OfRun, Saving, links
  <2>. QED
    BY <2>1, <2>2, <2>3, <2>4
<1>1. ShellsGrow
  BY SameTables DEF SaveInv, OfRun
<1>. QED
  BY <1>1, BesideSaves DEF Stepped, AnswerIsTrue

LEMMA CheckEndsStep == ASSUME SaveInv, NEW r \in Runs, CheckEnds(r) PROVE Stepped(r)
<1>1. UNCHANGED <<report, created, period, up>> /\ job[r].at = "shell"
  BY DEF CheckEnds
<1>2. ShellsGrow /\ JobShape' /\ job'[r].at = "queued" /\ \A q \in Runs : q # r => job'[q] = job[q]
  <2>1. CASE \E s \in ShellIds : FindOrCreate(job[r].row, s)
                                 /\ job' = [job EXCEPT ![r].at = "queued", ![r].shell = s]
    <3>1. PICK s \in ShellIds : FindOrCreate(job[r].row, s)
                                /\ job' = [job EXCEPT ![r].at = "queued", ![r].shell = s]
      BY <2>1
    <3>2. Becomes(r, "queued", job[r].row, s, job[r].to, job[r].other)
      BY <3>1, JobSets DEF SaveInv
    <3>3. ShellsGrow
      BY <1>1, <3>1, ShellFound
    <3>. QED
      BY <3>2, <3>3 DEF Becomes
  <2>2. CASE To(r, "queued") /\ UNCHANGED <<shell, shells>>
    <3>1. Becomes(r, "queued", job[r].row, job[r].shell, job[r].to, job[r].other)
      BY <2>2, JobTo DEF SaveInv
    <3>. QED
      BY <1>1, <2>2, <3>1, SameTables DEF SaveInv, Becomes
  <2>. QED
    BY <2>1, <2>2 DEF CheckEnds
<1>3. OfRun(r)
  BY <1>1, <1>2, NotCalled DEF OfRun
<1>. QED
  BY <1>1, <1>2, <1>3, BesideSaves DEF Stepped, AnswerIsTrue, Saving

\* A save that fails has found nothing.
LEMMA FailedSave ==
    ASSUME SaveInv, NEW r \in Runs, SaveFails(r)
    PROVE  /\ JobShape' /\ \A q \in Runs : q # r => job'[q] = job[q]
           /\ job'[r].at \in {"failed", "queued"}
           /\ SaveStands(r)'
<1>1. JobShape' /\ job'[r].at \in {"failed", "queued"} /\ \A q \in Runs : q # r => job'[q] = job[q]
  <2>1. CASE To(r, "failed")
    <3>1. Becomes(r, "failed", job[r].row, job[r].shell, job[r].to, job[r].other)
      BY <2>1, JobTo DEF SaveInv
    <3>. QED
      BY <3>1 DEF Becomes
  <2>2. CASE job' = [job EXCEPT ![r].at = "queued", ![r].to = NoShell]
    <3>1. Becomes(r, "queued", job[r].row, job[r].shell, NoShell, job[r].other)
      BY <2>2, JobSets DEF SaveInv
    <3>. QED
      BY <3>1 DEF Becomes
  <2>. QED
    BY <2>1, <2>2 DEF SaveFails
<1>. QED
  BY <1>1, NothingFound DEF Saving

LEMMA SaveBeginsStep == ASSUME SaveInv, NEW r \in Runs, SaveBegins(r) PROVE Stepped(r)
<1>1. UNCHANGED <<report, created, period>> /\ \A q \in Runs : job[q].at \notin Saving
  BY DEF SaveBegins
<1>2. CASE /\ job[r].shell \in DOMAIN shell
           /\ job' = [job EXCEPT ![r].at = "period", ![r].to = job[r].shell]
           /\ UNCHANGED <<shell, shells, up>>
  <2>1. Becomes(r, "period", job[r].row, job[r].shell, job[r].shell, job[r].other)
    BY <1>2, JobSets DEF SaveInv
  <2>2. OfRun(r) /\ TableShapes'
    BY <1>1, <1>2, <2>1, NotCalled, SameTables DEF OfRun, Becomes, SaveInv, ShellsGrow
  <2>3. SaveStands(r)' /\ job'[r].at # "done"
    BY <1>2, <2>1 DEF SaveStands, Becomes, Saving
  <2>. QED
    BY <1>1, <2>2, <2>3, OfSave DEF Stepped, AnswerIsTrue
<1>3. CASE SaveFails(r) /\ UNCHANGED <<shell, shells, up>>
  <2>1. OfRun(r) /\ TableShapes'
    BY <1>1, <1>3, FailedSave, NotCalled, SameTables DEF OfRun, SaveInv, ShellsGrow
  <2>. QED
    BY <1>1, <1>3, <2>1, FailedSave, OfSave DEF Stepped, AnswerIsTrue
<1>4. CASE UNCHANGED up /\ \E s \in ShellIds : FindOrCreate(job[r].row, s)
                              /\ job' = [job EXCEPT ![r].at = "period", ![r].to = s]
  <2>1. PICK s \in ShellIds : FindOrCreate(job[r].row, s)
                              /\ job' = [job EXCEPT ![r].at = "period", ![r].to = s]
    BY <1>4
  <2>2. Becomes(r, "period", job[r].row, job[r].shell, s, job[r].other)
    BY <2>1, JobSets DEF SaveInv
  <2>3. ShellsGrow /\ s \in DOMAIN shell'
    BY <1>1, <2>1, ShellFound
  <2>4. OfRun(r) /\ TableShapes'
    BY <1>1, <1>4, <2>2, <2>3, NotCalled DEF OfRun, Becomes, ShellsGrow
  <2>5. SaveStands(r)' /\ job'[r].at # "done"
    BY <2>2, <2>3 DEF SaveStands, Becomes, Saving
  <2>. QED
    BY <1>1, <2>4, <2>5, OfSave DEF Stepped, AnswerIsTrue
<1>5. CASE To(r, "infer") /\ Call(r) /\ UNCHANGED <<shell, shells>>
  <2>1. Becomes(r, "infer", job[r].row, job[r].shell, job[r].to, job[r].other)
    BY <1>5, JobTo DEF SaveInv
  <2>2. OfRun(r) /\ TableShapes'
    BY <1>1, <1>5, <2>1, Called, SameTables DEF OfRun, Becomes, SaveInv, ShellsGrow
  <2>3. SaveStands(r)' /\ job'[r].at # "done"
    BY <2>1 DEF SaveStands, Becomes, Saving
  <2>. QED
    BY <1>1, <2>2, <2>3, OfSave DEF Stepped, AnswerIsTrue
<1>. QED
  BY <1>2, <1>3, <1>4, <1>5 DEF SaveBegins

LEMMA SaveInfersStep == ASSUME SaveInv, NEW r \in Runs, SaveInfers(r) PROVE Stepped(r)
<1>1. UNCHANGED <<report, created, period>> /\ Return(r) /\ job[r].at \in Saving
  BY DEF SaveInfers, Saving
<1>2. CASE SaveFails(r) /\ UNCHANGED <<shell, shells>>
  <2>1. OfRun(r) /\ TableShapes'
    BY <1>1, <1>2, FailedSave, Returned, SameTables DEF OfRun, SaveInv, ShellsGrow
  <2>. QED
    BY <1>1, <1>2, <2>1, FailedSave, OfSave DEF Stepped, AnswerIsTrue
<1>3. CASE \E s \in ShellIds : FindOrCreate(up[r].row, s)
                               /\ job' = [job EXCEPT ![r].at = "period", ![r].to = s]
  <2>1. PICK s \in ShellIds : FindOrCreate(up[r].row, s)
                              /\ job' = [job EXCEPT ![r].at = "period", ![r].to = s]
    BY <1>3
  <2>2. Becomes(r, "period", job[r].row, job[r].shell, s, job[r].other)
    BY <2>1, JobSets DEF SaveInv
  <2>3. ShellsGrow /\ s \in DOMAIN shell'
    BY <1>1, <2>1, ShellFound
  <2>4. OfRun(r) /\ TableShapes'
    BY <1>1, <2>2, <2>3, Returned DEF OfRun, Becomes, ShellsGrow
  <2>5. SaveStands(r)' /\ job'[r].at # "done"
    BY <2>2, <2>3 DEF SaveStands, Becomes, Saving
  <2>. QED
    BY <1>1, <2>4, <2>5, OfSave DEF Stepped, AnswerIsTrue
<1>. QED
  BY <1>2, <1>3 DEF SaveInfers

\* The period is written under the shell.
LEMMA SavePeriodStep == ASSUME SaveInv, NEW r \in Runs, SavePeriod(r) PROVE Stepped(r)
<1>1. UNCHANGED <<report, created, shell, shells, up>> /\ job[r].at = "period"
      /\ period' = With(period, job[r].to, r)
  BY DEF SavePeriod
<1>2. Becomes(r, "linked", job[r].row, job[r].shell, job[r].to, job[r].other)
  BY JobTo DEF SavePeriod, SaveInv
<1>3. OfRun(r) /\ TableShapes'
  BY <1>1, <1>2, NotCalled, SameTables DEF OfRun, Becomes, SaveInv, ShellsGrow
<1>4. job[r].to \in DOMAIN shell /\ job[r].to \in DOMAIN period'
  BY <1>1 DEF SaveInv, SaveStands, Saving, With
<1>5. SaveStands(r)' /\ job'[r].at # "done"
  BY <1>1, <1>2, <1>4 DEF SaveStands, Becomes, Saving
<1>. QED
  BY <1>1, <1>3, <1>5, OfSave DEF Stepped, AnswerIsTrue, Saving

LEMMA LinkBeginsStep == ASSUME SaveInv, NEW r \in Runs, LinkBegins(r) PROVE Stepped(r)
<1>1. UNCHANGED <<report, created, shell, shells, period>> /\ job[r].at = "linked"
  BY DEF LinkBegins, links
<1>2. job[r].to \in DOMAIN shell /\ job[r].to \in DOMAIN period /\ TableShapes'
  BY <1>1, SameTables DEF SaveInv, SaveStands, Saving, ShellsGrow
<1>3. CASE Answer(r, job[r].to, shell[job[r].to]) /\ UNCHANGED up
  <2>1. Becomes(r, "done", shell[job[r].to], job[r].shell, job[r].to, NoShell)
    BY <1>3, JobSet DEF Answer, SaveInv
  <2>2. OfRun(r)
    BY <1>1, <1>3, <2>1, NotCalled DEF OfRun, Becomes
  <2>3. AnswerIsTrue(r) /\ job'[r].at \notin Saving
    BY <1>1, <1>2, <2>1 DEF AnswerIsTrue, Becomes, Saving
  <2>. QED
    BY <1>1, <1>2, <2>2, <2>3, NothingFound, OfSave DEF Stepped, Saving
<1>4. CASE To(r, "link") /\ Call(r)
  <2>1. Becomes(r, "link", job[r].row, job[r].shell, job[r].to, job[r].other)
    BY <1>4, JobTo DEF SaveInv
  <2>2. OfRun(r)
    BY <1>1, <1>4, <2>1, Called DEF OfRun, Becomes
  <2>3. SaveStands(r)' /\ job'[r].at # "done"
    BY <1>1, <1>2, <2>1 DEF SaveStands, Becomes, Saving
  <2>. QED
    BY <1>1, <1>2, <2>2, <2>3, OfSave DEF Stepped, AnswerIsTrue, Saving
<1>. QED
  BY <1>3, <1>4 DEF LinkBegins

LEMMA LinkFindsStep == ASSUME SaveInv, NEW r \in Runs, LinkFinds(r) PROVE Stepped(r)
<1>1. UNCHANGED <<report, created, shell, shells, period>> /\ job[r].at = "link"
  BY DEF LinkFinds, links
<1>2. job[r].to \in DOMAIN shell /\ job[r].to \in DOMAIN period /\ TableShapes'
  BY <1>1, SameTables DEF SaveInv, SaveStands, Saving, ShellsGrow
<1>3. CASE up[r].at = "done" /\ To(r, "set") /\ UNCHANGED up
  <2>1. Becomes(r, "set", job[r].row, job[r].shell, job[r].to, job[r].other)
    BY <1>3, JobTo DEF SaveInv
  <2>2. OfRun(r)
    BY <1>1, <1>3, <2>1, NotCalled DEF OfRun, Becomes
  <2>3. SaveStands(r)' /\ job'[r].at # "done"
    BY <1>1, <1>2, <1>3, <2>1 DEF SaveStands, Becomes, Saving
  <2>. QED
    BY <1>1, <1>2, <2>2, <2>3, OfSave DEF Stepped, AnswerIsTrue, Saving
<1>4. CASE /\ up[r].at = "done" /\ UNCHANGED up
           /\ \E s \in ShellsOf(up[r].row) \ {job[r].to} : job' = [job EXCEPT ![r].at = "move", ![r].other = s]
  <2>1. PICK s \in ShellsOf(up[r].row) \ {job[r].to} : job' = [job EXCEPT ![r].at = "move", ![r].other = s]
    BY <1>4
  <2>2. Becomes(r, "move", job[r].row, job[r].shell, job[r].to, s)
    BY <2>1, JobSets DEF SaveInv
  <2>3. OfRun(r)
    BY <1>1, <1>4, <2>2, NotCalled DEF OfRun, Becomes
  <2>4. s \in DOMAIN shell /\ s # job[r].to /\ shell[s] = up[r].row
    BY <2>1 DEF ShellsOf
  <2>5. job'[r].at = "move" /\ job'[r].to = job[r].to /\ job'[r].other = s
    BY <2>2 DEF Becomes
  <2>6. SaveStands(r)' /\ job'[r].at # "done"
    BY <1>1, <1>2, <1>4, <2>4, <2>5 DEF SaveStands, Saving
  <2>. QED
    BY <1>1, <1>2, <2>3, <2>6, OfSave DEF Stepped, AnswerIsTrue, Saving
<1>5. CASE SaveFails(r) /\ Return(r)
  <2>1. OfRun(r)
    BY <1>1, <1>5, FailedSave, Returned DEF OfRun
  <2>. QED
    BY <1>1, <1>2, <1>5, <2>1, FailedSave, OfSave DEF Stepped, AnswerIsTrue, Saving
<1>. QED
  BY <1>3, <1>4, <1>5 DEF LinkFinds

LEMMA LinkSetsStep == ASSUME SaveInv, NEW r \in Runs, LinkSets(r) PROVE Stepped(r)
<1>1. UNCHANGED <<report, created, shells, period>> /\ job[r].at = "set" /\ Return(r)
  BY DEF LinkSets
<1>2. job[r].to \in DOMAIN shell /\ job[r].to \in DOMAIN period /\ TableShapes
  BY <1>1 DEF SaveInv, SaveStands, Saving
<1>3. CASE SaveFails(r) /\ UNCHANGED shell
  <2>1. OfRun(r) /\ TableShapes'
    BY <1>1, <1>2, <1>3, FailedSave, Returned, SameTables DEF OfRun, ShellsGrow
  <2>. QED
    BY <1>1, <1>3, <2>1, FailedSave, OfSave DEF Stepped, AnswerIsTrue, Saving
<1>4. CASE shell' = [shell EXCEPT ![job[r].to] = up[r].row] /\ Answer(r, job[r].to, up[r].row)
  <2>1. Becomes(r, "done", up[r].row, job[r].shell, job[r].to, NoShell)
    BY <1>4, JobSet DEF Answer, SaveInv
  <2>2. /\ shell' = [s \in DOMAIN shell' |-> shell'[s]] /\ DOMAIN shell' = DOMAIN shell
        /\ shell'[job[r].to] = up[r].row
    <3>. DEFINE f == shell
                x == job[r].to
                v == up[r].row
    <3>1. f = [s \in DOMAIN f |-> f[s]] /\ x \in DOMAIN f
      BY <1>2 DEF TableShapes
    <3>2. shell' = [f EXCEPT ![x] = v]
      BY <1>4
    <3>. HIDE DEF f, x, v
    <3>3. shell' = [s \in DOMAIN f |-> IF s = x THEN v ELSE f[s]]
      BY <3>1, <3>2
    <3>4. shell' = [s \in DOMAIN shell' |-> shell'[s]] /\ DOMAIN shell' = DOMAIN f /\ shell'[x] = v
      BY <3>1, <3>3
    <3>. QED
      BY <3>4 DEF f, x, v
  <2>3. OfRun(r) /\ TableShapes'
    BY <1>1, <1>2, <2>1, <2>2, Returned DEF OfRun, Becomes, TableShapes
  <2>4. AnswerIsTrue(r) /\ job'[r].at \notin Saving
    BY <1>1, <1>2, <2>1, <2>2 DEF AnswerIsTrue, Becomes, Saving
  <2>. QED
    BY <1>1, <2>3, <2>4, NothingFound, OfSave DEF Stepped, Saving
<1>. QED
  BY <1>3, <1>4 DEF LinkSets

LEMMA LinkMovesStep == ASSUME SaveInv, NEW r \in Runs, LinkMoves(r) PROVE Stepped(r)
<1>1. UNCHANGED <<report, created, shell, shells, up>> /\ job[r].at = "move"
  BY DEF LinkMoves
<1>2. /\ job[r].to \in DOMAIN shell /\ up[r].at = "done" /\ TableShapes
      /\ job[r].other \in DOMAIN shell /\ job[r].other # job[r].to
      /\ up[r].row \in DOMAIN report => shell[job[r].other] = up[r].row
  BY <1>1 DEF SaveInv, SaveStands, Saving
<1>3. Becomes(r, "tidy", job[r].row, job[r].shell, job[r].to, job[r].other)
  BY JobTo DEF LinkMoves, SaveInv
<1>4. OfRun(r) /\ TableShapes'
  BY <1>1, <1>2, <1>3, NotCalled, SameTables DEF OfRun, Becomes, ShellsGrow
<1>5. job[r].other \in DOMAIN period'
  <2>1. CASE job[r].other \in DOMAIN period
    BY <1>2, <2>1 DEF LinkMoves, Without
  <2>2. CASE job[r].other \notin DOMAIN period
    BY <2>2 DEF LinkMoves, With
  <2>. QED
    BY <2>1, <2>2
<1>6. SaveStands(r)' /\ job'[r].at # "done"
  BY <1>1, <1>2, <1>3, <1>5 DEF SaveStands, Becomes, Saving
<1>. QED
  BY <1>1, <1>4, <1>6, OfSave DEF Stepped, AnswerIsTrue, Saving

LEMMA LinkTidiesStep == ASSUME SaveInv, NEW r \in Runs, LinkTidies(r) PROVE Stepped(r)
<1>1. UNCHANGED <<report, created, shells, period>> /\ job[r].at = "tidy" /\ Return(r)
  BY DEF LinkTidies
<1>2. /\ job[r].other \in DOMAIN shell /\ job[r].other # job[r].to /\ job[r].other \in DOMAIN period
      /\ up[r].row \in DOMAIN report => shell[job[r].other] = up[r].row
      /\ TableShapes
  BY <1>1 DEF SaveInv, SaveStands, Saving
<1>3. Becomes(r, "done", up[r].row, job[r].shell, job[r].other, NoShell)
  <2>1. Answer(r, job[r].other, up[r].row)
    BY DEF LinkTidies
  <2>. QED
    BY <2>1, JobSet DEF Answer, SaveInv
<1>4. /\ shell' = [s \in DOMAIN shell' |-> shell'[s]] /\ DOMAIN shell' \subseteq DOMAIN shell
      /\ job[r].other \in DOMAIN shell' /\ shell'[job[r].other] = shell[job[r].other]
  <2>1. CASE shell' = shell
    BY <1>2, <2>1 DEF TableShapes
  <2>2. CASE shell' = Without(shell, {job[r].to})
    BY <1>2, <2>2 DEF Without
  <2>. QED
    BY <2>1, <2>2 DEF LinkTidies
<1>5. OfRun(r) /\ TableShapes'
  BY <1>1, <1>2, <1>3, <1>4, Returned DEF OfRun, Becomes, TableShapes
<1>6. AnswerIsTrue(r) /\ job'[r].at \notin Saving
  BY <1>1, <1>2, <1>3, <1>4 DEF AnswerIsTrue, Becomes, Saving
<1>. QED
  BY <1>1, <1>5, <1>6, NothingFound, OfSave DEF Stepped, Saving

LEMMA RunSteps ==
    ASSUME SaveInv, NEW r \in Runs, Run(r)
    PROVE  SaveInv' /\ \A q \in Runs : AnswerIsTrue(q)
<1>1. Stepped(r)
  BY ParseSteps, CheckEndsStep, SaveBeginsStep, SaveInfersStep, SavePeriodStep, LinkBeginsStep, LinkFindsStep,
     LinkSetsStep, LinkMovesStep, LinkTidiesStep DEF Run
<1>. QED
  BY <1>1 DEF Stepped, AnswerIsTrue, OfRun

-----------------------------------------------------------------------------
\* The steps of an upsert, of staff and of the scripts.

Upserted == SaveInv' /\ UNCHANGED job

\* The upsert of an actor takes a step and writes nothing.
LEMMA OnlyUp ==
    ASSUME SaveInv, NEW a \in Actors, up[a].at \notin {"done"}, UpShape', PlanKept(a)',
           \A b \in Actors : b # a => up'[b] = up[b],
           UNCHANGED <<report, created, shell, shells, period, job>>
    PROVE  SaveInv'
<1>1. PlansKeepTheirRow' /\ TableShapes' /\ JobShape' /\ OneSaves'
  BY DEF SaveInv, PlansKeepTheirRow, PlanKept, TableShapes, JobShape, OneSaves
<1>2. ASSUME NEW r \in Runs
      PROVE  SaveStands(r)'
  <2>1. SaveStands(r)
    BY DEF SaveInv
  <2>2. job[r].at \in {"set", "move", "tidy"} => up'[r] = up[r]
    BY <2>1 DEF SaveStands, Actors
  <2>. QED
    BY <2>1, <2>2, StandsStill
<1>. QED
  BY <1>1, <1>2 DEF SaveInv

\* Rows are deleted, and one is written: one that stays, or a new one.
LEMMA RowsChange ==
    ASSUME SaveInv, NEW drop, UpShape', PlansKeepTheirRow',
           \A id \in DOMAIN report' : id \in DOMAIN report \ drop \/ (id = created + 1 /\ created' = created + 1),
           created' \in {created, created + 1}, created' <= MaxRows,
           shell' = Unlinked(drop), UNCHANGED <<shells, period, job>>,
           \A r \in Runs : up[r].at = "done" => up'[r].at = up[r].at /\ up'[r].row = up[r].row
    PROVE  SaveInv'
<1>1. TableShapes /\ JobShape' /\ OneSaves'
  BY DEF SaveInv, JobShape, OneSaves
<1>2. /\ DOMAIN shell' = DOMAIN shell /\ shell' = [s \in DOMAIN shell' |-> shell'[s]]
      /\ \A s \in DOMAIN shell : shell[s] \notin drop => shell'[s] = shell[s]
  BY DEF Unlinked
<1>3. TableShapes'
  BY <1>1, <1>2 DEF TableShapes
<1>4. ASSUME NEW r \in Runs
      PROVE  SaveStands(r)'
  <2>1. SaveStands(r) /\ r \in Actors
    BY DEF SaveInv, Actors
  <2>2. job[r].at \in {"set", "move", "tidy"} => up'[r].at = up[r].at /\ up'[r].row = up[r].row
    BY <2>1 DEF SaveStands
  <2>3. ASSUME job[r].at \in {"move", "tidy"}, up[r].row \in DOMAIN report'
        PROVE  up[r].row \in DOMAIN report /\ shell'[job[r].other] = shell[job[r].other]
    <3>1. up[r].at = "done" /\ job[r].other \in DOMAIN shell
          /\ (up[r].row \in DOMAIN report => shell[job[r].other] = up[r].row)
      BY <2>1, <2>3 DEF SaveStands
    <3>2. up[r].row \in 1 .. created
      BY <2>1, <3>1 DEF SaveInv, PlansKeepTheirRow, PlanKept
    <3>3. up[r].row \in DOMAIN report \ drop
      BY <1>1, <2>3, <3>2 DEF TableShapes
    <3>. QED
      BY <1>2, <3>1, <3>3
  <2>. QED
    BY <1>2, <2>1, <2>2, <2>3, StandsStill
<1>. QED
  BY <1>1, <1>3, <1>4 DEF SaveInv

\* The table after a plan, whose row is not among those it drops.
LEMMA RowsAfter ==
    ASSUME NEW p, p.keep \notin p.drop, Applies(p), TableShapes
    PROVE  /\ DOMAIN After(p) = (DOMAIN report \ p.drop) \cup {Target(p)}
           /\ p.keep # NoRow => Target(p) \in DOMAIN report \ p.drop
           /\ p.keep = NoRow => Target(p) = created + 1
  BY DEF After, With, Without, Target, Applies

LEMMA UpsertSteps == ASSUME SaveInv, NEW a \in Actors, Upsert(a) PROVE Upserted
<1>1. CASE Find(a)
  <2>1. PICK u : /\ UpRecord(u) /\ u.at \in {"merge", "put"} /\ u.plan.keep \notin u.plan.drop
                 /\ up' = [up EXCEPT ![a] = u]
    <3>. DEFINE ids == Matching(input[a])
                m == [Idle EXCEPT !.at = "merge", !.ids = ids]
                p == IF ids = {} THEN CreatePlan(input[a], None) ELSE PatchPlan(Min(ids), input[a])
                w == [Idle EXCEPT !.at = "put", !.plan = p]
    <3>1. p.keep \notin p.drop /\ NoPlan.keep \notin NoPlan.drop
      BY DEF CreatePlan, PatchPlan, NoPlan
    <3>2. up' \in {[up EXCEPT ![a] = m], [up EXCEPT ![a] = w]}
      BY <1>1 DEF Find
    <3>. HIDE DEF ids, p
    <3>3. UpRecord(m) /\ m.at = "merge" /\ m.plan = NoPlan
      <4>1. m = [at |-> "merge", ids |-> ids, plan |-> NoPlan, row |-> NoRow, clean |-> TRUE]
        BY IdleBut
      <4>. QED
        BY <4>1 DEF UpRecord
    <3>4. UpRecord(w) /\ w.at = "put" /\ w.plan = p
      <4>1. w = [at |-> "put", ids |-> {}, plan |-> p, row |-> NoRow, clean |-> TRUE]
        BY IdleBut
      <4>. QED
        BY <4>1 DEF UpRecord
    <3>. HIDE DEF m, w
    <3>. QED
      BY <3>1, <3>2, <3>3, <3>4
  <2>2. UpShape' /\ up'[a] = u /\ \A b \in Actors : b # a => up'[b] = up[b]
    BY <2>1, UpSet DEF SaveInv
  <2>3. PlanKept(a)'
    BY <2>1, <2>2 DEF PlanKept
  <2>. QED
    BY <1>1, <2>2, <2>3, OnlyUp DEF Find, links, Upserted
<1>2. CASE ReadAgain(a)
  <2>1. PICK u : /\ UpRecord(u) /\ u.at \in {"threw", "put"} /\ (u.at = "put" => u.plan.keep \notin u.plan.drop)
                 /\ up' = [up EXCEPT ![a] = u]
    <3>. DEFINE ids == up[a].ids \cap DOMAIN report
                p == MergePlan(ids, input[a])
                m == [Idle EXCEPT !.at = "threw"]
                v == [up[a] EXCEPT !.at = "put"]
                w == [up[a] EXCEPT !.at = "put", !.ids = {}, !.plan = p]
    <3>1. p.keep \notin p.drop
      BY DEF MergePlan
    <3>2. UpRecord(m) /\ m.at = "threw"
      <4>1. m = [at |-> "threw", ids |-> {}, plan |-> NoPlan, row |-> NoRow, clean |-> TRUE]
        BY IdleBut
      <4>. QED
        BY <4>1 DEF UpRecord
    <3>3. up' \in {[up EXCEPT ![a] = m], [up EXCEPT ![a] = w]}
      <4>1. w = [up[a] EXCEPT !.at = "put", !.ids = {}, !.plan = MergePlan(ids, input[a])]
        OBVIOUS
      <4>. QED
        BY <1>2, <4>1 DEF ReadAgain, UpShape, SaveInv
    <3>. HIDE DEF p
    <3>4. UpRecord(w) /\ w.at = "put" /\ w.plan = p
      <4>. DEFINE e == {}
                  x == [v EXCEPT !.ids = e]
      <4>1. UpRecord(v) /\ v.at = "put"
        <5>1. v = [at |-> "put", ids |-> up[a].ids, plan |-> up[a].plan, row |-> up[a].row, clean |-> up[a].clean]
          BY UpFields DEF SaveInv, UpShape
        <5>. QED
          BY <5>1 DEF UpRecord
      <4>2. w = [x EXCEPT !.plan = p]
        OBVIOUS
      <4>. HIDE DEF v, e
      <4>3. UpRecord(x) /\ x.at = "put"
        <5>1. x = [at |-> v.at, ids |-> e, plan |-> v.plan, row |-> v.row, clean |-> v.clean]
          BY <4>1, UpFields
        <5>. QED
          BY <4>1, <5>1 DEF UpRecord
      <4>. HIDE DEF x
      <4>4. w = [at |-> x.at, ids |-> x.ids, plan |-> p, row |-> x.row, clean |-> x.clean]
        BY <4>2, <4>3, UpFields
      <4>. QED
        BY <4>3, <4>4 DEF UpRecord
    <3>. HIDE DEF m, w
    <3>. QED
      BY <3>1, <3>2, <3>3, <3>4
  <2>2. UpShape' /\ up'[a] = u /\ \A b \in Actors : b # a => up'[b] = up[b]
    BY <2>1, UpSet DEF SaveInv
  <2>3. PlanKept(a)'
    BY <2>1, <2>2 DEF PlanKept
  <2>. QED
    BY <1>2, <2>2, <2>3, OnlyUp DEF ReadAgain, links, Upserted
<1>3. CASE Put(a)
  <2>. DEFINE p == up[a].plan
  <2>1. CASE ~Applies(p)
    <3>. DEFINE u == [Idle EXCEPT !.at = "threw"]
    <3>1. UpRecord(u) /\ u.at = "threw"
      <4>1. u = [at |-> "threw", ids |-> {}, plan |-> NoPlan, row |-> NoRow, clean |-> TRUE]
        BY IdleBut
      <4>. QED
        BY <4>1 DEF UpRecord
    <3>2. up' = [up EXCEPT ![a] = u] /\ up[a].at = "put" /\ UNCHANGED <<report, created, shell, shells, period, job>>
      BY <1>3, <2>1 DEF Put
    <3>. HIDE DEF u
    <3>3. UpShape' /\ up'[a] = u /\ \A b \in Actors : b # a => up'[b] = up[b]
      BY <3>1, <3>2, UpSet DEF SaveInv
    <3>. QED
      BY <3>1, <3>2, <3>3, OnlyUp DEF PlanKept, Upserted
  <2>2. CASE Applies(p)
    <3>. DEFINE t == Target(p)
                u == [Idle EXCEPT !.at = "done", !.row = t]
                v == [up EXCEPT ![a] = u]
    <3>1. /\ up[a].at = "put" /\ t \in RowIds /\ report' = After(p)
          /\ created' = IF p.keep = NoRow THEN created + 1 ELSE created
          /\ shell' = Unlinked(p.drop) /\ up' = Dirtied(v, a)
          /\ UNCHANGED <<shells, period, job>>
      BY <1>3, <2>2 DEF Put
    <3>. HIDE DEF t
    <3>2. UpRecord(u) /\ u.at = "done" /\ u.row = t
      <4>1. u = [at |-> "done", ids |-> {}, plan |-> NoPlan, row |-> t, clean |-> TRUE]
        BY IdleBut
      <4>. QED
        BY <4>1 DEF UpRecord
    <3>. HIDE DEF u
    <3>3. /\ v = [b \in Actors |-> v[b]] /\ (\A b \in Actors : UpRecord(v[b])) /\ v[a] = u
          /\ \A b \in Actors : b # a => v[b] = up[b]
      <4>1. v = [b \in Actors |-> IF b = a THEN u ELSE up[b]]
        BY DEF SaveInv, UpShape
      <4>. QED
        BY <3>2, <4>1 DEF SaveInv, UpShape
    <3>. HIDE DEF v
    <3>4. UpShape' /\ \A b \in Actors : /\ up'[b].at = v[b].at /\ up'[b].row = v[b].row
                                        /\ up'[b].plan = v[b].plan /\ (b = a => up'[b] = v[b])
      BY <3>1, <3>3, DirtiedKeeps
    <3>5. p.keep \notin p.drop /\ TableShapes /\ MaxRows \in Nat
      BY <3>1, BoundsAssumption DEF SaveInv, PlansKeepTheirRow, PlanKept
    <3>6. /\ DOMAIN report' = (DOMAIN report \ p.drop) \cup {t}
          /\ p.keep # NoRow => t \in DOMAIN report \ p.drop
          /\ p.keep = NoRow => t = created + 1
      BY <2>2, <3>1, <3>5, RowsAfter DEF t
    <3>7. created' \in {created, created + 1} /\ created' <= MaxRows /\ t \in 1 .. created' /\ created \in Nat
      BY <3>1, <3>5, <3>6 DEF TableShapes, RowIds
    <3>8. PlansKeepTheirRow'
      <4>1. ASSUME NEW b \in Actors
            PROVE  PlanKept(b)'
        <5>1. CASE b = a
          BY <3>2, <3>3, <3>4, <3>7, <5>1 DEF PlanKept
        <5>2. CASE b # a
          <6>1. PlanKept(b) /\ up'[b].at = up[b].at /\ up'[b].row = up[b].row /\ up'[b].plan = up[b].plan
            BY <3>3, <3>4, <5>2 DEF SaveInv, PlansKeepTheirRow
          <6>2. 1 .. created \subseteq 1 .. created'
            BY <3>7
          <6>. QED
            BY <6>1, <6>2 DEF PlanKept
        <5>. QED
          BY <5>1, <5>2
      <4>. QED
        BY <4>1 DEF PlansKeepTheirRow
    <3>9. \A id \in DOMAIN report' : id \in DOMAIN report \ p.drop \/ (id = created + 1 /\ created' = created + 1)
      BY <3>1, <3>6
    <3>10. \A r \in Runs : up[r].at = "done" => up'[r].at = up[r].at /\ up'[r].row = up[r].row
      BY <3>1, <3>3, <3>4 DEF Actors
    <3>. HIDE DEF p
    <3>. QED
      BY <3>1, <3>4, <3>7, <3>8, <3>9, <3>10, RowsChange DEF Upserted
  <2>. QED
    BY <2>1, <2>2
<1>. QED
  BY <1>1, <1>2, <1>3 DEF Upsert

\* Somebody other than an upsert changes rows.
LEMMA OthersChangeRows ==
    ASSUME SaveInv, NEW drop, \A id \in DOMAIN report' : id \in DOMAIN report \ drop,
           shell' = Unlinked(drop), up' = Dirtied(up, None), UNCHANGED <<created, shells, period, job>>
    PROVE  Upserted
<1>1. /\ UpShape'
      /\ \A b \in Actors : up'[b].at = up[b].at /\ up'[b].row = up[b].row /\ up'[b].plan = up[b].plan
  BY DirtiedKeeps DEF SaveInv, UpShape
<1>2. PlansKeepTheirRow'
  BY <1>1 DEF SaveInv, PlansKeepTheirRow, PlanKept
<1>3. created' \in {created, created + 1} /\ created' <= MaxRows
  BY DEF SaveInv, TableShapes
<1>. QED
  BY <1>1, <1>2, <1>3, RowsChange DEF Upserted, Actors

LEMMA StaffDeletesStep == ASSUME SaveInv, NEW id \in RowIds, StaffDeletes(id) PROVE Upserted
<1>1. \A k \in DOMAIN report' : k \in DOMAIN report \ {id}
  BY DEF StaffDeletes, Without
<1>. QED
  BY <1>1, OthersChangeRows DEF StaffDeletes

\* Where numbers are given, somebody has the least.
LEMMA LeastOf ==
    ASSUME NEW G, G # {}, NEW f, \A j \in G : f[j] \in Nat
    PROVE  \E j \in G : \A k \in G : f[j] <= f[k]
<1>. DEFINE D == {f[j] : j \in G}
            R == {p \in Nat \X Nat : p[1] < p[2]}
<1>1. IsWellFoundedOn(R, Nat)
  BY NatLessThanWellFounded DEF OpToRel
<1>2. PICK d \in D : \A e \in D : ~(<<e, d>> \in R)
  <2>1. D \subseteq Nat /\ D # {}
    OBVIOUS
  <2>. HIDE DEF D, R
  <2>. QED
    BY <1>1, <2>1, WFMin
<1>3. PICK j \in G : d = f[j]
  OBVIOUS
<1>4. ASSUME NEW k \in G PROVE f[j] <= f[k]
  <2>1. ~(<<f[k], f[j]>> \in R)
    BY <1>2, <1>3
  <2>2. ~(f[k] < f[j])
    BY <2>1
  <2>. QED
    BY <2>2
<1>. QED
  BY <1>4

\* The score of a row is a number up to that of the columns.
LEMMA ScoreBound ==
    Cardinality(Identifying) \in Nat /\ \A row : Score(row) \in Nat /\ Score(row) <= Cardinality(Identifying)
<1>1. Identifying = {"url", "sourceUrl", "s3Url", "sha256"}
  BY DEF Identifying, Columns
<1>2. IsFiniteSet({"url", "sourceUrl", "s3Url", "sha256"})
  <2>1. IsFiniteSet({} \cup {"url"})
    BY FS_EmptySet, FS_AddElement
  <2>2. IsFiniteSet(({} \cup {"url"}) \cup {"sourceUrl"})
    BY <2>1, FS_AddElement
  <2>3. IsFiniteSet((({} \cup {"url"}) \cup {"sourceUrl"}) \cup {"s3Url"})
    BY <2>2, FS_AddElement
  <2>4. IsFiniteSet(((({} \cup {"url"}) \cup {"sourceUrl"}) \cup {"s3Url"}) \cup {"sha256"})
    BY <2>3, FS_AddElement
  <2>5. ((({} \cup {"url"}) \cup {"sourceUrl"}) \cup {"s3Url"}) \cup {"sha256"} = {"url", "sourceUrl", "s3Url", "sha256"}
    OBVIOUS
  <2>. QED
    BY <2>4, <2>5
<1>3. IsFiniteSet(Identifying) /\ Cardinality(Identifying) \in Nat
  BY <1>1, <1>2, FS_CardinalityType
<1>4. ASSUME NEW row
      PROVE  Score(row) \in Nat /\ Score(row) <= Cardinality(Identifying)
  <2>. DEFINE S == {c \in Identifying : row[c] # None}
  <2>1. S \subseteq Identifying
    OBVIOUS
  <2>. HIDE DEF S
  <2>2. IsFiniteSet(S) /\ Cardinality(S) <= Cardinality(Identifying)
    BY <1>3, <2>1, FS_Subset
  <2>3. Cardinality(S) \in Nat
    BY <2>2, FS_CardinalityType
  <2>. QED
    BY <2>2, <2>3 DEF S, Score
<1>. QED
  BY <1>3, <1>4

\* One row of a group is ahead of all others.
Ahead(rows, j, k) ==
    \/ Score(rows[j]) > Score(rows[k])
    \/ /\ Score(rows[j]) = Score(rows[k])
       /\ \/ rows[j].sha256 # None /\ rows[k].sha256 = None
          \/ (rows[j].sha256 # None <=> rows[k].sha256 # None) /\ j < k

LEMMA OneIsAhead ==
    ASSUME NEW rows, NEW group, group # {}, group \subseteq RowIds
    PROVE  \E j \in group : \A k \in group \ {j} : Ahead(rows, j, k)
<1>. DEFINE M == Cardinality(Identifying)
            f == [j \in group |-> M - Score(rows[j])]
<1>1. PICK m \in group : \A k \in group : f[m] <= f[k]
  <2>1. \A j \in group : f[j] \in Nat
    BY ScoreBound
  <2>. HIDE DEF f
  <2>. QED
    BY <2>1, LeastOf
<1>2. \A k \in group : Score(rows[k]) <= Score(rows[m])
  BY <1>1, ScoreBound
<1>. DEFINE best == {k \in group : Score(rows[k]) = Score(rows[m])}
            g == [k \in best |-> IF rows[k].sha256 # None THEN 0 ELSE 1]
<1>3. PICK n \in best : \A k \in best : g[n] <= g[k]
  <2>1. best # {} /\ \A j \in best : g[j] \in Nat
    OBVIOUS
  <2>. HIDE DEF g, best
  <2>. QED
    BY <2>1, LeastOf
<1>4. \A k \in best : rows[k].sha256 # None => rows[n].sha256 # None
  BY <1>3
<1>. DEFINE first == {k \in best : rows[k].sha256 # None <=> rows[n].sha256 # None}
            h == [k \in first |-> k]
<1>5. PICK j \in first : \A k \in first : h[j] <= h[k]
  <2>1. first # {} /\ \A k \in first : h[k] \in Nat
    BY BoundsAssumption DEF RowIds
  <2>. HIDE DEF h, first
  <2>. QED
    BY <2>1, LeastOf
<1>6. j \in group /\ \A k \in first : j <= k
  BY <1>5
<1>7. ASSUME NEW k \in group \ {j}
      PROVE  Ahead(rows, j, k)
  <2>1. Score(rows[j]) = Score(rows[m]) /\ j \in Nat /\ k \in Nat
    BY <1>5, BoundsAssumption DEF RowIds
  <2>2. Score(rows[k]) \in Nat /\ Score(rows[m]) \in Nat /\ Score(rows[k]) <= Score(rows[m])
    BY <1>2, ScoreBound
  <2>3. CASE k \notin best
    BY <2>1, <2>2, <2>3 DEF Ahead
  <2>4. CASE k \in best \ first
    BY <1>4, <1>5, <2>1, <2>4 DEF Ahead
  <2>5. CASE k \in first
    BY <1>5, <1>6, <1>7, <2>1, <2>5 DEF Ahead
  <2>. QED
    BY <2>3, <2>4, <2>5
<1>. QED
  BY <1>6, <1>7

\* The dedupe script keeps a row of the group.
LEMMA KeepsOneOfThem ==
    ASSUME NEW group, group # {}, group \subseteq RowIds
    PROVE  DedupePlan(group).keep \in group
<1>1. PICK j \in group : \A k \in group \ {j} : Ahead(script.rows, j, k)
  BY OneIsAhead
<1>2. DedupePlan(group).keep = CHOOSE j1 \in group : \A k \in group \ {j1} : Ahead(script.rows, j1, k)
  BY DEF DedupePlan, Ahead
<1>. QED
  BY <1>1, <1>2

LEMMA PlanDropsTheRest == ASSUME NEW group PROVE DedupePlan(group).keep \notin DedupePlan(group).drop
  BY DEF DedupePlan

Registry == SaveInv /\ GroupsOfRows

LEMMA ScriptSteps == ASSUME Registry, Script PROVE Registry' /\ UNCHANGED job
<1>. USE DEF Registry
<1>1. ASSUME UNCHANGED vars
      PROVE  SaveInv' /\ UNCHANGED job
  BY <1>1 DEF vars, SaveInv, UpShape, JobShape, TableShapes, PlansKeepTheirRow, PlanKept, OneSaves, SaveStands, links
<1>2. CASE DedupeReads
  <2>1. script'.todo = Groups(report)
    BY <1>2 DEF DedupeReads
  <2>2. ASSUME NEW G \in Groups(report)
        PROVE  G # {} /\ G \subseteq DOMAIN report
    BY DEF Groups, Components
  <2>3. DOMAIN report \subseteq RowIds
    BY BoundsAssumption DEF SaveInv, TableShapes, RowIds
  <2>. QED
    BY <1>1, <1>2, <2>1, <2>2, <2>3 DEF DedupeReads, GroupsOfRows
<1>3. CASE DedupeMerges
  <2>1. PICK group \in script.todo :
           LET p == DedupePlan(group)
           IN IF Applies(p)
              THEN /\ report' = After(p)
                   /\ shell' = Unlinked(p.drop)
                   /\ up' = Dirtied(up, None)
                   /\ script' = [script EXCEPT !.todo = @ \ {group}]
              ELSE /\ script' = [script EXCEPT !.at = "threw"]
                   /\ UNCHANGED <<report, shell, up>>
    BY <1>3 DEF DedupeMerges
  <2>. DEFINE p == DedupePlan(group)
  <2>2. group # {} /\ group \subseteq RowIds
    BY DEF GroupsOfRows
  <2>3. p.keep \in RowIds /\ p.keep # NoRow /\ p.keep \notin p.drop
    BY <2>2, KeepsOneOfThem, PlanDropsTheRest, BoundsAssumption
  <2>. HIDE DEF p
  <2>4. CASE Applies(p)
    <3>1. /\ report' = After(p) /\ shell' = Unlinked(p.drop) /\ up' = Dirtied(up, None)
          /\ script' = [script EXCEPT !.todo = @ \ {group}] /\ UNCHANGED <<created, shells, period, job>>
      BY <1>3, <2>1, <2>4 DEF p, DedupeMerges
    <3>2. DOMAIN report' = (DOMAIN report \ p.drop) \cup {Target(p)} /\ Target(p) \in DOMAIN report \ p.drop
      BY <2>3, <2>4, <3>1, RowsAfter DEF SaveInv
    <3>3. Upserted
      BY <3>1, <3>2, OthersChangeRows
    <3>4. script'.todo \subseteq script.todo
      BY <3>1
    <3>. QED
      BY <3>3, <3>4 DEF Upserted, GroupsOfRows
  <2>5. CASE ~Applies(p)
    <3>1. UNCHANGED <<report, shell, up, created, shells, period, job, deletes, input>>
          /\ script' = [script EXCEPT !.at = "threw"]
      BY <1>3, <2>1, <2>5 DEF p, DedupeMerges
    <3>2. script'.todo = script.todo
      BY <3>1
    <3>. QED
      BY <1>1, <3>1, <3>2 DEF vars, links, GroupsOfRows
  <2>. QED
    BY <2>4, <2>5
<1>4. CASE DedupeEnds \/ BackfillEnds
  <2>1. script'.todo = script.todo
    <3>1. PICK at \in {"deduped", "backfilled"} : script' = [script EXCEPT !.at = at]
      BY <1>4 DEF DedupeEnds, BackfillEnds
    <3>. QED
      BY <3>1
  <2>. QED
    BY <1>1, <1>4, <2>1 DEF DedupeEnds, BackfillEnds, GroupsOfRows
<1>5. CASE BackfillReads
  <2>1. script'.todo = script.todo
    BY <1>5 DEF BackfillReads
  <2>. QED
    BY <1>1, <1>5, <2>1 DEF BackfillReads, GroupsOfRows
<1>6. CASE BackfillUpserts
  <2>1. UNCHANGED <<report, created, shell, shells, period, job, script>>
    BY <1>6 DEF BackfillUpserts, links
  <2>2. CASE UNCHANGED up
    BY <2>1, <2>2 DEF SaveInv, UpShape, JobShape, TableShapes, PlansKeepTheirRow, PlanKept, OneSaves, SaveStands,
                      GroupsOfRows
  <2>3. CASE up' = [up EXCEPT ![Clerk] = [Idle EXCEPT !.at = "find"]]
    <3>. DEFINE u == [Idle EXCEPT !.at = "find"]
    <3>1. UpRecord(u) /\ u.at = "find"
      <4>1. u = [at |-> "find", ids |-> {}, plan |-> NoPlan, row |-> NoRow, clean |-> TRUE]
        BY IdleBut
      <4>. QED
        BY <4>1 DEF UpRecord
    <3>. HIDE DEF u
    <3>2. Clerk \in Actors /\ Clerk \notin Runs
      BY UpkeepAssumption, ValuesAssumption DEF Actors
    <3>3. UpShape' /\ up'[Clerk] = u /\ \A b \in Actors : b # Clerk => up'[b] = up[b]
      BY <2>3, <3>1, <3>2, UpSet DEF SaveInv, u
    <3>4. PlansKeepTheirRow' /\ TableShapes' /\ JobShape' /\ OneSaves'
      BY <2>1, <3>1, <3>3 DEF SaveInv, PlansKeepTheirRow, PlanKept, TableShapes, JobShape, OneSaves
    <3>5. ASSUME NEW r \in Runs
          PROVE  SaveStands(r)'
      <4>1. SaveStands(r) /\ up'[r] = up[r]
        BY <3>2, <3>3 DEF SaveInv, Actors
      <4>. QED
        BY <2>1, <4>1, StandsStill
    <3>. QED
      BY <2>1, <3>3, <3>4, <3>5 DEF SaveInv, GroupsOfRows
  <2>. QED
    BY <1>6, <2>2, <2>3 DEF BackfillUpserts
<1>. QED
  BY <1>2, <1>3, <1>4, <1>5, <1>6 DEF Script

LEMMA RegistryInit == UpkeepInit => Registry
<1>. SUFFICES ASSUME UpkeepInit PROVE Registry
  OBVIOUS
<1>1. PICK n \in 0 .. MaxRows : report \in [1 .. n -> RowType]
  BY SeedsAssumption DEF UpkeepInit, Init
<1>2. DOMAIN report = 1 .. n /\ n \in Nat /\ n <= MaxRows
  BY <1>1, BoundsAssumption
<1>3. Cardinality(1 .. n) = n
  BY <1>2, FS_Interval
<1>4. created = n /\ shell = <<>> /\ shells = 0
  BY <1>2, <1>3 DEF UpkeepInit, Init
<1>5. TableShapes
  <2>1. DOMAIN shell = {} /\ shell = [s \in DOMAIN shell |-> shell[s]]
    BY <1>4
  <2>. QED
    BY <1>2, <1>4, <2>1 DEF TableShapes
<1>6. UpShape /\ \A a \in Actors : up[a].at \in {"idle", "find"}
  <2>. DEFINE u == [Idle EXCEPT !.at = "find"]
  <2>1. UpRecord(u) /\ u.at = "find"
    <3>1. u = [at |-> "find", ids |-> {}, plan |-> NoPlan, row |-> NoRow, clean |-> TRUE]
      BY IdleBut
    <3>. QED
      BY <3>1 DEF UpRecord
  <2>2. PICK callers \in SUBSET Posters : up = [a \in Actors |-> IF a \in callers THEN u ELSE Idle]
    BY DEF UpkeepInit, Init
  <2>. HIDE DEF u
  <2>3. up = [a \in Actors |-> up[a]] /\ \A a \in Actors : up[a] \in {u, Idle}
    BY <2>2
  <2>. QED
    BY <2>1, <2>3, IdleRecord DEF UpShape
<1>7. JobShape /\ \A r \in Runs : job[r].at \in {"parse", "failed"}
  <2>1. PICK alive \in SUBSET Runs :
           job = [r \in Runs |-> [at |-> IF r \in alive THEN "parse" ELSE "failed", row |-> NoRow,
                                 shell |-> NoShell, to |-> NoShell, other |-> NoShell]]
    BY DEF UpkeepInit, Init
  <2>. QED
    BY <2>1 DEF JobShape, JobRecord
<1>8. script.todo = {}
  BY DEF UpkeepInit
<1>. QED
  BY <1>5, <1>6, <1>7, <1>8 DEF Registry, SaveInv, PlansKeepTheirRow, PlanKept, OneSaves, SaveStands, Saving, GroupsOfRows

LEMMA UpkeepSteps ==
    ASSUME Registry, [UpkeepNext]_upvars
    PROVE  Registry' /\ \A r \in Runs : AnswerIsTrue(r)
<1>1. CASE Script
  BY <1>1, ScriptSteps DEF AnswerIsTrue
<1>2. CASE Others
  <2>1. SaveInv' /\ \A r \in Runs : AnswerIsTrue(r)
    <3>1. ASSUME NEW r \in Runs, Run(r)
          PROVE  SaveInv' /\ \A q \in Runs : AnswerIsTrue(q)
      BY <3>1, RunSteps DEF Registry
    <3>2. ASSUME NEW a \in Actors, Upsert(a)
          PROVE  SaveInv' /\ \A q \in Runs : AnswerIsTrue(q)
      BY <3>2, UpsertSteps DEF Registry, Upserted, AnswerIsTrue
    <3>3. ASSUME NEW id \in RowIds, StaffDeletes(id)
          PROVE  SaveInv' /\ \A q \in Runs : AnswerIsTrue(q)
      BY <3>3, StaffDeletesStep DEF Registry, Upserted, AnswerIsTrue
    <3>. QED
      BY <1>2, <3>1, <3>2, <3>3 DEF Others, Next
  <2>2. script'.todo = script.todo
    <3>1. CASE script' = script
      BY <3>1
    <3>2. CASE \E t \in BOOLEAN : script' = [script EXCEPT !.clean = t]
      BY <3>2
    <3>. QED
      BY <1>2, <3>1, <3>2 DEF Others
  <2>. QED
    BY <2>1, <2>2 DEF Registry, GroupsOfRows
<1>3. CASE UNCHANGED upvars
  BY <1>3 DEF upvars, vars, Registry, SaveInv, UpShape, JobShape, TableShapes, PlansKeepTheirRow, PlanKept, OneSaves,
              SaveStands, links, GroupsOfRows, AnswerIsTrue
<1>. QED
  BY <1>1, <1>2, <1>3 DEF UpkeepNext

\* A save that answers ok names a shell that has the year and the row of that shell, unless the row is gone by now.
THEOREM SavesAnswerTruly == UpkeepSpec => AnswersAreTrue
<1>1. Registry /\ [UpkeepNext]_upvars => [\A r \in Runs : AnswerIsTrue(r)]_vars
  BY UpkeepSteps
<1>2. Registry /\ [UpkeepNext]_upvars => Registry'
  BY UpkeepSteps
<1>3. AnswersAreTrue <=> [][\A r \in Runs : AnswerIsTrue(r)]_vars
  BY DEF AnswersAreTrue, AnswerIsTrue
<1>. QED
  BY RegistryInit, <1>1, <1>2, <1>3, PTL DEF UpkeepSpec
-----------------------------------------------------------------------------
(* A row that is merged from several: a fold over the set of their ids. *)

IsMerging(f, rows, keep, D) ==
    f = [s \in D |-> IF s = {} THEN rows[keep] ELSE CopyMissing(f[s \ {Max(s)}], rows[Max(s)])]
MergingOf(rows, keep, drop) == CHOOSE f : IsMerging(f, rows, keep, SUBSET drop)

\* The fold is a recursive function over the sets of rows that are merged.
LEMMA MergingIs ==
    ASSUME NEW rows, NEW keep, NEW drop
    PROVE  Merging(rows, keep, drop) = MergingOf(rows, keep, drop)[drop]
BY Zenon DEF Merging, MapThenFoldSet, MergingOf, IsMerging

\* A set of numbers has a least one.
LEMMA Least == ASSUME NEW N \in SUBSET Nat, N # {} PROVE \E n \in N : \A m \in N : n <= m
<1>. DEFINE f == [n \in N |-> n]
<1>1. \A n \in N : f[n] \in Nat /\ f[n] = n
  OBVIOUS
<1>. HIDE DEF f
<1>2. PICK n \in N : \A m \in N : f[n] <= f[m]
  BY <1>1, LeastOf
<1>. QED
  BY <1>1, <1>2

\* A set of numbers up to n that is not empty has a greatest one.
LEMMA GreatestIn == ASSUME NEW n \in Nat, NEW T, T \subseteq 1..n, T # {} PROVE Max(T) \in T
<1>. DEFINE f == [t \in T |-> n - t]
<1>1. \A t \in T : f[t] = n - t /\ f[t] \in Nat /\ t \in Nat /\ t <= n
  OBVIOUS
<1>. HIDE DEF f
<1>2. PICK t \in T : \A u \in T : f[t] <= f[u]
  BY <1>1, LeastOf
<1>3. \A u \in T : t >= u
  <2>. TAKE u \in T
  <2>1. n - t <= n - u /\ t \in Nat /\ u \in Nat
    BY <1>1, <1>2
  <2>. QED
    BY <2>1
<1>. QED
  BY <1>3 DEF Max

\* The sets below a finite one, and taking one element from them.
Below(drop) ==
    \A s \in SUBSET drop :
        /\ IsFiniteSet(s) /\ Cardinality(s) \in Nat /\ Cardinality(s) <= Cardinality(drop)
        /\ s # {} => /\ Max(s) \in s /\ s \ {Max(s)} \in SUBSET drop
                    /\ Cardinality(s \ {Max(s)}) = Cardinality(s) - 1 /\ Cardinality(s) # 0

LEMMA SmallerSets == ASSUME NEW n \in Nat, NEW drop, drop \subseteq 1..n PROVE Below(drop)
<1>. USE DEF Below
<1>1. IsFiniteSet(drop)
  <2>1. IsFiniteSet(1..n)
    BY FS_Interval
  <2>. QED
    BY <2>1, FS_Subset
<1>. TAKE s \in SUBSET drop
<1>2. IsFiniteSet(s) /\ Cardinality(s) <= Cardinality(drop)
  BY <1>1, FS_Subset
<1>3. Cardinality(s) \in Nat
  BY <1>2, FS_CardinalityType
<1>4. ASSUME s # {}
      PROVE  /\ Max(s) \in s /\ s \ {Max(s)} \in SUBSET drop
             /\ Cardinality(s \ {Max(s)}) = Cardinality(s) - 1 /\ Cardinality(s) # 0
  <2>1. s \subseteq 1..n
    OBVIOUS
  <2>2. Max(s) \in s
    BY <1>4, <2>1, GreatestIn
  <2>3. Cardinality(s \ {Max(s)}) = Cardinality(s) - 1
    BY <1>2, <2>2, FS_RemoveElement
  <2>4. Cardinality(s) # 0
    BY <1>2, <1>4, FS_EmptySet
  <2>. QED
    BY <2>2, <2>3, <2>4
<1>. QED
  BY <1>2, <1>3, <1>4

\* That function exists: for sets up to every size, the least size without one cannot be.
LEMMA MergingExists ==
    ASSUME NEW rows, NEW keep, NEW n \in Nat, NEW drop, drop \subseteq 1..n
    PROVE  IsMerging(MergingOf(rows, keep, drop), rows, keep, SUBSET drop)
<1>. DEFINE Small(m) == {s \in SUBSET drop : Cardinality(s) < m}
            Bad == {m \in Nat : ~ \E f : IsMerging(f, rows, keep, Small(m))}
<1>0. Below(drop)
  BY SmallerSets
<1>. USE DEF Below
<1>1. Bad = {}
  <2>. SUFFICES ASSUME Bad # {} PROVE FALSE
    OBVIOUS
  <2>1. PICK m \in Bad : \A k \in Bad : m <= k
    BY Least
  <2>2. m # 0
    <3>1. ASSUME NEW s \in Small(0) PROVE FALSE
      <4>1. s \in SUBSET drop /\ Cardinality(s) < 0
        OBVIOUS
      <4>2. Cardinality(s) \in Nat
        BY <1>0, <4>1
      <4>. QED
        BY <4>1, <4>2
    <3>2. IsMerging([s \in {} |-> 0], rows, keep, {})
      BY DEF IsMerging
    <3>3. Small(0) = {}
      BY <3>1
    <3>. QED
      BY <3>2, <3>3
  <2>3. m - 1 \in Nat /\ m - 1 \notin Bad
    <3>. HIDE DEF Small
    <3>1. m \in Nat /\ m - 1 \in Nat /\ ~(m <= m - 1)
      BY <2>2
    <3>. QED
      BY <2>1, <3>1
  <2>4. PICK f : IsMerging(f, rows, keep, Small(m - 1))
    BY <2>3
  <2>. DEFINE g == [s \in Small(m) |-> IF s = {} THEN rows[keep] ELSE CopyMissing(f[s \ {Max(s)}], rows[Max(s)])]
  <2>5. \A s \in Small(m) : s # {} => s \ {Max(s)} \in Small(m - 1)
    BY <1>0, <2>3
  <2>6. Small(m - 1) \subseteq Small(m)
    <3>. SUFFICES ASSUME NEW s \in Small(m - 1) PROVE s \in Small(m)
      OBVIOUS
    <3>1. s \in SUBSET drop /\ Cardinality(s) < m - 1
      OBVIOUS
    <3>2. Cardinality(s) \in Nat
      BY <1>0, <3>1
    <3>. QED
      BY <2>3, <3>1, <3>2
  <2>7. \A s \in Small(m - 1) : f[s] = g[s]
    BY <2>4, <2>6 DEF IsMerging
  <2>8. IsMerging(g, rows, keep, Small(m))
    <3>. HIDE DEF Small
    <3>. QED
      BY <2>5, <2>6, <2>7 DEF IsMerging
  <2>. QED
    BY <2>8, <2>1
<1>2. Cardinality(drop) \in Nat /\ Cardinality(drop) + 1 \in Nat
  <2>1. drop \in SUBSET drop
    OBVIOUS
  <2>2. Cardinality(drop) \in Nat
    BY <1>0, <2>1
  <2>. QED
    BY <2>2
<1>3. SUBSET drop = Small(Cardinality(drop) + 1)
  <2>. SUFFICES ASSUME NEW s \in SUBSET drop PROVE s \in Small(Cardinality(drop) + 1)
    OBVIOUS
  <2>1. Cardinality(s) <= Cardinality(drop) /\ Cardinality(s) \in Nat
    BY <1>0
  <2>2. Cardinality(s) < Cardinality(drop) + 1
    BY <1>2, <2>1
  <2>. QED
    BY <2>2
<1>4. PICK f : IsMerging(f, rows, keep, Small(Cardinality(drop) + 1))
  BY <1>1, <1>2
<1>. HIDE DEF Small
<1>. QED
  BY <1>3, <1>4 DEF MergingOf

\* What is so of the row that is kept, and with each row that is copied into it of one set more, is so of
\* the merged row: G gives, for each set of rows that are copied, what the row may be by then.
LEMMA MergingFollows ==
    ASSUME NEW rows, NEW keep, NEW n \in Nat, NEW drop, drop \subseteq 1..n,
           NEW G, rows[keep] \in G[{}],
           \A s \in SUBSET drop : \A x \in s : \A row \in G[s \ {x}] : CopyMissing(row, rows[x]) \in G[s]
    PROVE  Merging(rows, keep, drop) \in G[drop]
<1>. DEFINE f == MergingOf(rows, keep, drop)
            Bad == {Cardinality(s) : s \in {t \in SUBSET drop : f[t] \notin G[t]}}
<1>0. Below(drop)
  BY SmallerSets
<1>. USE DEF Below
<1>1. IsMerging(f, rows, keep, SUBSET drop)
  BY MergingExists
<1>2. Bad = {}
  <2>. SUFFICES ASSUME Bad # {} PROVE FALSE
    OBVIOUS
  <2>1. PICK m \in Bad : \A k \in Bad : m <= k
    <3>1. Bad \subseteq Nat
      BY <1>0
    <3>. HIDE DEF Bad
    <3>. QED
      BY <3>1, Least
  <2>2. PICK s \in SUBSET drop : f[s] \notin G[s] /\ Cardinality(s) = m
    OBVIOUS
  <2>3. s # {}
    BY <1>1, <2>2 DEF IsMerging
  <2>. DEFINE x == Max(s)
  <2>4. x \in s /\ s \ {x} \in SUBSET drop
    BY <1>0, <2>3
  <2>5. /\ Cardinality(s \ {x}) \in Nat /\ Cardinality(s) \in Nat /\ Cardinality(s \ {x}) = Cardinality(s) - 1
        /\ ~(Cardinality(s) <= Cardinality(s \ {x}))
    <3>1. Cardinality(s \ {x}) = Cardinality(s) - 1
      BY <1>0, <2>3
    <3>2. Cardinality(s \ {x}) \in Nat /\ Cardinality(s) \in Nat
      BY <1>0, <2>4
    <3>. QED
      BY <3>1, <3>2
  <2>6. f[s \ {x}] \in G[s \ {x}]
    <3>. SUFFICES ASSUME f[s \ {x}] \notin G[s \ {x}] PROVE FALSE
      OBVIOUS
    <3>1. Cardinality(s \ {x}) \in Bad
      BY <2>4
    <3>. QED
      BY <2>1, <2>2, <2>5, <3>1
  <2>7. f[s] = CopyMissing(f[s \ {x}], rows[x])
    BY <1>1, <2>3 DEF IsMerging
  <2>. QED
    BY <2>2, <2>4, <2>6, <2>7
<1>3. f[drop] \in G[drop]
  BY <1>2
<1>. QED
  BY <1>3, MergingIs

\* What is so of the row that is kept, and stays so when another is copied into it, is so of the merged row.
LEMMA MergingStays ==
    ASSUME NEW rows, NEW keep, NEW n \in Nat, NEW drop, drop \subseteq 1..n,
           NEW V, rows[keep] \in V, \A row \in V, x \in drop : CopyMissing(row, rows[x]) \in V
    PROVE  Merging(rows, keep, drop) \in V
<1>. DEFINE G == [s \in SUBSET drop |-> V]
<1>1. G[{}] = V /\ G[drop] = V
  OBVIOUS
<1>2. \A s \in SUBSET drop : \A x \in s : G[s \ {x}] = V /\ G[s] = V /\ x \in drop
  OBVIOUS
<1>. HIDE DEF G
<1>3. Merging(rows, keep, drop) \in G[drop]
  BY <1>1, <1>2, MergingFollows
<1>. QED
  BY <1>1, <1>3

-----------------------------------------------------------------------------
(* The groups of the dedupe script *)

ClosedIn(C, S, linked) == \A a \in C, b \in S \ C : <<a, b>> \notin linked /\ <<b, a>> \notin linked

LEMMA ComponentsAre ==
    ASSUME NEW S, NEW linked, NEW C
    PROVE  C \in Components(S, linked) <=>
               /\ C \in SUBSET S /\ C # {} /\ ClosedIn(C, S, linked)
               /\ \A D \in SUBSET C : D # {} /\ D # C => ~ClosedIn(D, S, linked)
<1>. DEFINE Closed(B) == \A a \in B, b \in S \ B : <<a, b>> \notin linked /\ <<b, a>> \notin linked
<1>1. Components(S, linked) = {B \in (SUBSET S) \ {{}} : Closed(B) /\ \A D \in (SUBSET B) \ {{}, B} : ~Closed(D)}
  BY Zenon DEF Components
<1>2. \A B : Closed(B) <=> ClosedIn(B, S, linked)
  BY DEF ClosedIn
<1>. HIDE DEF Closed
<1>. QED
  BY <1>1, <1>2

\* Two components with an element in common are one.
LEMMA ComponentsDiffer ==
    ASSUME NEW S, NEW linked, NEW C \in Components(S, linked), NEW D \in Components(S, linked),
           NEW x \in C, x \in D
    PROVE  C = D
<1>. DEFINE B == C \cap D
<1>1. /\ C \in SUBSET S /\ ClosedIn(C, S, linked) /\ D \in SUBSET S /\ ClosedIn(D, S, linked)
      /\ \A E \in SUBSET C : E # {} /\ E # C => ~ClosedIn(E, S, linked)
      /\ \A E \in SUBSET D : E # {} /\ E # D => ~ClosedIn(E, S, linked)
  BY ComponentsAre
<1>2. ClosedIn(B, S, linked)
  BY <1>1 DEF ClosedIn
<1>3. B # {} /\ B \in SUBSET C /\ B \in SUBSET D
  OBVIOUS
<1>. HIDE DEF B
<1>4. B = C /\ B = D
  BY <1>1, <1>2, <1>3
<1>. QED
  BY <1>4

\* Everything is in a component: in the least closed set around it.
LEMMA ComponentsCover ==
    ASSUME NEW S, NEW linked, NEW x \in S
    PROVE  \E C \in Components(S, linked) : x \in C
<1>. DEFINE Around == {D \in SUBSET S : x \in D /\ ClosedIn(D, S, linked)}
            C == {y \in S : \A D \in Around : y \in D}
<1>1. C \in SUBSET S /\ x \in C
  OBVIOUS
<1>2. ClosedIn(C, S, linked)
  <2>1. ASSUME NEW a \in C, NEW b \in S \ C
        PROVE  <<a, b>> \notin linked /\ <<b, a>> \notin linked
    <3>1. PICK D \in Around : b \notin D
      OBVIOUS
    <3>2. a \in D /\ ClosedIn(D, S, linked)
      OBVIOUS
    <3>. QED
      BY <3>1, <3>2 DEF ClosedIn
  <2>. HIDE DEF C
  <2>. QED
    BY <2>1 DEF ClosedIn
<1>3. ASSUME NEW D \in SUBSET C, D # {}, D # C, ClosedIn(D, S, linked)
      PROVE  FALSE
  <2>1. CASE x \in D
    <3>1. D \in Around
      BY <1>1, <1>3, <2>1
    <3>2. C \subseteq D
      BY <3>1
    <3>. QED
      BY <1>3, <3>2
  <2>2. CASE x \notin D
    <3>. DEFINE B == S \ D
    <3>1. ClosedIn(B, S, linked)
      BY <1>1, <1>3 DEF ClosedIn
    <3>2. B \in Around
      BY <2>2, <3>1
    <3>3. C \subseteq B
      BY <3>2
    <3>. QED
      BY <1>3, <3>3
  <2>. QED
    BY <2>1, <2>2
<1>. HIDE DEF C
<1>. QED
  BY <1>1, <1>2, <1>3, ComponentsAre

\* What is linked is in one component.
LEMMA LinkedTogether ==
    ASSUME NEW S, NEW linked, NEW a \in S, NEW b \in S, <<a, b>> \in linked,
           NEW C \in Components(S, linked), a \in C
    PROVE  b \in C
<1>1. ClosedIn(C, S, linked)
  BY ComponentsAre
<1>. QED
  BY <1>1 DEF ClosedIn

LinkedRows(rows) == {e \in (DOMAIN rows) \X (DOMAIN rows) : OneDocument(rows[e[1]], rows[e[2]])}
PartsOf(rows) == Components(DOMAIN rows, LinkedRows(rows))
\* Two rows of one document, as the dedupe script groups them.
Together(rows, i, j) == \E C \in PartsOf(rows) : i \in C /\ j \in C

LEMMA GroupsAre == ASSUME NEW rows, NEW G PROVE G \in Groups(rows) <=> G \in PartsOf(rows) /\ Cardinality(G) > 1
  BY DEF Groups, PartsOf, LinkedRows

LEMMA TogetherWorks ==
    ASSUME NEW rows
    PROVE  /\ \A i \in DOMAIN rows : Together(rows, i, i)
           /\ \A i, j : Together(rows, i, j) => i \in DOMAIN rows /\ j \in DOMAIN rows /\ Together(rows, j, i)
           /\ \A i, j, k : Together(rows, i, j) /\ Together(rows, j, k) => Together(rows, i, k)
           /\ \A i, j \in DOMAIN rows : OneDocument(rows[i], rows[j]) => Together(rows, i, j)
<1>1. \A i \in DOMAIN rows : Together(rows, i, i)
  BY ComponentsCover DEF Together, PartsOf
<1>2. \A i, j : Together(rows, i, j) => i \in DOMAIN rows /\ j \in DOMAIN rows /\ Together(rows, j, i)
  BY ComponentsAre DEF Together, PartsOf
<1>3. ASSUME NEW i, NEW j, NEW k, Together(rows, i, j), Together(rows, j, k)
      PROVE  Together(rows, i, k)
  <2>1. PICK C \in PartsOf(rows) : i \in C /\ j \in C
    BY <1>3 DEF Together
  <2>2. PICK D \in PartsOf(rows) : j \in D /\ k \in D
    BY <1>3 DEF Together
  <2>3. C = D
    BY <2>1, <2>2, ComponentsDiffer DEF PartsOf
  <2>. QED
    BY <2>1, <2>2, <2>3 DEF Together
<1>4. ASSUME NEW i \in DOMAIN rows, NEW j \in DOMAIN rows, OneDocument(rows[i], rows[j])
      PROVE  Together(rows, i, j)
  <2>1. <<i, j>> \in LinkedRows(rows)
    BY <1>4 DEF LinkedRows
  <2>2. PICK C \in PartsOf(rows) : i \in C
    BY ComponentsCover DEF PartsOf
  <2>. QED
    BY <2>1, <2>2, LinkedTogether DEF Together, PartsOf
<1>. QED
  BY <1>1, <1>2, <1>3, <1>4

\* Two rows of one document make a group.
LEMMA TogetherInGroup ==
    ASSUME NEW rows, NEW n \in Nat, DOMAIN rows \subseteq 1..n, NEW j, NEW k, j # k, Together(rows, j, k)
    PROVE  \E G \in Groups(rows) : j \in G /\ k \in G
<1>1. PICK C \in PartsOf(rows) : j \in C /\ k \in C
  BY DEF Together
<1>2. C \subseteq 1..n
  BY ComponentsAre DEF PartsOf
<1>3. IsFiniteSet(1..n)
  BY FS_Interval
<1>4. IsFiniteSet(C)
  BY <1>2, <1>3, FS_Subset
<1>5. Cardinality(C) > 1
  <2>1. IsFiniteSet(C \ {j}) /\ Cardinality(C \ {j}) = Cardinality(C) - 1
    BY <1>1, <1>4, FS_RemoveElement
  <2>2. Cardinality(C) \in Nat /\ Cardinality(C \ {j}) \in Nat
    BY <1>4, <2>1, FS_CardinalityType
  <2>3. Cardinality(C \ {j}) # 0
    BY <1>1, <2>1, FS_EmptySet
  <2>. QED
    BY <2>1, <2>2, <2>3
<1>. QED
  BY <1>1, <1>5, GroupsAre

-----------------------------------------------------------------------------
(* What a step does to upserts and rows *)

Undisturbed(b) == up'[b].clean => up[b].clean /\ report' = report

\* Where the rows of a merge come from,
MergeFrom(b) == up'[b].at = "merge" =>
    \/ up[b].at = "merge" /\ up'[b].ids = up[b].ids /\ Undisturbed(b)
    \/ up[b].at = "find" /\ report' = report /\ up'[b].ids = Matching(input[b])

\* where a plan comes from,
PutFrom(b) == up'[b].at = "put" =>
    \/ up[b].at = "put" /\ up'[b].plan = up[b].plan /\ Undisturbed(b)
    \/ b \in Runs /\ job'[b].at = "store" /\ report' = report /\ up'[b].plan = StorePlan(input[b])
    \/ /\ up[b].at = "find" /\ report' = report /\ ~(Cardinality(Matching(input[b])) > 1)
       /\ up'[b].plan = IF Matching(input[b]) = {} THEN CreatePlan(input[b], None)
                        ELSE PatchPlan(Min(Matching(input[b])), input[b])
    \/ /\ up[b].at = "merge" /\ report' = report /\ (up'[b].clean => up[b].clean)
       /\ up[b].ids \cap DOMAIN report # {}
       /\ up'[b].plan = MergePlan(up[b].ids \cap DOMAIN report, input[b])

\* what a plan does to the table,
RowsFrom ==
    \/ report' = report
    \/ \E a \in Actors : up[a].at = "put" /\ Applies(up[a].plan) /\ report' = After(up[a].plan)
    \/ \E id \in RowIds : report' = Without(report, {id})
    \/ script.at = "merging" /\ \E group \in script.todo : /\ Applies(DedupePlan(group))
                                                           /\ report' = After(DedupePlan(group))

\* and what the scripts change of an actor.
ClerkFrom ==
    \/ input' = input
    \/ /\ script.at = "upserting" /\ up[Clerk].at \in {"idle", "done", "threw"} /\ up'[Clerk].at = "find"
       /\ \E group \in clusters : /\ Payload(group).url # None
                                  /\ input' = [input EXCEPT ![Clerk] = Payload(group)]

StepsFrom == (\A b \in Actors : MergeFrom(b) /\ PutFrom(b)) /\ RowsFrom /\ ClerkFrom

LEMMA DirtiedSpoils ==
    ASSUME NEW u, u = [b \in Actors |-> u[b]], \A b \in Actors : UpRecord(u[b]), NEW a, up' = Dirtied(u, a)
    PROVE  \A b \in Actors : /\ up'[b].ids = u[b].ids
                             /\ b # a /\ u[b].at \in {"merge", "put"} => up'[b].clean = FALSE
                             /\ u[b].at \notin {"merge", "put"} => up'[b] = u[b]
<1>1. ASSUME NEW b \in Actors, NEW w, w = [u[b] EXCEPT !.clean = FALSE]
      PROVE  w.ids = u[b].ids /\ w.clean = FALSE
  <2>1. w = [at |-> u[b].at, ids |-> u[b].ids, plan |-> u[b].plan, row |-> u[b].row, clean |-> FALSE]
    BY <1>1, UpFields
  <2>. QED
    BY <2>1
<1>2. \A b \in Actors : up'[b] = IF b # a /\ u[b].at \in {"merge", "put"} THEN [u[b] EXCEPT !.clean = FALSE] ELSE u[b]
  BY DEF Dirtied
<1>. TAKE b \in Actors
<1>3. CASE b # a /\ u[b].at \in {"merge", "put"}
  <2>1. up'[b] = [u[b] EXCEPT !.clean = FALSE]
    BY <1>2, <1>3
  <2>. DEFINE w == [u[b] EXCEPT !.clean = FALSE]
  <2>2. w.ids = u[b].ids /\ w.clean = FALSE
    BY <1>1
  <2>. HIDE DEF w
  <2>3. up'[b] = w
    BY <2>1 DEF w
  <2>. QED
    BY <1>3, <2>2, <2>3
<1>4. CASE ~(b # a /\ u[b].at \in {"merge", "put"})
  <2>1. up'[b] = u[b]
    BY <1>2, <1>4
  <2>. QED
    BY <1>4, <2>1
<1>. QED
  BY <1>3, <1>4

\* Others write: what somebody was about to do is not clean any more.
LEMMA SpoiltAreKept ==
    ASSUME NEW u, u = [b \in Actors |-> u[b]], \A b \in Actors : UpRecord(u[b]), NEW a, up' = Dirtied(u, a),
           NEW b \in Actors, b # a, u[b] = up[b]
    PROVE  MergeFrom(b) /\ PutFrom(b)
<1>1. up'[b].at = up[b].at /\ up'[b].plan = up[b].plan
  BY DirtiedKeeps
<1>2. up'[b].ids = up[b].ids /\ (up[b].at \in {"merge", "put"} => up'[b].clean = FALSE)
  <2>1. /\ up'[b].ids = u[b].ids
        /\ b # a /\ u[b].at \in {"merge", "put"} => up'[b].clean = FALSE
    BY DirtiedSpoils
  <2>. QED
    BY <2>1
<1>. QED
  BY <1>1, <1>2 DEF MergeFrom, PutFrom, Undisturbed

LEMMA RestIsKept ==
    ASSUME NEW b \in Actors, up'[b] = up[b] \/ up'[b].at \notin {"merge", "put"}, report' = report
    PROVE  MergeFrom(b) /\ PutFrom(b)
  BY DEF MergeFrom, PutFrom, Undisturbed

LEMMA FromRun == ASSUME SaveInv, NEW r \in Runs, Run(r) PROVE StepsFrom
<1>1. OfRun(r) /\ input' = input
  <2>1. OfRun(r)
    <3>1. Stepped(r)
      BY ParseSteps, CheckEndsStep, SaveBeginsStep, SaveInfersStep, SavePeriodStep, LinkBeginsStep, LinkFindsStep,
         LinkSetsStep, LinkMovesStep, LinkTidiesStep DEF Run
    <3>. QED
      BY <3>1 DEF Stepped
  <2>2. input' = input
    BY DEF Run, ParseFinds, ParseEnds, CheckBegins, EarlyReturns, CheckEnds, SaveBegins, SaveInfers, SavePeriod,
           LinkBegins, LinkFinds, LinkSets, LinkMoves, LinkTidies
  <2>. QED
    BY <2>1, <2>2
<1>2. report' = report /\ \A b \in Actors : b # r => up'[b] = up[b]
  BY <1>1 DEF OfRun
<1>3. ASSUME up'[r].at \in {"merge", "put"}, up'[r] # up[r]
      PROVE  job'[r].at = "store" /\ up'[r].at = "put" /\ up'[r].plan = StorePlan(input[r])
  <2>1. r \in Actors /\ UpShape /\ JobShape
    BY DEF Actors, SaveInv
  <2>2. CASE ParseFinds(r)
    <3>. DEFINE p == StorePlan(input[r])
                u == [Idle EXCEPT !.at = "put", !.plan = p]
    <3>1. up' = [up EXCEPT ![r] = u]
      BY <2>2 DEF ParseFinds
    <3>2. up'[r] = u
      BY <2>1, <3>1 DEF UpShape
    <3>. HIDE DEF p
    <3>3. u = [at |-> "put", ids |-> {}, plan |-> p, row |-> NoRow, clean |-> TRUE]
      BY IdleBut
    <3>4. job'[r].at = "store"
      <4>1. Becomes(r, "store", job[r].row, job[r].shell, job[r].to, job[r].other)
        BY <2>1, <2>2, JobTo DEF ParseFinds
      <4>. QED
        BY <4>1 DEF Becomes
    <3>. QED
      BY <3>2, <3>3, <3>4 DEF p
  <2>3. CASE ~ParseFinds(r)
    <3>1. up' = up \/ Return(r) \/ Call(r)
      BY <2>3 DEF Run, ParseEnds, CheckBegins, EarlyReturns, CheckEnds, SaveBegins, SaveInfers, SavePeriod,
                  LinkBegins, LinkFinds, LinkSets, LinkMoves, LinkTidies
    <3>2. ASSUME Return(r) PROVE up'[r].at = "idle"
      BY <2>1, <3>2, IdleRecord DEF Return, UpShape
    <3>3. ASSUME Call(r) PROVE up'[r].at = "find"
      <4>. DEFINE u == [Idle EXCEPT !.at = "find"]
      <4>1. u = [at |-> "find", ids |-> {}, plan |-> NoPlan, row |-> NoRow, clean |-> TRUE]
        BY IdleBut
      <4>2. up'[r] = u
        BY <2>1, <3>3 DEF Call, UpShape
      <4>. HIDE DEF u
      <4>. QED
        BY <4>1, <4>2
    <3>. QED
      BY <1>3, <3>1, <3>2, <3>3
  <2>. QED
    BY <2>2, <2>3
<1>4. ASSUME NEW b \in Actors PROVE MergeFrom(b) /\ PutFrom(b)
  <2>1. CASE b # r \/ up'[b] = up[b] \/ up'[b].at \notin {"merge", "put"}
    BY <1>2, <2>1, RestIsKept
  <2>2. CASE b = r /\ up'[b] # up[b] /\ up'[b].at \in {"merge", "put"}
    BY <1>2, <1>3, <2>2 DEF MergeFrom, PutFrom
  <2>. QED
    BY <2>1, <2>2
<1>. QED
  BY <1>1, <1>2, <1>4 DEF StepsFrom, RowsFrom, ClerkFrom

LEMMA FromUpsert == ASSUME SaveInv, NEW a \in Actors, Upsert(a) PROVE StepsFrom
<1>0. UpShape /\ UpRecord(up[a]) /\ input' = input
  BY DEF SaveInv, UpShape, Upsert, Find, ReadAgain, Put
<1>1. CASE Find(a)
  <2>. DEFINE ids == Matching(input[a])
              m == [Idle EXCEPT !.at = "merge", !.ids = ids]
              p == IF ids = {} THEN CreatePlan(input[a], None) ELSE PatchPlan(Min(ids), input[a])
              w == [Idle EXCEPT !.at = "put", !.plan = p]
              v == IF Cardinality(ids) > 1 THEN m ELSE w
  <2>1. up' = [up EXCEPT ![a] = v] /\ up[a].at = "find" /\ report' = report
    BY <1>1 DEF Find
  <2>. HIDE DEF ids, p
  <2>2. m = [at |-> "merge", ids |-> ids, plan |-> NoPlan, row |-> NoRow, clean |-> TRUE]
    BY IdleBut
  <2>3. w = [at |-> "put", ids |-> {}, plan |-> p, row |-> NoRow, clean |-> TRUE]
    BY IdleBut
  <2>. HIDE DEF m, w
  <2>4. up'[a] = v /\ \A b \in Actors : b # a => up'[b] = up[b]
    BY <1>0, <2>1 DEF UpShape
  <2>5. MergeFrom(a) /\ PutFrom(a)
    <3>1. CASE Cardinality(ids) > 1
      BY <2>1, <2>2, <2>4, <3>1 DEF MergeFrom, PutFrom, ids
    <3>2. CASE ~(Cardinality(ids) > 1)
      BY <2>1, <2>3, <2>4, <3>2 DEF MergeFrom, PutFrom, ids, p
    <3>. QED
      BY <3>1, <3>2
  <2>. QED
    BY <1>0, <2>1, <2>4, <2>5, RestIsKept DEF StepsFrom, RowsFrom, ClerkFrom
<1>2. CASE ReadAgain(a)
  <2>. DEFINE ids == up[a].ids \cap DOMAIN report
              p == MergePlan(ids, input[a])
              m == [Idle EXCEPT !.at = "threw"]
              e == {}
              w1 == [up[a] EXCEPT !.at = "put"]
              w2 == [w1 EXCEPT !.ids = e]
              w3 == [w2 EXCEPT !.plan = p]
              v == IF ids = {} THEN m ELSE w3
  <2>1. up' = [up EXCEPT ![a] = v] /\ up[a].at = "merge" /\ report' = report
    <3>1. up[a].at = "merge" /\ report' = report
          /\ up' = [up EXCEPT ![a] = IF ids = {} THEN m ELSE [@ EXCEPT !.at = "put", !.ids = {}, !.plan = p]]
      BY <1>2 DEF ReadAgain
    <3>. HIDE DEF p, m
    <3>2. w3 = [up[a] EXCEPT !.at = "put", !.ids = {}, !.plan = p]
      OBVIOUS
    <3>. HIDE DEF w3
    <3>. QED
      BY <1>0, <3>1, <3>2 DEF UpShape
  <2>. HIDE DEF p, e, ids
  <2>2. m = [at |-> "threw", ids |-> {}, plan |-> NoPlan, row |-> NoRow, clean |-> TRUE]
    BY IdleBut
  <2>. HIDE DEF m
  <2>3. w1 = [at |-> "put", ids |-> up[a].ids, plan |-> up[a].plan, row |-> up[a].row, clean |-> up[a].clean]
    BY <1>0, UpFields
  <2>4. UpRecord(w1) /\ w1.at = "put" /\ w1.clean = up[a].clean
    BY <2>3 DEF UpRecord
  <2>. HIDE DEF w1
  <2>5. w2 = [at |-> "put", ids |-> e, plan |-> w1.plan, row |-> w1.row, clean |-> up[a].clean]
    <3>1. w2 = [at |-> w1.at, ids |-> e, plan |-> w1.plan, row |-> w1.row, clean |-> w1.clean]
      BY <2>4, UpFields
    <3>. QED
      BY <2>4, <3>1, Zenon
  <2>6. UpRecord(w2) /\ w2.at = "put" /\ w2.clean = up[a].clean
    BY <2>5 DEF UpRecord
  <2>. HIDE DEF w2
  <2>7. w3 = [at |-> "put", ids |-> w2.ids, plan |-> p, row |-> w2.row, clean |-> up[a].clean]
    <3>1. w3 = [at |-> w2.at, ids |-> w2.ids, plan |-> p, row |-> w2.row, clean |-> w2.clean]
      BY <2>6, UpFields
    <3>. QED
      BY <2>6, <3>1, Zenon
  <2>. HIDE DEF w3
  <2>8. up'[a] = v /\ \A b \in Actors : b # a => up'[b] = up[b]
    BY <1>0, <2>1 DEF UpShape
  <2>9. MergeFrom(a) /\ PutFrom(a)
    <3>1. CASE ids = {}
      BY <2>1, <2>2, <2>8, <3>1 DEF MergeFrom, PutFrom
    <3>2. CASE ids # {}
      <4>1. v = w3
        BY <3>2
      <4>2. up'[a].at = "put" /\ up'[a].plan = p /\ up'[a].clean = up[a].clean
        BY <2>7, <2>8, <4>1
      <4>. HIDE DEF v
      <4>. QED
        BY <2>1, <3>2, <4>2 DEF MergeFrom, PutFrom, ids, p
    <3>. QED
      BY <3>1, <3>2
  <2>. QED
    BY <1>0, <2>1, <2>8, <2>9, RestIsKept DEF StepsFrom, RowsFrom, ClerkFrom
<1>3. CASE Put(a)
  <2>. DEFINE p == up[a].plan
  <2>1. CASE ~Applies(p)
    <3>. DEFINE u == [Idle EXCEPT !.at = "threw"]
    <3>1. u = [at |-> "threw", ids |-> {}, plan |-> NoPlan, row |-> NoRow, clean |-> TRUE]
      BY IdleBut
    <3>2. up' = [up EXCEPT ![a] = u] /\ report' = report
      BY <1>3, <2>1 DEF Put
    <3>. HIDE DEF u
    <3>3. up'[a].at = "threw" /\ \A b \in Actors : b # a => up'[b] = up[b]
      BY <1>0, <3>1, <3>2 DEF UpShape
    <3>. QED
      BY <1>0, <3>2, <3>3, RestIsKept DEF StepsFrom, RowsFrom, ClerkFrom
  <2>2. CASE Applies(p)
    <3>. DEFINE t == Target(p)
                u == [Idle EXCEPT !.at = "done", !.row = t]
                v == [up EXCEPT ![a] = u]
    <3>1. up[a].at = "put" /\ report' = After(p) /\ up' = Dirtied(v, a)
      BY <1>3, <2>2 DEF Put
    <3>. HIDE DEF t
    <3>2. UpRecord(u) /\ u.at = "done"
      <4>1. u = [at |-> "done", ids |-> {}, plan |-> NoPlan, row |-> t, clean |-> TRUE]
        BY IdleBut
      <4>. QED
        BY <4>1 DEF UpRecord
    <3>. HIDE DEF u
    <3>3. /\ v = [b \in Actors |-> v[b]] /\ (\A b \in Actors : UpRecord(v[b])) /\ v[a] = u
          /\ \A b \in Actors : b # a => v[b] = up[b]
      <4>1. v = [b \in Actors |-> IF b = a THEN u ELSE up[b]]
        BY DEF SaveInv, UpShape
      <4>. QED
        BY <3>2, <4>1 DEF SaveInv, UpShape
    <3>. HIDE DEF v
    <3>4. up'[a].at = "done"
      BY <3>1, <3>2, <3>3, DirtiedKeeps
    <3>5. ASSUME NEW b \in Actors PROVE MergeFrom(b) /\ PutFrom(b)
      <4>1. CASE b = a
        BY <3>4, <4>1 DEF MergeFrom, PutFrom
      <4>2. CASE b # a
        BY <3>1, <3>3, <4>2, SpoiltAreKept
      <4>. QED
        BY <4>1, <4>2
    <3>6. RowsFrom
      BY <2>2, <3>1 DEF RowsFrom
    <3>. QED
      BY <1>0, <3>5, <3>6 DEF StepsFrom, ClerkFrom
  <2>. QED
    BY <2>1, <2>2
<1>. QED
  BY <1>1, <1>2, <1>3 DEF Upsert

\* Staff or the dedupe script have written.
LEMMA OthersSpoil ==
    ASSUME SaveInv, None \notin Actors, up' = Dirtied(up, None), NEW b \in Actors
    PROVE  MergeFrom(b) /\ PutFrom(b)
<1>1. up = [c \in Actors |-> up[c]] /\ \A c \in Actors : UpRecord(up[c])
  BY DEF SaveInv, UpShape
<1>. QED
  BY <1>1, SpoiltAreKept

LEMMA FromStaff ==
    ASSUME SaveInv, None \notin Actors, NEW id \in RowIds, StaffDeletes(id) PROVE StepsFrom
<1>1. report' = Without(report, {id}) /\ up' = Dirtied(up, None) /\ input' = input
  BY DEF StaffDeletes
<1>. QED
  BY <1>1, OthersSpoil DEF StepsFrom, RowsFrom, ClerkFrom

LEMMA FromScript == ASSUME SaveInv, None \notin Actors, Script PROVE StepsFrom
<1>0. up = [b \in Actors |-> up[b]] /\ Clerk \in Actors
  BY UpkeepAssumption DEF SaveInv, UpShape, Actors
<1>1. CASE DedupeReads \/ DedupeEnds \/ BackfillReads \/ BackfillEnds
  <2>1. UNCHANGED <<report, up, input>>
    BY <1>1 DEF DedupeReads, DedupeEnds, BackfillReads, BackfillEnds, vars
  <2>. QED
    BY <2>1, RestIsKept DEF StepsFrom, RowsFrom, ClerkFrom
<1>2. CASE DedupeMerges
  <2>1. PICK group \in script.todo :
           LET p == DedupePlan(group)
           IN IF Applies(p)
              THEN /\ report' = After(p)
                   /\ shell' = Unlinked(p.drop)
                   /\ up' = Dirtied(up, None)
                   /\ script' = [script EXCEPT !.todo = @ \ {group}]
              ELSE /\ script' = [script EXCEPT !.at = "threw"]
                   /\ UNCHANGED <<report, shell, up>>
    BY <1>2 DEF DedupeMerges
  <2>. DEFINE p == DedupePlan(group)
  <2>2. input' = input /\ script.at = "merging"
    BY <1>2 DEF DedupeMerges
  <2>3. CASE Applies(p)
    <3>1. report' = After(p) /\ up' = Dirtied(up, None)
      BY <2>1, <2>3
    <3>2. RowsFrom
      BY <2>2, <2>3, <3>1 DEF RowsFrom
    <3>. QED
      BY <2>2, <3>1, <3>2, OthersSpoil DEF StepsFrom, ClerkFrom
  <2>4. CASE ~Applies(p)
    <3>1. UNCHANGED <<report, up>>
      BY <2>1, <2>4
    <3>. QED
      BY <2>2, <3>1, RestIsKept DEF StepsFrom, RowsFrom, ClerkFrom
  <2>. QED
    BY <2>3, <2>4
<1>3. CASE BackfillUpserts
  <2>. DEFINE u == [Idle EXCEPT !.at = "find"]
  <2>1. u = [at |-> "find", ids |-> {}, plan |-> NoPlan, row |-> NoRow, clean |-> TRUE]
    BY IdleBut
  <2>. HIDE DEF u
  <2>2. PICK group \in clusters :
           /\ clusters' = clusters \ {group}
           /\ IF Payload(group).url = None
              THEN UNCHANGED <<input, up>>
              ELSE /\ input' = [input EXCEPT ![Clerk] = Payload(group)]
                   /\ up' = [up EXCEPT ![Clerk] = u]
    BY <1>3 DEF BackfillUpserts, u
  <2>3. report' = report /\ script.at = "upserting" /\ up[Clerk].at \in {"idle", "done", "threw"}
    BY <1>3 DEF BackfillUpserts
  <2>4. CASE Payload(group).url = None
    <3>1. UNCHANGED <<input, up>>
      BY <2>2, <2>4
    <3>. QED
      BY <2>3, <3>1, RestIsKept DEF StepsFrom, RowsFrom, ClerkFrom
  <2>5. CASE Payload(group).url # None
    <3>1. input' = [input EXCEPT ![Clerk] = Payload(group)] /\ up' = [up EXCEPT ![Clerk] = u]
      BY <2>2, <2>5
    <3>2. up'[Clerk].at = "find" /\ \A b \in Actors : b # Clerk => up'[b] = up[b]
      BY <1>0, <2>1, <3>1
    <3>3. ClerkFrom
      BY <2>3, <2>5, <3>1, <3>2 DEF ClerkFrom
    <3>. QED
      BY <2>3, <3>2, <3>3, RestIsKept DEF StepsFrom, RowsFrom
  <2>. QED
    BY <2>4, <2>5
<1>. QED
  BY <1>1, <1>2, <1>3 DEF Script

\* Every step of the registry is one of these.
LEMMA WhatStepsDo == ASSUME SaveInv, [UpkeepNext]_upvars PROVE StepsFrom
<1>0. None \notin Actors
  BY ValuesAssumption
<1>1. CASE Script
  BY <1>0, <1>1, FromScript
<1>2. CASE Others
  BY <1>0, <1>2, FromRun, FromUpsert, FromStaff DEF Others, Next
<1>3. CASE UNCHANGED upvars
  <2>1. UNCHANGED <<report, up, input>>
    BY <1>3 DEF upvars, vars
  <2>. QED
    BY <2>1, RestIsKept DEF StepsFrom, RowsFrom, ClerkFrom
<1>. QED
  BY <1>1, <1>2, <1>3 DEF UpkeepNext

-----------------------------------------------------------------------------
(* Types of rows and plans *)

ValueOK(c, v) ==
    /\ c = "url" => v \in Urls
    /\ c = "sourceUrl" => v \in WebUrls \cup {None}
    /\ c = "s3Url" => v \in StorageUrls \cup {None}
    /\ c = "sha256" => v \in Hashes \cup {None}
    /\ c = "markdown" => v \in {None, Text}

RowOK(r) == r = [c \in Columns |-> r[c]] /\ \A c \in Columns : ValueOK(c, r[c])

PlanOK(p) ==
    /\ p.set = [c \in DOMAIN p.set |-> p.set[c]]
    /\ \A c \in DOMAIN p.set : c \in Columns /\ ValueOK(c, p.set[c])
    /\ p.keep = NoRow => DOMAIN p.set = Columns

\* A row of the table is a function of the columns.
LEMMA RowIs == ASSUME NEW r PROVE r \in RowType <=> RowOK(r)
<1>1. ASSUME r \in RowType PROVE RowOK(r)
  <2>1. r = [c \in Columns |-> r[c]]
    BY <1>1 DEF RowType, Columns
  <2>2. \A c \in Columns : ValueOK(c, r[c])
    BY <1>1 DEF RowType, Columns, ValueOK
  <2>. QED
    BY <2>1, <2>2 DEF RowOK
<1>2. ASSUME RowOK(r) PROVE r \in RowType
  <2>1. r = [c \in Columns |-> r[c]] /\ \A c \in Columns : ValueOK(c, r[c])
    BY <1>2 DEF RowOK
  <2>2. /\ r.url \in Urls /\ r.sourceUrl \in WebUrls \cup {None} /\ r.s3Url \in StorageUrls \cup {None}
        /\ r.sha256 \in Hashes \cup {None} /\ r.markdown \in {None, Text}
    BY <2>1 DEF Columns, ValueOK
  <2>3. r = [url |-> r.url, sourceUrl |-> r.sourceUrl, s3Url |-> r.s3Url, sha256 |-> r.sha256, markdown |-> r.markdown]
    BY <2>1 DEF Columns
  <2>. QED
    BY <2>2, <2>3 DEF RowType
<1>. QED
  BY <1>1, <1>2

LEMMA CopyingIs ==
    ASSUME NEW keep \in RowType, NEW gone \in RowType
    PROVE  /\ CopyMissing(keep, gone) \in RowType
           /\ CopyMissing(keep, gone).url \in {keep.url, gone.url}
           /\ CopyMissing(keep, gone).sourceUrl \in {keep.sourceUrl, gone.sourceUrl}
<1>. DEFINE filled == [c \in Columns |-> IF c # "url" /\ keep[c] = None THEN gone[c] ELSE keep[c]]
            m == CopyMissing(keep, gone)
<1>1. RowOK(keep) /\ RowOK(gone)
  BY RowIs
<1>2. /\ filled = [c \in Columns |-> filled[c]] /\ \A c \in Columns : ValueOK(c, filled[c])
      /\ filled["url"] = keep.url /\ filled["sourceUrl"] \in {keep.sourceUrl, gone.sourceUrl}
      /\ filled["s3Url"] = IF keep.s3Url = None THEN gone.s3Url ELSE keep.s3Url
  BY <1>1 DEF RowOK, ValueOK, Columns
<1>3. m = IF gone.url \in WebUrls /\ keep.url \in StorageUrls
          THEN [filled EXCEPT !["url"] = gone.url]
          ELSE IF gone.url \in StorageUrls /\ keep.s3Url = None
               THEN [filled EXCEPT !["s3Url"] = gone.url]
               ELSE filled
  BY DEF CopyMissing
<1>4. gone.url \in Urls
  BY <1>1 DEF RowOK, ValueOK, Columns
<1>. HIDE DEF filled, m
<1>5. /\ m = [c \in Columns |-> m[c]]
      /\ \A c \in Columns : m[c] = filled[c] \/ (c = "url" /\ m[c] = gone.url) \/ (c = "s3Url" /\ m[c] = gone.url /\ gone.url \in StorageUrls)
  <2>1. CASE m = [filled EXCEPT !["url"] = gone.url]
    BY <1>2, <2>1
  <2>2. CASE gone.url \in StorageUrls /\ m = [filled EXCEPT !["s3Url"] = gone.url]
    BY <1>2, <2>2
  <2>3. CASE m = filled
    BY <1>2, <2>3, Zenon
  <2>. QED
    BY <1>3, <2>1, <2>2, <2>3
<1>6. \A c \in Columns : ValueOK(c, m[c])
  BY <1>2, <1>4, <1>5 DEF ValueOK
<1>7. RowOK(m)
  BY <1>5, <1>6 DEF RowOK
<1>8. "url" \in Columns /\ "sourceUrl" \in Columns
  BY DEF Columns
<1>9. m["url"] \in {keep.url, gone.url} /\ m["sourceUrl"] \in {keep.sourceUrl, gone.sourceUrl}
  BY <1>2, <1>5, <1>8
<1>. QED
  BY <1>7, <1>9, RowIs DEF m

LEMMA MergingIsRow ==
    ASSUME NEW rows, NEW keep, NEW n \in Nat, NEW drop, drop \subseteq 1..n,
           \A i \in drop \cup {keep} : rows[i] \in RowType
    PROVE  /\ Merging(rows, keep, drop) \in RowType
           /\ Merging(rows, keep, drop).url \in {rows[i].url : i \in drop \cup {keep}}
           /\ Merging(rows, keep, drop).sourceUrl \in {rows[i].sourceUrl : i \in drop \cup {keep}}
<1>. DEFINE V == {r \in RowType : /\ r.url \in {rows[i].url : i \in drop \cup {keep}}
                                  /\ r.sourceUrl \in {rows[i].sourceUrl : i \in drop \cup {keep}}}
<1>1. rows[keep] \in V
  OBVIOUS
<1>2. ASSUME NEW r \in V, NEW x \in drop PROVE CopyMissing(r, rows[x]) \in V
  <2>1. /\ CopyMissing(r, rows[x]) \in RowType
        /\ CopyMissing(r, rows[x]).url \in {r.url, rows[x].url}
        /\ CopyMissing(r, rows[x]).sourceUrl \in {r.sourceUrl, rows[x].sourceUrl}
    BY CopyingIs
  <2>. QED
    BY <2>1
<1>. HIDE DEF V
<1>3. Merging(rows, keep, drop) \in V
  BY <1>1, <1>2, MergingStays
<1>. QED
  BY <1>3 DEF V

LEMMA LeastIn == ASSUME NEW n \in Nat, NEW T, T \subseteq 1..n, T # {} PROVE Min(T) \in T /\ \A t \in T : Min(T) <= t
<1>1. PICK t \in T : \A u \in T : t <= u
  <2>1. T \in SUBSET Nat
    OBVIOUS
  <2>. QED
    BY <2>1, Least
<1>. QED
  BY <1>1 DEF Min

RowsTyped == DOMAIN report \subseteq RowIds /\ \A id \in DOMAIN report : report[id] \in RowType

LEMMA CreateTyped == ASSUME NEW i \in IdentityType, NEW text \in {None, Text} PROVE PlanOK(CreatePlan(i, text))
<1>1. /\ i.url \in Urls /\ i.sourceUrl \in WebUrls \cup {None} /\ i.s3Url \in StorageUrls \cup {None}
      /\ i.sha256 \in Hashes \cup {None}
  BY DEF IdentityType
<1>. DEFINE s == CreatePlan(i, text).set
<1>2. s = [c \in Columns |-> IF c = "markdown" THEN text ELSE i[c]]
  BY DEF CreatePlan
<1>. HIDE DEF s
<1>3. DOMAIN s = Columns /\ s = [c \in DOMAIN s |-> s[c]] /\ \A c \in Columns : ValueOK(c, s[c])
  BY <1>1, <1>2 DEF ValueOK, Columns
<1>. QED
  BY <1>3 DEF PlanOK, s

LEMMA PatchTyped ==
    ASSUME RowsTyped, NEW i \in IdentityType, NEW id \in DOMAIN report
    PROVE  PlanOK(PatchPlan(id, i))
<1>1. /\ i.url \in Urls /\ i.sourceUrl \in WebUrls \cup {None} /\ i.s3Url \in StorageUrls \cup {None}
      /\ i.sha256 \in Hashes \cup {None} /\ report[id].url \in Urls
  BY DEF IdentityType, RowsTyped, RowType
<1>. DEFINE url == Upgraded(report[id].url, i)
            D == Given(i) \cup (IF url = report[id].url THEN {} ELSE {"url"})
            s == PatchPlan(id, i).set
<1>2. s = [c \in D |-> IF c = "url" THEN url ELSE i[c]] /\ PatchPlan(id, i).keep = id
  BY DEF PatchPlan
<1>3. url \in Urls /\ D \subseteq {"url", "sourceUrl", "s3Url", "sha256"}
  BY <1>1 DEF Upgraded, Given
<1>. HIDE DEF s, url, D
<1>4. DOMAIN s = D /\ s = [c \in D |-> s[c]] /\ \A c \in D : c \in Columns /\ ValueOK(c, s[c])
  BY <1>1, <1>2, <1>3 DEF ValueOK, Columns
<1>5. id # NoRow
  BY BoundsAssumption DEF RowsTyped
<1>. QED
  BY <1>2, <1>4, <1>5 DEF PlanOK, s

LEMMA StoreTyped ==
    ASSUME RowsTyped, NEW i \in IdentityType
    PROVE  PlanOK(StorePlan(i))
<1>. DEFINE ids == Matching(i)
            id == Min(ids)
            D == {"markdown"} \cup {d \in Given(i) : i[d] # None /\ report[id][d] = None}
            p == StorePlan(i)
<1>1. CASE ids = {}
  <2>1. p = CreatePlan(i, Text)
    BY <1>1 DEF StorePlan
  <2>. QED
    BY <2>1, CreateTyped
<1>2. CASE ids # {}
  <2>1. p.keep = id /\ p.set = [c \in D |-> IF c = "markdown" THEN Text ELSE i[c]]
    BY <1>2 DEF StorePlan
  <2>2. id \in ids /\ ids \subseteq RowIds
    <3>1. ids \subseteq 1..MaxRows /\ MaxRows \in Nat
      BY BoundsAssumption DEF Matching, RowsTyped, RowIds
    <3>. QED
      BY <1>2, <3>1, LeastIn DEF RowIds
  <2>3. D \subseteq {"markdown", "sourceUrl", "s3Url", "sha256"}
    BY DEF Given
  <2>4. i.sourceUrl \in WebUrls \cup {None} /\ i.s3Url \in StorageUrls \cup {None} /\ i.sha256 \in Hashes \cup {None}
    BY DEF IdentityType
  <2>5. id # NoRow
    BY <2>2, BoundsAssumption
  <2>. HIDE DEF D, id, p
  <2>6. DOMAIN p.set = D /\ p.set = [c \in D |-> p.set[c]] /\ \A c \in D : c \in Columns /\ ValueOK(c, p.set[c])
    BY <2>1, <2>3, <2>4 DEF ValueOK, Columns
  <2>. QED
    BY <2>1, <2>5, <2>6 DEF PlanOK, p
<1>. QED
  BY <1>1, <1>2

LEMMA RowToKeepIsOne == ASSUME NEW ids, ids # {}, ids \subseteq RowIds PROVE RowToKeep(ids) \in ids
<1>1. PICK j \in ids : \A k \in ids \ {j} : Ahead(report, j, k)
  BY OneIsAhead
<1>2. \A j1, k1 : Outranks(j1, k1) <=> Ahead(report, j1, k1)
  BY DEF Outranks, Ahead
<1>. QED
  BY <1>1, <1>2 DEF RowToKeep

LEMMA MergeTyped ==
    ASSUME RowsTyped, NEW i \in IdentityType, NEW ids, ids # {}, ids \subseteq DOMAIN report
    PROVE  PlanOK(MergePlan(ids, i)) /\ MergePlan(ids, i).keep \in ids
<1>. DEFINE keep == RowToKeep(ids)
            merged == Merging(report, keep, ids \ {keep})
            p == MergePlan(ids, i)
<1>1. p.keep = keep
      /\ p.set = [c \in Columns |-> IF c = "url" THEN Upgraded(merged.url, i) ELSE IF c \in Given(i) THEN i[c] ELSE merged[c]]
  BY DEF MergePlan
<1>2. keep \in ids /\ ids \subseteq 1..MaxRows /\ MaxRows \in Nat
  BY RowToKeepIsOne, BoundsAssumption DEF RowsTyped, RowIds
<1>3. RowOK(merged)
  <2>1. \A x \in (ids \ {keep}) \cup {keep} : report[x] \in RowType
    BY <1>2 DEF RowsTyped
  <2>2. ids \ {keep} \subseteq 1..MaxRows
    BY <1>2
  <2>. HIDE DEF keep
  <2>. QED
    BY <1>2, <2>1, <2>2, MergingIsRow, RowIs
<1>4. /\ i.url \in Urls /\ i.sourceUrl \in WebUrls \cup {None} /\ i.s3Url \in StorageUrls \cup {None}
      /\ i.sha256 \in Hashes \cup {None}
  BY DEF IdentityType
<1>5. keep # NoRow
  BY <1>2, BoundsAssumption DEF RowIds
<1>. HIDE DEF merged, p, keep
<1>6. /\ DOMAIN p.set = Columns /\ p.set = [c \in Columns |-> p.set[c]]
      /\ \A c \in Columns : ValueOK(c, p.set[c])
  BY <1>1, <1>3, <1>4 DEF ValueOK, Columns, RowOK, Given, Upgraded
<1>. QED
  BY <1>1, <1>2, <1>5, <1>6 DEF PlanOK, p

LEMMA DedupeTyped ==
    ASSUME NEW group, group # {}, group \subseteq RowIds, \A x \in group : script.rows[x] \in RowType
    PROVE  LET p == DedupePlan(group)
               merged == Merging(script.rows, p.keep, p.drop)
           IN /\ PlanOK(p) /\ p.keep \in group /\ p.drop = group \ {p.keep}
              /\ p.set = [c \in {d \in Identifying : merged[d] # None} |-> merged[c]]
              /\ merged.url \in {script.rows[x].url : x \in group}
              /\ merged.sourceUrl \in {script.rows[x].sourceUrl : x \in group}
<1>. DEFINE p == DedupePlan(group)
            merged == Merging(script.rows, p.keep, p.drop)
<1>1. p.keep \in group
  BY KeepsOneOfThem
<1>2. p.drop = group \ {p.keep} /\ p.set = [c \in {d \in Identifying : merged[d] # None} |-> merged[c]]
  BY DEF DedupePlan
<1>3. group \subseteq 1..MaxRows /\ MaxRows \in Nat
  BY BoundsAssumption DEF RowIds
<1>. HIDE DEF p
<1>4. /\ RowOK(merged) /\ merged.url \in {script.rows[x].url : x \in group}
      /\ merged.sourceUrl \in {script.rows[x].sourceUrl : x \in group}
  <2>1. p.drop \cup {p.keep} = group /\ p.drop \subseteq 1..MaxRows
    BY <1>1, <1>2, <1>3
  <2>. QED
    BY <1>3, <2>1, MergingIsRow, RowIs
<1>5. p.keep # NoRow
  BY <1>1, BoundsAssumption
<1>. HIDE DEF merged
<1>6. /\ p.set = [c \in DOMAIN p.set |-> p.set[c]]
      /\ \A c \in DOMAIN p.set : c \in Columns /\ ValueOK(c, p.set[c])
  BY <1>2, <1>4 DEF RowOK, Identifying
<1>7. PlanOK(p)
  BY <1>5, <1>6 DEF PlanOK
<1>. QED
  BY <1>1, <1>2, <1>4, <1>7 DEF p, merged

\* A plan of typed values leaves typed rows.
LEMMA AfterTyped ==
    ASSUME RowsTyped, NEW p, Applies(p), PlanOK(p)
    PROVE  \A id \in DOMAIN After(p) : After(p)[id] \in RowType
<1>. DEFINE row == IF p.keep = NoRow THEN p.set ELSE Over(p.set, report[p.keep])
<1>1. After(p) = [z \in (DOMAIN report \ p.drop) \cup {Target(p)} |-> IF z = Target(p) THEN row ELSE report[z]]
  BY DEF After, With, Without
<1>2. row \in RowType
  <2>1. CASE p.keep = NoRow
    <3>1. RowOK(p.set)
      BY <2>1 DEF PlanOK, RowOK
    <3>. QED
      BY <2>1, <3>1, RowIs
  <2>2. CASE p.keep # NoRow
    <3>. DEFINE g == report[p.keep]
    <3>1. RowOK(g)
      BY <2>2, RowIs DEF Applies, RowsTyped
    <3>. HIDE DEF g
    <3>2. row = [c \in Columns |-> IF c \in DOMAIN p.set THEN p.set[c] ELSE g[c]]
      BY <2>2, <3>1 DEF Over, RowOK, g
    <3>. HIDE DEF row
    <3>3. RowOK(row)
      BY <3>1, <3>2 DEF RowOK, PlanOK
    <3>. QED
      BY <3>3, RowIs
  <2>. QED
    BY <2>1, <2>2
<1>. HIDE DEF row
<1>. QED
  BY <1>1, <1>2 DEF RowsTyped

-----------------------------------------------------------------------------
(* Types of the registry, in every reachable state *)

InputsTyped == input \in [Actors -> IdentityType] /\ filed \in Seq(FiledType) /\ clusters \subseteq SUBSET DOMAIN filed
PlansTyped == \A a \in Actors : up[a].at = "put" => PlanOK(up[a].plan)

\* The script has the shape of a record, and what it has read are rows.
ScriptShape ==
    /\ script = [at |-> script.at, rows |-> script.rows, todo |-> script.todo, clean |-> script.clean]
    /\ script.at \in {"merging", "deduped"} =>
          DOMAIN script.rows \subseteq RowIds /\ \A id \in DOMAIN script.rows : script.rows[id] \in RowType
    /\ script.at = "merging" => \A G \in script.todo : G # {} /\ G \subseteq DOMAIN script.rows

RegistryTyped == RowsTyped /\ InputsTyped /\ PlansTyped /\ ScriptShape

\* What the backfill gives of a group is an identity, where it gives a url.
LEMMA FirstOfIs ==
    ASSUME NEW n \in Nat, NEW group, group \subseteq 1..n, NEW V, NEW value, \A x \in group : value[x] \in V \cup {None}
    PROVE  FirstOf(group, value) \in V \cup {None}
<1>. DEFINE has == {x \in group : value[x] # None}
<1>1. CASE has = {}
  BY <1>1 DEF FirstOf
<1>2. CASE has # {}
  <2>1. has \subseteq 1..n
    OBVIOUS
  <2>2. Min(has) \in has
    BY <1>2, <2>1, LeastIn
  <2>3. FirstOf(group, value) = value[Min(has)]
    BY <1>2 DEF FirstOf
  <2>. QED
    BY <2>2, <2>3
<1>. QED
  BY <1>1, <1>2

LEMMA PayloadTyped ==
    ASSUME InputsTyped, NEW group \in clusters, Payload(group).url # None
    PROVE  Payload(group) \in IdentityType /\ Payload(group).nulls = TRUE
           /\ Payload(group).sourceUrl = (IF Payload(group).url \in WebUrls THEN Payload(group).url ELSE None)
<1>1. PICK n \in Nat : group \subseteq 1..n /\ DOMAIN filed = 1..n /\ \A x \in 1..n : filed[x] \in FiledType
  <2>1. Len(filed) \in Nat /\ DOMAIN filed = 1..Len(filed) /\ \A x \in 1..Len(filed) : filed[x] \in FiledType
    BY DEF InputsTyped
  <2>. QED
    BY <2>1 DEF InputsTyped
<1>2. BestWebUrl(group) \in WebUrls \cup {None}
  <2>. DEFINE value == [x \in group |-> IF filed[x].url \in WebUrls THEN filed[x].url ELSE None]
  <2>1. \A x \in group : value[x] \in WebUrls \cup {None}
    OBVIOUS
  <2>. HIDE DEF value
  <2>2. FirstOf(group, value) \in WebUrls \cup {None}
    BY <1>1, <2>1, FirstOfIs
  <2>. QED
    BY <2>2 DEF BestWebUrl, value
<1>3. BestS3Url(group) \in StorageUrls \cup {None}
  <2>. DEFINE value == [x \in group |-> CopyUrl(filed[x])]
  <2>1. \A x \in group : value[x] \in StorageUrls \cup {None}
    BY <1>1 DEF CopyUrl, FiledType
  <2>. HIDE DEF value
  <2>2. FirstOf(group, value) \in StorageUrls \cup {None}
    BY <1>1, <2>1, FirstOfIs
  <2>. QED
    BY <2>2 DEF BestS3Url, value
<1>4. BestSha256(group) \in Hashes \cup {None}
  <2>. DEFINE value == [x \in group |-> filed[x].sha256]
  <2>1. \A x \in group : value[x] \in Hashes \cup {None}
    BY <1>1 DEF FiledType
  <2>. HIDE DEF value
  <2>2. FirstOf(group, value) \in Hashes \cup {None}
    BY <1>1, <2>1, FirstOfIs
  <2>. QED
    BY <2>2 DEF BestSha256, value
<1>5. Payload(group) = [url |-> IF BestWebUrl(group) # None THEN BestWebUrl(group) ELSE BestS3Url(group),
                        sourceUrl |-> BestWebUrl(group), s3Url |-> BestS3Url(group), sha256 |-> BestSha256(group),
                        nulls |-> TRUE]
  BY DEF Payload
<1>6. None \notin Urls /\ WebUrls \cap StorageUrls = {}
  BY ValuesAssumption
<1>. QED
  BY <1>2, <1>3, <1>4, <1>5, <1>6 DEF IdentityType, Urls

LEMMA RowsTypedInit == UpkeepInit => RegistryTyped /\ TableShapes
<1>. SUFFICES ASSUME UpkeepInit PROVE RegistryTyped /\ TableShapes
  OBVIOUS
<1>1. TableShapes
  BY RegistryInit DEF Registry, SaveInv
<1>2. RowsTyped
  <2>1. PICK n \in 0 .. MaxRows : report \in [1 .. n -> RowType]
    BY SeedsAssumption DEF UpkeepInit, Init
  <2>. QED
    BY <2>1, BoundsAssumption DEF RowsTyped, RowIds
<1>3. InputsTyped
  <2>1. input \in [Actors -> IdentityType]
    <3>1. input = [a \in Actors |-> input[a]] /\ \A a \in Actors : input[a] \in InputsOf[a]
      BY DEF UpkeepInit, Init
    <3>. QED
      BY <3>1, ValuesAssumption
  <2>2. filed \in Seq(FiledType)
    <3>1. filed \in Filings \/ filed = <<>>
      BY DEF UpkeepInit
    <3>2. <<>> \in Seq(FiledType) /\ Filings \subseteq Seq(FiledType)
      BY UpkeepAssumption
    <3>. QED
      BY <3>1, <3>2
  <2>. QED
    BY <2>1, <2>2 DEF UpkeepInit, InputsTyped
<1>4. PlansTyped
  <2>1. ASSUME NEW a \in Actors PROVE up[a].at \in {"idle", "find"}
    <3>. DEFINE u == [Idle EXCEPT !.at = "find"]
    <3>1. u = [at |-> "find", ids |-> {}, plan |-> NoPlan, row |-> NoRow, clean |-> TRUE]
      BY IdleBut
    <3>2. up[a] \in {u, Idle}
      BY DEF UpkeepInit, Init
    <3>. HIDE DEF u
    <3>. QED
      BY <3>1, <3>2, IdleRecord
  <2>. QED
    BY <2>1 DEF PlansTyped
<1>5. ScriptShape
  BY DEF UpkeepInit, ScriptShape
<1>. QED
  BY <1>1, <1>2, <1>3, <1>4, <1>5 DEF RegistryTyped

LEMMA RowsTypedStep ==
    ASSUME SaveInv, RegistryTyped, TableShapes', [UpkeepNext]_upvars
    PROVE  RowsTyped' /\ InputsTyped' /\ PlansTyped'
<1>1. StepsFrom
  BY WhatStepsDo
<1>2. RowsTyped'
  <2>1. DOMAIN report' \subseteq RowIds
    BY BoundsAssumption DEF TableShapes, RowIds
  <2>2. CASE report' = report
    BY <2>1, <2>2 DEF RegistryTyped, RowsTyped
  <2>3. CASE \E a \in Actors : up[a].at = "put" /\ Applies(up[a].plan) /\ report' = After(up[a].plan)
    BY <2>1, <2>3, AfterTyped DEF RegistryTyped, RowsTyped, PlansTyped
  <2>4. CASE \E id \in RowIds : report' = Without(report, {id})
    BY <2>1, <2>4 DEF RegistryTyped, RowsTyped, Without
  <2>5. CASE script.at = "merging" /\ \E group \in script.todo : /\ Applies(DedupePlan(group))
                                                                 /\ report' = After(DedupePlan(group))
    <3>1. PICK group \in script.todo : Applies(DedupePlan(group)) /\ report' = After(DedupePlan(group))
      BY <2>5
    <3>2. group # {} /\ group \subseteq RowIds /\ \A x \in group : script.rows[x] \in RowType
      BY <2>5 DEF RegistryTyped, ScriptShape
    <3>3. PlanOK(DedupePlan(group))
      BY <3>2, DedupeTyped
    <3>. QED
      BY <2>1, <3>1, <3>3, AfterTyped DEF RegistryTyped, RowsTyped
  <2>. QED
    BY <1>1, <2>2, <2>3, <2>4, <2>5 DEF StepsFrom, RowsFrom
<1>3. input' \in [Actors -> IdentityType]
  <2>1. CASE input' = input
    BY <2>1 DEF RegistryTyped, InputsTyped
  <2>2. CASE \E group \in clusters : Payload(group).url # None /\ input' = [input EXCEPT ![Clerk] = Payload(group)]
    BY <2>2, PayloadTyped DEF RegistryTyped, InputsTyped
  <2>. QED
    BY <1>1, <2>1, <2>2 DEF StepsFrom, ClerkFrom
<1>4. filed' = filed /\ clusters' \subseteq SUBSET DOMAIN filed
  <2>1. CASE Others \/ UNCHANGED upvars
    BY <2>1 DEF Others, upvars, RegistryTyped, InputsTyped
  <2>2. CASE DedupeReads \/ DedupeMerges \/ DedupeEnds \/ BackfillEnds
    BY <2>2 DEF DedupeReads, DedupeMerges, DedupeEnds, BackfillEnds, RegistryTyped, InputsTyped
  <2>3. CASE BackfillUpserts
    BY <2>3 DEF BackfillUpserts, RegistryTyped, InputsTyped
  <2>4. CASE BackfillReads
    <3>. DEFINE same == {e \in (DOMAIN filed) \X (DOMAIN filed) : SameKeys(filed[e[1]], filed[e[2]])}
                groups == Components(DOMAIN filed, same)
                alike == {e \in groups \X groups : Complementary(e[1], e[2])}
    <3>1. clusters' = {UNION C : C \in Components(groups, alike)} /\ filed' = filed
      BY <2>4 DEF BackfillReads
    <3>2. \A G \in groups : G \subseteq DOMAIN filed
      BY ComponentsAre
    <3>. HIDE DEF groups, alike
    <3>3. \A C \in Components(groups, alike) : C \subseteq groups
      BY ComponentsAre
    <3>. QED
      BY <3>1, <3>2, <3>3
  <2>. QED
    BY <2>1, <2>2, <2>3, <2>4 DEF UpkeepNext, Script
<1>5. PlansTyped'
  <2>1. ASSUME NEW b \in Actors, up'[b].at = "put" PROVE PlanOK(up'[b].plan)
    <3>1. input[b] \in IdentityType /\ RowsTyped
      BY DEF RegistryTyped, InputsTyped
    <3>2. CASE up[b].at = "put" /\ up'[b].plan = up[b].plan
      BY <3>2 DEF RegistryTyped, PlansTyped
    <3>3. CASE up'[b].plan = StorePlan(input[b])
      BY <3>1, <3>3, StoreTyped
    <3>4. CASE up'[b].plan = IF Matching(input[b]) = {} THEN CreatePlan(input[b], None)
                             ELSE PatchPlan(Min(Matching(input[b])), input[b])
      <4>1. CASE Matching(input[b]) = {}
        BY <3>1, <3>4, <4>1, CreateTyped
      <4>2. CASE Matching(input[b]) # {}
        <5>1. Matching(input[b]) \subseteq 1..MaxRows /\ MaxRows \in Nat
          BY <3>1, BoundsAssumption DEF Matching, RowsTyped, RowIds
        <5>2. Min(Matching(input[b])) \in DOMAIN report
          <6>1. Min(Matching(input[b])) \in Matching(input[b])
            BY <4>2, <5>1, LeastIn
          <6>. QED
            BY <6>1 DEF Matching
        <5>. QED
          BY <3>1, <3>4, <4>2, <5>2, PatchTyped
      <4>. QED
        BY <4>1, <4>2
    <3>5. CASE up[b].ids \cap DOMAIN report # {} /\ up'[b].plan = MergePlan(up[b].ids \cap DOMAIN report, input[b])
      BY <3>1, <3>5, MergeTyped
    <3>. QED
      BY <1>1, <2>1, <3>2, <3>3, <3>4, <3>5 DEF StepsFrom, PutFrom
  <2>. QED
    BY <2>1 DEF PlansTyped
<1>. QED
  BY <1>2, <1>3, <1>4, <1>5 DEF InputsTyped, RegistryTyped

\* A poster that is idle stays so: nobody but the backfill calls it.
LEMMA IdleStays ==
    ASSUME SaveInv, Next, NEW a \in Actors, a \notin Runs, up[a].at = "idle"
    PROVE  up'[a] = up[a]
<1>0. up = [b \in Actors |-> up[b]] /\ \A b \in Actors : UpRecord(up[b])
  BY DEF SaveInv, UpShape
<1>1. ASSUME NEW r \in Runs, Run(r) PROVE up'[a] = up[a]
  <2>1. Stepped(r)
    BY <1>1, ParseSteps, CheckEndsStep, SaveBeginsStep, SaveInfersStep, SavePeriodStep, LinkBeginsStep, LinkFindsStep,
       LinkSetsStep, LinkMovesStep, LinkTidiesStep DEF Run
  <2>. QED
    BY <2>1 DEF Stepped, OfRun
<1>2. ASSUME NEW b \in Actors, Upsert(b) PROVE up'[a] = up[a]
  <2>1. b # a
    BY <1>2 DEF Upsert, Find, ReadAgain, Put
  <2>2. CASE Find(b) \/ ReadAgain(b) \/ (Put(b) /\ ~Applies(up[b].plan))
    <3>1. PICK u : up' = [up EXCEPT ![b] = u]
      BY <2>2 DEF Find, ReadAgain, Put
    <3>. QED
      BY <1>0, <2>1, <3>1
  <2>3. CASE Put(b) /\ Applies(up[b].plan)
    <3>. DEFINE t == Target(up[b].plan)
                u == [Idle EXCEPT !.at = "done", !.row = t]
                v == [up EXCEPT ![b] = u]
    <3>1. up' = Dirtied(v, b)
      BY <2>3 DEF Put
    <3>. HIDE DEF t
    <3>2. u = [at |-> "done", ids |-> {}, plan |-> NoPlan, row |-> t, clean |-> TRUE]
      BY IdleBut
    <3>3. UpRecord(u)
      BY <3>2 DEF UpRecord
    <3>. HIDE DEF u
    <3>4. v = [c \in Actors |-> v[c]] /\ (\A c \in Actors : UpRecord(v[c])) /\ v[a] = up[a]
      <4>1. v = [c \in Actors |-> IF c = b THEN u ELSE up[c]]
        BY <1>0
      <4>. QED
        BY <1>0, <2>1, <3>3, <4>1
    <3>. HIDE DEF v
    <3>5. v[a].at \notin {"merge", "put"} => up'[a] = v[a]
      BY <3>1, <3>4, DirtiedSpoils
    <3>. QED
      BY <3>4, <3>5
  <2>. QED
    BY <1>2, <2>2, <2>3 DEF Upsert
<1>3. ASSUME NEW id \in RowIds, StaffDeletes(id) PROVE up'[a] = up[a]
  <2>1. up' = Dirtied(up, None)
    BY <1>3 DEF StaffDeletes
  <2>2. up[a].at \notin {"merge", "put"} => up'[a] = up[a]
    BY <1>0, <2>1, DirtiedSpoils
  <2>. QED
    BY <2>2
<1>. QED
  BY <1>1, <1>2, <1>3 DEF Next

-----------------------------------------------------------------------------
(* One pass of the dedupe script *)

\* The backfill's poster has nothing to do while the dedupe script runs.
ClerkRests == script.at \in {"dedupe", "merging", "deduped"} => up[Clerk].at = "idle"

\* What a row says of its addresses came from the rows of its document.
FromTogether(j) ==
    /\ \E i \in DOMAIN script.rows : Together(script.rows, i, j) /\ report[j].url = script.rows[i].url
    /\ \/ report[j].sourceUrl = None
       \/ \E i \in DOMAIN script.rows : Together(script.rows, i, j) /\ report[j].sourceUrl = script.rows[i].sourceUrl

\* While nobody else writes: groups that are done have one row left, rows keep their addresses
\* within their document, and as soon as one group is merged no column has a value twice.
Working == script.at \in {"merging", "deduped"} /\ script.clean
Tidy ==
    /\ script.todo \subseteq Groups(script.rows) /\ (script.at = "deduped" => script.todo = {})
    /\ DOMAIN report \subseteq DOMAIN script.rows
    /\ \A G \in Groups(script.rows) \ script.todo : \A j, k \in G \cap DOMAIN report : j = k
    /\ \A j \in DOMAIN report : FromTogether(j)
    /\ Unique(report) \/ (report = script.rows /\ script.todo = Groups(script.rows))

PassInv == ScriptShape /\ ClerkRests /\ (Working => Tidy)

LEMMA PassInvInit == UpkeepInit => PassInv
  BY IdleRecord DEF UpkeepInit, PassInv, ScriptShape, ClerkRests, Working

LEMMA ReadsStep == ASSUME SaveInv, RegistryTyped, PassInv, DedupeReads PROVE PassInv'
<1>1. script' = [at |-> "merging", rows |-> report, todo |-> Groups(report), clean |-> TRUE]
      /\ report' = report /\ up' = up /\ script.at = "dedupe"
  BY DEF DedupeReads, vars
<1>2. script'.at = "merging" /\ script'.rows = report /\ script'.todo = Groups(report) /\ script'.clean = TRUE
  BY <1>1
<1>3. ScriptShape'
  <2>1. \A G \in Groups(report) : G # {} /\ G \subseteq DOMAIN report
    BY GroupsAre, ComponentsAre DEF PartsOf
  <2>. QED
    BY <1>1, <1>2, <2>1 DEF ScriptShape, RegistryTyped, RowsTyped
<1>4. ClerkRests'
  BY <1>1 DEF PassInv, ClerkRests
<1>5. \A j \in DOMAIN report' : FromTogether(j)'
  BY <1>1, <1>2, TogetherWorks DEF FromTogether
<1>6. Tidy'
  BY <1>1, <1>2, <1>5 DEF Tidy
<1>. QED
  BY <1>3, <1>4, <1>6 DEF PassInv

LEMMA MergesStep == ASSUME SaveInv, RegistryTyped, PassInv, DedupeMerges PROVE PassInv'
<1>0. /\ script = [at |-> script.at, rows |-> script.rows, todo |-> script.todo, clean |-> script.clean]
      /\ script.at = "merging"
  BY DEF DedupeMerges, PassInv, ScriptShape
<1>1. PICK group \in script.todo :
         LET p == DedupePlan(group)
         IN IF Applies(p)
            THEN /\ report' = After(p)
                 /\ shell' = Unlinked(p.drop)
                 /\ up' = Dirtied(up, None)
                 /\ script' = [script EXCEPT !.todo = @ \ {group}]
            ELSE /\ script' = [script EXCEPT !.at = "threw"]
                 /\ UNCHANGED <<report, shell, up>>
  BY DEF DedupeMerges
<1>. DEFINE p == DedupePlan(group)
            rows == script.rows
            merged == Merging(rows, p.keep, p.drop)
<1>2. CASE ~Applies(p)
  <2>1. script' = [script EXCEPT !.at = "threw"] /\ up' = up
    BY <1>1, <1>2
  <2>2. script' = [at |-> "threw", rows |-> script.rows, todo |-> script.todo, clean |-> script.clean]
    BY <1>0, <2>1
  <2>. QED
    BY <2>2 DEF PassInv, ScriptShape, ClerkRests, Working
<1>3. CASE Applies(p)
  <2>1. report' = After(p) /\ up' = Dirtied(up, None) /\ script' = [script EXCEPT !.todo = @ \ {group}]
    BY <1>1, <1>3
  <2>2. script' = [at |-> "merging", rows |-> rows, todo |-> script.todo \ {group}, clean |-> script.clean]
    BY <1>0, <2>1
  <2>3. /\ script'.at = "merging" /\ script'.rows = rows /\ script'.todo = script.todo \ {group}
        /\ script'.clean = script.clean
    BY <2>2
  <2>4. /\ group # {} /\ group \subseteq DOMAIN rows /\ DOMAIN rows \subseteq RowIds
        /\ \A x \in DOMAIN rows : rows[x] \in RowType
    BY <1>0 DEF PassInv, ScriptShape
  <2>5. ScriptShape'
    BY <1>0, <2>2, <2>3 DEF ScriptShape, PassInv
  <2>6. ClerkRests'
    <3>1. Clerk \in Actors /\ up[Clerk].at = "idle"
      BY <1>0, UpkeepAssumption DEF PassInv, ClerkRests, Actors
    <3>2. up'[Clerk].at = up[Clerk].at
      BY <2>1, <3>1, DirtiedKeeps DEF SaveInv, UpShape
    <3>. QED
      BY <3>1, <3>2 DEF ClerkRests
  <2>7. /\ PlanOK(p) /\ p.keep \in group /\ p.drop = group \ {p.keep}
        /\ p.set = [c \in {d \in Identifying : merged[d] # None} |-> merged[c]]
        /\ merged.url \in {rows[x].url : x \in group}
        /\ merged.sourceUrl \in {rows[x].sourceUrl : x \in group}
    <3>1. group \subseteq RowIds /\ \A x \in group : rows[x] \in RowType
      BY <2>4
    <3>. QED
      BY <2>4, <3>1, DedupeTyped
  <2>. HIDE DEF p, merged
  <2>8. ASSUME script.clean, Tidy PROVE Tidy'
    <3>1. group \in PartsOf(rows) /\ group \in Groups(rows)
      BY <2>8, GroupsAre DEF Tidy
    <3>2. p.keep # NoRow /\ p.keep \in DOMAIN report /\ p.drop \subseteq DOMAIN report /\ Unique(After(p))
      BY <1>3, <2>4, <2>7, BoundsAssumption DEF Applies
    <3>3. /\ report' = [z \in DOMAIN report \ p.drop |-> IF z = p.keep THEN Over(p.set, report[p.keep]) ELSE report[z]]
          /\ Unique(report')
      <4>1. (DOMAIN report \ p.drop) \cup {p.keep} = DOMAIN report \ p.drop
        BY <2>7, <3>2
      <4>2. After(p) = [z \in (DOMAIN report \ p.drop) \cup {p.keep} |-> IF z = p.keep THEN Over(p.set, report[p.keep]) ELSE report[z]]
        BY <3>2 DEF After, With, Without, Target
      <4>. QED
        BY <2>1, <3>2, <4>1, <4>2
    <3>4. DOMAIN report' = DOMAIN report \ p.drop
      BY <3>3
    <3>5. ASSUME NEW G \in Groups(rows), G \notin script'.todo, NEW j \in G \cap DOMAIN report', NEW k \in G \cap DOMAIN report'
          PROVE  j = k
      <4>1. CASE G = group
        BY <2>7, <3>4, <3>5, <4>1
      <4>2. CASE G # group
        BY <2>3, <2>8, <3>4, <3>5, <4>2 DEF Tidy
      <4>. QED
        BY <4>1, <4>2
    <3>6. ASSUME NEW j \in DOMAIN report' PROVE FromTogether(j)'
      <4>1. FromTogether(j) /\ j \in DOMAIN report
        BY <2>8, <3>4 DEF Tidy
      <4>2. CASE j # p.keep
        <5>1. report'[j] = report[j]
          BY <3>3, <3>4, <4>2
        <5>. QED
          BY <2>3, <4>1, <5>1 DEF FromTogether
      <4>3. CASE j = p.keep
        <5>. DEFINE g == report[j]
        <5>1. RowOK(g) /\ "url" \in Columns /\ "sourceUrl" \in Columns
          BY <4>1, RowIs DEF RegistryTyped, RowsTyped, Columns
        <5>2. report'[j] = Over(p.set, g)
          BY <3>3, <3>4, <4>3
        <5>. HIDE DEF g
        <5>3. report'[j] = [c \in Columns |-> IF c \in DOMAIN p.set THEN p.set[c] ELSE g[c]]
          BY <5>1, <5>2 DEF Over, RowOK
        <5>4. report'[j].url \in {merged.url, g.url} /\ report'[j].sourceUrl \in {merged.sourceUrl, g.sourceUrl}
          BY <2>7, <5>1, <5>3
        <5>5. \A x \in group : Together(rows, x, j) /\ x \in DOMAIN rows
          BY <2>4, <2>7, <3>1, <4>3 DEF Together
        <5>6. \E i \in DOMAIN rows : Together(rows, i, j) /\ report'[j].url = rows[i].url
          BY <2>7, <4>1, <5>4, <5>5 DEF FromTogether, g
        <5>7. \/ report'[j].sourceUrl = None
              \/ \E i \in DOMAIN rows : Together(rows, i, j) /\ report'[j].sourceUrl = rows[i].sourceUrl
          BY <2>7, <4>1, <5>4, <5>5 DEF FromTogether, g
        <5>. QED
          BY <2>3, <5>6, <5>7 DEF FromTogether
      <4>. QED
        BY <4>2, <4>3
    <3>. QED
      BY <2>3, <2>8, <3>3, <3>4, <3>5, <3>6 DEF Tidy
  <2>. QED
    BY <1>0, <2>3, <2>5, <2>6, <2>8 DEF PassInv, Working
<1>. QED
  BY <1>2, <1>3

LEMMA PassStep == ASSUME SaveInv, RegistryTyped, PassInv, [UpkeepNext]_upvars PROVE PassInv'
<1>0. script = [at |-> script.at, rows |-> script.rows, todo |-> script.todo, clean |-> script.clean]
  BY DEF PassInv, ScriptShape
<1>1. CASE DedupeReads \/ DedupeMerges
  BY <1>1, ReadsStep, MergesStep
<1>2. CASE DedupeEnds
  <2>1. script' = [at |-> "deduped", rows |-> script.rows, todo |-> script.todo, clean |-> script.clean]
    BY <1>0, <1>2 DEF DedupeEnds
  <2>2. report' = report /\ up' = up /\ script.at = "merging" /\ script.todo = {}
    BY <1>2 DEF DedupeEnds, vars
  <2>3. script'.at = "deduped" /\ script'.rows = script.rows /\ script'.todo = {} /\ script'.clean = script.clean
    BY <2>1, <2>2
  <2>. QED
    BY <2>1, <2>2, <2>3 DEF PassInv, ScriptShape, ClerkRests, Working, Tidy, FromTogether
<1>3. CASE BackfillReads \/ BackfillEnds
  <2>1. PICK at \in {"upserting", "backfilled"} : script' = [script EXCEPT !.at = at]
    BY <1>3 DEF BackfillReads, BackfillEnds
  <2>2. script' = [at |-> at, rows |-> script.rows, todo |-> script.todo, clean |-> script.clean]
    BY <1>0, <2>1
  <2>. QED
    BY <2>2 DEF PassInv, ScriptShape, ClerkRests, Working
<1>4. CASE BackfillUpserts
  BY <1>4 DEF BackfillUpserts, PassInv, ScriptShape, ClerkRests, Working
<1>5. CASE Others
  <2>1. script' = [script EXCEPT !.clean = FALSE] \/ script' = script
    BY <1>5 DEF Others
  <2>2. script' \in {script, [at |-> script.at, rows |-> script.rows, todo |-> script.todo, clean |-> FALSE]}
    BY <1>0, <2>1
  <2>3. ScriptShape' /\ script'.at = script.at
    BY <1>0, <2>2 DEF PassInv, ScriptShape
  <2>4. ASSUME script.at \in {"dedupe", "merging", "deduped"} PROVE up'[Clerk] = up[Clerk]
    <3>1. up[Clerk].at = "idle" /\ Clerk \in Actors /\ Clerk \notin Runs
      BY <2>4, UpkeepAssumption, ValuesAssumption DEF PassInv, ClerkRests, Actors
    <3>. QED
      BY <1>5, <3>1, IdleStays DEF Others
  <2>5. ClerkRests'
    BY <2>3, <2>4 DEF PassInv, ClerkRests
  <2>6. ASSUME Working' PROVE Tidy'
    <3>1. script.at \in {"merging", "deduped"} /\ script' = script /\ script.clean
      BY <2>2, <2>3, <2>6 DEF Working
    <3>2. ~Disturbs
      <4>1. CASE Disturbs
        <5>1. script' = [script EXCEPT !.clean = FALSE]
          BY <1>5, <4>1 DEF Others
        <5>2. script'.clean = FALSE
          BY <1>0, <5>1
        <5>. QED
          BY <2>6, <5>2 DEF Working
      <4>. QED
        BY <4>1
    <3>3. report' = report
      BY <2>4, <3>1, <3>2 DEF Disturbs
    <3>4. Tidy
      BY <3>1 DEF PassInv, Working
    <3>. QED
      BY <3>1, <3>3, <3>4 DEF Tidy, FromTogether
  <2>. QED
    BY <2>3, <2>5, <2>6 DEF PassInv
<1>6. CASE UNCHANGED upvars
  BY <1>6 DEF upvars, vars, PassInv, ScriptShape, ClerkRests, Working, Tidy, FromTogether
<1>. QED
  BY <1>1, <1>2, <1>3, <1>4, <1>5, <1>6 DEF UpkeepNext, Script

LEMMA RegistryInvStep ==
    Registry /\ RegistryTyped /\ PassInv /\ [UpkeepNext]_upvars => (Registry /\ RegistryTyped /\ PassInv)'
<1>. SUFFICES ASSUME Registry, RegistryTyped, PassInv, [UpkeepNext]_upvars
              PROVE  (Registry /\ RegistryTyped /\ PassInv)'
  OBVIOUS
<1>1. Registry'
  BY UpkeepSteps
<1>2. RowsTyped' /\ InputsTyped' /\ PlansTyped'
  BY <1>1, RowsTypedStep DEF Registry, SaveInv
<1>3. PassInv'
  BY PassStep DEF Registry
<1>. QED
  BY <1>1, <1>2, <1>3 DEF RegistryTyped, PassInv

LEMMA PassInvImplies == RegistryTyped /\ PassInv => OnePassIsEnough
<1>. SUFFICES ASSUME RegistryTyped, PassInv, script.at = "deduped", script.clean,
                     NEW j \in DOMAIN report, NEW k \in DOMAIN report, j # k, Describes(report[j], report[k])
              PROVE  FALSE
  BY DEF OnePassIsEnough
<1>. DEFINE rows == script.rows
            p == report[j]
            q == report[k]
<1>1. /\ script.todo = {} /\ FromTogether(j) /\ FromTogether(k)
      /\ \A G \in Groups(rows) : ~(j \in G /\ k \in G)
      /\ Unique(report) \/ (report = rows /\ Groups(rows) = {})
  BY DEF PassInv, Working, Tidy
<1>2. /\ DOMAIN rows \subseteq 1..MaxRows /\ MaxRows \in Nat /\ None \notin Urls
      /\ p.url # None /\ q.url # None
  <2>1. p \in RowType /\ q \in RowType /\ None \notin Urls
    BY ValuesAssumption DEF RegistryTyped, RowsTyped
  <2>. QED
    BY <2>1, BoundsAssumption DEF PassInv, ScriptShape, RowIds, RowType
<1>3. ~Together(rows, j, k)
  BY <1>1, <1>2, TogetherInGroup
<1>4. ASSUME NEW a \in {j, k}, NEW b \in {j, k}, a # b, report[a].url = report[b].sourceUrl PROVE FALSE
  <2>1. PICK i \in DOMAIN rows : Together(rows, i, a) /\ report[a].url = rows[i].url
    BY <1>1 DEF FromTogether
  <2>2. report[b].sourceUrl # None
    BY <1>2, <1>4
  <2>3. PICK l \in DOMAIN rows : Together(rows, l, b) /\ report[b].sourceUrl = rows[l].sourceUrl
    BY <1>1, <2>2 DEF FromTogether
  <2>4. OneDocument(rows[i], rows[l])
    BY <1>4, <2>1, <2>2, <2>3 DEF OneDocument, Shared
  <2>5. Together(rows, i, l)
    BY <2>4, TogetherWorks
  <2>6. Together(rows, a, b) /\ Together(rows, b, a)
    BY <2>1, <2>3, <2>5, TogetherWorks
  <2>. QED
    BY <1>3, <1>4, <2>6
<1>5. ASSUME NEW c \in Identifying, p[c] = q[c], p[c] # None PROVE FALSE
  <2>1. ~Unique(report)
    BY <1>5 DEF Unique
  <2>2. report = rows
    BY <1>1, <2>1
  <2>3. OneDocument(rows[j], rows[k])
    BY <1>5, <2>2 DEF OneDocument, Shared
  <2>. QED
    BY <1>3, <2>2, <2>3, TogetherWorks
<1>6. /\ "url" \in Identifying /\ "sourceUrl" \in Identifying /\ "s3Url" \in Identifying /\ "sha256" \in Identifying
  BY DEF Identifying, Columns
<1>7. \/ p.url = q.url \/ p.url = q.sourceUrl \/ p.sourceUrl = q.url
      \/ (p.sourceUrl = q.sourceUrl /\ p.sourceUrl # None)
      \/ (p.s3Url = q.s3Url /\ p.s3Url # None) \/ (p.sha256 = q.sha256 /\ p.sha256 # None)
  BY DEF Describes
<1>8. p.url # q.sourceUrl /\ q.url # p.sourceUrl
  BY <1>4
<1>9. /\ p.url # q.url /\ ~(p.sourceUrl = q.sourceUrl /\ p.sourceUrl # None)
      /\ ~(p.s3Url = q.s3Url /\ p.s3Url # None) /\ ~(p.sha256 = q.sha256 /\ p.sha256 # None)
  BY <1>2, <1>5, <1>6
<1>. QED
  BY <1>7, <1>8, <1>9

\* A pass of the dedupe script that nobody disturbs leaves no two rows known by one value, in whichever columns.
THEOREM OnePassSuffices == UpkeepSpec => []OnePassIsEnough
<1>1. UpkeepInit => Registry /\ RegistryTyped /\ PassInv
  BY RegistryInit, RowsTypedInit, PassInvInit
<1>2. UpkeepSpec => [](Registry /\ RegistryTyped /\ PassInv)
  BY <1>1, RegistryInvStep, PTL DEF UpkeepSpec
<1>. QED
  BY <1>2, PassInvImplies, PTL
-----------------------------------------------------------------------------
(* Types of the tables, the upserts and the runs *)

Places == {"parse", "store", "check", "early", "shell", "queued", "infer", "period", "linked", "link", "set", "move",
           "tidy", "done", "failed"}
UpPlaces == {"idle", "find", "merge", "put", "done", "threw"}
RowRef == RowIds \cup {NoRow}
ShellRef == ShellIds \cup {NoShell}

JobOK(j) == j.at \in Places /\ j.row \in RowRef /\ j.shell \in ShellRef /\ j.to \in ShellRef /\ j.other \in ShellRef
UpOK(u) == u.at \in UpPlaces /\ u.ids \subseteq RowIds /\ u.plan.drop \subseteq RowIds /\ u.row \in RowRef
           /\ u.plan.keep \in RowRef

ShellsTyped == shells <= MaxShells /\ \A s \in DOMAIN shell : shell[s] \in RowRef
PeriodsTyped ==
    /\ period = [s \in DOMAIN period |-> period[s]] /\ DOMAIN period \subseteq ShellIds
    /\ \A s \in DOMAIN period : period[s] \in Runs
ReportsAreRows == report = [id \in DOMAIN report |-> report[id]]

PlacesTyped ==
    /\ ReportsAreRows /\ ShellsTyped /\ PeriodsTyped
    /\ \A a \in Actors : UpOK(up[a])
    /\ \A r \in Runs : JobOK(job[r])

LEMMA PlacesTypedInit == UpkeepInit => PlacesTyped
<1>. SUFFICES ASSUME UpkeepInit PROVE PlacesTyped
  OBVIOUS
<1>1. ReportsAreRows
  <2>1. PICK n \in 0 .. MaxRows : report \in [1 .. n -> RowType]
    BY SeedsAssumption DEF UpkeepInit, Init
  <2>. QED
    BY <2>1 DEF ReportsAreRows
<1>2. ShellsTyped /\ PeriodsTyped
  BY BoundsAssumption DEF UpkeepInit, Init, ShellsTyped, PeriodsTyped
<1>3. ASSUME NEW a \in Actors PROVE UpOK(up[a])
  <2>. DEFINE u == [Idle EXCEPT !.at = "find"]
  <2>1. u = [at |-> "find", ids |-> {}, plan |-> NoPlan, row |-> NoRow, clean |-> TRUE]
    BY IdleBut
  <2>2. up[a] \in {u, Idle}
    BY DEF UpkeepInit, Init
  <2>. HIDE DEF u
  <2>3. Idle.ids = {} /\ Idle.plan = NoPlan /\ Idle.row = NoRow /\ Idle.at = "idle"
    BY DEF Idle
  <2>4. NoPlan.drop = {} /\ NoPlan.keep = NoRow
    BY DEF NoPlan
  <2>. QED
    BY <2>1, <2>2, <2>3, <2>4 DEF UpOK, UpPlaces, RowRef
<1>4. ASSUME NEW r \in Runs PROVE JobOK(job[r])
  BY DEF UpkeepInit, Init, JobOK, Places, RowRef, ShellRef
<1>. QED
  BY <1>1, <1>2, <1>3, <1>4 DEF PlacesTyped

\* Records of upserts.
LEMMA IdleButOK ==
    ASSUME NEW v \in UpPlaces
    PROVE  /\ UpOK(Idle)
           /\ UpOK([Idle EXCEPT !.at = v])
           /\ \A w \in SUBSET RowIds : UpOK([Idle EXCEPT !.at = v, !.ids = w])
           /\ \A w : w.drop \subseteq RowIds /\ w.keep \in RowRef => UpOK([Idle EXCEPT !.at = v, !.plan = w])
           /\ \A w \in RowRef : UpOK([Idle EXCEPT !.at = v, !.row = w])
<1>1. NoPlan.drop = {} /\ NoPlan.keep = NoRow /\ NoRow \in RowRef
  BY DEF NoPlan, RowRef
<1>2. UpOK(Idle)
  BY <1>1 DEF Idle, UpOK, UpPlaces
<1>3. UpOK([Idle EXCEPT !.at = v])
  <2>. DEFINE u == [Idle EXCEPT !.at = v]
  <2>1. u = [at |-> v, ids |-> {}, plan |-> NoPlan, row |-> NoRow, clean |-> TRUE]
    BY IdleBut
  <2>. HIDE DEF u
  <2>2. UpOK(u)
    BY <1>1, <2>1 DEF UpOK
  <2>. QED
    BY <2>2 DEF u
<1>4. ASSUME NEW w \in SUBSET RowIds PROVE UpOK([Idle EXCEPT !.at = v, !.ids = w])
  <2>. DEFINE u == [Idle EXCEPT !.at = v, !.ids = w]
  <2>1. u = [at |-> v, ids |-> w, plan |-> NoPlan, row |-> NoRow, clean |-> TRUE]
    BY IdleBut
  <2>. HIDE DEF u
  <2>2. UpOK(u)
    BY <1>1, <2>1 DEF UpOK
  <2>. QED
    BY <2>2 DEF u
<1>5. ASSUME NEW w, w.drop \subseteq RowIds, w.keep \in RowRef PROVE UpOK([Idle EXCEPT !.at = v, !.plan = w])
  <2>. DEFINE u == [Idle EXCEPT !.at = v, !.plan = w]
  <2>1. u = [at |-> v, ids |-> {}, plan |-> w, row |-> NoRow, clean |-> TRUE]
    BY IdleBut
  <2>. HIDE DEF u
  <2>2. UpOK(u)
    BY <1>1, <1>5, <2>1 DEF UpOK
  <2>. QED
    BY <2>2 DEF u
<1>6. ASSUME NEW w \in RowRef PROVE UpOK([Idle EXCEPT !.at = v, !.row = w])
  <2>. DEFINE u == [Idle EXCEPT !.at = v, !.row = w]
  <2>1. u = [at |-> v, ids |-> {}, plan |-> NoPlan, row |-> w, clean |-> TRUE]
    BY IdleBut
  <2>. HIDE DEF u
  <2>2. UpOK(u)
    BY <1>1, <2>1 DEF UpOK
  <2>. QED
    BY <2>2 DEF u
<1>. QED
  BY <1>2, <1>3, <1>4, <1>5, <1>6

LEMMA UpBecomes ==
    ASSUME UpShape, NEW a \in Actors, NEW u, up' = [up EXCEPT ![a] = u]
    PROVE  up'[a] = u /\ \A b \in Actors : b # a => up'[b] = up[b]
<1>1. up = [b \in Actors |-> up[b]]
  BY DEF UpShape
<1>2. up' = [b \in Actors |-> IF b = a THEN u ELSE up[b]]
  BY <1>1
<1>. QED
  BY <1>2

LEMMA DirtiedOK ==
    ASSUME NEW u, u = [b \in Actors |-> u[b]], \A b \in Actors : UpRecord(u[b]) /\ UpOK(u[b]), NEW a, up' = Dirtied(u, a)
    PROVE  \A b \in Actors : UpOK(up'[b])
<1>1. ASSUME NEW b \in Actors, NEW t, NEW w, w = [u[b] EXCEPT !.clean = t] PROVE UpOK(w)
  <2>1. w = [at |-> u[b].at, ids |-> u[b].ids, plan |-> u[b].plan, row |-> u[b].row, clean |-> t]
    BY <1>1, UpFields
  <2>. QED
    BY <2>1 DEF UpOK
<1>2. \A b \in Actors : up'[b] \in {u[b], [u[b] EXCEPT !.clean = FALSE]}
  BY DEF Dirtied
<1>3. ASSUME NEW b \in Actors PROVE up'[b] = u[b] \/ \E t \in BOOLEAN : up'[b] = [u[b] EXCEPT !.clean = t]
  BY <1>2
<1>4. ASSUME NEW b \in Actors PROVE UpOK(up'[b])
  <2>1. CASE up'[b] = u[b]
    BY <2>1, Zenon
  <2>2. CASE \E t \in BOOLEAN : up'[b] = [u[b] EXCEPT !.clean = t]
    <3>1. PICK t \in BOOLEAN : up'[b] = [u[b] EXCEPT !.clean = t]
      BY <2>2
    <3>. DEFINE w == up'[b]
    <3>2. w = [u[b] EXCEPT !.clean = t]
      BY <3>1
    <3>. HIDE DEF w
    <3>3. UpOK(w)
      BY <1>1, <3>2
    <3>. QED
      BY <3>3 DEF w
  <2>. QED
    BY <1>3, <2>1, <2>2
<1>. QED
  BY <1>4

LEMMA MatchingAreRows == ASSUME RowsTyped, NEW i PROVE Matching(i) \subseteq DOMAIN report /\ Matching(i) \subseteq RowIds
  BY DEF Matching, RowsTyped

LEMMA StorePlanOK == ASSUME RowsTyped, NEW i PROVE StorePlan(i).drop \subseteq RowIds /\ StorePlan(i).keep \in RowRef
<1>. DEFINE ids == Matching(i)
<1>1. CASE ids = {}
  BY <1>1 DEF StorePlan, CreatePlan, RowRef
<1>2. CASE ids # {}
  <2>1. ids \subseteq 1..MaxRows /\ MaxRows \in Nat
    BY MatchingAreRows, BoundsAssumption DEF RowIds
  <2>2. Min(ids) \in RowIds
    BY <1>2, <2>1, LeastIn DEF RowIds
  <2>. QED
    BY <1>2, <2>2 DEF StorePlan, RowRef
<1>. QED
  BY <1>1, <1>2

LEMMA FirstPlanOK ==
    ASSUME RowsTyped, NEW i, NEW p,
           p = IF Matching(i) = {} THEN CreatePlan(i, None) ELSE PatchPlan(Min(Matching(i)), i)
    PROVE  p.drop \subseteq RowIds /\ p.keep \in RowRef
<1>. DEFINE ids == Matching(i)
<1>1. CASE ids = {}
  BY <1>1 DEF CreatePlan, RowRef
<1>2. CASE ids # {}
  <2>1. ids \subseteq 1..MaxRows /\ MaxRows \in Nat
    BY MatchingAreRows, BoundsAssumption DEF RowIds
  <2>2. Min(ids) \in RowIds
    BY <1>2, <2>1, LeastIn DEF RowIds
  <2>. QED
    BY <1>2, <2>2 DEF PatchPlan, RowRef
<1>. QED
  BY <1>1, <1>2

-----------------------------------------------------------------------------
(* The types hold after a step of a run *)

LEMMA RunPlaces ==
    ASSUME PlacesTyped, NEW r \in Runs, OfRun(r), ShellsTyped', PeriodsTyped', UpOK(up'[r]), JobOK(job'[r])
    PROVE  PlacesTyped'
<1>1. ReportsAreRows'
  BY DEF PlacesTyped, ReportsAreRows, OfRun
<1>2. \A a \in Actors : UpOK(up'[a])
  BY DEF PlacesTyped, OfRun
<1>3. \A q \in Runs : JobOK(job'[q])
  BY DEF PlacesTyped, OfRun
<1>. QED
  BY <1>1, <1>2, <1>3 DEF PlacesTyped

LEMMA JobBecomesOK ==
    ASSUME NEW r \in Runs, NEW at \in Places, NEW row \in RowRef, NEW sh \in ShellRef, NEW to \in ShellRef,
           NEW other \in ShellRef, Becomes(r, at, row, sh, to, other)
    PROVE  JobOK(job'[r])
  BY DEF Becomes, JobOK

LEMMA RefsOfJob ==
    ASSUME PlacesTyped, NEW r \in Runs
    PROVE  /\ job[r].row \in RowRef /\ job[r].shell \in ShellRef /\ job[r].to \in ShellRef /\ job[r].other \in ShellRef
           /\ r \in Actors /\ up[r].row \in RowRef /\ UpOK(up[r])
           /\ ShellsTyped /\ PeriodsTyped
  BY DEF PlacesTyped, JobOK, UpOK, Actors

LEMMA SameShellsTyped == ASSUME ShellsTyped, UNCHANGED <<shell, shells>> PROVE ShellsTyped'
  BY DEF ShellsTyped
LEMMA SamePeriodsTyped == ASSUME PeriodsTyped, UNCHANGED period PROVE PeriodsTyped'
  BY DEF PeriodsTyped

LEMMA FoundTyped ==
    ASSUME SaveInv, ShellsTyped, NEW row \in RowRef, NEW s \in ShellIds, FindOrCreate(row, s)
    PROVE  ShellsTyped'
<1>1. MaxShells \in Nat /\ shells \in Nat /\ s <= MaxShells
  BY BoundsAssumption DEF SaveInv, TableShapes, ShellIds
<1>2. CASE UNCHANGED <<shell, shells>>
  BY <1>2, SameShellsTyped
<1>3. CASE s = shells + 1 /\ shell' = With(shell, s, row) /\ shells' = s
  BY <1>1, <1>3 DEF ShellsTyped, With
<1>. QED
  BY <1>2, <1>3 DEF FindOrCreate

LEMMA FailedTyped == ASSUME SaveInv, PlacesTyped, NEW r \in Runs, SaveFails(r) PROVE JobOK(job'[r])
<1>1. CASE To(r, "failed")
  <2>1. Becomes(r, "failed", job[r].row, job[r].shell, job[r].to, job[r].other)
    BY <1>1, JobTo DEF SaveInv
  <2>. QED
    BY <2>1, RefsOfJob DEF Becomes, JobOK, Places
<1>2. CASE job' = [job EXCEPT ![r].at = "queued", ![r].to = NoShell]
  <2>1. Becomes(r, "queued", job[r].row, job[r].shell, NoShell, job[r].other)
    BY <1>2, JobSets DEF SaveInv
  <2>. QED
    BY <2>1, RefsOfJob DEF Becomes, JobOK, Places, ShellRef
<1>. QED
  BY <1>1, <1>2 DEF SaveFails

LEMMA ReturnedTyped == ASSUME SaveInv, NEW r \in Runs, Return(r) PROVE UpOK(up'[r])
<1>1. r \in Actors /\ up' = [up EXCEPT ![r] = Idle]
  BY DEF Return, Actors
<1>2. up'[r] = Idle
  BY <1>1, UpBecomes DEF SaveInv
<1>. QED
  BY <1>2, IdleButOK DEF UpPlaces

LEMMA CalledTyped == ASSUME SaveInv, NEW r \in Runs, Call(r) PROVE UpOK(up'[r])
<1>. DEFINE u == [Idle EXCEPT !.at = "find"]
<1>1. r \in Actors /\ up' = [up EXCEPT ![r] = u]
  BY DEF Call, Actors
<1>2. UpOK(u)
  BY IdleButOK DEF UpPlaces
<1>. HIDE DEF u
<1>3. up'[r] = u
  BY <1>1, UpBecomes DEF SaveInv
<1>. QED
  BY <1>2, <1>3

LEMMA ParseTypes ==
    ASSUME SaveInv, RowsTyped, PlacesTyped, NEW r \in Runs,
           ParseFinds(r) \/ ParseEnds(r) \/ CheckBegins(r) \/ EarlyReturns(r)
    PROVE  UpOK(up'[r]) /\ JobOK(job'[r])
<1>0. \A at \in Places : To(r, at) => JobOK(job'[r])
  <2>1. ASSUME NEW at \in Places, To(r, at) PROVE JobOK(job'[r])
    <3>1. Becomes(r, at, job[r].row, job[r].shell, job[r].to, job[r].other)
      BY <2>1, JobTo DEF SaveInv
    <3>. QED
      BY <3>1, RefsOfJob DEF Becomes, JobOK
  <2>. QED
    BY <2>1
<1>1. CASE ParseFinds(r)
  <2>. DEFINE p == StorePlan(input[r])
              u == [Idle EXCEPT !.at = "put", !.plan = p]
  <2>1. r \in Actors /\ up' = [up EXCEPT ![r] = u]
    BY <1>1 DEF ParseFinds, Actors
  <2>2. p.drop \subseteq RowIds /\ p.keep \in RowRef
    BY StorePlanOK
  <2>. HIDE DEF p
  <2>3. UpOK(u)
    BY <2>2, IdleButOK DEF UpPlaces
  <2>. HIDE DEF u
  <2>4. up'[r] = u
    BY <2>1, UpBecomes DEF SaveInv
  <2>. QED
    BY <1>0, <1>1, <2>3, <2>4 DEF ParseFinds, Places
<1>2. CASE ParseEnds(r)
  BY <1>0, <1>2, ReturnedTyped DEF ParseEnds, Places
<1>3. CASE CheckBegins(r)
  BY <1>0, <1>3, CalledTyped DEF CheckBegins, Places
<1>4. CASE EarlyReturns(r)
  <2>. DEFINE ids == Matching(input[r])
              kept == IF ids = {} THEN NoRow ELSE RowToKeep(ids)
  <2>1. kept \in RowRef
    <3>1. ids \subseteq RowIds
      BY MatchingAreRows
    <3>. HIDE DEF ids
    <3>2. ids # {} => RowToKeep(ids) \in ids
      BY <3>1, RowToKeepIsOne
    <3>. QED
      BY <3>1, <3>2 DEF RowRef
  <2>2. \/ job' = [job EXCEPT ![r].at = "shell", ![r].row = up[r].row]
        \/ job' = [job EXCEPT ![r].at = "queued", ![r].row = kept]
    BY <1>4 DEF EarlyReturns
  <2>. HIDE DEF kept, ids
  <2>3. \/ Becomes(r, "shell", up[r].row, job[r].shell, job[r].to, job[r].other)
        \/ Becomes(r, "queued", kept, job[r].shell, job[r].to, job[r].other)
    BY <2>2, JobSets DEF SaveInv
  <2>4. JobOK(job'[r])
    BY <2>1, <2>3, RefsOfJob DEF Becomes, JobOK, Places
  <2>. QED
    BY <1>4, <2>4, ReturnedTyped DEF EarlyReturns
<1>. QED
  BY <1>1, <1>2, <1>3, <1>4

RunTyped(r) == ShellsTyped' /\ PeriodsTyped' /\ UpOK(up'[r]) /\ JobOK(job'[r])

LEMMA JobToOK == ASSUME SaveInv, PlacesTyped, NEW r \in Runs, NEW at \in Places, To(r, at) PROVE JobOK(job'[r])
<1>1. Becomes(r, at, job[r].row, job[r].shell, job[r].to, job[r].other)
  BY JobTo DEF SaveInv
<1>. QED
  BY <1>1, RefsOfJob DEF Becomes, JobOK

LEMMA JobSetsOK ==
    ASSUME SaveInv, PlacesTyped, NEW r \in Runs, NEW at \in Places, NEW s \in ShellRef,
           \/ job' = [job EXCEPT ![r].at = at, ![r].shell = s]
           \/ job' = [job EXCEPT ![r].at = at, ![r].to = s]
           \/ job' = [job EXCEPT ![r].at = at, ![r].other = s]
    PROVE  JobOK(job'[r])
<1>1. \/ Becomes(r, at, job[r].row, s, job[r].to, job[r].other)
      \/ Becomes(r, at, job[r].row, job[r].shell, s, job[r].other)
      \/ Becomes(r, at, job[r].row, job[r].shell, job[r].to, s)
  BY JobSets DEF SaveInv
<1>. QED
  BY <1>1, RefsOfJob DEF Becomes, JobOK

LEMMA AnswerOK ==
    ASSUME SaveInv, PlacesTyped, NEW r \in Runs, NEW s \in ShellRef, NEW row \in RowRef, Answer(r, s, row)
    PROVE  JobOK(job'[r])
<1>1. Becomes(r, "done", row, job[r].shell, s, NoShell)
  BY JobSet DEF Answer, SaveInv
<1>. QED
  BY <1>1, RefsOfJob DEF Becomes, JobOK, Places, ShellRef

LEMMA SaveTypes ==
    ASSUME SaveInv, PlacesTyped, NEW r \in Runs, CheckEnds(r) \/ SaveBegins(r) \/ SaveInfers(r)
    PROVE  RunTyped(r)
<1>1. PeriodsTyped'
  BY RefsOfJob, SamePeriodsTyped DEF CheckEnds, SaveBegins, SaveInfers
<1>2. UpOK(up'[r])
  <2>1. CASE UNCHANGED up
    BY <2>1, RefsOfJob
  <2>2. CASE Return(r)
    BY <2>2, ReturnedTyped
  <2>3. CASE Call(r)
    BY <2>3, CalledTyped
  <2>. QED
    BY <2>1, <2>2, <2>3 DEF CheckEnds, SaveBegins, SaveInfers
<1>3. ASSUME NEW row \in {job[r].row, up[r].row}, NEW s \in ShellIds, FindOrCreate(row, s)
      PROVE  ShellsTyped'
  BY <1>3, RefsOfJob, FoundTyped
<1>4. \A s \in ShellIds : s \in ShellRef
  BY DEF ShellRef
<1>5. CASE UNCHANGED <<shell, shells>> /\ (SaveFails(r) \/ To(r, "queued") \/ To(r, "infer"))
  BY <1>1, <1>2, <1>5, FailedTyped, JobToOK, RefsOfJob, SameShellsTyped DEF RunTyped, Places
<1>6. CASE UNCHANGED <<shell, shells>> /\ job' = [job EXCEPT ![r].at = "period", ![r].to = job[r].shell]
  <2>1. JobOK(job'[r])
    BY <1>6, JobSetsOK, RefsOfJob DEF Places
  <2>. QED
    BY <1>1, <1>2, <1>6, <2>1, RefsOfJob, SameShellsTyped DEF RunTyped
<1>7. CASE \E s \in ShellIds : \E row \in {job[r].row, up[r].row} :
              /\ FindOrCreate(row, s)
              /\ \/ job' = [job EXCEPT ![r].at = "period", ![r].to = s]
                 \/ job' = [job EXCEPT ![r].at = "queued", ![r].shell = s]
  <2>1. PICK s \in ShellIds, row \in {job[r].row, up[r].row} :
              /\ FindOrCreate(row, s)
              /\ \/ job' = [job EXCEPT ![r].at = "period", ![r].to = s]
                 \/ job' = [job EXCEPT ![r].at = "queued", ![r].shell = s]
    BY <1>7
  <2>2. ShellsTyped'
    BY <1>3, <2>1
  <2>3. JobOK(job'[r])
    BY <1>4, <2>1, JobSetsOK DEF Places
  <2>. QED
    BY <1>1, <1>2, <2>2, <2>3 DEF RunTyped
<1>8. CASE CheckEnds(r)
  BY <1>5, <1>7, <1>8 DEF CheckEnds
<1>9. CASE SaveBegins(r)
  BY <1>5, <1>6, <1>7, <1>9 DEF SaveBegins
<1>10. CASE SaveInfers(r)
  BY <1>5, <1>7, <1>10 DEF SaveInfers
<1>. QED
  BY <1>8, <1>9, <1>10

LEMMA ShellsAreIds == ASSUME SaveInv, ShellsTyped PROVE DOMAIN shell \subseteq ShellIds
  BY BoundsAssumption DEF SaveInv, TableShapes, ShellsTyped, ShellIds

LEMMA LinkTypes ==
    ASSUME SaveInv, PlacesTyped, NEW r \in Runs, LinkBegins(r) \/ LinkFinds(r)
    PROVE  RunTyped(r)
<1>1. ShellsTyped' /\ PeriodsTyped' /\ ShellsTyped
  BY RefsOfJob, SameShellsTyped, SamePeriodsTyped DEF LinkBegins, LinkFinds, links
<1>2. UpOK(up'[r])
  <2>1. CASE UNCHANGED up
    BY <2>1, RefsOfJob
  <2>2. CASE Return(r)
    BY <2>2, ReturnedTyped
  <2>3. CASE Call(r)
    BY <2>3, CalledTyped
  <2>. QED
    BY <2>1, <2>2, <2>3 DEF LinkBegins, LinkFinds
<1>3. CASE LinkBegins(r)
  <2>1. job[r].to \in DOMAIN shell
    BY <1>3 DEF LinkBegins, SaveInv, SaveStands, Saving
  <2>2. shell[job[r].to] \in RowRef
    BY <1>1, <2>1 DEF ShellsTyped
  <2>3. Answer(r, job[r].to, shell[job[r].to]) \/ To(r, "link")
    BY <1>3 DEF LinkBegins
  <2>4. JobOK(job'[r])
    BY <2>2, <2>3, AnswerOK, JobToOK, RefsOfJob DEF Places
  <2>. QED
    BY <1>1, <1>2, <2>4 DEF RunTyped
<1>4. CASE LinkFinds(r)
  <2>1. \/ To(r, "set") \/ SaveFails(r)
        \/ \E s \in ShellsOf(up[r].row) : job' = [job EXCEPT ![r].at = "move", ![r].other = s]
    BY <1>4 DEF LinkFinds
  <2>2. ShellsOf(up[r].row) \subseteq ShellRef
    BY <1>1, ShellsAreIds DEF ShellsOf, ShellRef
  <2>3. JobOK(job'[r])
    BY <2>1, <2>2, JobSetsOK, JobToOK, FailedTyped DEF Places
  <2>. QED
    BY <1>1, <1>2, <2>3 DEF RunTyped
<1>. QED
  BY <1>3, <1>4

LEMMA MoveTypes ==
    ASSUME SaveInv, PlacesTyped, NEW r \in Runs, SavePeriod(r) \/ LinkMoves(r)
    PROVE  RunTyped(r)
<1>1. ShellsTyped /\ PeriodsTyped /\ UpOK(up[r])
  BY RefsOfJob
<1>2. ShellsTyped' /\ UpOK(up'[r])
  BY <1>1, SameShellsTyped DEF SavePeriod, LinkMoves
<1>3. DOMAIN shell \subseteq ShellIds
  BY <1>1, ShellsAreIds
<1>4. CASE SavePeriod(r)
  <2>1. job[r].to \in ShellIds
    BY <1>3, <1>4 DEF SavePeriod, SaveInv, SaveStands, Saving
  <2>2. PeriodsTyped'
    BY <1>1, <1>4, <2>1 DEF SavePeriod, PeriodsTyped, With
  <2>. QED
    BY <1>2, <1>4, <2>2, JobToOK DEF SavePeriod, RunTyped, Places
<1>5. CASE LinkMoves(r)
  <2>. DEFINE s == job[r].other
              x == job[r].to
              less == Without(period, {x})
  <2>1. s \in ShellIds /\ x \in DOMAIN period
    BY <1>3, <1>5 DEF LinkMoves, SaveInv, SaveStands, Saving
  <2>2. period' = IF s \in DOMAIN period THEN less ELSE With(less, s, period[x])
    BY <1>5 DEF LinkMoves
  <2>3. less = [z \in DOMAIN less |-> less[z]] /\ DOMAIN less \subseteq ShellIds
        /\ \A z \in DOMAIN less : less[z] \in Runs
    BY <1>1 DEF Without, PeriodsTyped
  <2>4. period[x] \in Runs
    BY <1>1, <2>1 DEF PeriodsTyped
  <2>. HIDE DEF less, s, x
  <2>5. PeriodsTyped'
    BY <2>1, <2>2, <2>3, <2>4 DEF PeriodsTyped, With
  <2>. QED
    BY <1>2, <1>5, <2>5, JobToOK DEF LinkMoves, RunTyped, Places
<1>. QED
  BY <1>4, <1>5

LEMMA EndTypes ==
    ASSUME SaveInv, PlacesTyped, NEW r \in Runs, LinkSets(r) \/ LinkTidies(r)
    PROVE  RunTyped(r)
<1>1. ShellsTyped /\ PeriodsTyped /\ up[r].row \in RowRef /\ job[r].to \in ShellRef /\ job[r].other \in ShellRef
  BY RefsOfJob
<1>2. PeriodsTyped' /\ UpOK(up'[r]) /\ UNCHANGED shells
  BY <1>1, SamePeriodsTyped, ReturnedTyped DEF LinkSets, LinkTidies
<1>3. ShellsTyped'
  <2>. DEFINE f == shell
              x == job[r].to
              v == up[r].row
  <2>1. f = [z \in DOMAIN f |-> f[z]]
    BY DEF SaveInv, TableShapes
  <2>2. shell' = f \/ shell' = Without(f, {x}) \/ shell' = [f EXCEPT ![x] = v]
    BY DEF LinkSets, LinkTidies
  <2>3. shells <= MaxShells /\ v \in RowRef /\ \A z \in DOMAIN f : f[z] \in RowRef
    BY <1>1 DEF ShellsTyped
  <2>. HIDE DEF f, x, v
  <2>4. \A z \in DOMAIN shell' : shell'[z] \in RowRef
    <3>1. CASE shell' = f
      BY <2>3, <3>1
    <3>2. CASE shell' = Without(f, {x})
      BY <2>3, <3>2 DEF Without
    <3>3. CASE shell' = [f EXCEPT ![x] = v]
      <4>1. shell' = [z \in DOMAIN f |-> IF z = x THEN v ELSE f[z]]
        BY <2>1, <3>3
      <4>. QED
        BY <2>3, <4>1
    <3>. QED
      BY <2>2, <3>1, <3>2, <3>3
  <2>. QED
    BY <1>2, <2>3, <2>4 DEF ShellsTyped
<1>4. SaveFails(r) \/ \E s \in {job[r].to, job[r].other} : Answer(r, s, up[r].row)
  BY DEF LinkSets, LinkTidies
<1>5. JobOK(job'[r])
  BY <1>1, <1>4, FailedTyped, AnswerOK
<1>. QED
  BY <1>2, <1>3, <1>5 DEF RunTyped

LEMMA RunTypes ==
    ASSUME SaveInv, RowsTyped, PlacesTyped, NEW r \in Runs, Run(r)
    PROVE  PlacesTyped'
<1>1. OfRun(r)
  <2>1. Stepped(r)
    BY ParseSteps, CheckEndsStep, SaveBeginsStep, SaveInfersStep, SavePeriodStep, LinkBeginsStep, LinkFindsStep,
       LinkSetsStep, LinkMovesStep, LinkTidiesStep DEF Run
  <2>. QED
    BY <2>1 DEF Stepped
<1>2. RunTyped(r)
  <2>1. CASE ParseFinds(r) \/ ParseEnds(r) \/ CheckBegins(r) \/ EarlyReturns(r)
    <3>1. UNCHANGED <<shell, shells, period>>
      BY <2>1 DEF ParseFinds, ParseEnds, CheckBegins, EarlyReturns, links
    <3>. QED
      BY <2>1, <3>1, ParseTypes, RefsOfJob, SameShellsTyped, SamePeriodsTyped DEF RunTyped
  <2>. QED
    BY <2>1, SaveTypes, LinkTypes, MoveTypes, EndTypes DEF Run
<1>. QED
  BY <1>1, <1>2, RunPlaces DEF RunTyped

-----------------------------------------------------------------------------
(* The types hold after a step of an upsert, of staff, of a script *)

LEMMA RowsPutTyped ==
    ASSUME PlacesTyped, NEW drop, ReportsAreRows', shell' = Unlinked(drop), UNCHANGED <<shells, period, job>>,
           \A b \in Actors : UpOK(up'[b])
    PROVE  PlacesTyped'
<1>1. ShellsTyped' /\ PeriodsTyped'
  BY DEF PlacesTyped, ShellsTyped, PeriodsTyped, Unlinked, RowRef
<1>2. \A r \in Runs : JobOK(job'[r])
  BY DEF PlacesTyped
<1>. QED
  BY <1>1, <1>2 DEF PlacesTyped

LEMMA OnlyUpTyped ==
    ASSUME SaveInv, PlacesTyped, NEW a \in Actors, NEW u, UpOK(u), up' = [up EXCEPT ![a] = u],
           UNCHANGED <<report, shell, shells, period, job>>
    PROVE  PlacesTyped'
<1>1. up'[a] = u /\ \A b \in Actors : b # a => up'[b] = up[b]
  BY UpBecomes DEF SaveInv
<1>2. \A b \in Actors : UpOK(up'[b])
  BY <1>1 DEF PlacesTyped
<1>3. ShellsTyped' /\ PeriodsTyped' /\ ReportsAreRows'
  BY DEF PlacesTyped, ShellsTyped, PeriodsTyped, ReportsAreRows
<1>4. \A r \in Runs : JobOK(job'[r])
  BY DEF PlacesTyped
<1>. QED
  BY <1>2, <1>3, <1>4 DEF PlacesTyped

LEMMA AfterIsTable == ASSUME NEW p PROVE After(p) = [id \in DOMAIN After(p) |-> After(p)[id]]
  BY DEF After, With

LEMMA TargetIsRow == ASSUME NEW p, p.keep # NoRow, Applies(p), RowsTyped PROVE Target(p) \in RowIds
  BY DEF Target, Applies, RowsTyped

LEMMA FindTypes == ASSUME SaveInv, RowsTyped, PlacesTyped, NEW a \in Actors, Find(a) PROVE PlacesTyped'
<1>. DEFINE ids == Matching(input[a])
            m == [Idle EXCEPT !.at = "merge", !.ids = ids]
            p == IF ids = {} THEN CreatePlan(input[a], None) ELSE PatchPlan(Min(ids), input[a])
            w == [Idle EXCEPT !.at = "put", !.plan = p]
<1>1. p.drop \subseteq RowIds /\ p.keep \in RowRef
  BY FirstPlanOK
<1>2. ids \subseteq RowIds
  BY MatchingAreRows
<1>3. up' \in {[up EXCEPT ![a] = m], [up EXCEPT ![a] = w]}
  BY DEF Find
<1>. HIDE DEF ids, p
<1>4. UpOK(m) /\ UpOK(w)
  BY <1>1, <1>2, IdleButOK DEF UpPlaces
<1>. HIDE DEF m, w
<1>. QED
  BY <1>3, <1>4, OnlyUpTyped DEF Find, links

LEMMA ReadAgainTypes ==
    ASSUME SaveInv, RegistryTyped, PlacesTyped, NEW a \in Actors, ReadAgain(a)
    PROVE  PlacesTyped'
<1>. DEFINE ids == up[a].ids \cap DOMAIN report
            p == MergePlan(ids, input[a])
            m == [Idle EXCEPT !.at = "threw"]
            v == [up[a] EXCEPT !.at = "put"]
            w == [up[a] EXCEPT !.at = "put", !.ids = {}, !.plan = p]
<1>1. \/ up' = [up EXCEPT ![a] = m]
      \/ ids # {} /\ up' = [up EXCEPT ![a] = w]
  <2>1. w = [up[a] EXCEPT !.at = "put", !.ids = {}, !.plan = MergePlan(ids, input[a])]
    OBVIOUS
  <2>. QED
    BY <2>1 DEF ReadAgain, UpShape, SaveInv
<1>2. ids \subseteq DOMAIN report /\ ids \subseteq RowIds /\ RowsTyped /\ input[a] \in IdentityType
  BY DEF RegistryTyped, RowsTyped, InputsTyped
<1>3. ids # {} => p.keep \in RowRef /\ p.drop \subseteq RowIds
  <2>1. ids # {} => p.keep \in ids
    BY <1>2, MergeTyped
  <2>2. p.drop \subseteq ids
    BY DEF MergePlan
  <2>. QED
    BY <1>2, <2>1, <2>2 DEF RowRef
<1>. HIDE DEF p, ids
<1>4. UpOK(m)
  BY IdleButOK DEF UpPlaces
<1>5. ids # {} => UpOK(w)
  <2>. DEFINE e == {}
              x == [v EXCEPT !.ids = e]
  <2>1. UpRecord(v) /\ v.at = "put" /\ v.row = up[a].row
    <3>1. v = [at |-> "put", ids |-> up[a].ids, plan |-> up[a].plan, row |-> up[a].row, clean |-> up[a].clean]
      BY UpFields DEF SaveInv, UpShape
    <3>. QED
      BY <3>1 DEF UpRecord
  <2>2. w = [x EXCEPT !.plan = p]
    OBVIOUS
  <2>3. e = {}
    OBVIOUS
  <2>. HIDE DEF v, e, w
  <2>4. UpRecord(x) /\ x.at = "put" /\ x.ids = e /\ x.row = up[a].row
    <3>1. x = [at |-> v.at, ids |-> e, plan |-> v.plan, row |-> v.row, clean |-> v.clean]
      BY <2>1, UpFields
    <3>. QED
      BY <2>1, <3>1 DEF UpRecord
  <2>. HIDE DEF x
  <2>5. w = [at |-> x.at, ids |-> x.ids, plan |-> p, row |-> x.row, clean |-> x.clean]
    BY <2>2, <2>4, UpFields
  <2>6. w.at = "put" /\ w.ids = {} /\ w.plan = p /\ w.row = up[a].row
    BY <2>3, <2>4, <2>5
  <2>7. up[a].row \in RowRef
    BY DEF PlacesTyped, UpOK
  <2>. QED
    BY <1>3, <2>6, <2>7 DEF UpOK, UpPlaces
<1>. HIDE DEF m, w
<1>. QED
  BY <1>1, <1>4, <1>5, OnlyUpTyped DEF ReadAgain, links

LEMMA PutTypes == ASSUME SaveInv, PlacesTyped, NEW a \in Actors, Put(a) PROVE PlacesTyped'
<1>. DEFINE p == up[a].plan
<1>1. CASE ~Applies(p)
  <2>. DEFINE u == [Idle EXCEPT !.at = "threw"]
  <2>1. UpOK(u)
    BY IdleButOK DEF UpPlaces
  <2>2. up' = [up EXCEPT ![a] = u] /\ UNCHANGED <<report, shell, shells, period, job>>
    BY <1>1 DEF Put
  <2>. HIDE DEF u
  <2>. QED
    BY <2>1, <2>2, OnlyUpTyped
<1>2. CASE Applies(p)
  <2>. DEFINE t == Target(p)
              u == [Idle EXCEPT !.at = "done", !.row = t]
              v == [up EXCEPT ![a] = u]
  <2>1. /\ t \in RowIds /\ report' = After(p) /\ shell' = Unlinked(p.drop) /\ up' = Dirtied(v, a)
        /\ UNCHANGED <<shells, period, job>>
    BY <1>2 DEF Put
  <2>2. ReportsAreRows'
    BY <2>1, AfterIsTable DEF ReportsAreRows
  <2>. HIDE DEF t, p
  <2>3. UpOK(u)
    BY <2>1, IdleButOK DEF UpPlaces, RowRef
  <2>4. UpRecord(u)
    <3>1. u = [at |-> "done", ids |-> {}, plan |-> NoPlan, row |-> t, clean |-> TRUE]
      BY IdleBut
    <3>. QED
      BY <3>1 DEF UpRecord
  <2>. HIDE DEF u
  <2>5. v = [b \in Actors |-> v[b]] /\ \A b \in Actors : UpRecord(v[b]) /\ UpOK(v[b])
    <3>1. v = [b \in Actors |-> IF b = a THEN u ELSE up[b]]
      BY DEF SaveInv, UpShape
    <3>2. \A b \in Actors : v[b] = IF b = a THEN u ELSE up[b]
      BY <3>1
    <3>3. v = [b \in Actors |-> v[b]]
      BY <3>1
    <3>. QED
      BY <2>3, <2>4, <3>2, <3>3 DEF SaveInv, UpShape, PlacesTyped
  <2>. HIDE DEF v
  <2>6. \A b \in Actors : UpOK(up'[b])
    BY <2>1, <2>5, DirtiedOK
  <2>. QED
    BY <2>1, <2>2, <2>6, RowsPutTyped
<1>. QED
  BY <1>1, <1>2

\* Somebody other than an upsert writes rows.
LEMMA OthersPutTyped ==
    ASSUME SaveInv, PlacesTyped, NEW drop, ReportsAreRows', shell' = Unlinked(drop), up' = Dirtied(up, None),
           UNCHANGED <<shells, period, job>>
    PROVE  PlacesTyped'
<1>1. up = [b \in Actors |-> up[b]] /\ \A b \in Actors : UpRecord(up[b]) /\ UpOK(up[b])
  BY DEF SaveInv, UpShape, PlacesTyped
<1>2. \A b \in Actors : UpOK(up'[b])
  BY <1>1, DirtiedOK
<1>. QED
  BY <1>2, RowsPutTyped

LEMMA NothingPutTyped == ASSUME PlacesTyped, UNCHANGED <<report, shell, shells, period, up, job>> PROVE PlacesTyped'
<1>1. ShellsTyped' /\ PeriodsTyped' /\ ReportsAreRows'
  BY DEF PlacesTyped, ShellsTyped, PeriodsTyped, ReportsAreRows
<1>. QED
  BY <1>1 DEF PlacesTyped

LEMMA ScriptTypes == ASSUME SaveInv, PlacesTyped, Script PROVE PlacesTyped'
<1>1. CASE DedupeReads \/ DedupeEnds \/ BackfillReads \/ BackfillEnds
  BY <1>1, NothingPutTyped DEF DedupeReads, DedupeEnds, BackfillReads, BackfillEnds, vars, links
<1>2. CASE DedupeMerges
  <2>1. PICK p : \/ report' = After(p) /\ shell' = Unlinked(p.drop) /\ up' = Dirtied(up, None)
                 \/ UNCHANGED <<report, shell, up>>
    BY <1>2 DEF DedupeMerges
  <2>2. UNCHANGED <<shells, period, job>>
    BY <1>2 DEF DedupeMerges
  <2>3. CASE report' = After(p) /\ shell' = Unlinked(p.drop) /\ up' = Dirtied(up, None)
    <3>1. ReportsAreRows'
      BY <2>3, AfterIsTable DEF ReportsAreRows
    <3>. QED
      BY <2>2, <2>3, <3>1, OthersPutTyped
  <2>. QED
    BY <2>1, <2>2, <2>3, NothingPutTyped
<1>3. CASE BackfillUpserts
  <2>1. UNCHANGED <<report, shell, shells, period, job>> /\ Clerk \in Actors
    BY <1>3, UpkeepAssumption DEF BackfillUpserts, links, Actors
  <2>. DEFINE u == [Idle EXCEPT !.at = "find"]
  <2>2. UNCHANGED up \/ up' = [up EXCEPT ![Clerk] = u]
    BY <1>3 DEF BackfillUpserts
  <2>3. UpOK(u)
    BY IdleButOK DEF UpPlaces
  <2>. HIDE DEF u
  <2>. QED
    BY <2>1, <2>2, <2>3, NothingPutTyped, OnlyUpTyped
<1>. QED
  BY <1>1, <1>2, <1>3 DEF Script

LEMMA PlacesTypedStep == ASSUME SaveInv, RegistryTyped, PlacesTyped, [UpkeepNext]_upvars PROVE PlacesTyped'
<1>0. RowsTyped
  BY DEF RegistryTyped
<1>1. CASE Others
  <2>1. ASSUME NEW r \in Runs, Run(r) PROVE PlacesTyped'
    BY <1>0, <2>1, RunTypes
  <2>2. ASSUME NEW a \in Actors, Upsert(a) PROVE PlacesTyped'
    BY <1>0, <2>2, FindTypes, ReadAgainTypes, PutTypes DEF Upsert
  <2>3. ASSUME NEW id \in RowIds, StaffDeletes(id) PROVE PlacesTyped'
    <3>1. ReportsAreRows'
      BY <2>3 DEF StaffDeletes, Without, ReportsAreRows
    <3>. QED
      BY <2>3, <3>1, OthersPutTyped DEF StaffDeletes
  <2>. QED
    BY <1>1, <2>1, <2>2, <2>3 DEF Others, Next
<1>2. CASE UNCHANGED upvars
  BY <1>2, NothingPutTyped DEF upvars, vars, links
<1>. QED
  BY <1>1, <1>2, ScriptTypes DEF UpkeepNext

LEMMA PlacesTypedImplies == SaveInv /\ RowsTyped /\ PlacesTyped => TypeOK
<1>. SUFFICES ASSUME SaveInv, RowsTyped, PlacesTyped PROVE TypeOK
  OBVIOUS
<1>1. MaxRows \in Nat /\ MaxShells \in Nat /\ TableShapes /\ ShellsTyped
  BY BoundsAssumption DEF SaveInv, PlacesTyped
<1>2. \E D \in SUBSET RowIds : report \in [D -> RowType]
  BY DEF PlacesTyped, ReportsAreRows, RowsTyped
<1>3. created \in 0 .. MaxRows /\ shells \in 0 .. MaxShells
  BY <1>1 DEF TableShapes, ShellsTyped
<1>4. \E D \in SUBSET ShellIds : shell \in [D -> RowIds \cup {NoRow}]
  <2>1. DOMAIN shell \in SUBSET ShellIds
    BY <1>1, ShellsAreIds
  <2>2. shell \in [DOMAIN shell -> RowIds \cup {NoRow}]
    BY <1>1 DEF TableShapes, ShellsTyped, RowRef
  <2>. QED
    BY <2>1, <2>2
<1>5. \E D \in SUBSET ShellIds : period \in [D -> Runs]
  BY DEF PlacesTyped, PeriodsTyped
<1>6. ASSUME NEW a \in Actors
      PROVE  /\ up[a].at \in {"idle", "find", "merge", "put", "done", "threw"}
             /\ up[a].ids \subseteq RowIds /\ up[a].plan.drop \subseteq RowIds
             /\ {up[a].row, up[a].plan.keep} \subseteq RowIds \cup {NoRow}
  BY DEF PlacesTyped, UpOK, UpPlaces, RowRef
<1>7. job \in [Runs -> JobType]
  <2>1. ASSUME NEW r \in Runs PROVE job[r] \in JobType
    <3>. DEFINE j == job[r]
    <3>1. /\ j = [at |-> j.at, row |-> j.row, shell |-> j.shell, to |-> j.to, other |-> j.other]
          /\ JobOK(j)
      BY DEF SaveInv, JobShape, JobRecord, PlacesTyped
    <3>. HIDE DEF j
    <3>2. j \in JobType
      BY <3>1 DEF JobOK, JobType, Places, RowRef, ShellRef
    <3>. QED
      BY <3>2 DEF j
  <2>2. job = [r \in Runs |-> job[r]]
    BY DEF SaveInv, JobShape
  <2>. QED
    BY <2>1, <2>2
<1>. QED
  BY <1>2, <1>3, <1>4, <1>5, <1>6, <1>7 DEF TypeOK

\* In the registry, beside its scripts, every row, shell, period, upsert and run holds only values of its kind.
THEOREM RegistryTypesHold == UpkeepSpec => []TypeOK
<1>. DEFINE Inv == Registry /\ RegistryTyped /\ PassInv /\ PlacesTyped
<1>1. UpkeepInit => Inv
  BY RegistryInit, RowsTypedInit, PassInvInit, PlacesTypedInit
<1>2. Inv /\ [UpkeepNext]_upvars => Inv'
  BY RegistryInvStep, PlacesTypedStep DEF Registry
<1>3. Inv => TypeOK
  BY PlacesTypedImplies DEF Registry, RegistryTyped
<1>. HIDE DEF Inv
<1>. QED
  BY <1>1, <1>2, <1>3, PTL DEF UpkeepSpec

-----------------------------------------------------------------------------
(* What steps do to an upsert that is about to write, and to a parse that stores its text *)

LEMMA JobAtSet ==
    ASSUME SaveInv, NEW r \in Runs, NEW at
    PROVE  /\ To(r, at) => job'[r].at = at
           /\ \A v : \/ job' = [job EXCEPT ![r].at = at, ![r].row = v]
                     \/ job' = [job EXCEPT ![r].at = at, ![r].shell = v]
                     \/ job' = [job EXCEPT ![r].at = at, ![r].to = v]
                     \/ job' = [job EXCEPT ![r].at = at, ![r].other = v]
                     => job'[r].at = at
<1>1. ASSUME To(r, at) PROVE job'[r].at = at
  <2>1. Becomes(r, at, job[r].row, job[r].shell, job[r].to, job[r].other)
    BY <1>1, JobTo DEF SaveInv
  <2>. QED
    BY <2>1 DEF Becomes
<1>2. ASSUME NEW v, \/ job' = [job EXCEPT ![r].at = at, ![r].row = v]
                    \/ job' = [job EXCEPT ![r].at = at, ![r].shell = v]
                    \/ job' = [job EXCEPT ![r].at = at, ![r].to = v]
                    \/ job' = [job EXCEPT ![r].at = at, ![r].other = v]
      PROVE  job'[r].at = at
  <2>1. \/ Becomes(r, at, v, job[r].shell, job[r].to, job[r].other)
        \/ Becomes(r, at, job[r].row, v, job[r].to, job[r].other)
        \/ Becomes(r, at, job[r].row, job[r].shell, v, job[r].other)
        \/ Becomes(r, at, job[r].row, job[r].shell, job[r].to, v)
    BY <1>2, JobSets DEF SaveInv
  <2>. QED
    BY <2>1 DEF Becomes
<1>. QED
  BY <1>1, <1>2

LEMMA JobAnswers == ASSUME SaveInv, NEW r \in Runs, NEW s, NEW row, Answer(r, s, row) PROVE job'[r].at = "done"
<1>1. Becomes(r, "done", row, job[r].shell, s, NoShell)
  BY JobSet DEF Answer, SaveInv
<1>. QED
  BY <1>1 DEF Becomes

LEMMA JobFails == ASSUME SaveInv, NEW r \in Runs, SaveFails(r) PROVE job'[r].at \in {"failed", "queued"}
<1>1. CASE To(r, "failed")
  BY <1>1, JobAtSet
<1>2. CASE job' = [job EXCEPT ![r].at = "queued", ![r].to = NoShell]
  BY <1>2, JobAtSet
<1>. QED
  BY <1>1, <1>2 DEF SaveFails

\* A job begins to store its text by looking for the row, and no other step of the run does.
LEMMA OnlyParsesStore == ASSUME SaveInv, NEW r \in Runs, Run(r), ~ParseFinds(r) PROVE job'[r].at # "store"
<1>1. CASE ParseEnds(r) \/ CheckBegins(r) \/ SavePeriod(r) \/ LinkMoves(r)
  <2>1. \E at \in {"check", "early", "linked", "tidy"} : To(r, at)
    BY <1>1 DEF ParseEnds, CheckBegins, SavePeriod, LinkMoves
  <2>2. \A at : To(r, at) => job'[r].at = at
    BY JobAtSet
  <2>. QED
    BY <2>1, <2>2
<1>2. CASE EarlyReturns(r)
  <2>1. \E at \in {"shell", "queued"} : \E v : job' = [job EXCEPT ![r].at = at, ![r].row = v]
    BY <1>2 DEF EarlyReturns
  <2>2. PICK at \in {"shell", "queued"} : \E v : job' = [job EXCEPT ![r].at = at, ![r].row = v]
    BY <2>1
  <2>3. PICK v : job' = [job EXCEPT ![r].at = at, ![r].row = v]
    BY <2>2
  <2>4. job'[r].at = at
    BY <2>3, JobAtSet
  <2>. QED
    BY <2>4
<1>3. CASE CheckEnds(r) \/ SaveBegins(r) \/ SaveInfers(r)
  <2>1. \/ \E at \in {"queued", "infer"} : To(r, at)
        \/ SaveFails(r)
        \/ \E at \in {"queued", "period"} : \E v : \/ job' = [job EXCEPT ![r].at = at, ![r].shell = v]
                                                   \/ job' = [job EXCEPT ![r].at = at, ![r].to = v]
    BY <1>3 DEF CheckEnds, SaveBegins, SaveInfers
  <2>2. ASSUME NEW at \in {"queued", "period"}, NEW v, \/ job' = [job EXCEPT ![r].at = at, ![r].shell = v]
                                                       \/ job' = [job EXCEPT ![r].at = at, ![r].to = v]
        PROVE  job'[r].at # "store"
    <3>1. CASE job' = [job EXCEPT ![r].at = at, ![r].shell = v]
      <4>1. job'[r].at = at
        BY <3>1, JobAtSet
      <4>. QED
        BY <4>1
    <3>2. CASE job' = [job EXCEPT ![r].at = at, ![r].to = v]
      <4>1. job'[r].at = at
        BY <3>2, JobAtSet
      <4>. QED
        BY <4>1
    <3>. QED
      BY <2>2, <3>1, <3>2
  <2>3. ASSUME NEW at \in {"queued", "infer"}, To(r, at) PROVE job'[r].at # "store"
    <3>1. job'[r].at = at
      BY <2>3, JobAtSet
    <3>. QED
      BY <3>1
  <2>. QED
    BY <2>1, <2>2, <2>3, JobFails
<1>4. CASE LinkBegins(r) \/ LinkFinds(r) \/ LinkSets(r) \/ LinkTidies(r)
  <2>1. \/ \E at \in {"link", "set"} : To(r, at)
        \/ SaveFails(r)
        \/ \E v : job' = [job EXCEPT ![r].at = "move", ![r].other = v]
        \/ \E s, row : Answer(r, s, row)
    BY <1>4 DEF LinkBegins, LinkFinds, LinkSets, LinkTidies
  <2>2. ASSUME NEW v, job' = [job EXCEPT ![r].at = "move", ![r].other = v] PROVE job'[r].at # "store"
    <3>1. job'[r].at = "move"
      BY <2>2, JobAtSet
    <3>. QED
      BY <3>1
  <2>3. ASSUME NEW at \in {"link", "set"}, To(r, at) PROVE job'[r].at # "store"
    <3>1. job'[r].at = at
      BY <2>3, JobAtSet
    <3>. QED
      BY <3>1
  <2>4. ASSUME NEW s, NEW row, Answer(r, s, row) PROVE job'[r].at # "store"
    <3>1. job'[r].at = "done"
      BY <2>4, JobAnswers
    <3>. QED
      BY <3>1
  <2>. QED
    BY <2>1, <2>2, <2>3, <2>4, JobFails
<1>. QED
  BY <1>1, <1>2, <1>3, <1>4 DEF Run

\* What a step of a run does to its upsert.
LEMMA UpOfRun ==
    ASSUME SaveInv, NEW r \in Runs, Run(r)
    PROVE  \/ ParseFinds(r) /\ job'[r].at = "store" /\ up'[r].at = "put" /\ up'[r].plan = StorePlan(input[r])
           \/ ~ParseFinds(r) /\ (up'[r] = up[r] \/ up'[r].at \in {"idle", "find"})
<1>0. r \in Actors /\ UpShape
  BY DEF Actors, SaveInv
<1>1. CASE ParseFinds(r)
  <2>. DEFINE p == StorePlan(input[r])
              u == [Idle EXCEPT !.at = "put", !.plan = p]
  <2>1. up' = [up EXCEPT ![r] = u] /\ To(r, "store")
    BY <1>1 DEF ParseFinds
  <2>2. up'[r] = u
    BY <1>0, <2>1 DEF UpShape
  <2>. HIDE DEF p
  <2>3. u = [at |-> "put", ids |-> {}, plan |-> p, row |-> NoRow, clean |-> TRUE]
    BY IdleBut
  <2>. HIDE DEF u
  <2>4. job'[r].at = "store"
    BY <2>1, JobAtSet
  <2>. QED
    BY <1>1, <2>2, <2>3, <2>4 DEF p
<1>2. CASE ~ParseFinds(r)
  <2>1. up' = up \/ Return(r) \/ Call(r)
    BY <1>2 DEF Run, ParseEnds, CheckBegins, EarlyReturns, CheckEnds, SaveBegins, SaveInfers, SavePeriod,
                LinkBegins, LinkFinds, LinkSets, LinkMoves, LinkTidies
  <2>2. ASSUME Return(r) PROVE up'[r].at = "idle"
    BY <1>0, <2>2, IdleRecord DEF Return, UpShape
  <2>3. ASSUME Call(r) PROVE up'[r].at = "find"
    <3>. DEFINE u == [Idle EXCEPT !.at = "find"]
    <3>1. u = [at |-> "find", ids |-> {}, plan |-> NoPlan, row |-> NoRow, clean |-> TRUE]
      BY IdleBut
    <3>2. up'[r] = u
      BY <1>0, <2>3 DEF Call, UpShape
    <3>. HIDE DEF u
    <3>. QED
      BY <3>1, <3>2
  <2>. QED
    BY <1>2, <2>1, <2>2, <2>3
<1>. QED
  BY <1>1, <1>2

\* An upsert that is about to write ends by what its plan does, or by nothing;
EndsFrom(a) ==
    up[a].at = "put" =>
        /\ up'[a].at = "done" =>
              Applies(up[a].plan) /\ report' = After(up[a].plan) /\ up'[a].row = Target(up[a].plan)
        /\ up'[a].at = "threw" => ~Applies(up[a].plan)

\* and while a job stores its text, the upsert of its run is that.
StoreUp(r) == job[r].at = "store" => up[r].at \in {"put", "done", "threw"}
StoreFrom(r) ==
    /\ StoreUp(r)'
    /\ job'[r].at = "store" => job[r].at = "store" \/ (up'[r].at = "put" /\ up'[r].plan = StorePlan(input[r]))
    /\ job[r].at = "store" /\ up[r].at = "put" => job'[r].at = "store"

HowTheyEnd == (\A a \in Actors : EndsFrom(a)) /\ \A r \in Runs : StoreFrom(r)

LEMMA PutEnds ==
    ASSUME SaveInv, NEW a \in Actors, Put(a)
    PROVE  /\ \A b \in Actors : b # a => up'[b].at = up[b].at
           /\ \/ /\ Applies(up[a].plan) /\ report' = After(up[a].plan)
                 /\ up'[a].at = "done" /\ up'[a].row = Target(up[a].plan)
              \/ ~Applies(up[a].plan) /\ up'[a].at = "threw"
<1>0. UpShape
  BY DEF SaveInv
<1>. DEFINE p == up[a].plan
<1>1. CASE ~Applies(p)
  <2>. DEFINE u == [Idle EXCEPT !.at = "threw"]
  <2>1. u = [at |-> "threw", ids |-> {}, plan |-> NoPlan, row |-> NoRow, clean |-> TRUE]
    BY IdleBut
  <2>2. up' = [up EXCEPT ![a] = u]
    BY <1>1 DEF Put
  <2>. HIDE DEF u
  <2>3. up'[a] = u /\ \A b \in Actors : b # a => up'[b] = up[b]
    BY <1>0, <2>2 DEF UpShape
  <2>. QED
    BY <1>1, <2>1, <2>3
<1>2. CASE Applies(p)
  <2>. DEFINE t == Target(p)
              u == [Idle EXCEPT !.at = "done", !.row = t]
              v == [up EXCEPT ![a] = u]
  <2>1. report' = After(p) /\ up' = Dirtied(v, a)
    BY <1>2 DEF Put
  <2>. HIDE DEF t
  <2>2. UpRecord(u) /\ u.at = "done" /\ u.row = t
    <3>1. u = [at |-> "done", ids |-> {}, plan |-> NoPlan, row |-> t, clean |-> TRUE]
      BY IdleBut
    <3>. QED
      BY <3>1 DEF UpRecord
  <2>. HIDE DEF u
  <2>3. /\ v = [b \in Actors |-> v[b]] /\ (\A b \in Actors : UpRecord(v[b])) /\ v[a] = u
        /\ \A b \in Actors : b # a => v[b] = up[b]
    <3>1. v = [b \in Actors |-> IF b = a THEN u ELSE up[b]]
      BY <1>0 DEF UpShape
    <3>. QED
      BY <1>0, <2>2, <3>1 DEF UpShape
  <2>. HIDE DEF v
  <2>4. \A b \in Actors : up'[b].at = v[b].at /\ up'[b].row = v[b].row
    BY <2>1, <2>3, DirtiedKeeps
  <2>. QED
    BY <1>2, <2>1, <2>2, <2>3, <2>4 DEF t
<1>. QED
  BY <1>1, <1>2

LEMMA EndsOfRun == ASSUME SaveInv, NEW q \in Runs, Run(q), \A r \in Runs : StoreUp(r) PROVE HowTheyEnd
<1>1. OfRun(q)
  <2>1. Stepped(q)
    BY ParseSteps, CheckEndsStep, SaveBeginsStep, SaveInfersStep, SavePeriodStep, LinkBeginsStep, LinkFindsStep,
       LinkSetsStep, LinkMovesStep, LinkTidiesStep DEF Run
  <2>. QED
    BY <2>1 DEF Stepped
<1>2. q \in Actors /\ Runs \subseteq Actors
  BY DEF Actors
<1>3. \/ ParseFinds(q) /\ job'[q].at = "store" /\ up'[q].at = "put" /\ up'[q].plan = StorePlan(input[q])
      \/ ~ParseFinds(q) /\ (up'[q] = up[q] \/ up'[q].at \in {"idle", "find"})
  BY UpOfRun
<1>4. \A a \in Actors : EndsFrom(a)
  BY <1>1, <1>3 DEF OfRun, EndsFrom
<1>5. job[q].at = "store" => ~ParseFinds(q) /\ up[q].at \in {"done", "threw"}
  BY DEF Run, ParseFinds, ParseEnds, CheckBegins, EarlyReturns, CheckEnds, SaveBegins, SaveInfers, SavePeriod,
         LinkBegins, LinkFinds, LinkSets, LinkMoves, LinkTidies
<1>6. ~ParseFinds(q) => job'[q].at # "store"
  BY OnlyParsesStore
<1>7. ASSUME NEW r \in Runs PROVE StoreFrom(r)
  <2>1. CASE r = q
    BY <1>3, <1>5, <1>6, <2>1 DEF StoreFrom, StoreUp
  <2>2. CASE r # q
    BY <1>1, <1>2, <2>2 DEF OfRun, StoreFrom, StoreUp
  <2>. QED
    BY <2>1, <2>2
<1>. QED
  BY <1>4, <1>7 DEF HowTheyEnd

\* Where the upserts stay where they are, or one of no run begins, nothing of the kind happens.
LEMMA NothingEnds ==
    ASSUME \A r \in Runs : StoreUp(r), \A a \in Actors : up'[a].at = up[a].at, job' = job
    PROVE  HowTheyEnd
  BY DEF HowTheyEnd, EndsFrom, StoreFrom, StoreUp, Actors

LEMMA EndsOfUpsert == ASSUME SaveInv, NEW a \in Actors, Upsert(a), \A r \in Runs : StoreUp(r) PROVE HowTheyEnd
<1>1. UpShape /\ job' = job /\ Runs \subseteq Actors
  BY DEF SaveInv, Upsert, Find, ReadAgain, Put, Actors
<1>2. CASE Put(a)
  <2>1. up[a].at = "put"
    BY <1>2 DEF Put
  <2>. QED
    BY <1>1, <1>2, <2>1, PutEnds DEF HowTheyEnd, EndsFrom, StoreFrom, StoreUp
<1>3. CASE Find(a) \/ ReadAgain(a)
  <2>1. up[a].at \in {"find", "merge"} /\ \E v : up' = [up EXCEPT ![a] = v]
    BY <1>3 DEF Find, ReadAgain
  <2>2. \A b \in Actors : b # a => up'[b] = up[b]
    BY <1>1, <2>1 DEF UpShape
  <2>. QED
    BY <1>1, <2>1, <2>2 DEF HowTheyEnd, EndsFrom, StoreFrom, StoreUp
<1>. QED
  BY <1>2, <1>3 DEF Upsert

LEMMA HowUpsEnd ==
    ASSUME SaveInv, \A r \in Runs : StoreUp(r), [UpkeepNext]_upvars
    PROVE  HowTheyEnd
<1>0. up = [b \in Actors |-> up[b]] /\ (\A b \in Actors : UpRecord(up[b])) /\ Clerk \in Actors /\ Clerk \notin Runs
  BY UpkeepAssumption, ValuesAssumption DEF SaveInv, UpShape, Actors
<1>1. ASSUME up' = Dirtied(up, None), job' = job PROVE HowTheyEnd
  <2>1. \A a \in Actors : up'[a].at = up[a].at
    BY <1>0, <1>1, DirtiedKeeps
  <2>. QED
    BY <1>1, <2>1, NothingEnds
<1>2. CASE UNCHANGED <<up, job>>
  BY <1>2, NothingEnds
<1>3. CASE BackfillUpserts
  <2>1. up[Clerk].at # "put" /\ job' = job /\ (up' = up \/ \E v : up' = [up EXCEPT ![Clerk] = v])
    BY <1>3 DEF BackfillUpserts
  <2>2. \A b \in Actors : b # Clerk => up'[b] = up[b]
    BY <1>0, <2>1
  <2>. QED
    BY <1>0, <2>1, <2>2 DEF HowTheyEnd, EndsFrom, StoreFrom, StoreUp, Actors
<1>4. CASE DedupeMerges
  BY <1>1, <1>2, <1>4 DEF DedupeMerges
<1>5. CASE Others
  BY <1>1, <1>5, EndsOfRun, EndsOfUpsert DEF Others, Next, StaffDeletes
<1>6. CASE DedupeReads \/ DedupeEnds \/ BackfillReads \/ BackfillEnds \/ UNCHANGED upvars
  BY <1>2, <1>6 DEF DedupeReads, DedupeEnds, BackfillReads, BackfillEnds, upvars, vars
<1>. QED
  BY <1>3, <1>4, <1>5, <1>6 DEF UpkeepNext, Script

-----------------------------------------------------------------------------
(* What an upsert that nobody has disturbed is about to do *)

\* What a merge writes.
MergedSet(p, i) ==
    LET merged == Merging(report, p.keep, p.drop)
    IN [c \in Columns |-> IF c = "url" THEN Upgraded(merged.url, i) ELSE IF c \in Given(i) THEN i[c] ELSE merged[c]]

\* The plan is one for the rows that are there now.
PlanSeen(p, i) ==
    \/ Matching(i) = {} /\ p = CreatePlan(i, None)
    \/ Matching(i) = {p.keep} /\ p = PatchPlan(p.keep, i)
    \/ /\ p.keep \in Matching(i) /\ p.drop = Matching(i) \ {p.keep}
       /\ p.set = MergedSet(p, i)

StoresText(p) == "markdown" \in DOMAIN p.set /\ p.set["markdown"] = Text

Fresh(a) ==
    /\ up[a].at = "merge" /\ up[a].clean => up[a].ids = Matching(input[a])
    /\ up[a].at = "put" => IF a \in Runs /\ job[a].at = "store" THEN StoresText(up[a].plan)
                           ELSE up[a].clean => PlanSeen(up[a].plan, input[a])

UpsertInv == (\A a \in Actors : Fresh(a)) /\ \A r \in Runs : StoreUp(r)

LEMMA UpsertInvInit == UpkeepInit => UpsertInv
<1>. SUFFICES ASSUME UpkeepInit PROVE UpsertInv
  OBVIOUS
<1>. DEFINE u == [Idle EXCEPT !.at = "find"]
<1>1. u.at = "find" /\ Idle.at = "idle"
  <2>1. u = [at |-> "find", ids |-> {}, plan |-> NoPlan, row |-> NoRow, clean |-> TRUE]
    BY IdleBut
  <2>. QED
    BY <2>1, IdleRecord
<1>2. /\ \E callers \in SUBSET Posters : up = [a \in Actors |-> IF a \in callers THEN u ELSE Idle]
      /\ \E alive \in SUBSET Runs :
            job = [r \in Runs |-> [at |-> IF r \in alive THEN "parse" ELSE "failed", row |-> NoRow,
                                   shell |-> NoShell, to |-> NoShell, other |-> NoShell]]
  BY DEF UpkeepInit, Init
<1>. HIDE DEF u
<1>3. (\A a \in Actors : up[a].at \in {"find", "idle"}) /\ \A r \in Runs : job[r].at # "store"
  BY <1>1, <1>2
<1>. QED
  BY <1>3 DEF UpsertInv, Fresh, StoreUp

LEMMA StoreStoresText == ASSUME NEW i PROVE StoresText(StorePlan(i))
<1>. DEFINE p == StorePlan(i)
            D == {"markdown"} \cup {d \in Given(i) : i[d] # None /\ report[Min(Matching(i))][d] = None}
<1>1. \/ p.set = [c \in Columns |-> IF c = "markdown" THEN Text ELSE i[c]]
      \/ p.set = [c \in D |-> IF c = "markdown" THEN Text ELSE i[c]]
  BY DEF StorePlan, CreatePlan
<1>2. "markdown" \in Columns /\ "markdown" \in D
  BY DEF Columns
<1>. HIDE DEF p, D
<1>. QED
  BY <1>1, <1>2 DEF StoresText, p

\* The plan after a search for one row is for what the search has found.
LEMMA FirstPlanSeen ==
    ASSUME RowsTyped, NEW i, ~(Cardinality(Matching(i)) > 1)
    PROVE  PlanSeen(IF Matching(i) = {} THEN CreatePlan(i, None) ELSE PatchPlan(Min(Matching(i)), i), i)
<1>. DEFINE ids == Matching(i)
<1>1. ids \subseteq 1..MaxRows /\ MaxRows \in Nat
  BY BoundsAssumption DEF Matching, RowsTyped, RowIds
<1>2. CASE ids # {}
  <2>. HIDE DEF ids
  <2>1. Min(ids) \in ids
    BY <1>1, <1>2, LeastIn
  <2>2. IsFiniteSet(ids)
    <3>1. IsFiniteSet(1..MaxRows)
      BY <1>1, FS_Interval
    <3>. QED
      BY <1>1, <3>1, FS_Subset
  <2>3. Cardinality(ids) \in Nat /\ Cardinality(ids) # 0
    BY <1>2, <2>2, FS_CardinalityType, FS_EmptySet
  <2>4. Cardinality(ids) = 1
    BY <2>3 DEF ids
  <2>5. \E x : ids = {x}
    BY <2>2, <2>4, FS_Singleton
  <2>6. ids = {Min(ids)}
    BY <2>1, <2>5
  <2>. DEFINE p == PatchPlan(Min(ids), i)
  <2>7. p.keep = Min(ids)
    BY DEF PatchPlan
  <2>. HIDE DEF p
  <2>8. Matching(i) = {p.keep} /\ p = PatchPlan(p.keep, i)
    BY <2>6, <2>7, Zenon DEF p, ids
  <2>9. PlanSeen(p, i)
    BY <2>8 DEF PlanSeen
  <2>. QED
    BY <1>2, <2>9 DEF p, ids
<1>3. CASE ids = {}
  BY <1>3 DEF PlanSeen
<1>. QED
  BY <1>2, <1>3

LEMMA MergePlanSeen ==
    ASSUME RowsTyped, NEW i, Matching(i) # {}
    PROVE  PlanSeen(MergePlan(Matching(i), i), i)
<1>. DEFINE ids == Matching(i)
            keep == RowToKeep(ids)
            p == MergePlan(ids, i)
<1>1. ids # {} /\ ids \subseteq RowIds
  BY DEF Matching, RowsTyped
<1>. HIDE DEF ids
<1>2. keep \in ids
  BY <1>1, RowToKeepIsOne
<1>3. p.keep = keep /\ p.drop = ids \ {keep}
  BY DEF MergePlan
<1>4. p.set = LET merged == Merging(report, keep, ids \ {keep})
              IN [c \in Columns |-> IF c = "url" THEN Upgraded(merged.url, i) ELSE IF c \in Given(i) THEN i[c] ELSE merged[c]]
  BY DEF MergePlan
<1>. HIDE DEF keep, p
<1>5. p.set = MergedSet(p, i)
  BY <1>3, <1>4 DEF MergedSet
<1>. QED
  BY <1>2, <1>3, <1>5 DEF PlanSeen, ids, p

LEMMA UpsertInvStep == ASSUME SaveInv, RegistryTyped, UpsertInv, [UpkeepNext]_upvars PROVE UpsertInv'
<1>1. StepsFrom /\ HowTheyEnd
  BY WhatStepsDo, HowUpsEnd DEF UpsertInv
<1>2. \A r \in Runs : StoreUp(r)' /\ StoreFrom(r)
  BY <1>1 DEF HowTheyEnd, StoreFrom
<1>3. ASSUME NEW a \in Actors, up[a].at \in {"find", "merge", "put"} PROVE input'[a] = input[a]
  <2>1. CASE input' = input
    BY <2>1
  <2>2. CASE /\ up[Clerk].at \in {"idle", "done", "threw"}
             /\ \E group \in clusters : input' = [input EXCEPT ![Clerk] = Payload(group)]
    <3>1. a # Clerk
      BY <1>3, <2>2
    <3>2. DOMAIN input = Actors
      BY DEF RegistryTyped, InputsTyped
    <3>. QED
      BY <2>2, <3>1, <3>2
  <2>. QED
    BY <1>1, <2>1, <2>2 DEF StepsFrom, ClerkFrom
<1>4. ASSUME NEW a \in Actors, up'[a].at = "merge", up'[a].clean PROVE up'[a].ids = Matching(input[a])'
  <2>1. report' = report /\ input'[a] = input[a] /\ up'[a].ids = Matching(input[a])
    BY <1>1, <1>3, <1>4 DEF StepsFrom, MergeFrom, Undisturbed, UpsertInv, Fresh
  <2>. QED
    BY <2>1 DEF Matching
<1>5. ASSUME NEW a \in Actors, up'[a].at = "put", a \in Runs, job'[a].at = "store" PROVE StoresText(up'[a].plan)
  <2>1. CASE up'[a].plan = StorePlan(input[a])
    BY <2>1, StoreStoresText
  <2>2. CASE up[a].at = "put" /\ job[a].at = "store" /\ up'[a].plan = up[a].plan
    BY <1>5, <2>2 DEF UpsertInv, Fresh
  <2>3. CASE job[a].at = "store" /\ up[a].at # "put"
    <3>1. up[a].at \in {"done", "threw"}
      BY <1>5, <2>3 DEF UpsertInv, StoreUp
    <3>. QED
      BY <1>1, <1>5, <2>1, <3>1 DEF StepsFrom, PutFrom
  <2>. QED
    BY <1>1, <1>2, <1>5, <2>1, <2>2, <2>3 DEF StepsFrom, PutFrom, StoreFrom
<1>6. ASSUME NEW a \in Actors, up'[a].at = "put", up'[a].clean, ~(a \in Runs /\ job'[a].at = "store")
      PROVE  PlanSeen(up[a].plan, input[a])'
  <2>0. RowsTyped
    BY DEF RegistryTyped
  <2>1. report' = report /\ input'[a] = input[a] /\ PlanSeen(up'[a].plan, input[a])
    <3>1. CASE up[a].at = "put" /\ up'[a].plan = up[a].plan /\ Undisturbed(a)
      <4>1. up[a].clean /\ report' = report /\ ~(a \in Runs /\ job[a].at = "store")
        BY <1>2, <1>6, <3>1 DEF Undisturbed, StoreFrom
      <4>2. PlanSeen(up[a].plan, input[a])
        BY <3>1, <4>1 DEF UpsertInv, Fresh
      <4>. QED
        BY <1>3, <3>1, <4>1, <4>2
    <3>2. CASE /\ up[a].at = "find" /\ report' = report /\ ~(Cardinality(Matching(input[a])) > 1)
               /\ up'[a].plan = IF Matching(input[a]) = {} THEN CreatePlan(input[a], None)
                                ELSE PatchPlan(Min(Matching(input[a])), input[a])
      BY <1>3, <2>0, <3>2, FirstPlanSeen
    <3>3. CASE /\ up[a].at = "merge" /\ report' = report /\ (up'[a].clean => up[a].clean)
               /\ up[a].ids \cap DOMAIN report # {}
               /\ up'[a].plan = MergePlan(up[a].ids \cap DOMAIN report, input[a])
      <4>1. up[a].ids = Matching(input[a])
        BY <1>6, <3>3 DEF UpsertInv, Fresh
      <4>2. up[a].ids \cap DOMAIN report = Matching(input[a])
        BY <4>1 DEF Matching
      <4>. QED
        BY <1>3, <2>0, <3>3, <4>2, MergePlanSeen
    <3>. QED
      BY <1>1, <1>6, <3>1, <3>2, <3>3 DEF StepsFrom, PutFrom
  <2>. QED
    BY <2>1 DEF PlanSeen, Matching, PatchPlan, MergedSet
<1>7. \A a \in Actors : Fresh(a)'
  BY <1>4, <1>5, <1>6 DEF Fresh
<1>. QED
  BY <1>2, <1>7 DEF UpsertInv

-----------------------------------------------------------------------------
(* The row that a plan writes *)

\* A caller that gives null for what it does not know gives something besides its url.
Named(i) == i.nulls => i.sourceUrl # None \/ i.s3Url # None \/ i.sha256 # None

\* A row is found by an identity exactly where it is known by one of its values.
LEMMA DescribesIs ==
    ASSUME NEW row \in RowType, NEW i \in IdentityType
    PROVE  Describes(row, i) <=> Matches(i, row)
<1>1. /\ row.url \in Urls /\ i.url \in Urls /\ None \notin Urls
      /\ row.sourceUrl \in WebUrls \cup {None} /\ i.sourceUrl \in WebUrls \cup {None}
  BY ValuesAssumption DEF RowType, IdentityType
<1>2. ({row.url, row.sourceUrl} \cap {i.url, i.sourceUrl}) \ {None} # {} <=>
          \/ i.sourceUrl # None /\ i.sourceUrl \in {row.sourceUrl, row.url}
          \/ i.url \in {row.url, row.sourceUrl}
  BY <1>1
<1>. QED
  BY <1>2 DEF Describes, Matches

LEMMA CopyingKeeps ==
    ASSUME NEW keep \in RowType, NEW gone \in RowType
    PROVE  LET m == CopyMissing(keep, gone)
           IN /\ m.sourceUrl = IF keep.sourceUrl = None THEN gone.sourceUrl ELSE keep.sourceUrl
              /\ m.url = keep.url \/ (m.url = gone.url /\ gone.url \in WebUrls /\ keep.url \in StorageUrls)
              /\ m.s3Url \in {keep.s3Url, gone.s3Url, gone.url}
              /\ m.sha256 \in {keep.sha256, gone.sha256}
              /\ keep.markdown = Text \/ gone.markdown = Text => m.markdown = Text
<1>. DEFINE filled == [c \in Columns |-> IF c # "url" /\ keep[c] = None THEN gone[c] ELSE keep[c]]
            m == CopyMissing(keep, gone)
<1>1. keep.markdown \in {None, Text} /\ None # Text
  BY ValuesAssumption DEF RowType
<1>2. /\ filled = [c \in Columns |-> filled[c]]
      /\ filled["url"] = keep.url
      /\ filled["sourceUrl"] = IF keep.sourceUrl = None THEN gone.sourceUrl ELSE keep.sourceUrl
      /\ filled["s3Url"] \in {keep.s3Url, gone.s3Url}
      /\ filled["sha256"] \in {keep.sha256, gone.sha256}
      /\ keep.markdown = Text \/ gone.markdown = Text => filled["markdown"] = Text
  BY <1>1 DEF Columns
<1>3. m = IF gone.url \in WebUrls /\ keep.url \in StorageUrls
          THEN [filled EXCEPT !["url"] = gone.url]
          ELSE IF gone.url \in StorageUrls /\ keep.s3Url = None
               THEN [filled EXCEPT !["s3Url"] = gone.url]
               ELSE filled
  BY DEF CopyMissing
<1>. HIDE DEF filled, m
<1>4. {"url", "sourceUrl", "s3Url", "sha256", "markdown"} \subseteq Columns
  BY DEF Columns
<1>5. CASE gone.url \in WebUrls /\ keep.url \in StorageUrls
  <2>1. m = [c \in Columns |-> IF c = "url" THEN gone.url ELSE filled[c]]
    BY <1>2, <1>3, <1>5
  <2>. QED
    BY <1>2, <1>4, <1>5, <2>1 DEF m
<1>6. CASE ~(gone.url \in WebUrls /\ keep.url \in StorageUrls) /\ gone.url \in StorageUrls /\ keep.s3Url = None
  <2>1. m = [c \in Columns |-> IF c = "s3Url" THEN gone.url ELSE filled[c]]
    BY <1>2, <1>3, <1>6
  <2>. QED
    BY <1>2, <1>4, <2>1 DEF m
<1>7. CASE m = filled
  BY <1>2, <1>7 DEF m
<1>. QED
  BY <1>3, <1>5, <1>6, <1>7

\* What the input gives it is found by; without that, the url by which it was found stays, or wins.
LEMMA FilledMatches ==
    ASSUME NEW i \in IdentityType, Named(i), NEW g \in RowType, NEW row,
           i.sourceUrl = None /\ i.s3Url = None /\ i.sha256 = None => i.url \in {g.url, g.sourceUrl},
           \A c \in {"sourceUrl", "s3Url", "sha256"} : row[c] = IF c \in Given(i) THEN i[c] ELSE g[c],
           row["url"] = Upgraded(g.url, i)
    PROVE  Matches(i, row)
<1>1. CASE i.sourceUrl # None
  BY <1>1 DEF Given, Matches
<1>2. CASE i.s3Url # None
  BY <1>2 DEF Given, Matches
<1>3. CASE i.sha256 # None
  BY <1>3 DEF Given, Matches
<1>4. CASE i.sourceUrl = None /\ i.s3Url = None /\ i.sha256 = None
  <2>1. ~i.nulls /\ i.url \in {g.url, g.sourceUrl}
    BY <1>4 DEF Named
  <2>2. Given(i) = {}
    BY <1>4, <2>1 DEF Given
  <2>3. row["sourceUrl"] = g.sourceUrl
    BY <2>2
  <2>4. CASE i.url = g.url
    BY <2>4 DEF Upgraded, Matches
  <2>5. CASE i.url = g.sourceUrl
    BY <2>3, <2>5 DEF Matches
  <2>. QED
    BY <2>1, <2>4, <2>5
<1>. QED
  BY <1>1, <1>2, <1>3, <1>4

\* Rows that have the url of an identity in one of two columns leave, merged, one that has it.
LEMMA MergedHasUrl ==
    ASSUME RowsTyped, NEW i \in IdentityType, NEW keep, NEW drop, drop \cup {keep} \subseteq DOMAIN report,
           \A x \in drop \cup {keep} : i.url \in {report[x].url, report[x].sourceUrl}
    PROVE  LET m == Merging(report, keep, drop) IN i.url \in {m.url, m.sourceUrl}
<1>. DEFINE V == {r \in RowType : i.url \in {r.url, r.sourceUrl}}
<1>1. drop \subseteq 1..MaxRows /\ MaxRows \in Nat
  BY BoundsAssumption DEF RowsTyped, RowIds
<1>2. \A x \in drop \cup {keep} : report[x] \in V
  BY DEF RowsTyped
<1>3. ASSUME NEW r \in V, NEW gone \in V PROVE CopyMissing(r, gone) \in V
  <2>. DEFINE m == CopyMissing(r, gone)
  <2>1. m \in RowType
    BY CopyingIs
  <2>2. /\ m.sourceUrl = IF r.sourceUrl = None THEN gone.sourceUrl ELSE r.sourceUrl
        /\ m.url = r.url \/ (m.url = gone.url /\ gone.url \in WebUrls /\ r.url \in StorageUrls)
    BY CopyingKeeps
  <2>. HIDE DEF m
  <2>3. WebUrls \cap StorageUrls = {} /\ None \notin Urls /\ i.url \in Urls /\ WebUrls \subseteq Urls /\ StorageUrls \subseteq Urls
    BY ValuesAssumption DEF IdentityType, Urls
  <2>4. r.sourceUrl \in WebUrls \cup {None} /\ gone.sourceUrl \in WebUrls \cup {None}
    BY DEF RowType
  <2>5. i.url \in {m.url, m.sourceUrl}
    BY <2>2, <2>3, <2>4
  <2>. QED
    BY <2>1, <2>5 DEF m
<1>. HIDE DEF V
<1>4. Merging(report, keep, drop) \in V
  BY <1>1, <1>2, <1>3, MergingStays
<1>. QED
  BY <1>4 DEF V

\* The row that is written, and the table with it.
NewRow(p) == IF p.keep = NoRow THEN p.set ELSE Over(p.set, report[p.keep])

LEMMA AfterIs ==
    ASSUME NEW p
    PROVE  After(p) = [z \in (DOMAIN report \ p.drop) \cup {Target(p)} |-> IF z = Target(p) THEN NewRow(p) ELSE report[z]]
  BY DEF After, With, Without, NewRow

LEMMA OverIs ==
    ASSUME RowsTyped, NEW p, p.keep \in DOMAIN report
    PROVE  NewRow(p) = [c \in Columns |-> IF c \in DOMAIN p.set THEN p.set[c] ELSE report[p.keep][c]]
<1>1. RowOK(report[p.keep]) /\ p.keep # NoRow
  BY RowIs, BoundsAssumption DEF RowsTyped
<1>2. DOMAIN report[p.keep] = Columns
  BY <1>1 DEF RowOK
<1>. QED
  BY <1>1, <1>2 DEF NewRow, Over

-----------------------------------------------------------------------------
(* A plan for the rows that are there leaves one row of its document *)

LEMMA SeenMatches ==
    ASSUME RowsTyped, NEW i \in IdentityType, Named(i), NEW p, PlanSeen(p, i)
    PROVE  Matches(i, NewRow(p))
<1>. DEFINE row == NewRow(p)
<1>0. {"url", "sourceUrl", "s3Url", "sha256"} \subseteq Columns /\ "markdown" \in Columns
  BY DEF Columns
<1>1. CASE Matching(i) = {} /\ p = CreatePlan(i, None)
  <2>1. row = [c \in Columns |-> IF c = "markdown" THEN None ELSE i[c]]
    BY <1>1 DEF CreatePlan, NewRow
  <2>2. row["url"] = i.url
    BY <1>0, <2>1
  <2>. QED
    BY <2>2 DEF Matches
<1>2. CASE Matching(i) = {p.keep} /\ p = PatchPlan(p.keep, i)
  <2>. DEFINE g == report[p.keep]
  <2>1. p.keep \in DOMAIN report /\ g \in RowType /\ Matches(i, g)
    BY <1>2 DEF Matching, RowsTyped
  <2>2. p.set = [c \in Given(i) \cup (IF Upgraded(g.url, i) = g.url THEN {} ELSE {"url"}) |->
                   IF c = "url" THEN Upgraded(g.url, i) ELSE i[c]]
    BY <1>2 DEF PatchPlan
  <2>3. row = [c \in Columns |-> IF c \in DOMAIN p.set THEN p.set[c] ELSE g[c]]
    BY <2>1, OverIs
  <2>. HIDE DEF row, g
  <2>4. /\ \A c \in {"sourceUrl", "s3Url", "sha256"} : row[c] = IF c \in Given(i) THEN i[c] ELSE g[c]
        /\ row["url"] = Upgraded(g.url, i)
    BY <1>0, <2>2, <2>3 DEF Given
  <2>5. i.sourceUrl = None /\ i.s3Url = None /\ i.sha256 = None => i.url \in {g.url, g.sourceUrl}
    BY <2>1 DEF Matches
  <2>. QED
    BY <2>1, <2>4, <2>5, FilledMatches DEF row
<1>3. CASE p.keep \in Matching(i) /\ p.drop = Matching(i) \ {p.keep} /\ p.set = MergedSet(p, i)
  <2>. DEFINE g == Merging(report, p.keep, p.drop)
  <2>1. p.keep \in DOMAIN report /\ p.drop \cup {p.keep} = Matching(i) /\ Matching(i) \subseteq DOMAIN report
    BY <1>3 DEF Matching
  <2>2. p.drop \subseteq 1..MaxRows /\ MaxRows \in Nat /\ \A x \in p.drop \cup {p.keep} : report[x] \in RowType
    BY <2>1, BoundsAssumption DEF RowsTyped, RowIds
  <2>3. g \in RowType
    BY <2>2, MergingIsRow
  <2>4. p.set = [c \in Columns |-> IF c = "url" THEN Upgraded(g.url, i) ELSE IF c \in Given(i) THEN i[c] ELSE g[c]]
    BY <1>3 DEF MergedSet
  <2>5. row = [c \in Columns |-> IF c \in DOMAIN p.set THEN p.set[c] ELSE report[p.keep][c]]
    BY <2>1, OverIs
  <2>6. ASSUME i.sourceUrl = None, i.s3Url = None, i.sha256 = None PROVE i.url \in {g.url, g.sourceUrl}
    <3>1. \A x \in p.drop \cup {p.keep} : i.url \in {report[x].url, report[x].sourceUrl}
      BY <2>1, <2>6 DEF Matching, Matches
    <3>. QED
      BY <2>1, <3>1, MergedHasUrl
  <2>. HIDE DEF row, g
  <2>7. /\ \A c \in {"sourceUrl", "s3Url", "sha256"} : row[c] = IF c \in Given(i) THEN i[c] ELSE g[c]
        /\ row["url"] = Upgraded(g.url, i)
    BY <1>0, <2>4, <2>5
  <2>. QED
    BY <2>3, <2>6, <2>7, FilledMatches DEF row
<1>. QED
  BY <1>1, <1>2, <1>3 DEF PlanSeen

\* Every row that is left beside it does not answer to the input.
LEMMA OthersDoNotMatch ==
    ASSUME RowsTyped, NEW i, NEW p, PlanSeen(p, i), NEW z \in DOMAIN report \ p.drop, z # Target(p)
    PROVE  ~Matches(i, report[z])
<1>1. CASE Matching(i) = {}
  BY <1>1 DEF Matching
<1>2. CASE p.keep \in Matching(i) /\ Matching(i) \subseteq p.drop \cup {p.keep}
  <2>1. p.keep # NoRow
    BY <1>2, BoundsAssumption DEF Matching, RowsTyped
  <2>. QED
    BY <1>2, <2>1 DEF Matching, Target
<1>. QED
  BY <1>1, <1>2 DEF PlanSeen

LEMMA OneRowIsFound ==
    ASSUME RowsTyped, NEW i \in IdentityType, Named(i), NEW p, PlanSeen(p, i), Applies(p), PlanOK(p)
    PROVE  {id \in DOMAIN After(p) : Describes(After(p)[id], i)} = {Target(p)}
<1>1. After(p) = [z \in (DOMAIN report \ p.drop) \cup {Target(p)} |-> IF z = Target(p) THEN NewRow(p) ELSE report[z]]
  BY AfterIs
<1>2. \A id \in DOMAIN After(p) : After(p)[id] \in RowType
  BY AfterTyped
<1>3. \A id \in DOMAIN After(p) : Describes(After(p)[id], i) <=> Matches(i, After(p)[id])
  BY <1>2, DescribesIs
<1>4. Target(p) \in DOMAIN After(p) /\ Matches(i, After(p)[Target(p)])
  BY <1>1, SeenMatches
<1>5. ASSUME NEW id \in DOMAIN After(p), id # Target(p) PROVE ~Matches(i, After(p)[id])
  <2>1. id \in DOMAIN report \ p.drop /\ After(p)[id] = report[id]
    BY <1>1, <1>5
  <2>. QED
    BY <1>5, <2>1, OthersDoNotMatch
<1>. QED
  BY <1>3, <1>4, <1>5

\* If a row of the document has its text, the row that is merged has it.
LEMMA MergedHasText ==
    ASSUME RowsTyped, NEW keep, NEW drop, drop \cup {keep} \subseteq DOMAIN report,
           NEW id \in drop \cup {keep}, report[id].markdown = Text
    PROVE  Merging(report, keep, drop).markdown = Text
<1>. DEFINE G == [s \in SUBSET drop |-> {r \in RowType : (\E x \in s \cup {keep} : report[x].markdown = Text) => r.markdown = Text}]
<1>1. drop \subseteq 1..MaxRows /\ MaxRows \in Nat /\ \A x \in drop \cup {keep} : report[x] \in RowType
  BY BoundsAssumption DEF RowsTyped, RowIds
<1>2. \A s \in SUBSET drop : \A r : r \in G[s] <=>
          r \in RowType /\ ((\E x \in s \cup {keep} : report[x].markdown = Text) => r.markdown = Text)
  OBVIOUS
<1>. HIDE DEF G
<1>3. report[keep] \in G[{}]
  <2>1. {} \in SUBSET drop
    OBVIOUS
  <2>. QED
    BY <1>1, <1>2, <2>1
<1>4. ASSUME NEW s \in SUBSET drop, NEW x \in s, NEW row \in G[s \ {x}] PROVE CopyMissing(row, report[x]) \in G[s]
  <2>1. s \ {x} \in SUBSET drop
    OBVIOUS
  <2>2. row \in RowType /\ report[x] \in RowType
    BY <1>1, <1>2, <2>1
  <2>3. CopyMissing(row, report[x]) \in RowType
    BY <2>2, CopyingIs
  <2>4. row.markdown = Text \/ report[x].markdown = Text => CopyMissing(row, report[x]).markdown = Text
    BY <2>2, CopyingKeeps
  <2>5. (\E y \in s \cup {keep} : report[y].markdown = Text) => row.markdown = Text \/ report[x].markdown = Text
    BY <1>2, <2>1
  <2>. QED
    BY <1>2, <2>3, <2>4, <2>5
<1>5. Merging(report, keep, drop) \in G[drop]
  BY <1>1, <1>3, <1>4, MergingFollows
<1>6. drop \in SUBSET drop
  OBVIOUS
<1>. QED
  BY <1>2, <1>5, <1>6

LEMMA TextStays ==
    ASSUME RowsTyped, NEW i, NEW p, NEW id \in DOMAIN report, Matches(i, report[id]), report[id].markdown = Text,
           Applies(p), StoresText(p) \/ PlanSeen(p, i)
    PROVE  After(p)[Target(p)].markdown = Text
<1>. DEFINE row == NewRow(p)
<1>0. "markdown" \in Columns
  BY DEF Columns
<1>1. After(p)[Target(p)] = row
  BY AfterIs
<1>2. CASE StoresText(p)
  <2>1. CASE p.keep = NoRow
    BY <1>1, <1>2, <2>1 DEF StoresText, NewRow
  <2>2. CASE p.keep # NoRow
    <3>1. p.keep \in DOMAIN report
      BY <2>2 DEF Applies
    <3>2. row = [c \in Columns |-> IF c \in DOMAIN p.set THEN p.set[c] ELSE report[p.keep][c]]
      BY <3>1, OverIs
    <3>. HIDE DEF row
    <3>. QED
      BY <1>0, <1>1, <1>2, <3>2 DEF StoresText
  <2>. QED
    BY <2>1, <2>2
<1>3. CASE Matching(i) = {p.keep} /\ p = PatchPlan(p.keep, i)
  <2>1. p.keep = id /\ p.keep \in DOMAIN report
    BY <1>3 DEF Matching
  <2>2. p.set = [c \in Given(i) \cup (IF Upgraded(report[p.keep].url, i) = report[p.keep].url THEN {} ELSE {"url"}) |->
                   IF c = "url" THEN Upgraded(report[p.keep].url, i) ELSE i[c]]
    BY <1>3 DEF PatchPlan
  <2>3. "markdown" \notin DOMAIN p.set
    BY <2>2 DEF Given
  <2>4. row = [c \in Columns |-> IF c \in DOMAIN p.set THEN p.set[c] ELSE report[p.keep][c]]
    BY <2>1, OverIs
  <2>. HIDE DEF row
  <2>. QED
    BY <1>0, <1>1, <2>1, <2>3, <2>4
<1>4. CASE p.keep \in Matching(i) /\ p.drop = Matching(i) \ {p.keep} /\ p.set = MergedSet(p, i)
  <2>1. p.drop \cup {p.keep} \subseteq DOMAIN report /\ id \in p.drop \cup {p.keep} /\ p.keep \in DOMAIN report
    BY <1>4 DEF Matching
  <2>. DEFINE g == Merging(report, p.keep, p.drop)
  <2>2. g.markdown = Text
    BY <2>1, MergedHasText
  <2>3. p.set = [c \in Columns |-> IF c = "url" THEN Upgraded(g.url, i) ELSE IF c \in Given(i) THEN i[c] ELSE g[c]]
    BY <1>4 DEF MergedSet
  <2>4. row = [c \in Columns |-> IF c \in DOMAIN p.set THEN p.set[c] ELSE report[p.keep][c]]
    BY <2>1, OverIs
  <2>. HIDE DEF row, g
  <2>5. "markdown" \notin Given(i)
    BY DEF Given
  <2>. QED
    BY <1>0, <1>1, <2>2, <2>3, <2>4, <2>5
<1>5. Matching(i) # {}
  BY DEF Matching
<1>. QED
  BY <1>2, <1>3, <1>4, <1>5 DEF PlanSeen

-----------------------------------------------------------------------------
(* A plan for the rows that are there applies *)

\* The value that a column is set to, unless it is none, is the input's, or that of a row that is found, or
\* the copy is the url of a row that is deleted.
FromFound(p, i, c, v) ==
    \/ v \in {None, i[c]}
    \/ \E x \in Matching(i) : v = report[x][c]
    \/ c = "s3Url" /\ \E x \in p.drop : v = report[x].url

LEMMA CopyingFrom ==
    ASSUME NEW keep \in RowType, NEW gone \in RowType, NEW c \in Identifying
    PROVE  LET m == CopyMissing(keep, gone)
           IN m[c] \in {keep[c], gone[c]} \/ (c = "s3Url" /\ m[c] = gone.url)
<1>. DEFINE filled == [d \in Columns |-> IF d # "url" /\ keep[d] = None THEN gone[d] ELSE keep[d]]
            m == CopyMissing(keep, gone)
<1>1. filled = [d \in Columns |-> filled[d]] /\ filled[c] \in {keep[c], gone[c]} /\ c \in Columns
  BY DEF Identifying
<1>2. m = IF gone.url \in WebUrls /\ keep.url \in StorageUrls
          THEN [filled EXCEPT !["url"] = gone.url]
          ELSE IF gone.url \in StorageUrls /\ keep.s3Url = None
               THEN [filled EXCEPT !["s3Url"] = gone.url]
               ELSE filled
  BY DEF CopyMissing
<1>3. gone.url = gone["url"]
  OBVIOUS
<1>. HIDE DEF filled, m
<1>4. CASE m = [filled EXCEPT !["url"] = gone.url]
  <2>1. m = [d \in Columns |-> IF d = "url" THEN gone.url ELSE filled[d]]
    BY <1>1, <1>4
  <2>. QED
    BY <1>1, <1>3, <2>1 DEF m
<1>5. CASE m = [filled EXCEPT !["s3Url"] = gone.url]
  <2>1. m = [d \in Columns |-> IF d = "s3Url" THEN gone.url ELSE filled[d]]
    BY <1>1, <1>5
  <2>. QED
    BY <1>1, <2>1 DEF m
<1>6. CASE m = filled
  BY <1>1, <1>6 DEF m
<1>. QED
  BY <1>2, <1>4, <1>5, <1>6

LEMMA MergedFrom ==
    ASSUME RowsTyped, NEW keep, NEW drop, drop \cup {keep} \subseteq DOMAIN report, NEW c \in Identifying
    PROVE  LET m == Merging(report, keep, drop)
           IN \/ \E x \in drop \cup {keep} : m[c] = report[x][c]
              \/ c = "s3Url" /\ \E x \in drop : m[c] = report[x].url
<1>. DEFINE V == {r \in RowType : \/ \E x \in drop \cup {keep} : r[c] = report[x][c]
                                  \/ c = "s3Url" /\ \E x \in drop : r[c] = report[x].url}
<1>1. drop \subseteq 1..MaxRows /\ MaxRows \in Nat /\ \A x \in drop \cup {keep} : report[x] \in RowType
  BY BoundsAssumption DEF RowsTyped, RowIds
<1>2. report[keep] \in V
  BY <1>1
<1>3. ASSUME NEW r \in V, NEW x \in drop PROVE CopyMissing(r, report[x]) \in V
  <2>. DEFINE m == CopyMissing(r, report[x])
  <2>1. m \in RowType
    BY <1>1, CopyingIs
  <2>2. m[c] \in {r[c], report[x][c]} \/ (c = "s3Url" /\ m[c] = report[x].url)
    BY <1>1, CopyingFrom
  <2>. HIDE DEF m
  <2>3. m \in V
    BY <2>1, <2>2
  <2>. QED
    BY <2>3 DEF m
<1>. HIDE DEF V
<1>4. Merging(report, keep, drop) \in V
  BY <1>1, <1>2, <1>3, MergingStays
<1>. QED
  BY <1>4 DEF V

LEMMA NewRowFrom ==
    ASSUME RowsTyped, NEW i \in IdentityType, NEW p, PlanSeen(p, i), NEW c \in Identifying
    PROVE  FromFound(p, i, c, NewRow(p)[c])
<1>. DEFINE row == NewRow(p)
<1>0. c \in Columns /\ c # "markdown"
  BY DEF Identifying
<1>1. CASE Matching(i) = {} /\ p = CreatePlan(i, None)
  <2>1. row = [d \in Columns |-> IF d = "markdown" THEN None ELSE i[d]]
    BY <1>1 DEF CreatePlan, NewRow
  <2>. HIDE DEF row
  <2>2. row[c] = i[c]
    BY <1>0, <2>1
  <2>. QED
    BY <2>2 DEF FromFound, row
<1>2. CASE Matching(i) = {p.keep} /\ p = PatchPlan(p.keep, i)
  <2>. DEFINE g == report[p.keep]
  <2>1. p.keep \in DOMAIN report
    BY <1>2 DEF Matching
  <2>2. p.set = [d \in Given(i) \cup (IF Upgraded(g.url, i) = g.url THEN {} ELSE {"url"}) |->
                   IF d = "url" THEN Upgraded(g.url, i) ELSE i[d]]
    BY <1>2 DEF PatchPlan
  <2>3. row = [d \in Columns |-> IF d \in DOMAIN p.set THEN p.set[d] ELSE g[d]]
    BY <2>1, OverIs
  <2>4. Upgraded(g.url, i) \in {g["url"], i["url"]}
    BY DEF Upgraded
  <2>. HIDE DEF row, g
  <2>5. row[c] \in {g[c], i[c]}
    BY <1>0, <2>2, <2>3, <2>4
  <2>. QED
    BY <1>2, <2>5 DEF FromFound, row, g
<1>3. CASE p.keep \in Matching(i) /\ p.drop = Matching(i) \ {p.keep} /\ p.set = MergedSet(p, i)
  <2>. DEFINE g == Merging(report, p.keep, p.drop)
  <2>1. p.keep \in DOMAIN report /\ p.drop \cup {p.keep} = Matching(i) /\ Matching(i) \subseteq DOMAIN report
    BY <1>3 DEF Matching
  <2>2. p.set = [d \in Columns |-> IF d = "url" THEN Upgraded(g.url, i) ELSE IF d \in Given(i) THEN i[d] ELSE g[d]]
    BY <1>3 DEF MergedSet
  <2>3. row = [d \in Columns |-> IF d \in DOMAIN p.set THEN p.set[d] ELSE report[p.keep][d]]
    BY <2>1, OverIs
  <2>4. Upgraded(g.url, i) \in {g["url"], i["url"]}
    BY DEF Upgraded
  <2>5. \/ \E x \in p.drop \cup {p.keep} : g[c] = report[x][c]
        \/ c = "s3Url" /\ \E x \in p.drop : g[c] = report[x].url
    BY <2>1, MergedFrom
  <2>. HIDE DEF row, g
  <2>6. row[c] \in {g[c], i[c]}
    BY <1>0, <2>2, <2>3, <2>4
  <2>. QED
    BY <2>1, <2>5, <2>6 DEF FromFound, row
<1>. QED
  BY <1>1, <1>2, <1>3 DEF PlanSeen

\* No row that an undisturbed upsert leaves alone has, as its copy, the url of a row that it deletes.
CopiesAreFree ==
    \A a \in Actors : up[a].at = "put" /\ up[a].clean =>
        LET p == up[a].plan
        IN \A gone \in p.drop, id \in DOMAIN report \ (p.drop \cup {p.keep}) : report[id].s3Url # report[gone].url

LEMMA SeenApplies ==
    ASSUME RowsTyped, Unique(report), NEW i \in IdentityType, NEW p, PlanSeen(p, i),
           \A gone \in p.drop, id \in DOMAIN report \ (p.drop \cup {p.keep}) : report[id].s3Url # report[gone].url
    PROVE  Applies(p)
<1>. DEFINE t == Target(p)
            row == NewRow(p)
            R == After(p)
<1>1. p.drop \subseteq DOMAIN report /\ (p.keep # NoRow => p.keep \in DOMAIN report) /\ p.drop \subseteq Matching(i)
  BY DEF PlanSeen, Matching, CreatePlan, PatchPlan
<1>2. R = [z \in (DOMAIN report \ p.drop) \cup {t} |-> IF z = t THEN row ELSE report[z]]
  BY AfterIs
<1>3. ASSUME NEW z \in DOMAIN report \ p.drop, z # t, NEW c \in Identifying, row[c] # None PROVE row[c] # report[z][c]
  <2>1. ~Matches(i, report[z]) /\ z \notin Matching(i)
    BY <1>3, OthersDoNotMatch DEF Matching
  <2>2. CASE row[c] = i[c]
    <3>1. c \in {"url", "sourceUrl", "s3Url", "sha256"}
      BY <1>3 DEF Identifying, Columns
    <3>. QED
      BY <1>3, <2>1, <2>2, <3>1 DEF Matches
  <2>3. ASSUME NEW x \in Matching(i), row[c] = report[x][c] PROVE row[c] # report[z][c]
    BY <1>3, <2>1, <2>3 DEF Unique, Matching
  <2>4. ASSUME c = "s3Url", NEW x \in p.drop, row[c] = report[x].url PROVE row[c] # report[z][c]
    <3>1. z # p.keep
      BY <1>3, BoundsAssumption DEF Target, RowsTyped
    <3>. QED
      BY <1>3, <2>4, <3>1
  <2>5. FromFound(p, i, c, row[c])
    BY NewRowFrom
  <2>. HIDE DEF row
  <2>. QED
    BY <1>3, <2>2, <2>3, <2>4, <2>5 DEF FromFound
<1>. HIDE DEF t, row, R
<1>4. ASSUME NEW j \in DOMAIN R, NEW k \in DOMAIN R, j # k, NEW c \in Identifying, R[j][c] # None PROVE R[j][c] # R[k][c]
  <2>1. CASE j = t
    BY <1>2, <1>3, <1>4, <2>1
  <2>2. CASE k = t
    BY <1>2, <1>3, <1>4, <2>2
  <2>3. CASE j # t /\ k # t
    BY <1>2, <1>4, <2>3 DEF Unique
  <2>. QED
    BY <2>1, <2>2, <2>3
<1>5. Unique(R)
  BY <1>4 DEF Unique
<1>. QED
  BY <1>1, <1>5 DEF Applies, R

-----------------------------------------------------------------------------
(* Upserts that nothing disturbs *)

InputsNamed == \A a \in Actors : Named(input[a])

LEMMA NamedInit ==
    ASSUME \A a \in Actors : \A i \in InputsOf[a] : Named(i)
    PROVE  UpkeepInit => InputsNamed
  BY DEF UpkeepInit, Init, InputsNamed

LEMMA NamedStep == ASSUME SaveInv, RegistryTyped, InputsNamed, [UpkeepNext]_upvars PROVE InputsNamed'
<1>1. ClerkFrom /\ InputsTyped
  BY WhatStepsDo DEF StepsFrom, RegistryTyped
<1>2. CASE input' = input
  BY <1>2 DEF InputsNamed, Named
<1>3. ASSUME NEW group \in clusters, Payload(group).url # None, input' = [input EXCEPT ![Clerk] = Payload(group)]
      PROVE  InputsNamed'
  <2>1. Payload(group) = [url |-> IF BestWebUrl(group) # None THEN BestWebUrl(group) ELSE BestS3Url(group),
                          sourceUrl |-> BestWebUrl(group), s3Url |-> BestS3Url(group),
                          sha256 |-> BestSha256(group), nulls |-> TRUE]
    BY DEF Payload
  <2>2. Named(Payload(group))
    BY <1>3, <2>1 DEF Named
  <2>3. \A a \in Actors : input'[a] = input[a] \/ input'[a] = Payload(group)
    BY <1>1, <1>3 DEF InputsTyped
  <2>. QED
    BY <2>2, <2>3 DEF InputsNamed, Named
<1>. QED
  BY <1>1, <1>2, <1>3 DEF ClerkFrom

LEMMA UniqueStep == ASSUME SaveInv, Unique(report), [UpkeepNext]_upvars PROVE Unique(report')
<1>1. RowsFrom
  BY WhatStepsDo DEF StepsFrom
<1>2. ASSUME NEW id \in RowIds, report' = Without(report, {id}) PROVE Unique(report')
  <2>1. report' = [z \in DOMAIN report \ {id} |-> report[z]]
    BY <1>2 DEF Without
  <2>2. DOMAIN report' \subseteq DOMAIN report /\ \A z \in DOMAIN report' : report'[z] = report[z]
    BY <2>1
  <2>. QED
    BY <2>2 DEF Unique
<1>. QED
  BY <1>1, <1>2 DEF RowsFrom, Applies

UpsertsKnown == Registry /\ RegistryTyped /\ PassInv /\ UpsertInv

LEMMA UpsertsKnownInit == UpkeepInit => UpsertsKnown
  BY RegistryInit, RowsTypedInit, PassInvInit, UpsertInvInit DEF UpsertsKnown

LEMMA UpsertsKnownStep == UpsertsKnown /\ [UpkeepNext]_upvars => UpsertsKnown'
  BY RegistryInvStep, UpsertInvStep DEF UpsertsKnown, Registry

\* What the properties of upserts say of one step of an actor.
LeavesOneRow(a) ==
    /\ up[a].at = "put" /\ up'[a].at = "done" /\ up[a].clean
    /\ a \in Runs => job[a].at # "store"
    => {id \in DOMAIN report' : Describes(report'[id], input[a])} = {up'[a].row}
Succeeds(a) ==
    /\ up[a].at = "put" /\ up[a].clean
    /\ a \in Runs => job[a].at # "store"
    => up'[a].at # "threw"
KeepsText(a) ==
    /\ up[a].at = "put" /\ up'[a].at = "done" /\ up[a].clean
    /\ \E id \in DOMAIN report : Describes(report[id], input[a]) /\ report[id].markdown = Text
    => report'[up'[a].row].markdown = Text

LEMMA KeepingText == ASSUME UpsertsKnown, [UpkeepNext]_upvars PROVE \A a \in Actors : KeepsText(a)
<1>. SUFFICES ASSUME NEW a \in Actors, up[a].at = "put", up'[a].at = "done", up[a].clean,
                     NEW id \in DOMAIN report, Describes(report[id], input[a]), report[id].markdown = Text
              PROVE  report'[up'[a].row].markdown = Text
  BY DEF KeepsText
<1>. DEFINE p == up[a].plan
            i == input[a]
<1>1. SaveInv /\ RowsTyped /\ i \in IdentityType
  BY DEF UpsertsKnown, Registry, RegistryTyped, InputsTyped
<1>2. Applies(p) /\ report' = After(p) /\ up'[a].row = Target(p)
  BY <1>1, HowUpsEnd DEF UpsertsKnown, UpsertInv, HowTheyEnd, EndsFrom
<1>3. StoresText(p) \/ PlanSeen(p, i)
  BY DEF UpsertsKnown, UpsertInv, Fresh
<1>4. Matches(i, report[id])
  BY <1>1, DescribesIs DEF RowsTyped
<1>. HIDE DEF p, i
<1>5. After(p)[Target(p)].markdown = Text
  BY <1>1, <1>2, <1>3, <1>4, TextStays
<1>. QED
  BY <1>2, <1>5

LEMMA LeavingOneRow == ASSUME UpsertsKnown, InputsNamed, [UpkeepNext]_upvars PROVE \A a \in Actors : LeavesOneRow(a)
<1>. SUFFICES ASSUME NEW a \in Actors, up[a].at = "put", up'[a].at = "done", up[a].clean,
                     a \in Runs => job[a].at # "store"
              PROVE  {id \in DOMAIN report' : Describes(report'[id], input[a])} = {up'[a].row}
  BY DEF LeavesOneRow
<1>. DEFINE p == up[a].plan
            i == input[a]
<1>1. SaveInv /\ RowsTyped /\ i \in IdentityType /\ PlanOK(p) /\ Named(i)
  BY DEF UpsertsKnown, Registry, RegistryTyped, InputsTyped, PlansTyped, InputsNamed
<1>2. Applies(p) /\ report' = After(p) /\ up'[a].row = Target(p)
  BY <1>1, HowUpsEnd DEF UpsertsKnown, UpsertInv, HowTheyEnd, EndsFrom
<1>3. PlanSeen(p, i)
  BY DEF UpsertsKnown, UpsertInv, Fresh
<1>. HIDE DEF p
<1>4. {id \in DOMAIN After(p) : Describes(After(p)[id], i)} = {Target(p)}
  BY <1>1, <1>2, <1>3, OneRowIsFound
<1>. QED
  BY <1>2, <1>4

LEMMA Succeeding ==
    ASSUME UpsertsKnown, Unique(report), CopiesAreFree, [UpkeepNext]_upvars
    PROVE  \A a \in Actors : Succeeds(a)
<1>. SUFFICES ASSUME NEW a \in Actors, up[a].at = "put", up[a].clean, a \in Runs => job[a].at # "store"
              PROVE  up'[a].at # "threw"
  BY DEF Succeeds
<1>. DEFINE p == up[a].plan
            i == input[a]
<1>1. SaveInv /\ RowsTyped /\ i \in IdentityType
  BY DEF UpsertsKnown, Registry, RegistryTyped, InputsTyped
<1>2. up'[a].at = "threw" => ~Applies(p)
  BY <1>1, HowUpsEnd DEF UpsertsKnown, UpsertInv, HowTheyEnd, EndsFrom
<1>3. PlanSeen(p, i)
  BY DEF UpsertsKnown, UpsertInv, Fresh
<1>4. \A gone \in p.drop, id \in DOMAIN report \ (p.drop \cup {p.keep}) : report[id].s3Url # report[gone].url
  BY DEF CopiesAreFree
<1>. HIDE DEF p, i
<1>5. Applies(p)
  BY <1>1, <1>3, <1>4, SeenApplies
<1>. QED
  BY <1>2, <1>5

\* persistMarkdown's promise: if a row of the document has its markdown, the row that an undisturbed upsert
\* leaves has it, whatever rows it merges and in whatever order.
THEOREM MarkdownKept == UpkeepSpec => MarkdownSurvives
<1>1. UpsertsKnown /\ [UpkeepNext]_upvars => [\A a \in Actors : KeepsText(a)]_vars
  BY KeepingText
<1>2. MarkdownSurvives <=> [][\A a \in Actors : KeepsText(a)]_vars
  BY DEF MarkdownSurvives, KeepsText
<1>. QED
  BY UpsertsKnownInit, UpsertsKnownStep, <1>1, <1>2, PTL DEF UpkeepSpec

\* REPORT_REGISTRY.md, "Duplicate prevention": an undisturbed upsert leaves one row that answers to its input, its
\* own, if no caller gives null for all that it may know beside the url.
THEOREM OneRowIsLeft ==
    ASSUME \A a \in Actors : \A i \in InputsOf[a] : Named(i)
    PROVE  UpkeepSpec => OneRowAfterUpsert
<1>. DEFINE Inv == UpsertsKnown /\ InputsNamed
<1>1. UpkeepInit => Inv
  BY UpsertsKnownInit, NamedInit
<1>2. Inv /\ [UpkeepNext]_upvars => Inv'
  BY UpsertsKnownStep, NamedStep DEF UpsertsKnown, Registry
<1>3. Inv /\ [UpkeepNext]_upvars => [\A a \in Actors : LeavesOneRow(a)]_vars
  BY LeavingOneRow
<1>4. OneRowAfterUpsert <=> [][\A a \in Actors : LeavesOneRow(a)]_vars
  BY DEF OneRowAfterUpsert, LeavesOneRow
<1>. HIDE DEF Inv
<1>. QED
  BY <1>1, <1>2, <1>3, <1>4, PTL DEF UpkeepSpec

\* Where no upsert deletes a row whose url is the copy of one that it leaves alone, and the table keeps its unique
\* columns at first, an undisturbed upsert does not fail.
LEMMA UndisturbedSucceeds ==
    ASSUME \A s \in Seeds : Unique(s)
    PROVE  UpkeepSpec /\ []CopiesAreFree => UndisturbedUpsertSucceeds
<1>. DEFINE Inv == UpsertsKnown /\ Unique(report)
<1>1. UpkeepInit => Inv
  BY UpsertsKnownInit DEF UpkeepInit, Init
<1>2. Inv /\ [UpkeepNext]_upvars => Inv'
  <2>. SUFFICES ASSUME UpsertsKnown, Unique(report), [UpkeepNext]_upvars PROVE UpsertsKnown' /\ Unique(report')
    BY DEF Unique
  <2>. QED
    BY UpsertsKnownStep, UniqueStep DEF UpsertsKnown, Registry
<1>3. Inv /\ CopiesAreFree /\ [UpkeepNext]_upvars => [\A a \in Actors : Succeeds(a)]_vars
  BY Succeeding
<1>4. UndisturbedUpsertSucceeds <=> [][\A a \in Actors : Succeeds(a)]_vars
  BY DEF UndisturbedUpsertSucceeds, Succeeds
<1>. HIDE DEF Inv
<1>. QED
  BY <1>1, <1>2, <1>3, <1>4, PTL DEF UpkeepSpec

\* Upserts that nothing disturbs succeed, leave one row of the document and keep its markdown.
THEOREM UpsertsAreRight ==
    ASSUME \A a \in Actors : \A i \in InputsOf[a] : Named(i), \A s \in Seeds : Unique(s)
    PROVE  UpkeepSpec /\ []CopiesAreFree => UpsertsAreSound
<1>1. UpkeepSpec => OneRowAfterUpsert
  BY OneRowIsLeft
<1>2. UpkeepSpec /\ []CopiesAreFree => UndisturbedUpsertSucceeds
  BY UndisturbedSucceeds
<1>. QED
  BY <1>1, <1>2, MarkdownKept DEF UpsertsAreSound

-----------------------------------------------------------------------------
(***************************************************************************)
(* ApiKeys: the rate limit.                                                *)
(***************************************************************************)

\* Requests of the last window's length are told apart by their age and a number.
HitsOK(H) ==
    /\ IsFiniteSet(H) /\ H \subseteq (0..Window) \X Nat
    /\ \A h \in H : h[1] = 0 => h[2] < Cardinality({g \in H : g[1] = 0})

\* Those let through since a window of this age began.
Since(H, age) == {h \in H : h[1] <= age}

\* A window under way has counted its own requests, and what was before it is of one window; of a
\* window that is over there is nothing older than its beginning, nor newer than its end.
WindowFits(H, count, age) ==
    /\ age <= Window => Cardinality(Since(H, age)) <= count /\ Cardinality(H \ Since(H, age)) <= Limit
    /\ age > Window => Cardinality(H) <= Limit /\ \A h \in H : h[1] >= age - Window

RatesOK ==
    \A k \in Keys :
        /\ HitsOK(hits[k])
        /\ IF k \in DOMAIN bucket THEN WindowFits(hits[k], bucket[k].count, bucket[k].age) ELSE hits[k] = {}

\* Two windows' worth of requests in all.
LEMMA TwoWindows ==
    ASSUME NEW H, HitsOK(H), NEW c \in 1..Limit, NEW a \in 0..2 * Window + 1, WindowFits(H, c, a)
    PROVE  Cardinality(H) <= 2 * Limit
<1>. DEFINE R == Since(H, a)
<1>1. R \subseteq H /\ IsFiniteSet(H) /\ H \cap R = R
  BY DEF Since, HitsOK
<1>2. IsFiniteSet(R) /\ Cardinality(R) \in Nat /\ Cardinality(H) \in Nat
  BY <1>1, FS_Subset, FS_CardinalityType
<1>3. Cardinality(H \ R) = Cardinality(H) - Cardinality(R)
  BY <1>1, FS_Difference
<1>4. (Cardinality(R) <= c /\ Cardinality(H \ R) <= Limit) \/ Cardinality(H) <= Limit
  BY KeyAssumption DEF WindowFits
<1>. HIDE DEF R
<1>. QED
  BY <1>2, <1>3, <1>4, KeyAssumption

\* A request that is let through is told from the others.
LEMMA OneMoreHit ==
    ASSUME NEW H, HitsOK(H)
    PROVE  LET h == <<0, Cardinality({g \in H : g[1] = 0})>>
           IN /\ HitsOK(H \cup {h})
              /\ \A c \in 1..Limit, a \in 0..Window : WindowFits(H, c, a) => WindowFits(H \cup {h}, c + 1, a)
              /\ (\A g \in H : g[1] # 0) /\ Cardinality(H) <= Limit => WindowFits(H \cup {h}, 1, 0)
<1>. DEFINE Z == {g \in H : g[1] = 0}
            m == Cardinality(Z)
            h == <<0, m>>
            J == H \cup {h}
<1>1. IsFiniteSet(H) /\ H \subseteq (0..Window) \X Nat /\ Window \in Nat /\ Limit \in Nat
  BY KeyAssumption DEF HitsOK
<1>2. IsFiniteSet(Z) /\ m \in Nat
  <2>1. Z \in SUBSET H
    OBVIOUS
  <2>. QED
    BY <1>1, <2>1, FS_Subset, FS_CardinalityType
<1>3. h \notin H /\ h \notin Z /\ h[1] = 0 /\ h[2] = m
  <2>1. h[1] = 0 /\ h[2] = m
    OBVIOUS
  <2>2. h \in H => h[2] < m
    BY <2>1 DEF HitsOK
  <2>. QED
    BY <1>2, <2>1, <2>2
<1>4. IsFiniteSet(J) /\ J \subseteq (0..Window) \X Nat
  <2>1. h \in (0..Window) \X Nat
    BY <1>1, <1>2
  <2>. QED
    BY <1>1, <2>1, FS_AddElement
<1>5. {g \in J : g[1] = 0} = Z \cup {h} /\ Cardinality(Z \cup {h}) = m + 1
  BY <1>2, <1>3, FS_AddElement
<1>6. HitsOK(J)
  <2>1. \A g \in J : g[1] = 0 => g[2] < m + 1
    <3>1. \A g \in H : g[2] \in Nat
      BY <1>1
    <3>2. \A g \in H : g[1] = 0 => g[2] < m
      BY DEF HitsOK
    <3>. HIDE DEF m
    <3>. QED
      BY <1>2, <1>3, <3>1, <3>2
  <2>. QED
    BY <1>4, <1>5, <2>1 DEF HitsOK
<1>7. ASSUME NEW c \in 1..Limit, NEW a \in 0..Window, WindowFits(H, c, a)
      PROVE  WindowFits(J, c + 1, a)
  <2>1. Since(J, a) = Since(H, a) \cup {h} /\ J \ Since(J, a) = H \ Since(H, a)
    BY <1>3 DEF Since
  <2>2. IsFiniteSet(Since(H, a)) /\ Cardinality(Since(H, a)) \in Nat
    <3>1. Since(H, a) \in SUBSET H
      BY DEF Since
    <3>. QED
      BY <1>1, <3>1, FS_Subset, FS_CardinalityType
  <2>3. Cardinality(Since(H, a) \cup {h}) <= Cardinality(Since(H, a)) + 1
    <3>1. h \notin Since(H, a)
      BY <1>3 DEF Since
    <3>2. Cardinality(Since(H, a) \cup {h}) = Cardinality(Since(H, a)) + 1
      BY <2>2, <3>1, FS_AddElement
    <3>. HIDE DEF h
    <3>. QED
      BY <2>2, <3>2
  <2>4. Cardinality(Since(H, a)) <= c /\ Cardinality(H \ Since(H, a)) <= Limit
    BY <1>7 DEF WindowFits
  <2>5. Cardinality(Since(J, a)) <= c + 1
    <3>1. Cardinality(Since(H, a) \cup {h}) \in Nat
      BY <2>2, FS_AddElement, FS_CardinalityType
    <3>2. c \in Nat
      BY <1>1
    <3>. HIDE DEF h, J
    <3>. QED
      BY <2>1, <2>2, <2>3, <2>4, <3>1, <3>2
  <2>6. a <= Window /\ ~(a > Window)
    BY <1>1
  <2>. HIDE DEF h, J
  <2>. QED
    BY <2>1, <2>4, <2>5, <2>6 DEF WindowFits
<1>8. ASSUME \A g \in H : g[1] # 0, Cardinality(H) <= Limit
      PROVE  WindowFits(J, 1, 0)
  <2>1. Since(J, 0) = {h} /\ J \ Since(J, 0) = H
    BY <1>1, <1>3, <1>8 DEF Since
  <2>2. Cardinality({h}) = 1
    BY FS_Singleton
  <2>. HIDE DEF h, J
  <2>. QED
    BY <1>1, <1>8, <2>1, <2>2 DEF WindowFits
<1>. QED
  BY <1>6, <1>7, <1>8

\* What the passing of a tick leaves of a set of requests.
Aged(H) == {<<h[1] + 1, h[2]>> : h \in {g \in H : g[1] < Window}}

\* A tick makes requests older and no more.
LEMMA FewerWithAge ==
    ASSUME NEW T, IsFiniteSet(T), NEW U, U \subseteq {<<h[1] + 1, h[2]>> : h \in T}
    PROVE  IsFiniteSet(U) /\ Cardinality(U) <= Cardinality(T)
<1>. DEFINE I == {<<h[1] + 1, h[2]>> : h \in T}
            f == [h \in T |-> <<h[1] + 1, h[2]>>]
<1>1. f \in Surjection(T, I)
  BY DEF Surjection
<1>2. IsFiniteSet(I) /\ Cardinality(I) <= Cardinality(T)
  BY <1>1, FS_Surjection
<1>3. IsFiniteSet(U) /\ Cardinality(U) <= Cardinality(I)
  BY <1>2, FS_Subset
<1>4. Cardinality(U) \in Nat /\ Cardinality(I) \in Nat /\ Cardinality(T) \in Nat
  BY <1>2, <1>3, FS_CardinalityType
<1>. HIDE DEF I
<1>. QED
  BY <1>2, <1>3, <1>4

LEMMA OneTickOn ==
    ASSUME NEW H, HitsOK(H)
    PROVE  /\ HitsOK(Aged(H))
           /\ \A c \in 1..Limit, a \in 0..2 * Window + 1 :
                WindowFits(H, c, a) => WindowFits(Aged(H), c, IF a > 2 * Window THEN a ELSE a + 1)
<1>1. IsFiniteSet(H) /\ H \subseteq (0..Window) \X Nat /\ Window \in Nat \ {0} /\ Limit \in Nat \ {0}
  BY KeyAssumption DEF HitsOK
<1>2. Aged(H) \subseteq {<<h[1] + 1, h[2]>> : h \in H}
  BY DEF Aged
<1>3. /\ Aged(H) \subseteq (0..Window) \X Nat
      /\ \A h \in Aged(H) : h[1] \in 1..Window /\ <<h[1] - 1, h[2]>> \in H
      /\ \A h \in Aged(H) : h = <<(h[1] - 1) + 1, h[2]>>
  <2>. SUFFICES ASSUME NEW h \in Aged(H)
                PROVE  /\ h \in (0..Window) \X Nat
                       /\ h[1] \in 1..Window /\ <<h[1] - 1, h[2]>> \in H
                       /\ h = <<(h[1] - 1) + 1, h[2]>>
    OBVIOUS
  <2>1. PICK g \in H : g[1] < Window /\ h = <<g[1] + 1, g[2]>>
    BY DEF Aged
  <2>2. g[1] \in 0..Window /\ g[2] \in Nat /\ g = <<g[1], g[2]>>
    BY <1>1
  <2>3. (g[1] + 1) - 1 = g[1] /\ h[1] = g[1] + 1 /\ h[2] = g[2]
    BY <2>1, <2>2
  <2>. QED
    BY <1>1, <2>1, <2>2, <2>3
<1>4. IsFiniteSet(Aged(H)) /\ Cardinality(Aged(H)) <= Cardinality(H)
  BY <1>1, <1>2, FewerWithAge
<1>5. HitsOK(Aged(H))
  <2>1. \A h \in Aged(H) : h[1] # 0
    <3>. TAKE h \in Aged(H)
    <3>1. h[1] \in 1..Window
      BY <1>3
    <3>. QED
      BY <1>1, <3>1
  <2>2. IsFiniteSet(Aged(H)) /\ Aged(H) \subseteq (0..Window) \X Nat
    BY <1>3, <1>4
  <2>. QED
    BY <2>1, <2>2 DEF HitsOK
<1>6. ASSUME NEW c \in 1..Limit, NEW a \in 0..2 * Window + 1, WindowFits(H, c, a)
      PROVE  WindowFits(Aged(H), c, IF a > 2 * Window THEN a ELSE a + 1)
  <2>. DEFINE old == Since(H, a)
              new == Since(Aged(H), a + 1)
  <2>0. /\ IsFiniteSet(old) /\ IsFiniteSet(H \ old)
        /\ Cardinality(old) \in Nat /\ Cardinality(H \ old) \in Nat /\ Cardinality(H) \in Nat
    <3>1. old \in SUBSET H /\ H \ old \in SUBSET H
      BY DEF Since
    <3>. QED
      BY <1>1, <3>1, FS_Subset, FS_CardinalityType
  <2>1. new \subseteq {<<h[1] + 1, h[2]>> : h \in old}
    <3>. SUFFICES ASSUME NEW h \in new PROVE h \in {<<g[1] + 1, g[2]>> : g \in old}
      OBVIOUS
    <3>1. h \in Aged(H) /\ h[1] <= a + 1
      BY DEF Since
    <3>2. h[1] \in 1..Window /\ <<h[1] - 1, h[2]>> \in H /\ h = <<(h[1] - 1) + 1, h[2]>>
      BY <1>3, <3>1
    <3>3. <<h[1] - 1, h[2]>> \in old
      BY <1>1, <3>1, <3>2 DEF Since
    <3>. QED
      BY <3>2, <3>3
  <2>2. Aged(H) \ new \subseteq {<<h[1] + 1, h[2]>> : h \in H \ old}
    <3>. SUFFICES ASSUME NEW h \in Aged(H) \ new PROVE h \in {<<g[1] + 1, g[2]>> : g \in H \ old}
      OBVIOUS
    <3>1. h \in Aged(H) /\ ~(h[1] <= a + 1)
      BY DEF Since
    <3>2. h[1] \in 1..Window /\ <<h[1] - 1, h[2]>> \in H /\ h = <<(h[1] - 1) + 1, h[2]>>
      BY <1>3, <3>1
    <3>3. <<h[1] - 1, h[2]>> \in H \ old
      BY <1>1, <3>1, <3>2 DEF Since
    <3>. QED
      BY <3>2, <3>3
  <2>3. /\ IsFiniteSet(new) /\ Cardinality(new) <= Cardinality(old)
        /\ IsFiniteSet(Aged(H) \ new) /\ Cardinality(Aged(H) \ new) <= Cardinality(H \ old)
    BY <2>0, <2>1, <2>2, FewerWithAge
  <2>4. Cardinality(new) \in Nat /\ Cardinality(Aged(H) \ new) \in Nat /\ Cardinality(Aged(H)) \in Nat
    BY <1>4, <2>3, FS_CardinalityType
  <2>5. CASE a < Window
    <3>1. Cardinality(old) <= c /\ Cardinality(H \ old) <= Limit
      BY <1>1, <1>6, <2>5 DEF WindowFits
    <3>2. Cardinality(new) <= c /\ Cardinality(Aged(H) \ new) <= Limit
      <4>. HIDE DEF old, new
      <4>. QED
        BY <1>1, <2>0, <2>3, <2>4, <3>1
    <3>3. a + 1 <= Window /\ ~(a + 1 > Window) /\ ~(a > 2 * Window)
      BY <1>1, <2>5
    <3>. QED
      BY <3>2, <3>3 DEF WindowFits
  <2>6. CASE a = Window
    <3>1. Cardinality(old) <= c
      BY <1>1, <1>6, <2>6 DEF WindowFits
    <3>2. Aged(H) = new
      BY <1>1, <1>3, <2>6 DEF Since
    <3>3. Cardinality(Aged(H)) <= Limit
      <4>. HIDE DEF old, new
      <4>. QED
        BY <1>1, <2>0, <2>3, <2>4, <3>1, <3>2
    <3>4. \A h \in Aged(H) : h[1] >= (a + 1) - Window
      <4>1. (a + 1) - Window = 1
        BY <1>1, <2>6
      <4>. TAKE h \in Aged(H)
      <4>2. h[1] \in 1..Window
        BY <1>3
      <4>. QED
        BY <1>1, <4>1, <4>2
    <3>. QED
      BY <1>1, <2>6, <3>3, <3>4 DEF WindowFits
  <2>7. CASE a > Window
    <3>1. Cardinality(H) <= Limit /\ \A h \in H : h[1] >= a - Window
      BY <1>6, <2>7 DEF WindowFits
    <3>2. Cardinality(Aged(H)) <= Limit
      BY <1>1, <1>4, <2>0, <2>4, <3>1
    <3>3. \A h \in Aged(H) : h[1] - 1 >= a - Window
      <4>. TAKE h \in Aged(H)
      <4>1. <<h[1] - 1, h[2]>> \in H
        BY <1>3
      <4>2. <<h[1] - 1, h[2]>>[1] = h[1] - 1
        OBVIOUS
      <4>. QED
        BY <3>1, <4>1, <4>2
    <3>4. \A h \in Aged(H) : h[1] >= (IF a > 2 * Window THEN a ELSE a + 1) - Window
      <4>1. \A h \in Aged(H) : h[1] \in Nat
        BY <1>3
      <4>. QED
        BY <1>1, <2>7, <3>3, <4>1
    <3>. QED
      BY <1>1, <2>7, <3>2, <3>4 DEF WindowFits
  <2>. QED
    BY <1>1, <2>5, <2>6, <2>7
<1>. QED
  BY <1>5, <1>6

-----------------------------------------------------------------------------
(***************************************************************************)
(* ApiKeys: keys, roles and the seed.                                      *)
(***************************************************************************)

Roles == Canonical \cup DOMAIN Legacy
KeyRow == [role: Roles, left: 0..Never, scope: {"all", "sweden"}, revoked: BOOLEAN]
BucketRow == [count: 1..Limit, age: 0..2 * Window + 1]
KeyRequest == [role: Roles, lookup: Keys, trial: BOOLEAN]

BucketsTyped == DOMAIN bucket \subseteq Keys /\ bucket \in [DOMAIN bucket -> BucketRow]

KeyShapes ==
    /\ keys \in [Keys -> {Absent} \cup KeyRow] /\ \A k \in Keys : Made(k) => keys[k].role \in DOMAIN grants
    /\ DOMAIN grants \subseteq Roles /\ grants \in [DOMAIN grants -> SUBSET {Companies, Archive, Export}]
    /\ staff # Absent => staff \in KeyRequest /\ (staff.trial <=> staff.role = Trial)

\* Where the steps for an old role begin.
MoveOf(r) == IF r = "all_access" THEN 5 ELSE 8

\* How far the seed has come: the new roles are there, they have what those of old have, and while an
\* old role is taken apart only late keys are in it.
SeedState ==
    /\ seed \in 0..11
    /\ "company_data" \in DOMAIN grants => Archive \notin grants["company_data"]
    /\ seed > 1 => Canonical \subseteq DOMAIN grants
    /\ seed > 2 => {Companies, Archive} \subseteq grants["all-access"] /\ Companies \in grants["partner"]
    /\ \A r \in DOMAIN Legacy : seed \in {MoveOf(r) + 1, MoveOf(r) + 2} =>
          \A k \in Keys : keys[k].role = r => k \in late

KeyInv == BucketsTyped /\ RatesOK /\ (hits \in [Keys -> SUBSET ((0..Window) \X Nat)]) /\ KeyShapes /\ SeedState /\ TrialIsLimited

\* The steps of the seed, one by one.
LEMMA StepsOfSeed ==
    /\ Len(SeedSteps) = 11
    /\ SeedSteps[1] = <<"roles">> /\ SeedSteps[2] = <<"grants">> /\ SeedSteps[3] = <<"trim">> /\ SeedSteps[4] = <<"trial">>
    /\ SeedSteps[5] = <<"move", "all_access">> /\ SeedSteps[6] = <<"strip", "all_access">> /\ SeedSteps[7] = <<"drop", "all_access">>
    /\ SeedSteps[8] = <<"move", "company_data">> /\ SeedSteps[9] = <<"strip", "company_data">> /\ SeedSteps[10] = <<"drop", "company_data">>
    /\ SeedSteps[11] = <<"env">>
BY DEF SeedSteps, Migration

LEMMA SeedDoes ==
    ASSUME seed \in 0..11
    PROVE  /\ Does("roles") => seed = 1
           /\ Does("grants") => seed = 2
           /\ Does("trim") => seed = 3
           /\ Does("trial") => seed = 4
           /\ Does("move") => Step[2] \in DOMAIN Legacy /\ seed = MoveOf(Step[2])
           /\ Does("strip") => Step[2] \in DOMAIN Legacy /\ seed = MoveOf(Step[2]) + 1
           /\ Does("drop") => Step[2] \in DOMAIN Legacy /\ seed = MoveOf(Step[2]) + 2
           /\ Does("env") => seed = 11
           /\ Advance => seed' \in 0..11 /\ (seed' = 0 \/ seed' = seed + 1)
<1>1. CASE seed = 0
  BY <1>1, StepsOfSeed DEF Does, Advance
<1>2. CASE seed \in 1..11
  BY <1>2, StepsOfSeed DEF Does, Step, Advance, MoveOf, Legacy
<1>. QED
  BY <1>1, <1>2

LEMMA KeyInvInit == KeyInit => KeyInv
<1>. SUFFICES ASSUME KeyInit PROVE KeyInv
  OBVIOUS
<1>1. BucketsTyped
  BY DEF KeyInit, BucketsTyped
<1>2. RatesOK /\ hits \in [Keys -> SUBSET ((0..Window) \X Nat)]
  BY FS_EmptySet DEF KeyInit, RatesOK, HitsOK
<1>3. KeyShapes
  <2>1. \A r \in DOMAIN Legacy : NewKey(r, FALSE) \in KeyRow
    BY KeyAssumption DEF NewKey, KeyRow, Roles, Never
  <2>2. keys \in [Keys -> {Absent} \cup {NewKey(r, FALSE) : r \in DOMAIN Legacy}]
    BY DEF KeyInit
  <2>3. keys \in [Keys -> {Absent} \cup KeyRow]
    <3>1. \A k \in Keys : keys[k] = Absent \/ \E r \in DOMAIN Legacy : keys[k] = NewKey(r, FALSE)
      BY <2>2
    <3>2. \A k \in Keys : keys[k] \in {Absent} \cup KeyRow
      BY <2>1, <3>1
    <3>. QED
      BY <2>2, <3>2
  <2>4. PICK there \in SUBSET {"partner", Trial} :
          grants = [r \in DOMAIN Legacy \cup there |->
                      IF r = "all_access" THEN {Companies, Archive, Export}
                      ELSE IF r = "company_data" THEN {Companies} ELSE {Companies, Export}]
    BY DEF KeyInit
  <2>5. DOMAIN grants = DOMAIN Legacy \cup there /\ DOMAIN Legacy \cup there \subseteq Roles
    BY <2>4 DEF Roles, Canonical, Trial
  <2>6. grants \in [DOMAIN grants -> SUBSET {Companies, Archive, Export}]
    BY <2>4, <2>5
  <2>7. \A k \in Keys : Made(k) => keys[k].role \in DOMAIN Legacy
    BY <2>2 DEF Made, NewKey, Absent
  <2>8. staff = Absent
    BY DEF KeyInit
  <2>. QED
    BY <2>3, <2>5, <2>6, <2>7, <2>8 DEF KeyShapes
<1>4. SeedState
  BY DEF KeyInit, SeedState, Legacy, MoveOf, Companies, Archive, Export, Trial
<1>5. TrialIsLimited
  BY DEF KeyInit, TrialIsLimited, NewKey, Legacy, Trial, Absent
<1>. QED
  BY <1>1, <1>2, <1>3, <1>4, <1>5 DEF KeyInv

\* Requests and the timer.
BucketsHold == (BucketsTyped /\ RatesOK /\ hits \in [Keys -> SUBSET ((0..Window) \X Nat)])'

LEMMA RequestStep ==
    ASSUME KeyInv, NEW k \in Keys, NEW p, Request(k, p)
    PROVE  BucketsHold
<1>. DEFINE b == bucket[k]
            H == hits[k]
            h == <<0, Cardinality({g \in H : g[1] = 0})>>
<1>0. Limit \in Nat \ {0} /\ Window \in Nat \ {0}
  BY KeyAssumption
<1>1. HitsOK(H) /\ HitsOK(H \cup {h})
  BY OneMoreHit DEF KeyInv, RatesOK
<1>2. hits' = [hits EXCEPT ![k] = H \cup {h}] /\ bucket' = Counted(k) /\ Allows(k)
  BY DEF Request
<1>3. hits'[k] = H \cup {h} /\ \A j \in Keys \ {k} : hits'[j] = hits[j]
  BY <1>2 DEF KeyInv
<1>4. hits' \in [Keys -> SUBSET ((0..Window) \X Nat)]
  <2>1. H \cup {h} \subseteq (0..Window) \X Nat
    BY <1>1 DEF HitsOK
  <2>. HIDE DEF h, H
  <2>. QED
    BY <1>2, <2>1 DEF KeyInv
<1>5. CASE k \in DOMAIN bucket /\ ~WindowOver(b.age)
  <2>1. b.count \in 1..Limit /\ b.age \in 0..Window /\ b.count < Limit /\ b \in BucketRow
    BY <1>0, <1>2, <1>5 DEF KeyInv, BucketsTyped, BucketRow, WindowOver, Allows
  <2>2. DOMAIN bucket' = DOMAIN bucket /\ bucket'[k] = [b EXCEPT !.count = @ + 1]
        /\ \A j \in DOMAIN bucket \ {k} : bucket'[j] = bucket[j]
    BY <1>2, <1>5 DEF Counted
  <2>3. bucket'[k] \in BucketRow /\ bucket'[k].count = b.count + 1 /\ bucket'[k].age = b.age
    BY <1>0, <2>1, <2>2 DEF BucketRow
  <2>4. WindowFits(H, b.count, b.age)
    BY <1>5 DEF KeyInv, RatesOK
  <2>5. WindowFits(H \cup {h}, b.count + 1, b.age)
    <3>1. b.count \in 1..Limit /\ b.age \in 0..Window
      BY <2>1
    <3>. HIDE DEF b
    <3>. QED
      BY <1>1, <2>4, <3>1, OneMoreHit
  <2>6. BucketsTyped'
    BY <1>2, <2>2, <2>3 DEF KeyInv, BucketsTyped, Counted
  <2>7. RatesOK'
    <3>. HIDE DEF b, H, h
    <3>. QED
      BY <1>1, <1>3, <1>5, <2>2, <2>3, <2>5 DEF KeyInv, RatesOK
  <2>. QED
    BY <1>4, <2>6, <2>7 DEF BucketsHold
<1>6. CASE k \in DOMAIN bucket => WindowOver(b.age)
  <2>2. /\ DOMAIN bucket' = DOMAIN bucket \cup {k} /\ bucket'[k] = [count |-> 1, age |-> 0]
        /\ \A j \in DOMAIN bucket \ {k} : bucket'[j] = bucket[j]
    BY <1>2, <1>6 DEF Counted
  <2>3. bucket'[k] \in BucketRow
    BY <1>0, <2>2 DEF BucketRow
  <2>4. (\A g \in H : g[1] # 0) /\ Cardinality(H) <= Limit
    <3>1. CASE k \in DOMAIN bucket
      <4>1. b.age > Window /\ b.age \in Nat /\ WindowFits(H, b.count, b.age)
        BY <1>0, <1>6, <3>1 DEF KeyInv, RatesOK, BucketsTyped, BucketRow, WindowOver
      <4>2. Cardinality(H) <= Limit /\ \A g \in H : g[1] >= b.age - Window
        BY <4>1 DEF WindowFits
      <4>3. b.age - Window > 0 /\ b.age - Window \in Int
        BY <1>0, <4>1
      <4>. QED
        BY <4>2, <4>3
    <3>2. CASE k \notin DOMAIN bucket
      BY <1>0, <3>2, FS_EmptySet DEF KeyInv, RatesOK
    <3>. QED
      BY <3>1, <3>2
  <2>5. WindowFits(H \cup {h}, 1, 0)
    BY <1>1, <2>4, OneMoreHit
  <2>6. BucketsTyped'
    BY <1>2, <2>2, <2>3 DEF KeyInv, BucketsTyped, Counted
  <2>7. RatesOK'
    <3>. HIDE DEF b, H, h
    <3>1. ASSUME NEW j \in Keys \ {k}
          PROVE  /\ HitsOK(hits'[j])
                 /\ IF j \in DOMAIN bucket' THEN WindowFits(hits'[j], bucket'[j].count, bucket'[j].age) ELSE hits'[j] = {}
      BY <1>3, <2>2 DEF KeyInv, RatesOK
    <3>2. /\ HitsOK(hits'[k])
          /\ IF k \in DOMAIN bucket' THEN WindowFits(hits'[k], bucket'[k].count, bucket'[k].age) ELSE hits'[k] = {}
      BY <1>1, <1>3, <2>2, <2>5
    <3>. QED
      BY <3>1, <3>2 DEF RatesOK
  <2>. QED
    BY <1>4, <2>6, <2>7 DEF BucketsHold
<1>. QED
  BY <1>5, <1>6

LEMMA PruneStep == ASSUME KeyInv, Prune PROVE BucketsHold
<1>0. Limit \in Nat \ {0} /\ Window \in Nat \ {0}
  BY KeyAssumption
<1>1. /\ DOMAIN bucket' = {j \in DOMAIN bucket : ~Stale(bucket[j].age)} /\ hits' = hits
      /\ \A j \in DOMAIN bucket' : bucket'[j] = bucket[j]
      /\ bucket' = [j \in DOMAIN bucket' |-> bucket[j]]
  BY DEF Prune
<1>2. BucketsTyped'
  BY <1>1 DEF KeyInv, BucketsTyped
<1>3. ASSUME NEW k \in DOMAIN bucket, Stale(bucket[k].age) PROVE hits[k] = {}
  <2>1. k \in Keys /\ bucket[k].age \in Nat /\ bucket[k].age > 2 * Window /\ WindowFits(hits[k], bucket[k].count, bucket[k].age)
    BY <1>0, <1>3 DEF KeyInv, BucketsTyped, BucketRow, RatesOK, Stale
  <2>2. \A h \in hits[k] : h[1] >= bucket[k].age - Window /\ h[1] \in 0..Window
    BY <1>0, <2>1 DEF WindowFits, KeyInv, RatesOK, HitsOK
  <2>3. ASSUME NEW h \in hits[k] PROVE FALSE
    BY <1>0, <2>1, <2>2
  <2>. QED
    BY <2>3
<1>4. RatesOK'
  BY <1>1, <1>3 DEF KeyInv, RatesOK
<1>. QED
  BY <1>1, <1>2, <1>4 DEF KeyInv, BucketsHold

LEMMA TickStep == ASSUME KeyInv, Tick PROVE BucketsHold
<1>0. Limit \in Nat \ {0} /\ Window \in Nat \ {0}
  BY KeyAssumption
<1>1. /\ DOMAIN bucket' = DOMAIN bucket
      /\ bucket' = [k \in DOMAIN bucket |-> [bucket[k] EXCEPT !.age = IF @ > 2 * Window THEN @ ELSE @ + 1]]
      /\ hits' = [k \in Keys |-> Aged(hits[k])]
  BY DEF Tick, Aged
<1>2. ASSUME NEW k \in DOMAIN bucket
      PROVE  /\ bucket[k].count \in 1..Limit /\ bucket[k].age \in 0..2 * Window + 1
             /\ bucket'[k].count = bucket[k].count
             /\ bucket'[k].age = IF bucket[k].age > 2 * Window THEN bucket[k].age ELSE bucket[k].age + 1
             /\ bucket'[k] \in BucketRow
  <2>1. bucket[k] \in BucketRow
    BY DEF KeyInv, BucketsTyped
  <2>. QED
    BY <1>0, <1>1, <2>1 DEF BucketRow
<1>3. BucketsTyped'
  <2>1. \A k \in DOMAIN bucket : bucket'[k] \in BucketRow
    BY <1>2
  <2>. QED
    BY <1>1, <2>1 DEF KeyInv, BucketsTyped
<1>4. \A k \in Keys : HitsOK(hits[k]) /\ HitsOK(hits'[k]) /\ hits'[k] = Aged(hits[k])
  BY <1>1, OneTickOn DEF KeyInv, RatesOK
<1>5. hits' \in [Keys -> SUBSET ((0..Window) \X Nat)]
  <2>1. \A k \in Keys : Aged(hits[k]) \subseteq (0..Window) \X Nat
    BY <1>4 DEF HitsOK
  <2>. QED
    BY <1>1, <2>1
<1>6. ASSUME NEW k \in Keys
      PROVE  IF k \in DOMAIN bucket' THEN WindowFits(hits'[k], bucket'[k].count, bucket'[k].age) ELSE hits'[k] = {}
  <2>1. CASE k \in DOMAIN bucket
    <3>1. WindowFits(hits[k], bucket[k].count, bucket[k].age)
      BY <2>1 DEF KeyInv, RatesOK
    <3>2. WindowFits(Aged(hits[k]), bucket[k].count, IF bucket[k].age > 2 * Window THEN bucket[k].age ELSE bucket[k].age + 1)
      BY <1>2, <1>4, <2>1, <3>1, OneTickOn
    <3>. QED
      BY <1>1, <1>2, <1>4, <2>1, <3>2
  <2>2. CASE k \notin DOMAIN bucket
    <3>1. hits[k] = {}
      BY <2>2 DEF KeyInv, RatesOK
    <3>. QED
      BY <1>1, <1>4, <2>2, <3>1 DEF Aged
  <2>. QED
    BY <2>1, <2>2
<1>7. RatesOK'
  BY <1>4, <1>6 DEF RatesOK
<1>. QED
  BY <1>3, <1>5, <1>7 DEF BucketsHold

LEMMA RestartStep == ASSUME KeyInv, Restart PROVE BucketsHold
BY FS_EmptySet DEF Restart, BucketsHold, BucketsTyped, RatesOK, HitsOK

LEMMA RatesStep == ASSUME KeyInv, [KeyNext]_kvars PROVE BucketsHold
<1>1. CASE UNCHANGED <<bucket, hits>>
  BY <1>1 DEF KeyInv, BucketsHold, BucketsTyped, RatesOK
<1>2. CASE \E k \in Keys, p \in {Companies, Archive} : Request(k, p)
  BY <1>2, RequestStep
<1>3. CASE Prune
  BY <1>3, PruneStep
<1>4. CASE Tick
  BY <1>4, TickStep
<1>5. CASE Restart
  BY <1>5, RestartStep
<1>6. CASE \/ \E k \in Keys : Revoke(k)
           \/ CheckKey \/ CreateKey \/ StartSeed \/ EnsureRoles \/ GrantAdditive \/ TrimTrial \/ GrantTrial
           \/ SkipRole \/ MoveKeys \/ StripRole \/ DropRole \/ UpsertEnvKeys \/ StopSeed
  <2>1. UNCHANGED <<bucket, hits>>
    BY <1>6 DEF Revoke, CheckKey, CreateKey, StartSeed, EnsureRoles, GrantAdditive, TrimTrial, GrantTrial,
                SkipRole, MoveKeys, StripRole, DropRole, UpsertEnvKeys, StopSeed, Fixed
  <2>. QED
    BY <1>1, <2>1
<1>7. CASE UNCHANGED kvars
  BY <1>1, <1>7 DEF kvars
<1>. QED
  BY <1>2, <1>3, <1>4, <1>5, <1>6, <1>7 DEF KeyNext

\* What a step of staff or of the seed keeps.
KeysHold == (KeyShapes /\ SeedState /\ TrialIsLimited)'

\* Keys of before, in roles of after.
LEMMA KeyFields ==
    ASSUME KeyShapes, NEW k \in Keys
    PROVE  /\ Made(k) => keys[k] \in KeyRow /\ keys[k].role \in Roles /\ keys[k].role \in DOMAIN grants
           /\ ~Made(k) => keys[k] = Absent
           /\ "none" \notin Roles
<1>1. "none" \notin Roles
  BY DEF Roles, Canonical, Legacy
<1>2. keys[k] = Absent \/ keys[k] \in KeyRow
  BY DEF KeyShapes
<1>3. keys[k] \in KeyRow => keys[k].role \in Roles
  BY DEF KeyRow
<1>. QED
  BY <1>1, <1>2, <1>3 DEF KeyShapes, Made, Absent

LEMMA GrantFields ==
    ASSUME KeyShapes, NEW r \in DOMAIN grants
    PROVE  grants[r] \subseteq {Companies, Archive, Export}
BY DEF KeyShapes

LEMMA TickKeys == ASSUME KeyInv, Tick PROVE KeysHold
<1>1. /\ keys' = [k \in Keys |-> IF Made(k) /\ keys[k].left \in 1..Ttl THEN [keys[k] EXCEPT !.left = @ - 1] ELSE keys[k]]
      /\ UNCHANGED <<grants, seed, staff, late>>
  BY DEF Tick
<1>2. KeyShapes /\ Ttl \in Nat
  BY KeyAssumption DEF KeyInv
<1>3. ASSUME NEW k \in Keys
      PROVE  /\ keys'[k] \in {Absent} \cup KeyRow /\ keys'[k].role = keys[k].role
             /\ keys[k] \in KeyRow => keys'[k].scope = keys[k].scope /\ keys'[k].left <= keys[k].left
  <2>1. CASE Made(k) /\ keys[k].left \in 1..Ttl
    <3>1. keys[k] \in KeyRow /\ keys'[k] = [keys[k] EXCEPT !.left = @ - 1]
      BY <1>1, <1>2, <2>1, KeyFields
    <3>. QED
      BY <1>2, <2>1, <3>1 DEF KeyRow, Never
  <2>2. CASE ~(Made(k) /\ keys[k].left \in 1..Ttl)
    <3>1. keys'[k] = keys[k]
      BY <1>1, <2>2
    <3>2. keys[k] \in KeyRow => keys[k].left \in Nat
      BY <1>2 DEF KeyRow, Never
    <3>. QED
      BY <1>2, <3>1, <3>2 DEF KeyShapes
  <2>. QED
    BY <2>1, <2>2
<1>4. KeyShapes'
  <2>1. keys' \in [Keys -> {Absent} \cup KeyRow]
    BY <1>1, <1>3
  <2>2. \A k \in Keys : Made(k)' => keys[k].role \in DOMAIN grants /\ keys'[k].role = keys[k].role
    BY <1>2, <1>3, KeyFields DEF Made
  <2>. QED
    BY <1>1, <1>2, <2>1, <2>2 DEF KeyShapes
<1>5. SeedState'
  BY <1>1, <1>3 DEF KeyInv, SeedState
<1>6. TrialIsLimited'
  <2>. SUFFICES ASSUME NEW k \in Keys, keys'[k].role = Trial PROVE keys'[k].left <= Ttl /\ keys'[k].scope = "sweden"
    BY DEF TrialIsLimited
  <2>1. keys[k].role = Trial /\ Made(k)
    BY <1>3 DEF Made, Trial
  <2>2. keys[k] \in KeyRow /\ keys[k].left <= Ttl /\ keys[k].scope = "sweden"
    BY <1>2, <2>1, KeyFields DEF KeyInv, TrialIsLimited
  <2>3. keys'[k].left <= keys[k].left /\ keys'[k].scope = "sweden" /\ keys'[k] \in KeyRow
    BY <1>3, <2>2, <2>1 DEF Absent, Trial
  <2>4. keys'[k].left \in Nat /\ keys[k].left \in Nat
    BY <1>2, <2>2, <2>3 DEF KeyRow, Never
  <2>. QED
    BY <1>2, <2>2, <2>3, <2>4
<1>. QED
  BY <1>4, <1>5, <1>6 DEF KeysHold

LEMMA RevokeStep == ASSUME KeyInv, NEW k \in Keys, Revoke(k) PROVE KeysHold
<1>1. keys' = [keys EXCEPT ![k].revoked = TRUE] /\ UNCHANGED <<grants, seed, staff, late>> /\ Made(k)
  BY DEF Revoke
<1>2. KeyShapes
  BY DEF KeyInv
<1>3. keys[k] \in KeyRow
  BY <1>1, <1>2, KeyFields
<1>4. keys'[k] = [keys[k] EXCEPT !.revoked = TRUE] /\ keys' \in [Keys -> {Absent} \cup KeyRow]
      /\ \A j \in Keys : keys'[j].role = keys[j].role /\ (j # k => keys'[j] = keys[j])
  <2>1. keys'[k] = [keys[k] EXCEPT !.revoked = TRUE] /\ DOMAIN keys' = Keys
        /\ \A j \in Keys \ {k} : keys'[j] = keys[j]
    BY <1>1, <1>2 DEF KeyShapes
  <2>2. keys'[k] \in KeyRow /\ keys'[k].role = keys[k].role
    BY <1>3, <2>1 DEF KeyRow
  <2>3. keys' = [j \in Keys |-> keys'[j]]
    BY <1>1, <1>2 DEF KeyShapes
  <2>. QED
    BY <1>2, <2>1, <2>2, <2>3 DEF KeyShapes
<1>5. KeyShapes'
  BY <1>1, <1>2, <1>4 DEF KeyShapes, Made
<1>6. SeedState'
  BY <1>1, <1>4 DEF KeyInv, SeedState
<1>7. keys'[k].left = keys[k].left /\ keys'[k].scope = keys[k].scope
  BY <1>3, <1>4 DEF KeyRow
<1>8. TrialIsLimited'
  BY <1>4, <1>7 DEF KeyInv, TrialIsLimited
<1>. QED
  BY <1>5, <1>6, <1>8 DEF KeysHold

LEMMA NewKeys ==
    ASSUME NEW r \in Roles, NEW t \in BOOLEAN
    PROVE  /\ NewKey(r, t) \in KeyRow /\ NewKey(r, t).role = r
           /\ t => NewKey(r, t).left <= Ttl /\ NewKey(r, t).scope = "sweden"
BY KeyAssumption DEF NewKey, KeyRow, Never

LEMMA CheckKeyStep == ASSUME KeyInv, CheckKey PROVE KeysHold
<1>1. PICK k \in Keys, r \in DOMAIN grants : staff' = [role |-> r, lookup |-> k, trial |-> r = Trial]
  BY DEF CheckKey
<1>2. UNCHANGED <<keys, grants, seed, late>>
  BY DEF CheckKey
<1>3. r \in Roles
  BY DEF KeyInv, KeyShapes
<1>4. staff' \in KeyRequest /\ (staff'.trial <=> staff'.role = Trial)
  BY <1>1, <1>3 DEF KeyRequest
<1>5. KeyShapes'
  BY <1>2, <1>4 DEF KeyInv, KeyShapes, Made
<1>6. SeedState' /\ TrialIsLimited'
  BY <1>2 DEF KeyInv, SeedState, TrialIsLimited
<1>. QED
  BY <1>5, <1>6 DEF KeysHold

LEMMA CreateKeyStep == ASSUME KeyInv, CreateKey PROVE KeysHold
<1>0. KeyShapes /\ staff # Absent /\ UNCHANGED <<grants, seed>> /\ staff' = Absent
  BY DEF KeyInv, CreateKey
<1>1. staff \in KeyRequest /\ (staff.trial <=> staff.role = Trial)
  BY <1>0 DEF KeyShapes
<1>2. staff.role \in Roles /\ staff.lookup \in Keys /\ staff.trial \in BOOLEAN
  BY <1>1 DEF KeyRequest
<1>. DEFINE l == staff.lookup
            n == NewKey(staff.role, staff.trial)
<1>3. CASE ~Made(l) /\ staff.role \in DOMAIN grants
  <2>1. /\ keys' = [keys EXCEPT ![l] = n]
        /\ late' = IF staff.role \in DOMAIN Legacy THEN late \cup {l} ELSE late
    BY <1>3 DEF CreateKey
  <2>2. n \in KeyRow /\ n.role = staff.role /\ (staff.trial => n.left <= Ttl /\ n.scope = "sweden")
    BY <1>2, NewKeys
  <2>3. keys' \in [Keys -> {Absent} \cup KeyRow] /\ keys'[l] = n /\ \A j \in Keys \ {l} : keys'[j] = keys[j]
    <3>1. l \in Keys
      BY <1>2
    <3>. HIDE DEF n, l
    <3>. QED
      BY <1>0, <2>1, <2>2, <3>1 DEF KeyShapes
  <2>4. KeyShapes'
    <3>1. \A k \in Keys : Made(k)' => keys'[k].role \in DOMAIN grants
      <4>. HIDE DEF n
      <4>. QED
        BY <1>0, <1>3, <2>2, <2>3 DEF KeyShapes, Made
    <3>. QED
      BY <1>0, <2>3, <3>1 DEF KeyShapes
  <2>5. SeedState'
    <3>1. late \subseteq late' /\ (staff.role \in DOMAIN Legacy => l \in late')
      BY <2>1
    <3>. HIDE DEF n, l
    <3>2. \A r \in DOMAIN Legacy, k \in Keys : keys'[k].role = r => keys[k].role = r \/ k \in late'
      BY <2>2, <2>3, <3>1
    <3>. QED
      BY <1>0, <3>1, <3>2 DEF KeyInv, SeedState
  <2>6. TrialIsLimited'
    <3>. HIDE DEF n, l
    <3>. QED
      BY <1>1, <2>2, <2>3 DEF KeyInv, TrialIsLimited
  <2>. QED
    BY <2>4, <2>5, <2>6 DEF KeysHold
<1>4. CASE ~(~Made(l) /\ staff.role \in DOMAIN grants)
  <2>1. UNCHANGED <<keys, late>>
    BY <1>4 DEF CreateKey
  <2>. QED
    BY <1>0, <2>1 DEF KeyInv, KeysHold, KeyShapes, SeedState, TrialIsLimited, Made
<1>. QED
  BY <1>3, <1>4

\* A key keeps the permissions a step of the seed found it with.
Keeps(k) ==
    \A p \in {Companies, Archive} : (Accepts(k, p) /\ keys[k].role # Trial) =>
        ~keys'[k].revoked /\ p \in grants'[keys'[k].role]

SeedKeeps == KeysHold /\ \A k \in Keys \ (late \cup EnvKeys) : Keeps(k)

\* Steps that leave the keys alone and take no role, and no permission but of the trial role or of
\* one that only late keys have.
LEMMA GrantsOnly ==
    ASSUME KeyInv, UNCHANGED <<keys, staff, late>>, DOMAIN grants \subseteq DOMAIN grants', DOMAIN grants' \subseteq Roles,
           grants' \in [DOMAIN grants' -> SUBSET {Companies, Archive, Export}],
           \A r \in DOMAIN grants : \/ grants[r] \cap {Companies, Archive} \subseteq grants'[r] \/ r = Trial
                                    \/ \A k \in Keys : keys[k].role = r => k \in late,
           SeedState'
    PROVE  SeedKeeps
<1>1. KeyShapes' /\ TrialIsLimited'
  BY DEF KeyInv, KeyShapes, TrialIsLimited, Made
<1>2. ASSUME NEW k \in Keys \ (late \cup EnvKeys) PROVE Keeps(k)
  <2>. SUFFICES ASSUME NEW p \in {Companies, Archive}, Accepts(k, p), keys[k].role # Trial
                PROVE  ~keys'[k].revoked /\ p \in grants'[keys'[k].role]
    BY DEF Keeps
  <2>1. Made(k) /\ ~keys[k].revoked /\ p \in grants[keys[k].role] /\ keys'[k] = keys[k]
    BY DEF Accepts
  <2>2. keys[k].role \in DOMAIN grants
    BY <2>1 DEF KeyInv, KeyShapes
  <2>. QED
    BY <2>1, <2>2
<1>. QED
  BY <1>1, <1>2 DEF SeedKeeps, KeysHold

LEMMA SeedGoesOn ==
    ASSUME KeyInv, UNCHANGED <<keys, grants, staff, late>>, SeedState'
    PROVE  SeedKeeps
BY GrantsOnly DEF KeyInv, KeyShapes

LEMMA StartSeedStep == ASSUME KeyInv, StartSeed PROVE KeysHold
<1>1. UNCHANGED <<keys, grants, staff, late>> /\ seed' = 1
  BY DEF StartSeed, Fixed
<1>2. SeedState'
  BY <1>1 DEF KeyInv, SeedState, MoveOf
<1>. QED
  BY <1>1, <1>2, SeedGoesOn DEF SeedKeeps

LEMMA EnsureRolesStep == ASSUME KeyInv, EnsureRoles PROVE SeedKeeps
<1>1. /\ UNCHANGED <<keys, staff, late>> /\ seed = 1 /\ seed' \in {0, 2}
      /\ grants' = [r \in DOMAIN grants \cup Canonical |-> Granted(r, {})]
  BY SeedDoes DEF KeyInv, SeedState, EnsureRoles, Fixed
<1>2. DOMAIN grants' = DOMAIN grants \cup Canonical /\ \A r \in DOMAIN grants : grants'[r] = grants[r]
  BY <1>1 DEF Granted
<1>3. DOMAIN grants' \subseteq Roles
  BY <1>2 DEF KeyInv, KeyShapes, Roles
<1>4. grants' \in [DOMAIN grants' -> SUBSET {Companies, Archive, Export}]
  <2>1. \A r \in DOMAIN grants' : Granted(r, {}) \subseteq {Companies, Archive, Export}
    BY GrantFields DEF KeyInv, Granted
  <2>. QED
    BY <1>1, <1>2, <2>1
<1>5. SeedState'
  <2>1. "company_data" \in DOMAIN grants' => "company_data" \in DOMAIN grants
    BY <1>2 DEF Canonical
  <2>. QED
    BY <1>1, <1>2, <2>1 DEF KeyInv, SeedState, MoveOf
<1>. QED
  BY <1>1, <1>2, <1>3, <1>4, <1>5, GrantsOnly

LEMMA GrantAdditiveStep == ASSUME KeyInv, GrantAdditive PROVE SeedKeeps
<1>1. /\ UNCHANGED <<keys, staff, late>> /\ seed = 2 /\ seed' \in {0, 3}
      /\ grants' = [grants EXCEPT !["all-access"] = @ \cup {Companies, Archive},
                                  !["integration"] = @ \cup {Archive},
                                  !["partner"] = @ \cup {Companies}]
  BY SeedDoes DEF KeyInv, SeedState, GrantAdditive, Fixed
<1>2. Canonical \subseteq DOMAIN grants /\ grants = [r \in DOMAIN grants |-> grants[r]]
  BY <1>1 DEF KeyInv, SeedState, KeyShapes
<1>3. /\ DOMAIN grants' = DOMAIN grants
      /\ \A r \in DOMAIN grants : grants[r] \subseteq grants'[r] /\ grants'[r] \subseteq grants[r] \cup {Companies, Archive}
      /\ {Companies, Archive} \subseteq grants'["all-access"] /\ Companies \in grants'["partner"]
      /\ \A r \in DOMAIN Legacy \cap DOMAIN grants : grants'[r] = grants[r]
  BY <1>1, <1>2 DEF Canonical, Legacy
<1>4. grants' \in [DOMAIN grants' -> SUBSET {Companies, Archive, Export}]
  <2>1. \A r \in DOMAIN grants' : grants'[r] \subseteq {Companies, Archive, Export}
    BY <1>3, GrantFields DEF KeyInv
  <2>2. grants' = [r \in DOMAIN grants' |-> grants'[r]]
    BY <1>1, <1>2
  <2>. QED
    BY <2>1, <2>2
<1>5. SeedState'
  BY <1>1, <1>2, <1>3 DEF KeyInv, SeedState, MoveOf, Legacy
<1>. QED
  BY <1>1, <1>3, <1>4, <1>5, GrantsOnly DEF KeyInv, KeyShapes

\* What the trial role may do is of no other role.
LEMMA TrialStep ==
    ASSUME KeyInv, UNCHANGED <<keys, staff, late>>, seed \in {3, 4}, seed' \in {0, seed + 1},
           NEW P \in SUBSET {Companies, Archive, Export}, grants' = [grants EXCEPT ![Trial] = P]
    PROVE  SeedKeeps
<1>1. DOMAIN grants' = DOMAIN grants /\ \A r \in DOMAIN grants : r # Trial => grants'[r] = grants[r]
  BY DEF KeyInv, KeyShapes
<1>2. grants' \in [DOMAIN grants' -> SUBSET {Companies, Archive, Export}]
  BY DEF KeyInv, KeyShapes
<1>3. SeedState'
  <2>1. {"all-access", "partner"} \subseteq DOMAIN grants
    BY DEF KeyInv, SeedState, Canonical
  <2>2. grants'["all-access"] = grants["all-access"] /\ grants'["partner"] = grants["partner"]
    BY <1>1, <2>1 DEF Trial
  <2>3. "company_data" \in DOMAIN grants => grants'["company_data"] = grants["company_data"]
    BY <1>1 DEF Trial
  <2>. QED
    BY <1>1, <2>2, <2>3 DEF KeyInv, SeedState, MoveOf
<1>. QED
  BY <1>1, <1>2, <1>3, GrantsOnly DEF KeyInv, KeyShapes

LEMMA TrimTrialStep == ASSUME KeyInv, TrimTrial PROVE SeedKeeps
<1>1. UNCHANGED <<keys, staff, late>> /\ seed = 3 /\ seed' \in {0, 4} /\ grants' = [grants EXCEPT ![Trial] = @ \cap {Companies}]
  BY SeedDoes DEF KeyInv, SeedState, TrimTrial, Fixed
<1>2. PICK P : P = grants[Trial] \cap {Companies}
  OBVIOUS
<1>3. P \in SUBSET {Companies, Archive, Export} /\ grants' = [grants EXCEPT ![Trial] = P]
  BY <1>1, <1>2
<1>. QED
  <2>1. UNCHANGED <<keys, staff, late>> /\ seed \in {3, 4} /\ seed' \in {0, seed + 1}
    BY <1>1
  <2>. QED
    BY <1>3, <2>1, TrialStep

LEMMA GrantTrialStep == ASSUME KeyInv, GrantTrial PROVE SeedKeeps
<1>1. UNCHANGED <<keys, staff, late>> /\ seed = 4 /\ seed' \in {0, 5} /\ grants' = [grants EXCEPT ![Trial] = grants[Trial] \cup {Companies}]
  BY SeedDoes DEF KeyInv, SeedState, GrantTrial, Fixed
<1>2. Trial \in DOMAIN grants
  BY <1>1 DEF KeyInv, SeedState, Canonical, Trial
<1>3. PICK P : P = grants[Trial] \cup {Companies}
  OBVIOUS
<1>4. P \in SUBSET {Companies, Archive, Export} /\ grants' = [grants EXCEPT ![Trial] = P]
  BY <1>1, <1>2, <1>3, GrantFields DEF KeyInv
<1>. QED
  <2>1. UNCHANGED <<keys, staff, late>> /\ seed \in {3, 4} /\ seed' \in {0, seed + 1}
    BY <1>1
  <2>. QED
    BY <1>4, <2>1, TrialStep

LEMMA SkipRoleStep == ASSUME KeyInv, SkipRole PROVE SeedKeeps
<1>1. /\ UNCHANGED <<keys, grants, staff, late>> /\ Step[2] \in DOMAIN Legacy
      /\ seed = MoveOf(Step[2]) /\ seed' = seed + 3
  BY SeedDoes DEF KeyInv, SeedState, SkipRole, Fixed
<1>2. SeedState'
  BY <1>1 DEF KeyInv, SeedState, MoveOf, Legacy
<1>. QED
  BY <1>1, <1>2, SeedGoesOn

LEMMA MoveKeysStep == ASSUME KeyInv, MoveKeys PROVE SeedKeeps
<1>0. PICK R : R = Step[2]
  OBVIOUS
<1>1. /\ UNCHANGED <<grants, staff, late>> /\ R \in DOMAIN Legacy /\ seed = MoveOf(R) /\ seed' \in {0, seed + 1} /\ R \in DOMAIN grants
      /\ keys' = [k \in Keys |-> IF keys[k].role = R THEN [keys[k] EXCEPT !.role = Legacy[R]] ELSE keys[k]]
  BY <1>0, SeedDoes DEF KeyInv, SeedState, MoveKeys, Fixed
<1>2. KeyShapes /\ SeedState /\ TrialIsLimited
  BY DEF KeyInv
<1>3. /\ Legacy[R] \in Canonical /\ Legacy[R] \in DOMAIN grants /\ Legacy[R] # Trial /\ Legacy[R] # R
      /\ grants[R] \cap {Companies, Archive} \subseteq grants[Legacy[R]] /\ R # "none" /\ Legacy[R] # "none"
      /\ Legacy[R] \notin DOMAIN Legacy
  <2>1. seed > 2
    BY <1>1 DEF MoveOf
  <2>2. Canonical \subseteq DOMAIN grants /\ {Companies, Archive} \subseteq grants["all-access"] /\ Companies \in grants["partner"]
    BY <1>2, <2>1 DEF SeedState
  <2>. QED
    BY <1>1, <1>2, <2>2 DEF SeedState, Legacy, Canonical, Trial
<1>4. ASSUME NEW k \in Keys
      PROVE  /\ keys'[k] \in {Absent} \cup KeyRow
             /\ keys[k].role = R => /\ keys'[k].role = Legacy[R] /\ keys'[k].revoked = keys[k].revoked
             /\ keys[k].role # R => keys'[k] = keys[k]
  <2>1. CASE keys[k].role = R
    <3>1. keys[k] \in KeyRow
      BY <1>2, <1>3, <2>1, KeyFields DEF Made
    <3>2. keys'[k] = [keys[k] EXCEPT !.role = Legacy[R]]
      BY <1>1, <2>1
    <3>3. Legacy[R] \in Roles
      BY <1>3 DEF Roles
    <3>. QED
      BY <2>1, <3>1, <3>2, <3>3 DEF KeyRow
  <2>2. CASE keys[k].role # R
    BY <1>1, <1>2, <2>2 DEF KeyShapes
  <2>. QED
    BY <2>1, <2>2
<1>5. KeyShapes'
  <2>1. keys' \in [Keys -> {Absent} \cup KeyRow]
    BY <1>1, <1>4
  <2>2. \A k \in Keys : Made(k)' => keys'[k].role \in DOMAIN grants
    BY <1>2, <1>3, <1>4 DEF Made, KeyShapes
  <2>. QED
    BY <1>1, <1>2, <2>1, <2>2 DEF KeyShapes
<1>6. SeedState'
  <2>1. \A k \in Keys : keys'[k].role # R
    BY <1>3, <1>4
  <2>2. \A r \in DOMAIN Legacy : seed' \in {MoveOf(r) + 1, MoveOf(r) + 2} => r = R
    BY <1>1 DEF MoveOf, Legacy
  <2>3. seed' \in 0..11 /\ seed > 2
    BY <1>1 DEF MoveOf
  <2>. QED
    BY <1>1, <1>2, <2>1, <2>2, <2>3 DEF SeedState
<1>7. TrialIsLimited'
  <2>. SUFFICES ASSUME NEW k \in Keys, keys'[k].role = Trial PROVE keys'[k].left <= Ttl /\ keys'[k].scope = "sweden"
    BY DEF TrialIsLimited
  <2>. QED
    BY <1>2, <1>3, <1>4 DEF TrialIsLimited
<1>8. ASSUME NEW k \in Keys PROVE Keeps(k)
  <2>. SUFFICES ASSUME NEW p \in {Companies, Archive}, Accepts(k, p) PROVE ~keys'[k].revoked /\ p \in grants'[keys'[k].role]
    BY DEF Keeps
  <2>1. ~keys[k].revoked /\ p \in grants[keys[k].role]
    BY DEF Accepts
  <2>. QED
    BY <1>1, <1>3, <1>4, <2>1
<1>. QED
  BY <1>5, <1>6, <1>7, <1>8 DEF SeedKeeps, KeysHold

LEMMA StripRoleStep == ASSUME KeyInv, StripRole PROVE SeedKeeps
<1>0. PICK R : R = Step[2]
  OBVIOUS
<1>1. /\ UNCHANGED <<keys, staff, late>> /\ R \in DOMAIN Legacy /\ seed = MoveOf(R) + 1 /\ seed' \in {0, seed + 1}
      /\ grants' = [r \in DOMAIN grants |-> IF r = R THEN {} ELSE grants[r]]
  BY <1>0, SeedDoes DEF KeyInv, SeedState, StripRole, Fixed
<1>2. SeedState
  BY DEF KeyInv
<1>3. \A k \in Keys : keys[k].role = R => k \in late
  BY <1>1, <1>2 DEF SeedState
<1>4. DOMAIN grants' = DOMAIN grants /\ \A r \in DOMAIN grants : grants'[r] = grants[r] \/ (r = R /\ grants'[r] = {})
  BY <1>1
<1>5. grants' \in [DOMAIN grants' -> SUBSET {Companies, Archive, Export}]
  <2>1. \A r \in DOMAIN grants' : grants'[r] \subseteq {Companies, Archive, Export}
    BY <1>4, GrantFields DEF KeyInv
  <2>. QED
    BY <1>1, <2>1
<1>6. SeedState'
  <2>1. seed > 2 /\ seed' \in 0..11
    BY <1>1 DEF MoveOf
  <2>2. {"all-access", "partner"} \subseteq DOMAIN grants /\ "all-access" # R /\ "partner" # R
    BY <1>1, <1>2, <2>1 DEF SeedState, Canonical, Legacy
  <2>3. grants'["all-access"] = grants["all-access"] /\ grants'["partner"] = grants["partner"]
    BY <1>1, <2>2
  <2>4. \A r \in DOMAIN Legacy : seed' \in {MoveOf(r) + 1, MoveOf(r) + 2} => r = R
    BY <1>1 DEF MoveOf, Legacy
  <2>. QED
    BY <1>1, <1>2, <1>3, <1>4, <2>1, <2>3, <2>4 DEF SeedState
<1>. QED
  BY <1>1, <1>3, <1>4, <1>5, <1>6, GrantsOnly DEF KeyInv, KeyShapes

LEMMA DropRoleStep == ASSUME KeyInv, DropRole PROVE SeedKeeps
<1>0. PICK R : R = Step[2]
  OBVIOUS
<1>1. /\ UNCHANGED <<keys, staff, late>> /\ R \in DOMAIN Legacy /\ seed = MoveOf(R) + 2
      /\ \/ seed' = 0 /\ UNCHANGED grants
         \/ /\ \A k \in Keys : keys[k].role # R
            /\ seed' \in {0, seed + 1} /\ grants' = [r \in DOMAIN grants \ {R} |-> grants[r]]
  BY <1>0, SeedDoes DEF KeyInv, SeedState, DropRole, Fixed
<1>2. SeedState /\ KeyShapes
  BY DEF KeyInv
<1>3. CASE seed' = 0 /\ UNCHANGED grants
  <2>1. SeedState'
    BY <1>1, <1>2, <1>3 DEF SeedState, MoveOf
  <2>. QED
    BY <1>1, <1>3, <2>1, SeedGoesOn
<1>4. CASE /\ \A k \in Keys : keys[k].role # R
           /\ seed' \in {0, seed + 1} /\ grants' = [r \in DOMAIN grants \ {R} |-> grants[r]]
  <2>1. DOMAIN grants' = DOMAIN grants \ {R} /\ \A r \in DOMAIN grants' : grants'[r] = grants[r]
    BY <1>4
  <2>2. grants' \in [DOMAIN grants' -> SUBSET {Companies, Archive, Export}]
    <3>1. \A r \in DOMAIN grants' : grants[r] \subseteq {Companies, Archive, Export}
      BY <1>2, <2>1, GrantFields
    <3>. QED
      BY <1>4, <2>1, <3>1
  <2>3. KeyShapes'
    BY <1>1, <1>2, <1>4, <2>1, <2>2 DEF KeyShapes, Made
  <2>4. SeedState'
    <3>1. seed > 2 /\ seed' \in 0..11
      BY <1>1, <1>4 DEF MoveOf
    <3>2. Canonical \subseteq DOMAIN grants' /\ {"all-access", "partner"} \subseteq DOMAIN grants'
      BY <1>1, <1>2, <2>1, <3>1 DEF SeedState, Canonical, Legacy
    <3>3. grants'["all-access"] = grants["all-access"] /\ grants'["partner"] = grants["partner"]
      BY <2>1, <3>2
    <3>4. \A r \in DOMAIN Legacy : seed' \notin {MoveOf(r) + 1, MoveOf(r) + 2}
      BY <1>1, <1>4 DEF MoveOf, Legacy
    <3>5. "company_data" \in DOMAIN grants' => "company_data" \in DOMAIN grants /\ grants'["company_data"] = grants["company_data"]
      BY <2>1
    <3>. QED
      BY <1>2, <3>1, <3>2, <3>3, <3>4, <3>5 DEF SeedState
  <2>5. TrialIsLimited'
    BY <1>1 DEF KeyInv, TrialIsLimited
  <2>6. ASSUME NEW k \in Keys PROVE Keeps(k)
    <3>. SUFFICES ASSUME NEW p \in {Companies, Archive}, Accepts(k, p) PROVE ~keys'[k].revoked /\ p \in grants'[keys'[k].role]
      BY DEF Keeps
    <3>1. Made(k) /\ ~keys[k].revoked /\ p \in grants[keys[k].role] /\ keys[k].role # R
      BY <1>4 DEF Accepts
    <3>2. keys[k].role \in DOMAIN grants'
      BY <1>2, <2>1, <3>1 DEF KeyShapes
    <3>. QED
      BY <1>1, <2>1, <3>1, <3>2
  <2>. QED
    BY <2>3, <2>4, <2>5, <2>6 DEF SeedKeeps, KeysHold
<1>. QED
  BY <1>1, <1>3, <1>4

LEMMA UpsertEnvKeysStep == ASSUME KeyInv, UpsertEnvKeys PROVE SeedKeeps
<1>1. /\ UNCHANGED <<grants, staff, late>> /\ seed = 11 /\ seed' = 0
  BY SeedDoes, StepsOfSeed DEF KeyInv, SeedState, UpsertEnvKeys, Fixed, Advance
<1>2. PICK R \in [EnvKeys -> {"integration", "all-access"}] :
        keys' = [k \in Keys |->
            IF k \notin EnvKeys THEN keys[k]
            ELSE IF Made(k) THEN [keys[k] EXCEPT !.role = R[k], !.revoked = FALSE]
            ELSE NewKey(R[k], FALSE)]
  BY DEF UpsertEnvKeys
<1>3. SeedState /\ KeyShapes
  BY DEF KeyInv
<1>4. {"integration", "all-access"} \subseteq DOMAIN grants /\ {"integration", "all-access"} \subseteq Roles
      /\ Trial \notin {"integration", "all-access"}
  BY <1>1, <1>3 DEF SeedState, Roles, Canonical, Trial
<1>5. ASSUME NEW k \in Keys
      PROVE  /\ keys'[k] \in {Absent} \cup KeyRow
             /\ k \notin EnvKeys => keys'[k] = keys[k]
             /\ k \in EnvKeys => keys'[k].role \in {"integration", "all-access"}
  <2>1. CASE k \notin EnvKeys
    BY <1>2, <1>3, <2>1 DEF KeyShapes
  <2>2. CASE k \in EnvKeys /\ Made(k)
    <3>1. keys[k] \in KeyRow /\ keys'[k] = [keys[k] EXCEPT !.role = R[k], !.revoked = FALSE]
      BY <1>2, <1>3, <2>2, KeyFields
    <3>2. R[k] \in {"integration", "all-access"} /\ R[k] \in Roles
      BY <1>2, <1>4, <2>2
    <3>3. keys'[k] \in KeyRow /\ keys'[k].role = R[k]
      BY <3>1, <3>2 DEF KeyRow
    <3>. QED
      BY <2>2, <3>2, <3>3
  <2>3. CASE k \in EnvKeys /\ ~Made(k)
    <3>1. keys'[k] = NewKey(R[k], FALSE)
      BY <1>2, <2>3
    <3>2. R[k] \in {"integration", "all-access"} /\ R[k] \in Roles
      BY <1>2, <1>4, <2>3
    <3>. QED
      BY <2>3, <3>1, <3>2, NewKeys
  <2>. QED
    BY <2>1, <2>2, <2>3
<1>6. KeyShapes'
  <2>1. keys' \in [Keys -> {Absent} \cup KeyRow]
    BY <1>2, <1>5
  <2>2. \A k \in Keys : Made(k)' => keys'[k].role \in DOMAIN grants
    BY <1>3, <1>4, <1>5 DEF KeyShapes, Made
  <2>. QED
    BY <1>1, <1>3, <2>1, <2>2 DEF KeyShapes
<1>7. SeedState'
  BY <1>1, <1>3 DEF SeedState, MoveOf
<1>8. TrialIsLimited'
  BY <1>4, <1>5 DEF KeyInv, TrialIsLimited
<1>9. ASSUME NEW k \in Keys \ (late \cup EnvKeys) PROVE Keeps(k)
  BY <1>1, <1>5 DEF Keeps, Accepts
<1>. QED
  BY <1>6, <1>7, <1>8, <1>9 DEF SeedKeeps, KeysHold

LEMMA StopSeedStep == ASSUME KeyInv, StopSeed PROVE SeedKeeps
<1>1. UNCHANGED <<keys, grants, staff, late>> /\ seed' = 0
  BY DEF StopSeed, Fixed
<1>2. SeedState'
  BY <1>1 DEF KeyInv, SeedState, MoveOf
<1>. QED
  BY <1>1, <1>2, SeedGoesOn

\* The steps of the seed.
Seeding ==
    \/ EnsureRoles \/ GrantAdditive \/ TrimTrial \/ GrantTrial
    \/ SkipRole \/ MoveKeys \/ StripRole \/ DropRole \/ UpsertEnvKeys \/ StopSeed

LEMMA SeedingStep == ASSUME KeyInv, Seeding PROVE SeedKeeps
BY EnsureRolesStep, GrantAdditiveStep, TrimTrialStep, GrantTrialStep, SkipRoleStep, MoveKeysStep, StripRoleStep,
   DropRoleStep, UpsertEnvKeysStep, StopSeedStep DEF Seeding

LEMMA KeyInvStep == KeyInv /\ [KeyNext]_kvars => KeyInv'
<1>. SUFFICES ASSUME KeyInv, [KeyNext]_kvars PROVE KeyInv'
  OBVIOUS
<1>1. BucketsHold
  BY RatesStep
<1>2. KeysHold
  <2>1. CASE UNCHANGED <<keys, grants, seed, staff, late>>
    BY <2>1 DEF KeyInv, KeysHold, KeyShapes, SeedState, TrialIsLimited, Made
  <2>2. CASE (\E k \in Keys, p \in {Companies, Archive} : Request(k, p)) \/ Prune \/ Restart \/ UNCHANGED kvars
    BY <2>1, <2>2 DEF Request, Prune, Restart, kvars
  <2>3. CASE Tick
    BY <2>3, TickKeys
  <2>4. CASE (\E k \in Keys : Revoke(k)) \/ CheckKey \/ CreateKey
    BY <2>4, RevokeStep, CheckKeyStep, CreateKeyStep
  <2>5. CASE StartSeed
    BY <2>5, StartSeedStep
  <2>6. CASE Seeding
    BY <2>6, SeedingStep DEF SeedKeeps
  <2>. QED
    BY <2>2, <2>3, <2>4, <2>5, <2>6 DEF KeyNext, Seeding
<1>. QED
  BY <1>1, <1>2 DEF KeyInv, BucketsHold, KeysHold

LEMMA KeyInvImplies == KeyInv => TwoQuotas /\ TrialIsLimited
<1>. SUFFICES ASSUME KeyInv, NEW k \in Keys PROVE Cardinality(hits[k]) <= 2 * Limit
  BY DEF KeyInv, TwoQuotas
<1>1. HitsOK(hits[k])
  BY DEF KeyInv, RatesOK
<1>2. CASE k \in DOMAIN bucket
  <2>1. bucket[k].count \in 1..Limit /\ bucket[k].age \in 0..2 * Window + 1
    BY <1>2 DEF KeyInv, BucketsTyped, BucketRow
  <2>2. WindowFits(hits[k], bucket[k].count, bucket[k].age)
    BY <1>2 DEF KeyInv, RatesOK
  <2>. QED
    BY <1>1, <2>1, <2>2, TwoWindows
<1>3. CASE k \notin DOMAIN bucket
  <2>1. hits[k] = {}
    BY <1>3 DEF KeyInv, RatesOK
  <2>2. Cardinality({}) = 0 /\ 2 * Limit \in Nat
    BY FS_EmptySet, KeyAssumption
  <2>. QED
    BY <2>1, <2>2
<1>. QED
  BY <1>2, <1>3

\* Keys, roles and counts keep their types.
THEOREM KeyTypesHold == KeySpec => []KeyTypesOK
<1>1. KeyInv => KeyTypesOK
  <2>. SUFFICES ASSUME KeyInv PROVE KeyTypesOK
    OBVIOUS
  <2>1. DOMAIN grants \subseteq Canonical \cup DOMAIN Legacy
    BY DEF KeyInv, KeyShapes, Roles
  <2>2. \A k \in Keys : Made(k) => /\ keys[k].role \in DOMAIN grants /\ keys[k].left \in 0..Never
                                   /\ keys[k].scope \in {"all", "sweden"} /\ keys[k].revoked \in BOOLEAN
    BY KeyFields DEF KeyInv, KeyRow
  <2>3. \A k \in DOMAIN bucket : bucket[k].count \in 1..Limit
    BY DEF KeyInv, BucketsTyped, BucketRow
  <2>. QED
    BY <2>1, <2>2, <2>3 DEF KeyTypesOK
<1>. QED
  BY <1>1, KeyInvInit, KeyInvStep, PTL DEF KeySpec

\* Only a step of the seed goes on from where the seed is.
LEMMA OnlySeeding ==
    ASSUME KeyInv, [KeyNext]_kvars, seed # 0, seed' # seed
    PROVE  Seeding
<1>1. ~StartSeed
  BY DEF StartSeed
<1>2. ~\E k \in Keys : Revoke(k) \/ \E p \in {Companies, Archive} : Request(k, p)
  BY DEF Revoke, Request
<1>3. ~(Prune \/ Tick \/ Restart \/ CheckKey \/ CreateKey \/ UNCHANGED kvars)
  BY DEF Prune, Tick, Restart, CheckKey, CreateKey, kvars
<1>. QED
  BY <1>1, <1>2, <1>3 DEF KeyNext, Seeding

\* However a client's requests fall on the ends of windows it gets no more than two quotas in a
\* window's length, a key in the trial role is limited whichever way it came there, and no step of
\* the seed takes access from a key (clientApiAuth.ts, clientApiRateLimit.ts, seedClientApi.ts).
THEOREM KeysStayLimited == KeySpec => KeysAreLimited
<1>1. KeySpec => []KeyInv
  BY KeyInvInit, KeyInvStep, PTL DEF KeySpec
<1>2. KeyInv /\ [KeyNext]_kvars =>
        [seed # 0 /\ UNCHANGED bucket /\ (seed' # seed) =>
            \A k \in Keys \ (late \cup EnvKeys), p \in {Companies, Archive} :
                (Accepts(k, p) /\ keys[k].role # Trial) =>
                    /\ ~keys'[k].revoked /\ p \in grants'[keys'[k].role]]_kvars
  <2>. SUFFICES ASSUME KeyInv, [KeyNext]_kvars, seed # 0, seed' # seed
                PROVE  \A k \in Keys \ (late \cup EnvKeys), p \in {Companies, Archive} :
                         (Accepts(k, p) /\ keys[k].role # Trial) =>
                           /\ ~keys'[k].revoked /\ p \in grants'[keys'[k].role]
    OBVIOUS
  <2>1. SeedKeeps
    BY OnlySeeding, SeedingStep
  <2>. QED
    BY <2>1 DEF SeedKeeps, Keeps
<1>3. KeySpec => SeedKeepsAccess
  BY <1>1, <1>2, PTL DEF KeySpec, SeedKeepsAccess
<1>4. KeySpec => [](TwoQuotas /\ TrialIsLimited)
  BY <1>1, KeyInvImplies, PTL
<1>. QED
  BY <1>3, <1>4, PTL DEF KeysAreLimited

-----------------------------------------------------------------------------
(* Finite sets *)

\* The sets below a finite one, and taking an element from them.
LEMMA FiniteBelow ==
    ASSUME NEW S, IsFiniteSet(S)
    PROVE  \A s \in SUBSET S :
              /\ IsFiniteSet(s) /\ Cardinality(s) \in Nat /\ Cardinality(s) <= Cardinality(S)
              /\ \A x \in s : Cardinality(s \ {x}) = Cardinality(s) - 1 /\ Cardinality(s) # 0
<1>. TAKE s \in SUBSET S
<1>1. IsFiniteSet(s) /\ Cardinality(s) <= Cardinality(S)
  BY FS_Subset
<1>2. Cardinality(s) \in Nat
  BY <1>1, FS_CardinalityType
<1>3. ASSUME NEW x \in s PROVE Cardinality(s \ {x}) = Cardinality(s) - 1 /\ Cardinality(s) # 0
  <2>1. Cardinality(s \ {x}) = Cardinality(s) - 1
    BY <1>1, FS_RemoveElement
  <2>2. Cardinality(s) # 0
    BY <1>1, FS_EmptySet
  <2>. QED
    BY <2>1, <2>2
<1>. QED
  BY <1>1, <1>2, <1>3

\* Induction over the subsets of a finite set: those that are good are a set.
LEMMA BySubsets ==
    ASSUME NEW S, IsFiniteSet(S), NEW G, {} \in G,
           \A s \in SUBSET S : s # {} /\ (\A x \in s : s \ {x} \in G) => s \in G
    PROVE  SUBSET S \subseteq G
<1>. DEFINE Bad == (SUBSET S) \ G
            f == [s \in Bad |-> Cardinality(s)]
<1>. SUFFICES ASSUME Bad # {} PROVE FALSE
  OBVIOUS
<1>1. \A s \in Bad : f[s] \in Nat /\ f[s] = Cardinality(s)
  BY FiniteBelow
<1>2. PICK s \in Bad : \A t \in Bad : f[s] <= f[t]
  <2>. HIDE DEF f, Bad
  <2>. QED
    BY <1>1, LeastOf
<1>3. PICK x \in s : s \ {x} \notin G
  OBVIOUS
<1>4. Cardinality(s \ {x}) = Cardinality(s) - 1 /\ Cardinality(s) \in Nat
  BY FiniteBelow
<1>5. s \ {x} \in Bad
  BY <1>3
<1>6. Cardinality(s) <= Cardinality(s \ {x})
  BY <1>1, <1>2, <1>5
<1>. QED
  BY <1>4, <1>6

-----------------------------------------------------------------------------
(* Sums *)

OneOf(s) == CHOOSE x \in s : TRUE
IsSum(f, e, D) == f = [s \in D |-> IF s = {} THEN 0 ELSE f[s \ {OneOf(s)}] + OrZero(e[OneOf(s)])]
SumOf(e, S) == CHOOSE f : IsSum(f, e, SUBSET S)

\* A sum is a recursive function over the sets of points that are added.
LEMMA SumIs == ASSUME NEW e, NEW S PROVE Sum(e, S) = SumOf(e, S)[S]
BY Zenon DEF Sum, FoldSet, MapThenFoldSet, SumOf, IsSum, OneOf

\* That function exists: for sets up to every size, the least size without one cannot be.
LEMMA SumExists == ASSUME NEW e, NEW S, IsFiniteSet(S) PROVE IsSum(SumOf(e, S), e, SUBSET S)
<1>. DEFINE Small(m) == {s \in SUBSET S : Cardinality(s) < m}
            Bad == {m \in Nat : ~ \E f : IsSum(f, e, Small(m))}
<1>0. \A s \in SUBSET S : /\ Cardinality(s) \in Nat /\ Cardinality(s) <= Cardinality(S)
                          /\ \A x \in s : Cardinality(s \ {x}) = Cardinality(s) - 1 /\ Cardinality(s) # 0
  BY FiniteBelow
<1>1. \A s \in SUBSET S : s # {} => OneOf(s) \in s
  BY DEF OneOf
<1>2. Bad = {}
  <2>. SUFFICES ASSUME Bad # {} PROVE FALSE
    OBVIOUS
  <2>1. PICK m \in Bad : \A k \in Bad : m <= k
    <3>1. Bad \in SUBSET Nat
      OBVIOUS
    <3>. HIDE DEF Bad
    <3>. QED
      BY <3>1, Least
  <2>2. m # 0
    <3>1. IsSum([s \in {} |-> 0], e, {})
      BY DEF IsSum
    <3>2. Small(0) = {}
      BY <1>0
    <3>. QED
      BY <3>1, <3>2
  <2>3. m \in Nat /\ m - 1 \in Nat /\ m - 1 \notin Bad
    <3>. HIDE DEF Small
    <3>1. m \in Nat /\ m - 1 \in Nat /\ ~(m <= m - 1)
      BY <2>2
    <3>. QED
      BY <2>1, <3>1
  <2>4. PICK f : IsSum(f, e, Small(m - 1))
    BY <2>3
  <2>. DEFINE g == [s \in Small(m) |-> IF s = {} THEN 0 ELSE f[s \ {OneOf(s)}] + OrZero(e[OneOf(s)])]
  <2>5. ASSUME NEW s \in Small(m), s # {} PROVE s \ {OneOf(s)} \in Small(m - 1)
    <3>1. OneOf(s) \in s /\ s \in SUBSET S /\ Cardinality(s) < m
      BY <1>1, <2>5
    <3>2. Cardinality(s \ {OneOf(s)}) = Cardinality(s) - 1 /\ Cardinality(s) \in Nat
      BY <1>0, <3>1
    <3>3. s \ {OneOf(s)} \in SUBSET S
      OBVIOUS
    <3>. QED
      BY <2>3, <3>1, <3>2, <3>3
  <2>6. \A s \in Small(m - 1) : s \in Small(m)
    BY <1>0, <2>3
  <2>7. \A s \in Small(m - 1) : f[s] = g[s]
    BY <2>4, <2>6 DEF IsSum
  <2>8. IsSum(g, e, Small(m))
    <3>. HIDE DEF Small
    <3>. QED
      BY <2>5, <2>6, <2>7 DEF IsSum
  <2>. QED
    BY <2>8, <2>1
<1>3. Cardinality(S) + 1 \in Nat /\ \A s \in SUBSET S : Cardinality(s) < Cardinality(S) + 1
  <2>1. S \in SUBSET S
    OBVIOUS
  <2>2. Cardinality(S) \in Nat
    BY <1>0, <2>1
  <2>. QED
    BY <1>0, <2>2
<1>4. SUBSET S = Small(Cardinality(S) + 1)
  BY <1>3
<1>5. PICK f : IsSum(f, e, Small(Cardinality(S) + 1))
  BY <1>2, <1>3
<1>. HIDE DEF Small
<1>. QED
  BY <1>4, <1>5 DEF SumOf

Amounts(e, S) == \A p \in S : OrZero(e[p]) \in Nat

LEMMA SumStays ==
    ASSUME NEW e, NEW S, IsFiniteSet(S), NEW T \in SUBSET S
    PROVE  SumOf(e, T)[T] = SumOf(e, S)[T]
<1>. DEFINE f == SumOf(e, S)
            g == SumOf(e, T)
            G == {s \in SUBSET T : g[s] = f[s]}
<1>0. IsFiniteSet(T)
  BY FS_Subset
<1>1. IsSum(f, e, SUBSET S) /\ IsSum(g, e, SUBSET T)
  BY <1>0, SumExists
<1>. HIDE DEF f, g
<1>2. {} \in G
  <2>1. f[{}] = 0
    BY <1>1 DEF IsSum
  <2>2. g[{}] = 0
    BY <1>1 DEF IsSum
  <2>. QED
    BY <2>1, <2>2
<1>3. ASSUME NEW s \in SUBSET T, s # {}, \A x \in s : s \ {x} \in G
      PROVE  s \in G
  <2>1. OneOf(s) \in s
    BY <1>3 DEF OneOf
  <2>2. g[s \ {OneOf(s)}] = f[s \ {OneOf(s)}]
    BY <1>3, <2>1
  <2>3. f[s] = f[s \ {OneOf(s)}] + OrZero(e[OneOf(s)])
    BY <1>1, <1>3 DEF IsSum
  <2>4. g[s] = g[s \ {OneOf(s)}] + OrZero(e[OneOf(s)])
    BY <1>1, <1>3 DEF IsSum
  <2>. QED
    BY <2>2, <2>3, <2>4
<1>. HIDE DEF G
<1>4. SUBSET T \subseteq G
  BY <1>0, <1>2, <1>3, BySubsets
<1>5. T \in G
  BY <1>4
<1>. QED
  BY <1>5 DEF G, f, g

\* The order in which points are added does not matter.
LEMMA SumRules ==
    ASSUME NEW e, NEW S, IsFiniteSet(S), Amounts(e, S)
    PROVE  /\ Sum(e, S) \in Nat
           /\ \A p \in S : Sum(e, S) = Sum(e, S \ {p}) + OrZero(e[p])
<1>. DEFINE f == SumOf(e, S)
            Numeric == {s \in SUBSET S : f[s] \in Nat}
            G == {s \in SUBSET S : \A p \in s : f[s] = f[s \ {p}] + OrZero(e[p])}
<1>1. IsSum(f, e, SUBSET S)
  BY SumExists
<1>. HIDE DEF f
<1>2. f[{}] = 0
  BY <1>1 DEF IsSum
<1>3. ASSUME NEW s \in SUBSET S, s # {}
      PROVE  /\ OneOf(s) \in s /\ OrZero(e[OneOf(s)]) \in Nat
             /\ f[s] = f[s \ {OneOf(s)}] + OrZero(e[OneOf(s)])
  <2>1. OneOf(s) \in s
    BY <1>3 DEF OneOf
  <2>2. f[s] = f[s \ {OneOf(s)}] + OrZero(e[OneOf(s)])
    BY <1>1, <1>3 DEF IsSum
  <2>. QED
    BY <2>1, <2>2 DEF Amounts
<1>4. SUBSET S \subseteq Numeric
  <2>1. {} \in Numeric
    BY <1>2
  <2>2. ASSUME NEW s \in SUBSET S, s # {}, \A x \in s : s \ {x} \in Numeric
        PROVE  s \in Numeric
    <3>1. f[s \ {OneOf(s)}] \in Nat /\ OrZero(e[OneOf(s)]) \in Nat
      BY <1>3, <2>2
    <3>2. f[s] = f[s \ {OneOf(s)}] + OrZero(e[OneOf(s)])
      BY <1>3, <2>2
    <3>. HIDE DEF OneOf
    <3>3. f[s] \in Nat
      BY <3>1, <3>2
    <3>. QED
      BY <3>3
  <2>. HIDE DEF Numeric
  <2>. QED
    BY <2>1, <2>2, BySubsets
<1>5. \A s \in SUBSET S : f[s] \in Nat
  BY <1>4
<1>6. SUBSET S \subseteq G
  <2>1. {} \in G
    OBVIOUS
  <2>2. ASSUME NEW s \in SUBSET S, s # {}, \A x \in s : s \ {x} \in G
        PROVE  s \in G
    <3>. DEFINE c == OneOf(s)
    <3>1. c \in s /\ OrZero(e[c]) \in Nat /\ f[s] = f[s \ {c}] + OrZero(e[c])
      BY <1>3, <2>2
    <3>. HIDE DEF c
    <3>2. ASSUME NEW p \in s, p # c PROVE f[s] = f[s \ {p}] + OrZero(e[p])
      <4>1. p \in s \ {c} /\ s \ {c} \in G
        BY <2>2, <3>1, <3>2
      <4>2. f[s \ {c}] = f[(s \ {c}) \ {p}] + OrZero(e[p])
        BY <4>1
      <4>3. c \in s \ {p} /\ s \ {p} \in G
        BY <2>2, <3>1, <3>2
      <4>4. f[s \ {p}] = f[(s \ {p}) \ {c}] + OrZero(e[c])
        BY <4>3
      <4>5. (s \ {p}) \ {c} = (s \ {c}) \ {p} /\ (s \ {c}) \ {p} \in SUBSET S
        OBVIOUS
      <4>6. f[(s \ {c}) \ {p}] \in Nat /\ OrZero(e[p]) \in Nat
        BY <1>5, <4>5 DEF Amounts
      <4>. DEFINE less == f[(s \ {c}) \ {p}]
      <4>7. f[s] = (less + OrZero(e[p])) + OrZero(e[c])
        BY <3>1, <4>2
      <4>8. f[s \ {p}] = less + OrZero(e[c])
        BY <4>4, <4>5
      <4>9. less \in Nat /\ OrZero(e[p]) \in Nat /\ OrZero(e[c]) \in Nat
        BY <3>1, <4>6
      <4>. HIDE DEF less, G
      <4>10. (less + OrZero(e[p])) + OrZero(e[c]) = (less + OrZero(e[c])) + OrZero(e[p])
        BY <4>9
      <4>. QED
        BY <4>7, <4>8, <4>10
    <3>. QED
      BY <3>1, <3>2
  <2>. HIDE DEF G
  <2>. QED
    BY <2>1, <2>2, BySubsets
<1>7. ASSUME NEW p \in S PROVE Sum(e, S) = Sum(e, S \ {p}) + OrZero(e[p])
  <2>1. S \in G
    BY <1>6
  <2>2. f[S] = f[S \ {p}] + OrZero(e[p])
    BY <2>1
  <2>3. SumOf(e, S \ {p})[S \ {p}] = f[S \ {p}]
    BY SumStays DEF f
  <2>. QED
    BY <2>2, <2>3, SumIs DEF f
<1>8. Sum(e, S) \in Nat
  BY <1>5, SumIs DEF f
<1>. QED
  BY <1>7, <1>8

LEMMA SumOfNone == ASSUME NEW e PROVE Sum(e, {}) = 0
<1>1. IsSum(SumOf(e, {}), e, SUBSET {})
  BY SumExists, FS_EmptySet
<1>2. SumOf(e, {})[{}] = 0
  BY <1>1 DEF IsSum
<1>. QED
  BY <1>2, SumIs

\* One point more.
LEMMA SumWith ==
    ASSUME NEW e, NEW S, IsFiniteSet(S), NEW p, p \notin S, Amounts(e, S \cup {p})
    PROVE  Sum(e, S \cup {p}) = Sum(e, S) + OrZero(e[p])
<1>1. IsFiniteSet(S \cup {p})
  BY FS_AddElement
<1>2. (S \cup {p}) \ {p} = S /\ p \in S \cup {p}
  OBVIOUS
<1>3. Sum(e, S \cup {p}) = Sum(e, (S \cup {p}) \ {p}) + OrZero(e[p])
  BY <1>1, <1>2, SumRules
<1>. QED
  BY <1>2, <1>3

\* Sums of sets that have nothing in common, and the points of a set that have a number.
LEMMA SumOfBoth ==
    ASSUME NEW e, NEW S, NEW T, IsFiniteSet(S), IsFiniteSet(T), S \cap T = {}, Amounts(e, S \cup T)
    PROVE  Sum(e, S \cup T) = Sum(e, S) + Sum(e, T)
<1>. DEFINE G == {t \in SUBSET T : Sum(e, S \cup t) = Sum(e, S) + Sum(e, t)}
<1>0. Sum(e, S) \in Nat
  BY SumRules DEF Amounts
<1>1. {} \in G
  <2>1. S \cup {} = S /\ Sum(e, {}) = 0
    BY SumOfNone
  <2>. QED
    BY <1>0, <2>1
<1>2. ASSUME NEW t \in SUBSET T, t # {}, \A x \in t : t \ {x} \in G
      PROVE  t \in G
  <2>1. PICK x \in t : TRUE
    BY <1>2
  <2>2. Sum(e, S \cup (t \ {x})) = Sum(e, S) + Sum(e, t \ {x})
    BY <1>2
  <2>3. IsFiniteSet(t) /\ IsFiniteSet(t \ {x}) /\ IsFiniteSet(S \cup t)
    BY FS_Subset, FS_Union
  <2>4. Amounts(e, t) /\ Amounts(e, S \cup t) /\ Amounts(e, t \ {x}) /\ OrZero(e[x]) \in Nat
    BY DEF Amounts
  <2>5. Sum(e, t) = Sum(e, t \ {x}) + OrZero(e[x])
    BY <2>3, <2>4, SumRules
  <2>6. Sum(e, S \cup t) = Sum(e, (S \cup t) \ {x}) + OrZero(e[x])
    BY <2>3, <2>4, SumRules
  <2>7. (S \cup t) \ {x} = S \cup (t \ {x})
    OBVIOUS
  <2>8. Sum(e, t \ {x}) \in Nat
    BY <2>3, <2>4, SumRules
  <2>9. Sum(e, S \cup t) = Sum(e, S) + Sum(e, t)
    <3>1. Sum(e, S \cup t) = (Sum(e, S) + Sum(e, t \ {x})) + OrZero(e[x])
      BY <2>2, <2>6, <2>7
    <3>2. (Sum(e, S) + Sum(e, t \ {x})) + OrZero(e[x]) = Sum(e, S) + (Sum(e, t \ {x}) + OrZero(e[x]))
      BY <1>0, <2>4, <2>8
    <3>. QED
      BY <2>5, <3>1, <3>2
  <2>. QED
    BY <2>9
<1>. HIDE DEF G
<1>3. SUBSET T \subseteq G
  BY <1>1, <1>2, BySubsets
<1>4. T \in G
  BY <1>3
<1>. QED
  BY <1>4 DEF G

LEMMA SumOfNumbers ==
    ASSUME NEW e, NEW S, IsFiniteSet(S), Amounts(e, S)
    PROVE  Sum(e, S) = Sum(e, Numbers(e, S))
<1>. DEFINE Z == S \ Numbers(e, S)
            G == {t \in SUBSET Z : Sum(e, t) = 0}
<1>0. \A p \in Z : OrZero(e[p]) = 0
  BY DEF Numbers, OrZero, Or
<1>1. IsFiniteSet(Z) /\ IsFiniteSet(Numbers(e, S)) /\ S = Numbers(e, S) \cup Z /\ Numbers(e, S) \cap Z = {}
  <2>1. Numbers(e, S) \subseteq S
    BY DEF Numbers
  <2>. QED
    BY <2>1, FS_Subset
<1>2. {} \in G
  BY SumOfNone
<1>3. ASSUME NEW t \in SUBSET Z, t # {}, \A x \in t : t \ {x} \in G
      PROVE  t \in G
  <2>1. PICK x \in t : TRUE
    BY <1>3
  <2>2. IsFiniteSet(t) /\ Amounts(e, t)
    BY <1>1, FS_Subset DEF Amounts
  <2>3. Sum(e, t) = Sum(e, t \ {x}) + OrZero(e[x])
    BY <2>2, SumRules
  <2>4. Sum(e, t \ {x}) = 0 /\ OrZero(e[x]) = 0
    BY <1>0, <1>3
  <2>5. Sum(e, t) = 0
    BY <2>3, <2>4
  <2>. QED
    BY <2>5
<1>4. Sum(e, Z) = 0
  <2>. HIDE DEF G, Z
  <2>1. SUBSET Z \subseteq G
    BY <1>1, <1>2, <1>3, BySubsets
  <2>2. Z \in G
    BY <2>1
  <2>. QED
    BY <2>2 DEF G
<1>5. Sum(e, Numbers(e, S) \cup Z) = Sum(e, Numbers(e, S)) + Sum(e, Z)
  <2>1. Amounts(e, Numbers(e, S) \cup Z)
    BY <1>1
  <2>. HIDE DEF Z
  <2>. QED
    BY <1>1, <2>1, SumOfBoth
<1>6. Sum(e, Numbers(e, S)) \in Nat
  <2>1. Amounts(e, Numbers(e, S))
    BY DEF Amounts, Numbers
  <2>. QED
    BY <1>1, <2>1, SumRules
<1>. QED
  BY <1>1, <1>4, <1>5, <1>6

-----------------------------------------------------------------------------
(* EmissionTotals: totals, changes and trends *)

Emission(e) ==
    /\ \A p \in Points : e[p] \in Nat \cup {NoNumber, Blank}
    /\ \A p \in Points \ (Cats \cup {"scope3"}) : e[p] # Blank

ScopePoints == {"scope1", "scope1And2"} \cup Scope2
Scope3Points == {"scope3"} \cup Cats

\* A are data points of S that are added once each: the total, with nothing left out but overlaps.
AddsUp(e, S, A, total) ==
    /\ A \in SUBSET Numbers(e, S) /\ IsFiniteSet(A)
    /\ total \in Nat \cup {NoNumber} /\ OrZero(total) \in Nat
    /\ OrZero(total) = Sum(e, A) /\ (A = {} <=> total = NoNumber)
    /\ \A p, q \in A : p # q => ~Overlap(p, q)
    /\ \A p \in Numbers(e, S) \ A : \E q \in A : Overlap(p, q)

LEMMA Sets ==
    /\ IsFiniteSet({}) /\ (\A p : IsFiniteSet({p})) /\ (\A p, q : IsFiniteSet({p, q}))
    /\ NoNumber \notin Nat /\ Blank \notin Nat /\ NoNumber # Blank /\ IsFiniteSet(Cats)
    /\ \A p \in Cats : p \notin ScopePoints \cup {"scope3", "stated"}
<1>1. \A p : IsFiniteSet({p})
  BY FS_Singleton
<1>2. ASSUME NEW p, NEW q PROVE IsFiniteSet({p, q})
  <2>1. IsFiniteSet({p} \cup {q})
    BY <1>1, FS_AddElement
  <2>2. {p} \cup {q} = {p, q}
    OBVIOUS
  <2>. QED
    BY <2>1, <2>2
<1>3. IsFiniteSet({})
  BY FS_EmptySet
<1>. QED
  BY <1>1, <1>2, <1>3, TotalsAssumption DEF ScopePoints, Scope2

LEMMA NumbersAre ==
    ASSUME NEW e, Emission(e)
    PROVE  /\ \A p \in Points : /\ OrZero(e[p]) \in Nat /\ (e[p] \in Nat <=> e[p] \notin {NoNumber, Blank})
                                /\ (e[p] \in Nat => OrZero(e[p]) = e[p])
           /\ \A p \in ScopePoints \cup {"stated"} : p \in Points /\ (e[p] = NoNumber \/ e[p] \in Nat)
           /\ \A p \in Scope3Points : p \in Points
           /\ \A S \in SUBSET Points : Amounts(e, S)
<1>1. ASSUME NEW p \in Points
      PROVE  /\ OrZero(e[p]) \in Nat /\ (e[p] \in Nat <=> e[p] \notin {NoNumber, Blank})
             /\ (e[p] \in Nat => OrZero(e[p]) = e[p])
  BY Sets DEF Emission, OrZero, Or
<1>2. \A p \in ScopePoints \cup {"stated"} : p \in Points /\ p \notin Cats \cup {"scope3"}
  BY Sets DEF ScopePoints, Points, Scope2
<1>3. \A p \in ScopePoints \cup {"stated"} : p \in Points /\ (e[p] = NoNumber \/ e[p] \in Nat)
  BY <1>2, Sets DEF Emission
<1>4. \A p \in Scope3Points : p \in Points
  BY DEF Scope3Points, Points
<1>5. \A S \in SUBSET Points : Amounts(e, S)
  BY <1>1 DEF Amounts
<1>. QED
  BY <1>1, <1>3, <1>4, <1>5

LEMMA SumOfOne == ASSUME NEW e, NEW p, OrZero(e[p]) \in Nat PROVE Sum(e, {p}) = OrZero(e[p])
<1>1. Sum(e, {} \cup {p}) = Sum(e, {}) + OrZero(e[p])
  BY Sets, SumWith DEF Amounts
<1>2. {} \cup {p} = {p} /\ Sum(e, {}) = 0
  BY SumOfNone
<1>. QED
  BY <1>1, <1>2

LEMMA SumOfTwo ==
    ASSUME NEW e, NEW p, NEW q, p # q, OrZero(e[p]) \in Nat, OrZero(e[q]) \in Nat
    PROVE  Sum(e, {p, q}) = OrZero(e[p]) + OrZero(e[q])
<1>1. Sum(e, {p} \cup {q}) = Sum(e, {p}) + OrZero(e[q])
  <2>1. IsFiniteSet({p}) /\ q \notin {p} /\ Amounts(e, {p} \cup {q})
    BY Sets DEF Amounts
  <2>. QED
    BY <2>1, SumWith
<1>2. {p} \cup {q} = {p, q} /\ Sum(e, {p}) = OrZero(e[p])
  BY SumOfOne
<1>. QED
  BY <1>1, <1>2

\* Scope 2 is the first of its data points that is there.
LEMMA Scope2Is ==
    ASSUME NEW e, Emission(e)
    PROVE  \/ calculateScope2Total(e) = NoNumber /\ \A q \in Scope2 : e[q] = NoNumber
           \/ \E q \in Scope2 : calculateScope2Total(e) = e[q] /\ e[q] \in Nat
<1>1. \A q \in Scope2 : (e[q] = NoNumber \/ e[q] \in Nat) /\ q \in ScopePoints
  BY NumbersAre DEF ScopePoints
<1>2. Scope2 = {"mb", "lb", "unknown"}
  BY DEF Scope2
<1>. QED
  BY <1>1, <1>2, Sets DEF calculateScope2Total, Or

LEMMA ScopesCounted ==
    ASSUME NEW e, Emission(e)
    PROVE  \E A : AddsUp(e, ScopePoints, A, calculateScope1And2Total(e))
<1>. DEFINE total == calculateScope1And2Total(e)
            two == calculateScope2Total(e)
            S == Numbers(e, ScopePoints)
<1>0. /\ \A p \in ScopePoints : /\ OrZero(e[p]) \in Nat /\ (e[p] = NoNumber \/ e[p] \in Nat)
                                /\ (e[p] \in Nat => OrZero(e[p]) = e[p])
                                /\ (p \in S <=> e[p] \in Nat)
      /\ OrZero(NoNumber) = 0 /\ S \subseteq ScopePoints
  BY NumbersAre, Sets DEF Numbers, OrZero, Or
<1>1. total = IF e["scope1"] # NoNumber \/ two # NoNumber THEN OrZero(e["scope1"]) + OrZero(two) ELSE e["scope1And2"]
  BY DEF calculateScope1And2Total
<1>2. \A p : p \in ScopePoints <=> p = "scope1" \/ p = "scope1And2" \/ p \in Scope2
  BY DEF ScopePoints
<1>3. "scope1" \notin Scope2 /\ "scope1And2" \notin Scope2
  BY DEF Scope2
<1>. HIDE DEF total, two, S
<1>4. CASE two = NoNumber /\ \A q \in Scope2 : e[q] = NoNumber
  <2>1. CASE e["scope1"] # NoNumber
    <3>1. total = OrZero(e["scope1"]) + 0 /\ OrZero(e["scope1"]) = e["scope1"] /\ e["scope1"] \in Nat
      BY <1>0, <1>1, <1>2, <1>4, <2>1
    <3>2. total \in Nat /\ OrZero(total) = total /\ total # NoNumber /\ total = Sum(e, {"scope1"})
      <4>1. Sum(e, {"scope1"}) = OrZero(e["scope1"])
        BY <3>1, SumOfOne
      <4>2. total = e["scope1"]
        BY <3>1
      <4>3. OrZero(total) = total
        BY <3>1, <4>2
      <4>. QED
        BY <3>1, <4>1, <4>2, <4>3, Sets
    <3>3. {"scope1"} \in SUBSET S /\ IsFiniteSet({"scope1"})
      BY <1>0, <1>2, <3>1, Sets
    <3>4. \A p \in S \ {"scope1"} : Overlap(p, "scope1")
      <4>1. \A p \in S \ {"scope1"} : p = "scope1And2"
        BY <1>0, <1>2, <1>4, Sets
      <4>. QED
        BY <4>1 DEF Overlap
    <3>. QED
      BY <3>2, <3>3, <3>4 DEF AddsUp, total, S
  <2>2. CASE e["scope1"] = NoNumber /\ e["scope1And2"] # NoNumber
    <3>1. total = e["scope1And2"] /\ OrZero(e["scope1And2"]) = e["scope1And2"] /\ e["scope1And2"] \in Nat
      BY <1>0, <1>1, <1>2, <1>4, <2>2
    <3>2. total # NoNumber /\ total = Sum(e, {"scope1And2"})
      BY <3>1, SumOfOne, Sets
    <3>3. {"scope1And2"} \in SUBSET S /\ IsFiniteSet({"scope1And2"})
      BY <1>0, <1>2, <3>1, Sets
    <3>4. \A p \in S : p = "scope1And2"
      BY <1>0, <1>2, <1>4, <2>2, Sets
    <3>. QED
      BY <3>1, <3>2, <3>3, <3>4 DEF AddsUp, total, S
  <2>3. CASE e["scope1"] = NoNumber /\ e["scope1And2"] = NoNumber
    <3>1. total = NoNumber /\ OrZero(total) = 0 /\ Sum(e, {}) = 0
      BY <1>0, <1>1, <1>4, <2>3, SumOfNone
    <3>2. S = {}
      BY <1>0, <1>2, <1>4, <2>3, Sets
    <3>. QED
      BY <3>1, <3>2, Sets DEF AddsUp, total, S
  <2>. QED
    BY <2>1, <2>2, <2>3
<1>5. ASSUME NEW q \in Scope2, two = e[q], e[q] \in Nat
      PROVE  \E A : AddsUp(e, ScopePoints, A, total)
  <2>0. q \in ScopePoints /\ q # "scope1" /\ q # "scope1And2" /\ two # NoNumber /\ OrZero(e[q]) = e[q] /\ q \in S
    BY <1>0, <1>2, <1>3, <1>5, Sets
  <2>1. \A p \in Scope2 : Overlap(p, q)
    BY DEF Overlap
  <2>2. Overlap("scope1And2", q)
    BY DEF Overlap
  <2>3. CASE e["scope1"] # NoNumber
    <3>1. total = OrZero(e["scope1"]) + OrZero(e[q]) /\ OrZero(e["scope1"]) \in Nat /\ OrZero(e[q]) \in Nat
      BY <1>0, <1>1, <1>2, <1>5, <2>0
    <3>2. total = Sum(e, {"scope1", q})
      BY <2>0, <3>1, SumOfTwo
    <3>3. total \in Nat /\ OrZero(total) = total /\ total # NoNumber
      BY <3>1, Sets DEF OrZero, Or
    <3>4. {"scope1", q} \in SUBSET S /\ IsFiniteSet({"scope1", q})
      BY <1>0, <1>2, <2>0, <2>3, Sets
    <3>5. ~Overlap("scope1", q) /\ ~Overlap(q, "scope1")
      BY <1>3, <2>0, Sets DEF Overlap, ScopePoints, Scope2
    <3>6. \A p \in S \ {"scope1", q} : Overlap(p, q)
      BY <1>0, <1>2, <2>1, <2>2
    <3>. QED
      BY <3>2, <3>3, <3>4, <3>5, <3>6 DEF AddsUp, total, S
  <2>4. CASE e["scope1"] = NoNumber
    <3>1. total = e[q]
      BY <1>0, <1>1, <1>5, <2>0, <2>4
    <3>2. total = Sum(e, {q})
      BY <1>5, <2>0, <3>1, SumOfOne
    <3>3. {q} \in SUBSET S /\ IsFiniteSet({q}) /\ total \in Nat /\ OrZero(total) = total /\ total # NoNumber
      BY <1>5, <2>0, <3>1, Sets
    <3>4. \A p \in S \ {q} : Overlap(p, q)
      BY <1>0, <1>2, <2>1, <2>2, <2>4, Sets
    <3>. QED
      BY <3>2, <3>3, <3>4 DEF AddsUp, total, S
  <2>. QED
    BY <2>3, <2>4
<1>. QED
  BY <1>4, <1>5, Scope2Is DEF two, total

LEMMA Scope3Counted ==
    ASSUME NEW e, Emission(e)
    PROVE  \E B : AddsUp(e, Scope3Points, B, calculateScope3Total(e))
<1>. DEFINE total == calculateScope3Total(e)
            C == Numbers(e, Cats)
            S == Numbers(e, Scope3Points)
<1>0. /\ \A p \in Scope3Points : /\ OrZero(e[p]) \in Nat /\ (p \in S <=> e[p] \in Nat)
                                 /\ (e[p] \in Nat => OrZero(e[p]) = e[p])
      /\ OrZero(NoNumber) = 0 /\ S \subseteq Scope3Points
      /\ "scope3" \in Scope3Points /\ \A p \in Scope3Points : p = "scope3" \/ p \in Cats
  BY NumbersAre, Sets DEF Numbers, OrZero, Or, Scope3Points
<1>1. total = IF C # {} THEN Sum(e, Cats) ELSE IF e["scope3"] \in Nat THEN e["scope3"] ELSE NoNumber
  <2>1. e["scope3"] \in Nat <=> e["scope3"] \notin {NoNumber, Blank}
    BY <1>0, NumbersAre
  <2>. QED
    BY <2>1 DEF calculateScope3Total, Or
<1>2. C \subseteq S /\ C \subseteq Cats /\ \A p \in S : p = "scope3" \/ p \in C
  BY <1>0 DEF Numbers, Scope3Points
<1>3. IsFiniteSet(Cats) /\ IsFiniteSet(C)
  BY <1>2, Sets, FS_Subset
<1>. HIDE DEF total, C, S
<1>4. CASE C # {}
  <2>1. total = Sum(e, C)
    <3>1. Amounts(e, Cats)
      BY <1>0 DEF Amounts, Scope3Points
    <3>2. Sum(e, Cats) = Sum(e, C)
      BY <1>3, <3>1, SumOfNumbers DEF C
    <3>. QED
      BY <1>1, <1>4, <3>2
  <2>2. total \in Nat
    <3>1. Amounts(e, C)
      BY <1>0, <1>2 DEF Amounts
    <3>. QED
      BY <1>3, <2>1, <3>1, SumRules
  <2>3. OrZero(total) = total /\ total # NoNumber
    BY <2>2, Sets DEF OrZero, Or
  <2>4. \A p, q \in C : ~Overlap(p, q)
    BY <1>2, Sets DEF Overlap, ScopePoints, Scope2
  <2>5. \A p \in S \ C : \E q \in C : Overlap(p, q)
    <3>1. \A q \in C : Overlap("scope3", q)
      BY <1>2 DEF Overlap
    <3>. QED
      BY <1>2, <1>4, <3>1
  <2>. QED
    BY <1>2, <1>3, <1>4, <2>1, <2>2, <2>3, <2>4, <2>5 DEF AddsUp, S, total
<1>5. CASE C = {} /\ e["scope3"] \in Nat
  <2>1. total = e["scope3"] /\ OrZero(total) = total /\ total \in Nat /\ total # NoNumber
    BY <1>0, <1>1, <1>5, Sets
  <2>2. total = Sum(e, {"scope3"})
    BY <2>1, SumOfOne
  <2>3. S = {"scope3"} /\ IsFiniteSet({"scope3"})
    BY <1>0, <1>2, <1>5, Sets
  <2>. QED
    BY <2>1, <2>2, <2>3 DEF AddsUp, S, total
<1>6. CASE C = {} /\ e["scope3"] \notin Nat
  <2>1. total = NoNumber /\ OrZero(total) = 0 /\ Sum(e, {}) = 0 /\ S = {}
    BY <1>0, <1>1, <1>2, <1>6, SumOfNone
  <2>. QED
    BY <2>1, Sets DEF AddsUp, S, total
<1>. QED
  BY <1>4, <1>5, <1>6 DEF total

\* Whatever a period reports, its total counts every emission once.
CountsOnce(e) ==
    LET there == Numbers(e, Points)
        total == calculatedTotalEmissions(e)
    IN IF there = {} THEN total = NoNumber
       ELSE \E K \in SUBSET there :
                /\ K # {} /\ total = Sum(e, K)
                /\ \A p, q \in K : p # q => ~Overlap(p, q)
                /\ \A p \in there \ K : \E q \in K : Overlap(p, q)

LEMMA TotalCounts == ASSUME NEW e, Emission(e) PROVE CountsOnce(e)
<1>. DEFINE there == Numbers(e, Points)
            total == calculatedTotalEmissions(e)
            scopes == calculateScope1And2Total(e)
            scope3 == calculateScope3Total(e)
<1>1. PICK A : AddsUp(e, ScopePoints, A, scopes)
  BY ScopesCounted
<1>2. PICK B : AddsUp(e, Scope3Points, B, scope3)
  BY Scope3Counted
<1>3. total = IF scopes = NoNumber /\ scope3 = NoNumber THEN e["stated"] ELSE OrZero(scopes) + OrZero(scope3)
  BY DEF calculatedTotalEmissions
<1>. HIDE DEF total, scopes, scope3
<1>4. there = Numbers(e, ScopePoints) \cup Numbers(e, Scope3Points) \cup Numbers(e, {"stated"})
  BY DEF Numbers, Points, ScopePoints, Scope3Points
<1>5. /\ Numbers(e, ScopePoints) \subseteq ScopePoints /\ Numbers(e, Scope3Points) \subseteq Scope3Points
      /\ Numbers(e, {"stated"}) = IF e["stated"] \in Nat THEN {"stated"} ELSE {}
      /\ e["stated"] = NoNumber \/ e["stated"] \in Nat
  BY NumbersAre, Sets DEF Numbers
<1>6. /\ A \subseteq Numbers(e, ScopePoints) /\ B \subseteq Numbers(e, Scope3Points)
      /\ IsFiniteSet(A) /\ IsFiniteSet(B)
      /\ \A p \in Numbers(e, ScopePoints) \ A : \E q \in A : Overlap(p, q)
      /\ \A p \in Numbers(e, Scope3Points) \ B : \E q \in B : Overlap(p, q)
  BY <1>1, <1>2 DEF AddsUp
<1>7. \A p \in ScopePoints, q \in Scope3Points : p # q /\ ~Overlap(p, q) /\ ~Overlap(q, p)
  BY Sets DEF Overlap, ScopePoints, Scope3Points, Scope2
<1>. HIDE DEF there
<1>8. CASE A \cup B # {}
  <2>. DEFINE K == A \cup B
  <2>1. K \in SUBSET there /\ A \cap B = {}
    BY <1>4, <1>5, <1>6, <1>7
  <2>2. Amounts(e, A \cup B)
    <3>1. there \subseteq Points
      BY DEF there, Numbers
    <3>. QED
      BY <2>1, <3>1, NumbersAre
  <2>3. Sum(e, K) = Sum(e, A) + Sum(e, B)
    BY <1>6, <2>1, <2>2, SumOfBoth
  <2>4. total = OrZero(scopes) + OrZero(scope3)
    BY <1>1, <1>2, <1>3, <1>8 DEF AddsUp
  <2>5. OrZero(scopes) = Sum(e, A) /\ OrZero(scope3) = Sum(e, B)
    BY <1>1, <1>2 DEF AddsUp
  <2>6. \A p, q \in K : p # q => ~Overlap(p, q)
    <3>1. \A p, q \in A : p # q => ~Overlap(p, q)
      BY <1>1 DEF AddsUp
    <3>2. \A p, q \in B : p # q => ~Overlap(p, q)
      BY <1>2 DEF AddsUp
    <3>. QED
      BY <1>5, <1>6, <1>7, <3>1, <3>2
  <2>7. \A p \in there \ K : \E q \in K : Overlap(p, q)
    <3>1. \A q : Overlap("stated", q)
      BY DEF Overlap
    <3>2. ASSUME NEW p \in there \ K PROVE \E q \in K : Overlap(p, q)
      <4>1. CASE p = "stated"
        BY <1>8, <3>1, <4>1
      <4>2. CASE p \in Numbers(e, ScopePoints)
        BY <1>6, <3>2, <4>2
      <4>3. CASE p \in Numbers(e, Scope3Points)
        BY <1>6, <3>2, <4>3
      <4>. QED
        BY <1>4, <1>5, <3>2, <4>1, <4>2, <4>3
    <3>. QED
      BY <3>2
  <2>8. K # {} /\ total = Sum(e, K)
    BY <1>8, <2>3, <2>4, <2>5
  <2>. HIDE DEF K
  <2>9. there # {}
    BY <2>1, <2>8
  <2>. QED
    BY <2>1, <2>6, <2>7, <2>8, <2>9 DEF CountsOnce, there, total
<1>9. CASE A \cup B = {}
  <2>1. total = e["stated"]
    BY <1>1, <1>2, <1>3, <1>9 DEF AddsUp
  <2>2. there = Numbers(e, {"stated"})
    BY <1>4, <1>6, <1>9
  <2>3. CASE e["stated"] \in Nat
    <3>1. there = {"stated"} /\ total = Sum(e, {"stated"})
      <4>1. OrZero(e["stated"]) = e["stated"]
        BY <2>3, Sets DEF OrZero, Or
      <4>2. Sum(e, {"stated"}) = e["stated"]
        BY <2>3, <4>1, SumOfOne
      <4>. QED
        BY <1>5, <2>1, <2>2, <2>3, <4>2
    <3>. QED
      BY <3>1 DEF CountsOnce, there, total
  <2>4. CASE e["stated"] = NoNumber
    BY <1>5, <2>1, <2>2, <2>4, Sets DEF CountsOnce, there, total
  <2>. QED
    BY <1>5, <2>3, <2>4
<1>. QED
  BY <1>8, <1>9

\* Two periods that may be compared: the data points both have, less the scopes when one lacks them.
LikeForLike(e, f) ==
    LET scopes(d) == calculateScope1And2Total(d)
        both == Numbers(e, Cats \cup {"scope3"}) \cap Numbers(f, Cats \cup {"scope3"})
    IN (\A d \in {e, f} : /\ Complete(d) \/ scopes(d) = NoNumber
                          /\ Listed(d, Points) = Numbers(d, Points)) =>
           \E K \in SUBSET both, take \in {{}, {"scopes"}} :
              /\ "scope3" \in K => K = {"scope3"}
              /\ take # {} <=> scopes(e) # NoNumber /\ scopes(f) # NoNumber
              /\ calculateEmissionTotals(e, f) =
                    <<Sum(e, K) + (IF take = {} THEN 0 ELSE scopes(e)),
                      Sum(f, K) + (IF take = {} THEN 0 ELSE scopes(f))>>

LEMMA Scope3Compared ==
    ASSUME NEW e, NEW f, Emission(e), Emission(f), Listed(e, Points) = Numbers(e, Points),
           Listed(f, Points) = Numbers(f, Points)
    PROVE  \E K \in SUBSET (Numbers(e, Scope3Points) \cap Numbers(f, Scope3Points)) :
              /\ "scope3" \in K => K = {"scope3"}
              /\ calculateScope3EmissionsTotals(e, f) = <<Sum(e, K), Sum(f, K)>>
              /\ Sum(e, K) \in Nat /\ Sum(f, K) \in Nat
<1>. DEFINE both == Listed(e, Cats) \cap Listed(f, Cats)
            totals == calculateScope3EmissionsTotals(e, f)
            C == Listed(e, Cats) # {} /\ Listed(f, Cats) # {} /\ Sum(e, Cats) + Sum(f, Cats) > 0
            S == Numbers(e, Scope3Points) \cap Numbers(f, Scope3Points)
<1>0. /\ \A p \in Scope3Points : /\ p \in Numbers(e, Scope3Points) <=> e[p] # NoNumber
                                 /\ p \in Numbers(f, Scope3Points) <=> f[p] # NoNumber
      /\ \A p \in Scope3Points : OrZero(e[p]) \in Nat /\ OrZero(f[p]) \in Nat
      /\ Cats \subseteq Scope3Points /\ "scope3" \in Scope3Points
  <2>1. Scope3Points \subseteq Points
    BY NumbersAre
  <2>2. \A d \in {e, f}, p \in Scope3Points : p \in Numbers(d, Scope3Points) <=> d[p] # NoNumber
    BY <2>1 DEF Numbers, Listed
  <2>3. \A p \in Scope3Points : OrZero(e[p]) \in Nat /\ OrZero(f[p]) \in Nat
    BY <2>1, NumbersAre
  <2>. QED
    BY <2>2, <2>3 DEF Scope3Points
<1>1. totals = IF C THEN <<Sum(e, both), Sum(f, both)>>
               ELSE IF e["scope3"] # NoNumber /\ f["scope3"] # NoNumber
                    THEN <<OrZero(e["scope3"]), OrZero(f["scope3"])>> ELSE <<0, 0>>
  BY DEF calculateScope3EmissionsTotals
<1>2. both \in SUBSET S /\ both \subseteq Cats
  BY <1>0 DEF Listed
<1>. HIDE DEF both, C, totals, S
<1>3. CASE C
  <2>1. IsFiniteSet(both) /\ Amounts(e, both) /\ Amounts(f, both) /\ "scope3" \notin both
    BY <1>0, <1>2, FS_Subset, Sets DEF Amounts
  <2>2. Sum(e, both) \in Nat /\ Sum(f, both) \in Nat
    BY <2>1, SumRules
  <2>. QED
    BY <1>1, <1>2, <1>3, <2>1, <2>2 DEF totals, S
<1>4. CASE ~C /\ e["scope3"] # NoNumber /\ f["scope3"] # NoNumber
  <2>1. Sum(e, {"scope3"}) = OrZero(e["scope3"]) /\ Sum(f, {"scope3"}) = OrZero(f["scope3"])
    BY <1>0, SumOfOne
  <2>2. {"scope3"} \in SUBSET S /\ OrZero(e["scope3"]) \in Nat /\ OrZero(f["scope3"]) \in Nat
    BY <1>0, <1>4 DEF S
  <2>. QED
    BY <1>1, <1>4, <2>1, <2>2 DEF totals, S
<1>5. CASE ~C /\ ~(e["scope3"] # NoNumber /\ f["scope3"] # NoNumber)
  <2>1. totals = <<Sum(e, {}), Sum(f, {})>> /\ Sum(e, {}) \in Nat /\ Sum(f, {}) \in Nat
    BY <1>1, <1>5, SumOfNone
  <2>. QED
    BY <2>1 DEF totals, S
<1>. QED
  BY <1>3, <1>4, <1>5

LEMMA ComparesLike == ASSUME NEW e, NEW f, Emission(e), Emission(f) PROVE LikeForLike(e, f)
<1>. SUFFICES ASSUME Listed(e, Points) = Numbers(e, Points), Listed(f, Points) = Numbers(f, Points)
              PROVE  LikeForLike(e, f)
  BY DEF LikeForLike
<1>. DEFINE s == calculateScope1And2Total(e)
            t == calculateScope1And2Total(f)
            scope3 == calculateScope3EmissionsTotals(e, f)
            S == Numbers(e, Scope3Points) \cap Numbers(f, Scope3Points)
<1>1. s \in Nat \cup {NoNumber} /\ t \in Nat \cup {NoNumber}
  BY ScopesCounted DEF AddsUp
<1>2. PICK K \in SUBSET S :
          /\ "scope3" \in K => K = {"scope3"}
          /\ scope3 = <<Sum(e, K), Sum(f, K)>> /\ Sum(e, K) \in Nat /\ Sum(f, K) \in Nat
  BY Scope3Compared
<1>3. calculateEmissionTotals(e, f) = IF s # NoNumber /\ t # NoNumber THEN <<s + scope3[1], t + scope3[2]>> ELSE scope3
  BY DEF calculateEmissionTotals
<1>4. S = Numbers(e, Cats \cup {"scope3"}) \cap Numbers(f, Cats \cup {"scope3"})
  <2>1. Scope3Points = Cats \cup {"scope3"}
    BY DEF Scope3Points
  <2>. QED
    BY <2>1
<1>. DEFINE take == IF s # NoNumber /\ t # NoNumber THEN {"scopes"} ELSE {}
<1>. HIDE DEF s, t, scope3, S
<1>5. take \in {{}, {"scopes"}} /\ (take # {} <=> s # NoNumber /\ t # NoNumber)
  OBVIOUS
<1>6. calculateEmissionTotals(e, f) =
          <<Sum(e, K) + (IF take = {} THEN 0 ELSE s), Sum(f, K) + (IF take = {} THEN 0 ELSE t)>>
  <2>1. CASE s # NoNumber /\ t # NoNumber
    <3>1. s + Sum(e, K) = Sum(e, K) + s /\ t + Sum(f, K) = Sum(f, K) + t
      BY <1>1, <1>2, <2>1
    <3>. QED
      BY <1>2, <1>3, <2>1, <3>1
  <2>2. CASE ~(s # NoNumber /\ t # NoNumber)
    <3>1. Sum(e, K) + 0 = Sum(e, K) /\ Sum(f, K) + 0 = Sum(f, K)
      BY <1>2
    <3>. QED
      BY <1>2, <1>3, <2>2, <3>1
  <2>. QED
    BY <2>1, <2>2
<1>. HIDE DEF take
<1>. QED
  BY <1>2, <1>4, <1>5, <1>6 DEF LikeForLike, s, t

-----------------------------------------------------------------------------

TotalsShape == \A y \in DOMAIN periods : Emission(periods[y])

LEMMA TrendIsDrawn == TrendDoesNotMix
<1>. DEFINE type == determineEmissionsType
            points == {y \in extractEmissionsArray(type) : calculatedTotalEmissions(periods[y]) # NoNumber}
<1>. SUFFICES ASSUME calculateFutureEmissionTrend # {} PROVE TrendDoesNotMix
  BY DEF TrendDoesNotMix
<1>1. calculateFutureEmissionTrend = points /\ type # "none" /\ Cardinality(points) >= 3
  BY DEF calculateFutureEmissionTrend
<1>2. /\ baseYear = NoNumber \/ baseYear \in FromBaseYear
      /\ type = "scope3" \/ (type = "scope1and2" /\ Cardinality(getValidDataPeriods("scope1and2")) >= 3)
  BY <1>1 DEF determineEmissionsType
<1>3. points \subseteq FromBaseYear /\ \A y \in points : type = "scope3" => hasScope3Data(periods[y])
  BY DEF extractEmissionsArray
<1>4. \A y, z \in points : hasScope3Data(periods[y]) <=> hasScope3Data(periods[z])
  <2>1. CASE type = "scope3"
    BY <1>3, <2>1
  <2>2. CASE type = "scope1and2" /\ Cardinality(getValidDataPeriods("scope1and2")) >= 3
    <3>1. getValidDataPeriods("scope1and2") # {}
      BY <2>2, FS_EmptySet
    <3>2. \A y \in FromBaseYear : ~hasScope3Data(periods[y])
      BY <3>1 DEF getValidDataPeriods
    <3>. QED
      BY <1>3, <3>2
  <2>. QED
    BY <1>2, <2>1, <2>2
<1>5. \A y \in points : baseYear # NoNumber => y >= baseYear /\ baseYear \in DOMAIN periods
  BY <1>2, <1>3 DEF FromBaseYear
<1>. HIDE DEF points, type
<1>. QED
  BY <1>1, <1>4, <1>5 DEF TrendDoesNotMix

LEMMA TotalsShapeStep == TotalsShape /\ [TotalsNext]_evars => TotalsShape'
<1>. SUFFICES ASSUME TotalsShape, [TotalsNext]_evars PROVE TotalsShape'
  OBVIOUS
<1>1. CASE UNCHANGED evars
  BY <1>1 DEF TotalsShape, evars
<1>2. ASSUME NEW y \in Years, ReportPeriod(y) PROVE TotalsShape'
  <2>1. PICK e \in Reported[y] :
            periods' = [z \in DOMAIN periods \cup {y} |-> IF z = y THEN e ELSE periods[z]]
    BY <1>2 DEF ReportPeriod
  <2>2. Emission(e)
    BY <2>1, TotalsAssumption DEF Emission
  <2>. QED
    BY <2>1, <2>2 DEF TotalsShape
<1>. QED
  BY <1>1, <1>2 DEF TotalsNext

LEMMA TotalsShapeImplies == TotalsShape => EmissionsAreFair
<1>. SUFFICES ASSUME TotalsShape PROVE EmissionsAreFair
  OBVIOUS
<1>1. TotalCountsOnce
  <2>1. \A y \in DOMAIN periods : CountsOnce(periods[y]) /\ addCalculatedTotalEmissions[y] = calculatedTotalEmissions(periods[y])
    BY TotalCounts DEF TotalsShape, addCalculatedTotalEmissions
  <2>. QED
    BY <2>1 DEF TotalCountsOnce, CountsOnce
<1>2. AdjustedIsLikeForLike
  <2>1. \A pair \in addEmissionTrendsToReportingPeriods : LikeForLike(periods[pair[1]], periods[pair[2]])
    BY ComparesLike DEF TotalsShape, addEmissionTrendsToReportingPeriods
  <2>. QED
    BY <2>1 DEF AdjustedIsLikeForLike, LikeForLike
<1>. QED
  BY <1>1, <1>2, TrendIsDrawn DEF EmissionsAreFair

\* Totals count nothing twice and leave nothing out, changes compare what both periods report and
\* trends do not mix years with and without scope 3.
THEOREM EmissionsFair == TotalsSpec => []EmissionsAreFair
<1>1. TotalsInit => TotalsShape
  BY DEF TotalsInit, TotalsShape
<1>. QED
  BY <1>1, TotalsShapeStep, TotalsShapeImplies, PTL DEF TotalsSpec
-----------------------------------------------------------------------------
(* Folds over finite sets *)

FoldsBy(f, S, base, Grow) ==
    \A s \in SUBSET S : f[s] = IF s = {} THEN base ELSE Grow[<<OneOf(s), f[s \ {OneOf(s)}]>>]

\* A fold takes one element after another: the function it is the last value of exists.
LEMMA SetFold ==
    ASSUME NEW S, IsFiniteSet(S), NEW V, NEW base \in V, NEW Grow \in [S \X V -> V]
    PROVE  \E f \in [SUBSET S -> V] : FoldsBy(f, S, base, Grow)
<1>. DEFINE Small(m) == {s \in SUBSET S : Cardinality(s) < m}
            Folds(f, m) == /\ f \in [Small(m) -> V]
                           /\ \A s \in Small(m) :
                                f[s] = IF s = {} THEN base ELSE Grow[<<OneOf(s), f[s \ {OneOf(s)}]>>]
            Bad == {m \in Nat : ~ \E f : Folds(f, m)}
<1>0. \A s \in SUBSET S : /\ Cardinality(s) \in Nat /\ Cardinality(s) <= Cardinality(S)
                          /\ \A x \in s : Cardinality(s \ {x}) = Cardinality(s) - 1 /\ Cardinality(s) # 0
  BY FiniteBelow
<1>1. \A s \in SUBSET S : s # {} => OneOf(s) \in s
  BY DEF OneOf
<1>2. Bad = {}
  <2>. SUFFICES ASSUME Bad # {} PROVE FALSE
    OBVIOUS
  <2>1. PICK m \in Bad : \A k \in Bad : m <= k
    <3>1. Bad \in SUBSET Nat
      OBVIOUS
    <3>. HIDE DEF Bad
    <3>. QED
      BY <3>1, Least
  <2>2. m # 0
    <3>1. Small(0) = {}
      BY <1>0
    <3>. HIDE DEF Small
    <3>2. Folds([s \in {} |-> base], 0)
      BY <3>1
    <3>. QED
      BY <3>2
  <2>3. m \in Nat /\ m - 1 \in Nat /\ m - 1 \notin Bad
    <3>. HIDE DEF Small, Folds
    <3>1. m \in Nat /\ m - 1 \in Nat /\ ~(m <= m - 1)
      BY <2>2
    <3>. QED
      BY <2>1, <3>1
  <2>4. PICK f : Folds(f, m - 1)
    <3>. HIDE DEF Folds
    <3>. QED
      BY <2>3
  <2>. DEFINE g == [s \in Small(m) |-> IF s = {} THEN base ELSE Grow[<<OneOf(s), f[s \ {OneOf(s)}]>>]]
  <2>5. ASSUME NEW s \in Small(m), s # {}
        PROVE  OneOf(s) \in S /\ s \ {OneOf(s)} \in Small(m - 1)
    <3>1. OneOf(s) \in s /\ s \in SUBSET S /\ Cardinality(s) < m
      BY <1>1, <2>5
    <3>2. Cardinality(s \ {OneOf(s)}) = Cardinality(s) - 1 /\ Cardinality(s) \in Nat
      BY <1>0, <3>1
    <3>3. s \ {OneOf(s)} \in SUBSET S
      OBVIOUS
    <3>. QED
      BY <2>3, <3>1, <3>2, <3>3
  <2>6. \A s \in Small(m - 1) : s \in Small(m)
    BY <1>0, <2>3
  <2>. HIDE DEF Small
  <2>7. \A s \in Small(m - 1) : f[s] = g[s]
    BY <2>4, <2>6
  <2>8. \A s \in Small(m) : g[s] \in V
    BY <2>4, <2>5
  <2>9. Folds(g, m)
    <3>1. g \in [Small(m) -> V]
      BY <2>8
    <3>2. \A s \in Small(m) : g[s] = IF s = {} THEN base ELSE Grow[<<OneOf(s), g[s \ {OneOf(s)}]>>]
      BY <2>5, <2>7
    <3>. QED
      BY <3>1, <3>2
  <2>. QED
    BY <2>9, <2>1
<1>3. Cardinality(S) + 1 \in Nat /\ \A s \in SUBSET S : Cardinality(s) < Cardinality(S) + 1
  <2>1. S \in SUBSET S
    OBVIOUS
  <2>2. Cardinality(S) \in Nat
    BY <1>0, <2>1
  <2>. QED
    BY <1>0, <2>2
<1>4. SUBSET S = Small(Cardinality(S) + 1)
  BY <1>3
<1>5. PICK f : Folds(f, Cardinality(S) + 1)
  <2>. HIDE DEF Folds
  <2>. QED
    BY <1>2, <1>3
<1>. HIDE DEF Small
<1>6. f \in [SUBSET S -> V]
  BY <1>4, <1>5
<1>7. FoldsBy(f, S, base, Grow)
  BY <1>4, <1>5 DEF FoldsBy
<1>. QED
  BY <1>6, <1>7

-----------------------------------------------------------------------------
(* WikidataClaims: what is reported of a period *)

IsAdded(f, d, D) == f = [s \in D |-> IF s = {} THEN 0 ELSE f[s \ {OneOf(s)}] + ValueOf(d[OneOf(s)])]
AddedOf(d, S) == CHOOSE f : IsAdded(f, d, SUBSET S)

LEMMA AddedIs == ASSUME NEW d, NEW S PROVE Added(S, d) = AddedOf(d, S)[S]
BY Zenon DEF Added, FoldSet, MapThenFoldSet, AddedOf, IsAdded, OneOf

LEMMA AddedIsANumber ==
    ASSUME NEW d \in ReportsOf
    PROVE  Added(Categories, d) \in Nat
<1>. DEFINE C == Categories
            Grow == [a \in C \X Nat |-> a[2] + ValueOf(d[a[1]])]
<1>1. IsFiniteSet(C) /\ \A k \in C : ValueOf(d[k]) \in Nat
  BY ClaimsAssumption DEF ValueOf, Inputs
<1>2. Grow \in [C \X Nat -> Nat] /\ \A k \in C, v \in Nat : Grow[<<k, v>>] = v + ValueOf(d[k])
  BY <1>1
<1>. HIDE DEF Grow, C
<1>3. PICK f \in [SUBSET C -> Nat] : FoldsBy(f, C, 0, Grow)
  <2>1. IsFiniteSet(C) /\ 0 \in Nat /\ Grow \in [C \X Nat -> Nat]
    BY <1>1, <1>2
  <2>. QED
    BY <2>1, SetFold
<1>4. ASSUME NEW s \in SUBSET C, s # {} PROVE f[s] = f[s \ {OneOf(s)}] + ValueOf(d[OneOf(s)])
  <2>1. OneOf(s) \in C /\ s \ {OneOf(s)} \in SUBSET C
    BY <1>4 DEF OneOf
  <2>2. f[s \ {OneOf(s)}] \in Nat
    BY <2>1
  <2>. QED
    BY <1>2, <1>3, <1>4, <2>1, <2>2 DEF FoldsBy
<1>5. IsAdded(f, d, SUBSET C)
  BY <1>3, <1>4 DEF IsAdded, FoldsBy
<1>. DEFINE g == AddedOf(d, C)
            G == {s \in SUBSET C : g[s] \in Nat}
<1>6. IsAdded(g, d, SUBSET C)
  BY <1>5 DEF AddedOf
<1>. HIDE DEF g
<1>7. {} \in G
  BY <1>6 DEF IsAdded
<1>8. ASSUME NEW s \in SUBSET C, s # {}, \A x \in s : s \ {x} \in G PROVE s \in G
  <2>1. OneOf(s) \in s
    BY <1>8 DEF OneOf
  <2>2. g[s] = g[s \ {OneOf(s)}] + ValueOf(d[OneOf(s)])
    BY <1>6, <1>8 DEF IsAdded
  <2>3. g[s \ {OneOf(s)}] \in Nat /\ ValueOf(d[OneOf(s)]) \in Nat
    BY <1>1, <1>8, <2>1
  <2>. QED
    BY <2>2, <2>3
<1>. HIDE DEF G
<1>9. SUBSET C \subseteq G
  BY <1>1, <1>7, <1>8, BySubsets
<1>10. C \in G
  BY <1>9
<1>. QED
  BY <1>10, AddedIs DEF G, g, C

\* The claims of a period: one of a kind, of its end.
LEMMA ClaimsAre ==
    ASSUME NEW p \in Period
    PROVE  LET C == transformEmissionsToClaims(p)
           IN  /\ IsFiniteSet(C)
               /\ C \subseteq Claim
               /\ \A c \in C : c.start = 1 /\ c.end = p.end /\ c.kind # "total"
               /\ \A c, d \in C : c.kind = d.kind => c = d
               /\ calculateTotalEmissions(p) \in Nat
               /\ Of("total", calculateTotalEmissions(p), p.end) \in Claim
<1>. DEFINE d == p.emissions
            K == {k \in Scopes : d[k] \notin {Unreported, 0}} \cup {k \in Categories : d[k] # Unreported}
            A == {Of(k, d[k], p.end) : k \in K}
            B == IF Scope3(d) # Unreported THEN {Of("scope3", Scope3(d), p.end)} ELSE {}
            C == transformEmissionsToClaims(p)
<1>1. C = A \cup B
  BY DEF transformEmissionsToClaims
<1>2. d \in ReportsOf /\ p.end \in Ends /\ d \in [Inputs -> Nat \cup {Unreported}]
  BY ClaimsAssumption DEF Period
<1>3. Scope3(d) \in Nat \cup {Unreported}
  <2>1. d["stated"] \in Nat \cup {Unreported}
    BY <1>2 DEF Inputs
  <2>. QED
    BY <1>2, <2>1, AddedIsANumber DEF Scope3
<1>. HIDE DEF d
<1>4. K \subseteq ClaimKinds /\ "scope3" \notin K /\ "total" \notin K /\ \A k \in K : d[k] \in Nat
  BY <1>2, ClaimsAssumption DEF ClaimKinds, Inputs, Scopes
<1>5. IsFiniteSet(K)
  <2>1. Scopes = {"scope1", "mb", "lb", "unknown"} /\ IsFiniteSet(Categories)
    BY ClaimsAssumption DEF Scopes
  <2>2. IsFiniteSet({"scope1"} \cup {"mb"} \cup {"lb"} \cup {"unknown"})
    BY FS_Singleton, FS_Union
  <2>3. IsFiniteSet(Scopes \cup Categories)
    BY <2>1, <2>2, FS_Union
  <2>4. K \in SUBSET (Scopes \cup Categories)
    OBVIOUS
  <2>. QED
    BY <2>3, <2>4, FS_Subset
<1>. HIDE DEF K
<1>6. IsFiniteSet(A)
  <2>. DEFINE f == [k \in K |-> Of(k, d[k], p.end)]
  <2>1. f \in Surjection(K, A)
    BY DEF Surjection
  <2>. QED
    BY <1>5, <2>1, FS_Surjection
<1>7. IsFiniteSet(B)
  BY FS_Singleton, FS_EmptySet
<1>8. IsFiniteSet(C)
  BY <1>1, <1>6, <1>7, FS_Union
<1>9. \A c \in A : /\ c.kind \in K /\ c = Of(c.kind, d[c.kind], p.end)
                   /\ c.start = 1 /\ c.end = p.end /\ c \in Claim
  BY <1>2, <1>4 DEF Of, Claim
<1>10. \A c \in B : c.kind = "scope3" /\ c = Of("scope3", Scope3(d), p.end) /\ c.start = 1 /\ c.end = p.end /\ c \in Claim
  BY <1>2, <1>3 DEF Of, Claim, ClaimKinds
<1>11. calculateTotalEmissions(p) \in Nat
  <2>1. \A n \in Nat \cup {Unreported} : ValueOf(n) \in Nat
    BY DEF ValueOf
  <2>2. Preferred(d) \in Inputs /\ "scope1" \in Inputs
    BY DEF Preferred, Inputs, Scopes
  <2>3. ValueOf(d["scope1"]) \in Nat /\ ValueOf(d[Preferred(d)]) \in Nat /\ ValueOf(Scope3(d)) \in Nat
    BY <1>2, <1>3, <2>1, <2>2
  <2>. QED
    BY <2>3 DEF calculateTotalEmissions, d
<1>12. Of("total", calculateTotalEmissions(p), p.end) \in Claim
  BY <1>2, <1>11 DEF Of, Claim, ClaimKinds
<1>. HIDE DEF A, B
<1>13. \A c \in C : c.start = 1 /\ c.end = p.end /\ c.kind # "total" /\ c \in Claim
  BY <1>1, <1>4, <1>9, <1>10
<1>14. \A c, e \in C : c.kind = e.kind => c = e
  BY <1>1, <1>4, <1>9, <1>10
<1>. QED
  BY <1>8, <1>11, <1>12, <1>13, <1>14

-----------------------------------------------------------------------------
(* WikidataClaims: the ids of what is added *)

\* Among finitely many, one has the greatest number.
LEMMA GreatestIs ==
    ASSUME NEW S, IsFiniteSet(S), S # {}, NEW n, \A x \in S : n[x] \in Nat
    PROVE  \E x \in S : \A y \in S : n[y] <= n[x]
<1>. DEFINE G == {s \in SUBSET S : s # {} => \E x \in s : \A y \in s : n[y] <= n[x]}
<1>1. {} \in G
  OBVIOUS
<1>2. ASSUME NEW s \in SUBSET S, s # {}, \A x \in s : s \ {x} \in G PROVE s \in G
  <2>1. PICK x \in s : TRUE
    BY <1>2
  <2>2. CASE s \ {x} = {}
    <3>1. \A y \in s : n[y] <= n[x]
      BY <2>1, <2>2
    <3>. QED
      BY <2>1, <3>1
  <2>3. CASE s \ {x} # {}
    <3>1. PICK z \in s \ {x} : \A y \in s \ {x} : n[y] <= n[z]
      BY <1>2, <2>1, <2>3
    <3>2. n[x] \in Nat /\ n[z] \in Nat
      BY <2>1, <3>1
    <3>3. CASE n[x] <= n[z]
      <4>1. \A y \in s : n[y] <= n[z]
        BY <3>1, <3>3
      <4>. QED
        BY <3>1, <4>1
    <3>4. CASE ~(n[x] <= n[z])
      <4>1. \A y \in s : n[y] <= n[x]
        <5>1. ASSUME NEW y \in s PROVE n[y] <= n[x]
          <6>1. n[y] \in Nat
            BY <5>1
          <6>2. CASE y = x
            BY <3>2, <6>2
          <6>3. CASE y # x
            BY <3>1, <3>2, <3>4, <6>1, <6>3
          <6>. QED
            BY <6>2, <6>3
        <5>. QED
          BY <5>1
      <4>. QED
        BY <2>1, <4>1
    <3>. QED
      BY <3>3, <3>4
  <2>. QED
    BY <2>2, <2>3
<1>. HIDE DEF G
<1>3. SUBSET S \subseteq G
  BY <1>1, <1>2, BySubsets
<1>4. S \in G
  BY <1>3
<1>. QED
  BY <1>4 DEF G

Marked(c, i) == [id |-> i, kind |-> c.kind, start |-> c.start, end |-> c.end, value |-> c.value]
OnItems == [id : Nat, kind : ClaimKinds, start : 1..2, end : Ends, value : Nat]
TopId == IF item = {} THEN 0 ELSE Max({e.id : e \in item})

LEMMA TopIsLast ==
    ASSUME ItemOK(item)
    PROVE  TopId \in Nat /\ \A e \in item : e.id <= TopId
<1>1. CASE item = {}
  BY <1>1 DEF TopId
<1>2. CASE item # {}
  <2>. DEFINE n == [e \in item |-> e.id]
              M == {e.id : e \in item}
  <2>1. IsFiniteSet(item) /\ \A e \in item : n[e] \in Nat /\ n[e] = e.id
    BY DEF ItemOK
  <2>2. PICK x \in item : \A y \in item : n[y] <= n[x]
    <3>. HIDE DEF n
    <3>. QED
      BY <1>2, <2>1, GreatestIs
  <2>3. x.id \in M /\ \A m \in M : x.id >= m /\ m \in Nat
    BY <2>1, <2>2
  <2>. HIDE DEF M
  <2>4. Max(M) \in M /\ \A m \in M : Max(M) >= m
    BY <2>3 DEF Max
  <2>5. TopId = Max(M) /\ \A e \in item : e.id \in M
    BY <1>2 DEF TopId, M
  <2>6. \A e \in item : e.id \in Nat /\ e.id \in M
    BY <2>3, <2>5
  <2>7. Max(M) \in Nat
    BY <2>3, <2>4
  <2>. QED
    BY <2>4, <2>5, <2>6, <2>7
<1>. QED
  BY <1>1, <1>2

IsPut(f, top, D) ==
    f = [s \in D |-> IF s = {} THEN {}
                     ELSE f[s \ {OneOf(s)}]
                          \cup {Marked(OneOf(s)[1], top + 1 + Cardinality(f[s \ {OneOf(s)}]))}]
PutOf(top, S) == CHOOSE f : IsPut(f, top, SUBSET S)

LEMMA NumberedIs == ASSUME NEW S PROVE Numbered(S) = PutOf(TopId, S)[S]
BY Zenon DEF Numbered, FoldSet, MapThenFoldSet, PutOf, IsPut, OneOf, Marked, TopId

\* Every copy gets an id of its own, after the last one on the item.
LEMMA NumberedRight ==
    ASSUME ItemOK(item), NEW S, IsFiniteSet(S), S \subseteq Claim \X Nat
    PROVE  \E i \in [S -> Nat] :
              /\ \A c \in S : i[c] > TopId
              /\ \A c, d \in S : i[c] = i[d] => c = d
              /\ Numbered(S) = {Marked(c[1], i[c]) : c \in S}
              /\ IsFiniteSet(Numbered(S))
<1>. DEFINE top == TopId
            V == {N \in SUBSET OnItems : IsFiniteSet(N)}
            Grow == [a \in S \X V |-> a[2] \cup {Marked(a[1][1], top + 1 + Cardinality(a[2]))}]
<1>1. top \in Nat
  BY TopIsLast
<1>. HIDE DEF top
<1>2. ASSUME NEW c \in S, NEW N \in V
      PROVE  /\ Cardinality(N) \in Nat
             /\ N \cup {Marked(c[1], top + 1 + Cardinality(N))} \in V
             /\ Grow[<<c, N>>] = N \cup {Marked(c[1], top + 1 + Cardinality(N))}
  <2>1. IsFiniteSet(N) /\ Cardinality(N) \in Nat
    BY FS_CardinalityType
  <2>2. c[1] \in Claim /\ top + 1 + Cardinality(N) \in Nat
    BY <1>1, <2>1
  <2>3. Marked(c[1], top + 1 + Cardinality(N)) \in OnItems
    BY <2>2 DEF Marked, OnItems, Claim
  <2>4. IsFiniteSet(N \cup {Marked(c[1], top + 1 + Cardinality(N))})
    BY <2>1, FS_AddElement
  <2>. QED
    BY <2>1, <2>3, <2>4
<1>3. Grow \in [S \X V -> V] /\ {} \in V
  <2>1. \A a \in S \X V : Grow[a] \in V
    <3>1. ASSUME NEW a \in S \X V PROVE Grow[a] \in V
      <4>1. a = <<a[1], a[2]>> /\ a[1] \in S /\ a[2] \in V
        OBVIOUS
      <4>2. Grow[<<a[1], a[2]>>] \in V
        <5>. HIDE DEF Grow, V
        <5>. QED
          BY <1>2, <4>1
      <4>. QED
        BY <4>1, <4>2
    <3>. QED
      BY <3>1
  <2>2. {} \in V
    BY FS_EmptySet
  <2>. QED
    BY <2>1, <2>2
<1>. HIDE DEF Grow, V
<1>4. PICK h \in [SUBSET S -> V] : FoldsBy(h, S, {}, Grow)
  BY <1>3, SetFold
<1>5. IsPut(h, top, SUBSET S)
  <2>1. ASSUME NEW s \in SUBSET S
        PROVE  h[s] = IF s = {} THEN {}
                      ELSE h[s \ {OneOf(s)}] \cup {Marked(OneOf(s)[1], top + 1 + Cardinality(h[s \ {OneOf(s)}]))}
    <3>1. CASE s = {}
      BY <1>4, <3>1 DEF FoldsBy
    <3>2. CASE s # {}
      <4>1. OneOf(s) \in S /\ s \ {OneOf(s)} \in SUBSET S
        BY <3>2 DEF OneOf
      <4>2. h[s \ {OneOf(s)}] \in V /\ h[s] = Grow[<<OneOf(s), h[s \ {OneOf(s)}]>>]
        BY <1>4, <3>2, <4>1 DEF FoldsBy
      <4>. QED
        BY <1>2, <3>2, <4>1, <4>2
    <3>. QED
      BY <3>1, <3>2
  <2>. QED
    BY <1>4, <2>1 DEF IsPut
<1>. DEFINE f == PutOf(top, S)
            Good(s, i) == /\ i \in [s -> Nat]
                          /\ \A c \in s : i[c] > top /\ i[c] <= top + Cardinality(s)
                          /\ \A c, d \in s : i[c] = i[d] => c = d
                          /\ f[s] = {Marked(c[1], i[c]) : c \in s}
                          /\ IsFiniteSet(f[s]) /\ Cardinality(f[s]) = Cardinality(s)
            G == {s \in SUBSET S : \E i : Good(s, i)}
<1>6. IsPut(f, top, SUBSET S)
  BY <1>5 DEF PutOf
<1>. HIDE DEF f
<1>13. \A s \in SUBSET S : s # {} =>
          f[s] = f[s \ {OneOf(s)}] \cup {Marked(OneOf(s)[1], top + 1 + Cardinality(f[s \ {OneOf(s)}]))}
  BY <1>6 DEF IsPut
<1>7. {} \in G
  <2>1. f[{}] = {} /\ IsFiniteSet({}) /\ Cardinality({}) = 0
    BY <1>6, FS_EmptySet DEF IsPut
  <2>2. Good({}, [c \in {} |-> 0])
    BY <2>1
  <2>. QED
    BY <2>2
<1>8. ASSUME NEW s \in SUBSET S, s # {}, \A x \in s : s \ {x} \in G PROVE s \in G
  <2>. DEFINE x == OneOf(s)
              r == s \ {x}
              n == Cardinality(r)
  <2>1. x \in s
    BY <1>8 DEF OneOf
  <2>2. f[s] = f[r] \cup {Marked(x[1], top + 1 + Cardinality(f[r]))}
    BY <1>8, <1>13
  <2>. HIDE DEF x
  <2>3. PICK i : Good(r, i)
    <3>1. r \in G
      BY <1>8, <2>1
    <3>. QED
      BY <3>1
  <2>4. Cardinality(s) = n + 1 /\ n \in Nat
    <3>1. \A y \in s : Cardinality(s \ {y}) = Cardinality(s) - 1 /\ Cardinality(s) \in Nat /\ Cardinality(r) \in Nat
      BY FiniteBelow
    <3>. QED
      BY <2>1, <3>1
  <2>. HIDE DEF n
  <2>5. /\ i \in [r -> Nat] /\ \A c \in r : i[c] > top /\ i[c] <= top + n
        /\ \A c, d \in r : i[c] = i[d] => c = d
        /\ f[r] = {Marked(c[1], i[c]) : c \in r}
        /\ IsFiniteSet(f[r]) /\ Cardinality(f[r]) = n
    BY <2>3 DEF n
  <2>. DEFINE k == [c \in s |-> IF c = x THEN top + 1 + n ELSE i[c]]
  <2>6. k[x] = top + 1 + n /\ top + 1 + n \in Nat /\ \A c \in r : k[c] = i[c] /\ c # x /\ i[c] \in Nat
    BY <1>1, <2>1, <2>4, <2>5
  <2>7. \A c \in s : c = x \/ c \in r
    OBVIOUS
  <2>8. k \in [s -> Nat]
    BY <2>6, <2>7
  <2>9. \A c \in s : k[c] > top /\ k[c] <= top + (n + 1)
    BY <1>1, <2>4, <2>5, <2>6, <2>7
  <2>10. \A c, d \in s : k[c] = k[d] => c = d
    <3>1. \A c \in r : k[c] # k[x]
      BY <1>1, <2>4, <2>5, <2>6
    <3>. HIDE DEF k
    <3>. QED
      BY <2>5, <2>6, <2>7, <3>1
  <2>11. f[s] = {Marked(c[1], k[c]) : c \in s}
    <3>. HIDE DEF k, r
    <3>1. r \subseteq s /\ x \in s
      BY <2>1 DEF r
    <3>2. f[s] = {Marked(c[1], i[c]) : c \in r} \cup {Marked(x[1], k[x])}
      BY <2>2, <2>5, <2>6
    <3>3. {Marked(c[1], i[c]) : c \in r} = {Marked(c[1], k[c]) : c \in r}
      BY <2>6
    <3>4. {Marked(c[1], k[c]) : c \in s} = {Marked(c[1], k[c]) : c \in r} \cup {Marked(x[1], k[x])}
      BY <2>7, <3>1
    <3>. QED
      BY <3>2, <3>3, <3>4
  <2>12. Marked(x[1], top + 1 + n) \notin f[r]
    <3>1. \A c, j : Marked(c, j).id = j
      BY DEF Marked
    <3>2. ASSUME NEW c \in r, Marked(c[1], i[c]) = Marked(x[1], top + 1 + n) PROVE FALSE
      <4>1. i[c] = top + 1 + n /\ i[c] <= top + n /\ i[c] \in Nat
        BY <2>5, <3>1, <3>2
      <4>. QED
        BY <1>1, <2>4, <4>1
    <3>. QED
      BY <2>5, <3>2
  <2>13. IsFiniteSet(f[s]) /\ Cardinality(f[s]) = n + 1
    <3>1. f[s] = f[r] \cup {Marked(x[1], top + 1 + n)}
      BY <2>2, <2>5
    <3>. DEFINE N == f[r]
                y == Marked(x[1], top + 1 + n)
    <3>2. IsFiniteSet(N) /\ Cardinality(N) = n /\ y \notin N
      BY <2>5, <2>12
    <3>. HIDE DEF N, y
    <3>3. IsFiniteSet(N \cup {y}) /\ Cardinality(N \cup {y}) = IF y \in N THEN Cardinality(N) ELSE Cardinality(N) + 1
      BY <3>2, FS_AddElement
    <3>. QED
      BY <3>1, <3>2, <3>3 DEF N, y
  <2>. HIDE DEF k
  <2>14. Good(s, k)
    BY <2>4, <2>8, <2>9, <2>10, <2>11, <2>13
  <2>. QED
    BY <2>14
<1>. HIDE DEF G
<1>9. SUBSET S \subseteq G
  BY <1>7, <1>8, BySubsets
<1>10. S \in G
  BY <1>9
<1>11. PICK i : Good(S, i)
  BY <1>10 DEF G
<1>12. Numbered(S) = f[S]
  BY NumberedIs DEF f, top
<1>. QED
  BY <1>11, <1>12 DEF top

-----------------------------------------------------------------------------
(* WikidataClaims: what an edit does *)

\* What is taken away before duplicates and zeros are.
Overruled(p, S) ==
    LET C == transformEmissionsToClaims(p)
    IN diffCarbonFootprintClaims(C, S).rm \cup diffTotalCarbonFootprintClaims(p, C, S).rm

SameTotals(p, S) == {e \in S : e.kind = "total" /\ e.end = p.end}
RightTotals(p, S) == {e \in SameTotals(p, S) : e.value = calculateTotalEmissions(p)}

LEMMA OverruledIs ==
    ASSUME NEW p \in Period, NEW S, transformEmissionsToClaims(p) # {}
    PROVE  /\ \A e : e \in Overruled(p, S) <=>
                 \/ \E c \in transformEmissionsToClaims(p) : e \in Replaced(c, S)
                 \/ e \in SameTotals(p, S) \ RightTotals(p, S) /\ \A r \in RightTotals(p, S) : e.id < r.id
           /\ Plan(p, S).rm = Overruled(p, S) \cup removeExistingDuplicates(S, Overruled(p, S))
                                \cup removeZeroValueClaims(S)
<1>. DEFINE C == transformEmissionsToClaims(p)
            A == UNION {Replaced(c, S) : c \in C}
            B == {e \in SameTotals(p, S) \ RightTotals(p, S) : \A r \in RightTotals(p, S) : e.id < r.id}
<1>1. diffCarbonFootprintClaims(C, S).rm = A
  BY DEF diffCarbonFootprintClaims
<1>2. diffTotalCarbonFootprintClaims(p, C, S).rm = B
  BY DEF diffTotalCarbonFootprintClaims, SameTotals, RightTotals
<1>3. Overruled(p, S) = A \cup B
  BY <1>1, <1>2 DEF Overruled
<1>4. Plan(p, S).rm = LET rm == Overruled(p, S)
                      IN  rm \cup removeExistingDuplicates(S, rm) \cup removeZeroValueClaims(S)
  BY DEF Plan, Overruled
<1>. QED
  BY <1>3, <1>4

\* What is put on the item: claims that are missing, copies of those that are replaced, the total.
LEMMA CopiesAre ==
    ASSUME NEW p \in Period, NEW S, transformEmissionsToClaims(p) # {}
    PROVE  LET C == transformEmissionsToClaims(p)
               new == Plan(p, S).new
               total == Of("total", calculateTotalEmissions(p), p.end)
           IN  /\ \A x \in new : \/ x[1] \in C /\ x = <<x[1], 0>> /\ Missing(x[1], S)
                                 \/ x[1] \in C /\ \E e \in Replaced(x[1], S) : x = <<x[1], e.id>>
                                 \/ x = <<total, 0>> /\ RightTotals(p, S) = {}
               /\ \A c \in C : Missing(c, S) => <<c, 0>> \in new
               /\ \A c \in C : \A e \in Replaced(c, S) : <<c, e.id>> \in new
               /\ RightTotals(p, S) = {} => <<total, 0>> \in new
<1>. DEFINE C == transformEmissionsToClaims(p)
            total == Of("total", calculateTotalEmissions(p), p.end)
            A == {<<c, 0>> : c \in {c \in C : Missing(c, S)}}
            B == UNION {{<<c, e.id>> : e \in Replaced(c, S)} : c \in C}
            D == IF RightTotals(p, S) = {} THEN {<<total, 0>>} ELSE {}
<1>1. diffCarbonFootprintClaims(C, S).new = A \cup B
  BY DEF diffCarbonFootprintClaims
<1>2. diffTotalCarbonFootprintClaims(p, C, S).new = D
  BY DEF diffTotalCarbonFootprintClaims, SameTotals, RightTotals
<1>3. Plan(p, S).new = A \cup B \cup D
  BY <1>1, <1>2 DEF Plan
<1>4. \A x \in A : x[1] \in C /\ x = <<x[1], 0>> /\ Missing(x[1], S)
  OBVIOUS
<1>5. \A x \in B : x[1] \in C /\ \E e \in Replaced(x[1], S) : x = <<x[1], e.id>>
  OBVIOUS
<1>6. \A x \in D : x = <<total, 0>> /\ RightTotals(p, S) = {}
  OBVIOUS
<1>7. /\ \A c \in C : Missing(c, S) => <<c, 0>> \in A
      /\ \A c \in C : \A e \in Replaced(c, S) : <<c, e.id>> \in B
      /\ RightTotals(p, S) = {} => <<total, 0>> \in D
  OBVIOUS
<1>. HIDE DEF A, B, D
<1>. QED
  BY <1>3, <1>4, <1>5, <1>6, <1>7

LEMMA PlanTyped ==
    ASSUME NEW p \in Period, NEW S, ItemOK(S), transformEmissionsToClaims(p) # {}
    PROVE  Plan(p, S).new \subseteq Claim \X Nat /\ IsFiniteSet(Plan(p, S).new)
<1>. DEFINE C == transformEmissionsToClaims(p)
            total == Of("total", calculateTotalEmissions(p), p.end)
            new == Plan(p, S).new
            f == [e \in S |-> e.id]
            ids == {e.id : e \in S}
<1>1. IsFiniteSet(C) /\ C \subseteq Claim /\ total \in Claim
  BY ClaimsAre
<1>2. IsFiniteSet(S) /\ \A e \in S : e.id \in Nat
  BY DEF ItemOK
<1>3. IsFiniteSet(ids)
  <2>1. f \in Surjection(S, ids)
    BY DEF Surjection
  <2>. HIDE DEF f, ids
  <2>. QED
    BY <1>2, <2>1, FS_Surjection
<1>4. IsFiniteSet((C \cup {total}) \X (ids \cup {0}))
  <2>. HIDE DEF C, total, ids
  <2>1. IsFiniteSet(C \cup {total}) /\ IsFiniteSet(ids \cup {0})
    BY <1>1, <1>3, FS_AddElement
  <2>. QED
    BY <2>1, FS_Product
<1>5. ASSUME NEW x \in new PROVE x \in (C \cup {total}) \X (ids \cup {0}) /\ x \in Claim \X Nat
  <2>1. \/ x[1] \in C /\ x = <<x[1], 0>>
        \/ x[1] \in C /\ \E e \in Replaced(x[1], S) : x = <<x[1], e.id>>
        \/ x = <<total, 0>>
    BY CopiesAre
  <2>2. \A c : \A e \in Replaced(c, S) : e.id \in ids /\ e.id \in Nat
    BY <1>2 DEF Replaced
  <2>. HIDE DEF C, total, ids
  <2>3. x = <<x[1], x[2]>> /\ x[1] \in C \cup {total} /\ x[2] \in ids \cup {0} /\ x[2] \in Nat
    BY <2>1, <2>2
  <2>. QED
    BY <1>1, <2>3
<1>. HIDE DEF new, C, total, ids
<1>6. new \in SUBSET ((C \cup {total}) \X (ids \cup {0}))
  BY <1>5
<1>7. IsFiniteSet(new)
  BY <1>4, <1>6, FS_Subset
<1>. QED
  BY <1>5, <1>7 DEF new

\* Of claims of a kind and period that nobody overrules the last is no duplicate.
LEMMA LastStays ==
    ASSUME NEW S, ItemOK(S), NEW rm, NEW e \in S \ rm
    PROVE  \E f \in S \ rm : /\ f.kind = e.kind /\ f.start = e.start /\ f.end = e.end
                             /\ f \notin removeExistingDuplicates(S, rm)
<1>. DEFINE X == {f \in S \ rm : f.kind = e.kind /\ f.start = e.start /\ f.end = e.end}
            n == [f \in X |-> f.id]
<1>1. X \in SUBSET S /\ e \in X /\ \A f \in X : n[f] = f.id /\ f.id \in Nat
  BY DEF ItemOK
<1>2. IsFiniteSet(X)
  BY <1>1, FS_Subset DEF ItemOK
<1>3. PICK f \in X : \A g \in X : n[g] <= n[f]
  <2>. HIDE DEF X, n
  <2>. QED
    BY <1>1, <1>2, GreatestIs
<1>4. \A g \in X : g.id <= f.id /\ g.id \in Nat /\ f.id \in Nat
  BY <1>1, <1>3
<1>5. f \notin removeExistingDuplicates(S, rm)
  <2>. SUFFICES ASSUME NEW g \in S \ rm, g.id > f.id, g.kind = f.kind, g.start = f.start, g.end = f.end
                PROVE  FALSE
    BY DEF removeExistingDuplicates
  <2>1. g \in X
    OBVIOUS
  <2>. QED
    BY <1>4, <2>1
<1>. QED
  BY <1>5

\* One edit of period p, made from the claims S that are on the item, leaves T.
Edited(p, S, T, i) ==
    /\ p \in Period /\ transformEmissionsToClaims(p) # {} /\ ItemOK(S)
    /\ i \in [Plan(p, S).new -> Nat] /\ \A x, y \in Plan(p, S).new : i[x] = i[y] => x = y
    /\ T = (S \ Plan(p, S).rm) \cup {Marked(x[1], i[x]) : x \in Plan(p, S).new}

\* After one edit what is there of a kind that is claimed says what is claimed, or is newer; the
\* totals of the period differ in their starts.
HalfSettled(p, S) ==
    /\ \A c \in transformEmissionsToClaims(p) : ~Zero(c) =>
          \A e \in S : e.kind = c.kind /\ e.end >= p.end =>
             ~Zero(e) /\ (e.end = p.end => e.start = c.start /\ e.value = c.value)
    /\ \A e, f \in SameTotals(p, S) : e.start = f.start => e = f

\* After two it is there once, and so is the right total.
Settled(p, S) ==
    /\ \A c \in transformEmissionsToClaims(p) :
          \/ Zero(c)
          \/ \E e \in S : e.kind = c.kind /\ e.end > c.end
          \/ \E e \in S : /\ {f \in S : f.kind = c.kind /\ f.end = c.end} = {e}
                          /\ e.start = c.start /\ e.value = c.value
    /\ RightTotals(p, S) # {}

\* What an edit keeps, and what it puts on the item.
LEMMA EditedIs ==
    ASSUME NEW p, NEW S, NEW T, NEW i, Edited(p, S, T, i)
    PROVE  LET C == transformEmissionsToClaims(p)
               total == Of("total", calculateTotalEmissions(p), p.end)
           IN  /\ \A e \in T : \/ e \in S \ Plan(p, S).rm
                               \/ \E c \in C : Missing(c, S) /\ e = Marked(c, i[<<c, 0>>])
                               \/ \E c \in C : \E r \in Replaced(c, S) : e = Marked(c, i[<<c, r.id>>])
                               \/ e = Marked(total, i[<<total, 0>>]) /\ RightTotals(p, S) = {}
               /\ S \ Plan(p, S).rm \subseteq T
               /\ \A c \in C : Missing(c, S) => Marked(c, i[<<c, 0>>]) \in T
               /\ \A c \in C : \A r \in Replaced(c, S) : Marked(c, i[<<c, r.id>>]) \in T
               /\ RightTotals(p, S) = {} => Marked(total, i[<<total, 0>>]) \in T
<1>. DEFINE C == transformEmissionsToClaims(p)
            total == Of("total", calculateTotalEmissions(p), p.end)
            new == Plan(p, S).new
<1>1. T = (S \ Plan(p, S).rm) \cup {Marked(x[1], i[x]) : x \in new} /\ p \in Period /\ C # {}
  BY DEF Edited
<1>2. /\ \A x \in new : \/ x[1] \in C /\ x = <<x[1], 0>> /\ Missing(x[1], S)
                        \/ x[1] \in C /\ \E e \in Replaced(x[1], S) : x = <<x[1], e.id>>
                        \/ x = <<total, 0>> /\ RightTotals(p, S) = {}
      /\ \A c \in C : Missing(c, S) => <<c, 0>> \in new
      /\ \A c \in C : \A e \in Replaced(c, S) : <<c, e.id>> \in new
      /\ RightTotals(p, S) = {} => <<total, 0>> \in new
  BY <1>1, CopiesAre
<1>. HIDE DEF C, total, new
<1>3. ASSUME NEW e \in T, e \notin S \ Plan(p, S).rm
      PROVE  \/ \E c \in C : Missing(c, S) /\ e = Marked(c, i[<<c, 0>>])
             \/ \E c \in C : \E r \in Replaced(c, S) : e = Marked(c, i[<<c, r.id>>])
             \/ e = Marked(total, i[<<total, 0>>]) /\ RightTotals(p, S) = {}
  <2>1. PICK x \in new : e = Marked(x[1], i[x])
    BY <1>1, <1>3
  <2>2. CASE x[1] \in C /\ x = <<x[1], 0>> /\ Missing(x[1], S)
    <3>1. e = Marked(x[1], i[<<x[1], 0>>])
      BY <2>1, <2>2
    <3>. QED
      BY <2>2, <3>1
  <2>3. CASE x[1] \in C /\ \E r \in Replaced(x[1], S) : x = <<x[1], r.id>>
    <3>1. PICK r \in Replaced(x[1], S) : x = <<x[1], r.id>>
      BY <2>3
    <3>2. e = Marked(x[1], i[<<x[1], r.id>>])
      BY <2>1, <3>1
    <3>. QED
      BY <2>3, <3>2
  <2>4. CASE x = <<total, 0>> /\ RightTotals(p, S) = {}
    <3>1. x[1] = total
      BY <2>4
    <3>. QED
      BY <2>1, <2>4, <3>1
  <2>. QED
    BY <1>2, <2>2, <2>3, <2>4
<1>4. /\ \A c \in C : Missing(c, S) => Marked(c, i[<<c, 0>>]) \in T
      /\ \A c \in C : \A r \in Replaced(c, S) : Marked(c, i[<<c, r.id>>]) \in T
      /\ RightTotals(p, S) = {} => Marked(total, i[<<total, 0>>]) \in T
  <2>1. \A x \in new : Marked(x[1], i[x]) \in T
    BY <1>1
  <2>2. \A c, n : <<c, n>> \in new => Marked(c, i[<<c, n>>]) \in T
    BY <2>1
  <2>. QED
    BY <1>2, <2>2
<1>. QED
  BY <1>1, <1>3, <1>4 DEF C, total, new

\* What is kept is not overruled, no duplicate and no zero; and conversely.
LEMMA KeptIs ==
    ASSUME NEW p \in Period, NEW S, transformEmissionsToClaims(p) # {}, NEW e \in S
    PROVE  e \notin Plan(p, S).rm <=> /\ e \notin Overruled(p, S)
                                      /\ e \notin removeExistingDuplicates(S, Overruled(p, S))
                                      /\ ~Zero(e)
BY OverruledIs DEF removeZeroValueClaims, Zero

\* Of the last ones of their kind and period there is only one.
LEMMA LastIsOne ==
    ASSUME NEW S, ItemOK(S), NEW rm, NEW e \in S \ rm, NEW f \in S \ rm,
           e \notin removeExistingDuplicates(S, rm), f \notin removeExistingDuplicates(S, rm),
           e.kind = f.kind, e.start = f.start, e.end = f.end
    PROVE  e = f
<1>1. e.id \in Nat /\ f.id \in Nat /\ (e.id = f.id => e = f)
  BY DEF ItemOK
<1>2. ~(f.id > e.id) /\ ~(e.id > f.id)
  BY DEF removeExistingDuplicates
<1>. QED
  BY <1>1, <1>2

LEMMA MarkedIs ==
    ASSUME NEW c, NEW n
    PROVE  LET m == Marked(c, n)
           IN  m.id = n /\ m.kind = c.kind /\ m.start = c.start /\ m.end = c.end /\ m.value = c.value
BY DEF Marked

\* One edit half settles the period.
LEMMA OneHalfSettles ==
    ASSUME NEW p, NEW S, NEW T, NEW i, Edited(p, S, T, i)
    PROVE  HalfSettled(p, T)
<1>. DEFINE C == transformEmissionsToClaims(p)
            value == calculateTotalEmissions(p)
            total == Of("total", value, p.end)
<1>1. p \in Period /\ C # {} /\ ItemOK(S)
  BY DEF Edited
<1>2. /\ \A c \in C : c.start = 1 /\ c.end = p.end /\ c.kind # "total"
      /\ \A c, d \in C : c.kind = d.kind => c = d
  BY <1>1, ClaimsAre
<1>3. total.kind = "total" /\ total.end = p.end
  BY DEF Of
<1>4. \A e \in T : \/ e \in S \ Plan(p, S).rm
                   \/ \E c \in C : \E n : e = Marked(c, n)
                   \/ e = Marked(total, i[<<total, 0>>]) /\ RightTotals(p, S) = {}
  <2>1. \A e \in T : \/ e \in S \ Plan(p, S).rm
                     \/ \E c \in C : Missing(c, S) /\ e = Marked(c, i[<<c, 0>>])
                     \/ \E c \in C : \E r \in Replaced(c, S) : e = Marked(c, i[<<c, r.id>>])
                     \/ e = Marked(total, i[<<total, 0>>]) /\ RightTotals(p, S) = {}
    BY EditedIs
  <2>. HIDE DEF C, total
  <2>. QED
    BY <2>1
<1>5. \A e \in S \ Plan(p, S).rm : /\ e \notin Overruled(p, S)
                                   /\ e \notin removeExistingDuplicates(S, Overruled(p, S))
                                   /\ ~Zero(e)
  BY <1>1, KeptIs
<1>6. \A e \in S : e \notin Overruled(p, S) => \A c \in C : e \notin Replaced(c, S)
  BY <1>1, OverruledIs
<1>. HIDE DEF total
<1>7. ASSUME NEW c \in C, ~Zero(c), NEW e \in T, e.kind = c.kind, e.end >= p.end
      PROVE  ~Zero(e) /\ (e.end = p.end => e.start = c.start /\ e.value = c.value)
  <2>1. CASE e \in S \ Plan(p, S).rm
    <3>1. e \notin Replaced(c, S) /\ ~Zero(e)
      BY <1>5, <1>6, <2>1
    <3>. QED
      BY <1>2, <1>7, <2>1, <3>1 DEF Replaced
  <2>2. ASSUME NEW d \in C, NEW n, e = Marked(d, n)
        PROVE  ~Zero(e) /\ e.start = c.start /\ e.value = c.value
    <3>1. e.kind = d.kind /\ e.start = d.start /\ e.value = d.value
      BY <2>2, MarkedIs
    <3>2. d = c
      BY <1>2, <1>7, <3>1
    <3>. QED
      BY <1>7, <3>1, <3>2 DEF Zero
  <2>3. CASE e = Marked(total, i[<<total, 0>>])
    <3>1. e.kind = "total"
      BY <1>3, <2>3, MarkedIs
    <3>. QED
      BY <1>2, <1>7, <3>1
  <2>. QED
    BY <1>4, <2>1, <2>2, <2>3
<1>8. ASSUME NEW e \in SameTotals(p, T), NEW f \in SameTotals(p, T), e.start = f.start
      PROVE  e = f
  <2>1. ASSUME NEW g \in SameTotals(p, T)
        PROVE  /\ g \in T /\ g.kind = "total" /\ g.end = p.end
               /\ \/ g \in S \ Plan(p, S).rm
                  \/ g = Marked(total, i[<<total, 0>>]) /\ RightTotals(p, S) = {}
    <3>1. g \in T /\ g.kind = "total" /\ g.end = p.end
      BY DEF SameTotals
    <3>2. ~ \E c \in C : \E n : g = Marked(c, n)
      <4>1. \A c \in C : \A n : Marked(c, n).kind # "total"
        BY <1>2, MarkedIs
      <4>. QED
        BY <3>1, <4>1
    <3>. QED
      BY <1>4, <3>1, <3>2
  <2>2. CASE RightTotals(p, S) = {}
    <3>1. \A g \in SameTotals(p, S) : g \in Overruled(p, S)
      BY <1>1, <2>2, OverruledIs
    <3>2. \A g \in SameTotals(p, T) : g \notin S \ Plan(p, S).rm
      <4>1. \A g \in SameTotals(p, T) : g \in S => g \in SameTotals(p, S)
        BY <2>1 DEF SameTotals
      <4>. QED
        BY <1>5, <3>1, <4>1
    <3>. QED
      BY <2>1, <3>2
  <2>3. CASE RightTotals(p, S) # {}
    <3>1. e \in S \ Plan(p, S).rm /\ f \in S \ Plan(p, S).rm /\ e.kind = f.kind /\ e.end = f.end
      BY <2>1, <2>3
    <3>. QED
      BY <1>1, <1>5, <1>8, <3>1, LastIsOne
  <2>. QED
    BY <2>2, <2>3
<1>. HIDE DEF C
<1>9. /\ \A c \in C : ~Zero(c) =>
            \A e \in T : e.kind = c.kind /\ e.end >= p.end =>
               ~Zero(e) /\ (e.end = p.end => e.start = c.start /\ e.value = c.value)
      /\ \A e, f \in SameTotals(p, T) : e.start = f.start => e = f
  BY <1>7, <1>8
<1>. QED
  BY <1>9 DEF HalfSettled, C

\* A second edit settles it.
LEMMA TwoSettle ==
    ASSUME NEW p, NEW S, NEW T, NEW i, Edited(p, S, T, i), HalfSettled(p, S)
    PROVE  Settled(p, T)
<1>. DEFINE C == transformEmissionsToClaims(p)
            total == Of("total", calculateTotalEmissions(p), p.end)
            Gone == Overruled(p, S)
            Kept == S \ Plan(p, S).rm
<1>1. p \in Period /\ C # {} /\ ItemOK(S) /\ p.end \in Nat
  BY ClaimsAssumption DEF Edited, Period
<1>2. /\ \A c \in C : c.start = 1 /\ c.end = p.end /\ c.kind # "total"
      /\ \A c, d \in C : c.kind = d.kind => c = d
  BY <1>1, ClaimsAre
<1>3. total.kind = "total" /\ total.end = p.end /\ total.value = calculateTotalEmissions(p)
  BY DEF Of
<1>4. /\ \A e \in T : \/ e \in Kept
                      \/ \E c \in C : Missing(c, S) /\ e = Marked(c, i[<<c, 0>>])
                      \/ \E c \in C : \E r \in Replaced(c, S) : e = Marked(c, i[<<c, r.id>>])
                      \/ e = Marked(total, i[<<total, 0>>]) /\ RightTotals(p, S) = {}
      /\ Kept \subseteq T
      /\ \A c \in C : Missing(c, S) => Marked(c, i[<<c, 0>>]) \in T
      /\ RightTotals(p, S) = {} => Marked(total, i[<<total, 0>>]) \in T
  BY EditedIs
<1>5. \A e \in S : e \in Kept <=> /\ e \notin Gone
                                  /\ e \notin removeExistingDuplicates(S, Gone)
                                  /\ ~Zero(e)
  BY <1>1, KeptIs
<1>6. \A e : e \in Gone <=>
         \/ \E c \in C : e \in Replaced(c, S)
         \/ e \in SameTotals(p, S) \ RightTotals(p, S) /\ \A r \in RightTotals(p, S) : e.id < r.id
  BY <1>1, OverruledIs
<1>7. /\ \A c \in C : ~Zero(c) =>
            \A e \in S : e.kind = c.kind /\ e.end >= p.end =>
               ~Zero(e) /\ (e.end = p.end => e.start = c.start /\ e.value = c.value)
      /\ \A e, f \in SameTotals(p, S) : e.start = f.start => e = f
  BY DEF HalfSettled
<1>8. \A e \in S : e.end \in Nat
  BY <1>1, ClaimsAssumption DEF ItemOK
<1>9. Kept \subseteq S
  OBVIOUS
<1>. HIDE DEF C, total, Gone, Kept
<1>10. \A e, c : e \in Replaced(c, S) <=>
          e \in S /\ e.kind = c.kind /\ e.end = c.end /\ (e.start # c.start \/ e.value # c.value)
  BY DEF Replaced
<1>11. ASSUME NEW c \in C, ~Zero(c)
       PROVE  \/ \E e \in T : e.kind = c.kind /\ e.end > c.end
              \/ \E e \in T : /\ {f \in T : f.kind = c.kind /\ f.end = c.end} = {e}
                              /\ e.start = c.start /\ e.value = c.value
  <2>. DEFINE G == {e \in S : e.kind = c.kind /\ e.end >= p.end}
  <2>1. \A e \in G : e \notin Gone /\ ~Zero(e) /\ (e.end = p.end => e.start = c.start /\ e.value = c.value)
    <3>. SUFFICES ASSUME NEW e \in G
                  PROVE  e \notin Gone /\ ~Zero(e) /\ (e.end = p.end => e.start = c.start /\ e.value = c.value)
      OBVIOUS
    <3>1. ~Zero(e) /\ (e.end = p.end => e.start = c.start /\ e.value = c.value)
      BY <1>7, <1>11
    <3>2. \A d \in C : e \notin Replaced(d, S)
      <4>. SUFFICES ASSUME NEW d \in C, e \in Replaced(d, S) PROVE FALSE
        OBVIOUS
      <4>1. d = c
        BY <1>2, <1>10
      <4>. QED
        BY <1>2, <1>10, <3>1, <4>1
    <3>3. e \notin SameTotals(p, S)
      BY <1>2 DEF SameTotals
    <3>. QED
      BY <1>6, <3>1, <3>2, <3>3
  <2>2. ASSUME NEW e \in G
        PROVE  \E f \in G : f \in T /\ f \in S \ Gone /\ f.start = e.start /\ f.end = e.end
                            /\ f \notin removeExistingDuplicates(S, Gone)
    <3>1. e \in S \ Gone /\ e.kind = c.kind /\ e.end >= p.end
      BY <2>1
    <3>2. PICK f \in S \ Gone : /\ f.kind = e.kind /\ f.start = e.start /\ f.end = e.end
                                /\ f \notin removeExistingDuplicates(S, Gone)
      BY <1>1, <3>1, LastStays
    <3>3. f \in G
      BY <3>1, <3>2
    <3>4. f \in T
      BY <1>4, <1>5, <2>1, <3>2, <3>3
    <3>. QED
      BY <3>2, <3>3, <3>4
  <2>3. CASE \E e \in G : e.end # p.end
    <3>1. PICK e \in G : e.end # p.end
      BY <2>3
    <3>2. PICK f \in G : f \in T /\ f.end = e.end
      BY <2>2
    <3>3. f.kind = c.kind /\ f.end > c.end
      BY <1>1, <1>2, <1>8, <3>1, <3>2
    <3>. QED
      BY <3>2, <3>3
  <2>4. CASE G # {} /\ \A e \in G : e.end = p.end
    <3>1. PICK e \in G : e \in T /\ e \in S \ Gone /\ e \notin removeExistingDuplicates(S, Gone)
      BY <2>2, <2>4
    <3>2. e.kind = c.kind /\ e.end = c.end /\ e.start = c.start /\ e.value = c.value
      BY <1>2, <2>1, <2>4, <3>1
    <3>3. ASSUME NEW f \in T, f.kind = c.kind, f.end = c.end PROVE f = e
      <4>1. CASE f \in Kept
        <5>1. f \in S /\ f \notin Gone /\ f \notin removeExistingDuplicates(S, Gone)
          BY <1>5, <1>9, <4>1
        <5>2. f \in G
          BY <1>1, <1>2, <3>3, <5>1
        <5>3. f.start = c.start
          BY <2>1, <2>4, <5>2
        <5>4. f \in S \ Gone /\ e \in S \ Gone /\ f.kind = e.kind /\ f.start = e.start /\ f.end = e.end
          BY <3>1, <3>2, <3>3, <5>1, <5>3
        <5>. QED
          BY <1>1, <3>1, <5>1, <5>4, LastIsOne
      <4>2. ASSUME NEW d \in C, NEW n, f = Marked(d, n), Missing(d, S) \/ Replaced(d, S) # {} PROVE FALSE
        <5>1. d = c
          BY <1>2, <3>3, <4>2, MarkedIs
        <5>2. ~Missing(c, S)
          BY <1>1, <1>2, <1>8, <3>1, <3>2 DEF Missing
        <5>3. Replaced(c, S) = {}
          <6>. SUFFICES ASSUME NEW r \in Replaced(c, S) PROVE FALSE
            OBVIOUS
          <6>1. r \in G
            BY <1>1, <1>2, <1>10
          <6>. QED
            BY <1>10, <2>1, <2>4, <6>1
        <5>. QED
          BY <4>2, <5>1, <5>2, <5>3
      <4>3. CASE f = Marked(total, i[<<total, 0>>])
        <5>1. f.kind = "total"
          BY <1>3, <4>3, MarkedIs
        <5>. QED
          BY <1>2, <3>3, <5>1
      <4>. QED
        BY <1>4, <4>1, <4>2, <4>3
    <3>4. {f \in T : f.kind = c.kind /\ f.end = c.end} = {e}
      BY <3>1, <3>2, <3>3
    <3>. QED
      BY <3>1, <3>2, <3>4
  <2>5. CASE G = {}
    <3>. DEFINE e == Marked(c, i[<<c, 0>>])
    <3>1. Missing(c, S)
      <4>. SUFFICES ASSUME NEW f \in S, f.kind = c.kind PROVE f.end < c.end
        BY DEF Missing
      <4>1. ~(f.end >= p.end)
        BY <2>5
      <4>. QED
        BY <1>1, <1>2, <1>8, <4>1
    <3>2. e \in T
      BY <1>4, <3>1
    <3>3. e.kind = c.kind /\ e.end = c.end /\ e.start = c.start /\ e.value = c.value
      BY MarkedIs
    <3>4. ASSUME NEW f \in T, f.kind = c.kind, f.end = c.end PROVE f = e
      <4>1. f \notin S
        BY <1>1, <1>2, <2>5, <3>4
      <4>2. ASSUME NEW d \in C, f = Marked(d, i[<<d, 0>>]) PROVE f = e
        <5>1. d = c
          BY <1>2, <3>4, <4>2, MarkedIs
        <5>. QED
          BY <4>2, <5>1
      <4>3. ASSUME NEW d \in C, NEW r \in Replaced(d, S), f = Marked(d, i[<<d, r.id>>]) PROVE FALSE
        <5>1. d = c
          BY <1>2, <3>4, <4>3, MarkedIs
        <5>2. r \in S /\ r.kind = c.kind /\ r.end = p.end
          BY <1>2, <1>10, <4>3, <5>1
        <5>. QED
          BY <1>1, <2>5, <5>2
      <4>4. CASE f = Marked(total, i[<<total, 0>>])
        <5>1. f.kind = "total"
          BY <1>3, <4>4, MarkedIs
        <5>. QED
          BY <1>2, <3>4, <5>1
      <4>. QED
        BY <1>4, <1>9, <4>1, <4>2, <4>3, <4>4
    <3>. HIDE DEF e
    <3>5. {f \in T : f.kind = c.kind /\ f.end = c.end} = {e}
      BY <3>2, <3>3, <3>4
    <3>. QED
      BY <3>2, <3>3, <3>5
  <2>. QED
    BY <2>3, <2>4, <2>5
<1>12. RightTotals(p, T) # {}
  <2>1. CASE RightTotals(p, S) = {}
    <3>. DEFINE e == Marked(total, i[<<total, 0>>])
    <3>1. e \in T /\ e.kind = "total" /\ e.end = p.end /\ e.value = calculateTotalEmissions(p)
      BY <1>3, <1>4, <2>1, MarkedIs
    <3>. QED
      BY <3>1 DEF RightTotals, SameTotals
  <2>2. CASE RightTotals(p, S) # {}
    <3>1. PICK r \in RightTotals(p, S) : TRUE
      BY <2>2
    <3>2. r \in SameTotals(p, S) /\ r \in S /\ r.kind = "total" /\ r.end = p.end
          /\ r.value = calculateTotalEmissions(p)
      BY <3>1 DEF RightTotals, SameTotals
    <3>3. r \notin Gone
      BY <1>2, <1>6, <1>10, <3>1, <3>2
    <3>4. r \notin removeExistingDuplicates(S, Gone)
      <4>. SUFFICES ASSUME NEW f \in S, f.id > r.id, f.kind = r.kind, f.start = r.start, f.end = r.end
                    PROVE  FALSE
        BY DEF removeExistingDuplicates
      <4>1. f \in SameTotals(p, S)
        BY <3>2 DEF SameTotals
      <4>2. f = r /\ r.id \in Nat
        BY <1>1, <1>7, <3>2, <4>1 DEF ItemOK
      <4>. QED
        BY <4>2
    <3>5. ~Zero(r)
      BY <3>2, ClaimsAssumption DEF Zero
    <3>6. r \in T
      BY <1>4, <1>5, <3>2, <3>3, <3>4, <3>5
    <3>. QED
      BY <3>2, <3>6 DEF RightTotals, SameTotals
  <2>. QED
    BY <2>1, <2>2
<1>. QED
  BY <1>11, <1>12 DEF Settled, C

\* Of each kind and end that had a claim one is left, unless a zero was among them.
LEMMA EditLosesNothing ==
    ASSUME NEW p, NEW S, NEW T, NEW i, Edited(p, S, T, i), NEW e \in S,
           \A z \in S : z.kind = e.kind /\ z.end = e.end => ~Zero(z)
    PROVE  \E f \in T : f.kind = e.kind /\ f.end = e.end
<1>. DEFINE C == transformEmissionsToClaims(p)
            total == Of("total", calculateTotalEmissions(p), p.end)
            Gone == Overruled(p, S)
<1>1. p \in Period /\ C # {} /\ ItemOK(S)
  BY DEF Edited
<1>2. /\ S \ Plan(p, S).rm \subseteq T
      /\ \A c \in C : \A r \in Replaced(c, S) : Marked(c, i[<<c, r.id>>]) \in T
      /\ RightTotals(p, S) = {} => Marked(total, i[<<total, 0>>]) \in T
  BY EditedIs
<1>3. \A g \in S : g \notin Plan(p, S).rm <=> /\ g \notin Gone
                                              /\ g \notin removeExistingDuplicates(S, Gone)
                                              /\ ~Zero(g)
  BY <1>1, KeptIs
<1>4. \A g : g \in Gone <=>
         \/ \E c \in C : g \in Replaced(c, S)
         \/ g \in SameTotals(p, S) \ RightTotals(p, S) /\ \A r \in RightTotals(p, S) : g.id < r.id
  BY <1>1, OverruledIs
<1>5. total.kind = "total" /\ total.end = p.end
  BY DEF Of
<1>6. \A c \in C : c.kind # "total"
  BY <1>1, ClaimsAre
<1>. HIDE DEF C, total, Gone
<1>7. CASE \E g \in S \ Gone : g.kind = e.kind /\ g.end = e.end
  <2>1. PICK g \in S \ Gone : g.kind = e.kind /\ g.end = e.end
    BY <1>7
  <2>2. PICK f \in S \ Gone : /\ f.kind = g.kind /\ f.start = g.start /\ f.end = g.end
                              /\ f \notin removeExistingDuplicates(S, Gone)
    BY <1>1, LastStays
  <2>3. f \in S \ Plan(p, S).rm
    BY <1>3, <2>1, <2>2
  <2>. QED
    BY <1>2, <2>1, <2>2, <2>3
<1>8. CASE \A g \in S : g.kind = e.kind /\ g.end = e.end => g \in Gone
  <2>1. CASE \E c \in C : e \in Replaced(c, S)
    <3>1. PICK c \in C : e \in Replaced(c, S)
      BY <2>1
    <3>2. Marked(c, i[<<c, e.id>>]) \in T /\ e.kind = c.kind /\ e.end = c.end
      BY <1>2, <3>1 DEF Replaced
    <3>. QED
      BY <3>2, MarkedIs
  <2>2. CASE e \in SameTotals(p, S)
    <3>1. e.kind = "total" /\ e.end = p.end
      BY <2>2 DEF SameTotals
    <3>2. RightTotals(p, S) = {}
      <4>. SUFFICES ASSUME NEW r \in RightTotals(p, S) PROVE FALSE
        OBVIOUS
      <4>1. r \in S /\ r.kind = "total" /\ r.end = p.end
        BY DEF RightTotals, SameTotals
      <4>2. r \in Gone
        BY <1>8, <3>1, <4>1
      <4>3. \A c \in C : r \notin Replaced(c, S)
        BY <1>6, <4>1 DEF Replaced
      <4>. QED
        BY <1>4, <4>2, <4>3
    <3>. QED
      BY <1>2, <1>5, <3>1, <3>2, MarkedIs
  <2>. QED
    BY <1>4, <1>8, <2>1, <2>2
<1>. QED
  BY <1>7, <1>8

\* What holds of the upload, the item and the number of quiet uploads.
UploadInv ==
    /\ company \in Period /\ ItemOK(item)
    /\ upload \in [at : {"idle", "fetched", "read"}, period : Period, seen : SUBSET OnItems, fresh : BOOLEAN]
    /\ ItemOK(upload.seen)
    /\ upload.fresh => upload.period = company
    /\ upload.at = "read" => /\ transformEmissionsToClaims(upload.period) # {}
                             /\ upload.fresh => upload.seen = item
    /\ quiet \in Nat /\ uploads \in 0..MaxUploads /\ changes \in 0..MaxChanges
    /\ quiet + (IF upload.at = "idle" THEN 0 ELSE 1) <= uploads

\* Quiet uploads were all of the company as it is, from the item as it was.
QuietInv ==
    /\ ~upload.fresh => quiet = 0
    /\ quiet >= 1 => transformEmissionsToClaims(company) # {} /\ HalfSettled(company, item)
    /\ quiet >= 2 => Settled(company, item)

NumberedBy(S, i) ==
    /\ i \in [S -> Nat] /\ \A x, y \in S : i[x] = i[y] => x = y
    /\ Numbered(S) = {Marked(x[1], i[x]) : x \in S}

\* New claims get ids after those on the item.
LEMMA AddedTyped ==
    ASSUME ItemOK(item), NEW S, IsFiniteSet(S), S \subseteq Claim \X Nat, NEW kept \in SUBSET item
    PROVE  /\ ItemOK(kept \cup Numbered(S))
           /\ \E i : NumberedBy(S, i)
<1>1. PICK i \in [S -> Nat] : /\ \A c \in S : i[c] > TopId
                              /\ \A c, d \in S : i[c] = i[d] => c = d
                              /\ Numbered(S) = {Marked(c[1], i[c]) : c \in S}
                              /\ IsFiniteSet(Numbered(S))
  BY NumberedRight
<1>2. TopId \in Nat /\ \A e \in item : e.id <= TopId /\ e.id \in Nat
  BY TopIsLast DEF ItemOK
<1>3. IsFiniteSet(kept) /\ kept \subseteq OnItems /\ \A e, f \in kept : e.id = f.id => e = f
  BY FS_Subset DEF ItemOK, OnItems
<1>4. ASSUME NEW c \in S
      PROVE  Marked(c[1], i[c]) \in OnItems /\ Marked(c[1], i[c]).id = i[c] /\ i[c] \in Nat
  <2>1. c[1] \in Claim /\ i[c] \in Nat
    BY <1>4
  <2>. QED
    BY <2>1 DEF Marked, OnItems, Claim
<1>. DEFINE N == Numbered(S)
            m == [c \in S |-> Marked(c[1], i[c])]
<1>5. \A e \in N : \E c \in S : e = m[c]
  BY <1>1
<1>6. \A c \in S : m[c] \in OnItems /\ m[c].id = i[c] /\ i[c] \in Nat /\ i[c] > TopId
  BY <1>1, <1>4
<1>7. IsFiniteSet(N)
  BY <1>1
<1>. HIDE DEF N, m
<1>8. N \subseteq OnItems
  BY <1>5, <1>6
<1>9. ASSUME NEW e \in kept \cup N, NEW f \in kept \cup N, e.id = f.id PROVE e = f
  <2>1. \A g \in kept, h \in N : g.id # h.id
    BY <1>2, <1>5, <1>6
  <2>2. \A g, h \in N : g.id = h.id => g = h
    BY <1>1, <1>5, <1>6
  <2>. QED
    BY <1>3, <1>9, <2>1, <2>2
<1>10. IsFiniteSet(kept \cup N)
  BY <1>3, <1>7, FS_Union
<1>11. ItemOK(kept \cup N)
  <2>1. kept \cup N \subseteq OnItems
    BY <1>3, <1>8
  <2>. QED
    BY <1>9, <1>10, <2>1 DEF ItemOK, OnItems
<1>. QED
  BY <1>1, <1>11 DEF N, NumberedBy

\* What the edit of an upload does to the item.
LEMMA EditOfUpload ==
    ASSUME UploadInv, editEntity
    PROVE  /\ ItemOK(item')
           /\ upload.seen = item => \E i : Edited(upload.period, item, item', i)
<1>. DEFINE p == upload.period
            S == upload.seen
            new == Plan(p, S).new
            rm == Plan(p, S).rm
<1>1. p \in Period /\ ItemOK(S) /\ ItemOK(item) /\ transformEmissionsToClaims(p) # {}
  BY DEF UploadInv, editEntity
<1>2. item' = IF rm \subseteq item THEN (item \ rm) \cup Numbered(new) ELSE item
  BY DEF editEntity
<1>3. new \subseteq Claim \X Nat /\ IsFiniteSet(new)
  BY <1>1, PlanTyped
<1>4. rm \subseteq S
  <2>1. \A e : e \in Overruled(p, S) => e \in S
    BY <1>1, OverruledIs DEF Replaced, SameTotals
  <2>. QED
    BY <1>1, <2>1, OverruledIs DEF removeExistingDuplicates, removeZeroValueClaims
<1>5. item \ rm \in SUBSET item
  OBVIOUS
<1>. HIDE DEF p, S, new, rm
<1>. DEFINE kept == item \ rm
<1>. HIDE DEF kept
<1>6. /\ ItemOK(kept \cup Numbered(new))
      /\ \E i : NumberedBy(new, i)
  BY <1>1, <1>3, <1>5, AddedTyped DEF kept
<1>7. PICK i \in [new -> Nat] : /\ \A x, y \in new : i[x] = i[y] => x = y
                                /\ Numbered(new) = {Marked(x[1], i[x]) : x \in new}
  BY <1>6 DEF NumberedBy
<1>8. ItemOK(item')
  BY <1>1, <1>2, <1>6 DEF kept
<1>9. ASSUME S = item PROVE Edited(p, item, item', i)
  <2>1. item' = (item \ rm) \cup {Marked(x[1], i[x]) : x \in new}
    BY <1>2, <1>4, <1>7, <1>9
  <2>. QED
    BY <1>1, <1>7, <1>9, <2>1 DEF Edited, new, rm
<1>. QED
  BY <1>8, <1>9 DEF p, S

LEMMA UploadStarts == ClaimsInit => UploadInv /\ QuietInv
<1>. SUFFICES ASSUME ClaimsInit PROVE UploadInv /\ QuietInv
  OBVIOUS
<1>1. item \in OnItem /\ ItemOK(item)
  BY ClaimsAssumption DEF ClaimsInit
<1>2. ItemOK({})
  BY FS_EmptySet DEF ItemOK
<1>3. upload = [at |-> "idle", period |-> company, seen |-> {}, fresh |-> FALSE] /\ company \in Period
      /\ quiet = 0 /\ changes = 0 /\ uploads = 0
  BY DEF ClaimsInit
<1>4. UploadInv
  BY <1>1, <1>2, <1>3, ClaimsAssumption DEF UploadInv
<1>5. QuietInv
  BY <1>3 DEF QuietInv
<1>. QED
  BY <1>4, <1>5

LEMMA UploadSteps == UploadInv /\ QuietInv /\ [ClaimsNext]_wvars => UploadInv' /\ QuietInv'
<1>. SUFFICES ASSUME UploadInv, QuietInv, [ClaimsNext]_wvars PROVE UploadInv' /\ QuietInv'
  OBVIOUS
<1>. USE ClaimsAssumption
<1>0. /\ company \in Period /\ ItemOK(item) /\ ItemOK(upload.seen)
      /\ upload \in [at : {"idle", "fetched", "read"}, period : Period, seen : SUBSET OnItems, fresh : BOOLEAN]
      /\ upload.fresh => upload.period = company
      /\ quiet \in Nat /\ uploads \in 0..MaxUploads /\ changes \in 0..MaxChanges
      /\ quiet + (IF upload.at = "idle" THEN 0 ELSE 1) <= uploads
  BY DEF UploadInv
<1>1. CASE pushWikidata
  <2>1. ItemOK({})
    BY FS_EmptySet DEF ItemOK
  <2>2. /\ upload' = [at |-> "fetched", period |-> company, seen |-> {}, fresh |-> TRUE]
        /\ upload.at = "idle" /\ uploads < MaxUploads /\ uploads' = uploads + 1
        /\ UNCHANGED <<company, item, quiet, changes>>
    BY <1>1 DEF pushWikidata
  <2>3. UploadInv'
    BY <1>0, <2>1, <2>2 DEF UploadInv
  <2>4. QuietInv'
    BY <2>2 DEF QuietInv, HalfSettled, Settled, SameTotals, RightTotals
  <2>. QED
    BY <2>3, <2>4
<1>2. CASE getClaims
  <2>1. /\ upload.at = "fetched" /\ UNCHANGED <<company, item, quiet, changes, uploads>>
        /\ \/ upload' = [upload EXCEPT !.at = "idle"]
           \/ /\ transformEmissionsToClaims(upload.period) # {}
              /\ upload' = [upload EXCEPT !.at = "read", !.seen = item]
    BY <1>2 DEF getClaims
  <2>2. item \subseteq OnItems
    BY <1>0 DEF ItemOK, OnItems
  <2>3. /\ company' = company /\ item' = item /\ quiet' = quiet /\ uploads' = uploads /\ changes' = changes
        /\ quiet + 1 <= uploads /\ quiet <= uploads
    BY <1>0, <2>1
  <2>4. UploadInv'
    <3>1. CASE upload' = [upload EXCEPT !.at = "idle"]
      <4>1. /\ upload' \in [at : {"idle", "fetched", "read"}, period : Period, seen : SUBSET OnItems, fresh : BOOLEAN]
            /\ upload'.at = "idle" /\ upload'.period = upload.period /\ upload'.seen = upload.seen
            /\ upload'.fresh = upload.fresh
        BY <1>0, <3>1
      <4>. QED
        BY <1>0, <2>3, <4>1 DEF UploadInv
    <3>2. CASE /\ transformEmissionsToClaims(upload.period) # {}
               /\ upload' = [upload EXCEPT !.at = "read", !.seen = item]
      <4>1. /\ upload' \in [at : {"idle", "fetched", "read"}, period : Period, seen : SUBSET OnItems, fresh : BOOLEAN]
            /\ upload'.at = "read" /\ upload'.period = upload.period /\ upload'.seen = item
            /\ upload'.fresh = upload.fresh
        BY <1>0, <2>2, <3>2
      <4>. QED
        BY <1>0, <2>3, <3>2, <4>1 DEF UploadInv
    <3>. QED
      BY <2>1, <3>1, <3>2
  <2>5. upload'.fresh = upload.fresh
    BY <1>0, <2>1
  <2>6. QuietInv'
    BY <2>1, <2>5 DEF QuietInv, HalfSettled, Settled, SameTotals, RightTotals
  <2>. QED
    BY <2>4, <2>6
<1>3. CASE UploadFails
  <2>1. /\ upload.at # "idle" /\ UNCHANGED <<company, item, quiet, changes, uploads>>
        /\ upload' = [upload EXCEPT !.at = "idle"]
    BY <1>3 DEF UploadFails
  <2>2. UploadInv'
    BY <1>0, <2>1 DEF UploadInv
  <2>3. upload'.fresh = upload.fresh
    BY <1>0, <2>1
  <2>4. QuietInv'
    BY <2>1, <2>3 DEF QuietInv, HalfSettled, Settled, SameTotals, RightTotals
  <2>. QED
    BY <2>2, <2>4
<1>4. CASE editEntity
  <2>1. /\ upload.at = "read" /\ UNCHANGED <<company, changes, uploads>>
        /\ upload' = [upload EXCEPT !.at = "idle"]
        /\ quiet' = IF upload.fresh THEN quiet + 1 ELSE quiet
    BY <1>4 DEF editEntity
  <2>2. ItemOK(item')
    BY <1>4, EditOfUpload
  <2>3. /\ upload'.at = "idle" /\ upload'.fresh = upload.fresh /\ upload'.period = upload.period
        /\ upload'.seen = upload.seen
        /\ upload' \in [at : {"idle", "fetched", "read"}, period : Period, seen : SUBSET OnItems, fresh : BOOLEAN]
    BY <1>0, <2>1
  <2>4. quiet' \in Nat /\ quiet' <= uploads
    BY <1>0, <2>1
  <2>5. UploadInv'
    BY <1>0, <2>1, <2>2, <2>3, <2>4 DEF UploadInv
  <2>6. QuietInv'
    <3>1. CASE ~upload.fresh
      <4>1. quiet' = 0
        BY <2>1, <3>1 DEF QuietInv
      <4>. QED
        BY <4>1 DEF QuietInv
    <3>2. CASE upload.fresh
      <4>1. upload.seen = item /\ upload.period = company /\ transformEmissionsToClaims(company) # {}
        BY <2>1, <3>2 DEF UploadInv
      <4>2. PICK i : Edited(company, item, item', i)
        BY <1>4, <4>1, EditOfUpload
      <4>3. HalfSettled(company, item')
        BY <4>2, OneHalfSettles
      <4>4. quiet' >= 2 => Settled(company, item')
        <5>1. quiet' >= 2 => quiet >= 1
          BY <1>0, <2>1
        <5>. QED
          BY <4>2, <5>1, TwoSettle DEF QuietInv
      <4>. QED
        BY <2>1, <2>3, <3>2, <4>1, <4>3, <4>4
           DEF QuietInv, HalfSettled, Settled, SameTotals, RightTotals
    <3>. QED
      BY <3>1, <3>2
  <2>. QED
    BY <2>5, <2>6
<1>5. ASSUME quiet' = 0, upload' = [upload EXCEPT !.fresh = FALSE], company' \in Period, ItemOK(item'),
             changes' \in 0..MaxChanges, uploads' = uploads
      PROVE  UploadInv' /\ QuietInv'
  <2>1. /\ upload' \in [at : {"idle", "fetched", "read"}, period : Period, seen : SUBSET OnItems, fresh : BOOLEAN]
        /\ upload'.at = upload.at /\ ~upload'.fresh /\ upload'.seen = upload.seen
        /\ upload'.period = upload.period
    BY <1>0, <1>5
  <2>2. 0 + (IF upload.at = "idle" THEN 0 ELSE 1) <= uploads
    BY <1>0
  <2>3. upload.at = "read" => transformEmissionsToClaims(upload.period) # {}
    BY DEF UploadInv
  <2>. QED
    BY <1>0, <1>5, <2>1, <2>2, <2>3 DEF UploadInv, QuietInv
<1>6. CASE CompanyChanges
  <2>1. /\ changes < MaxChanges /\ changes' = changes + 1 /\ company' \in Period
        /\ quiet' = 0 /\ upload' = [upload EXCEPT !.fresh = FALSE] /\ UNCHANGED <<item, uploads>>
    BY <1>6 DEF CompanyChanges
  <2>. QED
    BY <1>0, <1>5, <2>1
<1>7. CASE OthersEdit
  <2>1. /\ changes < MaxChanges /\ changes' = changes + 1
        /\ quiet' = 0 /\ upload' = [upload EXCEPT !.fresh = FALSE] /\ UNCHANGED <<company, uploads>>
    BY <1>7 DEF OthersEdit
  <2>2. ItemOK(item')
    <3>1. CASE \E c \in OthersClaim : item' = item \cup Numbered({<<c, 0>>})
      <4>1. PICK c \in OthersClaim : item' = item \cup Numbered({<<c, 0>>})
        BY <3>1
      <4>2. c \in Claim
        BY DEF OthersClaim, Claim
      <4>3. {<<c, 0>>} \subseteq Claim \X Nat /\ IsFiniteSet({<<c, 0>>})
        BY <4>2, FS_Singleton
      <4>4. item \in SUBSET item
        OBVIOUS
      <4>. QED
        BY <1>0, <4>1, <4>3, <4>4, AddedTyped
    <3>2. CASE \E e \in item : item' = item \ {e}
      BY <1>0, <3>2, FS_Subset DEF ItemOK
    <3>. QED
      BY <1>7, <3>1, <3>2 DEF OthersEdit
  <2>. QED
    BY <1>0, <1>5, <2>1, <2>2
<1>8. CASE UNCHANGED wvars
  BY <1>8 DEF wvars, UploadInv, QuietInv, HalfSettled, Settled, SameTotals, RightTotals
<1>. QED
  BY <1>1, <1>2, <1>3, <1>4, <1>6, <1>7, <1>8 DEF ClaimsNext

\* Uploads keep to their bounds, the claims of an item their ids.
THEOREM ClaimsTypesHold == ClaimsSpec => []ClaimsTypeOK
<1>1. UploadInv => ClaimsTypeOK
  <2>. SUFFICES ASSUME UploadInv PROVE ClaimsTypeOK
    OBVIOUS
  <2>1. /\ company \in Period /\ ItemOK(item)
        /\ upload \in [at : {"idle", "fetched", "read"}, period : Period, seen : SUBSET OnItems, fresh : BOOLEAN]
        /\ changes \in 0..MaxChanges /\ uploads \in 0..MaxUploads
    BY DEF UploadInv
  <2>2. quiet \in 0..MaxUploads
    BY ClaimsAssumption DEF UploadInv
  <2>. QED
    BY <2>1, <2>2 DEF ClaimsTypeOK
<1>. QED
  BY <1>1, UploadStarts, UploadSteps, PTL DEF ClaimsSpec

LEMMA StepLosesNothing ==
    ASSUME UploadInv, [ClaimsNext]_wvars, upload.at = "read", upload'.at = "idle", upload.seen = item,
           item' # item, NEW e \in item
    PROVE  \/ \E f \in item' : f.kind = e.kind /\ f.end = e.end
           \/ \E z \in item : Zero(z) /\ z.kind = e.kind /\ z.end = e.end
<1>1. editEntity
  <2>1. ~pushWikidata
    BY DEF pushWikidata
  <2>2. ~getClaims
    BY DEF getClaims
  <2>3. ~UploadFails
    BY DEF UploadFails
  <2>4. ~CompanyChanges
    BY DEF CompanyChanges
  <2>5. ~OthersEdit
    <3>1. upload' = [upload EXCEPT !.fresh = FALSE] => upload'.at = upload.at
      BY DEF UploadInv
    <3>. QED
      BY <3>1 DEF OthersEdit
  <2>. QED
    BY <2>1, <2>2, <2>3, <2>4, <2>5 DEF ClaimsNext, wvars
<1>2. PICK i : Edited(upload.period, item, item', i)
  BY <1>1, EditOfUpload
<1>. QED
  BY <1>2, EditLosesNothing

\* Two uploads in a row that nothing disturbs leave what the company reports on the item, each
\* kind once, whatever was there before, and an edit of the item as it was read loses no kind
\* of claim: diffCarbonFootprintClaims, diffTotalCarbonFootprintClaims, removeExistingDuplicates
\* and removeZeroValueClaims together.
THEOREM UploadsAreRight == ClaimsSpec => UploadsSettle
<1>1. QuietInv => (quiet >= 2 => ItemIsRight)
  BY DEF QuietInv, ItemIsRight, Settled, RightTotals, SameTotals
<1>2. UploadInv /\ [ClaimsNext]_wvars =>
        [upload.at = "read" /\ upload'.at = "idle" /\ upload.seen = item =>
            \A e \in item : \/ \E f \in item' : f.kind = e.kind /\ f.end = e.end
                            \/ \E z \in item : Zero(z) /\ z.kind = e.kind /\ z.end = e.end]_item
  BY StepLosesNothing
<1>. QED
  BY <1>1, <1>2, UploadStarts, UploadSteps, PTL DEF ClaimsSpec, UploadsSettle, NothingIsLost

-----------------------------------------------------------------------------

\* Every part of what the API publishes keeps to its types: rows, shells, periods, upserts and runs
\* of the registry, keys and their quotas, what is cached, and the claims of an item.
THEOREM PublishedTypesHold == UpkeepSpec /\ KeySpec /\ CacheSpec /\ ClaimsSpec => []PublishedTypesOK
BY RegistryTypesHold, KeyTypesHold, CacheTypesHold, ClaimsTypesHold, PTL DEF PublishedTypesOK
=============================================================================
