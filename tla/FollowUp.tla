------------------------------ MODULE FollowUp ------------------------------
(***************************************************************************)
(* A follow-up question, and the page its answer is found on.  Docling says *)
(* on which page each snippet of a report stands.  The index gives a page  *)
(* to each chunk of the markdown whose text is that of a snippet.  A       *)
(* question retrieves sections, asks a model, and attaches to the value it *)
(* answers the page of the section in which the value, or its quote,       *)
(* stands.  The index may be swept and rebuilt in between, and a failed    *)
(* attempt is made again.                                                  *)
(***************************************************************************)
EXTENDS Naturals, Sequences, FiniteSets, FiniteSetsExt

CONSTANTS
    Docs,        \* what a report may hold: sequences of snippets [page, kind, num, len]
    Quotes,      \* what a model may quote: texts [num, len], or Unknown
    Digits, Dot, \* of which numerals are sequences
    Unknown,
    MaxSnippets, \* snippets that are kept for the lookup (2500 in the code)
    NResults,    \* chunks a search gives (15 in the code)
    AskTries,    \* of a follow-up job (3 in the code)
    MaxSweeps    \* bound: times the index is swept

ASSUME FollowUpAssumption ==
    /\ {AskTries, NResults} \subseteq Nat \ {0} /\ MaxSnippets \in Nat \ {0} /\ MaxSweeps \in Nat
    /\ Dot \notin Digits
    /\ Docs \subseteq Seq([page: Nat \ {0}, kind: {"text", "table"}, num: Seq(Digits \cup {Dot}), len: Nat])
    /\ \A q \in Quotes : q = Unknown \/ q.len \in Nat

VARIABLES
    doc,      \* the snippets, in the order of the report
    section,  \* the section each of them is in
    pageOf,   \* the page of each chunk, Unknown for one without; Gone when there is no index
    question, \* where the question is, its attempts, the chunks it has retrieved
    result,   \* what it was answered with
    sweeps

fuvars == <<doc, section, pageOf, question, result, sweeps>>

Gone == <<>>
Text(i) == [num |-> doc[i].num, len |-> doc[i].len]
Best(S, Better(_, _)) == CHOOSE i \in S : \A k \in S : i = k \/ Better(i, k)

-----------------------------------------------------------------------------
(* doclingPageLookup.ts *)

\* Of the same text on the same page the first is kept.
Pending == {i \in DOMAIN doc : \A k \in DOMAIN doc : k < i => Text(k) # Text(i) \/ doc[k].page # doc[i].page}

\* The snippets of a page, tables first.
Sooner(i, k) ==
    \/ doc[i].kind = "table" /\ doc[k].kind = "text"
    \/ doc[i].kind = doc[k].kind /\ i < k
Rank(i) == Cardinality({k \in Pending : doc[k].page = doc[i].page /\ Sooner(k, i)})

\* Mutant: the first pages fill the sample.
Mutant_sampleSnippetsAcrossPages ==
    {i \in Pending : Cardinality({k \in Pending : \/ doc[k].page < doc[i].page
                                                  \/ doc[k].page = doc[i].page /\ Sooner(k, i)}) < MaxSnippets}

\* One of each page, then a second one of each, and so on.
sampleSnippetsAcrossPages ==
    {i \in Pending : Cardinality({k \in Pending : \/ Rank(k) < Rank(i)
                                                  \/ Rank(k) = Rank(i) /\ doc[k].page < doc[i].page}) < MaxSnippets}

\* The page of the longest snippet that stands in one of the chunks I; the first page of equals.
pageNumberForMarkdownSnippet(I) ==
    LET hits == {s \in sampleSnippetsAcrossPages : \E i \in I : Text(i) = Text(s)}
    IN IF hits = {} THEN Unknown
       ELSE doc[Best(hits, LAMBDA s, t : \/ doc[s].len > doc[t].len
                                         \/ doc[s].len = doc[t].len /\ doc[s].page < doc[t].page
                                         \/ doc[s].len = doc[t].len /\ doc[s].page = doc[t].page /\ Sooner(s, t))].page

\* The page of a chunk, else of its section.
PageOfChunk(i) ==
    IF pageNumberForMarkdownSnippet({i}) # Unknown THEN pageNumberForMarkdownSnippet({i})
    ELSE pageNumberForMarkdownSnippet({k \in DOMAIN doc : section[k] = section[i]})

-----------------------------------------------------------------------------
(* sourceReference.ts *)

Whole(n) == Dot \notin {n[k] : k \in DOMAIN n}

\* A needle of digits, or of one digit and decimals, may not be part of a larger number.
StandsAlone(n) == Whole(n) \/ n[2] = Dot

\* Mutant: any part of a text will do.
Mutant_haystackContainsStandaloneNeedle(t, n) ==
    \E i \in 1..Len(t) : i + Len(n) - 1 <= Len(t) /\ SubSeq(t, i, i + Len(n) - 1) = n

haystackContainsStandaloneNeedle(t, n) ==
    \E i \in 1..Len(t) :
        LET end == i + Len(n) - 1
        IN /\ end <= Len(t) /\ SubSeq(t, i, end) = n
           /\ StandsAlone(n) => /\ i = 1 \/ t[i - 1] = Dot
                                /\ end = Len(t) \/ t[end + 1] = Dot

\* What a value's needles find in the section of a chunk: its quote, its number, or nothing.
\* A single digit is not looked for.
needleScore(v, i) ==
    LET there == {k \in DOMAIN doc : section[k] = section[i]}
    IN IF v.quote # Unknown /\ \E k \in there : Text(k) = v.quote THEN 10 * v.quote.len
       ELSE IF Len(v.total) >= 2 /\ \E k \in there : haystackContainsStandaloneNeedle(doc[k].num, v.total)
       THEN 10 * Len(v.total) + (IF Whole(v.total) THEN 0 ELSE 50)
       ELSE 0

\* The page of the chunk that scores best, the first retrieved of equals.  Chunks of a section
\* that was retrieved already, and chunks without a page, do not count.
pageNumberForNeedles(v, chunks, pages) ==
    LET usable == {a \in DOMAIN chunks :
                      /\ \A b \in 1..(a - 1) : section[chunks[b]] # section[chunks[a]]
                      /\ pages[chunks[a]] # Unknown /\ needleScore(v, chunks[a]) > 0}
        score(a) == needleScore(v, chunks[a])
    IN IF usable = {} THEN Unknown
       ELSE pages[chunks[Best(usable, LAMBDA a, b : score(a) > score(b) \/ (score(a) = score(b) /\ a < b))]]

\* A value that names its source is left as it is.
withProvenance(v, page) == IF v.ref # Unknown THEN Unknown ELSE page

-----------------------------------------------------------------------------

FollowUpInit ==
    /\ doc \in Docs
    /\ section \in {s \in [DOMAIN doc -> DOMAIN doc] :
                       \A i \in DOMAIN doc : IF i = 1 THEN s[i] = 1 ELSE s[i] \in {s[i - 1], i}}
    /\ pageOf = [i \in DOMAIN doc |-> PageOfChunk(i)]
    /\ question = [at |-> "search", tries |-> 0, chunks |-> <<>>, pages |-> Gone]
    /\ result = Unknown /\ sweeps = 0

\* The sweep deletes what was indexed long ago.
ChromaSweep ==
    /\ pageOf # Gone /\ sweeps < MaxSweeps /\ question.at \notin {"done", "failed"}
    /\ pageOf' = Gone /\ sweeps' = sweeps + 1
    /\ UNCHANGED <<doc, section, question, result>>

\* The index is rebuilt from the markdown that is stored, which knows of no pages.
reindexFromStoredMarkdown ==
    /\ question.at = "search" /\ pageOf = Gone
    /\ pageOf' = [i \in DOMAIN doc |-> Unknown]
    /\ UNCHANGED <<doc, section, question, result, sweeps>>

\* The chunks that are nearest to the question, with the pages they have now.
getRelevantParagraphs ==
    /\ question.at = "search" /\ pageOf # Gone
    /\ \E n \in 1..NResults : \E chunks \in [1..n -> DOMAIN doc] :
          /\ \A a, b \in 1..n : chunks[a] = chunks[b] => a = b
          /\ question' = [question EXCEPT !.at = "ask", !.chunks = chunks, !.pages = pageOf]
    /\ UNCHANGED <<doc, section, pageOf, result, sweeps>>

\* An attempt fails: no paragraphs, a model that cannot be reached, an answer that is not JSON.
AttemptFails ==
    /\ question.at \in {"search", "ask", "fallback"}
    /\ question' = [at |-> IF question.tries + 1 < AskTries THEN "search" ELSE "failed",
               tries |-> question.tries + 1, chunks |-> <<>>, pages |-> Gone]
    /\ UNCHANGED <<doc, section, pageOf, result, sweeps>>

\* What was retrieved does not fit the model: one with a larger context is asked, once.
withContextWindowFallback ==
    /\ question.at = "ask"
    /\ question' = [question EXCEPT !.at = "fallback"]
    /\ UNCHANGED <<doc, section, pageOf, result, sweeps>>

\* A model answers with a number of the report, and perhaps a quote and a source of its own.
attachPageProvenanceToExtraction ==
    /\ question.at \in {"ask", "fallback"}
    /\ \E i \in DOMAIN doc, quote \in Quotes, ref \in {Unknown, "note"} :
          LET v == [total |-> doc[i].num, quote |-> quote, ref |-> ref]
          IN result' = [value |-> v, page |-> withProvenance(v, pageNumberForNeedles(v, question.chunks, question.pages))]
    /\ question' = [question EXCEPT !.at = "done"]
    /\ UNCHANGED <<doc, section, pageOf, sweeps>>

FollowUpNext ==
    \/ ChromaSweep \/ reindexFromStoredMarkdown \/ getRelevantParagraphs
    \/ AttemptFails \/ withContextWindowFallback \/ attachPageProvenanceToExtraction

FollowUpSpec == FollowUpInit /\ [][FollowUpNext]_fuvars

-----------------------------------------------------------------------------

Pages(I) == {doc[i].page : i \in I}

\* "so later GHG pages are not starved": a page with snippets is never without one in the sample
\* while another has two.  (The report never changes: it is enough to look at the beginning.)
LaterPagesAreHeard ==
    question.tries = 0 /\ question.at = "search" =>
    LET kept(p) == Cardinality({i \in sampleSnippetsAcrossPages : doc[i].page = p})
    IN \A p, q \in Pages(Pending) : kept(p) = 0 => kept(q) <= 1

\* In a report of whole numbers in which no text stands on two pages, and in whose sections no
\* page ends: the page that is attached to a value is one on which its quote, or that very number
\* and not a part of another, stands.  The index being swept, rebuilt without pages, or the
\* question asked again does not attach another.
PageIsOfTheValue ==
    (/\ question.at = "done" /\ result.page # Unknown
     /\ \A i, k \in DOMAIN doc : /\ Text(i) = Text(k) \/ section[i] = section[k] => doc[i].page = doc[k].page
                                 /\ Whole(doc[i].num)) =>
        \E i \in DOMAIN doc : /\ doc[i].page = result.page
                              /\ doc[i].num = result.value.total \/ Text(i) = result.value.quote

\* A follow-up answer is given a page it stands on, and later pages have a share in the lookup
\* that says where.
PagesAreRight == LaterPagesAreHeard /\ PageIsOfTheValue
=============================================================================
