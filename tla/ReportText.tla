----------------------------- MODULE ReportText -----------------------------
(***************************************************************************)
(* How the text of a report travels through a run: parsePdf chooses a      *)
(* route and adds a flow of jobs (doclingParsePDF, then indexMarkdown,     *)
(* then checkEmissionsPresence or precheck), and each job looks for the    *)
(* text where the earlier ones may have left it.                           *)
(*                                                                         *)
(* Text is a version: None, Old (what the registry or Chroma had before    *)
(* the run) or New (what Docling returns in it).  It can be in four        *)
(* places: the registry row, the data of a job, the return value of the    *)
(* Docling job, and Chroma.  DoclingParse has the Docling job in detail;   *)
(* here it ends in one of its three ways.                                  *)
(***************************************************************************)
EXTENDS Naturals, Sequences

CONSTANTS
    Tries,      \* attempts of the jobs of a flow (3 in the code)
    MaxCrashes, \* bound: workers that die while they execute a job; one job dies once
    MaxBlows    \* bound: calls to Chroma, the registry or Docling that fail

ASSUME TextAssumption == Tries \in Nat \ {0} /\ MaxCrashes \in Nat /\ MaxBlows \in Nat

VARIABLES
    asked,   \* how the run was started and what its document is like; never changes
    parser,  \* the parsePdf job
    flows,   \* the flows and jobs it has added, in order
    pres,    \* the precheck jobs whose turn has come, in order
    row,     \* the document's registry row: its markdown, and which lookup finds it
    index,   \* the document in Chroma
    blows,   \* what went wrong so far
    dropped  \* history: somebody has removed the registry row

tvars == <<asked, parser, flows, pres, row, index, blows, dropped>>

None == 0
Old == 1
New == 2
Versions == {None, Old, New}

\* What finds the registry row: the job's own url, another address the job carries, or nothing
\* but the hash of the document.
Finds == {"url", "address", "hash"}

NoIndex == [ver |-> None, sweepable |-> FALSE]

\* A flow: Docling below the index job below the gate.  A part that a flow has not is "none".
\* A flow whose parent is precheck has no gate; its precheck is in pres once it can run.
FlowOf(docling, idx, gate, text) ==
    [docling |-> docling, kept |-> FALSE,
     idx |-> [st |-> idx, text |-> IF idx = "none" THEN None ELSE text, got |-> None,
              sweepable |-> FALSE, att |-> 0],
     gate |-> [st |-> gate, text |-> IF idx = "none" THEN text ELSE None, got |-> None]]

Docling(f) == flows[f].docling
Index(f) == flows[f].idx
Gate(f) == flows[f].gate

\* A precheck that was enqueued with the text it should read, or None.
PrecheckJob(cached) == [st |-> "waiting", cached |-> cached, got |-> None, att |-> 0]

\* Lookups.  The registry is asked by the job's url alone, by every address the job has, or by
\* the identity persistMarkdown writes with, which includes the hash.
ByUrl == IF row.found = "url" THEN row.ver ELSE None
ByAddress == IF row.found \in {"url", "address"} THEN row.ver ELSE None
ByIdentity == row.ver

First(a, b) == IF a # None THEN a ELSE b

Blow == blows.calls < MaxBlows /\ blows' = [blows EXCEPT !.calls = @ + 1]

TextTypeOK ==
    /\ asked \in [force: BOOLEAN, gate: BOOLEAN, mentions: [{Old, New} -> BOOLEAN]]
    /\ parser \in [st: {"waiting", "active", "completed", "failed"},
                   pc: {"look", "delete", "route", "return"}, has: BOOLEAN]
    /\ \A f \in DOMAIN flows :
          /\ Docling(f) \in {"none", "waiting", "done", "failed"}
          /\ Index(f).st \in {"none", "waiting", "active", "completed", "failed"}
          /\ {Index(f).text, Index(f).got, Gate(f).text, Gate(f).got} \subseteq Versions
          /\ Gate(f).st \in {"none", "waiting", "active", "told", "passed", "gated"}
    /\ \A p \in DOMAIN pres : pres[p] \in [st: {"waiting", "read", "failed"}, cached: Versions,
                                           got: Versions, att: 0..Tries]
    /\ row \in [ver: Versions, found: Finds]
    /\ index \in [ver: Versions, sweepable: BOOLEAN]
    /\ blows \in [crashes: 0..MaxCrashes, calls: 0..MaxBlows]
    /\ dropped \in BOOLEAN

-----------------------------------------------------------------------------
(***************************************************************************)
(* parsePdf.                                                               *)
(***************************************************************************)

TextInit ==
    /\ asked \in [force: BOOLEAN, gate: BOOLEAN, mentions: [{Old, New} -> BOOLEAN]]
    /\ parser = [st |-> "waiting", pc |-> "look", has |-> FALSE]
    /\ flows = <<>>
    /\ pres = <<>>
    /\ row \in [ver: {None, Old}, found: Finds]
    /\ index \in {NoIndex, [ver |-> Old, sweepable |-> FALSE], [ver |-> Old, sweepable |-> TRUE]}
    /\ index.sweepable => row.ver = Old
    /\ blows = [crashes |-> 0, calls |-> 0]
    /\ dropped = FALSE

\* Is the report indexed?  An error ends the job: parsePdf has one attempt.
Look ==
    /\ parser.st = "waiting"
    /\ \/ /\ parser' = [st |-> "active", pc |-> IF asked.force THEN "delete" ELSE "route",
                        has |-> index.ver # None]
          /\ UNCHANGED blows
       \/ Blow /\ parser' = [parser EXCEPT !.st = "failed"]
    /\ UNCHANGED <<asked, flows, pres, row, index, dropped>>

\* forceReindex removes the old index first; an error is ignored.
DeleteIndex ==
    /\ parser.st = "active" /\ parser.pc = "delete"
    /\ \/ index' = NoIndex /\ UNCHANGED blows
       \/ Blow /\ UNCHANGED index
    /\ parser' = [parser EXCEPT !.pc = "route"]
    /\ UNCHANGED <<asked, flows, pres, row, dropped>>

GateOf == IF asked.gate THEN "waiting" ELSE "none"

\* Nothing usable is stored: Docling, index, and the gate or precheck above them.
FreshFlow == FlowOf("waiting", "waiting", GateOf, None)

\* The registry has the text: it is only indexed again.
ReindexFlow(text) == FlowOf("none", "waiting", GateOf, text)

AddFlow(flow) == flows' = Append(flows, flow) /\ UNCHANGED pres
AddPrecheck(cached) == pres' = Append(pres, PrecheckJob(cached)) /\ UNCHANGED flows

\* The route: what is added depends on the index as it was seen and on the registry as it is.
Route ==
    /\ parser.st = "active" /\ parser.pc = "route"
    /\ \/ /\ asked.force \/ ~parser.has
          /\ AddFlow(IF ~asked.force /\ ByAddress # None THEN ReindexFlow(ByAddress) ELSE FreshFlow)
       \/ /\ ~asked.force /\ parser.has /\ asked.gate
          /\ AddFlow(IF ByUrl # None THEN FlowOf("none", "none", "waiting", ByUrl) ELSE FreshFlow)
       \/ /\ ~asked.force /\ parser.has /\ ~asked.gate
          /\ AddPrecheck(index.ver)
    /\ parser' = [parser EXCEPT !.pc = "return"]
    /\ UNCHANGED <<asked, row, index, blows, dropped>>

RouteFails ==
    /\ parser.st = "active" /\ parser.pc = "route" /\ Blow
    /\ parser' = [parser EXCEPT !.st = "failed"]
    /\ UNCHANGED <<asked, flows, pres, row, index, dropped>>

ParserReturns ==
    /\ parser.st = "active" /\ parser.pc = "return"
    /\ parser' = [parser EXCEPT !.st = "completed"]
    /\ UNCHANGED <<asked, flows, pres, row, index, blows, dropped>>

-----------------------------------------------------------------------------
(***************************************************************************)
(* The jobs of a flow.                                                     *)
(***************************************************************************)

\* Docling's text goes to the row.  A row that is created is found by url; one that existed may
\* get the url filled in.
DoclingPersists(f) ==
    /\ Docling(f) = "waiting"
    /\ flows' = [flows EXCEPT ![f].docling = "done"]
    /\ \E found \in {row.found, "url"} : row' = [ver |-> New, found |-> found]
    /\ UNCHANGED <<asked, parser, pres, index, blows, dropped>>

\* The row could not be written: the text stays in the job's return value.
DoclingKeeps(f) ==
    /\ Docling(f) = "waiting" /\ Blow
    /\ flows' = [flows EXCEPT ![f] = [@ EXCEPT !.docling = "done", !.kept = TRUE]]
    /\ UNCHANGED <<asked, parser, pres, row, index, dropped>>

\* The job fails for good; the jobs above it never get their turn.
DoclingFails(f) ==
    /\ Docling(f) = "waiting" /\ Blow
    /\ flows' = [flows EXCEPT ![f].docling = "failed"]
    /\ UNCHANGED <<asked, parser, pres, row, index, dropped>>

\* Mutant: one attempt too many.
Mutant_Retry(att) == IF att < Tries THEN "waiting" ELSE "failed"

Retry(att) == IF att + 1 < Tries THEN "waiting" ELSE "failed"

SetIndex(f, i) == flows' = [flows EXCEPT ![f].idx = i]
SetGate(f, g) == flows' = [flows EXCEPT ![f].gate = g]

IndexFailed(f) == SetIndex(f, [Index(f) EXCEPT !.att = @ + 1, !.st = Retry(Index(f).att)])

\* Mutant: the registry is asked with the job's url, which is often the address of a copy.
Mutant_IndexText(f) == First(First(Index(f).text, IF flows[f].kept THEN New ELSE None), ByUrl)

\* The text an index job can find: in its data, in Docling's return value, in the registry.
IndexText(f) == First(First(Index(f).text, IF flows[f].kept THEN New ELSE None), ByIdentity)

\* indexMarkdown finds its text; whether the sweep may take the index depends on whether the
\* registry has some text at that moment.
IndexReads(f) ==
    /\ Index(f).st = "waiting" /\ Docling(f) \in {"none", "done"}
    /\ IF IndexText(f) = None
       THEN IndexFailed(f)
       ELSE SetIndex(f, [Index(f) EXCEPT !.st = "active", !.got = IndexText(f),
                                         !.sweepable = ByIdentity # None])
    /\ UNCHANGED <<asked, parser, pres, row, index, blows, dropped>>

\* A precheck that is the parent of an index job gets its turn when that job has completed.
ParentOf(f) == IF Gate(f).st = "none" THEN Append(pres, PrecheckJob(None)) ELSE pres

\* The text is embedded and replaces what was there.  (ChromaIndex has the steps of it.)
IndexAdds(f) ==
    /\ Index(f).st = "active"
    /\ index' = [ver |-> Index(f).got, sweepable |-> Index(f).sweepable]
    /\ SetIndex(f, [Index(f) EXCEPT !.st = "completed"])
    /\ pres' = ParentOf(f)
    /\ UNCHANGED <<asked, parser, row, blows, dropped>>

IndexAddFails(f) ==
    /\ Index(f).st = "active" /\ Blow
    /\ IndexFailed(f)
    /\ UNCHANGED <<asked, parser, pres, row, index, dropped>>

\* The text the gate can find: in its data, or in the registry by the job's url.  The index job
\* below it returns nothing but the url.
GateText(f) == First(Gate(f).text, ByUrl)

GateReads(f) ==
    /\ Gate(f).st = "waiting" /\ Index(f).st \in {"none", "completed"}
    /\ SetGate(f, [Gate(f) EXCEPT !.st = "active", !.got = GateText(f)])
    /\ UNCHANGED <<asked, parser, pres, row, index, blows, dropped>>

\* Without text, or with text that mentions emissions, the run goes on to precheck, which gets
\* the text the gate has read.
GateAdds(f) ==
    /\ Gate(f).st = "active"
    /\ Gate(f).got # None => asked.mentions[Gate(f).got]
    /\ pres' = Append(pres, PrecheckJob(Gate(f).got))
    /\ SetGate(f, [Gate(f) EXCEPT !.st = "told"])
    /\ UNCHANGED <<asked, parser, row, index, blows, dropped>>

\* Text without emissions ends the run.
GateStops(f) ==
    /\ Gate(f).st = "active" /\ Gate(f).got # None /\ ~asked.mentions[Gate(f).got]
    /\ SetGate(f, [Gate(f) EXCEPT !.st = "gated"])
    /\ UNCHANGED <<asked, parser, pres, row, index, blows, dropped>>

GateReturns(f) ==
    /\ Gate(f).st = "told"
    /\ SetGate(f, [Gate(f) EXCEPT !.st = "passed"])
    /\ UNCHANGED <<asked, parser, pres, row, index, blows, dropped>>

\* precheck reads the text it was given, or asks the registry; without any it fails.
PrecheckText(p) == First(pres[p].cached, ByIdentity)

PrecheckReads(p) ==
    /\ pres[p].st = "waiting"
    /\ pres' = [pres EXCEPT ![p] =
          IF PrecheckText(p) # None
          THEN [@ EXCEPT !.st = "read", !.got = PrecheckText(p)]
          ELSE [@ EXCEPT !.st = Retry(pres[p].att), !.att = pres[p].att + 1]]
    /\ UNCHANGED <<asked, parser, flows, row, index, blows, dropped>>

-----------------------------------------------------------------------------
(***************************************************************************)
(* The surroundings.                                                       *)
(***************************************************************************)

Crash == blows.crashes < MaxCrashes /\ blows' = [blows EXCEPT !.crashes = @ + 1]

\* A worker dies; BullMQ finds the job stalled and another worker begins it again.
ParserDies ==
    /\ parser.st = "active" /\ Crash
    /\ parser' = [parser EXCEPT !.st = "waiting", !.pc = "look"]
    /\ UNCHANGED <<asked, flows, pres, row, index, dropped>>

FlowJobDies(f) ==
    /\ Crash
    /\ \/ Index(f).st = "active" /\ SetIndex(f, [Index(f) EXCEPT !.st = "waiting"])
       \/ Gate(f).st \in {"active", "told"} /\ SetGate(f, [Gate(f) EXCEPT !.st = "waiting"])
    /\ UNCHANGED <<asked, parser, pres, row, index, dropped>>

\* Staff remove the report from the registry.
RowRemoved ==
    /\ row.ver # None /\ ~dropped
    /\ row' = [row EXCEPT !.ver = None]
    /\ dropped' = TRUE
    /\ UNCHANGED <<asked, parser, flows, pres, index, blows>>

\* The sweep takes an index that is marked as stored elsewhere.  (ChromaIndex has its steps.)
Sweep ==
    /\ index.ver # None /\ index.sweepable
    /\ index' = NoIndex
    /\ UNCHANGED <<asked, parser, flows, pres, row, blows, dropped>>

TextNext ==
    \/ Look \/ DeleteIndex \/ Route \/ RouteFails \/ ParserReturns \/ ParserDies
    \/ \E f \in DOMAIN flows :
          \/ DoclingPersists(f) \/ DoclingKeeps(f) \/ DoclingFails(f)
          \/ IndexReads(f) \/ IndexAdds(f) \/ IndexAddFails(f)
          \/ GateReads(f) \/ GateAdds(f) \/ GateStops(f) \/ GateReturns(f) \/ FlowJobDies(f)
    \/ \E p \in DOMAIN pres : PrecheckReads(p)
    \/ RowRemoved \/ Sweep

TextSpec == TextInit /\ [][TextNext]_tvars

-----------------------------------------------------------------------------
(***************************************************************************)
(* Properties.                                                             *)
(***************************************************************************)

\* Docling has parsed the document but its text is in no registry row.
OnlyKept == \E f \in DOMAIN flows : flows[f].kept

\* Every job finds a text to work on, on every route and after every retry: indexMarkdown fails
\* for want of text only after staff removed the row, precheck only then or when Docling's text
\* could not be written.  (Each looks in other places than the one before it.)
TextIsFound ==
    /\ \A f \in DOMAIN flows :
          Index(f).att > blows.calls => dropped
    /\ \A p \in DOMAIN pres : pres[p].att > 0 => dropped \/ OnlyKept

\* The steps of a run work on one text: what precheck names the company from, and what the gate
\* declares free of emissions, is what the index was made of, unless Docling's text could not be
\* written, the row was removed, or a dead worker has given the run a second route.  And an index
\* the sweep may take leaves a text in the registry to make it again from, unless that was removed.
GateAgrees(f) ==
    Index(f).st = "completed" /\ Gate(f).st \in {"told", "passed", "gated"} /\ Gate(f).got # None
        => Gate(f).got = Index(f).got

PrecheckAgrees(p) == pres[p].st = "read" /\ index.ver # None => pres[p].got = index.ver

OneTextPerRun ==
    /\ dropped \/ OnlyKept \/ blows.crashes > 0
          \/ /\ \A f \in DOMAIN flows : GateAgrees(f)
             /\ \A p \in DOMAIN pres : PrecheckAgrees(p)
    /\ index.sweepable => dropped \/ row.ver # None

\* A run reaches precheck once; a second precheck is a second extraction of the whole report.
\* It takes a worker that dies between adding a job and saying so.
OnePrecheck == Len(pres) > 1 => blows.crashes > 0

\* Every job of the run finds a text, the same one, and the run goes on to precheck once.
TextArrives == TextIsFound /\ OneTextPerRun /\ OnePrecheck
=============================================================================
