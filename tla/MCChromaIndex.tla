---------------------------- MODULE MCChromaIndex ----------------------------
(* Small instances of ChromaIndex: one report in two batches. *)
EXTENDS ChromaIndex, TLC

CONSTANTS j1, j2, p1, p2, s1, s2

\* Two searches that share the rebuilds of one process.
MCOneProcess == (s1 :> p1) @@ (s2 :> p1)

\* A search in each of two processes.
MCTwoProcesses == (s1 :> p1) @@ (s2 :> p2)

\* Every search ends; a rebuild writes into an empty index only, and the search after it has the
\* whole report: the properties of ChromaIndex on searches.
SearchesAreServed == EverySearchEnds /\ RebuildsOnlyFromNothing /\ []RebuildYieldsWhole
=============================================================================
