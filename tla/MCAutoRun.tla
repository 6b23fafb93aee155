------------------------------ MODULE MCAutoRun ------------------------------
(* Small instances of AutoRun. *)
EXTENDS AutoRun, TLC

CONSTANTS t1, t2, p1, p2

\* One report whose claim may grow stale and be repeated, and another.
MCMaxRuns == (p1 :> 2) @@ (p2 :> 1)
MCOneReport == p1 :> 2

MCSymmetry == Permutations(Ticks)

\* Bounds: what is explored together.  Three outcomes for one run of one report, two
\* for two runs of it, one beside a crash, the other report or a change by staff; a
\* crash with one report only, a change by staff with one run of it.
Small ==
    /\ crashes > 0 \/ (\E f \in RunsOf(p2) : row[f] # "none") => Len(events) <= 1 /\ patches = 0
    /\ crashes > 0 => \A f \in RunsOf(p2) : row[f] = "none"
    /\ patches > 0 => Len(events) <= 1 /\ row[<<p1, 2>>] = "none"
    /\ row[<<p1, 2>>] # "none" => Len(events) <= 2
=============================================================================
