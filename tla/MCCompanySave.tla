---------------------------- MODULE MCCompanySave ----------------------------
(***************************************************************************)
(* Small instances of CompanySave: two runs that meet on one company.      *)
(* In one, attempts are quick and answers arrive, one run saves twice and  *)
(* may be linked anew.  In the other (Slow) each run saves once, an        *)
(* attempt may outlast the TTL and answers are lost.  Side by side, with   *)
(* variables of their own: each behaviour is of one of them.               *)
(***************************************************************************)
EXTENDS CompanySave, TLC

CONSTANTS j1, j2, c1, c2, r1, r2, a1, a2, b1

VARIABLES slow, lockS, pcS, targetS, okS, waitedS, ageS, handlerS, canonicalS, archivedS, linksS, metS

\* Each run saves periods once; the first run's job was created for c2 but its
\* run may be linked to c1, the company of the second.
MCJobOf == (a1 :> j1) @@ (a2 :> j1) @@ (b1 :> j2)
MCRetryOf == (a1 :> a1) @@ (a2 :> a1) @@ (b1 :> b1)
MCRunOf == (j1 :> r1) @@ (j2 :> r2)
MCMaxLinks == (r1 :> 1) @@ (r2 :> 0)
MCJobCompany == (j1 :> c2) @@ (j2 :> c1)

-----------------------------------------------------------------------------

Slow == INSTANCE CompanySave WITH
          Attempts <- {a1, b1},
          JobOf <- (a1 :> j1) @@ (b1 :> j2),
          RetryOf <- (a1 :> a1) @@ (b1 :> b1),
          JobCompany <- (j1 :> c1) @@ (j2 :> c1),
          MaxHold <- TTL + 1,
          CanLoseAnswer <- TRUE,
          MaxLinks <- (r1 :> 0) @@ (r2 :> 0),
          lock <- lockS, pc <- pcS, target <- targetS, ok <- okS, waited <- waitedS,
          age <- ageS, handler <- handlerS, canonical <- canonicalS,
          archived <- archivedS, links <- linksS, met <- metS

varsS == <<lockS, pcS, targetS, okS, waitedS, ageS, handlerS, canonicalS, archivedS, linksS, metS>>

QuickNext == ~slow /\ Next /\ UNCHANGED <<slow, varsS>>
SlowNext == slow /\ Slow!Next /\ UNCHANGED <<slow, vars>>

MCInit == slow \in BOOLEAN /\ Init /\ Slow!Init

\* Only the slow instance is fair: it is the one whose executions are to end.
MCSpec ==
    /\ MCInit
    /\ [][QuickNext \/ SlowNext]_<<slow, vars, varsS>>
    /\ \A a \in {a1, b1} : /\ WF_varsS(slow /\ Slow!Progress(a))
                          /\ WF_varsS(slow /\ Slow!HandlerEnds(a))
    /\ WF_varsS(slow /\ Slow!Tick)

\* Saves that outlast the TTL, lost answers and dead workers keep no execution from ending, nor
\* does a waiter give up behind one dead holder: properties of CompanySave, here of its slow instance.
SlowSavesEnd == Slow!EveryAttemptEnds /\ Slow!GivesUpOnlyUnderContention
=============================================================================
