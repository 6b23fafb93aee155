--------------------------- MODULE MCCompanyLink ---------------------------
(* Two reports that name one company.  The table has another: its name is   *)
(* unlike theirs (n3) and it owns the Wikidata id, or alike (n2) and nobody *)
(* owns the id.                                                             *)
EXTENDS CompanyLink

CONSTANTS r1, r2, c1, c2, c3, c4, n1, n2, n3, q1,
          SeedNames     \* the names that company may have

MCNameOf == [r \in Runs |-> n1]
MCCore == [n \in Names |-> IF n = n3 THEN n3 ELSE n1]
Absent == [name |-> NoName, qid |-> NoQid, verified |-> FALSE, alts |-> {}, fresh |-> FALSE]
MCSeeds == {[c \in Companies |-> IF c = c1 THEN [Absent EXCEPT !.name = n, !.qid = IF n = n3 THEN q1 ELSE NoQid] ELSE Absent] :
               n \in SeedNames}

\* Faults strike where the other company has the other name.
MCNext == Next /\ (company[c1].name = n2 => faults' = faults)

MCSpec == Init /\ [][MCNext]_vars /\ Fairness

\* Nothing but an unanswered question keeps a run from its saves, and they go where staff said.
SavesArrive == SavesAreReached /\ []SaveChoiceStands
=============================================================================
