-------------------------- MODULE CompanyLinkProofs --------------------------
(* Proofs about CompanyLink. *)
EXTENDS CompanyLink, TLAPS

LEMMA AskFacts ==
  /\ NoAsk \in AskType
  /\ \A cs \in SUBSET Companies : LinkAsk(cs) \in AskType
  /\ \A q \in Qids \cup {NoQid} : WikidataAsk(q, TRUE) \in AskType /\ WikidataAsk(q, FALSE) \in AskType
  /\ \A ask \in AskType : \A c \in Companies \cup {NoCompany} : \A q \in Qids \cup {NoQid} :
        Answered(ask, c, q) \in AskType
BY DEF AskType, NoAsk, LinkAsk, WikidataAsk, Answered

LEMMA RowFacts ==
  /\ \A n \in Names : NewRow(n, TRUE) \in RowType /\ NewRow(n, FALSE) \in RowType
  /\ \A row \in RowType : \A n \in Names :
        WithAlias(row, n) \in RowType /\ Renamed(row, n) \in RowType
BY DEF RowType, NewRow, WithAlias, Renamed

LEMMA ChoicesFacts ==
  /\ \A n : Choices(n) \in SUBSET Companies
  /\ \A q : OwnersOf(q) \in SUBSET Companies
  /\ \A r, q : Conflict(r, q) \in SUBSET Companies
BY DEF Choices, Exact, AliasOf, Hits, OwnersOf, Conflict

GuessPlaces == {"off", "queued", "auto", "autoPatch", "patch", "keep",
                "autoSync", "sync", "done", "failed"}

LEMMA GuessUpdate ==
  ASSUME guess \in [Runs -> GuessType], NEW r \in Runs, NEW at \in GuessPlaces,
         NEW c \in Companies \cup {NoCompany}, NEW n \in Names \cup {NoName}
  PROVE  /\ [guess EXCEPT ![r].at = at, ![r].company = c] \in [Runs -> GuessType]
         /\ [guess EXCEPT ![r].at = at, ![r].name = n] \in [Runs -> GuessType]
<1> DEFINE moved == [guess[r] EXCEPT !.at = at]
<1>1. moved \in GuessType
  BY DEF GuessType, GuessPlaces
<1>2. [guess EXCEPT ![r].at = at, ![r].company = c] = [guess EXCEPT ![r] = [moved EXCEPT !.company = c]]
  OBVIOUS
<1>3. [guess EXCEPT ![r].at = at, ![r].name = n] = [guess EXCEPT ![r] = [moved EXCEPT !.name = n]]
  OBVIOUS
<1> HIDE DEF moved
<1>4. [moved EXCEPT !.company = c] \in GuessType /\ [moved EXCEPT !.name = n] \in GuessType
  BY <1>1 DEF GuessType
<1>5. QED BY <1>2, <1>3, <1>4

-----------------------------------------------------------------------------
(* What a guessWikidata job holds where: a company as long as it runs, the   *)
(* id in question while staff are asked.                                     *)
GuessOK(g) ==
  /\ g.at \notin {"off", "done", "failed"} => g.company \in Companies
  /\ g.ask.kind = "link" => g.qid \in Qids
  /\ g.ask.kind = "link" /\ g.ask.ok => g.ask.link \in Companies
  /\ g.ask.kind = "wikidata" /\ ~g.ask.ok => g.ask.qid \in Qids
  /\ g.at \in {"auto", "autoPatch", "autoSync"} => g.ask.kind = "wikidata" /\ g.ask.qid \in Qids

Held == \A r \in Runs : /\ GuessOK(guess[r])
                        /\ pre[r].at = "flows" => pre[r].company \in Companies

-----------------------------------------------------------------------------
(* Every reachable state is well typed, for any runs, companies, names,    *)
(* tables to start from and faults.                                        *)
LEMMA TypeInvariant == Spec => [](TypeOK /\ Held)
<1>1. Init => TypeOK /\ Held
  <2>1. Init => TypeOK
    BY SetsAssumption, NamesAssumption, SeedsAssumption, AskFacts DEF Init, TypeOK, PreType, GuessType, ChkType, FaultKinds
  <2>2. Init => Held
    BY DEF Init, Held, GuessOK, NoAsk
  <2>3. QED BY <2>1, <2>2
<1>2. TypeOK /\ Held /\ [Next]_vars => TypeOK'
  <2> SUFFICES ASSUME TypeOK, Held, [Next]_vars PROVE TypeOK'
    OBVIOUS
  <2>co. company \in [Companies -> RowType]
    BY DEF TypeOK
  <2>ru. runCompany \in [Runs -> Companies \cup {NoCompany}]
    BY DEF TypeOK
  <2>pr. pre \in [Runs -> PreType]
    BY DEF TypeOK
  <2>gu. guess \in [Runs -> GuessType]
    BY DEF TypeOK
  <2>ch. chk \in [Runs -> ChkType]
    BY DEF TypeOK
  <2>1. ASSUME NEW r \in Runs, NEW c \in Companies, Adopt(r, c)
        PROVE  /\ pre' \in [Runs -> PreType] /\ company' \in [Companies -> RowType]
               /\ runCompany' \in [Runs -> Companies \cup {NoCompany}]
    <3>1. pre' \in [Runs -> PreType]
      BY <2>1, <2>pr DEF Adopt, PreType
    <3>2. company' \in [Companies -> RowType]
      BY <2>1, <2>co, RowFacts, NamesAssumption DEF Adopt
    <3>3. QED BY <2>1, <2>ru, <3>1, <3>2 DEF Adopt
  <2>2. ASSUME NEW r \in Runs, NEW c \in Companies, Found(r, c, TRUE) \/ Found(r, c, FALSE)
        PROVE  /\ pre' \in [Runs -> PreType] /\ company' \in [Companies -> RowType]
               /\ runCompany' \in [Runs -> Companies \cup {NoCompany}]
    <3>0. /\ pre' = [pre EXCEPT ![r].at = "flows", ![r].company = c]
          /\ runCompany' = [runCompany EXCEPT ![r] = c]
          /\ \/ company' = [company EXCEPT ![c] = NewRow(NameOf[r], TRUE)]
             \/ company' = [company EXCEPT ![c] = NewRow(NameOf[r], FALSE)]
      BY <2>2 DEF Found
    <3>1. pre' \in [Runs -> PreType]
      BY <3>0, <2>pr DEF PreType
    <3>2. NewRow(NameOf[r], TRUE) \in RowType /\ NewRow(NameOf[r], FALSE) \in RowType
      BY RowFacts, NamesAssumption
    <3>3. company' \in [Companies -> RowType]
      BY <3>0, <3>2, <2>co
    <3>4. QED BY <3>0, <2>ru, <3>1, <3>3
  <2>3. ASSUME NEW r \in Runs, AskStaff(r)
        PROVE  /\ pre' \in [Runs -> PreType] /\ company' \in [Companies -> RowType]
               /\ runCompany' \in [Runs -> Companies \cup {NoCompany}]
    <3>1. LinkAsk(Choices(NameOf[r])) \in AskType
      BY ChoicesFacts, AskFacts
    <3>2. pre' \in [Runs -> PreType]
      BY <2>3, <2>pr, <3>1 DEF AskStaff, PreType
    <3>3. QED BY <2>3, <2>co, <2>ru, <3>2 DEF AskStaff, table
  <2>4. \A r \in Runs : Free(r) \in [Names -> Runs \cup {NoRun}]
    BY DEF Free, TypeOK
  <2>5. ASSUME NEW k \in FaultKinds, Strikes(k) PROVE faults' \in [FaultKinds -> Nat]
    BY <2>5 DEF Strikes, TypeOK
  <2>6. ASSUME NEW r \in Runs, Precheck(r) PROVE TypeOK'
    <3>1. CASE PrecheckResolves(r)
      <4>1. CASE \E c \in Companies : Matches(NameOf[r], c) /\ Adopt(r, c)
        BY <3>1, <4>1, <2>1 DEF PrecheckResolves, TypeOK
      <4>2. CASE AskStaff(r)
        BY <3>1, <4>2, <2>3 DEF PrecheckResolves, TypeOK
      <4>3. CASE pre' = [pre EXCEPT ![r].at = "lock"] /\ UNCHANGED table
        <5>1. pre' \in [Runs -> PreType]
          BY <4>3, <2>pr DEF PreType
        <5>2. QED BY <3>1, <4>3, <5>1 DEF PrecheckResolves, TypeOK, table
      <4>4. QED BY <3>1, <4>1, <4>2, <4>3 DEF PrecheckResolves
    <3>2. CASE TakesLock(r)
      <4>1. pre' \in [Runs -> PreType]
        BY <3>2, <2>pr DEF TakesLock, PreType
      <4>2. lock' \in [Names -> Runs \cup {NoRun}]
        BY <3>2, NamesAssumption DEF TakesLock, TypeOK
      <4>3. QED BY <3>2, <4>1, <4>2 DEF TakesLock, TypeOK
    <3>3. CASE LooksAgain(r)
      <4>1. CASE \E c \in Companies : Matches(NameOf[r], c) /\ Adopt(r, c) /\ lock' = Free(r)
        BY <3>3, <4>1, <2>1, <2>4 DEF LooksAgain, TypeOK
      <4>2. CASE AskStaff(r) /\ lock' = Free(r)
        BY <3>3, <4>2, <2>3, <2>4 DEF LooksAgain, TypeOK
      <4>3. CASE pre' = [pre EXCEPT ![r].at = "create"] /\ UNCHANGED <<company, runCompany, lock>>
        <5>1. pre' \in [Runs -> PreType]
          BY <4>3, <2>pr DEF PreType
        <5>2. QED BY <3>3, <4>3, <5>1 DEF LooksAgain, TypeOK
      <4>4. QED BY <3>3, <4>1, <4>2, <4>3 DEF LooksAgain
    <3>4. CASE CreateLands(r)
      BY <3>4, <2>2, <2>4 DEF CreateLands, TypeOK
    <3>5. CASE PrecheckObeys(r)
      <4>1. CASE \E c \in Companies : Found(r, c, FALSE)
        BY <3>5, <4>1, <2>2 DEF PrecheckObeys, TypeOK
      <4>2. CASE pre[r].ask.link # NoCompany /\ Adopt(r, pre[r].ask.link)
        <5>1. pre[r].ask.link \in Companies
          BY <4>2, <2>pr DEF PreType, AskType
        <5>2. QED BY <3>5, <4>2, <5>1, <2>1 DEF PrecheckObeys, TypeOK
      <4>3. QED BY <3>5, <4>1, <4>2 DEF PrecheckObeys
    <3>6. CASE StartFlows(r)
      <4>1. pre' \in [Runs -> PreType]
        BY <3>6, <2>pr, AskFacts DEF StartFlows, PreType
      <4>2. pre[r].company \in Companies \cup {NoCompany}
        BY <2>pr DEF PreType
      <4>3. guess' \in [Runs -> GuessType]
        <5>1. guess' = [guess EXCEPT ![r].at = "queued", ![r].company = pre[r].company]
          BY <3>6 DEF StartFlows
        <5>2. QED BY <5>1, <4>2, <2>gu, GuessUpdate DEF GuessPlaces
      <4>4. chk' \in [Runs -> ChkType]
        BY <3>6, <4>2, <2>ch DEF StartFlows, ChkType
      <4>5. QED BY <3>6, <4>1, <4>3, <4>4 DEF StartFlows, TypeOK
    <3>7. QED BY <2>6, <3>1, <3>2, <3>3, <3>4, <3>5, <3>6 DEF Precheck
  <2>7. ASSUME NEW r \in Runs, NEW q \in Qids, guess[r].company \in Companies, AskLink(r, q)
        PROVE  guess' \in [Runs -> GuessType]
    <3>1. Conflict(r, q) \cup {guess[r].company} \in SUBSET Companies
      BY <2>7, ChoicesFacts
    <3>2. LinkAsk(Conflict(r, q) \cup {guess[r].company}) \in AskType
      BY <3>1, AskFacts
    <3> DEFINE ask == LinkAsk(Conflict(r, q) \cup {guess[r].company})
               g == [[[guess[r] EXCEPT !.at = "queued"] EXCEPT !.qid = q] EXCEPT !.ask = ask]
    <3>3. guess' = [guess EXCEPT ![r] = g]
      BY <2>7, <2>gu DEF AskLink
    <3> HIDE DEF ask
    <3>4. g \in GuessType
      BY <2>gu, <3>2 DEF GuessType, ask
    <3>5. QED BY <2>gu, <3>3, <3>4
  <2>8. ASSUME NEW r \in Runs, NEW c \in Companies,
               NEW at \in {"patch", "autoPatch", "keep"}, Persist(r, at, c)
        PROVE  guess' \in [Runs -> GuessType]
    <3>1. PreferredName(c, NameOf[r]) \in Names \cup {NoName}
      BY <2>co, NamesAssumption DEF PreferredName, RowType
    <3> DEFINE n == PreferredName(c, NameOf[r])
               g == [[[guess[r] EXCEPT !.at = at] EXCEPT !.company = c] EXCEPT !.name = n]
    <3>2. guess' = [guess EXCEPT ![r] = g]
      BY <2>8, <2>gu DEF Persist
    <3> HIDE DEF n
    <3>3. g \in GuessType
      BY <2>gu, <3>1 DEF GuessType, n
    <3>4. QED BY <2>gu, <3>2, <3>3
  <2>9. ASSUME NEW r \in Runs, Retry(r) PROVE guess' \in [Runs -> GuessType]
    BY <2>9, <2>gu, GuessUpdate DEF Retry, GuessPlaces
  <2>10. ASSUME NEW r \in Runs, Swallow(r) PROVE guess' \in [Runs -> GuessType]
    <3>1. guess[r].ask.qid \in Qids \cup {NoQid}
      BY <2>gu DEF GuessType, AskType
    <3>2. WikidataAsk(guess[r].ask.qid, FALSE) \in AskType
      BY <3>1, AskFacts
    <3> DEFINE ask == WikidataAsk(guess[r].ask.qid, FALSE)
               g == [[[guess[r] EXCEPT !.at = "queued"] EXCEPT !.name = NoName] EXCEPT !.ask = ask]
    <3>3. guess' = [guess EXCEPT ![r] = g]
      BY <2>10, <2>gu DEF Swallow
    <3> HIDE DEF ask
    <3>4. g \in GuessType
      BY <2>gu, <3>2 DEF GuessType, ask
    <3>5. QED BY <2>gu, <3>3, <3>4
  <2>11. ASSUME NEW r \in Runs, Guess(r) PROVE TypeOK'
    <3>0. guess[r].ask.qid \in Qids \cup {NoQid} /\ guess[r].ask.link \in Companies \cup {NoCompany}
      BY <2>gu DEF GuessType, AskType
    <3>1. CASE SearchesWikidata(r)
      <4>1. guess[r].company \in Companies
        BY <3>1 DEF SearchesWikidata, Held, GuessOK
      <4>2. guess' \in [Runs -> GuessType]
        <5>1. CASE guess' = [guess EXCEPT ![r].at = "done", ![r].company = NoCompany]
          BY <5>1, <2>gu, GuessUpdate DEF GuessPlaces
        <5>2. CASE \E q \in Qids : AskLink(r, q)
          BY <4>1, <5>2, <2>7
        <5>3. CASE \E q \in Qids : guess' = [guess EXCEPT ![r].ask = WikidataAsk(q, FALSE)]
          <6>1. PICK a \in AskType : guess' = [guess EXCEPT ![r].ask = a]
            BY <5>3, AskFacts
          <6>2. QED BY <6>1, <2>gu DEF GuessType
        <5>4. CASE \E q \in Qids : guess' = [guess EXCEPT ![r].at = "auto", ![r].ask = WikidataAsk(q, TRUE)]
          <6>1. PICK a \in AskType : guess' = [guess EXCEPT ![r].at = "auto", ![r].ask = a]
            BY <5>4, AskFacts
          <6>2. QED BY <6>1, <2>gu DEF GuessType
        <5>5. QED BY <3>1, <5>1, <5>2, <5>3, <5>4 DEF SearchesWikidata
      <4>3. QED BY <3>1, <4>2 DEF SearchesWikidata, TypeOK
    <3>2. CASE AutoChecks(r)
      <4>1. guess[r].ask.qid \in Qids /\ guess[r].company \in Companies
        BY <3>2 DEF AutoChecks, Held, GuessOK
      <4>2. guess' \in [Runs -> GuessType]
        BY <3>2, <4>1, <2>7, <2>8 DEF AutoChecks
      <4>3. QED BY <3>2, <4>2 DEF AutoChecks, TypeOK
    <3>3. CASE TakesApproval(r)
      <4>1. guess[r].company \in Companies
        BY <3>3 DEF TakesApproval, Held, GuessOK
      <4>2. guess' \in [Runs -> GuessType]
        <5>1. CASE guess' = [guess EXCEPT ![r].at = "done", ![r].company = NoCompany]
          BY <5>1, <2>gu, GuessUpdate DEF GuessPlaces
        <5>2. CASE guess[r].ask.qid # NoQid /\ AskLink(r, guess[r].ask.qid)
          BY <3>0, <4>1, <5>2, <2>7
        <5>3. CASE Persist(r, "patch", guess[r].company)
          BY <4>1, <5>3, <2>8
        <5>4. QED BY <3>3, <5>1, <5>2, <5>3 DEF TakesApproval
      <4>3. QED BY <3>3, <4>2 DEF TakesApproval, TypeOK
    <3>4. CASE TakesLink(r)
      <4>1. guess[r].ask.link \in Companies
        BY <3>4 DEF TakesLink, Held, GuessOK
      <4>2. \/ Persist(r, "keep", guess[r].ask.link)
            \/ Persist(r, "patch", guess[r].ask.link)
        BY <3>4 DEF TakesLink
      <4>3. guess' \in [Runs -> GuessType]
        BY <4>1, <4>2, <2>8
      <4>4. QED BY <3>4, <4>3 DEF TakesLink, TypeOK
    <3>5. CASE PatchLands(r)
      <4>1. guess' \in [Runs -> GuessType]
        <5>1. PICK at \in {"autoSync", "sync"} :
                 guess' = [guess EXCEPT ![r].at = at, ![r].name = NoName]
          BY <3>5, <2>gu DEF PatchLands
        <5>2. QED BY <5>1, <2>gu, GuessUpdate DEF GuessPlaces
      <4>2. company' \in [Companies -> RowType]
        <5>1. PICK flag \in BOOLEAN, q \in Qids \cup {NoQid} :
                 company' = [company EXCEPT ![guess[r].company] =
                    IF guess[r].at = "keep" THEN Renamed(@, guess[r].name)
                    ELSE [Renamed(@, guess[r].name) EXCEPT !.qid = q, !.verified = flag]]
          <6>1. PersistedQid(r) \in Qids \cup {NoQid}
            BY <3>0, <2>gu DEF PersistedQid, GuessType
          <6>2. (guess[r].at = "patch" /\ r \notin AutoApprove) \in BOOLEAN
            BY Zenon
          <6>3. QED BY <3>5, <6>1, <6>2, Zenon DEF PatchLands
        <5>2. guess[r].company \in Companies
          BY <3>5 DEF PatchLands, Held, GuessOK
        <5>3. guess[r].name \in Names \cup {NoName}
          BY <2>gu DEF GuessType
        <5>4. Renamed(company[guess[r].company], guess[r].name) \in RowType
          BY <2>co, <5>2, <5>3 DEF Renamed, RowType
        <5> DEFINE row == Renamed(company[guess[r].company], guess[r].name)
        <5> HIDE DEF row
        <5>5. [row EXCEPT !.qid = q, !.verified = flag] \in RowType
          BY <5>4 DEF RowType, row
        <5>6. QED BY <2>co, <5>1, <5>2, <5>4, <5>5 DEF row
      <4>3. QED BY <3>5, <4>1, <4>2 DEF PatchLands, TypeOK
    <3>6. CASE PatchRejected(r)
      BY <3>6, <2>9, <2>10 DEF PatchRejected, TypeOK
    <3>7. CASE Syncs(r)
      <4>1. guess' \in [Runs -> GuessType]
        BY <3>7, <2>gu, GuessUpdate DEF Syncs, GuessPlaces
      <4>2. guess[r].company \in Companies \cup {NoCompany}
        BY <2>gu DEF GuessType
      <4>3. QED BY <3>7, <4>1, <4>2 DEF Syncs, TypeOK
    <3>8. QED BY <2>11, <3>1, <3>2, <3>3, <3>4, <3>5, <3>6, <3>7 DEF Guess
  <2>12. ASSUME NEW r \in Runs, NEW c \in Companies \cup {NoCompany}, NEW q \in Qids \cup {NoQid},
                SaveUnder(r, c, q)
         PROVE  /\ chk' \in [Runs -> ChkType] /\ company' \in [Companies -> RowType]
                /\ runCompany' \in [Runs -> Companies \cup {NoCompany}]
    <3> DEFINE k == [[[chk[r] EXCEPT !.at = "fan"] EXCEPT !.company = c] EXCEPT !.qid = q]
    <3>0. chk' = [chk EXCEPT ![r] = k]
      BY <2>12, <2>ch DEF SaveUnder
    <3>k. k \in ChkType
      BY <2>ch DEF ChkType
    <3>1. chk' \in [Runs -> ChkType]
      BY <3>0, <3>k, <2>ch
    <3>2. company' \in [Companies -> RowType]
      <4>1. company' = company \/ company' = [company EXCEPT ![c] = WithAlias(company[c], NameOf[r])]
        BY <2>12 DEF SaveUnder, table
      <4>2. c \in Companies => WithAlias(company[c], NameOf[r]) \in RowType
        BY <2>co, RowFacts, NamesAssumption
      <4>3. QED BY <4>1, <4>2, <2>co
    <3>3. runCompany' \in [Runs -> Companies \cup {NoCompany}]
      BY <2>12, <2>ru DEF SaveUnder, table
    <3>4. QED BY <3>1, <3>2, <3>3
  <2>13. ASSUME NEW r \in Runs, Check(r) PROVE TypeOK'
    <3>0. chk[r].ask.link \in Companies \cup {NoCompany} /\ chk[r].company \in Companies \cup {NoCompany}
      BY <2>ch DEF ChkType, AskType
    <3>1. CASE CheckBegins(r)
      <4>1. CanonicalCompany(r) \in Companies \cup {NoCompany}
        BY <3>0, <2>ru DEF CanonicalCompany
      <4>2. chk' \in [Runs -> ChkType]
        <5>1. PICK at \in {"queued", "resolve"} :
                 chk' = [chk EXCEPT ![r].at = at, ![r].company = CanonicalCompany(r)]
          BY <3>1 DEF CheckBegins
        <5>2. QED BY <5>1, <4>1, <2>ch DEF ChkType
      <4>3. QED BY <3>1, <4>2 DEF CheckBegins, TypeOK
    <3>2. CASE CheckObeys(r)
      <4>1. chk' \in [Runs -> ChkType]
        BY <3>2, <3>0, <2>ch DEF CheckObeys, ChkType
      <4>2. company' \in [Companies -> RowType]
        BY <3>2, <2>co, RowFacts, NamesAssumption DEF CheckObeys
      <4>3. QED BY <3>2, <3>0, <4>1, <4>2 DEF CheckObeys, TypeOK
    <3>3. CASE CheckResolves(r)
      <4> DEFINE node == IF chk[r].qid # NoQid THEN chk[r].qid ELSE NodeForThread(r)
      <4>1. node \in Qids \cup {NoQid}
        <5>1. guess[r].ask.qid \in Qids \cup {NoQid} /\ guess[r].qid \in Qids \cup {NoQid}
          BY <2>gu DEF GuessType, AskType
        <5>2. chk[r].qid \in Qids \cup {NoQid}
          BY <2>ch DEF ChkType
        <5>3. QED BY <5>1, <5>2 DEF NodeForThread
      <4>2. \/ \E c \in Companies \cup {NoCompany} : SaveUnder(r, c, node)
            \/ /\ chk' = [chk EXCEPT ![r].at = "queued", ![r].qid = node,
                                     ![r].ask = LinkAsk(Choices(NameOf[r]))]
               /\ UNCHANGED table
        BY <3>3, <3>0, ChoicesFacts DEF CheckResolves
      <4> HIDE DEF node
      <4>3. CASE \E c \in Companies \cup {NoCompany} : SaveUnder(r, c, node)
        BY <3>3, <4>1, <4>3, <2>12 DEF CheckResolves, TypeOK
      <4>4. CASE /\ chk' = [chk EXCEPT ![r].at = "queued", ![r].qid = node,
                                      ![r].ask = LinkAsk(Choices(NameOf[r]))]
                 /\ UNCHANGED table
        <5>1. LinkAsk(Choices(NameOf[r])) \in AskType
          BY ChoicesFacts, AskFacts
        <5> DEFINE a == LinkAsk(Choices(NameOf[r]))
                   k == [[[chk[r] EXCEPT !.at = "queued"] EXCEPT !.qid = node] EXCEPT !.ask = a]
        <5>k. chk' = [chk EXCEPT ![r] = k]
          BY <4>4, <2>ch
        <5> HIDE DEF a
        <5>t. k \in ChkType
          BY <4>1, <5>1, <2>ch DEF ChkType, a
        <5>2. chk' \in [Runs -> ChkType]
          BY <5>k, <5>t, <2>ch
        <5>3. QED BY <3>3, <4>4, <5>2 DEF CheckResolves, TypeOK, table
      <4>5. QED BY <4>2, <4>3, <4>4
    <3>4. CASE FansOut(r)
      <4>1. chk' \in [Runs -> ChkType]
        BY <3>4, <2>ch DEF FansOut, ChkType
      <4>2. QED BY <3>4, <4>1 DEF FansOut, TypeOK
    <3>5. QED BY <2>13, <3>1, <3>2, <3>3, <3>4 DEF Check
  <2>14. ASSUME NEW r \in Runs, StrayLands(r) PROVE TypeOK'
    <3>1. company' \in [Companies -> RowType]
      BY <2>14, <2>co, RowFacts, NamesAssumption DEF StrayLands
    <3>2. stray' \in [Runs -> Nat]
      BY <2>14 DEF StrayLands, TypeOK
    <3>3. QED BY <2>14, <3>1, <3>2 DEF StrayLands, TypeOK
  <2>15. ASSUME NEW r \in Runs, Fault(r) PROVE TypeOK'
    <3>1. CASE SearchFails(r)
      <4>1. pre' \in [Runs -> PreType]
        BY <3>1, <2>pr DEF SearchFails, PreType
      <4>2. QED BY <3>1, <4>1, <2>5 DEF SearchFails, FaultKinds, TypeOK
    <3>2. CASE TransactionEnds(r)
      <4>1. pre' \in [Runs -> PreType]
        BY <3>2, <2>pr DEF TransactionEnds, PreType
      <4>2. stray' \in [Runs -> Nat]
        BY <3>2 DEF TransactionEnds, TypeOK
      <4>3. QED BY <3>2, <4>1, <4>2, <2>4, <2>5 DEF TransactionEnds, FaultKinds, TypeOK
    <3>3. CASE OwnerLookupFails(r)
      <4>1. guess[r].company \in Companies
        BY <3>3 DEF OwnerLookupFails, Held, GuessOK
      <4>2. QED BY <3>3, <4>1, <2>5, <2>8 DEF OwnerLookupFails, FaultKinds, TypeOK
    <3>4. CASE GuessDies(r)
      BY <3>4, <2>5, <2>9, <2>10 DEF GuessDies, FaultKinds, TypeOK
    <3>5. CASE GuessFails(r)
      <4>1. guess' \in [Runs -> GuessType]
        BY <3>5, <2>gu, GuessUpdate DEF GuessFails, GuessPlaces
      <4>2. QED BY <3>5, <4>1, <2>5 DEF GuessFails, FaultKinds, TypeOK
    <3>6. CASE CheckDies(r)
      <4>1. chk' \in [Runs -> ChkType]
        BY <3>6, <2>ch DEF CheckDies, ChkType
      <4>2. QED BY <3>6, <4>1, <2>5 DEF CheckDies, FaultKinds, TypeOK
    <3>7. QED BY <2>15, <3>1, <3>2, <3>3, <3>4, <3>5, <3>6 DEF Fault
  <2>16. ASSUME NEW r \in Runs, Staff(r) PROVE TypeOK'
    <3>1. CASE StaffPrecheck(r)
      <4>1. pre[r].ask \in AskType /\ pre[r].ask.cands \subseteq Companies
        BY <2>pr DEF PreType, AskType
      <4>2. pre' \in [Runs -> PreType]
        BY <3>1, <4>1, <2>pr, AskFacts DEF StaffPrecheck, PreType
      <4>3. QED BY <3>1, <4>2 DEF StaffPrecheck, TypeOK
    <3>2. CASE StaffLink(r)
      <4>1. guess[r].qid \in Qids
        BY <3>2 DEF StaffLink, Held, GuessOK
      <4>2. guess[r].ask \in AskType /\ guess[r].ask.cands \subseteq Companies
        BY <2>gu DEF GuessType, AskType
      <4>3. guess' \in [Runs -> GuessType]
        BY <3>2, <4>2, <2>gu, AskFacts DEF StaffLink, GuessType
      <4>4. QED BY <3>2, <4>1, <4>3 DEF StaffLink, TypeOK
    <3>3. CASE StaffWikidata(r)
      <4>1. guess[r].ask.qid \in Qids
        BY <3>3 DEF StaffWikidata, Held, GuessOK
      <4>2. guess[r].ask \in AskType
        BY <2>gu DEF GuessType
      <4>3. guess' \in [Runs -> GuessType]
        <5>1. PICK a \in AskType : guess' = [guess EXCEPT ![r].ask = a]
          BY <3>3, <4>1, <4>2, AskFacts DEF StaffWikidata
        <5>2. QED BY <5>1, <2>gu DEF GuessType
      <4>4. QED BY <3>3, <4>1, <4>3 DEF StaffWikidata, TypeOK
    <3>4. CASE StaffCheck(r)
      <4>1. chk[r].ask \in AskType /\ chk[r].ask.cands \subseteq Companies
        BY <2>ch DEF ChkType, AskType
      <4>2. chk' \in [Runs -> ChkType]
        BY <3>4, <4>1, <2>ch, AskFacts DEF StaffCheck, ChkType
      <4>3. QED BY <3>4, <4>2 DEF StaffCheck, TypeOK
    <3>5. QED BY <2>16, <3>1, <3>2, <3>3, <3>4 DEF Staff
  <2>17. CASE UNCHANGED vars
    BY <2>17 DEF vars, TypeOK
  <2>18. QED BY <2>6, <2>11, <2>13, <2>14, <2>15, <2>16, <2>17 DEF Next
<1>3. TypeOK /\ Held /\ [Next]_vars => Held'
  <2> SUFFICES ASSUME TypeOK, Held, [Next]_vars PROVE Held'
    OBVIOUS
  <2>pr. pre \in [Runs -> PreType]
    BY DEF TypeOK
  <2>gu. guess \in [Runs -> GuessType]
    BY DEF TypeOK
  <2>1. ASSUME NEW r \in Runs, \A b \in Runs : b # r => guess'[b] = guess[b] /\ pre'[b] = pre[b],
               GuessOK(guess'[r]), pre'[r].at = "flows" => pre'[r].company \in Companies
        PROVE  Held'
    BY <2>1 DEF Held
  <2>2. ASSUME UNCHANGED guess, NEW r \in Runs, \A b \in Runs : b # r => pre'[b] = pre[b],
               pre'[r].at = "flows" => pre'[r].company \in Companies
        PROVE  Held'
    BY <2>2 DEF Held
  <2>3. ASSUME UNCHANGED pre, NEW r \in Runs, \A b \in Runs : b # r => guess'[b] = guess[b],
               GuessOK(guess'[r])
        PROVE  Held'
    BY <2>3 DEF Held
  <2>4. ASSUME NEW r \in Runs, Precheck(r) PROVE Held'
    <3>0. ASSUME NEW c \in Companies,
                 Adopt(r, c) \/ Found(r, c, TRUE) \/ Found(r, c, FALSE)
          PROVE  pre'[r].company \in Companies /\ \A b \in Runs : b # r => pre'[b] = pre[b]
      <4>1. pre' = [pre EXCEPT ![r].at = "flows", ![r].company = c]
        BY <3>0 DEF Adopt, Found
      <4>2. QED BY <4>1, <2>pr DEF PreType
    <3>1. CASE PrecheckResolves(r) \/ TakesLock(r) \/ LooksAgain(r) \/ CreateLands(r) \/ PrecheckObeys(r)
      <4>0. UNCHANGED guess
        BY <3>1 DEF PrecheckResolves, TakesLock, LooksAgain, CreateLands, PrecheckObeys
      <4>1. CASE \E c \in Companies : Adopt(r, c) \/ Found(r, c, TRUE) \/ Found(r, c, FALSE)
        BY <4>0, <4>1, <3>0, <2>2
      <4>2. CASE AskStaff(r)
        <5>1. pre'[r].at = "resolve" /\ \A b \in Runs : b # r => pre'[b] = pre[b]
          BY <4>2, <2>pr DEF AskStaff, PreType
        <5>2. QED BY <4>0, <5>1, <2>2
      <4>3. CASE \E at \in {"lock", "look", "create"} : pre' = [pre EXCEPT ![r].at = at]
        <5>1. pre'[r].at # "flows" /\ \A b \in Runs : b # r => pre'[b] = pre[b]
          BY <4>3, <2>pr DEF PreType
        <5>2. QED BY <4>0, <5>1, <2>2
      <4>4. pre[r].ask.link \in Companies \cup {NoCompany}
        BY <2>pr DEF PreType, AskType
      <4>5. QED BY <3>1, <4>1, <4>2, <4>3, <4>4
                DEF PrecheckResolves, TakesLock, LooksAgain, CreateLands, PrecheckObeys
    <3>2. CASE StartFlows(r)
      <4>1. pre[r].company \in Companies
        BY <3>2 DEF StartFlows, Held
      <4>2. pre'[r].at = "done" /\ \A b \in Runs : b # r => guess'[b] = guess[b] /\ pre'[b] = pre[b]
        BY <3>2, <2>pr, <2>gu DEF StartFlows
      <4>3. guess'[r] = [[guess[r] EXCEPT !.at = "queued"] EXCEPT !.company = pre[r].company]
        BY <3>2, <2>gu DEF StartFlows
      <4>4. GuessOK(guess'[r])
        BY <4>1, <4>3, <2>gu DEF Held, GuessOK, GuessType
      <4>5. QED BY <2>1, <4>2, <4>4
    <3>3. QED BY <2>4, <3>1, <3>2 DEF Precheck
  <2>a. ASSUME NEW r \in Runs, NEW q \in Qids, guess[r].company \in Companies, AskLink(r, q)
        PROVE  GuessOK(guess'[r]) /\ \A b \in Runs : b # r => guess'[b] = guess[b]
    <3> DEFINE ask == LinkAsk(Conflict(r, q) \cup {guess[r].company})
    <3>1. ask.kind = "link" /\ ~ask.ok
      BY DEF LinkAsk, NoAsk
    <3> HIDE DEF ask
    <3>2. /\ guess'[r] = [[[guess[r] EXCEPT !.at = "queued"] EXCEPT !.qid = q] EXCEPT !.ask = ask]
          /\ \A b \in Runs : b # r => guess'[b] = guess[b]
      BY <2>a, <2>gu DEF AskLink, ask
    <3>3. /\ guess'[r].at = "queued" /\ guess'[r].qid = q
          /\ guess'[r].ask = ask /\ guess'[r].company = guess[r].company
      BY <3>2, <2>gu DEF GuessType
    <3>4. QED BY <2>a, <3>1, <3>2, <3>3 DEF GuessOK
  <2>b. ASSUME NEW r \in Runs, NEW c \in Companies,
               NEW at \in {"patch", "autoPatch", "keep"}, Persist(r, at, c),
               at = "autoPatch" => guess[r].at = "auto"
        PROVE  GuessOK(guess'[r]) /\ \A b \in Runs : b # r => guess'[b] = guess[b]
    <3>1. /\ guess'[r].at = at /\ guess'[r].company = c /\ guess'[r].qid = guess[r].qid
          /\ guess'[r].ask = guess[r].ask
          /\ \A b \in Runs : b # r => guess'[b] = guess[b]
      BY <2>b, <2>gu DEF Persist, GuessType
    <3>2. QED BY <2>b, <3>1 DEF Held, GuessOK
  <2>c. ASSUME NEW r \in Runs, Retry(r), guess[r].at \notin {"off", "done", "failed"}
        PROVE  GuessOK(guess'[r]) /\ \A b \in Runs : b # r => guess'[b] = guess[b]
    <3>1. /\ guess'[r].at = "queued" /\ guess'[r].company = guess[r].company
          /\ guess'[r].qid = guess[r].qid /\ guess'[r].ask = guess[r].ask
          /\ \A b \in Runs : b # r => guess'[b] = guess[b]
      BY <2>c, <2>gu DEF Retry, GuessType
    <3>2. QED BY <2>c, <3>1 DEF Held, GuessOK
  <2>d. ASSUME NEW r \in Runs, Swallow(r)
        PROVE  GuessOK(guess'[r]) /\ \A b \in Runs : b # r => guess'[b] = guess[b]
    <3>1. /\ guess'[r].at = "queued" /\ guess'[r].company = guess[r].company
          /\ guess'[r].ask = WikidataAsk(guess[r].ask.qid, FALSE)
          /\ \A b \in Runs : b # r => guess'[b] = guess[b]
      BY <2>d, <2>gu DEF Swallow, GuessType
    <3>2. guess'[r].ask.kind = "wikidata" /\ guess'[r].ask.qid = guess[r].ask.qid
      BY <3>1 DEF WikidataAsk, NoAsk
    <3>3. guess[r].ask.qid \in Qids /\ guess[r].company \in Companies
      BY <2>d DEF Swallow, Held, GuessOK
    <3>4. QED BY <3>1, <3>2, <3>3 DEF GuessOK
  <2>5. ASSUME NEW r \in Runs, Guess(r) PROVE Held'
    <3>0. UNCHANGED pre
      BY <2>5 DEF Guess, SearchesWikidata, AutoChecks, TakesApproval, TakesLink, PatchLands,
                  PatchRejected, Syncs
    <3>a. ASSUME guess' = [guess EXCEPT ![r].at = "done", ![r].company = NoCompany]
          PROVE  GuessOK(guess'[r]) /\ \A b \in Runs : b # r => guess'[b] = guess[b]
      <4>1. /\ guess'[r].at = "done" /\ guess'[r].qid = guess[r].qid
            /\ guess'[r].ask = guess[r].ask
            /\ \A b \in Runs : b # r => guess'[b] = guess[b]
        BY <3>a, <2>gu DEF GuessType
      <4>2. QED BY <4>1 DEF Held, GuessOK
    <3>q. guess[r].ask.qid \in Qids \cup {NoQid}
      BY <2>gu DEF GuessType, AskType
    <3>1. CASE SearchesWikidata(r)
      <4>1. guess[r].company \in Companies /\ guess[r].at = "queued"
        BY <3>1 DEF SearchesWikidata, Held, GuessOK
      <4>2. CASE guess' = [guess EXCEPT ![r].at = "done", ![r].company = NoCompany]
        BY <4>2, <3>0, <3>a, <2>3
      <4>3. CASE \E q \in Qids : AskLink(r, q)
        BY <4>1, <4>3, <3>0, <2>a, <2>3
      <4>4. CASE \E q \in Qids : \/ guess' = [guess EXCEPT ![r].ask = WikidataAsk(q, FALSE)]
                                 \/ guess' = [guess EXCEPT ![r].at = "auto", ![r].ask = WikidataAsk(q, TRUE)]
        <5>1. PICK q \in Qids : \/ guess' = [guess EXCEPT ![r].ask = WikidataAsk(q, FALSE)]
                                \/ guess' = [guess EXCEPT ![r].at = "auto", ![r].ask = WikidataAsk(q, TRUE)]
          BY <4>4
        <5>2. /\ WikidataAsk(q, FALSE).kind = "wikidata" /\ WikidataAsk(q, FALSE).qid = q
              /\ WikidataAsk(q, TRUE).kind = "wikidata" /\ WikidataAsk(q, TRUE).qid = q
          BY DEF WikidataAsk, NoAsk
        <5>3. /\ guess'[r].ask.kind = "wikidata" /\ guess'[r].ask.qid = q
              /\ guess'[r].company = guess[r].company
              /\ \A b \in Runs : b # r => guess'[b] = guess[b]
          BY <5>1, <5>2, <2>gu DEF GuessType
        <5>4. GuessOK(guess'[r])
          BY <4>1, <5>3 DEF GuessOK
        <5>5. QED BY <5>3, <5>4, <3>0, <2>3
      <4>5. QED BY <3>1, <4>2, <4>3, <4>4 DEF SearchesWikidata
    <3>2. CASE AutoChecks(r)
      <4>1. guess[r].company \in Companies /\ guess[r].ask.qid \in Qids /\ guess[r].at = "auto"
        BY <3>2 DEF AutoChecks, Held, GuessOK
      <4>2. QED BY <3>2, <4>1, <3>0, <2>a, <2>b, <2>3 DEF AutoChecks
    <3>3. CASE TakesApproval(r)
      <4>1. guess[r].company \in Companies
        BY <3>3 DEF TakesApproval, Held, GuessOK
      <4>2. QED BY <3>3, <4>1, <3>0, <3>a, <3>q, <2>a, <2>b, <2>3 DEF TakesApproval
    <3>4. CASE TakesLink(r)
      <4>1. guess[r].ask.link \in Companies
        BY <3>4 DEF TakesLink, Held, GuessOK
      <4>2. Persist(r, "keep", guess[r].ask.link) \/ Persist(r, "patch", guess[r].ask.link)
        BY <3>4 DEF TakesLink
      <4>3. QED BY <4>1, <4>2, <3>0, <2>b, <2>3
    <3>5. CASE PatchLands(r)
      <4>1. /\ guess'[r].at \in {"autoSync", "sync"}
            /\ guess'[r].at = "autoSync" => guess[r].at = "autoPatch"
            /\ guess[r].at \in {"patch", "autoPatch", "keep"}
            /\ guess'[r].company = guess[r].company
            /\ guess'[r].qid = guess[r].qid /\ guess'[r].ask = guess[r].ask
            /\ \A b \in Runs : b # r => guess'[b] = guess[b]
        BY <3>5, <2>gu DEF PatchLands, GuessType
      <4>2. GuessOK(guess'[r])
        BY <4>1 DEF Held, GuessOK
      <4>3. QED BY <4>1, <4>2, <3>0, <2>3
    <3>6. CASE PatchRejected(r)
      BY <3>6, <3>0, <2>c, <2>d, <2>3 DEF PatchRejected
    <3>7. CASE Syncs(r)
      BY <3>7, <3>0, <3>a, <2>3 DEF Syncs
    <3>8. QED BY <2>5, <3>1, <3>2, <3>3, <3>4, <3>5, <3>6, <3>7 DEF Guess
  <2>6. ASSUME NEW r \in Runs, Check(r) \/ StrayLands(r) PROVE Held'
    <3>1. UNCHANGED <<pre, guess>>
      BY <2>6 DEF Check, CheckBegins, CheckObeys, CheckResolves, FansOut, StrayLands
    <3>2. QED BY <3>1 DEF Held
  <2>7. ASSUME NEW r \in Runs, Fault(r) PROVE Held'
    <3>1. CASE SearchFails(r) \/ TransactionEnds(r)
      <4>1. UNCHANGED guess /\ \E at \in {"create", "lock", "resolve"} : pre' = [pre EXCEPT ![r].at = at]
        BY <3>1, <2>pr DEF SearchFails, TransactionEnds
      <4>2. pre'[r].at # "flows" /\ \A b \in Runs : b # r => pre'[b] = pre[b]
        BY <4>1, <2>pr DEF PreType
      <4>3. QED BY <4>1, <4>2, <2>2
    <3>2. CASE OwnerLookupFails(r)
      <4>1. guess[r].company \in Companies
        BY <3>2 DEF OwnerLookupFails, Held, GuessOK
      <4>2. QED BY <3>2, <4>1, <2>b, <2>3 DEF OwnerLookupFails
    <3>3. CASE GuessDies(r)
      BY <3>3, <2>c, <2>d, <2>3 DEF GuessDies
    <3>4. CASE GuessFails(r)
      <4>1. /\ guess'[r].at = "failed" /\ guess'[r].qid = guess[r].qid
            /\ guess'[r].ask = guess[r].ask
            /\ \A b \in Runs : b # r => guess'[b] = guess[b]
        BY <3>4, <2>gu DEF GuessFails, GuessType
      <4>2. GuessOK(guess'[r])
        BY <4>1 DEF Held, GuessOK
      <4>3. QED BY <3>4, <4>1, <4>2, <2>3 DEF GuessFails
    <3>5. CASE CheckDies(r)
      BY <3>5 DEF CheckDies, Held
    <3>6. QED BY <2>7, <3>1, <3>2, <3>3, <3>4, <3>5 DEF Fault
  <2>8. ASSUME NEW r \in Runs, Staff(r) PROVE Held'
    <3>1. CASE StaffPrecheck(r)
      <4>1. UNCHANGED guess /\ \E a : pre' = [pre EXCEPT ![r].ask = a]
        BY <3>1 DEF StaffPrecheck
      <4>2. /\ pre'[r].at = pre[r].at /\ pre'[r].company = pre[r].company
            /\ \A b \in Runs : b # r => pre'[b] = pre[b]
        BY <4>1, <2>pr DEF PreType
      <4>3. QED BY <4>1, <4>2, <2>2 DEF Held
    <3>2. CASE StaffLink(r)
      <4>1. PICK c \in guess[r].ask.cands :
               guess' = [guess EXCEPT ![r].ask = Answered(guess[r].ask, c, NoQid)]
        BY <3>2 DEF StaffLink
      <4>2. guess[r].ask \in AskType /\ c \in Companies
        BY <2>gu DEF GuessType, AskType
      <4>3. /\ Answered(guess[r].ask, c, NoQid).kind = "link"
            /\ Answered(guess[r].ask, c, NoQid).link = c
            /\ Answered(guess[r].ask, c, NoQid).ok
        BY <3>2, <4>2 DEF StaffLink, Answered, AskType
      <4>4. /\ guess'[r].ask = Answered(guess[r].ask, c, NoQid) /\ guess'[r].at = "queued"
            /\ guess'[r].company = guess[r].company /\ guess'[r].qid = guess[r].qid
            /\ \A b \in Runs : b # r => guess'[b] = guess[b]
        BY <3>2, <4>1, <2>gu DEF StaffLink, GuessType
      <4>5. GuessOK(guess'[r])
        BY <3>2, <4>2, <4>3, <4>4 DEF StaffLink, Held, GuessOK
      <4>6. QED BY <3>2, <4>4, <4>5, <2>3 DEF StaffLink
    <3>3. CASE StaffWikidata(r)
      <4>1. PICK q : guess' = [guess EXCEPT ![r].ask = Answered(guess[r].ask, NoCompany, q)]
        BY <3>3 DEF StaffWikidata
      <4>2. guess[r].ask \in AskType
        BY <2>gu DEF GuessType
      <4>3. /\ Answered(guess[r].ask, NoCompany, q).kind = "wikidata"
            /\ Answered(guess[r].ask, NoCompany, q).ok
        BY <3>3, <4>2 DEF StaffWikidata, Answered, AskType
      <4>4. /\ guess'[r].ask = Answered(guess[r].ask, NoCompany, q) /\ guess'[r].at = "queued"
            /\ guess'[r].company = guess[r].company
            /\ \A b \in Runs : b # r => guess'[b] = guess[b]
        BY <3>3, <4>1, <2>gu DEF StaffWikidata, GuessType
      <4>5. GuessOK(guess'[r])
        BY <3>3, <4>3, <4>4 DEF StaffWikidata, Held, GuessOK
      <4>6. QED BY <3>3, <4>4, <4>5, <2>3 DEF StaffWikidata
    <3>4. CASE StaffCheck(r)
      BY <3>4 DEF StaffCheck, Held
    <3>5. QED BY <2>8, <3>1, <3>2, <3>3, <3>4 DEF Staff
  <2>9. CASE UNCHANGED vars
    BY <2>9 DEF vars, Held
  <2>10. QED BY <2>4, <2>5, <2>6, <2>7, <2>8, <2>9 DEF Next
<1>4. QED BY <1>1, <1>2, <1>3, PTL DEF Spec

\* Every reachable state is well typed, for any runs, companies, names, tables to start
\* from and faults: no job loses the company or the id it works with.
THEOREM TypeCorrect == Spec => []TypeOK
BY TypeInvariant, PTL

-----------------------------------------------------------------------------
(* Who holds the advisory lock on a name is between the second search and    *)
(* the end of the creation, and nobody else is, for that name.               *)
Inside(r) == pre[r].at \in {"look", "create"}
LockInv == \A r \in Runs : /\ \A n \in Names : lock[n] = r => n = NameOf[r] /\ Inside(r)
                           /\ Inside(r) => lock[NameOf[r]] = r

\* What an action does to the places of the runs and to the locks.
LEMMA PrecheckFrame ==
  ASSUME TypeOK, NEW r \in Runs, Precheck(r) \/ Fault(r) \/ Staff(r)
  PROVE  /\ \A b \in Runs : b # r => pre'[b] = pre[b]
         /\ \/ Inside(r) /\ ~Inside(r)' /\ lock' = Free(r)
            \/ ~Inside(r) /\ ~Inside(r)' /\ (lock' = lock \/ lock' = Free(r))
            \/ Inside(r) /\ Inside(r)' /\ lock' = lock
            \/ TakesLock(r)
<1>pr. pre \in [Runs -> PreType]
  BY DEF TypeOK
<1>1. ASSUME NEW c \in Companies \cup {NoCompany},
             Adopt(r, c) \/ Found(r, c, TRUE) \/ Found(r, c, FALSE)
      PROVE  ~Inside(r)' /\ \A b \in Runs : b # r => pre'[b] = pre[b]
  <2>1. pre' = [pre EXCEPT ![r].at = "flows", ![r].company = c]
    BY <1>1 DEF Adopt, Found
  <2>2. QED BY <2>1, <1>pr DEF PreType, Inside
<1>2. ASSUME AskStaff(r) PROVE ~Inside(r)' /\ \A b \in Runs : b # r => pre'[b] = pre[b]
  BY <1>2, <1>pr DEF AskStaff, PreType, Inside
<1>3. pre[r].ask.link \in Companies \cup {NoCompany}
  BY <1>pr DEF PreType, AskType
<1>4. CASE PrecheckResolves(r)
  <2>1. ~Inside(r) /\ lock' = lock
    BY <1>4 DEF PrecheckResolves, Inside
  <2>2. ~Inside(r)' /\ \A b \in Runs : b # r => pre'[b] = pre[b]
    <3>1. CASE pre' = [pre EXCEPT ![r].at = "lock"]
      BY <3>1, <1>pr DEF PreType, Inside
    <3>2. QED BY <1>4, <1>1, <1>2, <3>1 DEF PrecheckResolves
  <2>3. QED BY <2>1, <2>2
<1>5. CASE TakesLock(r)
  BY <1>5, <1>pr DEF TakesLock, PreType
<1>6. CASE LooksAgain(r)
  <2>1. Inside(r)
    BY <1>6 DEF LooksAgain, Inside
  <2>2. CASE pre' = [pre EXCEPT ![r].at = "create"] /\ lock' = lock
    BY <2>1, <2>2, <1>pr DEF PreType, Inside
  <2>3. CASE lock' = Free(r) /\ (AskStaff(r) \/ \E c \in Companies : Adopt(r, c))
    BY <2>1, <2>3, <1>1, <1>2
  <2>4. QED BY <1>6, <2>2, <2>3 DEF LooksAgain
<1>7. CASE CreateLands(r)
  <2>1. Inside(r) /\ lock' = Free(r) /\ \E c \in Companies : Found(r, c, TRUE)
    BY <1>7 DEF CreateLands, Inside
  <2>2. QED BY <2>1, <1>1
<1>8. CASE PrecheckObeys(r)
  <2>1. ~Inside(r) /\ lock' = lock
    BY <1>8 DEF PrecheckObeys, Inside
  <2>2. QED BY <1>8, <2>1, <1>1, <1>3 DEF PrecheckObeys
<1>9. CASE StartFlows(r)
  BY <1>9, <1>pr DEF StartFlows, PreType, Inside
<1>10. CASE SearchFails(r)
  BY <1>10, <1>pr DEF SearchFails, PreType, Inside
<1>11. CASE TransactionEnds(r)
  BY <1>11, <1>pr DEF TransactionEnds, PreType, Inside
<1>12. CASE OwnerLookupFails(r) \/ GuessDies(r) \/ GuessFails(r) \/ CheckDies(r)
  BY <1>12 DEF OwnerLookupFails, GuessDies, GuessFails, CheckDies, Inside
<1>13. CASE StaffPrecheck(r)
  <2>1. lock' = lock /\ \E a : pre' = [pre EXCEPT ![r].ask = a]
    BY <1>13 DEF StaffPrecheck
  <2>2. QED BY <2>1, <1>pr DEF PreType, Inside
<1>14. CASE StaffLink(r) \/ StaffWikidata(r) \/ StaffCheck(r)
  BY <1>14 DEF StaffLink, StaffWikidata, StaffCheck, Inside
<1>15. QED
  BY <1>4, <1>5, <1>6, <1>7, <1>8, <1>9, <1>10, <1>11, <1>12, <1>13, <1>14 DEF Precheck, Fault, Staff

LEMMA LockInvariant == Spec => []LockInv
<1>1. Init => LockInv
  BY SetsAssumption, NamesAssumption DEF Init, LockInv, Inside
<1>2. TypeOK /\ LockInv /\ [Next]_vars => LockInv'
  <2> SUFFICES ASSUME TypeOK, LockInv, [Next]_vars PROVE LockInv'
    OBVIOUS
  <2>1. ASSUME NEW r \in Runs, Precheck(r) \/ Fault(r) \/ Staff(r) PROVE LockInv'
    <3>1. CASE TakesLock(r)
      <4>1. /\ lock[NameOf[r]] = NoRun /\ lock' = [lock EXCEPT ![NameOf[r]] = r]
            /\ ~Inside(r) /\ Inside(r)' /\ \A b \in Runs : b # r => pre'[b] = pre[b]
        BY <3>1 DEF TakesLock, TypeOK, PreType, Inside
      <4>2. QED BY <4>1, SetsAssumption, NamesAssumption DEF LockInv, Inside, TypeOK
    <3>2. CASE ~TakesLock(r)
      <4>1. /\ \A b \in Runs : b # r => pre'[b] = pre[b]
            /\ \/ Inside(r) /\ ~Inside(r)' /\ lock' = Free(r)
               \/ ~Inside(r) /\ ~Inside(r)' /\ (lock' = lock \/ lock' = Free(r))
               \/ Inside(r) /\ Inside(r)' /\ lock' = lock
        BY <2>1, <3>2, PrecheckFrame
      <4>2. ASSUME NEW b \in Runs
            PROVE  /\ \A n \in Names : lock'[n] = b => n = NameOf[b] /\ Inside(b)'
                   /\ Inside(b)' => lock'[NameOf[b]] = b
        <5>1. CASE b = r
          BY <4>1, <5>1, SetsAssumption, NamesAssumption DEF LockInv, Free, TypeOK
        <5>2. CASE b # r
          <6>1. Inside(b)' <=> Inside(b)
            BY <4>1, <5>2 DEF Inside
          <6>2. QED BY <4>1, <5>2, <6>1, SetsAssumption, NamesAssumption DEF LockInv, Free, TypeOK
        <5>3. QED BY <5>1, <5>2
      <4>3. QED BY <4>2 DEF LockInv
    <3>3. QED BY <3>1, <3>2
  <2>2. ASSUME NEW r \in Runs, Guess(r) \/ Check(r) \/ StrayLands(r) PROVE LockInv'
    <3>1. UNCHANGED <<pre, lock>>
      BY <2>2 DEF Guess, SearchesWikidata, AutoChecks, TakesApproval, TakesLink, PatchLands,
                  PatchRejected, Syncs, Check, CheckBegins, CheckObeys, CheckResolves, FansOut, StrayLands
    <3>2. QED BY <3>1 DEF LockInv, Inside
  <2>3. CASE UNCHANGED vars
    BY <2>3 DEF vars, LockInv, Inside
  <2>4. QED BY <2>1, <2>2, <2>3 DEF Next
<1>3. QED BY <1>1, <1>2, TypeInvariant, PTL DEF Spec

-----------------------------------------------------------------------------
(* One row per new name.                                                     *)

LEMMA FreshRows ==
  ASSUME NEW row \in RowType, NEW n
  PROVE  /\ WithAlias(row, n).fresh => row.fresh
         /\ WithAlias(row, n).name = row.name
         /\ Renamed(row, n).fresh => row.fresh
         /\ Renamed(row, n).fresh => Renamed(row, n).name = row.name
<1>1. CASE row.name = n
  BY <1>1 DEF WithAlias, Renamed
<1>2. CASE row.name # n
  <2>1. WithAlias(row, n) = [row EXCEPT !.alts = row.alts \cup {n}]
    BY <1>2 DEF WithAlias
  <2>2. Renamed(row, n) = [[row EXCEPT !.name = n] EXCEPT !.fresh = FALSE]
    BY <1>2 DEF Renamed
  <2>3. WithAlias(row, n).fresh = row.fresh /\ WithAlias(row, n).name = row.name
    BY <2>1 DEF RowType
  <2>4. ~Renamed(row, n).fresh
    BY <2>2 DEF RowType
  <2>5. QED BY <2>3, <2>4
<1>3. QED BY <1>1, <1>2

LEMMA NewRows ==
  /\ \A n : ~NewRow(n, FALSE).fresh
  /\ \A n : NewRow(n, TRUE).fresh /\ NewRow(n, TRUE).name = n
BY DEF NewRow

\* No action but the creations makes a row that counts.
LEMMA FreshFrame ==
  ASSUME TypeOK, Held, NEW r \in Runs,
         \/ Precheck(r) /\ ~CreateLands(r)
         \/ Guess(r) \/ Check(r) \/ Fault(r) \/ Staff(r)
  PROVE  \A c \in Companies : company'[c].fresh => company[c].fresh /\ company'[c].name = company[c].name
<1>co. company \in [Companies -> RowType]
  BY DEF TypeOK
<1>1. CASE UNCHANGED company
  BY <1>1
<1>2. ASSUME NEW d \in Companies \cup {NoCompany}, NEW n,
             \/ company' = [company EXCEPT ![d] = WithAlias(company[d], n)]
             \/ company' = [company EXCEPT ![d] = NewRow(n, FALSE)]
             \/ company' = [company EXCEPT ![d] = Renamed(company[d], n)]
      PROVE  \A c \in Companies : company'[c].fresh => company[c].fresh /\ company'[c].name = company[c].name
  <2>1. PICK row : /\ company' = [company EXCEPT ![d] = row]
                   /\ d \in Companies => (row.fresh => company[d].fresh /\ row.name = company[d].name)
    <3>1. CASE company' = [company EXCEPT ![d] = WithAlias(company[d], n)]
      <4>1. ASSUME d \in Companies
            PROVE  WithAlias(company[d], n).fresh =>
                      company[d].fresh /\ WithAlias(company[d], n).name = company[d].name
        <5> DEFINE row == company[d]
        <5>1. row \in RowType
          BY <1>co, <4>1
        <5> HIDE DEF row
        <5>2. WithAlias(row, n).fresh => row.fresh /\ WithAlias(row, n).name = row.name
          BY <5>1, FreshRows, Zenon
        <5>3. QED BY <5>2 DEF row
      <4>2. QED BY <3>1, <4>1
    <3>2. CASE company' = [company EXCEPT ![d] = NewRow(n, FALSE)]
      BY <3>2, NewRows
    <3>3. CASE company' = [company EXCEPT ![d] = Renamed(company[d], n)]
      <4>1. ASSUME d \in Companies
            PROVE  Renamed(company[d], n).fresh =>
                      company[d].fresh /\ Renamed(company[d], n).name = company[d].name
        <5> DEFINE row == company[d]
        <5>1. row \in RowType
          BY <1>co, <4>1
        <5> HIDE DEF row
        <5>2. Renamed(row, n).fresh => row.fresh /\ Renamed(row, n).name = row.name
          BY <5>1, FreshRows, Zenon
        <5>3. QED BY <5>2 DEF row
      <4>2. QED BY <3>3, <4>1
    <3>4. QED BY <1>2, <3>1, <3>2, <3>3
  <2>2. QED BY <2>1, <1>co
<1>3. ASSUME NEW d, Adopt(r, d)
      PROVE company' = [company EXCEPT ![d] = WithAlias(company[d], NameOf[r])]
  BY <1>3 DEF Adopt
<1>4. ASSUME NEW d, Found(r, d, FALSE)
      PROVE company' = [company EXCEPT ![d] = NewRow(NameOf[r], FALSE)]
  BY <1>4 DEF Found
<1>5. CASE Precheck(r) /\ ~CreateLands(r)
  <2>1. pre[r].ask.link \in Companies \cup {NoCompany}
    BY DEF TypeOK, PreType, AskType
  <2>2. \/ UNCHANGED company
        \/ \E d \in Companies \cup {NoCompany} : Adopt(r, d) \/ Found(r, d, FALSE)
    BY <1>5, <2>1 DEF Precheck, PrecheckResolves, TakesLock, LooksAgain, PrecheckObeys, StartFlows,
                      AskStaff, table
  <2>3. QED BY <1>1, <1>2, <1>3, <1>4, <2>2
<1>6. CASE Guess(r)
  <2>1. CASE PatchLands(r)
    <3>1. guess[r].company \in Companies
      BY <2>1 DEF PatchLands, Held, GuessOK
    <3> DEFINE d == guess[r].company
               new == Renamed(company[d], guess[r].name)
    <3>2. PICK flag, q :
            company' = [company EXCEPT ![d] = IF guess[r].at = "keep" THEN new
                           ELSE [[new EXCEPT !.qid = q] EXCEPT !.verified = flag]]
      BY <2>1, Zenon DEF PatchLands
    <3>n. guess[r].name \in Names \cup {NoName} /\ company[d] \in RowType
      BY <1>co, <3>1 DEF TypeOK, GuessType
    <3>3. new \in RowType
      BY <3>n DEF Renamed, RowType
    <3>4. new.fresh => company[d].fresh /\ new.name = company[d].name
      <4> HIDE DEF d
      <4>1. QED BY <3>n, FreshRows, Zenon DEF new
    <3> HIDE DEF new
    <3>5. /\ [[new EXCEPT !.qid = q] EXCEPT !.verified = flag].fresh = new.fresh
          /\ [[new EXCEPT !.qid = q] EXCEPT !.verified = flag].name = new.name
      BY <3>3 DEF RowType
    <3>6. QED BY <1>co, <3>1, <3>2, <3>4, <3>5
  <2>2. CASE ~PatchLands(r)
    BY <1>6, <2>2, <1>1 DEF Guess, SearchesWikidata, AutoChecks, TakesApproval, TakesLink,
                            PatchRejected, Syncs
  <2>3. QED BY <2>1, <2>2
<1>7. CASE Check(r)
  <2>1. chk[r].ask.link \in Companies \cup {NoCompany} /\ chk[r].company \in Companies \cup {NoCompany}
    BY DEF TypeOK, ChkType, AskType
  <2>2. \/ UNCHANGED company
        \/ \E d \in Companies \cup {NoCompany} :
              company' = [company EXCEPT ![d] = WithAlias(company[d], NameOf[r])]
    <3>1. ASSUME NEW d, NEW q, SaveUnder(r, d, q)
          PROVE  \/ UNCHANGED company
                 \/ company' = [company EXCEPT ![d] = WithAlias(company[d], NameOf[r])]
      BY <3>1 DEF SaveUnder, table
    <3>2. CASE CheckResolves(r)
      BY <3>2, <3>1, <2>1, ChoicesFacts DEF CheckResolves, table
    <3>3. QED BY <1>7, <2>1, <3>2 DEF Check, CheckBegins, CheckObeys, FansOut
  <2>3. QED BY <1>1, <1>2, <2>2
<1>8. CASE Fault(r) \/ Staff(r)
  BY <1>8, <1>1 DEF Fault, SearchFails, TransactionEnds, OwnerLookupFails, GuessDies, GuessFails,
     CheckDies, Staff, StaffPrecheck, StaffLink, StaffWikidata, StaffCheck
<1>9. QED BY <1>5, <1>6, <1>7, <1>8

Quiet == faults["lookup"] = 0 /\ faults["lock"] = 0
ShellInv ==
  Quiet => /\ \A r \in Runs : stray[r] = 0
           /\ \A r \in Runs : pre[r].at = "create" =>
                 \A c \in Companies : company[c].fresh => company[c].name # NameOf[r]
           /\ \A c, d \in Companies :
                 company[c].fresh /\ company[d].fresh /\ company[c].name = company[d].name => c = d

LEMMA ShellInvariant == Spec => []ShellInv
<1>1. Init => ShellInv
  BY SeedsAssumption DEF Init, ShellInv
<1>2. TypeOK /\ Held /\ LockInv /\ ShellInv /\ [Next]_vars => ShellInv'
  <2> SUFFICES ASSUME TypeOK, Held, LockInv, ShellInv, [Next]_vars, Quiet' PROVE ShellInv'
    BY DEF ShellInv
  <2>0. ASSUME Quiet,
               \A r \in Runs : stray'[r] = 0,
               \A r \in Runs : pre'[r].at = "create" =>
                   \/ pre[r].at = "create"
                   \/ \A c \in Companies : company[c].fresh => company[c].name # NameOf[r],
               \A c \in Companies : company'[c].fresh => company[c].fresh /\ company'[c].name = company[c].name
        PROVE  ShellInv'
    BY <2>0 DEF ShellInv
  <2>1. ASSUME NEW k \in FaultKinds, Strikes(k) PROVE k = "death" /\ Quiet
    BY <2>1 DEF Strikes, Quiet, TypeOK, FaultKinds
  <2>2. ASSUME NEW r \in Runs, CreateLands(r) PROVE ShellInv'
    <3>1. PICK d \in Companies :
            /\ company' = [company EXCEPT ![d] = NewRow(NameOf[r], TRUE)]
            /\ pre' = [pre EXCEPT ![r].at = "flows", ![r].company = d]
      BY <2>2 DEF CreateLands, Found
    <3>2. Quiet /\ UNCHANGED stray
      BY <2>2 DEF CreateLands, Quiet
    <3>3. \A b \in Runs : pre'[b].at = "create" => b # r /\ pre[b].at = "create"
      BY <3>1 DEF TypeOK, PreType
    <3>4. \A c \in Companies : \/ c = d /\ company'[c].name = NameOf[r]
                               \/ c # d /\ company'[c] = company[c]
      BY <3>1, NewRows DEF TypeOK
    <3>5. \A b \in Runs : b # r /\ pre[b].at = "create" => NameOf[b] # NameOf[r]
      BY <2>2 DEF CreateLands, LockInv, Inside
    <3>6. \A c \in Companies : company[c].fresh => company[c].name # NameOf[r]
      BY <2>2, <3>2 DEF CreateLands, ShellInv
    <3>7. QED BY <3>2, <3>3, <3>4, <3>5, <3>6 DEF ShellInv
  <2>3. ASSUME NEW r \in Runs, Precheck(r), ~CreateLands(r) PROVE ShellInv'
    <3>1. Quiet /\ UNCHANGED stray
      BY <2>3 DEF Precheck, PrecheckResolves, TakesLock, LooksAgain, PrecheckObeys, StartFlows, Quiet
    <3>2. \A b \in Runs : b # r => pre'[b] = pre[b]
      BY <2>3, PrecheckFrame
    <3>3. pre'[r].at = "create" =>
            \A c \in Companies : company[c].fresh => company[c].name # NameOf[r]
      <4>1. CASE LooksAgain(r) /\ Hits(NameOf[r]) = {}
        <5>1. NameOf[r] \in Names
          BY NamesAssumption
        <5>2. ASSUME NEW c \in Companies, company[c].name = NameOf[r] PROVE FALSE
          <6>1. c \in Hits(NameOf[r])
            BY <5>1, <5>2, SetsAssumption DEF Hits, Exists, KnownAs
          <6>2. QED BY <4>1, <6>1
        <5>3. QED BY <5>2
      <4>2. CASE ~(LooksAgain(r) /\ Hits(NameOf[r]) = {})
        <5>1. ASSUME NEW c \in Companies \cup {NoCompany}, Adopt(r, c) \/ Found(r, c, FALSE)
              PROVE  pre'[r].at # "create"
          <6>1. pre' = [pre EXCEPT ![r].at = "flows", ![r].company = c]
            BY <5>1 DEF Adopt, Found
          <6>2. QED BY <6>1 DEF TypeOK, PreType
        <5>2. ASSUME AskStaff(r) PROVE pre'[r].at # "create"
          BY <5>2 DEF AskStaff, TypeOK, PreType
        <5>3. ASSUME pre' = [pre EXCEPT ![r].at = "lock"] PROVE pre'[r].at # "create"
          BY <5>3 DEF TypeOK, PreType
        <5>4. ASSUME TakesLock(r) \/ StartFlows(r) PROVE pre'[r].at # "create"
          BY <5>4 DEF TakesLock, StartFlows, TypeOK, PreType
        <5>5. pre[r].ask.link \in Companies \cup {NoCompany}
          BY DEF TypeOK, PreType, AskType
        <5>6. QED BY <2>3, <4>2, <5>1, <5>2, <5>3, <5>4, <5>5
                  DEF Precheck, PrecheckResolves, LooksAgain, PrecheckObeys
      <4>3. QED BY <4>1, <4>2
    <3>4. \A c \in Companies : company'[c].fresh => company[c].fresh /\ company'[c].name = company[c].name
      BY <2>3, FreshFrame
    <3>5. QED BY <2>0, <3>1, <3>2, <3>3, <3>4 DEF ShellInv
  <2>4. ASSUME NEW r \in Runs, StrayLands(r) PROVE ShellInv'
    BY <2>4 DEF StrayLands, ShellInv, Quiet
  <2>5. ASSUME NEW r \in Runs, Guess(r) \/ Check(r) PROVE ShellInv'
    <3>1. Quiet /\ UNCHANGED <<stray, pre>>
      BY <2>5 DEF Guess, SearchesWikidata, AutoChecks, TakesApproval, TakesLink, PatchLands, Quiet,
                  PatchRejected, Syncs, Check, CheckBegins, CheckObeys, CheckResolves, FansOut
    <3>2. QED BY <2>0, <2>5, <3>1, FreshFrame DEF ShellInv
  <2>6. ASSUME NEW r \in Runs, Fault(r) PROVE ShellInv'
    <3>1. Quiet /\ (GuessDies(r) \/ GuessFails(r) \/ CheckDies(r))
      BY <2>1, <2>6 DEF Fault, SearchFails, TransactionEnds, OwnerLookupFails, GuessDies, GuessFails,
                        CheckDies, FaultKinds
    <3>2. UNCHANGED <<stray, pre>>
      BY <3>1 DEF GuessDies, GuessFails, CheckDies
    <3>3. QED BY <2>0, <2>6, <3>1, <3>2, FreshFrame DEF ShellInv
  <2>7. ASSUME NEW r \in Runs, Staff(r) PROVE ShellInv'
    <3>1. Quiet /\ UNCHANGED stray
      BY <2>7 DEF Staff, StaffPrecheck, StaffLink, StaffWikidata, StaffCheck, Quiet
    <3>2. \A b \in Runs : pre'[b].at = pre[b].at
      <4>1. pre' = pre \/ \E a : pre' = [pre EXCEPT ![r].ask = a]
        BY <2>7 DEF Staff, StaffPrecheck, StaffLink, StaffWikidata, StaffCheck
      <4>2. QED BY <4>1 DEF TypeOK, PreType
    <3>3. QED BY <2>0, <2>7, <3>1, <3>2, FreshFrame DEF ShellInv
  <2>8. CASE UNCHANGED vars
    BY <2>8 DEF vars, ShellInv, Quiet
  <2>9. QED BY <2>2, <2>3, <2>4, <2>5, <2>6, <2>7, <2>8 DEF Next
<1>3. QED BY <1>1, <1>2, TypeInvariant, LockInvariant, PTL DEF Spec

\* As long as no search has failed and no transaction has ended under its holder, no two rows
\* bear the same name under which precheck created them: the second search under the
\* lock is what keeps concurrent runs apart, for any number of them.
THEOREM ShellsAreShared == Spec => []OneShellPerName
<1>1. ShellInv => OneShellPerName
  BY DEF ShellInv, OneShellPerName, Quiet
<1>2. QED BY <1>1, ShellInvariant, PTL

-----------------------------------------------------------------------------
(* The company staff chose for the save.                                     *)

\* A checkDB job has no open question, and no answered one, while it resolves.
ChkOK(k) == /\ k.at \in {"fan", "done"} /\ k.ask.ok => k.company = k.ask.link
            /\ k.at = "resolve" => ~k.ask.ok
            /\ k.at # "queued" /\ ~k.ask.ok => k.ask.kind = "none"
ChkInv == \A r \in Runs : ChkOK(chk[r])

\* The save of a run goes to the company staff chose in checkDB, whatever guessWikidata, other
\* runs and crashes do in between.
THEOREM SaveChoiceKept == Spec => []SaveChoiceStands
<1>1. Init => ChkInv
  BY DEF Init, ChkInv, ChkOK, NoAsk
<1>2. TypeOK /\ ChkInv /\ [Next]_vars => ChkInv'
  <2> SUFFICES ASSUME TypeOK, ChkInv, [Next]_vars PROVE ChkInv'
    OBVIOUS
  <2>ch. chk \in [Runs -> ChkType]
    BY DEF TypeOK
  <2>0. ASSUME UNCHANGED chk PROVE ChkInv'
    BY <2>0 DEF ChkInv
  <2>1. ASSUME NEW r \in Runs, \A b \in Runs : b # r => chk'[b] = chk[b], ChkOK(chk'[r])
        PROVE  ChkInv'
    BY <2>1 DEF ChkInv
  <2>2. ASSUME NEW r \in Runs, Precheck(r) PROVE ChkInv'
    <3>1. CASE StartFlows(r)
      <4>1. /\ chk'[r].at = "queued"
            /\ \A b \in Runs : b # r => chk'[b] = chk[b]
        BY <3>1, <2>ch DEF StartFlows, ChkType
      <4>2. QED BY <4>1, <2>1 DEF ChkOK
    <3>2. CASE ~StartFlows(r)
      BY <2>2, <3>2, <2>0 DEF Precheck, PrecheckResolves, TakesLock, LooksAgain, CreateLands, PrecheckObeys
    <3>3. QED BY <3>1, <3>2
  <2>3. ASSUME NEW r \in Runs, Check(r) PROVE ChkInv'
    <3>1. CASE CheckBegins(r)
      <4>1. /\ chk'[r].at = IF Pending(chk[r].ask) THEN "queued" ELSE "resolve"
            /\ chk'[r].ask = chk[r].ask /\ ~chk[r].ask.ok
            /\ \A b \in Runs : b # r => chk'[b] = chk[b]
        BY <3>1, <2>ch DEF CheckBegins, ChkType
      <4>2. ChkOK(chk'[r])
        BY <4>1 DEF ChkOK, Pending
      <4>3. QED BY <4>1, <4>2, <2>1
    <3>2. CASE CheckObeys(r)
      <4>1. /\ chk'[r].at = "fan" /\ chk'[r].company = chk[r].ask.link
            /\ chk'[r].ask = chk[r].ask /\ chk[r].ask.ok
            /\ \A b \in Runs : b # r => chk'[b] = chk[b]
        BY <3>2, <2>ch DEF CheckObeys, ChkType
      <4>2. ChkOK(chk'[r])
        BY <4>1 DEF ChkOK
      <4>3. QED BY <4>1, <4>2, <2>1
    <3>3. CASE CheckResolves(r)
      <4> DEFINE node == IF chk[r].qid # NoQid THEN chk[r].qid ELSE NodeForThread(r)
      <4>1. \/ \E c : SaveUnder(r, c, node)
            \/ chk' = [chk EXCEPT ![r].at = "queued", ![r].qid = node,
                                 ![r].ask = LinkAsk(Choices(NameOf[r]))]
        BY <3>3 DEF CheckResolves
      <4> HIDE DEF node
      <4>2. CASE \E c : SaveUnder(r, c, node)
        <5>1. /\ chk'[r].at = "fan" /\ chk'[r].ask = chk[r].ask /\ chk[r].at = "resolve"
              /\ \A b \in Runs : b # r => chk'[b] = chk[b]
          <6>1. PICK c : chk' = [chk EXCEPT ![r].at = "fan", ![r].company = c, ![r].qid = node]
            BY <4>2 DEF SaveUnder
          <6>2. chk'[r].at = "fan" /\ chk'[r].ask = chk[r].ask /\ \A b \in Runs : b # r => chk'[b] = chk[b]
            BY <6>1, <2>ch DEF ChkType
          <6>3. QED BY <3>3, <6>2 DEF CheckResolves
        <5>2. ChkOK(chk'[r])
          BY <5>1 DEF ChkOK, ChkInv
        <5>3. QED BY <5>1, <5>2, <2>1
      <4>3. CASE chk' = [chk EXCEPT ![r].at = "queued", ![r].qid = node,
                                  ![r].ask = LinkAsk(Choices(NameOf[r]))]
        <5>1. /\ chk'[r].at = "queued" /\ \A b \in Runs : b # r => chk'[b] = chk[b]
          BY <4>3, <2>ch DEF ChkType
        <5>2. QED BY <5>1, <2>1 DEF ChkOK
      <4>4. QED BY <4>1, <4>2, <4>3
    <3>4. CASE FansOut(r)
      <4>1. /\ chk'[r].at = "done" /\ chk'[r].company = chk[r].company
            /\ chk'[r].ask = chk[r].ask /\ chk[r].at = "fan"
            /\ \A b \in Runs : b # r => chk'[b] = chk[b]
        BY <3>4, <2>ch DEF FansOut, ChkType
      <4>2. ChkOK(chk'[r])
        BY <4>1 DEF ChkOK, ChkInv
      <4>3. QED BY <4>1, <4>2, <2>1
    <3>5. QED BY <2>3, <3>1, <3>2, <3>3, <3>4 DEF Check
  <2>4. ASSUME NEW r \in Runs, Guess(r) \/ StrayLands(r) PROVE ChkInv'
    BY <2>4, <2>0 DEF Guess, SearchesWikidata, AutoChecks, TakesApproval, TakesLink, PatchLands,
                      PatchRejected, Syncs, StrayLands
  <2>5. ASSUME NEW r \in Runs, Fault(r) PROVE ChkInv'
    <3>1. CASE CheckDies(r)
      <4>1. chk'[r].at = "queued" /\ \A b \in Runs : b # r => chk'[b] = chk[b]
        BY <3>1, <2>ch DEF CheckDies, ChkType
      <4>2. QED BY <4>1, <2>1 DEF ChkOK
    <3>2. CASE ~CheckDies(r)
      BY <2>5, <3>2, <2>0 DEF Fault, SearchFails, TransactionEnds, OwnerLookupFails, GuessDies, GuessFails
    <3>3. QED BY <3>1, <3>2
  <2>6. ASSUME NEW r \in Runs, Staff(r) PROVE ChkInv'
    <3>1. CASE StaffCheck(r)
      <4>1. /\ chk'[r].at = chk[r].at /\ \A b \in Runs : b # r => chk'[b] = chk[b]
        BY <3>1, <2>ch DEF StaffCheck, ChkType
      <4>2. chk[r].at = "queued"
        BY <3>1 DEF StaffCheck, ChkInv, ChkOK
      <4>3. QED BY <4>1, <4>2, <2>1 DEF ChkOK
    <3>2. CASE ~StaffCheck(r)
      BY <2>6, <3>2, <2>0 DEF Staff, StaffPrecheck, StaffLink, StaffWikidata
    <3>3. QED BY <3>1, <3>2
  <2>7. CASE UNCHANGED vars
    BY <2>7, <2>0 DEF vars
  <2>8. QED BY <2>2, <2>3, <2>4, <2>5, <2>6, <2>7 DEF Next
<1>3. ChkInv => SaveChoiceStands
  BY DEF ChkInv, ChkOK, SaveChoiceStands
<1>4. QED BY <1>1, <1>2, <1>3, TypeInvariant, PTL DEF Spec

-----------------------------------------------------------------------------
(* Verified Wikidata ids.                                                    *)

\* A guessWikidata job is untouched until the flows start.
Unstarted == \A r \in Runs : pre[r].at # "done" => guess[r].at = "off" /\ guess[r].ask.kind = "none"

LEMMA UnstartedInvariant == Spec => []Unstarted
<1>1. Init => Unstarted
  BY DEF Init, Unstarted, NoAsk
<1>2. TypeOK /\ Unstarted /\ [Next]_vars => Unstarted'
  <2> SUFFICES ASSUME TypeOK, Unstarted, [Next]_vars PROVE Unstarted'
    OBVIOUS
  <2>pr. pre \in [Runs -> PreType]
    BY DEF TypeOK
  <2>gu. guess \in [Runs -> GuessType]
    BY DEF TypeOK
  <2>0. ASSUME NEW r \in Runs, pre[r].at # "done", UNCHANGED guess, \A b \in Runs : b # r => pre'[b] = pre[b]
        PROVE  Unstarted'
    BY <2>0 DEF Unstarted
  <2>1. ASSUME NEW r \in Runs, guess[r].at # "off", UNCHANGED pre,
               \A b \in Runs : b # r => guess'[b] = guess[b]
        PROVE  Unstarted'
    BY <2>1 DEF Unstarted
  <2>2. ASSUME UNCHANGED <<pre, guess>> PROVE Unstarted'
    BY <2>2 DEF Unstarted
  <2>3. ASSUME NEW r \in Runs, Precheck(r) PROVE Unstarted'
    <3>1. \A b \in Runs : b # r => pre'[b] = pre[b]
      BY <2>3, PrecheckFrame
    <3>2. CASE StartFlows(r)
      <4>1. pre'[r].at = "done" /\ \A b \in Runs : b # r => guess'[b] = guess[b]
        BY <3>2, <2>pr, <2>gu DEF StartFlows
      <4>2. QED BY <3>1, <4>1 DEF Unstarted
    <3>3. CASE ~StartFlows(r)
      <4>1. pre[r].at # "done" /\ UNCHANGED guess
        BY <2>3, <3>3 DEF Precheck, PrecheckResolves, TakesLock, LooksAgain, CreateLands, PrecheckObeys
      <4>2. QED BY <2>0, <3>1, <4>1
    <3>4. QED BY <3>2, <3>3
  <2>4. ASSUME NEW r \in Runs, Guess(r) PROVE Unstarted'
    <3>1. guess[r].at # "off" /\ UNCHANGED pre
      BY <2>4 DEF Guess, SearchesWikidata, AutoChecks, TakesApproval, TakesLink, PatchLands,
                  PatchRejected, Syncs
    <3>2. \A b \in Runs : b # r => guess'[b] = guess[b]
      BY <2>4, <2>gu DEF Guess, SearchesWikidata, AutoChecks, TakesApproval, TakesLink, PatchLands,
                  PatchRejected, Syncs, AskLink, Persist, Retry, Swallow
    <3>3. QED BY <2>1, <3>1, <3>2
  <2>5. ASSUME NEW r \in Runs, Check(r) \/ StrayLands(r) PROVE Unstarted'
    BY <2>5, <2>2 DEF Check, CheckBegins, CheckObeys, CheckResolves, FansOut, StrayLands
  <2>6. ASSUME NEW r \in Runs, Fault(r) PROVE Unstarted'
    <3>1. CASE SearchFails(r) \/ TransactionEnds(r)
      <4>1. pre[r].at # "done" /\ UNCHANGED guess
        BY <3>1 DEF SearchFails, TransactionEnds
      <4>2. QED BY <2>0, <2>6, <4>1, PrecheckFrame
    <3>2. CASE OwnerLookupFails(r) \/ GuessDies(r) \/ GuessFails(r)
      <4>1. guess[r].at # "off" /\ UNCHANGED pre
        BY <3>2 DEF OwnerLookupFails, GuessDies, GuessFails
      <4>2. \A b \in Runs : b # r => guess'[b] = guess[b]
        BY <3>2, <2>gu DEF OwnerLookupFails, GuessDies, GuessFails, Persist, Retry, Swallow
      <4>3. QED BY <2>1, <4>1, <4>2
    <3>3. CASE CheckDies(r)
      BY <3>3, <2>2 DEF CheckDies
    <3>4. QED BY <2>6, <3>1, <3>2, <3>3 DEF Fault
  <2>7. ASSUME NEW r \in Runs, Staff(r) PROVE Unstarted'
    <3>1. CASE StaffPrecheck(r)
      <4>1. UNCHANGED guess /\ \E a : pre' = [pre EXCEPT ![r].ask = a]
        BY <3>1 DEF StaffPrecheck
      <4>2. \A b \in Runs : pre'[b].at = pre[b].at
        BY <4>1, <2>pr DEF PreType
      <4>3. QED BY <4>1, <4>2 DEF Unstarted
    <3>2. CASE StaffLink(r) \/ StaffWikidata(r)
      <4>1. guess[r].at # "off" /\ UNCHANGED pre /\ \A b \in Runs : b # r => guess'[b] = guess[b]
        BY <3>2, <2>gu DEF StaffLink, StaffWikidata
      <4>2. QED BY <2>1, <4>1
    <3>3. CASE StaffCheck(r)
      BY <3>3, <2>2 DEF StaffCheck
    <3>4. QED BY <2>7, <3>1, <3>2, <3>3 DEF Staff
  <2>8. CASE UNCHANGED vars
    BY <2>8, <2>2 DEF vars
  <2>9. QED BY <2>3, <2>4, <2>5, <2>6, <2>7, <2>8 DEF Next
<1>3. QED BY <1>1, <1>2, TypeInvariant, PTL DEF Spec

\* Verified ids come from the requests of guessWikidata only.
LEMMA VerifiedFrame ==
  ASSUME TypeOK, NEW r \in Runs, ~PatchLands(r),
         Precheck(r) \/ Guess(r) \/ Check(r) \/ StrayLands(r) \/ Fault(r) \/ Staff(r)
  PROVE  \A c \in Companies : company'[c].verified => company[c].verified /\ company'[c].qid = company[c].qid
<1>co. company \in [Companies -> RowType]
  BY DEF TypeOK
<1>1. CASE UNCHANGED company
  BY <1>1
<1>2. ASSUME NEW d, NEW n, company' = [company EXCEPT ![d] = WithAlias(company[d], n)]
      PROVE  \A c \in Companies : company'[c].verified => company[c].verified /\ company'[c].qid = company[c].qid
  <2>1. \A row \in RowType : WithAlias(row, n).verified => row.verified /\ WithAlias(row, n).qid = row.qid
    <3>1. ASSUME NEW row \in RowType
          PROVE  WithAlias(row, n).verified => row.verified /\ WithAlias(row, n).qid = row.qid
      <4>1. WithAlias(row, n) = row \/ WithAlias(row, n) = [row EXCEPT !.alts = row.alts \cup {n}]
        BY DEF WithAlias
      <4>2. QED BY <4>1 DEF RowType
    <3>2. QED BY <3>1, Zenon
  <2> DEFINE new == WithAlias(company[d], n)
  <2>2. d \in Companies => (new.verified => company[d].verified /\ new.qid = company[d].qid)
    BY <2>1, <1>co, Zenon
  <2>3. company' = [company EXCEPT ![d] = new]
    BY <1>2
  <2> HIDE DEF new
  <2>4. QED BY <2>2, <2>3, <1>co
<1>3. ASSUME NEW d, NEW n, NEW byPrecheck, company' = [company EXCEPT ![d] = NewRow(n, byPrecheck)]
      PROVE  \A c \in Companies : company'[c].verified => company[c].verified /\ company'[c].qid = company[c].qid
  <2>1. ~NewRow(n, byPrecheck).verified
    BY DEF NewRow
  <2>2. QED BY <1>3, <1>co, <2>1
<1>4. CASE Precheck(r)
  <2>1. \/ UNCHANGED company
        \/ \E d : company' = [company EXCEPT ![d] = WithAlias(company[d], NameOf[r])]
        \/ \E d, byPrecheck : company' = [company EXCEPT ![d] = NewRow(NameOf[r], byPrecheck)]
    BY <1>4 DEF Precheck, PrecheckResolves, TakesLock, LooksAgain, CreateLands, PrecheckObeys, StartFlows,
                AskStaff, Adopt, Found, table
  <2>2. QED BY <2>1, <1>1, <1>2, <1>3
<1>5. CASE Guess(r)
  BY <1>5, <1>1 DEF Guess, SearchesWikidata, AutoChecks, TakesApproval, TakesLink, PatchRejected, Syncs
<1>6. CASE Check(r)
  <2>1. ASSUME NEW d, NEW q, SaveUnder(r, d, q)
        PROVE  \/ UNCHANGED company
               \/ company' = [company EXCEPT ![d] = WithAlias(company[d], NameOf[r])]
    BY <2>1 DEF SaveUnder, table
  <2>2. \/ UNCHANGED company
        \/ \E d : company' = [company EXCEPT ![d] = WithAlias(company[d], NameOf[r])]
    BY <1>6, <2>1 DEF Check, CheckBegins, CheckObeys, CheckResolves, FansOut, table
  <2>3. QED BY <2>2, <1>1, <1>2
<1>7. CASE StrayLands(r)
  BY <1>7, <1>3 DEF StrayLands
<1>8. CASE Fault(r) \/ Staff(r)
  BY <1>8, <1>1 DEF Fault, SearchFails, TransactionEnds, OwnerLookupFails, GuessDies, GuessFails,
     CheckDies, Staff, StaffPrecheck, StaffLink, StaffWikidata, StaffCheck
<1>9. QED BY <1>4, <1>5, <1>6, <1>7, <1>8

\* What a job will write as verified has been approved by a person, as far as it has got.
VouchedFor(g, v) ==
  /\ g.at = "patch" => (IF g.ask.kind = "link" THEN g.qid ELSE g.ask.qid) \in v
  /\ g.at = "queued" /\ g.ask.ok =>
        /\ g.ask.kind = "wikidata" /\ g.ask.qid # NoQid => g.ask.qid \in v
        /\ g.ask.kind = "link" /\ g.ask.link # g.company => g.qid \in v
VouchedInv ==
  faults["death"] = 0 =>
     /\ \A c \in Companies : company[c].verified => company[c].qid \in vouched
     /\ \A r \in Runs \ AutoApprove : VouchedFor(guess[r], vouched)

\* As long as no execution of guessWikidata has died, an id marked verified, which is
\* what the Wikidata upload goes by, is one that a person has approved.
THEOREM VerifiedIsVouched == Spec => []VerifiedByStaff
<1>1. Init => VouchedInv
  BY SeedsAssumption DEF Init, VouchedInv, VouchedFor
<1>2. TypeOK /\ Held /\ Unstarted /\ VouchedInv /\ [Next]_vars => VouchedInv'
  <2> SUFFICES ASSUME TypeOK, Held, Unstarted, VouchedInv, [Next]_vars, faults'["death"] = 0
               PROVE VouchedInv'
    BY DEF VouchedInv
  <2>gu. guess \in [Runs -> GuessType]
    BY DEF TypeOK
  <2>0. ASSUME faults["death"] = 0, vouched \subseteq vouched',
               \A c \in Companies : company'[c].verified =>
                   \/ company[c].verified /\ company'[c].qid = company[c].qid
                   \/ company'[c].qid \in vouched',
               \A b \in Runs \ AutoApprove : guess'[b] = guess[b] \/ VouchedFor(guess'[b], vouched')
        PROVE  VouchedInv'
    <3>1. \A c \in Companies : company'[c].verified => company'[c].qid \in vouched'
      BY <2>0 DEF VouchedInv
    <3>2. \A b \in Runs \ AutoApprove : VouchedFor(guess'[b], vouched')
      <4>1. ASSUME NEW b \in Runs \ AutoApprove PROVE VouchedFor(guess'[b], vouched')
        <5>1. VouchedFor(guess[b], vouched)
          BY <2>0 DEF VouchedInv
        <5>2. VouchedFor(guess[b], vouched')
          BY <2>0, <5>1 DEF VouchedFor
        <5>3. QED BY <2>0, <5>2
      <4>2. QED BY <4>1
    <3>3. QED BY <3>1, <3>2 DEF VouchedInv
  <2>a. ASSUME NEW r \in Runs, NEW q, AskLink(r, q)
        PROVE  VouchedFor(guess'[r], vouched') /\ \A b \in Runs : b # r => guess'[b] = guess[b]
    <3> DEFINE ask == LinkAsk(Conflict(r, q) \cup {guess[r].company})
    <3>1. ~ask.ok
      BY DEF LinkAsk, NoAsk
    <3> HIDE DEF ask
    <3>2. /\ guess'[r] = [[[guess[r] EXCEPT !.at = "queued"] EXCEPT !.qid = q] EXCEPT !.ask = ask]
          /\ \A b \in Runs : b # r => guess'[b] = guess[b]
      BY <2>a, <2>gu DEF AskLink, ask
    <3>3. guess'[r].at = "queued" /\ guess'[r].ask = ask
      BY <3>2, <2>gu DEF GuessType
    <3>4. QED BY <3>1, <3>2, <3>3 DEF VouchedFor
  <2>b. ASSUME NEW r \in Runs, NEW at \in {"patch", "autoPatch", "keep"}, NEW c, Persist(r, at, c)
        PROVE  /\ guess'[r].at = at /\ guess'[r].qid = guess[r].qid /\ guess'[r].ask = guess[r].ask
               /\ \A b \in Runs : b # r => guess'[b] = guess[b]
    BY <2>b, <2>gu DEF Persist, GuessType
  <2>1. ASSUME NEW k \in FaultKinds, Strikes(k) PROVE k # "death" /\ faults["death"] = 0
    BY <2>1 DEF Strikes, TypeOK, FaultKinds
  <2>d. ASSUME NEW r \in Runs, Swallow(r)
        PROVE  VouchedFor(guess'[r], vouched') /\ \A b \in Runs : b # r => guess'[b] = guess[b]
    <3>1. /\ guess'[r].at = "queued" /\ guess'[r].ask = WikidataAsk(guess[r].ask.qid, FALSE)
          /\ \A b \in Runs : b # r => guess'[b] = guess[b]
      BY <2>d, <2>gu DEF Swallow, GuessType
    <3>2. ~WikidataAsk(guess[r].ask.qid, FALSE).ok
      BY DEF WikidataAsk, NoAsk
    <3>3. QED BY <3>1, <3>2 DEF VouchedFor
  <2>e. ASSUME NEW r \in Runs, guess' = [guess EXCEPT ![r].at = "done", ![r].company = NoCompany]
        PROVE  VouchedFor(guess'[r], vouched') /\ \A b \in Runs : b # r => guess'[b] = guess[b]
    <3>1. guess'[r].at = "done" /\ \A b \in Runs : b # r => guess'[b] = guess[b]
      BY <2>e, <2>gu DEF GuessType
    <3>2. QED BY <3>1 DEF VouchedFor
  <2>2. ASSUME NEW r \in Runs, Precheck(r) PROVE VouchedInv'
    <3>1. faults["death"] = 0 /\ UNCHANGED vouched
      BY <2>2 DEF Precheck, PrecheckResolves, TakesLock, LooksAgain, CreateLands, PrecheckObeys, StartFlows
    <3>2. ~PatchLands(r) => \A c \in Companies : company'[c].verified =>
                                company[c].verified /\ company'[c].qid = company[c].qid
      BY <2>2, VerifiedFrame
    <3>3. ~PatchLands(r) \/ UNCHANGED company
      BY <2>2 DEF PatchLands, Unstarted, Precheck, PrecheckResolves, TakesLock, LooksAgain, CreateLands,
                  PrecheckObeys, StartFlows
    <3>4. \A b \in Runs : guess'[b] = guess[b] \/ VouchedFor(guess'[b], vouched')
      <4>1. CASE StartFlows(r)
        <5>1. guess[r].ask.kind = "none"
          BY <4>1 DEF StartFlows, Unstarted
        <5>2. /\ guess'[r].at = "queued" /\ guess'[r].ask = guess[r].ask
              /\ \A b \in Runs : b # r => guess'[b] = guess[b]
          BY <4>1, <2>gu DEF StartFlows, GuessType
        <5>3. VouchedFor(guess'[r], vouched')
          BY <5>1, <5>2 DEF VouchedFor
        <5>4. QED BY <5>2, <5>3
      <4>2. CASE ~StartFlows(r)
        BY <2>2, <4>2 DEF Precheck, PrecheckResolves, TakesLock, LooksAgain, CreateLands, PrecheckObeys
      <4>3. QED BY <4>1, <4>2
    <3>5. QED BY <2>0, <3>1, <3>2, <3>3, <3>4
  <2>3. ASSUME NEW r \in Runs, Guess(r) PROVE VouchedInv'
    <3>1. faults["death"] = 0 /\ UNCHANGED vouched
      BY <2>3 DEF Guess, SearchesWikidata, AutoChecks, TakesApproval, TakesLink, PatchLands, PatchRejected, Syncs
    <3>2. r \notin AutoApprove => VouchedFor(guess[r], vouched)
      BY <3>1 DEF VouchedInv
    <3>3. /\ r \notin AutoApprove => VouchedFor(guess'[r], vouched')
          /\ \A b \in Runs : b # r => guess'[b] = guess[b]
      <4>1. CASE SearchesWikidata(r)
        <5>1. CASE \E q \in Qids : \/ guess' = [guess EXCEPT ![r].ask = WikidataAsk(q, FALSE)]
                                   \/ guess' = [guess EXCEPT ![r].at = "auto", ![r].ask = WikidataAsk(q, TRUE)]
          <6>1. PICK q \in Qids :
                    \/ guess' = [guess EXCEPT ![r].ask = WikidataAsk(q, FALSE)]
                    \/ guess' = [guess EXCEPT ![r].at = "auto", ![r].ask = WikidataAsk(q, TRUE)]
            BY <5>1
          <6>2. /\ \/ guess'[r].at = "queued" /\ guess'[r].ask = WikidataAsk(q, FALSE)
                   \/ guess'[r].at = "auto"
                /\ \A b \in Runs : b # r => guess'[b] = guess[b]
            <7>1. PICK a, b : /\ a = WikidataAsk(q, FALSE)
                              /\ \/ guess' = [guess EXCEPT ![r].ask = a]
                                 \/ guess' = [guess EXCEPT ![r].at = "auto", ![r].ask = b]
              BY <6>1
            <7>2. guess[r].at = "queued"
              BY <4>1 DEF SearchesWikidata
            <7>3. QED BY <7>1, <7>2, <2>gu DEF GuessType
          <6>3. ~WikidataAsk(q, FALSE).ok
            BY DEF WikidataAsk, NoAsk
          <6>4. QED BY <6>2, <6>3 DEF VouchedFor
        <5>2. QED BY <4>1, <5>1, <2>a, <2>e DEF SearchesWikidata
      <4>2. CASE AutoChecks(r)
        <5>1. CASE Persist(r, "autoPatch", guess[r].company)
          BY <5>1, <2>b DEF VouchedFor
        <5>2. QED BY <4>2, <5>1, <2>a DEF AutoChecks
      <4>3. CASE TakesApproval(r)
        <5>1. CASE guess[r].ask.qid # NoQid /\ Persist(r, "patch", guess[r].company)
          BY <4>3, <5>1, <3>1, <3>2, <2>b DEF TakesApproval, VouchedFor
        <5>2. QED BY <4>3, <5>1, <2>a, <2>e DEF TakesApproval
      <4>4. CASE TakesLink(r)
        <5>1. CASE guess[r].ask.link = guess[r].company
          BY <4>4, <5>1, <2>b DEF TakesLink, VouchedFor
        <5>2. CASE guess[r].ask.link # guess[r].company
          BY <4>4, <5>2, <3>1, <3>2, <2>b DEF TakesLink, VouchedFor
        <5>3. QED BY <5>1, <5>2
      <4>5. CASE PatchLands(r)
        <5>1. /\ guess'[r].at \in {"autoSync", "sync"}
              /\ \A b \in Runs : b # r => guess'[b] = guess[b]
          BY <4>5, <2>gu DEF PatchLands, GuessType
        <5>2. QED BY <5>1 DEF VouchedFor
      <4>6. CASE PatchRejected(r)
        <5>1. CASE guess[r].at = "patch" /\ Retry(r)
          <6>1. /\ guess'[r].at = "queued" /\ guess'[r].company = guess[r].company
                /\ guess'[r].qid = guess[r].qid /\ guess'[r].ask = guess[r].ask
                /\ \A b \in Runs : b # r => guess'[b] = guess[b]
            BY <5>1, <2>gu DEF Retry, GuessType
          <6>2. QED BY <5>1, <6>1, <3>1, <3>2 DEF VouchedFor
        <5>2. CASE r \in AutoApprove /\ Retry(r)
          BY <5>2, <2>gu DEF Retry
        <5>3. QED BY <4>6, <5>1, <5>2, <2>d DEF PatchRejected
      <4>7. CASE Syncs(r)
        BY <4>7, <2>e DEF Syncs
      <4>8. QED BY <2>3, <4>1, <4>2, <4>3, <4>4, <4>5, <4>6, <4>7 DEF Guess
    <3>4. \A c \in Companies : company'[c].verified =>
             \/ company[c].verified /\ company'[c].qid = company[c].qid
             \/ company'[c].qid \in vouched'
      <4>1. CASE PatchLands(r)
        <5> DEFINE d == guess[r].company
                   renamed == Renamed(company[d], guess[r].name)
                   flag == guess[r].at = "patch" /\ r \notin AutoApprove
        <5>1. d \in Companies
          BY <4>1 DEF PatchLands, Held, GuessOK
        <5>2. company[d] \in RowType /\ guess[r].name \in Names \cup {NoName}
          BY <5>1 DEF TypeOK, GuessType
        <5>3. renamed \in RowType /\ renamed.qid = company[d].qid /\ (renamed.verified => company[d].verified)
          BY <5>2 DEF Renamed, RowType
        <5>4. company' = [company EXCEPT ![d] = IF guess[r].at = "keep" THEN renamed
                             ELSE [[renamed EXCEPT !.qid = PersistedQid(r)] EXCEPT !.verified = flag]]
          BY <4>1, Zenon DEF PatchLands
        <5>5. flag => PersistedQid(r) \in vouched
          BY <3>1, <3>2 DEF VouchedFor, PersistedQid
        <5> HIDE DEF d, renamed, flag
        <5>6. /\ [[renamed EXCEPT !.qid = PersistedQid(r)] EXCEPT !.verified = flag].qid = PersistedQid(r)
              /\ [[renamed EXCEPT !.qid = PersistedQid(r)] EXCEPT !.verified = flag].verified => flag
          BY <5>3, Zenon DEF RowType
        <5>7. QED BY <5>1, <5>3, <5>4, <5>5, <5>6, <3>1 DEF TypeOK
      <4>2. CASE ~PatchLands(r)
        BY <2>3, <4>2, VerifiedFrame
      <4>3. QED BY <4>1, <4>2
    <3>5. QED BY <2>0, <3>1, <3>3, <3>4
  <2>4. ASSUME NEW r \in Runs, Check(r) \/ StrayLands(r) PROVE VouchedInv'
    <3>1. faults["death"] = 0 /\ UNCHANGED <<vouched, guess>>
      BY <2>4 DEF Check, CheckBegins, CheckObeys, CheckResolves, FansOut, StrayLands
    <3>2. ~PatchLands(r)
      BY <3>1, <2>gu DEF PatchLands, GuessType
    <3>3. QED BY <2>0, <2>4, <3>1, <3>2, VerifiedFrame
  <2>5. ASSUME NEW r \in Runs, Fault(r) PROVE VouchedInv'
    <3>1. /\ faults["death"] = 0 /\ UNCHANGED <<vouched, company>>
          /\ SearchFails(r) \/ TransactionEnds(r) \/ OwnerLookupFails(r)
      BY <2>1, <2>5 DEF Fault, SearchFails, TransactionEnds, OwnerLookupFails, GuessDies, GuessFails,
                        CheckDies, FaultKinds
    <3>2. CASE OwnerLookupFails(r)
      <4>1. r \notin AutoApprove => VouchedFor(guess[r], vouched)
        BY <3>1 DEF VouchedInv
      <4>2. Persist(r, "patch", guess[r].company)
        BY <3>2 DEF OwnerLookupFails
      <4>3. /\ r \notin AutoApprove => VouchedFor(guess'[r], vouched')
            /\ \A b \in Runs : b # r => guess'[b] = guess[b]
        BY <3>1, <3>2, <4>1, <4>2, <2>b DEF OwnerLookupFails, VouchedFor
      <4>4. QED BY <2>0, <3>1, <4>3
    <3>3. CASE SearchFails(r) \/ TransactionEnds(r)
      <4>1. UNCHANGED guess
        BY <3>3 DEF SearchFails, TransactionEnds
      <4>2. QED BY <2>0, <3>1, <4>1
    <3>4. QED BY <3>1, <3>2, <3>3
  <2>6. ASSUME NEW r \in Runs, Staff(r) PROVE VouchedInv'
    <3>1. faults["death"] = 0 /\ UNCHANGED company /\ vouched \subseteq vouched'
      BY <2>6 DEF Staff, StaffPrecheck, StaffLink, StaffWikidata, StaffCheck
    <3>2. CASE StaffPrecheck(r) \/ StaffCheck(r)
      <4>1. UNCHANGED guess
        BY <3>2 DEF StaffPrecheck, StaffCheck
      <4>2. QED BY <2>0, <3>1, <4>1
    <3>3. CASE StaffLink(r)
      <4>1. PICK c \in guess[r].ask.cands :
               /\ guess' = [guess EXCEPT ![r].ask = Answered(guess[r].ask, c, NoQid)]
               /\ c # guess[r].company => guess[r].qid \in vouched'
        BY <3>3 DEF StaffLink
      <4>2. /\ Answered(guess[r].ask, c, NoQid).kind = "link"
            /\ Answered(guess[r].ask, c, NoQid).link = c
        BY <3>3, <2>gu DEF StaffLink, Answered, GuessType, AskType
      <4>3. /\ guess'[r].ask = Answered(guess[r].ask, c, NoQid) /\ guess'[r].at = "queued"
            /\ guess'[r].company = guess[r].company /\ guess'[r].qid = guess[r].qid
            /\ \A b \in Runs : b # r => guess'[b] = guess[b]
        BY <3>3, <4>1, <2>gu DEF StaffLink, GuessType
      <4>4. VouchedFor(guess'[r], vouched')
        BY <4>1, <4>2, <4>3 DEF VouchedFor
      <4>5. QED BY <2>0, <3>1, <4>3, <4>4
    <3>4. CASE StaffWikidata(r)
      <4>1. PICK q \in vouched' \cup {NoQid} :
               guess' = [guess EXCEPT ![r].ask = Answered(guess[r].ask, NoCompany, q)]
        BY <3>4 DEF StaffWikidata
      <4>2. /\ Answered(guess[r].ask, NoCompany, q).kind = "wikidata"
            /\ Answered(guess[r].ask, NoCompany, q).qid = q
        BY <3>4, <2>gu DEF StaffWikidata, Answered, GuessType, AskType
      <4>3. /\ guess'[r].ask = Answered(guess[r].ask, NoCompany, q) /\ guess'[r].at = "queued"
            /\ \A b \in Runs : b # r => guess'[b] = guess[b]
        BY <3>4, <4>1, <2>gu DEF StaffWikidata, GuessType
      <4>4. VouchedFor(guess'[r], vouched')
        BY <4>1, <4>2, <4>3 DEF VouchedFor
      <4>5. QED BY <2>0, <3>1, <4>3, <4>4
    <3>5. QED BY <2>6, <3>2, <3>3, <3>4 DEF Staff
  <2>7. CASE UNCHANGED vars
    BY <2>7, <2>0 DEF vars
  <2>8. QED BY <2>2, <2>3, <2>4, <2>5, <2>6, <2>7 DEF Next
<1>3. VouchedInv => VerifiedByStaff
  BY DEF VouchedInv, VerifiedByStaff
<1>4. QED BY <1>1, <1>2, <1>3, TypeInvariant, UnstartedInvariant, PTL DEF Spec
=============================================================================
