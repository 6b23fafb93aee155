------------------------- MODULE CompanyDataProofs -------------------------
(***************************************************************************)
(* What is proved of the data of a company: the replacement of the goals   *)
(* of a report (GoalSave), the cleanup of empty companies (ShellCleanup),  *)
(* the identifiers (Identifiers), and the year of a report (PeriodSave).   *)
(* These share no variable.                                                *)
(***************************************************************************)
EXTENDS CompanyData, FiniteSetTheorems, SequenceTheorems,
        WellFoundedInduction, TLAPS

(***************************************************************************)
(* What the replacement of the goals of a report keeps and removes, for    *)
(* any reports, texts and requests in flight.                              *)
(***************************************************************************)

GoalType == [id : Nat, report : AnyReport, text : Texts, verified : Seq(BOOLEAN), batch : Nat]
WriterType == [pc : {"find", "create"}, report : AnyReport, texts : SUBSET Texts, batch : Nat,
               found : SUBSET Nat]

GoalTypes ==
    /\ goals \subseteq GoalType /\ made \in Nat /\ writes \in Nat
    /\ writer \in [Writers -> WriterType \cup {Resting}]

\* Goals are told apart by their ids, which are given out in order.
OwnIds ==
    /\ \A g \in goals : g.id <= made /\ g.verified # <<>>
    /\ \A g, h \in goals : g.id = h.id => g = h
    /\ \A w \in Writing : \A i \in writer[w].found : i <= made

\* What a transaction has found unverified is so still, unless staff have touched it.
FoundUnverified ==
    \A w \in Writing : \A g \in goals : g.id \in writer[w].found /\ Verified(g) => g.id \in touched

\* Two requests that write one report at a time have been noted; one that is about to create has
\* found every goal an earlier extraction of the report has left.
Turns ==
    /\ \A v, w \in Writing : v # w /\ writer[v].report = writer[w].report /\ writer[v].report \in Reports
                                => writer[v].report \in mingled
    /\ \A w \in Writing :
          (writer[w].pc = "create" /\ writer[w].report \in Reports \ mingled) =>
              \A g \in goals : g.report = writer[w].report /\ g.batch # 0 => g.id \in writer[w].found

\* An extraction's goal has not been verified as long as it is the extraction's.
Untouched == \A g \in goals : g.batch # 0 => ~Verified(g)

GoalInv == GoalTypes /\ OwnIds /\ FoundUnverified /\ Turns /\ Untouched /\ OneExtraction

-----------------------------------------------------------------------------

\* The goals an extraction makes: new ids, its report, its batch, unverified.
LEMMA NewGoalsAre ==
    ASSUME GoalTypes, NEW T \in SUBSET Texts, NEW r \in AnyReport, NEW b \in Nat
    PROVE  /\ NewGoals(T, r, b) \subseteq GoalType
           /\ \A g \in NewGoals(T, r, b) :
                 /\ g.id > made /\ g.id <= made + Cardinality(T)
                 /\ g.report = r /\ g.batch = b /\ g.verified = <<FALSE>>
           /\ \A g, h \in NewGoals(T, r, b) : g.id = h.id => g = h
           /\ Cardinality(T) \in Nat
<1> DEFINE n == Cardinality(T)
           ts == SetToSeq(T)
<1>1. IsFiniteSet(T)
  BY FS_Subset, GoalAssumption
<1>2. n \in Nat /\ \E f : f \in [1..n -> T] /\ IsInjective(f)
  BY <1>1, FS_CardinalityType DEF ExistsBijection, Bijection, Surjection, Injection, IsInjective
<1>3. ts \in [1..n -> T]
  BY <1>2 DEF SetToSeq
<1>4. NewGoals(T, r, b) = {[id |-> made + i, report |-> r, text |-> ts[i], verified |-> <<FALSE>>,
                            batch |-> b] : i \in 1..n}
  BY <1>3 DEF NewGoals, ItemReport
<1>5. made \in Nat
  BY DEF GoalTypes
<1>6. <<FALSE>> \in Seq(BOOLEAN)
  OBVIOUS
<1>7. \A i \in 1..n : ts[i] \in Texts
  BY <1>3
<1>8. ASSUME NEW g \in NewGoals(T, r, b)
      PROVE  \E i \in 1..n : g = [id |-> made + i, report |-> r, text |-> ts[i],
                                  verified |-> <<FALSE>>, batch |-> b]
  BY <1>4
<1>9. ASSUME NEW g \in NewGoals(T, r, b)
      PROVE  /\ g \in GoalType
             /\ g.id > made /\ g.id <= made + n
             /\ g.report = r /\ g.batch = b /\ g.verified = <<FALSE>>
  <2>1. PICK i \in 1..n : g = [id |-> made + i, report |-> r, text |-> ts[i],
                               verified |-> <<FALSE>>, batch |-> b]
    BY <1>8
  <2>2. i \in Nat /\ i > 0 /\ i <= n /\ ts[i] \in Texts /\ made + i \in Nat
    BY <1>2, <1>5, <1>7
  <2>3. /\ g.id = made + i /\ g.report = r /\ g.text = ts[i] /\ g.verified = <<FALSE>> /\ g.batch = b
    BY <2>1
  <2>4. made + i > made /\ made + i <= made + n
    BY <2>2, <1>2, <1>5
  <2>5. g \in GoalType
    BY <2>1, <2>2, <1>6 DEF GoalType
  <2> QED BY <2>3, <2>4, <2>5
<1>10. ASSUME NEW g \in NewGoals(T, r, b), NEW h \in NewGoals(T, r, b), g.id = h.id
       PROVE  g = h
  <2>1. PICK i \in 1..n : g = [id |-> made + i, report |-> r, text |-> ts[i],
                               verified |-> <<FALSE>>, batch |-> b]
    BY <1>8
  <2>2. PICK j \in 1..n : h = [id |-> made + j, report |-> r, text |-> ts[j],
                               verified |-> <<FALSE>>, batch |-> b]
    BY <1>8
  <2>3. i = j
    BY <2>1, <2>2, <1>2, <1>5, <1>10
  <2> QED BY <2>1, <2>2, <2>3
<1> QED BY <1>2, <1>9, <1>10

\* The invariant holds at the beginning.
LEMMA GoalInitial == GoalInit => GoalInv
BY DEF GoalInit, GoalInv, GoalTypes, OwnIds, FoundUnverified, Turns, Untouched, OneExtraction,
       Writing, Resting, WriterType

\* What is said of a request is said of one that is writing.
LEMMA WritersAre ==
    ASSUME GoalTypes, NEW w \in Writing
    PROVE  w \in Writers /\ writer[w] \in WriterType
BY DEF GoalTypes, Writing, Resting, WriterType

\* The beginning of an extraction's save.
LEMMA BeginKeeps ==
    ASSUME GoalInv, NEW w \in Writers, BeginExtraction(w)
    PROVE  GoalInv'
<1>1. PICK r \in AnyReport, T \in SUBSET Texts :
        /\ writer' = [writer EXCEPT ![w] = [pc |-> IF Replaces(r) THEN "find" ELSE "create",
                            report |-> r, texts |-> T, batch |-> writes + 1, found |-> {}]]
        /\ mingled' = mingled \cup {q \in {r} \ {NoReport} : \E v \in Writing : writer[v].report = r}
  BY DEF BeginExtraction
<1>2. writer[w] = Resting /\ writes' = writes + 1 /\ UNCHANGED <<goals, made, touched>>
  BY DEF BeginExtraction
<1>3. writer'[w].found = {} /\ writer'[w].report = r /\ (writer'[w].pc = "create" => r = NoReport)
  BY <1>1 DEF GoalInv, GoalTypes, Replaces
<1>4. Writing' = Writing \cup {w} /\ \A v \in Writing : writer'[v] = writer[v] /\ v # w
  BY <1>1, <1>2 DEF GoalInv, GoalTypes, Writing, Resting
<1>5. GoalTypes'
  BY <1>1, <1>2 DEF GoalInv, GoalTypes, WriterType
<1>6. OwnIds' /\ FoundUnverified' /\ Untouched'
  BY <1>2, <1>3, <1>4 DEF GoalInv, OwnIds, FoundUnverified, Untouched, Verified
<1>7. Turns'
  BY <1>1, <1>2, <1>3, <1>4, GoalAssumption DEF GoalInv, Turns
<1>8. OneExtraction'
  BY <1>1, <1>2 DEF GoalInv, OneExtraction
<1> QED BY <1>5, <1>6, <1>7, <1>8 DEF GoalInv

\* The search for goals nobody has verified.
LEMMA FindKeeps ==
    ASSUME GoalInv, NEW w \in Writers, FindUnverified(w)
    PROVE  GoalInv'
<1> DEFINE F == {g.id : g \in {h \in goals : h.report = writer[w].report /\ ~Verified(h)}}
<1>1. /\ writer[w].pc = "find" /\ w \in Writing
      /\ writer' = [writer EXCEPT ![w].pc = "create", ![w].found = F]
      /\ UNCHANGED <<goals, made, writes, mingled, touched>>
  BY DEF FindUnverified, Writing
<1>2. writer[w] \in WriterType
  BY <1>1, WritersAre DEF GoalInv
<1>3. F \subseteq Nat /\ \A i \in F : i <= made
  BY DEF GoalInv, GoalTypes, GoalType, OwnIds
<1>4. \A g \in goals : g.id \in F <=> g.report = writer[w].report /\ ~Verified(g)
  BY DEF GoalInv, OwnIds
<1> HIDE DEF F
<1>5. writer'[w] = [writer[w] EXCEPT !.pc = "create", !.found = F] /\ \A v \in Writers \ {w} : writer'[v] = writer[v]
  BY <1>1 DEF GoalInv, GoalTypes
<1>6. writer'[w].report = writer[w].report /\ writer'[w].found = F /\ writer'[w].pc = "create"
  BY <1>2, <1>5 DEF WriterType
<1>7. Writing' = Writing
  BY <1>1, <1>5, <1>6 DEF Writing
<1>8. GoalTypes'
  BY <1>1, <1>2, <1>3, <1>5 DEF GoalInv, GoalTypes, WriterType
<1>9. OwnIds' /\ FoundUnverified'
  BY <1>1, <1>3, <1>4, <1>5, <1>6, <1>7 DEF GoalInv, OwnIds, FoundUnverified, Writing, Verified
<1>10. Turns'
  <2>1. \A v \in Writing : writer'[v].report = writer[v].report /\ (v # w => writer'[v] = writer[v])
    BY <1>5, <1>6 DEF Writing
  <2>2. \A g \in goals : g.report = writer[w].report /\ g.batch # 0 => g.id \in F
    BY <1>4 DEF GoalInv, Untouched
  <2>3. mingled' = mingled /\ goals' = goals
    BY <1>1
  <2>4. \A u, v \in Writing' : u # v /\ writer'[u].report = writer'[v].report /\ writer'[u].report \in Reports
                                => writer'[u].report \in mingled'
    BY <1>7, <2>1, <2>3 DEF GoalInv, Turns
  <2>5. ASSUME NEW v \in Writing', writer'[v].pc = "create", writer'[v].report \in Reports \ mingled'
        PROVE  \A g \in goals' : g.report = writer'[v].report /\ g.batch # 0 => g.id \in writer'[v].found
    <3>1. CASE v = w
      BY <1>6, <2>2, <2>3, <3>1
    <3>2. CASE v # w
      BY <1>7, <2>1, <2>3, <2>5, <3>2 DEF GoalInv, Turns
    <3> QED BY <3>1, <3>2
  <2> QED BY <2>4, <2>5 DEF Turns
<1>11. Untouched' /\ OneExtraction'
  BY <1>1 DEF GoalInv, Untouched, OneExtraction, Verified
<1> QED BY <1>8, <1>9, <1>10, <1>11 DEF GoalInv

\* The end of the transaction.
LEMMA CommitKeeps ==
    ASSUME GoalInv, NEW w \in Writers, Commit(w)
    PROVE  GoalInv'
<1> DEFINE N == NewGoals(writer[w].texts, writer[w].report, writer[w].batch)
           n == Cardinality(writer[w].texts)
<1>1. /\ w \in Writing /\ writer[w].pc = "create"
      /\ goals' = {g \in goals : g.id \notin writer[w].found} \cup N
      /\ made' = made + n
      /\ writer' = [writer EXCEPT ![w] = Resting]
      /\ UNCHANGED <<writes, mingled, touched>>
  BY DEF Commit, Writing
<1>2. writer[w] \in WriterType
  BY <1>1, WritersAre DEF GoalInv
<1>3. /\ N \subseteq GoalType /\ n \in Nat
      /\ \A g \in N : /\ g.id > made /\ g.id <= made + n
                     /\ g.report = writer[w].report /\ g.batch = writer[w].batch /\ g.verified = <<FALSE>>
      /\ \A g, h \in N : g.id = h.id => g = h
  <2>1. GoalTypes
    BY DEF GoalInv
  <2>2. /\ writer[w].texts \in SUBSET Texts /\ writer[w].report \in AnyReport
        /\ writer[w].batch \in Nat
    BY <1>2 DEF WriterType
  <2>3. \A T \in SUBSET Texts, r \in AnyReport, b \in Nat :
           /\ NewGoals(T, r, b) \subseteq GoalType /\ Cardinality(T) \in Nat
           /\ \A g \in NewGoals(T, r, b) :
                 /\ g.id > made /\ g.id <= made + Cardinality(T)
                 /\ g.report = r /\ g.batch = b /\ g.verified = <<FALSE>>
           /\ \A g, h \in NewGoals(T, r, b) : g.id = h.id => g = h
    BY <2>1, NewGoalsAre
  <2> DEFINE T == writer[w].texts
             r == writer[w].report
             b == writer[w].batch
  <2>4. T \in SUBSET Texts /\ r \in AnyReport /\ b \in Nat
    BY <2>2
  <2> HIDE DEF T, r, b
  <2>5. /\ NewGoals(T, r, b) \subseteq GoalType /\ Cardinality(T) \in Nat
        /\ \A g \in NewGoals(T, r, b) :
              /\ g.id > made /\ g.id <= made + Cardinality(T)
              /\ g.report = r /\ g.batch = b /\ g.verified = <<FALSE>>
        /\ \A g, h \in NewGoals(T, r, b) : g.id = h.id => g = h
    BY <2>3, <2>4
  <2> QED BY <2>5 DEF T, r, b
<1>4. \A g \in N : ~Verified(g) /\ g.verified # <<>>
  <2>1. Last(<<FALSE>>) = FALSE /\ <<FALSE>> # <<>>
    BY DEF Last
  <2> QED BY <1>3, <2>1 DEF Verified
<1> HIDE DEF N, n
<1>5. Writing' = Writing \ {w} /\ \A v \in Writing' : writer'[v] = writer[v]
  <2>1. writer' = [writer EXCEPT ![w] = Resting]
    BY <1>1
  <2> QED BY <2>1 DEF GoalInv, GoalTypes, Writing, Resting
<1>6. GoalTypes'
  <2>1. writer' \in [Writers -> WriterType \cup {Resting}]
    BY <1>1 DEF GoalInv, GoalTypes
  <2> QED BY <1>1, <1>3, <2>1 DEF GoalInv, GoalTypes
<1>7. \A g \in goals : g \in GoalType /\ g.id \in Nat
  BY DEF GoalInv, GoalTypes, GoalType
<1>8. made \in Nat /\ \A v \in Writing : writer[v].found \subseteq Nat
  BY WritersAre DEF GoalInv, GoalTypes, WriterType
<1>9. \A g \in N : g.id \in Nat
  BY <1>3 DEF GoalType
<1>10. OwnIds'
  <2>1. \A g \in goals' : g.id <= made' /\ g.verified # <<>>
    <3>1. ASSUME NEW g \in goals PROVE g.id <= made + n /\ g.verified # <<>>
      <4>1. g.id <= made /\ g.verified # <<>> /\ g.id \in Nat
        BY <1>7 DEF GoalInv, OwnIds
      <4> QED BY <4>1, <1>3, <1>8
    <3>2. \A g \in N : g.id <= made + n /\ g.verified # <<>>
      BY <1>3, <1>4
    <3> QED BY <1>1, <3>1, <3>2
  <2>2. \A g, h \in goals' : g.id = h.id => g = h
    <3>1. \A g \in goals, h \in N : g.id # h.id
      <4> SUFFICES ASSUME NEW g \in goals, NEW h \in N PROVE g.id # h.id
        OBVIOUS
      <4>1. g.id <= made /\ g.id \in Nat
        BY <1>7 DEF GoalInv, OwnIds
      <4>2. h.id > made /\ h.id \in Nat
        BY <1>3, <1>9
      <4> QED BY <4>1, <4>2, <1>8
    <3>2. \A g, h \in goals : g.id = h.id => g = h
      BY DEF GoalInv, OwnIds
    <3> QED BY <1>1, <1>3, <3>1, <3>2
  <2>3. \A v \in Writing' : \A i \in writer'[v].found : i <= made'
    BY <1>1, <1>3, <1>5, <1>8 DEF GoalInv, OwnIds
  <2> QED BY <2>1, <2>2, <2>3 DEF OwnIds
<1>11. FoundUnverified'
  BY <1>1, <1>4, <1>5 DEF GoalInv, FoundUnverified, Verified
<1>12. Untouched'
  BY <1>1, <1>4 DEF GoalInv, Untouched, Verified
<1>13. Turns'
  <2>1. \A v \in Writing' : writer[v].report = writer[w].report /\ writer[v].report \in Reports
                               => writer[v].report \in mingled
    BY <1>1, <1>5 DEF GoalInv, Turns
  <2>2. ASSUME NEW v \in Writing', writer'[v].pc = "create", writer'[v].report \in Reports \ mingled',
               NEW g \in goals', g.report = writer'[v].report, g.batch # 0
        PROVE  g.id \in writer'[v].found
    <3>1. g \notin N
      <4>1. writer'[v] = writer[v] /\ mingled' = mingled
        BY <1>1, <1>5
      <4>2. g \in N => g.report = writer[w].report
        BY <1>3
      <4> QED BY <2>1, <2>2, <4>1, <4>2
    <3> QED BY <1>1, <1>5, <2>2, <3>1 DEF GoalInv, Turns
  <2>3. \A u, v \in Writing' : u # v /\ writer'[u].report = writer'[v].report /\ writer'[u].report \in Reports
                                => writer'[u].report \in mingled'
    BY <1>1, <1>5 DEF GoalInv, Turns
  <2> QED BY <2>2, <2>3 DEF Turns
<1>14. OneExtraction'
  <2> SUFFICES ASSUME NEW r \in Reports \ mingled, NEW g \in goals', NEW h \in goals',
                      g.report = r, h.report = r, g.batch # 0, h.batch # 0
               PROVE  g.batch = h.batch
    BY <1>1 DEF OneExtraction
  <2>1. CASE writer[w].report = r
    <3>1. \A e \in goals : e.report = r /\ e.batch # 0 => e.id \in writer[w].found
      BY <1>1, <2>1 DEF GoalInv, Turns
    <3>2. g \in N /\ h \in N
      BY <1>1, <3>1
    <3> QED BY <1>3, <3>2
  <2>2. CASE writer[w].report # r
    BY <1>1, <1>3, <2>2 DEF GoalInv, OneExtraction
  <2> QED BY <2>1, <2>2
<1> QED BY <1>6, <1>10, <1>11, <1>12, <1>13, <1>14 DEF GoalInv

\* A save that fails.
LEMMA RollbackKeeps ==
    ASSUME GoalInv, NEW w \in Writers, Rollback(w)
    PROVE  GoalInv'
<1>1. /\ writer' = [writer EXCEPT ![w] = Resting]
      /\ UNCHANGED <<goals, made, writes, mingled, touched>>
  BY DEF Rollback
<1>2. Writing' = Writing \ {w} /\ \A v \in Writing' : writer'[v] = writer[v]
  BY <1>1 DEF GoalInv, GoalTypes, Writing, Resting
<1>3. GoalTypes'
  BY <1>1 DEF GoalInv, GoalTypes
<1> QED BY <1>1, <1>2, <1>3 DEF GoalInv, OwnIds, FoundUnverified, Turns, Untouched, OneExtraction, Verified

\* A goal staff make.
LEMMA CreateKeeps == GoalInv /\ StaffCreate => GoalInv'
<1> SUFFICES ASSUME GoalInv, StaffCreate PROVE GoalInv'
  OBVIOUS
<1>1. PICK r \in AnyReport, t \in Texts, v \in BOOLEAN :
         goals' = goals \cup {[id |-> made + 1, report |-> r, text |-> t, verified |-> <<v>>, batch |-> 0]}
  BY DEF StaffCreate
<1> DEFINE e == [id |-> made + 1, report |-> r, text |-> t, verified |-> <<v>>, batch |-> 0]
<1>2. writes' = writes + 1 /\ made' = made + 1 /\ UNCHANGED <<writer, mingled, touched>>
  BY DEF StaffCreate
<1>3. made \in Nat /\ (\A g \in goals : g.id \in Nat) /\ \A w \in Writing : writer[w].found \subseteq Nat
  BY WritersAre DEF GoalInv, GoalTypes, GoalType, WriterType
<1>4. e \in GoalType /\ e.id = made + 1 /\ e.batch = 0 /\ e.verified # <<>>
  BY <1>3 DEF GoalType
<1>5. Writing' = Writing /\ goals' = goals \cup {e}
  BY <1>1, <1>2 DEF Writing
<1> HIDE DEF e
<1>6. \A w \in Writing : e.id \notin writer[w].found
  BY <1>3, <1>4 DEF GoalInv, OwnIds
<1>7. GoalTypes'
  BY <1>2, <1>3, <1>4, <1>5 DEF GoalInv, GoalTypes
<1>8. OwnIds'
  BY <1>2, <1>3, <1>4, <1>5 DEF GoalInv, OwnIds
<1>9. FoundUnverified' /\ Untouched'
  BY <1>2, <1>4, <1>5, <1>6 DEF GoalInv, FoundUnverified, Untouched, Verified
<1>10. Turns' /\ OneExtraction'
  BY <1>2, <1>4, <1>5 DEF GoalInv, Turns, OneExtraction
<1> QED BY <1>7, <1>8, <1>9, <1>10 DEF GoalInv

\* A goal staff change.
LEMMA UpdateKeeps == GoalInv /\ StaffUpdate => GoalInv'
<1> SUFFICES ASSUME GoalInv, StaffUpdate PROVE GoalInv'
  OBVIOUS
<1>1. PICK g \in goals, r \in AnyReport, t \in Texts, v \in BOOLEAN :
        /\ goals' = (goals \ {g}) \cup
                    {[g EXCEPT !.report = r, !.text = t, !.verified = Append(@, v), !.batch = 0]}
        /\ touched' = touched \cup {i \in {g.id} : \E w \in Writing : i \in writer[w].found}
  BY DEF StaffUpdate
<1> DEFINE e == [g EXCEPT !.report = r, !.text = t, !.verified = Append(@, v), !.batch = 0]
<1>2. writes' = writes + 1 /\ UNCHANGED <<writer, made, mingled>>
  BY DEF StaffUpdate
<1>3. g \in GoalType
  BY DEF GoalInv, GoalTypes
<1>4. e \in GoalType /\ e.id = g.id /\ e.batch = 0 /\ e.verified = Append(g.verified, v)
  <2>1. g.verified \in Seq(BOOLEAN) /\ g.id \in Nat
    BY <1>3 DEF GoalType
  <2>2. Append(g.verified, v) \in Seq(BOOLEAN)
    BY <2>1
  <2>3. e = [id |-> g.id, report |-> r, text |-> t, verified |-> Append(g.verified, v), batch |-> 0]
    <3>1. DOMAIN g = {"id", "report", "text", "verified", "batch"} /\ g = [k \in DOMAIN g |-> g[k]]
      BY <1>3 DEF GoalType
    <3> DEFINE f == [id |-> g.id, report |-> r, text |-> t, verified |-> Append(g.verified, v), batch |-> 0]
    <3>2. DOMAIN e = DOMAIN f /\ e = [k \in DOMAIN e |-> e[k]] /\ f = [k \in DOMAIN f |-> f[k]]
      BY <3>1
    <3>3. \A k \in DOMAIN e : e[k] = f[k]
      <4>1. e.id = f.id /\ e.batch = f.batch
        BY <3>1
      <4>2. e.report = f.report /\ e.text = f.text
        BY <3>1
      <4>3. e.verified = f.verified
        BY <3>1
      <4>4. DOMAIN e = {"id", "report", "text", "verified", "batch"}
        BY <3>1
      <4> HIDE DEF e, f
      <4> QED BY <4>1, <4>2, <4>3, <4>4
    <3> HIDE DEF e, f
    <3>4. e = f
      BY <3>2, <3>3
    <3> QED BY <3>4 DEF f
  <2> QED BY <2>1, <2>2, <2>3 DEF GoalType
<1>5. e.verified # <<>>
  BY <1>3, <1>4 DEF GoalType
<1>6. Writing' = Writing /\ goals' = (goals \ {g}) \cup {e}
  BY <1>1, <1>2 DEF Writing
<1> HIDE DEF e
<1>7. \A w \in Writing : e.id \in writer[w].found => e.id \in touched'
  BY <1>1, <1>4
<1>8. GoalTypes'
  BY <1>2, <1>4, <1>6 DEF GoalInv, GoalTypes
<1>9. OwnIds'
  BY <1>2, <1>4, <1>5, <1>6 DEF GoalInv, OwnIds
<1>10. touched \subseteq touched'
  BY <1>1
<1>11. FoundUnverified' /\ Untouched'
  BY <1>2, <1>4, <1>6, <1>7, <1>10 DEF GoalInv, FoundUnverified, Untouched, Verified
<1>12. Turns' /\ OneExtraction'
  BY <1>2, <1>4, <1>6 DEF GoalInv, Turns, OneExtraction
<1> QED BY <1>8, <1>9, <1>11, <1>12 DEF GoalInv

\* Every step keeps the invariant.
LEMMA GoalStep == GoalInv /\ [GoalNext]_gvars => GoalInv'
<1> SUFFICES ASSUME GoalInv, [GoalNext]_gvars PROVE GoalInv'
  OBVIOUS
<1>1. CASE StaffDelete
  <2>1. PICK g \in goals : goals' = goals \ {g}
    BY <1>1 DEF StaffDelete
  <2>2. Writing' = Writing /\ UNCHANGED <<writer, made, writes, mingled, touched>>
    BY <1>1 DEF StaffDelete, Writing
  <2> QED BY <2>1, <2>2 DEF GoalInv, GoalTypes, OwnIds, FoundUnverified, Turns, Untouched,
                            OneExtraction, Verified
<1>2. CASE UNCHANGED gvars
  BY <1>2 DEF gvars, GoalInv, GoalTypes, OwnIds, FoundUnverified, Turns, Untouched, OneExtraction,
              Writing, Verified
<1> QED BY <1>1, <1>2, BeginKeeps, FindKeeps, CommitKeeps, RollbackKeeps, CreateKeeps, UpdateKeeps
        DEF GoalNext

\* The goals a report has from extractions are those of one extraction, unless two saves of it
\* overlapped (goalService.ts: deleteUnverifiedForReport, then the new ones).
THEOREM ExtractionsReplace == GoalSpec => []OneExtraction
<1>1. GoalInv => OneExtraction
  BY DEF GoalInv
<1> QED BY GoalInitial, GoalStep, <1>1, PTL DEF GoalSpec

\* No save deletes a verified goal that staff have left alone since it was found (goalInitiativeReport.ts).
THEOREM VerifiedStays == GoalSpec => VerifiedIsKept
<1> DEFINE Kept == \A g \in goals :
              (Last(g.verified) /\ writer' # writer /\ ~\E h \in goals' : h.id = g.id) => g.id \in touched
<1>1. GoalInv /\ [GoalNext]_gvars => [Kept]_gvars
  <2> SUFFICES ASSUME GoalInv, [GoalNext]_gvars, NEW g \in goals,
                      Last(g.verified), writer' # writer, ~\E h \in goals' : h.id = g.id
               PROVE  g.id \in touched
    OBVIOUS
  <2>1. goals' # goals /\ writer' # writer
    OBVIOUS
  <2>2. PICK w \in Writers : Commit(w)
    BY <2>1 DEF GoalNext, BeginExtraction, FindUnverified, Rollback, StaffCreate, StaffUpdate,
                StaffDelete, gvars
  <2>3. w \in Writing /\ g.id \in writer[w].found
    BY <2>2 DEF Commit, Writing
  <2> QED BY <2>3 DEF GoalInv, FoundUnverified, Verified
<1> QED BY GoalInitial, GoalStep, <1>1, PTL DEF GoalSpec, VerifiedIsKept

-----------------------------------------------------------------------------
(***************************************************************************)
(* The cleanup deletes no company that was in use, for any companies, any  *)
(* runs and however old its list is.  The heart of it: a run that turned   *)
(* away from a company does not come back to it, since checkDB chooses     *)
(* once.                                                                   *)
(***************************************************************************)

RowType == [status : {"none", "running", "failed", "completed"}, company : SUBSET Firms]
RunType == [at : Stages, company : SUBSET Firms, chosen : BOOLEAN]

\* What the script holds while it is at a company.
AtCompany == turn.at \in {"runs", "delete"}

ShellTypes ==
    /\ runOf \in [ReportRuns -> RunType]
    /\ row \in [ReportRuns -> RowType]
    /\ AtCompany => turn \in [at : {"runs", "delete"}, company : Firms, things : SUBSET Things,
                              had : SUBSET Things, used : SUBSET ReportRuns]
    /\ There \subseteq Firms /\ on \in [There -> SUBSET Things]
    /\ turn.at \in {"idle", "pages", "runs", "delete"}

\* A row agrees with its run: the first company gets onto it before a second is chosen.
RowFollows ==
    \A r \in ReportRuns :
        /\ runOf[r].at = "waiting" => row[r].status = "none"
        /\ runOf[r].at \in {"waiting", "parsing"} => row[r].company = {} /\ ~runOf[r].chosen
        /\ runOf[r].at = "created" => row[r].company \cap runOf[r].company = {}
        /\ runOf[r].at = "created" /\ ~runOf[r].chosen => row[r].company = {}
        /\ runOf[r].at \in {"working", "failed", "ended"} => row[r].company = runOf[r].company

\* Run r has gone from company c, or has ended, for good.
HasLeft(r, c) ==
    \/ row[r].status # "running" /\ runOf[r].at # "waiting"
    \/ runOf[r].chosen /\ c \notin runOf[r].company /\ c \notin row[r].company

TurnKnows ==
    AtCompany =>
        /\ turn.things = turn.had
        /\ \A r \in turn.used : HasLeft(r, turn.company) \/ turn.company \in row[r].company
        /\ turn.at = "delete" => /\ turn.had \cap Counted = {}
                                 /\ \A r \in turn.used : HasLeft(r, turn.company)

ShellInv == ShellTypes /\ RowFollows /\ TurnKnows

-----------------------------------------------------------------------------

\* The invariant holds at the beginning.
LEMMA ShellInitial == ShellInit => ShellInv
BY DEF ShellInit, ShellInv, ShellTypes, RowFollows, TurnKnows, AtCompany, RowType, RunType,
       NoRun, Stages, There

\* A step of one run keeps what the script relies on, of every run and for every company.
LEMMA RunKeeps ==
    ASSUME ShellInv, NEW r \in ReportRuns,
           RunBegins(r) \/ PrecheckCreates(r) \/ PrecheckFinds(r) \/ syncRunCompanyId(r)
             \/ Relinks(r) \/ Saves(r) \/ RunFails(r) \/ Retried(r)
    PROVE  /\ runOf' \in [ReportRuns -> RunType]
           /\ row' \in [ReportRuns -> RowType]
           /\ RowFollows'
           /\ There' \subseteq Firms /\ on' \in [There' -> SUBSET Things]
           /\ \A q \in ReportRuns, c \in Firms :
                 HasLeft(q, c) \/ c \in row[q].company => HasLeft(q, c)' \/ c \in row'[q].company
           /\ \A q \in ReportRuns, c \in Firms : HasLeft(q, c) => HasLeft(q, c)'
<1> USE DEF ShellInv, ShellTypes, RowFollows, HasLeft, RunType, RowType, Stages, There
<1>1. CASE RunBegins(r)
  BY <1>1 DEF RunBegins
<1>2. CASE PrecheckCreates(r)
  <2>1. PICK c \in Firms \ There :
            /\ on' = [d \in There \cup {c} |-> IF d = c THEN {} ELSE on[d]]
            /\ runOf' = [runOf EXCEPT ![r] = [at |-> "created", company |-> {c}, chosen |-> FALSE]]
    BY <1>2 DEF PrecheckCreates
  <2>2. runOf[r].at = "parsing" /\ row' = row
    BY <1>2 DEF PrecheckCreates
  <2>3. runOf' \in [ReportRuns -> RunType] /\ row' \in [ReportRuns -> RowType]
    BY <2>1, <2>2
  <2>4. There' \subseteq Firms /\ on' \in [There' -> SUBSET Things]
    BY <2>1
  <2> QED BY <2>1, <2>2, <2>3, <2>4
<1>3. CASE PrecheckFinds(r)
  BY <1>3 DEF PrecheckFinds
<1>4. CASE syncRunCompanyId(r)
  BY <1>4 DEF syncRunCompanyId
<1>5. CASE Relinks(r)
  BY <1>5 DEF Relinks
<1>6. CASE Saves(r)
  <2>1. PICK c \in runOf[r].company :
            IF c \in There
            THEN /\ \E t \in Things : on' = [on EXCEPT ![c] = @ \cup {t}]
                 /\ runOf' = [runOf EXCEPT ![r].at = "ended"]
                 /\ row' = [row EXCEPT ![r].status = "completed"]
            ELSE /\ runOf' = [runOf EXCEPT ![r].at = "failed"]
                 /\ row' = [row EXCEPT ![r].status = "failed"]
                 /\ on' = on
    BY <1>6 DEF Saves
  <2>2. runOf[r].at = "working"
    BY <1>6 DEF Saves
  <2>3. CASE c \in There
    <3>1. PICK t \in Things : on' = [on EXCEPT ![c] = @ \cup {t}]
      BY <2>1, <2>3
    <3>2. There' \subseteq Firms /\ on' \in [There' -> SUBSET Things]
      BY <3>1, <2>3
    <3>3. /\ runOf' = [runOf EXCEPT ![r].at = "ended"]
          /\ row' = [row EXCEPT ![r].status = "completed"]
      BY <2>1, <2>3
    <3>4. runOf' \in [ReportRuns -> RunType] /\ row' \in [ReportRuns -> RowType]
      BY <3>3
    <3>5. RowFollows'
      BY <2>2, <3>3
    <3>6. \A q \in ReportRuns, d \in Firms : HasLeft(q, d) => HasLeft(q, d)'
      BY <2>2, <3>3
    <3> QED BY <3>3, <3>2, <3>4, <3>5, <3>6
  <2>4. CASE c \notin There
    <3>1. /\ runOf' = [runOf EXCEPT ![r].at = "failed"]
          /\ row' = [row EXCEPT ![r].status = "failed"]
          /\ on' = on
      BY <2>1, <2>4
    <3>2. runOf' \in [ReportRuns -> RunType] /\ row' \in [ReportRuns -> RowType]
      BY <3>1
    <3>3. RowFollows'
      BY <2>2, <3>1
    <3>4. \A q \in ReportRuns, d \in Firms : HasLeft(q, d) => HasLeft(q, d)'
      BY <2>2, <3>1
    <3> QED BY <3>1, <3>1, <3>2, <3>3, <3>4
  <2> QED BY <2>3, <2>4
<1>7. CASE RunFails(r)
  BY <1>7 DEF RunFails
<1>8. CASE Retried(r)
  BY <1>8 DEF Retried
<1> QED BY <1>1, <1>2, <1>3, <1>4, <1>5, <1>6, <1>7, <1>8

\* Every step keeps the invariant.
LEMMA ShellStep == ShellInv /\ [ShellNext]_svars => ShellInv'
<1> SUFFICES ASSUME ShellInv, [ShellNext]_svars PROVE ShellInv'
  OBVIOUS
<1>1. CASE \E r \in ReportRuns : RunBegins(r) \/ PrecheckCreates(r) \/ PrecheckFinds(r)
              \/ syncRunCompanyId(r) \/ Relinks(r) \/ Saves(r) \/ RunFails(r) \/ Retried(r)
  <2>1. UNCHANGED <<list, turn, passes>>
    BY <1>1 DEF RunBegins, PrecheckCreates, PrecheckFinds, syncRunCompanyId, Relinks, Saves,
                RunFails, Retried, ByScript
  <2>2. ShellTypes' /\ RowFollows'
    BY <1>1, <2>1, RunKeeps DEF ShellInv, ShellTypes, AtCompany
  <2>3. TurnKnows'
    BY <1>1, <2>1, RunKeeps DEF ShellInv, ShellTypes, TurnKnows, AtCompany
  <2> QED BY <2>2, <2>3 DEF ShellInv
<1>2. CASE \E c \in Firms : StaffAdd(c)
  BY <1>2 DEF StaffAdd, ByScript, ShellInv, ShellTypes, RowFollows, TurnKnows, HasLeft, AtCompany, There
<1>3. CASE ListPage
  BY <1>3 DEF ListPage, ByPipeline, ShellInv, ShellTypes, RowFollows, TurnKnows, AtCompany, There
<1>4. CASE ListRuns
  BY <1>4 DEF ListRuns, ByPipeline, NoRun, ShellInv, ShellTypes, RowFollows, TurnKnows, AtCompany, There
<1>5. CASE \E c \in Firms : ComesTo(c)
  BY <1>5 DEF ComesTo, Active, ByPipeline, NoRun, ShellInv, ShellTypes, RowFollows, TurnKnows, AtCompany, There
<1>6. CASE CountsRuns
  <2>1. CASE isDisposable(turn.things, Active(turn.company))
    <3>1. turn.at = "runs" /\ turn' = [turn EXCEPT !.at = "delete"] /\ UNCHANGED <<on, runOf, row>>
      BY <1>6, <2>1 DEF CountsRuns, ByPipeline
    <3>2. \A r \in turn.used : HasLeft(r, turn.company)
      BY <2>1, <3>1 DEF isDisposable, Active, ShellInv, ShellTypes, RowFollows, TurnKnows, AtCompany,
                        HasLeft, RowType, RunType
    <3> QED BY <2>1, <3>1, <3>2 DEF isDisposable, ShellInv, ShellTypes, RowFollows, TurnKnows,
                                    AtCompany, HasLeft, There
  <2>2. CASE ~isDisposable(turn.things, Active(turn.company))
    BY <1>6, <2>2 DEF CountsRuns, ByPipeline, NoRun, ShellInv, ShellTypes, RowFollows, TurnKnows,
                      AtCompany, There
  <2> QED BY <2>1, <2>2
<1>7. CASE Deletes
  BY <1>7 DEF Deletes, ByPipeline, NoRun, ShellInv, ShellTypes, RowFollows, TurnKnows, AtCompany, There
<1>8. CASE UNCHANGED svars
  BY <1>8 DEF svars, ShellInv, ShellTypes, RowFollows, TurnKnows, HasLeft, AtCompany, There
<1> QED BY <1>1, <1>2, <1>3, <1>4, <1>5, <1>6, <1>7, <1>8 DEF ShellNext, RunSteps, Script

\* The cleanup of empty companies deletes none that had something when its turn came, nor one
\* that a run under way has named ever since (cleanup-empty-company-shells.ts: the look at each).
THEOREM InUseIsKept == ShellSpec => []UsedCompaniesStay
<1>1. ShellInv => UsedCompaniesStay
  BY DEF ShellInv, ShellTypes, RowFollows, TurnKnows, HasLeft, AtCompany, UsedCompaniesStay
<1> QED BY ShellInitial, ShellStep, <1>1, PTL DEF ShellSpec

-----------------------------------------------------------------------------
(***************************************************************************)
(* Identifiers: owners, column and rows, staff's PRIMARY, batches.         *)
(***************************************************************************)

RowSteps == {"row_table", "row_column", "row_find", "row_write"}
LeiSteps == {"own_table", "own_column", "free_column", "free_table", "find_column", "find_table", "column",
             "row_column", "read", "clear"}
Steps == LeiSteps \cup RowSteps \cup {"delete"}

\* What a batch has to write.  One whose company had a PRIMARY when it was planned keeps roles.
PlanItems(snap) ==
    {i \in Items : /\ i.type \in {"ORG_NUMBER", "ISIN"} /\ i.val # NoValue
                   /\ i.type = "ORG_NUMBER" \/ snap => i.role = "keep"}

ReqRecord == [kind: LeiKinds \cup ManyKinds, co: Companies, pc: Steps, type: Types, val: IdValues \cup {NoValue},
              role: Roles, seen: Rows \cup {NoRow}, items: Seq(Items), body: Seq(Items), alone: BOOLEAN,
              snapPrimary: BOOLEAN]

\* What is so of a request at any time.
ReqOK(q) ==
    /\ q \in ReqRecord
    /\ q.kind \in LeiKinds <=> q.type = "LEI"
    /\ q.kind \in LeiKinds => q.val \in Leis \cup {NoValue} /\ q.role = "keep"
    /\ q.pc \in LeiSteps => q.kind \in LeiKinds
    /\ q.val = NoValue => (q.kind = "clear" /\ q.pc = "clear") \/ (q.kind = "update" /\ q.pc = "column")
    /\ q.pc \in {"read", "clear"} <=> q.kind \in {"clear", "clear_value"}
    /\ q.pc = "delete" <=> q.kind = "delete"
    /\ q.kind \in Batches =>
          /\ q.items \in Seq(PlanItems(q.snapPrimary)) \ {<<>>} /\ q.body \in Seq(PlanItems(q.snapPrimary)) \ {<<>>}
          /\ q.type = Head(q.items).type /\ q.val = Head(q.items).val /\ q.role = Head(q.items).role
          /\ q.pc = "row_write" /\ q.type = "ORG_NUMBER" => q.seen = NoRow

IdShapes ==
    /\ Born \subseteq Companies /\ col \in [Born -> Leis \cup {NoValue}]
    /\ idRows \subseteq Rows /\ \A x, y \in idRows : x.id = y.id => x = y
    /\ \A x \in idRows : x.co \in Born
    /\ DOMAIN req = Requests
    /\ \A r \in Requests : req[r] = NoRequest \/ ReqOK(req[r])
    /\ \A r \in Flying : \/ req[r].co \in Born
                         \/ req[r].kind = "create" /\ req[r].pc \in {"free_column", "free_table", "column"}
    /\ begun \in 0..MaxBegun
    /\ contested \subseteq Leis /\ muddled \subseteq Companies /\ emptied \subseteq Companies

\* The row a request has found stays what it was found for; a row of a singular type may get another value.
SeenStays ==
    \A r \in Flying : \A y \in idRows :
        (req[r].pc = "row_write" /\ y.id = req[r].seen.id) =>
            /\ y.co = req[r].co /\ y.type = req[r].type
            /\ y.type \notin Singular => y.val = req[r].val

\* A LEI that is not contested has one owner and one who asks for it, whose lookups still hold.
Asks(r, v) == req[r].kind \in LeiKinds /\ req[r].val = v
InColumn(c, v) == c \in Born /\ col[c] = v
InRows(c, v) == \E x \in idRows : x.co = c /\ x.type = "LEI" /\ x.val = v

OneOwner(v) == \A c, d \in Companies : LeiOwned(c, v) /\ LeiOwned(d, v) => c = d
OneAsker(v) == \A r, s \in Requests : Asks(r, v) /\ Asks(s, v) => req[r].co = req[s].co
Looks(r, v) ==
    Asks(r, v) => \A d \in Companies \ {req[r].co} :
        /\ req[r].pc \in {"free_table", "column"} \cup RowSteps => ~InColumn(d, v)
        /\ req[r].pc \in {"own_column", "column"} \cup RowSteps => ~InRows(d, v)
Uncontested(v) == OneOwner(v) /\ OneAsker(v) /\ \A r \in Requests : Looks(r, v)

\* A request alone, or beside others of its company.
Loners ==
    \A r \in Flying : /\ req[r].alone => Neighbours(r, req[r].co) = {}
                      /\ ~req[r].alone => req[r].co \in muddled

\* What a request that is alone has written and found is still so.
Undisturbed ==
    \A r \in Flying : req[r].alone =>
        /\ HalfDone(r) => InColumn(req[r].co, req[r].val)
        /\ req[r].pc = "row_write" => req[r].seen = Existing(req[r])

Agree(c) == {x.val : x \in RowsOf(c, "LEI")} = {col[c]} \ {NoValue}
AgreeBetween ==
    \A c \in Born \ (muddled \cup emptied) :
        (\A r \in Flying : req[r].co = c => ~HalfDone(r)) => Agree(c)

IdInv == /\ IdShapes /\ UniqueRows(idRows) /\ SeenStays /\ \A v \in Leis \ contested : Uncontested(v)
         /\ Loners /\ Undisturbed /\ AgreeBetween

-----------------------------------------------------------------------------
(***************************************************************************)
(* The shapes of requests.                                                 *)
(***************************************************************************)

\* A request goes on as the request it was, or has ended.
Continues(q, p) ==
    p = NoRequest \/ (ReqOK(p) /\ p.kind = q.kind /\ p.co = q.co /\ p.alone = q.alone /\ p.snapPrimary = q.snapPrimary)

OnlyOf(r) ==
    /\ DOMAIN req' = Requests /\ \A s \in Requests \ {r} : req'[s] = req[s]
    /\ Continues(req[r], req'[r])

LEMMA FlyingAre ==
    ASSUME IdShapes
    PROVE  /\ \A r \in Flying : r \in Requests /\ ReqOK(req[r]) /\ req[r].kind # "none" /\ req[r] # NoRequest
           /\ \A r \in Requests : r \in Flying \/ req[r] = NoRequest
           /\ \A r \in Requests : ReqOK(req[r]) => r \in Flying
<1>1. NoRequest.kind = "none"
  BY DEF NoRequest
<1>2. ASSUME NEW q, ReqOK(q) PROVE q.kind # "none"
  BY <1>2 DEF ReqOK, ReqRecord, LeiKinds, ManyKinds, Batches
<1> QED BY <1>1, <1>2 DEF Flying, IdShapes

LEMMA MoveOK ==
    ASSUME NEW q, ReqOK(q), q.val # NoValue, q.pc # "delete",
           NEW p \in Steps \ {"row_write", "delete"}, p \in LeiSteps => q.kind \in LeiKinds,
           p \in {"read", "clear"} <=> q.pc \in {"read", "clear"}
    PROVE  Continues(q, [q EXCEPT !.pc = p])
<1> DEFINE n == [q EXCEPT !.pc = p]
<1>1. n \in ReqRecord /\ n.pc = p /\ q \in ReqRecord
  BY DEF ReqOK, ReqRecord
<1>2. /\ n.kind = q.kind /\ n.co = q.co /\ n.alone = q.alone /\ n.snapPrimary = q.snapPrimary /\ n.type = q.type
      /\ n.val = q.val /\ n.role = q.role /\ n.items = q.items /\ n.body = q.body /\ n.seen = q.seen
  BY <1>1 DEF ReqRecord
<1> HIDE DEF n
<1>3. ReqOK(n)
  BY <1>1, <1>2 DEF ReqOK, Steps
<1> QED BY <1>2, <1>3 DEF Continues, n

LEMMA ItemOK ==
    ASSUME NEW q, ReqOK(q), q.kind \in Batches, NEW items \in Seq(PlanItems(q.snapPrimary)) \ {<<>>}
    PROVE  /\ Continues(q, OnItem(q, items))
           /\ OnItem(q, items).pc = "row_table" /\ OnItem(q, items).kind = q.kind /\ OnItem(q, items) # NoRequest
<1> DEFINE n == OnItem(q, items)
           i == Head(items)
<1>1. i \in PlanItems(q.snapPrimary) /\ PlanItems(q.snapPrimary) \subseteq Items
  BY HeadTailProperties DEF PlanItems
<1>2. i.type \in {"ORG_NUMBER", "ISIN"} /\ i.val \in IdValues /\ i.val # NoValue /\ i.role \in Roles
  BY <1>1 DEF PlanItems, Items
<1>3. items \in Seq(Items)
  BY <1>1
<1>4. q \in ReqRecord
  BY DEF ReqOK
<1>5. /\ n.kind = q.kind /\ n.co = q.co /\ n.alone = q.alone /\ n.snapPrimary = q.snapPrimary /\ n.type = i.type
      /\ n.val = i.val /\ n.role = i.role /\ n.items = items /\ n.body = q.body /\ n.seen = NoRow /\ n.pc = "row_table"
  BY <1>4 DEF OnItem, ReqRecord
<1>6. n \in ReqRecord
  BY <1>2, <1>3, <1>4 DEF OnItem, ReqRecord, Steps, RowSteps, Types
<1> HIDE DEF n
<1>7. ReqOK(n)
  BY <1>2, <1>5, <1>6 DEF ReqOK, LeiSteps, Batches, LeiKinds
<1>8. n.kind # "none"
  BY <1>5 DEF Batches
<1> QED BY <1>5, <1>7, <1>8 DEF Continues, n, NoRequest

\* A request moves to another query.
LEMMA GoIs ==
    ASSUME IdShapes, NEW r \in Flying, NEW p, Go(r, p), req[r].val # NoValue, req[r].pc # "delete",
           p \in Steps \ {"row_write", "delete"}, p \in LeiSteps => req[r].kind \in LeiKinds,
           p \in {"read", "clear"} <=> req[r].pc \in {"read", "clear"}
    PROVE  /\ OnlyOf(r) /\ req'[r] # NoRequest /\ UNCHANGED <<muddled, emptied>>
           /\ req'[r] = [req[r] EXCEPT !.pc = p]
           /\ req'[r].pc = p /\ req'[r].val = req[r].val /\ req'[r].type = req[r].type /\ req'[r].seen = req[r].seen
<1>1. req' = [req EXCEPT ![r] = [req[r] EXCEPT !.pc = p]] /\ UNCHANGED <<muddled, emptied>>
  BY DEF Go
<1>2. r \in Requests /\ DOMAIN req = Requests /\ ReqOK(req[r]) /\ req[r].kind # "none"
  BY FlyingAre DEF IdShapes
<1>3. req'[r] = [req[r] EXCEPT !.pc = p] /\ DOMAIN req' = Requests /\ \A s \in Requests \ {r} : req'[s] = req[s]
  BY <1>1, <1>2
<1>4. Continues(req[r], [req[r] EXCEPT !.pc = p])
  BY <1>2, MoveOK
<1>5. req[r] \in ReqRecord
  BY <1>2 DEF ReqOK
<1>6. /\ req'[r].kind = req[r].kind /\ req'[r].pc = p /\ req'[r].val = req[r].val /\ req'[r].type = req[r].type
      /\ req'[r].seen = req[r].seen
  BY <1>3, <1>5 DEF ReqRecord
<1>7. req'[r] # NoRequest
  BY <1>2, <1>6 DEF NoRequest
<1> QED BY <1>1, <1>3, <1>4, <1>6, <1>7 DEF OnlyOf

\* The items of a batch that are left.
LEMMA ItemsLeft ==
    ASSUME NEW q, ReqOK(q), q.kind \in Batches, Len(q.items) > 1
    PROVE  Tail(q.items) \in Seq(PlanItems(q.snapPrimary)) \ {<<>>}
<1> DEFINE S == Seq(PlanItems(q.snapPrimary))
           rest == Tail(q.items)
           n == Len(q.items)
           m == Len(rest)
<1>1. q.items \in S /\ q.items # <<>>
  BY DEF ReqOK
<1>2. rest \in S /\ m = n - 1
  BY <1>1, HeadTailProperties
<1>3. n \in Nat /\ n > 1
  BY <1>1, LenProperties
<1> HIDE DEF n, m, S, rest
<1>4. m # 0
  BY <1>2, <1>3
<1>5. rest # <<>>
  BY <1>2, <1>4, EmptySeq DEF m, S
<1> QED BY <1>2, <1>5 DEF rest, S

\* A request that is refused ends, or goes on with its next item.
LEMMA RefuseIs ==
    ASSUME IdShapes, NEW r \in Flying, Refuse(r)
    PROVE  /\ OnlyOf(r)
           /\ req'[r] # NoRequest => req[r].kind \in Batches /\ req'[r].pc = "row_table"
           /\ muddled' = IF HalfDone(r) THEN muddled \cup {req[r].co} ELSE muddled
           /\ emptied' = emptied
<1>1. r \in Requests /\ DOMAIN req = Requests /\ ReqOK(req[r])
  BY FlyingAre DEF IdShapes
<1>2. CASE req[r].kind \in Batches /\ Len(req[r].items) > 1
  <2>1. req' = [req EXCEPT ![r] = OnItem(req[r], Tail(req[r].items))]
    BY <1>2 DEF Refuse
  <2>2. req'[r] = OnItem(req[r], Tail(req[r].items)) /\ DOMAIN req' = Requests /\ \A s \in Requests \ {r} : req'[s] = req[s]
    BY <1>1, <2>1
  <2>3. Tail(req[r].items) \in Seq(PlanItems(req[r].snapPrimary)) \ {<<>>}
    BY <1>1, <1>2, ItemsLeft
  <2>4. Continues(req[r], req'[r]) /\ req'[r].pc = "row_table"
    BY <1>1, <1>2, <2>2, <2>3, ItemOK
  <2> QED BY <1>2, <2>2, <2>4 DEF Refuse, OnlyOf
<1>3. CASE ~(req[r].kind \in Batches /\ Len(req[r].items) > 1)
  BY <1>1, <1>3 DEF Refuse, OnlyOf, Continues
<1> QED BY <1>2, <1>3

\* A request that has done its work, or one item of it.
LEMMA DoneIs ==
    ASSUME IdShapes, NEW r \in Flying, Done(r)
    PROVE  /\ OnlyOf(r)
           /\ req'[r] # NoRequest => req[r].kind \in Batches /\ req'[r].pc = "row_table"
           /\ \/ UNCHANGED <<muddled, emptied>>
              \/ /\ req[r].alone /\ Settles(req[r]) /\ req'[r] = NoRequest
                 /\ muddled' = muddled \ {req[r].co} /\ emptied' = emptied \ {req[r].co}
<1>1. r \in Requests /\ DOMAIN req = Requests /\ ReqOK(req[r])
  BY FlyingAre DEF IdShapes
<1>2. CASE req[r].kind \in Batches /\ Len(req[r].items) > 1
  <2>1. req' = [req EXCEPT ![r] = OnItem(req[r], Tail(req[r].items))]
    BY <1>2 DEF Done
  <2>2. req'[r] = OnItem(req[r], Tail(req[r].items)) /\ DOMAIN req' = Requests /\ \A s \in Requests \ {r} : req'[s] = req[s]
    BY <1>1, <2>1
  <2>3. Tail(req[r].items) \in Seq(PlanItems(req[r].snapPrimary)) \ {<<>>}
    BY <1>1, <1>2, ItemsLeft
  <2>4. Continues(req[r], req'[r]) /\ req'[r].pc = "row_table"
    BY <1>1, <1>2, <2>2, <2>3, ItemOK
  <2> QED BY <1>2, <2>2, <2>4 DEF Done, OnlyOf
<1>3. CASE ~(req[r].kind \in Batches /\ Len(req[r].items) > 1)
  BY <1>1, <1>3 DEF Done, Finish, OnlyOf, Continues
<1> QED BY <1>2, <1>3

LEMMA FinishIs ==
    ASSUME IdShapes, NEW r \in Flying, Finish(r)
    PROVE  /\ OnlyOf(r) /\ req'[r] = NoRequest
           /\ \/ UNCHANGED <<muddled, emptied>>
              \/ /\ req[r].alone /\ Settles(req[r])
                 /\ muddled' = muddled \ {req[r].co} /\ emptied' = emptied \ {req[r].co}
<1>1. r \in Requests /\ DOMAIN req = Requests /\ ReqOK(req[r])
  BY FlyingAre DEF IdShapes
<1> QED BY <1>1 DEF Finish, OnlyOf, Continues

\* The row upsertIdentifier finds, if there is one.
Matches(x, q) == x \in idRows /\ x.co = q.co /\ x.type = q.type /\ (q.type \in Singular \/ x.val = q.val)

LEMMA NoRowIsNone == IdShapes => NoRow \notin Rows /\ NoRow \notin idRows /\ \A x \in idRows : x \in Rows /\ x # NoRow /\ x.id # NoRow.id
<1>1. \A x \in Rows : x.id # 0
  BY DEF Rows
<1>2. NoRow.id = 0
  BY DEF NoRow
<1> QED BY <1>1, <1>2 DEF IdShapes

LEMMA ExistingIs ==
    ASSUME IdShapes, NEW q
    PROVE  \/ Existing(q) = NoRow /\ \A x : ~Matches(x, q)
           \/ Existing(q) \in Rows /\ Existing(q) # NoRow /\ Matches(Existing(q), q)
<1> DEFINE there == {x \in RowsOf(q.co, q.type) : q.type \in Singular \/ x.val = q.val}
<1>1. \A x : x \in there <=> Matches(x, q)
  BY DEF Matches, RowsOf
<1>2. Existing(q) = IF there = {} THEN NoRow ELSE CHOOSE x \in there : TRUE
  BY DEF Existing
<1> HIDE DEF there
<1>3. CASE there = {}
  BY <1>1, <1>2, <1>3
<1>4. CASE there # {}
  <2>1. Existing(q) \in there
    BY <1>2, <1>4
  <2>2. Existing(q) \in idRows
    BY <1>1, <2>1 DEF Matches
  <2> QED BY <1>1, <2>1, <2>2, NoRowIsNone
<1> QED BY <1>3, <1>4

LEMMA FoundOK ==
    ASSUME NEW q, ReqOK(q), q.pc = "row_find", NEW x \in Rows \cup {NoRow}, x # NoRow => ~CreateOnly(q)
    PROVE  Continues(q, [q EXCEPT !.pc = "row_write", !.seen = x])
<1> DEFINE n == [q EXCEPT !.pc = "row_write", !.seen = x]
<1>1. n \in ReqRecord /\ n.pc = "row_write" /\ n.seen = x /\ q \in ReqRecord
  BY DEF ReqOK, ReqRecord, Steps, RowSteps
<1>2. /\ n.kind = q.kind /\ n.co = q.co /\ n.alone = q.alone /\ n.snapPrimary = q.snapPrimary /\ n.type = q.type
      /\ n.val = q.val /\ n.role = q.role /\ n.items = q.items /\ n.body = q.body
  BY <1>1 DEF ReqRecord
<1> HIDE DEF n
<1>3. ReqOK(n)
  BY <1>1, <1>2 DEF ReqOK, LeiSteps, CreateOnly
<1> QED BY <1>1, <1>2, <1>3 DEF Continues, n

\* upsertIdentifier finds that there is nothing to do, or the row to change.
LEMMA FindRowIs ==
    ASSUME IdShapes, NEW r \in Flying, FindRow(r)
    PROVE  /\ OnlyOf(r) /\ UNCHANGED <<col, idRows>> /\ req[r].pc = "row_find"
           /\ \/ /\ Existing(req[r]) # NoRow /\ Done(r)
                 /\ CreateOnly(req[r]) \/ Existing(req[r]).val = req[r].val
              \/ /\ req'[r] = [req[r] EXCEPT !.pc = "row_write", !.seen = Existing(req[r])]
                 /\ req'[r].pc = "row_write" /\ req'[r].seen = Existing(req[r]) /\ req'[r] # NoRequest
                 /\ req'[r].type = req[r].type /\ req'[r].val = req[r].val
                 /\ Existing(req[r]) # NoRow => ~CreateOnly(req[r])
                 /\ UNCHANGED <<muddled, emptied>>
<1> DEFINE q == req[r]
           x == Existing(q)
           same == x.val = q.val /\ (q.role = "keep" \/ x.primary = (q.role = "primary"))
<1>1. r \in Requests /\ DOMAIN req = Requests /\ ReqOK(q)
  BY FlyingAre DEF IdShapes
<1>2. x \in Rows \cup {NoRow}
  BY ExistingIs
<1>3. UNCHANGED <<col, idRows>> /\ q.pc = "row_find"
  BY DEF FindRow, Looked, ReqAt
<1>4. CASE x # NoRow /\ (CreateOnly(q) \/ (same /\ SkipsUnchanged(q)))
  <2>1. Done(r)
    BY <1>4 DEF FindRow
  <2> QED BY <1>3, <1>4, <2>1, DoneIs
<1>5. CASE ~(x # NoRow /\ (CreateOnly(q) \/ (same /\ SkipsUnchanged(q))))
  <2>1. req' = [req EXCEPT ![r].pc = "row_write", ![r].seen = x] /\ UNCHANGED <<muddled, emptied>>
    BY <1>5 DEF FindRow
  <2>2. q \in ReqRecord
    BY <1>1 DEF ReqOK
  <2>3. DOMAIN req' = Requests /\ \A s \in Requests \ {r} : req'[s] = req[s]
    BY <1>1, <2>1
  <2>4. req'[r] = [q EXCEPT !.pc = "row_write", !.seen = x]
    BY <1>1, <2>1, <2>2 DEF ReqRecord
  <2>5. x # NoRow => ~CreateOnly(q)
    BY <1>5
  <2> HIDE DEF x
  <2>6. Continues(q, [q EXCEPT !.pc = "row_write", !.seen = x])
    BY <1>1, <1>2, <1>3, <2>5, FoundOK
  <2>8. /\ req'[r].pc = "row_write" /\ req'[r].seen = x /\ req'[r].type = q.type /\ req'[r].val = q.val
        /\ req'[r].kind = q.kind
    BY <2>2, <2>4 DEF ReqRecord
  <2>9. req'[r] # NoRequest
    BY <1>1, <2>8, FlyingAre DEF NoRequest
  <2>7. OnlyOf(r)
    BY <2>3, <2>4, <2>6 DEF OnlyOf
  <2> QED BY <1>3, <2>1, <2>4, <2>5, <2>7, <2>8, <2>9 DEF x
<1> QED BY <1>4, <1>5

\* A number that no row has is at hand when there is one.
LEMMA FreshIs ==
    ASSUME IdentifierAssumption, FreshIds # {}
    PROVE  LET i == CHOOSE i \in FreshIds : \A j \in FreshIds : i <= j
           IN  i \in 1..MaxRows /\ (\A x \in idRows : x.id # i) /\ (\A s \in Flying : req[s].seen.id # i)
<1> DEFINE R == {p \in Nat \X Nat : p[1] < p[2]}
           S == FreshIds
<1>1. IsWellFoundedOn(R, Nat)
  BY NatLessThanWellFounded DEF OpToRel
<1>2. S \subseteq 1..MaxRows /\ S \subseteq Nat /\ S # {}
  BY DEF FreshIds, IdentifierAssumption
<1>3. /\ \A i \in S : \A x \in idRows : x.id # i
      /\ \A i \in S : \A s \in Flying : req[s].seen.id # i
  BY DEF FreshIds
<1> HIDE DEF S
<1>4. PICK i \in S : \A j \in S : ~(<<j, i>> \in R)
  BY <1>1, <1>2, WFMin
<1>5. ASSUME NEW j \in S PROVE i <= j
  <2>1. ~(<<j, i>> \in R) /\ i \in Nat /\ j \in Nat
    BY <1>2, <1>4
  <2> QED BY <2>1
<1> DEFINE f == CHOOSE k \in S : \A j \in S : k <= j
<1>6. f \in S
  BY <1>4, <1>5
<1> QED BY <1>2, <1>3, <1>6 DEF S

\* The row a request adds, and the rows as they are after it has written.
NewRow(q) ==
    [id |-> CHOOSE i \in FreshIds : \A j \in FreshIds : i <= j, co |-> q.co,
     type |-> q.type, val |-> q.val, primary |-> q.role = "primary"]
Rewritten(q, y) ==
    IF y.id = q.seen.id
    THEN [y EXCEPT !.val = q.val, !.primary = IF q.role = "keep" THEN @ ELSE q.role = "primary"] ELSE y
Demotes(q, id, x) ==
    IF q.role = "primary" /\ x.co = q.co /\ x.type = q.type /\ x.id # id THEN [x EXCEPT !.primary = FALSE] ELSE x
Written(q) == IF q.seen = NoRow THEN {Demotes(q, 0, x) : x \in idRows} \cup {NewRow(q)}
              ELSE {Rewritten(q, Demotes(q, q.seen.id, x)) : x \in idRows}

LEMMA WriteRowIs ==
    ASSUME NEW r, WriteRow(r)
    PROVE  /\ req[r].pc = "row_write" /\ col' = col /\ WatchContest
           /\ req[r].seen = NoRow => FreshIds # {}
           /\ req[r].seen # NoRow => \E y \in idRows : y.id = req[r].seen.id
           /\ \/ UniqueRows(Written(req[r])) /\ idRows' = Written(req[r]) /\ Done(r)
              \/ ~UniqueRows(Written(req[r])) /\ idRows' = idRows /\ Refuse(r)
<1> DEFINE q == req[r]  x == req[r].seen
           written == IF x = NoRow
               THEN Demoted(q, 0) \cup
                    {[id |-> CHOOSE i \in FreshIds : \A j \in FreshIds : i <= j, co |-> q.co,
                      type |-> q.type, val |-> q.val, primary |-> q.role = "primary"]}
               ELSE {IF y.id = x.id
                     THEN [y EXCEPT !.val = q.val,
                            !.primary = IF q.role = "keep" THEN @ ELSE q.role = "primary"]
                     ELSE y : y \in Demoted(q, x.id)}
<1>1. /\ x = NoRow => FreshIds # {}
      /\ x # NoRow => \E y \in idRows : y.id = x.id
      /\ IF UniqueRows(written) THEN idRows' = written /\ Done(r) ELSE Refuse(r) /\ UNCHANGED idRows
      /\ req[r].pc = "row_write" /\ col' = col /\ WatchContest
  BY DEF WriteRow, ReqAt
<1>2. written = Written(q)
  <2>1. CASE x = NoRow
    BY <2>1 DEF Written, NewRow, Demoted, Demotes
  <2>2. CASE x # NoRow
    <3>1. written = {Rewritten(q, y) : y \in Demoted(q, x.id)}
      BY <2>2 DEF Rewritten
    <3>2. Demoted(q, x.id) = {Demotes(q, x.id, y) : y \in idRows}
      BY DEF Demoted, Demotes
    <3>3. Written(q) = {Rewritten(q, Demotes(q, x.id, y)) : y \in idRows}
      BY <2>2 DEF Written
    <3> HIDE DEF written
    <3> QED BY <3>1, <3>2, <3>3, SMT
  <2> QED BY <2>1, <2>2
<1> HIDE DEF written
<1> QED BY <1>1, <1>2

\* What becomes of a row that is there: it keeps its id, its company and its type.
Becomes(q, x) == IF q.seen = NoRow THEN Demotes(q, 0, x) ELSE Rewritten(q, Demotes(q, q.seen.id, x))
Meant(q, x) == q.seen # NoRow /\ x.id = q.seen.id

LEMMA WrittenAre ==
    ASSUME NEW q
    PROVE  /\ \A z \in Written(q) : (\E x \in idRows : z = Becomes(q, x)) \/ (q.seen = NoRow /\ z = NewRow(q))
           /\ \A x \in idRows : Becomes(q, x) \in Written(q)
           /\ q.seen = NoRow => NewRow(q) \in Written(q)
BY DEF Written, Becomes

LEMMA DemotesIs ==
    ASSUME NEW q, NEW id, NEW x \in Rows
    PROVE  LET z == Demotes(q, id, x) IN
           /\ z \in Rows /\ z.id = x.id /\ z.co = x.co /\ z.type = x.type /\ z.val = x.val
           /\ z.primary => x.primary
           /\ q.role # "primary" \/ x.co # q.co \/ x.type # q.type => z = x
           /\ q.role = "primary" /\ x.co = q.co /\ x.type = q.type /\ x.id # id => ~z.primary
           /\ x.id = id => z = x
<1>1. CASE q.role = "primary" /\ x.co = q.co /\ x.type = q.type /\ x.id # id
  <2>1. Demotes(q, id, x) = [x EXCEPT !.primary = FALSE]
    BY <1>1 DEF Demotes
  <2> QED BY <1>1, <2>1 DEF Rows
<1>2. CASE ~(q.role = "primary" /\ x.co = q.co /\ x.type = q.type /\ x.id # id)
  <2>1. Demotes(q, id, x) = x
    BY <1>2 DEF Demotes
  <2> QED BY <1>2, <2>1
<1> QED BY <1>1, <1>2

LEMMA RewrittenIs ==
    ASSUME NEW q, q.val \in IdValues, NEW y \in Rows
    PROVE  LET z == Rewritten(q, y) IN
           /\ z \in Rows /\ z.id = y.id /\ z.co = y.co /\ z.type = y.type
           /\ y.id # q.seen.id => z = y
           /\ y.id = q.seen.id => z.val = q.val /\ z.primary = (IF q.role = "keep" THEN y.primary ELSE q.role = "primary")
<1>1. CASE y.id = q.seen.id /\ q.role = "keep"
  <2>1. Rewritten(q, y) = [y EXCEPT !.val = q.val, !.primary = y.primary]
    BY <1>1 DEF Rewritten, Rows
  <2> QED BY <1>1, <2>1 DEF Rows
<1>2. CASE y.id = q.seen.id /\ q.role # "keep"
  <2>1. Rewritten(q, y) = [y EXCEPT !.val = q.val, !.primary = (q.role = "primary")]
    BY <1>2 DEF Rewritten, Rows
  <2> QED BY <1>2, <2>1 DEF Rows
<1>3. CASE y.id # q.seen.id
  BY <1>3 DEF Rewritten
<1> QED BY <1>1, <1>2, <1>3

LEMMA BecomesIs ==
    ASSUME IdShapes, SeenStays, NEW r \in Flying, req[r].pc = "row_write", NEW x \in idRows
    PROVE  LET q == req[r]
               z == Becomes(q, x)
           IN /\ z \in Rows /\ z.id = x.id /\ z.co = x.co /\ z.type = x.type
              /\ x.co # q.co \/ x.type # q.type => z = x
              /\ Meant(q, x) => x.co = q.co /\ x.type = q.type /\ z.val = q.val
                                /\ z.primary = (IF q.role = "keep" THEN x.primary ELSE q.role = "primary")
              /\ x.type \notin Singular \/ ~Meant(q, x) => z.val = x.val
              /\ ~Meant(q, x) => /\ z.primary => x.primary
                                 /\ q.role # "primary" => z = x
                                 /\ q.role = "primary" /\ x.co = q.co /\ x.type = q.type => ~z.primary
<1> DEFINE q == req[r]
           d == Demotes(q, IF q.seen = NoRow THEN 0 ELSE q.seen.id, x)
           z == Becomes(q, x)
<1>1. x \in Rows /\ x.id # 0
  BY NoRowIsNone DEF IdShapes, NoRow
<1>2. q.val \in IdValues /\ ReqOK(q)
  BY FlyingAre DEF ReqOK, ReqRecord
<1>3. Meant(q, x) => x.co = q.co /\ x.type = q.type /\ (x.type \notin Singular => x.val = q.val)
  BY DEF Meant, SeenStays
<1>4. /\ d \in Rows /\ d.id = x.id /\ d.co = x.co /\ d.type = x.type /\ d.val = x.val
      /\ d.primary => x.primary
      /\ q.role # "primary" \/ x.co # q.co \/ x.type # q.type => d = x
      /\ q.role = "primary" /\ x.co = q.co /\ x.type = q.type /\ ~Meant(q, x) => ~d.primary
      /\ Meant(q, x) => d = x
  BY <1>1, DemotesIs DEF Meant
<1>5. CASE q.seen = NoRow
  <2>1. z = d /\ ~Meant(q, x)
    BY <1>5 DEF Becomes, Meant
  <2> HIDE DEF z, d
  <2>2. QED
    BY <1>4, <2>1 DEF z
<1>6. CASE q.seen # NoRow
  <2>1. z = Rewritten(q, d)
    BY <1>6 DEF Becomes
  <2> HIDE DEF d, z
  <2>2. /\ z \in Rows /\ z.id = d.id /\ z.co = d.co /\ z.type = d.type
        /\ d.id # q.seen.id => z = d
        /\ d.id = q.seen.id => z.val = q.val /\ z.primary = (IF q.role = "keep" THEN d.primary ELSE q.role = "primary")
    BY <1>2, <1>4, <2>1, RewrittenIs
  <2>3. CASE Meant(q, x)
    <3>1. d = x /\ d.id = q.seen.id
      BY <1>4, <2>3 DEF Meant
    <3> QED BY <1>3, <1>4, <2>2, <2>3, <3>1 DEF z
  <2>4. CASE ~Meant(q, x)
    <3>1. z = d
      BY <1>4, <1>6, <2>2, <2>4 DEF Meant
    <3> QED BY <1>4, <2>4, <3>1 DEF z
  <2> QED BY <2>3, <2>4
<1> QED BY <1>5, <1>6

LEMMA NewRowIs ==
    ASSUME IdentifierAssumption, IdShapes, NEW r \in Flying, req[r].pc = "row_write", FreshIds # {}
    PROVE  LET q == req[r]
               n == NewRow(q)
           IN /\ n \in Rows /\ n.co = q.co /\ n.type = q.type /\ n.val = q.val /\ n.primary = (q.role = "primary")
              /\ \A x \in idRows : x.id # n.id
              /\ \A s \in Flying : req[s].seen.id # n.id
<1> DEFINE q == req[r]
           i == CHOOSE i \in FreshIds : \A j \in FreshIds : i <= j
<1>1. i \in 1..MaxRows /\ (\A x \in idRows : x.id # i) /\ (\A s \in Flying : req[s].seen.id # i)
  BY FreshIs
<1>2. q.val \in IdValues /\ q \in ReqRecord
  BY FlyingAre DEF ReqOK, ReqRecord
<1> HIDE DEF i
<1>3. NewRow(q) = [id |-> i, co |-> q.co, type |-> q.type, val |-> q.val, primary |-> q.role = "primary"]
  BY DEF NewRow, i
<1>4. NewRow(q) \in Rows
  BY <1>1, <1>2, <1>3 DEF Rows, ReqRecord
<1> QED BY <1>1, <1>3, <1>4

-----------------------------------------------------------------------------
(***************************************************************************)
(* What the steps do.                                                      *)
(***************************************************************************)

LookSteps(r) ==
    \/ FindInColumn(r) \/ FindInTable(r) \/ FreeInColumn(r) \/ FreeInTable(r)
    \/ OwnInTable(r, "own_table", "own_column")
    \/ OwnInColumn(r, "own_column", "column")
    \/ OwnInTable(r, "row_table", IF req[r].type = "LEI" THEN "row_column" ELSE "row_find")
    \/ OwnInColumn(r, "row_column", "row_find")
    \/ ReadColumn(r)

\* A lookup: where it begins, what it has found free, and where it leads.
Passes(r, p) ==
    LET q == req[r]
    IN \/ q.pc = "find_column" /\ p = "find_table"
       \/ q.pc = "find_table" /\ p = "free_column"
       \/ q.pc = "free_column" /\ p = "free_table" /\ OthersInColumn(q.co, q.val) = {}
       \/ q.pc = "free_table" /\ p = "column" /\ OthersInRows(q.co, "LEI", q.val) = {}
       \/ q.pc = "own_table" /\ p = "own_column" /\ OthersInRows(q.co, q.type, q.val) = {}
       \/ q.pc = "own_column" /\ p = "column" /\ OthersInColumn(q.co, q.val) = {}
       \/ q.pc = "row_table" /\ p = "row_column" /\ q.type = "LEI"
       \/ q.pc = "row_table" /\ p = "row_find" /\ q.type # "LEI"
       \/ q.pc = "row_column" /\ p = "row_find"
       \/ q.pc = "read" /\ p = "clear"

LEMMA LooksAre ==
    ASSUME NEW r \in Requests, LookSteps(r)
    PROVE  /\ r \in Flying /\ UNCHANGED <<col, idRows>> /\ WatchContest
           /\ Refuse(r) \/ \E p : Go(r, p) /\ Passes(r, p)
<1>1. r \in Flying /\ UNCHANGED <<col, idRows>> /\ WatchContest
  BY DEF LookSteps, FindInColumn, FindInTable, FreeInColumn, FreeInTable, OwnInTable, OwnInColumn, ReadColumn, Looked, ReqAt, Flying
<1>2. CASE FindInColumn(r)
  <2> DEFINE p == "find_table"
  <2>1. Refuse(r) \/ (Go(r, p) /\ Passes(r, p))
    BY <1>2 DEF FindInColumn, ReqAt, Passes
  <2> HIDE DEF p
  <2> QED BY <1>1, <2>1
<1>3. CASE FindInTable(r)
  <2> DEFINE p == "free_column"
  <2>1. Refuse(r) \/ (Go(r, p) /\ Passes(r, p))
    BY <1>3 DEF FindInTable, ReqAt, Passes
  <2> HIDE DEF p
  <2> QED BY <1>1, <2>1
<1>4. CASE FreeInColumn(r)
  <2> DEFINE p == "free_table"
  <2>1. Refuse(r) \/ (Go(r, p) /\ Passes(r, p))
    BY <1>4 DEF FreeInColumn, ReqAt, Passes
  <2> HIDE DEF p
  <2> QED BY <1>1, <2>1
<1>5. CASE FreeInTable(r)
  <2> DEFINE p == "column"
  <2>1. Refuse(r) \/ (Go(r, p) /\ Passes(r, p))
    BY <1>5 DEF FreeInTable, ReqAt, Passes
  <2> HIDE DEF p
  <2> QED BY <1>1, <2>1
<1>6. CASE OwnInTable(r, "own_table", "own_column")
  <2> DEFINE p == "own_column"
  <2>1. Refuse(r) \/ (Go(r, p) /\ Passes(r, p))
    BY <1>6 DEF OwnInTable, ReqAt, Passes
  <2> HIDE DEF p
  <2> QED BY <1>1, <2>1
<1>7. CASE OwnInColumn(r, "own_column", "column")
  <2> DEFINE p == "column"
  <2>1. Refuse(r) \/ (Go(r, p) /\ Passes(r, p))
    BY <1>7 DEF OwnInColumn, ReqAt, Passes
  <2> HIDE DEF p
  <2> QED BY <1>1, <2>1
<1>8. CASE OwnInTable(r, "row_table", IF req[r].type = "LEI" THEN "row_column" ELSE "row_find")
  <2> DEFINE p == IF req[r].type = "LEI" THEN "row_column" ELSE "row_find"
  <2>1. Refuse(r) \/ (Go(r, p) /\ Passes(r, p))
    BY <1>8 DEF OwnInTable, ReqAt, Passes
  <2> HIDE DEF p
  <2> QED BY <1>1, <2>1
<1>9. CASE OwnInColumn(r, "row_column", "row_find")
  <2> DEFINE p == "row_find"
  <2>1. Refuse(r) \/ (Go(r, p) /\ Passes(r, p))
    BY <1>9 DEF OwnInColumn, ReqAt, Passes
  <2> HIDE DEF p
  <2> QED BY <1>1, <2>1
<1>10. CASE ReadColumn(r)
  <2> DEFINE p == "clear"
  <2>1. Refuse(r) \/ (Go(r, p) /\ Passes(r, p))
    BY <1>10 DEF ReadColumn, ReqAt, Passes
  <2> HIDE DEF p
  <2> QED BY <1>1, <2>1
<1> QED BY <1>1, <1>2, <1>3, <1>4, <1>5, <1>6, <1>7, <1>8, <1>9, <1>10 DEF LookSteps

LEMMA PassIs ==
    ASSUME IdShapes, NEW r \in Flying, NEW p, Go(r, p), Passes(r, p)
    PROVE  /\ OnlyOf(r) /\ req'[r] # NoRequest /\ UNCHANGED <<muddled, emptied>>
           /\ req'[r] = [req[r] EXCEPT !.pc = p]
           /\ req'[r].pc = p /\ req'[r].val = req[r].val /\ req'[r].type = req[r].type /\ req'[r].seen = req[r].seen
           /\ p \in RowSteps => req[r].pc \in RowSteps
           /\ req[r].pc \in RowSteps => p \in RowSteps
<1>1. ReqOK(req[r])
  BY FlyingAre
<1>2. /\ req[r].val # NoValue /\ req[r].pc # "delete" /\ p \in Steps \ {"row_write", "delete"}
      /\ p \in {"read", "clear"} <=> req[r].pc \in {"read", "clear"}
      /\ p \in LeiSteps => req[r].kind \in LeiKinds
      /\ p \in RowSteps => req[r].pc \in RowSteps
      /\ req[r].pc \in RowSteps => p \in RowSteps
  <2>1. req[r].val # NoValue /\ req[r].pc # "delete"
    BY <1>1 DEF ReqOK, Passes
  <2>2. p \in LeiSteps => req[r].kind \in LeiKinds
    <3>1. req[r].pc \in LeiSteps \/ req[r].type = "LEI" \/ p \notin LeiSteps
      BY DEF Passes, LeiSteps
    <3> QED BY <1>1, <3>1 DEF ReqOK
  <2> QED BY <2>1, <2>2 DEF Passes, Steps, LeiSteps, RowSteps
<1> QED BY <1>2, GoIs

LEMMA WriteColumnIs ==
    ASSUME IdShapes, NEW r \in Requests, WriteColumn(r)
    PROVE  /\ r \in Flying /\ req[r].pc = "column" /\ OnlyOf(r) /\ idRows' = idRows /\ muddled' = muddled /\ WatchContest
           /\ req[r].kind \in LeiKinds
           /\ req[r].val = NoValue => req[r].co \in Born
           /\ \E v \in Leis \cup {NoValue} :
                 /\ col' = [d \in Born \cup {req[r].co} |-> IF d = req[r].co THEN v ELSE col[d]]
                 /\ v = NoValue => req'[r] = NoRequest
                 /\ v # NoValue => req'[r] # NoRequest /\ req'[r].val = v /\ req'[r].pc = "row_table"
                 /\ req[r].val # NoValue => v = req[r].val /\ emptied' = emptied
                 /\ req[r].val = NoValue => \/ v = col[req[r].co] /\ emptied' = emptied
                                            \/ v = NoValue /\ emptied' = emptied \cup {req[r].co}
<1> DEFINE q == req[r]  c == req[r].co
<1>1. r \in Flying /\ q.pc = "column" /\ UNCHANGED <<idRows, muddled>> /\ WatchContest
  BY DEF WriteColumn, ReqAt, Flying
<1>2. ReqOK(q) /\ q \in ReqRecord /\ DOMAIN req = Requests
  BY <1>1, FlyingAre DEF IdShapes, ReqOK
<1>3. PICK empty \in IF q.kind = "update" /\ q.val = NoValue THEN BOOLEAN ELSE {FALSE} :
          LET v == IF q.val # NoValue THEN q.val ELSE IF empty THEN NoValue ELSE col[c]
          IN /\ col' = [d \in Born \cup {c} |-> IF d = c THEN v ELSE col[d]]
             /\ req' = [req EXCEPT ![r] = IF v = NoValue THEN NoRequest
                                          ELSE [q EXCEPT !.val = v, !.pc = "row_table"]]
             /\ emptied' = IF empty THEN emptied \cup {c} ELSE emptied
  BY DEF WriteColumn
<1> DEFINE v == IF q.val # NoValue THEN q.val ELSE IF empty THEN NoValue ELSE col[c]
<1>4. q.val # NoValue => empty = FALSE
  BY <1>3
<1>5. empty \in BOOLEAN
  BY <1>3
<1>6. q.kind \in LeiKinds /\ q.type = "LEI" /\ q.val \in Leis \cup {NoValue} /\ q.role = "keep" /\ c \in Companies
  BY <1>1, <1>2 DEF ReqOK, LeiSteps, ReqRecord
<1>7. q.val = NoValue => c \in Born /\ q.kind = "update"
  BY <1>1, <1>2 DEF ReqOK, IdShapes
<1>8. v \in Leis \cup {NoValue}
  BY <1>6, <1>7 DEF IdShapes
<1>9. /\ col' = [d \in Born \cup {c} |-> IF d = c THEN v ELSE col[d]]
      /\ req' = [req EXCEPT ![r] = IF v = NoValue THEN NoRequest ELSE [q EXCEPT !.val = v, !.pc = "row_table"]]
      /\ emptied' = IF empty THEN emptied \cup {c} ELSE emptied
  BY <1>3
<1>10. DOMAIN req' = Requests /\ (\A s \in Requests \ {r} : req'[s] = req[s])
       /\ req'[r] = (IF v = NoValue THEN NoRequest ELSE [q EXCEPT !.val = v, !.pc = "row_table"])
  BY <1>2, <1>9
<1>11. /\ q.val # NoValue => v = q.val /\ emptied' = emptied
       /\ q.val = NoValue => \/ v = col[c] /\ emptied' = emptied
                             \/ v = NoValue /\ emptied' = emptied \cup {c}
  <2>1. CASE q.val # NoValue
    BY <1>4, <1>9, <2>1
  <2>2. CASE q.val = NoValue /\ empty
    BY <1>9, <2>2
  <2>3. CASE q.val = NoValue /\ ~empty
    <3>1. v = col[c]
      BY <2>3
    <3>2. emptied' = emptied
      BY <1>9, <2>3
    <3> QED BY <2>3, <3>1, <3>2
  <2> QED BY <1>5, <2>1, <2>2, <2>3
<1> HIDE DEF v
<1>12. ASSUME v # NoValue
       PROVE  Continues(q, req'[r]) /\ req'[r] # NoRequest /\ req'[r].val = v /\ req'[r].pc = "row_table"
  <2> DEFINE n == [q EXCEPT !.val = v, !.pc = "row_table"]
  <2>1. n \in ReqRecord /\ n.pc = "row_table" /\ n.val = v
    BY <1>2, <1>8, <1>12 DEF ReqRecord, Steps, RowSteps, IdValues
  <2>2. /\ n.kind = q.kind /\ n.co = q.co /\ n.alone = q.alone /\ n.snapPrimary = q.snapPrimary /\ n.type = q.type
        /\ n.role = q.role /\ n.items = q.items /\ n.body = q.body
    BY <1>2 DEF ReqRecord
  <2> HIDE DEF n
  <2>3. q.kind \notin Batches
    BY <1>6 DEF LeiKinds, Batches
  <2>4. ReqOK(n)
    BY <1>1, <1>2, <1>6, <1>8, <1>12, <2>1, <2>2, <2>3 DEF ReqOK, LeiSteps
  <2>5. n # NoRequest
    BY <1>6, <2>2 DEF LeiKinds, NoRequest
  <2>6. req'[r] = n
    BY <1>10, <1>12 DEF n
  <2> QED BY <2>1, <2>2, <2>4, <2>5, <2>6 DEF Continues
<1>13. v = NoValue => req'[r] = NoRequest
  BY <1>10
<1>14. OnlyOf(r)
  BY <1>10, <1>12, <1>13 DEF OnlyOf, Continues
<1> QED BY <1>1, <1>6, <1>7, <1>8, <1>9, <1>11, <1>12, <1>13, <1>14

LEMMA FailIs ==
    ASSUME IdShapes, NEW r \in Requests, Fail(r)
    PROVE  /\ r \in Flying /\ OnlyOf(r) /\ UNCHANGED <<col, idRows>> /\ WatchContest
           /\ req'[r] # NoRequest => \/ req[r].kind \in Batches /\ req'[r].pc = "row_table"
                                     \/ req[r].kind \notin Batches /\ req'[r].pc = "free_column"
           /\ muddled' = IF HalfDone(r) THEN muddled \cup {req[r].co} ELSE muddled
           /\ emptied' = emptied
<1> DEFINE q == req[r]
<1>1. /\ r \in Flying /\ UNCHANGED <<col, idRows>> /\ WatchContest /\ emptied' = emptied
      /\ muddled' = IF HalfDone(r) THEN muddled \cup {q.co} ELSE muddled
  BY DEF Fail, Looked
<1>2. ReqOK(q) /\ q \in ReqRecord /\ DOMAIN req = Requests /\ q.kind # "none"
  BY <1>1, FlyingAre DEF IdShapes, ReqOK
<1>3. CASE req' = [req EXCEPT ![r] = NoRequest]
  BY <1>1, <1>2, <1>3 DEF OnlyOf, Continues
<1>4. CASE q.kind \in Batches /\ req' = [req EXCEPT ![r] = OnItem(q, q.body)]
  <2>1. q.body \in Seq(PlanItems(q.snapPrimary)) \ {<<>>}
    BY <1>2, <1>4 DEF ReqOK
  <2>2. Continues(q, OnItem(q, q.body)) /\ OnItem(q, q.body).pc = "row_table"
    BY <1>2, <1>4, <2>1, ItemOK
  <2> QED BY <1>1, <1>2, <1>4, <2>2 DEF OnlyOf
<1>5. CASE q.kind \in Pipeline \ Batches /\ req' = [req EXCEPT ![r] = [q EXCEPT !.pc = "free_column", !.seen = NoRow]]
  <2> DEFINE n == [q EXCEPT !.pc = "free_column", !.seen = NoRow]
  <2>1. n \in ReqRecord /\ n.pc = "free_column" /\ n.seen = NoRow
    BY <1>2 DEF ReqRecord, Steps, LeiSteps
  <2>2. /\ n.kind = q.kind /\ n.co = q.co /\ n.alone = q.alone /\ n.snapPrimary = q.snapPrimary /\ n.type = q.type
        /\ n.role = q.role /\ n.items = q.items /\ n.body = q.body /\ n.val = q.val
    BY <1>2 DEF ReqRecord
  <2> HIDE DEF n
  <2>3. q.kind = "diff_lei"
    BY <1>5 DEF Pipeline, Batches
  <2>4. ReqOK(n)
    BY <1>2, <2>1, <2>2, <2>3 DEF ReqOK, LeiKinds, Batches
  <2>5. req'[r] = n /\ DOMAIN req' = Requests /\ \A s \in Requests \ {r} : req'[s] = req[s]
    BY <1>2, <1>5 DEF n
  <2> QED BY <1>1, <1>5, <2>1, <2>2, <2>4, <2>5 DEF OnlyOf, Continues
<1>6. \/ req' = [req EXCEPT ![r] = NoRequest]
      \/ q.kind \in Batches /\ req' = [req EXCEPT ![r] = OnItem(q, q.body)]
      \/ q.kind \in Pipeline \ Batches /\ req' = [req EXCEPT ![r] = [q EXCEPT !.pc = "free_column", !.seen = NoRow]]
  BY DEF Fail
<1> QED BY <1>3, <1>4, <1>5, <1>6

\* Of a step of a request: only the tables of its company change, and those of LEIs only by a request for one.
TablesOf(c, lei) ==
    /\ Born \subseteq DOMAIN col'
    /\ \A d \in Companies : d # c \/ ~lei => (d \in DOMAIN col' <=> d \in Born) /\ (d \in Born => col'[d] = col[d])
    /\ \A x \in Rows : x.co # c \/ (x.type = "LEI" /\ ~lei) => (x \in idRows' <=> x \in idRows)

\* What is noted of a company is forgotten only when a request that was alone has settled it.
HistoryOf(r) ==
    /\ \A d \in Companies : d # req[r].co => (d \in muddled' <=> d \in muddled) /\ (d \in emptied' <=> d \in emptied)
    /\ \/ muddled \subseteq muddled' /\ emptied \subseteq emptied'
       \/ req[r].alone /\ Settles(req[r]) /\ req'[r] = NoRequest

StepOf(r) ==
    /\ r \in Flying /\ OnlyOf(r) /\ WatchContest
    /\ TablesOf(req[r].co, req[r].kind \in LeiKinds) /\ HistoryOf(r)

\* The tables after a row has been written.
LEMMA WriteRowTables ==
    ASSUME IdentifierAssumption, IdShapes, SeenStays, UniqueRows(idRows), NEW r \in Requests, WriteRow(r)
    PROVE  /\ r \in Flying /\ req[r].pc = "row_write" /\ OnlyOf(r) /\ col' = col /\ WatchContest
           /\ idRows' \subseteq Rows /\ \A x, y \in idRows' : x.id = y.id => x = y
           /\ UniqueRows(idRows')
           /\ \A z \in idRows' : z \in idRows \/ (z.co = req[r].co /\ z.type = req[r].type)
           /\ \A x \in idRows : x \in idRows' \/ (x.co = req[r].co /\ x.type = req[r].type)
           /\ \A z \in idRows' : \/ z.val = req[r].val
                                 \/ \E x \in idRows : x.id = z.id /\ x.co = z.co /\ x.type = z.type /\ x.val = z.val
           /\ \A z \in idRows' : \/ \A s \in Flying : req[s].seen.id # z.id
                                 \/ \E x \in idRows : /\ x.id = z.id /\ x.co = z.co /\ x.type = z.type
                                                      /\ z.type \notin Singular => z.val = x.val
           /\ Done(r) \/ Refuse(r)
<1> DEFINE q == req[r]
<1>1. r \in Flying /\ q.pc = "row_write" /\ col' = col /\ WatchContest
  BY WriteRowIs, FlyingAre DEF WriteRow, ReqAt, Flying
<1>2. ReqOK(q) /\ q.val \in IdValues
  BY <1>1, FlyingAre DEF ReqOK, ReqRecord
<1>3. Done(r) \/ Refuse(r)
  BY WriteRowIs
<1>4. OnlyOf(r)
  BY <1>1, <1>3, DoneIs, RefuseIs
<1>5. CASE idRows' = idRows
  BY <1>1, <1>3, <1>4, <1>5 DEF IdShapes
<1>6. CASE UniqueRows(Written(q)) /\ idRows' = Written(q)
  <2>1. \A z \in idRows' : (\E x \in idRows : z = Becomes(q, x)) \/ (q.seen = NoRow /\ z = NewRow(q) /\ FreshIds # {})
    BY <1>6, WrittenAre, WriteRowIs
  <2>2. \A x \in idRows : Becomes(q, x) \in idRows'
    BY <1>6, WrittenAre
  <2>3. \A x \in idRows : LET z == Becomes(q, x) IN
             /\ z \in Rows /\ z.id = x.id /\ z.co = x.co /\ z.type = x.type
             /\ x.co # q.co \/ x.type # q.type => z = x
             /\ z.val = q.val \/ z.val = x.val
             /\ x.type \notin Singular => z.val = x.val
    BY <1>1, BecomesIs
  <2>4. FreshIds # {} => LET n == NewRow(q) IN
             /\ n \in Rows /\ n.co = q.co /\ n.type = q.type /\ n.val = q.val
             /\ \A x \in idRows : x.id # n.id
             /\ \A s \in Flying : req[s].seen.id # n.id
    BY <1>1, NewRowIs
  <2>5. idRows' \subseteq Rows
    BY <2>1, <2>3, <2>4
  <2>6. \A x, y \in idRows' : x.id = y.id => x = y
    <3> SUFFICES ASSUME NEW x \in idRows', NEW y \in idRows', x.id = y.id PROVE x = y
      OBVIOUS
    <3>1. CASE \E a, b \in idRows : x = Becomes(q, a) /\ y = Becomes(q, b)
      BY <2>3, <3>1 DEF IdShapes
    <3>2. CASE ~\E a, b \in idRows : x = Becomes(q, a) /\ y = Becomes(q, b)
      BY <2>1, <2>3, <2>4, <3>2
    <3> QED BY <3>1, <3>2
  <2>7. \A z \in idRows' : z \in idRows \/ (z.co = q.co /\ z.type = q.type)
    BY <2>1, <2>3, <2>4
  <2>8. \A x \in idRows : x \in idRows' \/ (x.co = q.co /\ x.type = q.type)
    BY <2>2, <2>3
  <2>9. \A z \in idRows' : \/ z.val = q.val
                           \/ \E x \in idRows : x.id = z.id /\ x.co = z.co /\ x.type = z.type /\ x.val = z.val
    BY <2>1, <2>3, <2>4
  <2>10. \A z \in idRows' : \/ \A s \in Flying : req[s].seen.id # z.id
                            \/ \E x \in idRows : /\ x.id = z.id /\ x.co = z.co /\ x.type = z.type
                                                 /\ z.type \notin Singular => z.val = x.val
    BY <2>1, <2>3, <2>4
  <2>11. UniqueRows(idRows')
    BY <1>6
  <2> QED BY <1>1, <1>3, <1>4, <2>5, <2>6, <2>7, <2>8, <2>9, <2>10, <2>11
<1> QED BY <1>5, <1>6, WriteRowIs

LEMMA ClearLeiIs ==
    ASSUME IdShapes, NEW r \in Requests, ClearLei(r)
    PROVE  /\ r \in Flying /\ req[r].kind \in LeiKinds /\ req[r].co \in Born /\ OnlyOf(r) /\ WatchContest
           /\ req[r].pc = "clear" /\ req'[r] = NoRequest
           /\ col' = [col EXCEPT ![req[r].co] = NoValue] /\ idRows' = idRows \ RowsOf(req[r].co, "LEI")
           /\ \/ UNCHANGED <<muddled, emptied>>
              \/ /\ req[r].alone /\ Settles(req[r])
                 /\ muddled' = muddled \ {req[r].co} /\ emptied' = emptied \ {req[r].co}
<1>1. /\ r \in Flying /\ req[r].pc = "clear" /\ Finish(r) /\ WatchContest
      /\ col' = [col EXCEPT ![req[r].co] = NoValue] /\ idRows' = idRows \ RowsOf(req[r].co, "LEI")
  BY DEF ClearLei, ReqAt, Flying
<1>2. req[r].kind \in LeiKinds /\ req[r].co \in Born
  BY <1>1, FlyingAre DEF ReqOK, LeiSteps, IdShapes
<1> QED BY <1>1, <1>2, FinishIs

LEMMA DeleteRowsIs ==
    ASSUME IdShapes, NEW r \in Requests, DeleteRows(r)
    PROVE  /\ r \in Flying /\ req[r].kind = "delete" /\ req[r].type # "LEI" /\ OnlyOf(r) /\ WatchContest
           /\ req'[r] = NoRequest /\ col' = col /\ UNCHANGED <<muddled, emptied>>
           /\ idRows' \subseteq idRows
           /\ \A x \in idRows : x \in idRows' \/ (x.co = req[r].co /\ x.type = req[r].type)
<1>1. /\ r \in Flying /\ req[r].pc = "delete" /\ Finish(r) /\ WatchContest /\ col' = col
      /\ idRows' = idRows \ {x \in RowsOf(req[r].co, req[r].type) : req[r].type = "ORG_NUMBER" \/ x.val = req[r].val}
  BY DEF DeleteRows, ReqAt, Flying
<1>2. req[r].kind = "delete" /\ req[r].type # "LEI"
  BY <1>1, FlyingAre DEF ReqOK, LeiKinds
<1>3. ~Settles(req[r])
  BY <1>2 DEF Settles
<1>4. OnlyOf(r) /\ req'[r] = NoRequest /\ UNCHANGED <<muddled, emptied>>
  BY <1>1, <1>3, FinishIs
<1> QED BY <1>1, <1>2, <1>4 DEF RowsOf

\* The shapes hold when what a step touches has its shape.
LEMMA ShapesOf ==
    ASSUME IdShapes, NEW r \in Flying, OnlyOf(r), UNCHANGED begun, WatchContest,
           DOMAIN col' \subseteq Companies, col' \in [DOMAIN col' -> Leis \cup {NoValue}], Born \subseteq DOMAIN col',
           idRows' \subseteq Rows, \A x, y \in idRows' : x.id = y.id => x = y, \A x \in idRows' : x.co \in DOMAIN col',
           req'[r] # NoRequest => \/ req[r].co \in DOMAIN col'
                                  \/ req'[r].kind = "create" /\ req'[r].pc \in {"free_column", "free_table", "column"},
           muddled' \subseteq muddled \cup {req[r].co}, emptied' \subseteq emptied \cup {req[r].co}
    PROVE  IdShapes'
<1>1. r \in Requests /\ req[r].co \in Companies
  BY FlyingAre DEF ReqOK, ReqRecord
<1>2. \A s \in Requests : req'[s] = NoRequest \/ ReqOK(req'[s])
  BY <1>1 DEF OnlyOf, Continues, IdShapes
<1>3. contested' \subseteq Leis
  BY DEF WatchContest
<1>4. \A s \in Requests : req'[s].kind # "none" =>
          \/ req'[s].co \in DOMAIN col'
          \/ req'[s].kind = "create" /\ req'[s].pc \in {"free_column", "free_table", "column"}
  <2> SUFFICES ASSUME NEW s \in Requests, req'[s].kind # "none"
               PROVE  \/ req'[s].co \in DOMAIN col'
                      \/ req'[s].kind = "create" /\ req'[s].pc \in {"free_column", "free_table", "column"}
    OBVIOUS
  <2>1. CASE s = r
    BY <2>1 DEF OnlyOf, Continues, NoRequest
  <2>2. CASE s # r
    BY <2>2 DEF OnlyOf, IdShapes, Flying
  <2> QED BY <2>1, <2>2
<1>5. muddled' \subseteq Companies /\ emptied' \subseteq Companies
  BY <1>1 DEF IdShapes
<1>6. \A s \in Flying' : \/ req'[s].co \in DOMAIN col'
                         \/ req'[s].kind = "create" /\ req'[s].pc \in {"free_column", "free_table", "column"}
  BY <1>4 DEF Flying
<1>7. DOMAIN req' = Requests
  BY DEF OnlyOf
<1>8. begun' \in 0..MaxBegun
  BY DEF IdShapes
<1> QED BY <1>2, <1>3, <1>5, <1>6, <1>7, <1>8 DEF IdShapes, Born

LEMMA QuietStep ==
    ASSUME IdShapes, NEW r \in Flying, OnlyOf(r), UNCHANGED <<begun, col, idRows>>, WatchContest,
           req'[r] # NoRequest => req[r].co \in Born \/ req'[r].pc \in {"free_column", "free_table", "column"},
           muddled' \subseteq muddled \cup {req[r].co}, muddled \ {req[r].co} \subseteq muddled',
           emptied' \subseteq emptied \cup {req[r].co}, emptied \ {req[r].co} \subseteq emptied',
           \/ muddled \subseteq muddled' /\ emptied \subseteq emptied'
           \/ req[r].alone /\ Settles(req[r]) /\ req'[r] = NoRequest
    PROVE  StepOf(r) /\ IdShapes'
<1>1. TablesOf(req[r].co, req[r].kind \in LeiKinds) /\ HistoryOf(r)
  BY DEF TablesOf, HistoryOf, Born
<1>2. req'[r] # NoRequest => \/ req[r].co \in DOMAIN col'
                             \/ req'[r].kind = "create" /\ req'[r].pc \in {"free_column", "free_table", "column"}
  BY DEF IdShapes, Born, OnlyOf, Continues
<1>3. /\ DOMAIN col' \subseteq Companies /\ col' \in [DOMAIN col' -> Leis \cup {NoValue}] /\ Born \subseteq DOMAIN col'
      /\ idRows' \subseteq Rows /\ \A x, y \in idRows' : x.id = y.id => x = y
      /\ \A x \in idRows' : x.co \in DOMAIN col'
  BY DEF IdShapes, Born
<1>4. IdShapes'
  BY <1>2, <1>3, ShapesOf
<1> QED BY <1>1, <1>4 DEF StepOf

LEMMA StepsAre ==
    ASSUME IdentifierAssumption, IdShapes, SeenStays, UniqueRows(idRows), NEW r \in Requests, IdSteps(r), begun' = begun
    PROVE  StepOf(r) /\ IdShapes'
<1>1. CASE LookSteps(r)
  <2>1. r \in Flying /\ UNCHANGED <<col, idRows>> /\ WatchContest
    BY <1>1, LooksAre
  <2>2. CASE Refuse(r)
    <3>1. /\ OnlyOf(r) /\ emptied' = emptied /\ (muddled' = muddled \/ muddled' = muddled \cup {req[r].co})
          /\ req'[r] # NoRequest => req[r].kind \in Batches
      BY <2>1, <2>2, RefuseIs
    <3>2. req'[r] # NoRequest => req[r].co \in Born
      BY <2>1, <3>1 DEF IdShapes, Batches
    <3> QED BY <2>1, <3>1, <3>2, QuietStep
  <2>3. ASSUME NEW p, Go(r, p), Passes(r, p) PROVE StepOf(r) /\ IdShapes'
    <3>1. OnlyOf(r) /\ UNCHANGED <<muddled, emptied>> /\ req'[r].pc = p
      BY <2>1, <2>3, PassIs
    <3>2. req[r].co \in Born \/ req'[r].pc \in {"free_column", "free_table", "column"}
      BY <2>1, <2>3, <3>1 DEF IdShapes, Passes
    <3> QED BY <2>1, <3>1, <3>2, QuietStep
  <2> QED BY <1>1, <2>2, <2>3, LooksAre
<1>2. CASE WriteColumn(r)
  <2>1. PICK v \in Leis \cup {NoValue} :
            col' = [d \in Born \cup {req[r].co} |-> IF d = req[r].co THEN v ELSE col[d]]
    BY <1>2, WriteColumnIs
  <2>2. /\ r \in Flying /\ OnlyOf(r) /\ idRows' = idRows /\ muddled' = muddled /\ WatchContest /\ req[r].kind \in LeiKinds
        /\ emptied' = emptied \/ emptied' = emptied \cup {req[r].co}
    BY <1>2, WriteColumnIs
  <2>3. req[r].co \in Companies
    BY <2>2, FlyingAre DEF ReqOK, ReqRecord
  <2>4. /\ DOMAIN col' \subseteq Companies /\ col' \in [DOMAIN col' -> Leis \cup {NoValue}] /\ Born \subseteq DOMAIN col'
        /\ req[r].co \in DOMAIN col'
        /\ \A d \in Companies : d # req[r].co => (d \in DOMAIN col' <=> d \in Born) /\ (d \in Born => col'[d] = col[d])
    BY <2>1, <2>3 DEF IdShapes, Born
  <2>5. TablesOf(req[r].co, req[r].kind \in LeiKinds) /\ HistoryOf(r)
    BY <2>2, <2>4 DEF TablesOf, HistoryOf
  <2>6. /\ idRows' \subseteq Rows /\ \A x, y \in idRows' : x.id = y.id => x = y
        /\ \A x \in idRows' : x.co \in DOMAIN col'
    BY <2>2, <2>4 DEF IdShapes
  <2>7. IdShapes'
    BY <2>2, <2>4, <2>6, ShapesOf
  <2> QED BY <2>2, <2>5, <2>7 DEF StepOf
<1>3. CASE FindRow(r)
  <2>1. r \in Flying /\ WatchContest
    BY <1>3 DEF FindRow, ReqAt, Flying, Looked
  <2>2. OnlyOf(r) /\ UNCHANGED <<col, idRows>> /\ req[r].pc = "row_find"
    BY <1>3, <2>1, FindRowIs
  <2>3. req[r].co \in Born
    BY <2>1, <2>2 DEF IdShapes
  <2>4. \/ UNCHANGED <<muddled, emptied>>
        \/ /\ muddled' = muddled \ {req[r].co} /\ emptied' = emptied \ {req[r].co}
           /\ req[r].alone /\ Settles(req[r]) /\ req'[r] = NoRequest
    BY <1>3, <2>1, FindRowIs, DoneIs
  <2> QED BY <2>1, <2>2, <2>3, <2>4, QuietStep
<1>4. CASE WriteRow(r)
  <2>1. /\ r \in Flying /\ req[r].pc = "row_write" /\ OnlyOf(r) /\ col' = col /\ WatchContest
        /\ idRows' \subseteq Rows /\ \A x, y \in idRows' : x.id = y.id => x = y
        /\ \A z \in idRows' : z \in idRows \/ (z.co = req[r].co /\ z.type = req[r].type)
        /\ \A x \in idRows : x \in idRows' \/ (x.co = req[r].co /\ x.type = req[r].type)
        /\ Done(r) \/ Refuse(r)
    BY <1>4, WriteRowTables
  <2>2. /\ req[r].kind \notin LeiKinds => req[r].type # "LEI"
        /\ req[r].co \in Born
    BY <2>1, FlyingAre DEF ReqOK, IdShapes
  <2>3. \/ emptied' = emptied /\ (muddled' = muddled \/ muddled' = muddled \cup {req[r].co})
        \/ /\ muddled' = muddled \ {req[r].co} /\ emptied' = emptied \ {req[r].co}
           /\ req[r].alone /\ Settles(req[r]) /\ req'[r] = NoRequest
    BY <2>1, DoneIs, RefuseIs
  <2>4. TablesOf(req[r].co, req[r].kind \in LeiKinds)
    BY <2>1, <2>2 DEF TablesOf, Born
  <2>5. HistoryOf(r)
    BY <2>3 DEF HistoryOf
  <2>6. DOMAIN col' \subseteq Companies /\ col' \in [DOMAIN col' -> Leis \cup {NoValue}] /\ Born \subseteq DOMAIN col'
    BY <2>1 DEF IdShapes, Born
  <2>8. \A x \in idRows' : x.co \in DOMAIN col'
    BY <2>1, <2>2 DEF IdShapes, Born
  <2>7. IdShapes'
    BY <2>1, <2>2, <2>3, <2>6, <2>8, ShapesOf
  <2> QED BY <2>1, <2>4, <2>5, <2>7 DEF StepOf
<1>5. CASE ClearLei(r)
  <2>1. /\ r \in Flying /\ req[r].kind \in LeiKinds /\ req[r].co \in Born /\ OnlyOf(r) /\ WatchContest
        /\ col' = [col EXCEPT ![req[r].co] = NoValue] /\ idRows' = idRows \ RowsOf(req[r].co, "LEI")
        /\ \/ UNCHANGED <<muddled, emptied>>
           \/ /\ muddled' = muddled \ {req[r].co} /\ emptied' = emptied \ {req[r].co}
              /\ req[r].alone /\ Settles(req[r]) /\ req'[r] = NoRequest
    BY <1>5, ClearLeiIs
  <2>2. /\ DOMAIN col' = Born /\ Born \subseteq Companies /\ col' \in [Born -> Leis \cup {NoValue}]
        /\ \A d \in Companies : d # req[r].co /\ d \in Born => col'[d] = col[d]
    BY <2>1 DEF IdShapes
  <2>3. \A x \in Rows : x.co # req[r].co => (x \in idRows' <=> x \in idRows)
    BY <2>1 DEF RowsOf
  <2>4. TablesOf(req[r].co, req[r].kind \in LeiKinds)
    BY <2>1, <2>2, <2>3 DEF TablesOf
  <2>5. HistoryOf(r)
    BY <2>1 DEF HistoryOf
  <2>6. /\ idRows' \subseteq Rows /\ \A x, y \in idRows' : x.id = y.id => x = y
        /\ \A x \in idRows' : x.co \in DOMAIN col'
    BY <2>1, <2>2 DEF IdShapes
  <2>7. IdShapes'
    BY <2>1, <2>2, <2>6, ShapesOf
  <2> QED BY <2>1, <2>4, <2>5, <2>7 DEF StepOf
<1>6. CASE DeleteRows(r)
  <2>1. /\ r \in Flying /\ req[r].kind = "delete" /\ req[r].type # "LEI" /\ OnlyOf(r) /\ WatchContest
        /\ req'[r] = NoRequest /\ col' = col /\ UNCHANGED <<muddled, emptied>>
        /\ idRows' \subseteq idRows
        /\ \A x \in idRows : x \in idRows' \/ (x.co = req[r].co /\ x.type = req[r].type)
    BY <1>6, DeleteRowsIs
  <2>2. TablesOf(req[r].co, req[r].kind \in LeiKinds) /\ HistoryOf(r)
    BY <2>1 DEF TablesOf, HistoryOf, Born
  <2>3. DOMAIN col' \subseteq Companies /\ col' \in [DOMAIN col' -> Leis \cup {NoValue}] /\ Born \subseteq DOMAIN col'
    BY <2>1 DEF IdShapes, Born
  <2>4. /\ idRows' \subseteq Rows /\ \A x, y \in idRows' : x.id = y.id => x = y
        /\ \A x \in idRows' : x.co \in DOMAIN col'
    BY <2>1 DEF IdShapes, Born
  <2>5. IdShapes'
    BY <2>1, <2>3, <2>4, ShapesOf
  <2> QED BY <2>1, <2>2, <2>5 DEF StepOf
<1>7. CASE Fail(r)
  <2>1. /\ r \in Flying /\ OnlyOf(r) /\ UNCHANGED <<col, idRows>> /\ WatchContest
        /\ req'[r] # NoRequest => req[r].kind \in Batches \/ req'[r].pc = "free_column"
        /\ muddled' = muddled \/ muddled' = muddled \cup {req[r].co}
        /\ emptied' = emptied
    BY <1>7, FailIs
  <2>2. req'[r] # NoRequest => req[r].co \in Born \/ req'[r].pc = "free_column"
    BY <2>1 DEF IdShapes, Batches
  <2> QED BY <2>1, <2>2, QuietStep
<1> QED BY <1>1, <1>2, <1>3, <1>4, <1>5, <1>6, <1>7 DEF IdSteps, LookSteps

-----------------------------------------------------------------------------
(***************************************************************************)
(* How requests begin.                                                     *)
(***************************************************************************)

\* An order of the members of a finite set is a sequence of them.
LEMMA OrdersAre ==
    ASSUME NEW S, IsFiniteSet(S)
    PROVE  SetToSeq(S) \in Seq(S) /\ \A s \in SetToSeqs(S) : s \in Seq(S)
<1> DEFINE n == Cardinality(S)
<1>1. n \in Nat /\ \E f : f \in [1..n -> S] /\ IsInjective(f)
  BY FS_CardinalityType DEF ExistsBijection, Bijection, Surjection, Injection, IsInjective
<1>2. SetToSeq(S) \in [1..n -> S]
  BY <1>1 DEF SetToSeq
<1>3. \A s \in SetToSeqs(S) : s \in [1..n -> S]
  BY DEF SetToSeqs
<1>4. [1..n -> S] \subseteq Seq(S)
  BY <1>1, SeqDef
<1> QED BY <1>2, <1>3, <1>4

\* What is planned for GLEIF's identifiers: one that could take PRIMARY from a row does not ask for it.
LEMMA PlansAre ==
    ASSUME IdentifierAssumption, NEW existing, NEW isins \in SUBSET Isins, NEW total, NEW truncated \in BOOLEAN,
           NEW org \in Orgs \cup {NoValue}, NEW plan \in PlanGleifWrites(existing, isins, total, truncated, org)
    PROVE  plan \in Seq(PlanItems(\E x \in existing : x.type = "ISIN" /\ x.primary))
<1> DEFINE snap == \E x \in existing : x.type = "ISIN" /\ x.primary
           P == PlanItems(snap)
           planned == PlannedIsins(existing, isins, total, truncated)
           orgs == PlannedOrg(existing, org)
<1>1. planned \subseteq P /\ IsFiniteSet(planned)
  <2> DEFINE setPrimary == Cardinality(isins) = 1 /\ ~\E x \in existing : x.type = "ISIN" /\ x.primary
             W == {w \in isins : setPrimary \/ ~\E x \in existing : x.type = "ISIN" /\ x.val = w}
             item(v) == [type |-> "ISIN", val |-> v, role |-> IF setPrimary THEN "primary" ELSE "keep"]
  <2>1. planned = {} \/ planned = {item(v) : v \in W}
    BY DEF PlannedIsins
  <2>2. ASSUME NEW v \in W PROVE item(v) \in P
    <3>1. v \in IdValues /\ v # NoValue
      BY DEF IdentifierAssumption, IdValues
    <3>2. item(v) \in Items
      BY <3>1 DEF Items, Types, Roles
    <3>3. snap => item(v).role = "keep"
      OBVIOUS
    <3> QED BY <3>1, <3>2, <3>3 DEF PlanItems
  <2>3. IsFiniteSet(W)
    BY FS_Subset DEF IdentifierAssumption
  <2>4. IsFiniteSet({item(v) : v \in W})
    <3> DEFINE T == {item(v) : v \in W}
               f == [v \in W |-> item(v)]
    <3> HIDE DEF W, item
    <3>1. f \in Surjection(W, T)
      BY DEF Surjection
    <3> HIDE DEF f, T
    <3>2. IsFiniteSet(T)
      BY <2>3, <3>1, FS_Surjection
    <3> QED BY <3>2 DEF T
  <2>5. IsFiniteSet({})
    BY FS_EmptySet
  <2> HIDE DEF W, item, planned, P
  <2> QED BY <2>1, <2>2, <2>4, <2>5
<1>2. orgs \subseteq P /\ IsFiniteSet(orgs)
  <2> DEFINE o == [type |-> "ORG_NUMBER", val |-> org, role |-> "keep"]
  <2>1. orgs = {} \/ (orgs = {o} /\ org # NoValue)
    BY DEF PlannedOrg
  <2>2. org # NoValue => o \in P
    BY DEF PlanItems, Items, Types, Roles, IdValues
  <2>3. IsFiniteSet({}) /\ IsFiniteSet({o})
    BY FS_EmptySet, FS_Singleton
  <2> HIDE DEF o, orgs, P
  <2> QED BY <2>1, <2>2, <2>3
<1>3. PICK s \in SetToSeqs(planned) : plan = s \o SetToSeq(orgs)
  BY DEF PlanGleifWrites
<1>4. s \in Seq(planned) /\ SetToSeq(orgs) \in Seq(orgs)
  BY <1>1, <1>2, <1>3, OrdersAre
<1> HIDE DEF planned, orgs, P
<1>5. s \in Seq(P) /\ SetToSeq(orgs) \in Seq(P)
  BY <1>1, <1>2, <1>4
<1>6. plan \in Seq(P)
  BY <1>3, <1>5, ConcatProperties
<1> QED BY <1>6 DEF P

\* What is so of a request that begins.
Starts(q) ==
    /\ ReqOK(q) /\ q.alone = TRUE /\ q.seen = NoRow
    /\ q.co \in Born \/ (q.kind = "create" /\ q.pc = "free_column")
    /\ q.pc \notin {"row_write", "free_table", "own_column"}
    /\ q.pc = "column" => q.val = NoValue
    /\ q.kind \in LeiKinds /\ q.pc \in RowSteps => col[q.co] = q.val

LEMMA LeiRequestStarts ==
    ASSUME NEW kind \in LeiKinds, NEW c \in Companies, NEW v \in Leis \cup {NoValue},
           NEW pc \in LeiSteps \cup {"row_table"}, pc \notin {"free_table", "own_column"},
           v = NoValue => (kind = "clear" /\ pc = "clear") \/ (kind = "update" /\ pc = "column"),
           pc \in {"read", "clear"} <=> kind \in {"clear", "clear_value"},
           c \in Born \/ (kind = "create" /\ pc = "free_column"), pc = "column" => v = NoValue,
           pc \in RowSteps => col[c] = v
    PROVE  Starts(Request(kind, c, pc, v))
<1> DEFINE q == Request(kind, c, pc, v)
<1>1. q \in ReqRecord
  <2>1. <<>> \in Seq(Items)
    OBVIOUS
  <2> QED BY <2>1 DEF Request, ReqRecord, Steps, RowSteps, Types, IdValues, Roles
<1>2. /\ q.kind = kind /\ q.co = c /\ q.pc = pc /\ q.type = "LEI" /\ q.val = v /\ q.role = "keep" /\ q.seen = NoRow
      /\ q.alone = TRUE
  BY DEF Request
<1> HIDE DEF q
<1>3. kind \notin Batches /\ kind # "delete" /\ pc # "delete" /\ pc # "row_write"
  BY DEF LeiKinds, Batches, LeiSteps
<1>4. ReqOK(q)
  BY <1>1, <1>2, <1>3 DEF ReqOK
<1>5. Starts(q)
  BY <1>2, <1>3, <1>4 DEF Starts
<1> QED BY <1>5 DEF q

LEMMA BeginsAre ==
    ASSUME IdentifierAssumption, IdShapes, NEW r \in Requests, IdBegins(r)
    PROVE  \E q : Begin(r, q) /\ Starts(q)
<1>0. Born \subseteq Companies /\ col \in [Born -> Leis \cup {NoValue}] /\ NoValue \notin Leis
  BY DEF IdShapes, IdentifierAssumption
<1>1. CASE BeginSetLei(r)
  <2>1. PICK c \in Born, v \in Leis : Begin(r, Request("set_lei", c, "own_table", v))
    BY <1>1 DEF BeginSetLei
  <2> DEFINE q == Request("set_lei", c, "own_table", v)
  <2>2. Starts(q)
    BY <1>0, <2>1, LeiRequestStarts DEF LeiKinds, LeiSteps, RowSteps
  <2> QED BY <2>1, <2>2
<1>2. CASE BeginClear(r)
  <2>1. PICK c \in Born : Begin(r, Request("clear", c, "clear", NoValue))
    BY <1>2 DEF BeginClear
  <2> DEFINE q == Request("clear", c, "clear", NoValue)
  <2>2. Starts(q)
    BY <1>0, <2>1, LeiRequestStarts DEF LeiKinds, LeiSteps, RowSteps
  <2> QED BY <2>1, <2>2
<1>3. CASE BeginClearValue(r)
  <2>1. PICK c \in Born, v \in Leis : Begin(r, Request("clear_value", c, "read", v))
    BY <1>3 DEF BeginClearValue
  <2> DEFINE q == Request("clear_value", c, "read", v)
  <2>2. Starts(q)
    BY <1>0, <2>1, LeiRequestStarts DEF LeiKinds, LeiSteps, RowSteps
  <2> QED BY <2>1, <2>2
<1>4. CASE BeginUpdate(r)
  <2>1. PICK c \in Born, v \in Leis \cup {NoValue} :
            Begin(r, Request("update", c, IF v = NoValue THEN "column" ELSE "free_column", v))
    BY <1>4 DEF BeginUpdate
  <2> DEFINE pc == IF v = NoValue THEN "column" ELSE "free_column"
             q == Request("update", c, pc, v)
  <2>2. pc \in {"column", "free_column"} /\ (v = NoValue => pc = "column") /\ (pc = "column" => v = NoValue)
    OBVIOUS
  <2> HIDE DEF pc
  <2>3. Starts(q)
    BY <1>0, <2>2, LeiRequestStarts DEF LeiKinds, LeiSteps, RowSteps
  <2> QED BY <2>1, <2>3 DEF pc
<1>5. CASE BeginCreate(r)
  <2>1. PICK c \in Companies, v \in Leis : Begin(r, Request("create", c, "free_column", v))
    BY <1>5 DEF BeginCreate
  <2> DEFINE q == Request("create", c, "free_column", v)
  <2>2. Starts(q)
    BY <1>0, <2>1, LeiRequestStarts DEF LeiKinds, LeiSteps, RowSteps
  <2> QED BY <2>1, <2>2
<1>6. CASE BeginDiffLei(r)
  <2>1. PICK c \in Born, v \in Leis : Begin(r, Request("diff_lei", c, "find_column", v))
    BY <1>6 DEF BeginDiffLei
  <2> DEFINE q == Request("diff_lei", c, "find_column", v)
  <2>2. Starts(q)
    BY <1>0, <2>1, LeiRequestStarts DEF LeiKinds, LeiSteps, RowSteps
  <2> QED BY <2>1, <2>2
<1>7. CASE BeginBackfill(r)
  <2>1. PICK c \in Born : col[c] # NoValue /\ Begin(r, Request("backfill", c, "row_table", col[c]))
    BY <1>7 DEF BeginBackfill
  <2> DEFINE q == Request("backfill", c, "row_table", col[c])
  <2>2. Starts(q)
    BY <1>0, <2>1, LeiRequestStarts DEF LeiKinds, LeiSteps, RowSteps
  <2> QED BY <2>1, <2>2
<1>8. CASE BeginSet(r)
  <2>1. PICK c \in Born, role \in Roles, type \in {"ORG_NUMBER", "ISIN"} :
            \E v \in IF type = "ISIN" THEN Isins ELSE Orgs :
                Begin(r, [Request("set", c, "row_table", v) EXCEPT !.type = type, !.role = role])
    BY <1>8 DEF BeginSet
  <2>2. PICK v \in IF type = "ISIN" THEN Isins ELSE Orgs :
            Begin(r, [Request("set", c, "row_table", v) EXCEPT !.type = type, !.role = role])
    BY <2>1
  <2>3. v \in IdValues /\ v # NoValue
    BY DEF IdValues, IdentifierAssumption
  <2> DEFINE q == [Request("set", c, "row_table", v) EXCEPT !.type = type, !.role = role]
  <2>4. /\ q.kind = "set" /\ q.co = c /\ q.pc = "row_table" /\ q.type = type /\ q.val = v /\ q.role = role
        /\ q.seen = NoRow /\ q.alone = TRUE
    BY DEF Request
  <2>5. q \in ReqRecord
    <3>1. <<>> \in Seq(Items)
      OBVIOUS
    <3> QED BY <1>0, <2>3, <3>1 DEF Request, ReqRecord, Steps, RowSteps, Types, ManyKinds
  <2> HIDE DEF q
  <2>6. ReqOK(q)
    BY <2>3, <2>4, <2>5 DEF ReqOK, LeiKinds, LeiSteps, Batches
  <2>7. Starts(q)
    BY <2>4, <2>6 DEF Starts, LeiKinds
  <2> QED BY <2>2, <2>7 DEF q
<1>9. CASE BeginDelete(r)
  <2>1. PICK x \in idRows :
            x.type # "LEI" /\ Begin(r, [Request("delete", x.co, "delete", x.val) EXCEPT !.type = x.type])
    BY <1>9 DEF BeginDelete
  <2>2. x \in Rows /\ x.type # "LEI" /\ x.val \in IdValues /\ x.val # NoValue
    BY <2>1 DEF IdShapes, Rows, IdValues, IdentifierAssumption
  <2> DEFINE q == [Request("delete", x.co, "delete", x.val) EXCEPT !.type = x.type]
  <2>3. /\ q.kind = "delete" /\ q.co = x.co /\ q.pc = "delete" /\ q.type = x.type /\ q.val = x.val /\ q.role = "keep"
        /\ q.seen = NoRow /\ q.alone = TRUE
    BY DEF Request
  <2>4. q \in ReqRecord
    <3>1. <<>> \in Seq(Items)
      OBVIOUS
    <3> QED BY <2>2, <3>1 DEF Request, ReqRecord, Steps, Roles, ManyKinds, Rows
  <2> HIDE DEF q
  <2>5. ReqOK(q)
    BY <2>2, <2>3, <2>4 DEF ReqOK, LeiKinds, LeiSteps, Batches
  <2>6. Starts(q)
    BY <2>1, <2>3, <2>5 DEF Starts, LeiKinds, IdShapes
  <2> QED BY <2>1, <2>6 DEF q
<1>10. ASSUME NEW kind \in Batches, BeginPlanned(r, kind)
       PROVE  \E q : Begin(r, q) /\ Starts(q)
  <2>1. PICK c \in Born, isins \in SUBSET Isins, truncated \in BOOLEAN, org \in Orgs \cup {NoValue} :
            LET existing == {x \in idRows : x.co = c}
            IN \E plan \in PlanGleifWrites(existing, isins, Cardinality(isins), truncated, org) :
               /\ plan # <<>>
               /\ Begin(r, OnItem([Request(kind, c, "row_table", NoValue) EXCEPT !.body = plan,
                        !.snapPrimary = \E x \in existing : x.type = "ISIN" /\ x.primary], plan))
    BY <1>10 DEF BeginPlanned
  <2> DEFINE existing == {x \in idRows : x.co = c}
             snap == \E x \in existing : x.type = "ISIN" /\ x.primary
  <2>2. PICK plan \in PlanGleifWrites(existing, isins, Cardinality(isins), truncated, org) :
            /\ plan # <<>>
            /\ Begin(r, OnItem([Request(kind, c, "row_table", NoValue) EXCEPT !.body = plan, !.snapPrimary = snap], plan))
    BY <2>1
  <2> DEFINE P == PlanItems(snap)
             i == Head(plan)
             a == [Request(kind, c, "row_table", NoValue) EXCEPT !.body = plan, !.snapPrimary = snap]
             q == OnItem(a, plan)
  <2>3. plan \in Seq(P) /\ plan # <<>>
    BY <2>2, PlansAre
  <2>4. P \subseteq Items /\ snap \in BOOLEAN
    BY DEF PlanItems
  <2> HIDE DEF snap
  <2>5. i \in P
    BY <2>3, HeadTailProperties
  <2>6. i.type \in {"ORG_NUMBER", "ISIN"} /\ i.val \in IdValues /\ i.val # NoValue /\ i.role \in Roles
    BY <2>5 DEF PlanItems, Items
  <2>7. plan \in Seq(Items)
    BY <2>3, <2>4
  <2>8. /\ q.kind = kind /\ q.co = c /\ q.alone = TRUE /\ q.snapPrimary = snap /\ q.type = i.type
        /\ q.val = i.val /\ q.role = i.role /\ q.items = plan /\ q.body = plan /\ q.seen = NoRow /\ q.pc = "row_table"
    BY DEF Request, OnItem
  <2>9. q \in ReqRecord
    <3> HIDE DEF i, P
    <3> QED BY <1>0, <2>4, <2>6, <2>7 DEF Request, OnItem, ReqRecord, Steps, RowSteps, Types, ManyKinds, i
  <2>10. Begin(r, q)
    BY <2>2
  <2> HIDE DEF q, i
  <2>11. ReqOK(q)
    BY <2>3, <2>6, <2>8, <2>9 DEF ReqOK, LeiKinds, LeiSteps, Batches, i
  <2>12. Starts(q)
    BY <2>8, <2>11 DEF Starts, LeiKinds, Batches
  <2> QED BY <2>10, <2>12
<1>11. CASE BeginBatch(r)
  BY <1>10, <1>11 DEF BeginBatch, Batches
<1>12. CASE BeginGleifBackfill(r)
  BY <1>10, <1>12 DEF BeginGleifBackfill, Batches
<1> QED BY <1>1, <1>2, <1>3, <1>4, <1>5, <1>6, <1>7, <1>8, <1>9, <1>11, <1>12 DEF IdBegins

\* The same request, although another may have begun beside it.
Alike(q, p) ==
    /\ ReqOK(p) /\ p.kind = q.kind /\ p.co = q.co /\ p.pc = q.pc /\ p.type = q.type /\ p.val = q.val /\ p.role = q.role
    /\ p.seen = q.seen /\ p.snapPrimary = q.snapPrimary /\ p # NoRequest

LEMMA BesideIs ==
    ASSUME NEW q, ReqOK(q)
    PROVE  Alike(q, [q EXCEPT !.alone = FALSE]) /\ [q EXCEPT !.alone = FALSE].alone = FALSE
<1> DEFINE p == [q EXCEPT !.alone = FALSE]
<1>1. q \in ReqRecord
  BY DEF ReqOK
<1>2. p \in ReqRecord /\ p.alone = FALSE
  BY <1>1 DEF ReqRecord
<1>3. /\ p.kind = q.kind /\ p.co = q.co /\ p.pc = q.pc /\ p.snapPrimary = q.snapPrimary /\ p.type = q.type
      /\ p.role = q.role /\ p.items = q.items /\ p.body = q.body /\ p.val = q.val /\ p.seen = q.seen
  BY <1>1 DEF ReqRecord
<1> HIDE DEF p
<1>4. ReqOK(p)
  BY <1>2, <1>3 DEF ReqOK
<1>5. p.kind # "none"
  BY <1>2 DEF ReqRecord, LeiKinds, ManyKinds, Batches
<1>6. p # NoRequest
  BY <1>5 DEF NoRequest
<1> QED BY <1>2, <1>3, <1>4, <1>6 DEF Alike, p

\* Who else is there decides what becomes of a request when another begins.
BeginOf(r, q) ==
    /\ req[r] = NoRequest /\ DOMAIN req' = Requests /\ UNCHANGED <<col, idRows, emptied>> /\ WatchContest
    /\ Alike(q, req'[r]) /\ (req'[r].alone <=> Neighbours(r, q.co) = {})
    /\ \A s \in Requests \ {r} : s \notin Flying => req'[s] = NoRequest
    /\ \A s \in Flying : Alike(req[s], req'[s]) /\ (req'[s].alone <=> req[s].alone /\ req[s].co # q.co)
    /\ \/ Neighbours(r, q.co) = {} /\ muddled' = muddled
       \/ Neighbours(r, q.co) # {} /\ muddled' = muddled \cup {q.co}

LEMMA BeginIs ==
    ASSUME IdShapes, NEW r \in Requests, NEW q, Begin(r, q), Starts(q)
    PROVE  BeginOf(r, q)
<1>1. /\ req[r] = NoRequest /\ r \notin Flying /\ DOMAIN req = Requests
      /\ UNCHANGED <<col, idRows, emptied>> /\ WatchContest
  BY FlyingAre DEF Begin, Flying, IdShapes
<1>2. \A s \in Flying : ReqOK(req[s]) /\ s \in Requests /\ req[s].alone \in BOOLEAN /\ req[s] # NoRequest
  BY FlyingAre DEF ReqOK, ReqRecord
<1>3. \A s \in Requests : s \notin Flying => req[s] = NoRequest
  BY FlyingAre
<1>4. ReqOK(q) /\ q.alone = TRUE
  BY DEF Starts
<1>5. q # NoRequest
  <2>1. q.kind # "none"
    BY <1>4 DEF ReqOK, ReqRecord, LeiKinds, ManyKinds, Batches
  <2> QED BY <2>1 DEF NoRequest
<1>6. CASE Neighbours(r, q.co) = {}
  <2>1. req' = [req EXCEPT ![r] = q] /\ muddled' = muddled
    BY <1>6 DEF Begin
  <2>2. DOMAIN req' = Requests /\ req'[r] = q /\ \A s \in Requests \ {r} : req'[s] = req[s]
    BY <1>1, <2>1
  <2>3. \A s \in Flying : req[s].co # q.co /\ s # r
    BY <1>1, <1>6 DEF Neighbours
  <2> QED BY <1>1, <1>2, <1>3, <1>4, <1>5, <1>6, <2>1, <2>2, <2>3 DEF BeginOf, Alike
<1>7. CASE Neighbours(r, q.co) # {}
  <2>1. /\ req' = [s \in Requests |-> IF s = r THEN [q EXCEPT !.alone = FALSE]
                                      ELSE IF s \in Neighbours(r, q.co)
                                      THEN [req[s] EXCEPT !.alone = FALSE] ELSE req[s]]
        /\ muddled' = muddled \cup {q.co}
    BY <1>7 DEF Begin
  <2>2. DOMAIN req' = Requests /\ req'[r] = [q EXCEPT !.alone = FALSE]
    BY <2>1
  <2>3. \A s \in Requests \ {r} : req'[s] = IF s \in Neighbours(r, q.co) THEN [req[s] EXCEPT !.alone = FALSE] ELSE req[s]
    BY <2>1
  <2>4. \A s \in Requests : s \in Neighbours(r, q.co) <=> s \in Flying /\ s # r /\ req[s].co = q.co
    BY DEF Neighbours, Flying
  <2>5. Alike(q, req'[r]) /\ req'[r].alone = FALSE
    BY <1>4, <2>2, BesideIs
  <2>6. ASSUME NEW s \in Flying
        PROVE  Alike(req[s], req'[s]) /\ (req'[s].alone <=> req[s].alone /\ req[s].co # q.co)
    <3>1. CASE req[s].co = q.co
      <4>1. req'[s] = [req[s] EXCEPT !.alone = FALSE]
        BY <1>1, <1>2, <2>3, <2>4, <3>1
      <4>2. Alike(req[s], [req[s] EXCEPT !.alone = FALSE]) /\ [req[s] EXCEPT !.alone = FALSE].alone = FALSE
        BY <1>2, BesideIs
      <4> QED BY <3>1, <4>1, <4>2
    <3>2. CASE req[s].co # q.co
      <4>1. req'[s] = req[s]
        BY <1>1, <1>2, <2>3, <2>4, <3>2
      <4> QED BY <1>2, <3>2, <4>1 DEF Alike
    <3> QED BY <3>1, <3>2
  <2>7. \A s \in Requests \ {r} : s \notin Flying => req'[s] = NoRequest
    BY <1>3, <2>3, <2>4
  <2> QED BY <1>1, <1>7, <2>1, <2>2, <2>5, <2>6, <2>7 DEF BeginOf
<1> QED BY <1>6, <1>7

-----------------------------------------------------------------------------
(***************************************************************************)
(* What a step has to keep so that the invariant stays.                    *)
(***************************************************************************)

\* Only who asks for a LEI and has looked gains it.
GainsOnly(r) ==
    \A v \in Leis, d \in Companies :
        /\ InColumn(d, v)' => InColumn(d, v) \/ (d = req[r].co /\ Asks(r, v) /\ req[r].pc \in {"column"} \cup RowSteps)
        /\ InRows(d, v)' => InRows(d, v) \/ (d = req[r].co /\ Asks(r, v) /\ req[r].pc \in {"column"} \cup RowSteps)

LooksOn(r) == \A v \in Leis \ contested : Uncontested(v) => Looks(r, v)'

\* The request that has stepped knows what it has written and found.
FindsOn(r) ==
    req'[r] # NoRequest =>
        /\ req'[r].pc = "row_write" => \A y \in idRows' : y.id = req'[r].seen.id =>
               y.co = req'[r].co /\ y.type = req'[r].type /\ (y.type \notin Singular => y.val = req'[r].val)
        /\ req'[r].alone => /\ HalfDone(r)' => InColumn(req[r].co, req[r].val)'
                            /\ req'[r].pc = "row_write" => (req[r].seen = Existing(req[r]))'

\* The rows another request has found stay what they were found for.
SeenKept ==
    \A z \in idRows' : \/ \A s \in Flying : req[s].seen.id # z.id
                       \/ \E x \in idRows : /\ x.id = z.id /\ x.co = z.co /\ x.type = z.type
                                            /\ z.type \notin Singular => z.val = x.val

\* What the step leaves of its own company agrees.
AgreesOn(r) ==
    \A c \in Companies :
        (c = req[r].co /\ c \in Born' \ (muddled' \cup emptied') /\ ~(req'[r] # NoRequest /\ HalfDone(r)')) =>
            \/ Agree(c)'
            \/ c \in Born \ (muddled \cup emptied) /\ ~HalfDone(r) /\ (Agree(c) => Agree(c)')

\* A LEI is not contested any more when its requests have ended and one company at most has it.
LEMMA ContestIs ==
    ASSUME WatchContest, NEW v \in Leis, v \notin contested'
    PROVE  /\ OneAsker(v)'
           /\ v \in contested => /\ \A r \in Requests : ~Asks(r, v)'
                                 /\ OneOwner(v)'
<1>1. /\ ~\E r, s \in Requests : /\ req'[r].kind \in LeiKinds /\ req'[r].val = v
                                 /\ req'[s].kind \in LeiKinds /\ req'[s].val = v /\ req'[r].co # req'[s].co
      /\ v \in contested => /\ ~\E r \in Requests : req'[r].kind \in LeiKinds /\ req'[r].val = v
                            /\ ~\E c, d \in Companies : c # d /\ LeiOwned(c, v)' /\ LeiOwned(d, v)'
  BY DEF WatchContest, LeiOwned, RowsOf, Born
<1> QED BY <1>1 DEF OneAsker, OneOwner, Asks

LEMMA OwnedIs == ASSUME NEW c, NEW v PROVE LeiOwned(c, v) <=> InColumn(c, v) \/ InRows(c, v)
BY DEF LeiOwned, RowsOf, InColumn, InRows

LEMMA UncontestedKept ==
    ASSUME IdShapes, NEW r \in Flying, OnlyOf(r), WatchContest, GainsOnly(r), LooksOn(r),
           \A v \in Leis \ contested : Uncontested(v)
    PROVE  \A v \in Leis \ contested' : Uncontested(v)'
<1> SUFFICES ASSUME NEW v \in Leis, v \notin contested' PROVE Uncontested(v)'
  OBVIOUS
<1>1. OneAsker(v)'
  BY ContestIs
<1>2. CASE v \in contested
  <2>1. OneOwner(v)' /\ \A s \in Requests : ~Asks(s, v)'
    BY <1>2, ContestIs
  <2> QED BY <1>1, <2>1 DEF Uncontested, Looks
<1>3. CASE v \notin contested
  <2>1. Uncontested(v) /\ Looks(r, v)' /\ r \in Requests
    BY <1>3, FlyingAre DEF LooksOn
  <2>2. \A d \in Companies : d # req[r].co \/ ~(Asks(r, v) /\ req[r].pc \in {"column"} \cup RowSteps) =>
            (InColumn(d, v)' => InColumn(d, v)) /\ (InRows(d, v)' => InRows(d, v))
    BY DEF GainsOnly
  <2>3. OneOwner(v)'
    <3>1. ASSUME NEW c \in Companies, NEW d \in Companies, LeiOwned(c, v)', LeiOwned(d, v)', c # d, c = req[r].co,
                 Asks(r, v), req[r].pc \in {"column"} \cup RowSteps
          PROVE  FALSE
      <4>1. InColumn(d, v) \/ InRows(d, v)
        <5>1. InColumn(d, v)' \/ InRows(d, v)'
          BY <3>1 DEF LeiOwned, RowsOf, InColumn, InRows
        <5> QED BY <2>2, <3>1, <5>1
      <4> QED BY <2>1, <3>1, <4>1 DEF Uncontested, Looks
    <3>2. ASSUME NEW c \in Companies, NEW d \in Companies, LeiOwned(c, v)', LeiOwned(d, v)' PROVE c = d
      <4>1. CASE Asks(r, v) /\ req[r].pc \in {"column"} \cup RowSteps /\ (c = req[r].co \/ d = req[r].co)
        BY <3>1, <3>2, <4>1
      <4>2. CASE ~(Asks(r, v) /\ req[r].pc \in {"column"} \cup RowSteps /\ (c = req[r].co \/ d = req[r].co))
        <5>1. (InColumn(c, v)' \/ InRows(c, v)') /\ (InColumn(d, v)' \/ InRows(d, v)')
          BY <3>2 DEF LeiOwned, RowsOf, InColumn, InRows
        <5>2. LeiOwned(c, v) /\ LeiOwned(d, v)
          BY <2>2, <4>2, <5>1, OwnedIs
        <5> QED BY <2>1, <5>2 DEF Uncontested, OneOwner
      <4> QED BY <4>1, <4>2
    <3> QED BY <3>2 DEF OneOwner
  <2>4. ASSUME NEW s \in Requests PROVE Looks(s, v)'
    <3>1. CASE s = r
      BY <2>1, <3>1
    <3>2. CASE s # r
      <4>1. req'[s] = req[s]
        BY <3>2 DEF OnlyOf
      <4>2. Looks(s, v)
        BY <2>1 DEF Uncontested
      <4>3. ASSUME Asks(s, v), NEW d \in Companies \ {req[s].co}
            PROVE  (InColumn(d, v)' => InColumn(d, v)) /\ (InRows(d, v)' => InRows(d, v))
        <5>1. Asks(r, v) => req[r].co = req[s].co
          BY <2>1, <4>3 DEF Uncontested, OneAsker
        <5> QED BY <2>2, <4>3, <5>1
      <4>4. Asks(s, v)' <=> Asks(s, v)
        BY <4>1 DEF Asks
      <4> QED BY <4>1, <4>2, <4>3, <4>4 DEF Looks
    <3> QED BY <3>1, <3>2
  <2> QED BY <1>1, <2>3, <2>4 DEF Uncontested
<1> QED BY <1>2, <1>3

LEMMA FlyingOn ==
    ASSUME IdShapes, IdShapes', NEW r \in Flying, OnlyOf(r)
    PROVE  /\ \A s \in Flying' : s \in Requests /\ (s # r => s \in Flying /\ req'[s] = req[s])
           /\ r \in Flying' => req'[r] # NoRequest /\ Continues(req[r], req'[r]) /\ ReqOK(req'[r])
           /\ req'[r] # NoRequest => r \in Flying'
           /\ \A s \in Flying : s # r => s \in Flying' /\ req'[s] = req[s]
<1>1. NoRequest.kind = "none" /\ r \in Requests
  BY DEF NoRequest, Flying
<1>2. \A s \in Flying' : s \in Requests /\ req'[s].kind # "none"
  BY DEF Flying
<1>3. \A s \in Requests : s \in Flying <=> req[s].kind # "none"
  BY DEF Flying
<1>4. \A s \in Requests : s \in Flying' <=> req'[s].kind # "none"
  BY DEF Flying
<1>5. \A s \in Requests \ {r} : req'[s] = req[s]
  BY DEF OnlyOf
<1>6. Continues(req[r], req'[r])
  BY DEF OnlyOf
<1>7. req[r].kind # "none"
  BY <1>1, <1>3
<1>8. \A s \in Flying : s \in Requests
  BY DEF Flying
<1> QED BY <1>1, <1>2, <1>3, <1>4, <1>5, <1>6, <1>7, <1>8 DEF Continues

LEMMA SeenStaysOn ==
    ASSUME IdShapes, IdShapes', SeenStays, NEW r \in Flying, OnlyOf(r), SeenKept, FindsOn(r)
    PROVE  SeenStays'
<1> SUFFICES ASSUME NEW s \in Flying', NEW z \in idRows', req'[s].pc = "row_write", z.id = req'[s].seen.id
             PROVE  z.co = req'[s].co /\ z.type = req'[s].type /\ (z.type \notin Singular => z.val = req'[s].val)
  BY DEF SeenStays
<1>1. CASE s = r
  BY <1>1, FlyingOn DEF FindsOn
<1>2. CASE s # r
  <2>1. s \in Flying /\ req'[s] = req[s]
    BY <1>2, FlyingOn
  <2>2. PICK x \in idRows : x.id = z.id /\ x.co = z.co /\ x.type = z.type /\ (z.type \notin Singular => z.val = x.val)
    BY <2>1 DEF SeenKept
  <2> QED BY <2>1, <2>2 DEF SeenStays
<1> QED BY <1>1, <1>2

LEMMA LonersOn ==
    ASSUME IdShapes, IdShapes', Loners, NEW r \in Flying, OnlyOf(r), HistoryOf(r)
    PROVE  Loners'
<1>1. ASSUME NEW s \in Flying', req'[s].alone PROVE (Neighbours(s, req[s].co) = {})'
  <2> SUFFICES ASSUME NEW u \in Flying' \ {s}, req'[u].co = req'[s].co PROVE FALSE
    BY DEF Neighbours
  <2>1. /\ s \in Flying /\ req'[s].co = req[s].co /\ req[s].alone
        /\ u \in Flying /\ req'[u].co = req[u].co
    BY <1>1, FlyingOn DEF Continues
  <2> QED BY <2>1 DEF Loners, Neighbours
<1>2. ASSUME NEW s \in Flying', ~req'[s].alone PROVE req'[s].co \in muddled'
  <2>1. s \in Flying /\ req'[s].co = req[s].co /\ ~req[s].alone
    BY <1>2, FlyingOn DEF Continues
  <2>2. req[s].co \in muddled /\ req[s].co \in Companies
    BY <2>1, FlyingAre DEF Loners, ReqOK, ReqRecord
  <2>3. CASE req[r].alone /\ req'[r] = NoRequest
    <3>1. s # r
      BY <1>2, <2>3, FlyingOn
    <3>2. req[s].co # req[r].co
      BY <2>1, <2>3, <3>1 DEF Loners, Neighbours
    <3> QED BY <2>1, <2>2, <3>2 DEF HistoryOf
  <2>4. CASE muddled \subseteq muddled'
    BY <2>1, <2>2, <2>4
  <2> QED BY <2>3, <2>4 DEF HistoryOf
<1> QED BY <1>1, <1>2 DEF Loners

LEMMA ExistingOn ==
    ASSUME NEW s \in Requests, req'[s] = req[s], RowsOf(req[s].co, req[s].type)' = RowsOf(req[s].co, req[s].type)
    PROVE  Existing(req[s])' = Existing(req[s])
<1> DEFINE there == {x \in RowsOf(req[s].co, req[s].type) : req[s].type \in Singular \/ x.val = req[s].val}
<1>1. there' = there
  OBVIOUS
<1>2. Existing(req[s]) = (IF there = {} THEN NoRow ELSE CHOOSE x \in there : TRUE)
  BY DEF Existing
<1>3. Existing(req[s])' = (IF there' = {} THEN NoRow ELSE CHOOSE x \in there' : TRUE)
  BY DEF Existing
<1> HIDE DEF there
<1> QED BY <1>1, <1>2, <1>3

LEMMA UndisturbedOn ==
    ASSUME IdShapes, IdShapes', Loners, Undisturbed, NEW r \in Flying, OnlyOf(r),
           TablesOf(req[r].co, req[r].kind \in LeiKinds), FindsOn(r)
    PROVE  Undisturbed'
<1> SUFFICES ASSUME NEW s \in Flying', req'[s].alone
             PROVE  /\ HalfDone(s)' => InColumn(req[s].co, req[s].val)'
                    /\ req'[s].pc = "row_write" => (req[s].seen = Existing(req[s]))'
  BY DEF Undisturbed
<1>1. CASE s = r
  BY <1>1, FlyingOn DEF FindsOn
<1>2. CASE s # r
  <2>1. s \in Flying /\ s \in Requests /\ req'[s] = req[s] /\ req[s].co \in Companies
    BY <1>2, FlyingOn, FlyingAre DEF ReqOK, ReqRecord
  <2>2. req[s].co # req[r].co
    BY <1>2, <2>1 DEF Loners, Neighbours
  <2>3. /\ req[s].co \in DOMAIN col' <=> req[s].co \in Born
        /\ req[s].co \in Born => col'[req[s].co] = col[req[s].co]
    BY <2>1, <2>2 DEF TablesOf
  <2>4. InColumn(req[s].co, req[s].val)' <=> InColumn(req[s].co, req[s].val)
    BY <2>1, <2>3 DEF InColumn, Born
  <2>5. idRows \subseteq Rows /\ idRows' \subseteq Rows
    BY DEF IdShapes
  <2>6. RowsOf(req[s].co, req[s].type)' = RowsOf(req[s].co, req[s].type)
    BY <2>1, <2>2, <2>5 DEF RowsOf, TablesOf
  <2>7. Existing(req[s])' = Existing(req[s])
    BY <2>1, <2>6, ExistingOn
  <2>8. HalfDone(s)' <=> HalfDone(s)
    BY <2>1 DEF HalfDone
  <2> QED BY <2>1, <2>4, <2>7, <2>8 DEF Undisturbed
<1> QED BY <1>1, <1>2

LEMMA AgreeOn ==
    ASSUME IdShapes, IdShapes', AgreeBetween, NEW r \in Flying, OnlyOf(r), HistoryOf(r),
           TablesOf(req[r].co, req[r].kind \in LeiKinds), AgreesOn(r)
    PROVE  AgreeBetween'
<1> SUFFICES ASSUME NEW c \in Born' \ (muddled' \cup emptied'), \A s \in Flying' : req'[s].co = c => ~HalfDone(s)'
             PROVE  Agree(c)'
  BY DEF AgreeBetween
<1>1. CASE c # req[r].co
  <2>1. c \in Companies /\ idRows \subseteq Rows /\ idRows' \subseteq Rows
    BY DEF IdShapes
  <2>2. c \in Born \ (muddled \cup emptied) /\ col'[c] = col[c]
    BY <1>1, <2>1 DEF TablesOf, HistoryOf, Born
  <2>3. RowsOf(c, "LEI")' = RowsOf(c, "LEI")
    BY <1>1, <2>1 DEF RowsOf, TablesOf
  <2>4. \A s \in Flying : req[s].co = c => ~HalfDone(s)
    BY <1>1, FlyingOn DEF HalfDone
  <2>5. Agree(c)
    BY <2>2, <2>4 DEF AgreeBetween
  <2> QED BY <2>2, <2>3, <2>5 DEF Agree
<1>2. CASE c = req[r].co
  <2>1. ~(req'[r] # NoRequest /\ HalfDone(r)')
    <3>1. ASSUME req'[r] # NoRequest PROVE ~HalfDone(r)'
      BY <1>2, <3>1, FlyingOn DEF Continues
    <3> QED BY <3>1
  <2>2. \/ Agree(c)'
        \/ c \in Born \ (muddled \cup emptied) /\ ~HalfDone(r) /\ (Agree(c) => Agree(c)')
    BY <1>2, <2>1 DEF AgreesOn, IdShapes
  <2>3. ASSUME c \in Born \ (muddled \cup emptied), ~HalfDone(r) PROVE Agree(c)
    <3>1. \A s \in Flying : req[s].co = c => ~HalfDone(s)
      BY <2>3, FlyingOn DEF HalfDone
    <3> QED BY <2>3, <3>1 DEF AgreeBetween
  <2> QED BY <2>2, <2>3
<1> QED BY <1>1, <1>2

-----------------------------------------------------------------------------
(***************************************************************************)
(* The steps keep it.                                                      *)
(***************************************************************************)

\* What a step of a request keeps.
Keeps(r) ==
    UniqueRows(idRows') /\ GainsOnly(r) /\ SeenKept /\ LooksOn(r) /\ FindsOn(r) /\ AgreesOn(r)

LEMMA QuietSeen == UNCHANGED idRows => SeenKept
BY DEF SeenKept

LEMMA QuietKeeps ==
    ASSUME UniqueRows(idRows), UNCHANGED <<col, idRows>>, NEW r
    PROVE  UniqueRows(idRows') /\ GainsOnly(r) /\ SeenKept
BY DEF GainsOnly, InColumn, InRows, Born, SeenKept

LEMMA QuietAgrees ==
    ASSUME UNCHANGED <<col, idRows>>, NEW r, muddled \subseteq muddled', emptied \subseteq emptied',
           HalfDone(r) => (req'[r] # NoRequest /\ HalfDone(r)') \/ req[r].co \in muddled'
    PROVE  AgreesOn(r)
<1>1. \A c : Agree(c)' <=> Agree(c)
  BY DEF Agree, RowsOf
<1> QED BY <1>1 DEF AgreesOn, Born

\* A request that has ended, or gone on to the next item of a batch.
LEMMA EndKeeps ==
    ASSUME NEW r \in Flying, OnlyOf(r), req'[r] # NoRequest => req[r].kind \in Batches /\ req'[r].pc = "row_table"
    PROVE  LooksOn(r) /\ FindsOn(r) /\ ~(req'[r] # NoRequest /\ HalfDone(r)')
<1>1. CASE req'[r] = NoRequest
  BY <1>1 DEF LooksOn, Looks, Asks, FindsOn, NoRequest, LeiKinds
<1>2. CASE req'[r] # NoRequest
  <2>1. req'[r].kind \in Batches /\ req'[r].pc = "row_table" /\ req'[r].kind \notin LeiKinds
    BY <1>2 DEF OnlyOf, Continues, Batches, LeiKinds
  <2> QED BY <2>1 DEF LooksOn, Looks, Asks, FindsOn, HalfDone
<1> QED BY <1>1, <1>2

LEMMA RefuseKeeps ==
    ASSUME IdShapes, UniqueRows(idRows), NEW r \in Flying, UNCHANGED <<col, idRows>>, Refuse(r)
    PROVE  Keeps(r)
<1>1. LooksOn(r) /\ FindsOn(r)
  BY RefuseIs, EndKeeps
<1>2. AgreesOn(r)
  BY RefuseIs, QuietAgrees
<1> QED BY <1>1, <1>2, QuietKeeps DEF Keeps

LEMMA OthersAre ==
    ASSUME IdShapes, NEW c \in Companies, NEW v
    PROVE  /\ OthersInColumn(c, v) = {} => \A d \in Companies \ {c} : ~InColumn(d, v)
           /\ OthersInRows(c, "LEI", v) = {} => \A d \in Companies \ {c} : ~InRows(d, v)
BY DEF OthersInColumn, OthersInRows, InColumn, InRows

LEMMA PassKeeps ==
    ASSUME IdInv, NEW r \in Flying, UNCHANGED <<col, idRows>>, NEW p, Go(r, p), Passes(r, p)
    PROVE  Keeps(r)
<1>1. /\ OnlyOf(r) /\ req'[r] # NoRequest /\ UNCHANGED <<muddled, emptied>>
      /\ req'[r].pc = p /\ req'[r].val = req[r].val /\ req'[r].type = req[r].type
      /\ p \in RowSteps => req[r].pc \in RowSteps
      /\ req[r].pc \in RowSteps => p \in RowSteps
  BY PassIs DEF IdInv
<1>2. /\ req'[r].kind = req[r].kind /\ req'[r].co = req[r].co /\ req'[r].alone = req[r].alone
      /\ r \in Requests /\ req[r].co \in Companies /\ ReqOK(req[r])
  BY <1>1, FlyingAre DEF OnlyOf, Continues, IdInv, ReqOK, ReqRecord
<1>3. UniqueRows(idRows') /\ GainsOnly(r) /\ SeenKept
  BY QuietKeeps DEF IdInv
<1>4. HalfDone(r) <=> HalfDone(r)'
  BY <1>1, <1>2 DEF HalfDone, RowSteps
<1>5. AgreesOn(r)
  BY <1>1, <1>4, QuietAgrees
<1>6. FindsOn(r)
  <2>1. p # "row_write"
    BY DEF Passes
  <2>2. HalfDone(r) /\ req[r].alone => InColumn(req[r].co, req[r].val)
    BY DEF IdInv, Undisturbed
  <2>3. InColumn(req[r].co, req[r].val)' <=> InColumn(req[r].co, req[r].val)
    BY <1>1, <1>2 DEF InColumn, Born
  <2> QED BY <1>1, <1>2, <1>4, <2>1, <2>2, <2>3 DEF FindsOn
<1>7. LooksOn(r)
  <2> SUFFICES ASSUME NEW v \in Leis \ contested, Uncontested(v), Asks(r, v), NEW d \in Companies \ {req[r].co}
               PROVE  /\ p \in {"free_table", "column"} \cup RowSteps => ~InColumn(d, v)
                      /\ p \in {"own_column", "column"} \cup RowSteps => ~InRows(d, v)
    <3>1. \A v : Asks(r, v)' <=> Asks(r, v)
      BY <1>1, <1>2 DEF Asks
    <3>2. \A v, d : (InColumn(d, v)' <=> InColumn(d, v)) /\ (InRows(d, v)' <=> InRows(d, v))
      BY DEF InColumn, InRows, Born
    <3> QED BY <1>1, <1>2, <3>1, <3>2 DEF LooksOn, Looks
  <2>1. Looks(r, v) /\ req[r].type = "LEI" /\ req[r].val = v
    BY <1>2 DEF Uncontested, Asks, ReqOK
  <2>2. /\ OthersInColumn(req[r].co, v) = {} => ~InColumn(d, v)
        /\ OthersInRows(req[r].co, "LEI", v) = {} => ~InRows(d, v)
    BY <1>2, OthersAre DEF IdInv
  <2>3. /\ req[r].pc \in {"free_table", "column"} \cup RowSteps => ~InColumn(d, v)
        /\ req[r].pc \in {"own_column", "column"} \cup RowSteps => ~InRows(d, v)
    BY <2>1 DEF Looks
  <2>4. p \in RowSteps => ~InColumn(d, v) /\ ~InRows(d, v)
    BY <1>1, <2>3
  <2> QED BY <2>1, <2>2, <2>3, <2>4 DEF Passes
<1> QED BY <1>3, <1>5, <1>6, <1>7 DEF Keeps

LEMMA WriteColumnKeeps ==
    ASSUME IdentifierAssumption, IdInv, NEW r \in Requests, WriteColumn(r)
    PROVE  Keeps(r)
<1>0. PICK c \in Companies : c = req[r].co
  BY WriteColumnIs, FlyingAre DEF IdInv, ReqOK, ReqRecord
<1>1. /\ r \in Flying /\ req[r].pc = "column" /\ OnlyOf(r) /\ idRows' = idRows /\ muddled' = muddled
      /\ req[r].kind \in LeiKinds
      /\ req[r].val = NoValue => c \in Born
  BY <1>0, WriteColumnIs DEF IdInv
<1>2. PICK v0 \in Leis \cup {NoValue} :
          /\ col' = [d \in Born \cup {c} |-> IF d = c THEN v0 ELSE col[d]]
          /\ v0 = NoValue => req'[r] = NoRequest
          /\ v0 # NoValue => req'[r] # NoRequest /\ req'[r].val = v0 /\ req'[r].pc = "row_table"
          /\ req[r].val # NoValue => v0 = req[r].val /\ emptied' = emptied
          /\ req[r].val = NoValue => \/ v0 = col[c] /\ emptied' = emptied
                                     \/ v0 = NoValue /\ emptied' = emptied \cup {c}
  BY <1>0, WriteColumnIs DEF IdInv
<1>3. c \in Companies /\ Born \subseteq Companies
  BY DEF IdInv, IdShapes
<1>4. req'[r] # NoRequest => req'[r].kind = req[r].kind /\ req'[r].co = c /\ req'[r].alone = req[r].alone
  BY <1>0, <1>1 DEF OnlyOf, Continues
<1>5. /\ \A d, v : d # c => (InColumn(d, v)' <=> InColumn(d, v))
      /\ \A d, v : InRows(d, v)' <=> InRows(d, v)
      /\ \A v : InColumn(c, v)' <=> v = v0
      /\ \A v \in Leis : req[r].val = NoValue /\ v = v0 => InColumn(c, v)
  <2>1. DOMAIN col' = Born \cup {c} /\ col'[c] = v0 /\ \A d \in Born : d # c => col'[d] = col[d]
    BY <1>2
  <2>2. \A d, v : d # c => (InColumn(d, v)' <=> InColumn(d, v))
    BY <2>1 DEF InColumn, Born
  <2>3. \A v : InColumn(c, v)' <=> v = v0
    BY <2>1 DEF InColumn, Born
  <2>4. \A d, v : InRows(d, v)' <=> InRows(d, v)
    BY <1>1 DEF InRows
  <2>5. \A v \in Leis : req[r].val = NoValue /\ v = v0 => InColumn(c, v)
    BY <1>1, <1>2 DEF InColumn, IdentifierAssumption
  <2> QED BY <2>2, <2>3, <2>4, <2>5
<1>6. GainsOnly(r)
  <2>1. \A v \in Leis : v = v0 => InColumn(c, v) \/ (Asks(r, v) /\ req[r].pc = "column")
    BY <1>1, <1>2, <1>5 DEF Asks
  <2> QED BY <1>0, <1>1, <1>5, <2>1 DEF GainsOnly
<1>7. LooksOn(r)
  <2> SUFFICES ASSUME NEW v \in Leis \ contested, Uncontested(v), Asks(r, v)', NEW d \in Companies \ {c}
               PROVE  ~InColumn(d, v)' /\ ~InRows(d, v)'
    <3>1. \A v : Asks(r, v)' => req'[r] # NoRequest
      BY DEF Asks, NoRequest, LeiKinds
    <3> QED BY <1>0, <1>4, <3>1 DEF LooksOn, Looks
  <2>1. req'[r] # NoRequest /\ v = v0
    <3>1. req'[r] # NoRequest
      BY DEF Asks, NoRequest, LeiKinds
    <3> QED BY <1>2, <3>1 DEF Asks
  <2>2. CASE req[r].val = NoValue
    <3>1. InColumn(c, v)
      BY <1>5, <2>1, <2>2
    <3>2. ~LeiOwned(d, v)
      BY <1>3, <3>1, OwnedIs DEF Uncontested, OneOwner
    <3> QED BY <1>5, <3>2, OwnedIs
  <2>3. CASE req[r].val # NoValue
    <3>1. Asks(r, v) /\ Looks(r, v)
      BY <1>1, <1>2, <2>1, <2>3 DEF Asks, Uncontested
    <3> QED BY <1>0, <1>1, <1>5, <3>1 DEF Looks
  <2> QED BY <2>2, <2>3
<1>8. FindsOn(r)
  <2>1. req'[r] # NoRequest => req'[r].pc = "row_table" /\ req'[r].val = v0
    BY <1>2
  <2>2. req'[r] # NoRequest => InColumn(req[r].co, req[r].val)'
    BY <1>2, <1>4, <2>1 DEF InColumn, Born
  <2> QED BY <2>1, <2>2 DEF FindsOn
<1>9. AgreesOn(r)
  <2>1. req'[r] # NoRequest => HalfDone(r)'
    BY <1>1, <1>2, <1>4 DEF HalfDone
  <2>2. ASSUME req'[r] = NoRequest, c \notin emptied' PROVE v0 = col[c] /\ emptied' = emptied /\ c \in Born /\ v0 = NoValue
    BY <1>1, <1>2, <2>2
  <2>3. ASSUME req'[r] = NoRequest, c \notin emptied' PROVE Agree(c)' <=> Agree(c)
    <3>1. col'[c] = col[c]
      BY <1>2, <2>2, <2>3
    <3> QED BY <1>1, <3>1 DEF Agree, RowsOf
  <2>4. ~HalfDone(r)
    BY <1>1 DEF HalfDone
  <2> QED BY <1>0, <1>1, <2>1, <2>2, <2>3, <2>4 DEF AgreesOn
<1> QED BY <1>1, <1>6, <1>7, <1>8, <1>9, QuietSeen DEF Keeps, IdInv

\* Where a LEI request has written the column and the only row of the company has its LEI, the tables agree.
LEMMA AgreeIf ==
    ASSUME NEW c, NEW v, v # NoValue, InColumn(c, v), InRows(c, v),
           \A x, y \in RowsOf(c, "LEI") : x = y
    PROVE  Agree(c)
<1>1. PICK x \in idRows : x.co = c /\ x.type = "LEI" /\ x.val = v
  BY DEF InRows
<1>2. RowsOf(c, "LEI") = {x}
  BY <1>1 DEF RowsOf
<1>3. {y.val : y \in RowsOf(c, "LEI")} = {v}
  BY <1>1, <1>2
<1> QED BY <1>3 DEF Agree, InColumn

LEMMA OneLeiRow ==
    ASSUME NEW rs, UniqueRows(rs), NEW x \in rs, NEW y \in rs, x.co = y.co, x.type = y.type, x.type \in Singular
    PROVE  x = y
BY DEF UniqueRows

LEMMA FindRowKeeps ==
    ASSUME IdInv, NEW r \in Requests, FindRow(r)
    PROVE  Keeps(r)
<1>0. r \in Flying /\ IdShapes
  BY DEF FindRow, ReqAt, Flying, IdInv
<1>1. OnlyOf(r) /\ UNCHANGED <<col, idRows>> /\ req[r].pc = "row_find"
  BY <1>0, FindRowIs
<1>2. ReqOK(req[r]) /\ req[r].val # NoValue
  BY <1>0, <1>1, FlyingAre DEF ReqOK
<1>3. UniqueRows(idRows') /\ GainsOnly(r) /\ SeenKept
  BY <1>1, QuietKeeps DEF IdInv
<1>4. HalfDone(r) <=> req[r].kind \in LeiKinds
  BY <1>1 DEF HalfDone
<1>5. CASE /\ Existing(req[r]) # NoRow /\ Done(r)
           /\ CreateOnly(req[r]) \/ Existing(req[r]).val = req[r].val
  <2>1. LooksOn(r) /\ FindsOn(r)
    BY <1>0, <1>5, DoneIs, EndKeeps
  <2>2. \/ UNCHANGED <<muddled, emptied>>
        \/ /\ req[r].alone /\ Settles(req[r]) /\ req'[r] = NoRequest
           /\ muddled' = muddled \ {req[r].co} /\ emptied' = emptied \ {req[r].co}
    BY <1>0, <1>5, DoneIs
  <2>3. AgreesOn(r)
    <3>1. CASE req[r].kind \notin LeiKinds
      <4>1. ~Settles(req[r])
        BY <3>1 DEF Settles, LeiKinds
      <4> QED BY <1>1, <1>4, <2>2, <3>1, <4>1, QuietAgrees
    <3>2. CASE req[r].kind \in LeiKinds /\ ~req[r].alone
      <4>1. req[r].co \in muddled' /\ UNCHANGED <<muddled, emptied>>
        BY <1>0, <2>2, <3>2 DEF IdInv, Loners
      <4> QED BY <1>1, <4>1, QuietAgrees
    <3>3. CASE req[r].kind \in LeiKinds /\ req[r].alone
      <4>1. PICK c : c = req[r].co
        OBVIOUS
      <4>2. PICK x : x = Existing(req[r])
        OBVIOUS
      <4>3. Matches(x, req[r]) /\ req[r].type = "LEI" /\ x.val = req[r].val
        BY <1>0, <1>2, <1>5, <3>3, <4>2, ExistingIs DEF ReqOK, CreateOnly, Batches, LeiKinds
      <4>4. InRows(c, req[r].val) /\ InColumn(c, req[r].val)
        BY <1>0, <1>4, <3>3, <4>1, <4>3 DEF InRows, Matches, IdInv, Undisturbed
      <4>5. \A a, b \in RowsOf(c, "LEI") : a = b
        BY OneLeiRow DEF RowsOf, IdInv, Singular
      <4>6. Agree(c)
        BY <1>2, <4>4, <4>5, AgreeIf
      <4>7. Agree(c)'
        BY <1>1, <4>6 DEF Agree, RowsOf
      <4> QED BY <4>1, <4>7 DEF AgreesOn
    <3> QED BY <3>1, <3>2, <3>3
  <2> QED BY <1>3, <2>1, <2>3 DEF Keeps
<1>6. CASE /\ req'[r] = [req[r] EXCEPT !.pc = "row_write", !.seen = Existing(req[r])]
           /\ req'[r].pc = "row_write" /\ req'[r].seen = Existing(req[r]) /\ req'[r] # NoRequest
           /\ req'[r].type = req[r].type /\ req'[r].val = req[r].val
           /\ UNCHANGED <<muddled, emptied>>
  <2>1. req'[r].kind = req[r].kind /\ req'[r].co = req[r].co /\ req'[r].alone = req[r].alone
    BY <1>1, <1>6 DEF OnlyOf, Continues
  <2>2. AgreesOn(r)
    <3>1. HalfDone(r) => HalfDone(r)'
      BY <1>4, <1>6, <2>1 DEF HalfDone
    <3> QED BY <1>1, <1>6, <3>1, QuietAgrees
  <2>3. LooksOn(r)
    <3>1. \A v : Asks(r, v)' <=> Asks(r, v)
      BY <1>6, <2>1 DEF Asks
    <3>2. \A v, d : (InColumn(d, v)' <=> InColumn(d, v)) /\ (InRows(d, v)' <=> InRows(d, v))
      BY <1>1 DEF InColumn, InRows, Born
    <3>3. req[r].pc \in RowSteps
      BY <1>1 DEF RowSteps
    <3> QED BY <1>6, <2>1, <3>1, <3>2, <3>3 DEF LooksOn, Looks, Uncontested
  <2>4. ASSUME NEW y \in idRows', y.id = req'[r].seen.id
        PROVE  y.co = req'[r].co /\ y.type = req'[r].type /\ (y.type \notin Singular => y.val = req'[r].val)
    <3>1. Existing(req[r]) # NoRow
      BY <1>0, <1>1, <1>6, <2>4, NoRowIsNone
    <3>2. Matches(Existing(req[r]), req[r])
      BY <1>0, <3>1, ExistingIs
    <3>3. y = Existing(req[r])
      BY <1>0, <1>1, <1>6, <2>4, <3>2 DEF Matches, IdShapes
    <3> QED BY <1>6, <2>1, <3>2, <3>3 DEF Matches
  <2>5. (req[r].seen = Existing(req[r]))'
    <3>1. RowsOf(req[r].co, req[r].type)' = RowsOf(req[r].co, req[r].type)
      BY <1>1, <1>6, <2>1 DEF RowsOf
    <3>2. Existing(req[r])' = Existing(req[r])
      <4> DEFINE there == {x \in RowsOf(req[r].co, req[r].type) : req[r].type \in Singular \/ x.val = req[r].val}
      <4>1. there' = there
        BY <1>6, <3>1
      <4>2. Existing(req[r]) = (IF there = {} THEN NoRow ELSE CHOOSE x \in there : TRUE)
        BY DEF Existing
      <4>3. Existing(req[r])' = (IF there' = {} THEN NoRow ELSE CHOOSE x \in there' : TRUE)
        BY DEF Existing
      <4> HIDE DEF there
      <4> QED BY <4>1, <4>2, <4>3
    <3> QED BY <1>6, <3>2
  <2>6. HalfDone(r)' /\ req'[r].alone => InColumn(req[r].co, req[r].val)'
    <3>1. HalfDone(r)' => HalfDone(r)
      BY <1>4, <2>1 DEF HalfDone
    <3>2. HalfDone(r) /\ req[r].alone => InColumn(req[r].co, req[r].val)
      BY <1>0 DEF IdInv, Undisturbed
    <3>3. InColumn(req[r].co, req[r].val)' <=> InColumn(req[r].co, req[r].val)
      BY <1>1, <1>6, <2>1 DEF InColumn, Born
    <3> QED BY <2>1, <3>1, <3>2, <3>3
  <2>7. FindsOn(r)
    BY <2>4, <2>5, <2>6 DEF FindsOn
  <2> QED BY <1>3, <2>2, <2>3, <2>7 DEF Keeps
<1> QED BY <1>0, <1>5, <1>6, FindRowIs

\* What a written row has the value that was asked for.
LEMMA WrittenHas ==
    ASSUME IdentifierAssumption, IdShapes, SeenStays, NEW r \in Flying, req[r].pc = "row_write",
           req[r].seen = NoRow => FreshIds # {},
           req[r].seen # NoRow => \E y \in idRows : y.id = req[r].seen.id
    PROVE  \E z \in Written(req[r]) :
               /\ z.co = req[r].co /\ z.type = req[r].type /\ z.val = req[r].val
               /\ \/ req[r].seen = NoRow /\ z = NewRow(req[r])
                  \/ \E x \in idRows : z = Becomes(req[r], x) /\ Meant(req[r], x)
<1>1. CASE req[r].seen = NoRow
  BY <1>1, NewRowIs, WrittenAre
<1>2. CASE req[r].seen # NoRow
  <2>1. PICK x \in idRows : Meant(req[r], x)
    BY <1>2 DEF Meant
  <2>2. Becomes(req[r], x) \in Written(req[r])
    BY WrittenAre
  <2>3. /\ Becomes(req[r], x).co = req[r].co /\ Becomes(req[r], x).type = req[r].type
        /\ Becomes(req[r], x).val = req[r].val
    BY <2>1, BecomesIs
  <2> QED BY <2>1, <2>2, <2>3
<1> QED BY <1>1, <1>2

LEMMA WriteRowKeeps ==
    ASSUME IdentifierAssumption, IdInv, NEW r \in Requests, WriteRow(r)
    PROVE  Keeps(r)
<1>1. /\ r \in Flying /\ req[r].pc = "row_write" /\ OnlyOf(r) /\ col' = col
      /\ UniqueRows(idRows')
      /\ \A z \in idRows' : z \in idRows \/ (z.co = req[r].co /\ z.type = req[r].type)
      /\ \A x \in idRows : x \in idRows' \/ (x.co = req[r].co /\ x.type = req[r].type)
      /\ \A z \in idRows' : \/ z.val = req[r].val
                            \/ \E x \in idRows : x.id = z.id /\ x.co = z.co /\ x.type = z.type /\ x.val = z.val
      /\ \A z \in idRows' : \/ \A s \in Flying : req[s].seen.id # z.id
                            \/ \E x \in idRows : /\ x.id = z.id /\ x.co = z.co /\ x.type = z.type
                                                 /\ z.type \notin Singular => z.val = x.val
  BY WriteRowTables DEF IdInv
<1>2. /\ ReqOK(req[r]) /\ req[r].val # NoValue /\ IdShapes /\ req[r].co \in Born
      /\ req[r].kind \in LeiKinds <=> req[r].type = "LEI"
  BY <1>1, FlyingAre DEF IdInv, ReqOK, IdShapes
<1>3. CASE idRows' = idRows /\ Refuse(r)
  BY <1>1, <1>2, <1>3, RefuseKeeps DEF IdInv
<1>4. CASE idRows' = Written(req[r]) /\ Done(r)
  <2>1. GainsOnly(r)
    <3>1. \A d, v : InColumn(d, v)' <=> InColumn(d, v)
      BY <1>1 DEF InColumn, Born
    <3>2. ASSUME NEW v \in Leis, NEW d \in Companies, InRows(d, v)', ~InRows(d, v)
          PROVE  d = req[r].co /\ Asks(r, v) /\ req[r].pc \in RowSteps
      <4>1. PICK z \in idRows' : z.co = d /\ z.type = "LEI" /\ z.val = v
        BY <3>2 DEF InRows
      <4>2. z \notin idRows /\ z.val = req[r].val
        BY <1>1, <3>2, <4>1 DEF InRows
      <4> QED BY <1>1, <1>2, <4>1, <4>2 DEF Asks, RowSteps
    <3> QED BY <3>1, <3>2 DEF GainsOnly
  <2>2. SeenKept
    BY <1>1 DEF SeenKept
  <2>3. LooksOn(r) /\ FindsOn(r)
    BY <1>1, <1>2, <1>4, DoneIs, EndKeeps
  <2>4. \/ UNCHANGED <<muddled, emptied>>
        \/ /\ req[r].alone /\ Settles(req[r]) /\ req'[r] = NoRequest
           /\ muddled' = muddled \ {req[r].co} /\ emptied' = emptied \ {req[r].co}
    BY <1>1, <1>2, <1>4, DoneIs
  <2>5. AgreesOn(r)
    <3>1. PICK c : c = req[r].co
      OBVIOUS
    <3>2. CASE req[r].kind \notin LeiKinds
      <4>1. UNCHANGED <<muddled, emptied>> /\ ~HalfDone(r)
        BY <2>4, <3>2 DEF Settles, LeiKinds, HalfDone
      <4>2. RowsOf(c, "LEI")' = RowsOf(c, "LEI")
        BY <1>1, <1>2, <3>2 DEF RowsOf
      <4>3. Agree(c)' <=> Agree(c)
        BY <1>1, <4>2 DEF Agree
      <4> QED BY <1>1, <1>2, <3>1, <4>1, <4>3 DEF AgreesOn
    <3>3. CASE req[r].kind \in LeiKinds /\ ~req[r].alone
      <4>1. c \in muddled'
        BY <1>1, <2>4, <3>1, <3>3 DEF IdInv, Loners
      <4> QED BY <3>1, <4>1 DEF AgreesOn
    <3>4. CASE req[r].kind \in LeiKinds /\ req[r].alone
      <4>1. HalfDone(r)
        BY <1>1, <3>4 DEF HalfDone
      <4>2. InColumn(c, req[r].val)
        BY <1>1, <3>1, <3>4, <4>1 DEF IdInv, Undisturbed
      <4>3. PICK z \in idRows' : z.co = c /\ z.type = "LEI" /\ z.val = req[r].val
        BY <1>1, <1>2, <1>4, <3>1, <3>4, WrittenHas, WriteRowIs DEF IdInv
      <4>4. \A y \in idRows' : y.co = c /\ y.type = "LEI" => y = z
        BY <1>1, <4>3, OneLeiRow DEF Singular
      <4>5. {y.val : y \in RowsOf(c, "LEI")'} = {req[r].val}
        <5>1. RowsOf(c, "LEI")' = {z}
          BY <4>3, <4>4 DEF RowsOf
        <5> QED BY <4>3, <5>1
      <4>6. col'[c] = req[r].val
        BY <1>1, <4>2 DEF InColumn
      <4>7. Agree(c)'
        BY <1>2, <4>5, <4>6 DEF Agree
      <4> QED BY <3>1, <4>7 DEF AgreesOn
    <3> QED BY <3>2, <3>3, <3>4
  <2> QED BY <1>1, <2>1, <2>2, <2>3, <2>5 DEF Keeps
<1> QED BY <1>3, <1>4, WriteRowIs

LEMMA ClearLeiKeeps ==
    ASSUME IdentifierAssumption, IdInv, NEW r \in Requests, ClearLei(r)
    PROVE  Keeps(r)
<1>1. PICK c : c = req[r].co
  OBVIOUS
<1>2. /\ r \in Flying /\ OnlyOf(r) /\ req[r].pc = "clear" /\ req'[r] = NoRequest /\ c \in Born
      /\ col' = [col EXCEPT ![c] = NoValue] /\ idRows' = idRows \ RowsOf(c, "LEI")
  BY <1>1, ClearLeiIs DEF IdInv
<1>3. UniqueRows(idRows') /\ SeenKept
  BY <1>2 DEF IdInv, UniqueRows, SeenKept
<1>4. GainsOnly(r)
  <2>1. ASSUME NEW v \in Leis, NEW d \in Companies, InColumn(d, v)' PROVE InColumn(d, v)
    <3>1. d \in Born /\ col'[d] = v
      BY <1>2, <2>1 DEF InColumn, Born
    <3>2. col'[c] = NoValue /\ v # NoValue
      BY <1>2 DEF Born, IdentifierAssumption
    <3> QED BY <1>2, <3>1, <3>2 DEF InColumn
  <2>2. ASSUME NEW v \in Leis, NEW d \in Companies, InRows(d, v)' PROVE InRows(d, v)
    BY <1>2, <2>2 DEF InRows
  <2> QED BY <2>1, <2>2 DEF GainsOnly
<1>5. LooksOn(r) /\ FindsOn(r)
  BY <1>2, EndKeeps
<1>6. Agree(c)'
  <2>1. RowsOf(c, "LEI")' = {}
    BY <1>2 DEF RowsOf
  <2>2. col'[c] = NoValue
    BY <1>2 DEF Born
  <2> QED BY <2>1, <2>2 DEF Agree
<1>7. AgreesOn(r)
  BY <1>1, <1>6 DEF AgreesOn
<1> QED BY <1>3, <1>4, <1>5, <1>7 DEF Keeps

LEMMA DeleteRowsKeeps ==
    ASSUME IdInv, NEW r \in Requests, DeleteRows(r)
    PROVE  Keeps(r)
<1>1. /\ r \in Flying /\ req[r].kind = "delete" /\ req[r].type # "LEI" /\ OnlyOf(r)
      /\ req'[r] = NoRequest /\ col' = col /\ UNCHANGED <<muddled, emptied>>
      /\ idRows' \subseteq idRows
      /\ \A x \in idRows : x \in idRows' \/ (x.co = req[r].co /\ x.type = req[r].type)
  BY DeleteRowsIs DEF IdInv
<1>2. UniqueRows(idRows') /\ SeenKept
  BY <1>1 DEF IdInv, UniqueRows, SeenKept
<1>3. GainsOnly(r)
  <2>1. \A d, v : (InColumn(d, v)' => InColumn(d, v)) /\ (InRows(d, v)' => InRows(d, v))
    BY <1>1 DEF InColumn, InRows, Born
  <2> QED BY <2>1 DEF GainsOnly
<1>4. LooksOn(r) /\ FindsOn(r)
  BY <1>1, EndKeeps
<1>5. \A c : Agree(c)' <=> Agree(c)
  <2>1. \A c : RowsOf(c, "LEI")' = RowsOf(c, "LEI")
    BY <1>1 DEF RowsOf
  <2> QED BY <1>1, <2>1 DEF Agree
<1>6. ~HalfDone(r)
  BY <1>1 DEF HalfDone, LeiKinds
<1>7. AgreesOn(r)
  BY <1>1, <1>5, <1>6 DEF AgreesOn, Born
<1> QED BY <1>2, <1>3, <1>4, <1>7 DEF Keeps

LEMMA FailKeeps ==
    ASSUME IdInv, NEW r \in Requests, Fail(r)
    PROVE  Keeps(r)
<1>1. /\ r \in Flying /\ OnlyOf(r) /\ UNCHANGED <<col, idRows>>
      /\ req'[r] # NoRequest => \/ req[r].kind \in Batches /\ req'[r].pc = "row_table"
                                \/ req[r].kind \notin Batches /\ req'[r].pc = "free_column"
      /\ muddled' = IF HalfDone(r) THEN muddled \cup {req[r].co} ELSE muddled
      /\ emptied' = emptied
  BY FailIs DEF IdInv
<1>2. UniqueRows(idRows') /\ GainsOnly(r) /\ SeenKept
  BY <1>1, QuietKeeps DEF IdInv
<1>3. AgreesOn(r)
  BY <1>1, QuietAgrees
<1>4. LooksOn(r) /\ FindsOn(r)
  <2>1. CASE req'[r] # NoRequest => req[r].kind \in Batches /\ req'[r].pc = "row_table"
    BY <1>1, <2>1, EndKeeps
  <2>2. CASE req'[r] # NoRequest /\ req'[r].pc = "free_column"
    BY <2>2 DEF LooksOn, Looks, FindsOn, HalfDone, RowSteps
  <2> QED BY <1>1, <2>1, <2>2
<1> QED BY <1>2, <1>3, <1>4 DEF Keeps

LEMMA StepKeepsInv ==
    ASSUME IdentifierAssumption, IdInv, NEW r \in Requests, IdSteps(r), begun' = begun
    PROVE  IdInv'
<1>1. StepOf(r) /\ IdShapes'
  BY StepsAre DEF IdInv
<1>2. Keeps(r)
  <2>1. CASE LookSteps(r)
    <3>1. /\ r \in Flying /\ UNCHANGED <<col, idRows>>
          /\ Refuse(r) \/ \E p : Go(r, p) /\ Passes(r, p)
      BY <2>1, LooksAre
    <3>2. CASE Refuse(r)
      BY <3>1, <3>2, RefuseKeeps DEF IdInv
    <3>3. ASSUME NEW p, Go(r, p), Passes(r, p) PROVE Keeps(r)
      BY <3>1, <3>3, PassKeeps
    <3> QED BY <3>1, <3>2, <3>3
  <2>2. CASE WriteColumn(r)
    BY <2>2, WriteColumnKeeps
  <2>3. CASE FindRow(r)
    BY <2>3, FindRowKeeps
  <2>4. CASE WriteRow(r)
    BY <2>4, WriteRowKeeps
  <2>5. CASE ClearLei(r)
    BY <2>5, ClearLeiKeeps
  <2>6. CASE DeleteRows(r)
    BY <2>6, DeleteRowsKeeps
  <2>7. CASE Fail(r)
    BY <2>7, FailKeeps
  <2> QED BY <2>1, <2>2, <2>3, <2>4, <2>5, <2>6, <2>7 DEF IdSteps, LookSteps
<1>3. r \in Flying /\ OnlyOf(r) /\ WatchContest /\ HistoryOf(r) /\ TablesOf(req[r].co, req[r].kind \in LeiKinds)
  BY <1>1 DEF StepOf
<1>4. IdShapes /\ SeenStays /\ Loners /\ Undisturbed /\ AgreeBetween /\ \A v \in Leis \ contested : Uncontested(v)
  BY DEF IdInv
<1>5. UniqueRows(idRows') /\ GainsOnly(r) /\ SeenKept /\ LooksOn(r) /\ FindsOn(r) /\ AgreesOn(r)
  BY <1>2 DEF Keeps
<1>6. \A v \in Leis \ contested' : Uncontested(v)'
  BY <1>3, <1>4, <1>5, UncontestedKept
<1>7. SeenStays'
  BY <1>1, <1>3, <1>4, <1>5, SeenStaysOn
<1>8. Loners'
  BY <1>1, <1>3, <1>4, LonersOn
<1>9. Undisturbed'
  BY <1>1, <1>3, <1>4, <1>5, UndisturbedOn
<1>10. AgreeBetween'
  BY <1>1, <1>3, <1>4, <1>5, AgreeOn
<1> QED BY <1>1, <1>5, <1>6, <1>7, <1>8, <1>9, <1>10 DEF IdInv

-----------------------------------------------------------------------------
(***************************************************************************)
(* A request that begins keeps it.                                         *)
(***************************************************************************)

LEMMA BegunShapes ==
    ASSUME IdShapes, NEW r \in Requests, NEW q, Starts(q), BeginOf(r, q), begun' \in 0..MaxBegun
    PROVE  /\ IdShapes'
           /\ r \notin Flying /\ \A s \in Requests : s \in Flying' <=> s = r \/ s \in Flying
<1>1. /\ req[r] = NoRequest /\ DOMAIN req' = Requests /\ UNCHANGED <<col, idRows, emptied>> /\ WatchContest
      /\ Alike(q, req'[r])
      /\ \A s \in Requests \ {r} : s \notin Flying => req'[s] = NoRequest
      /\ \A s \in Flying : Alike(req[s], req'[s])
      /\ muddled' = muddled \/ muddled' = muddled \cup {q.co}
  BY DEF BeginOf
<1>2. NoRequest.kind = "none" /\ \A p : ReqOK(p) => p.kind # "none"
  BY DEF NoRequest, ReqOK, ReqRecord, LeiKinds, ManyKinds, Batches
<1>3. r \notin Flying /\ \A s \in Flying : s \in Requests
  BY <1>1, <1>2 DEF Flying
<1>4. \A s \in Requests : s \in Flying' <=> req'[s].kind # "none"
  BY DEF Flying
<1>5. \A s \in Requests : s \in Flying' <=> s = r \/ s \in Flying
  BY <1>1, <1>2, <1>3, <1>4 DEF Alike
<1>6. \A s \in Requests : req'[s] = NoRequest \/ ReqOK(req'[s])
  BY <1>1, <1>3 DEF Alike
<1>7. ASSUME NEW s \in Flying'
      PROVE  \/ req'[s].co \in Born
             \/ req'[s].kind = "create" /\ req'[s].pc \in {"free_column", "free_table", "column"}
  <2>1. s \in Requests
    BY DEF Flying
  <2>2. CASE s = r
    BY <1>1, <2>2 DEF Alike, Starts
  <2>3. CASE s # r
    <3>1. s \in Flying /\ Alike(req[s], req'[s])
      BY <1>1, <1>5, <2>1, <2>3
    <3> QED BY <3>1 DEF Alike, IdShapes
  <2> QED BY <2>2, <2>3
<1>8. contested' \subseteq Leis
  BY <1>1 DEF WatchContest
<1>9. q.co \in Companies
  BY DEF Starts, ReqOK, ReqRecord
<1>10. IdShapes'
  BY <1>1, <1>6, <1>7, <1>8, <1>9 DEF IdShapes, Born
<1> QED BY <1>3, <1>5, <1>10

LEMMA ExistingSame ==
    ASSUME NEW s \in Requests, req'[s].co = req[s].co, req'[s].type = req[s].type, req'[s].val = req[s].val,
           idRows' = idRows
    PROVE  Existing(req[s])' = Existing(req[s])
<1> DEFINE there == {x \in RowsOf(req[s].co, req[s].type) : req[s].type \in Singular \/ x.val = req[s].val}
<1>1. there' = there
  BY DEF RowsOf
<1>2. Existing(req[s]) = (IF there = {} THEN NoRow ELSE CHOOSE x \in there : TRUE)
  BY DEF Existing
<1>3. Existing(req[s])' = (IF there' = {} THEN NoRow ELSE CHOOSE x \in there' : TRUE)
  BY DEF Existing
<1> HIDE DEF there
<1> QED BY <1>1, <1>2, <1>3

LEMMA BegunUncontested ==
    ASSUME IdentifierAssumption, IdInv, NEW r \in Requests, NEW q, Starts(q), BeginOf(r, q)
    PROVE  \A v \in Leis \ contested' : Uncontested(v)'
<1> SUFFICES ASSUME NEW v \in Leis, v \notin contested' PROVE Uncontested(v)'
  OBVIOUS
<1>1. /\ UNCHANGED <<col, idRows>> /\ WatchContest /\ Alike(q, req'[r])
      /\ \A s \in Requests \ {r} : s \notin Flying => req'[s] = NoRequest
      /\ \A s \in Flying : Alike(req[s], req'[s])
  BY DEF BeginOf
<1>2. OneAsker(v)'
  BY <1>1, ContestIs
<1>3. CASE v \in contested
  <2>1. OneOwner(v)' /\ \A s \in Requests : ~Asks(s, v)'
    BY <1>1, <1>3, ContestIs
  <2> QED BY <1>2, <2>1 DEF Uncontested, Looks
<1>4. CASE v \notin contested
  <2>1. Uncontested(v) /\ Born \subseteq Companies
    BY <1>4 DEF IdInv, IdShapes
  <2>2. \A d : (InColumn(d, v)' <=> InColumn(d, v)) /\ (InRows(d, v)' <=> InRows(d, v))
    BY <1>1 DEF InColumn, InRows, Born
  <2>3. \A d : LeiOwned(d, v)' <=> LeiOwned(d, v)
    BY <1>1 DEF LeiOwned, RowsOf, Born
  <2>4. OneOwner(v)'
    BY <2>1, <2>3 DEF Uncontested, OneOwner
  <2>5. ASSUME NEW s \in Requests PROVE Looks(s, v)'
    <3>1. CASE s = r
      <4>1. /\ req'[r].kind = q.kind /\ req'[r].val = q.val /\ req'[r].co = q.co /\ req'[r].pc = q.pc
        BY <1>1 DEF Alike
      <4>2. Asks(r, v)' => q.kind \in LeiKinds /\ q.val = v
        BY <4>1 DEF Asks
      <4>3. CASE q.kind \in LeiKinds /\ q.pc \in RowSteps
        <5>1. col[q.co] = q.val /\ q.co \in Born
          BY <4>3 DEF Starts, RowSteps
        <5>2. q.val = v => LeiOwned(q.co, v)
          BY <5>1 DEF LeiOwned
        <5>3. q.val = v => \A d \in Companies \ {q.co} : ~InColumn(d, v) /\ ~InRows(d, v)
          BY <2>1, <5>1, <5>2, OwnedIs DEF Uncontested, OneOwner
        <5> QED BY <2>2, <3>1, <4>1, <4>2, <5>3 DEF Looks
      <4>4. CASE q.kind \in LeiKinds /\ q.pc \notin RowSteps /\ q.pc # "column"
        <5>1. q.pc \notin {"free_table", "column", "own_column"} \cup RowSteps
          BY <4>4 DEF Starts
        <5> QED BY <3>1, <4>1, <5>1 DEF Looks
      <4>5. CASE q.pc = "column"
        <5>1. q.val # v
          BY <4>5 DEF Starts, IdentifierAssumption
        <5> QED BY <3>1, <4>2, <5>1 DEF Looks
      <4> QED BY <3>1, <4>2, <4>3, <4>4, <4>5 DEF Looks
    <3>2. CASE s # r /\ s \in Flying
      <4>1. /\ req'[s].kind = req[s].kind /\ req'[s].val = req[s].val /\ req'[s].co = req[s].co /\ req'[s].pc = req[s].pc
        BY <1>1, <3>2 DEF Alike
      <4>2. Looks(s, v)
        BY <2>1 DEF Uncontested
      <4>3. Asks(s, v)' <=> Asks(s, v)
        BY <4>1 DEF Asks
      <4> QED BY <2>2, <4>1, <4>2, <4>3 DEF Looks
    <3>3. CASE s # r /\ s \notin Flying
      BY <1>1, <3>3 DEF Looks, Asks, NoRequest, LeiKinds
    <3> QED BY <3>1, <3>2, <3>3
  <2> QED BY <1>2, <2>4, <2>5 DEF Uncontested
<1> QED BY <1>3, <1>4

LEMMA BeginKeepsInv ==
    ASSUME IdentifierAssumption, IdInv, NEW r \in Requests, IdBegins(r)
    PROVE  IdInv'
<1>1. PICK q : Begin(r, q) /\ Starts(q)
  BY BeginsAre DEF IdInv
<1>2. BeginOf(r, q)
  BY <1>1, BeginIs DEF IdInv
<1>3. begun' \in 0..MaxBegun
  BY <1>1 DEF Begin, IdInv, IdShapes, IdentifierAssumption
<1>4. /\ IdShapes'
      /\ r \notin Flying /\ \A s \in Requests : s \in Flying' <=> s = r \/ s \in Flying
  BY <1>1, <1>2, <1>3, BegunShapes DEF IdInv
<1>5. /\ UNCHANGED <<col, idRows, emptied>>
      /\ Alike(q, req'[r]) /\ (req'[r].alone <=> Neighbours(r, q.co) = {})
      /\ \A s \in Flying : Alike(req[s], req'[s]) /\ (req'[s].alone <=> req[s].alone /\ req[s].co # q.co)
      /\ \/ Neighbours(r, q.co) = {} /\ muddled' = muddled
         \/ Neighbours(r, q.co) # {} /\ muddled' = muddled \cup {q.co}
  BY <1>2 DEF BeginOf
<1>6. /\ \A s \in Flying' : s \in Requests /\ (s = r \/ s \in Flying)
      /\ r \in Flying' /\ \A s \in Flying : s \in Flying' /\ s # r /\ s \in Requests
  BY <1>4 DEF Flying
<1>7. /\ req'[r].co = q.co /\ req'[r].kind = q.kind /\ req'[r].pc = q.pc /\ req'[r].val = q.val
      /\ \A s \in Flying : /\ req'[s].co = req[s].co /\ req'[s].kind = req[s].kind /\ req'[s].pc = req[s].pc
                           /\ req'[s].val = req[s].val /\ req'[s].type = req[s].type /\ req'[s].seen = req[s].seen
  BY <1>5 DEF Alike
<1>8. q.pc # "row_write"
  BY <1>1 DEF Starts
<1>9. \A v \in Leis \ contested' : Uncontested(v)'
  BY <1>1, <1>2, BegunUncontested
<1>10. SeenStays'
  <2> SUFFICES ASSUME NEW s \in Flying', NEW y \in idRows', req'[s].pc = "row_write", y.id = req'[s].seen.id
               PROVE  y.co = req'[s].co /\ y.type = req'[s].type /\ (y.type \notin Singular => y.val = req'[s].val)
    BY DEF SeenStays
  <2>1. s \in Flying /\ y \in idRows
    BY <1>5, <1>6, <1>7, <1>8
  <2> QED BY <1>7, <2>1 DEF SeenStays, IdInv
<1>11. Loners'
  <2>1. ASSUME NEW s \in Flying', req'[s].alone, NEW u \in Flying' \ {s}, req'[u].co = req'[s].co PROVE FALSE
    <3>1. CASE s = r
      <4>1. u \in Neighbours(r, q.co)
        BY <1>6, <1>7, <2>1, <3>1 DEF Neighbours
      <4> QED BY <1>5, <2>1, <3>1, <4>1
    <3>2. CASE u = r
      BY <1>5, <1>6, <1>7, <2>1, <3>2
    <3>3. CASE s # r /\ u # r
      <4>1. s \in Flying /\ u \in Flying /\ req[s].alone /\ req[u].co = req[s].co
        BY <1>5, <1>6, <1>7, <2>1, <3>3
      <4> QED BY <2>1, <4>1 DEF Loners, Neighbours, IdInv
    <3> QED BY <3>1, <3>2, <3>3
  <2>2. ASSUME NEW s \in Flying', ~req'[s].alone PROVE req'[s].co \in muddled'
    <3>1. CASE s = r
      BY <1>5, <1>7, <2>2, <3>1
    <3>2. CASE s # r /\ ~req[s].alone
      BY <1>5, <1>6, <1>7, <3>2 DEF Loners, IdInv
    <3>3. CASE s # r /\ req[s].alone
      <4>1. s \in Flying /\ req[s].co = q.co
        BY <1>5, <1>6, <2>2, <3>3
      <4>2. s \in Neighbours(r, q.co)
        BY <4>1, <1>6 DEF Neighbours
      <4> QED BY <1>5, <1>7, <4>1, <4>2
    <3> QED BY <3>1, <3>2, <3>3
  <2>3. \A s \in Flying' : (Neighbours(s, req[s].co) = {})' <=> \A u \in Flying' \ {s} : req'[u].co # req'[s].co
    BY DEF Neighbours
  <2> QED BY <2>1, <2>2, <2>3 DEF Loners
<1>12. Undisturbed'
  <2> SUFFICES ASSUME NEW s \in Flying', req'[s].alone
               PROVE  /\ HalfDone(s)' => InColumn(req[s].co, req[s].val)'
                      /\ req'[s].pc = "row_write" => (req[s].seen = Existing(req[s]))'
    BY DEF Undisturbed
  <2>1. CASE s = r
    <3>1. HalfDone(r)' => q.kind \in LeiKinds /\ q.pc \in RowSteps
      BY <1>7 DEF HalfDone, RowSteps
    <3>2. q.kind \in LeiKinds /\ q.pc \in RowSteps => q.co \in Born /\ col[q.co] = q.val
      BY <1>1 DEF Starts, RowSteps
    <3>3. InColumn(req[r].co, req[r].val)' <=> q.co \in Born /\ col[q.co] = q.val
      BY <1>5, <1>7 DEF InColumn, Born
    <3> QED BY <1>7, <1>8, <2>1, <3>1, <3>2, <3>3
  <2>2. CASE s # r
    <3>1. s \in Flying /\ req[s].alone
      BY <1>5, <1>6, <2>2
    <3>2. /\ HalfDone(s) => InColumn(req[s].co, req[s].val)
          /\ req[s].pc = "row_write" => req[s].seen = Existing(req[s])
      BY <3>1 DEF Undisturbed, IdInv
    <3>3. HalfDone(s)' <=> HalfDone(s)
      BY <1>7, <3>1 DEF HalfDone
    <3>4. InColumn(req[s].co, req[s].val)' <=> InColumn(req[s].co, req[s].val)
      BY <1>5, <1>7, <3>1 DEF InColumn, Born
    <3>5. Existing(req[s])' = Existing(req[s])
      BY <1>5, <1>6, <1>7, <3>1, ExistingSame
    <3> QED BY <1>7, <3>1, <3>2, <3>3, <3>4, <3>5
  <2> QED BY <2>1, <2>2
<1>13. AgreeBetween'
  <2> SUFFICES ASSUME NEW c \in Born' \ (muddled' \cup emptied'), \A s \in Flying' : req'[s].co = c => ~HalfDone(s)'
               PROVE  Agree(c)'
    BY DEF AgreeBetween
  <2>1. c \in Born \ (muddled \cup emptied)
    BY <1>5 DEF Born
  <2>2. \A s \in Flying : req[s].co = c => ~HalfDone(s)
    BY <1>6, <1>7 DEF HalfDone
  <2>3. Agree(c)
    BY <2>1, <2>2 DEF AgreeBetween, IdInv
  <2> QED BY <1>5, <2>3 DEF Agree, RowsOf
<1>14. UniqueRows(idRows')
  BY <1>5 DEF IdInv
<1> QED BY <1>4, <1>9, <1>10, <1>11, <1>12, <1>13, <1>14 DEF IdInv

LEMMA InitInv == ASSUME IdentifierAssumption, IdInit PROVE IdInv
<1>1. PICK B \in (SUBSET Companies) \ {{}} : col = [c \in B |-> NoValue]
  BY DEF IdInit
<1>2. /\ idRows = {} /\ req = [r \in Requests |-> NoRequest] /\ begun = 0
      /\ contested = {} /\ muddled = {} /\ emptied = {}
  BY DEF IdInit
<1>3. Flying = {} /\ \A r \in Requests : req[r] = NoRequest
  BY <1>2 DEF Flying, NoRequest
<1>4. Born = B /\ \A c \in Born : col[c] = NoValue
  BY <1>1 DEF Born
<1>5. IdShapes
  BY <1>1, <1>2, <1>3, <1>4 DEF IdShapes, IdentifierAssumption
<1>6. UniqueRows(idRows) /\ SeenStays /\ Loners /\ Undisturbed
  BY <1>2, <1>3 DEF UniqueRows, SeenStays, Loners, Undisturbed
<1>7. ASSUME NEW v \in Leis PROVE Uncontested(v)
  <2>1. \A r \in Requests : ~Asks(r, v)
    BY <1>3 DEF Asks, NoRequest, LeiKinds
  <2>2. \A c : ~LeiOwned(c, v)
    BY <1>2, <1>4 DEF LeiOwned, RowsOf, IdentifierAssumption
  <2> QED BY <2>1, <2>2 DEF Uncontested, OneOwner, OneAsker, Looks
<1>8. \A c \in Born : Agree(c)
  <2>1. \A c : RowsOf(c, "LEI") = {}
    BY <1>2 DEF RowsOf
  <2> QED BY <1>4, <2>1 DEF Agree
<1>9. AgreeBetween
  BY <1>8 DEF AgreeBetween
<1> QED BY <1>5, <1>6, <1>7, <1>9 DEF IdInv

LEMMA StillInv == ASSUME IdInv, UNCHANGED ivars PROVE IdInv'
<1>1. UNCHANGED <<col, idRows, req, begun, contested, muddled, emptied>>
  BY DEF ivars
<1>2. IdShapes'
  BY <1>1 DEF IdInv, IdShapes, Born, Flying
<1>3. UniqueRows(idRows') /\ SeenStays'
  BY <1>1 DEF IdInv, SeenStays, Flying
<1>4. \A v \in Leis \ contested' : Uncontested(v)'
  <2>1. /\ \A d, v : (InColumn(d, v)' <=> InColumn(d, v)) /\ (InRows(d, v)' <=> InRows(d, v))
        /\ \A d, v : LeiOwned(d, v)' <=> LeiOwned(d, v)
        /\ \A r, v : Asks(r, v)' <=> Asks(r, v)
    BY <1>1 DEF InColumn, InRows, LeiOwned, RowsOf, Asks, Born
  <2> QED BY <1>1, <2>1 DEF IdInv, Uncontested, OneOwner, OneAsker, Looks
<1>5. Loners'
  BY <1>1 DEF IdInv, Loners, Neighbours, Flying
<1>6. Undisturbed'
  BY <1>1 DEF IdInv, Undisturbed, Flying, HalfDone, InColumn, Born, Existing, RowsOf
<1>7. AgreeBetween'
  BY <1>1 DEF IdInv, AgreeBetween, Flying, HalfDone, Agree, RowsOf, Born
<1> QED BY <1>2, <1>3, <1>4, <1>5, <1>6, <1>7 DEF IdInv

LEMMA InvOwners == ASSUME IdInv PROVE LeiHasOneOwner
<1> SUFFICES ASSUME NEW v \in Leis \ contested PROVE Cardinality({c \in Companies : LeiOwned(c, v)}) <= 1
  BY DEF LeiHasOneOwner
<1> DEFINE S == {c \in Companies : LeiOwned(c, v)}
<1>1. \A c, d \in S : c = d
  BY DEF IdInv, Uncontested, OneOwner
<1>2. CASE S = {}
  BY <1>2, FS_EmptySet
<1>3. CASE S # {}
  <2>1. PICK c : S = {c}
    BY <1>1, <1>3
  <2>2. Cardinality(S) = 1
    BY <2>1, FS_Singleton
  <2> QED BY <2>2
<1> QED BY <1>2, <1>3

LEMMA InvAgrees == ASSUME IdInv PROVE TablesAgree
BY DEF TablesAgree, IdInv, AgreeBetween, Agree

\* Staff's value is in the row that is written, and no index refuses it.
LEMMA SetWrites ==
    ASSUME IdentifierAssumption, IdInv, NEW r \in Requests, WriteRow(r), req[r].kind = "set", req[r].alone
    PROVE  \E x \in idRows' : /\ x.co = req[r].co /\ x.type = req[r].type /\ x.val = req[r].val
                              /\ req[r].role # "keep" => (x.primary <=> req[r].role = "primary")
<1> DEFINE q == req[r]
<1>1. /\ r \in Flying /\ q.pc = "row_write" /\ IdShapes /\ SeenStays /\ UniqueRows(idRows)
      /\ q.seen = NoRow => FreshIds # {}
      /\ q.seen # NoRow => \E y \in idRows : y.id = q.seen.id
      /\ \/ UniqueRows(Written(q)) /\ idRows' = Written(q)
         \/ ~UniqueRows(Written(q)) /\ idRows' = idRows
  BY WriteRowIs DEF WriteRow, ReqAt, Flying, IdInv
<1>2. q.seen = Existing(q)
  BY <1>1 DEF IdInv, Undisturbed
<1>3. \A x \in idRows : LET z == Becomes(q, x)
           IN /\ z \in Rows /\ z.id = x.id /\ z.co = x.co /\ z.type = x.type
              /\ x.co # q.co \/ x.type # q.type => z = x
              /\ Meant(q, x) => x.co = q.co /\ x.type = q.type /\ z.val = q.val
                                /\ z.primary = (IF q.role = "keep" THEN x.primary ELSE q.role = "primary")
              /\ x.type \notin Singular \/ ~Meant(q, x) => z.val = x.val
              /\ ~Meant(q, x) => /\ z.primary => x.primary
                                 /\ q.role # "primary" => z = x
                                 /\ q.role = "primary" /\ x.co = q.co /\ x.type = q.type => ~z.primary
  BY <1>1, BecomesIs
<1>4. q.seen = NoRow =>
        LET n == NewRow(q)
        IN /\ n \in Rows /\ n.co = q.co /\ n.type = q.type /\ n.val = q.val /\ n.primary = (q.role = "primary")
  BY <1>1, NewRowIs
<1>5. q.seen = NoRow => \A x : ~Matches(x, q)
  BY <1>1, <1>2, ExistingIs
<1>6. UniqueRows(Written(q))
  <2> SUFFICES ASSUME NEW x \in Written(q), NEW y \in Written(q), x # y, x.co = y.co, x.type = y.type
               PROVE  x.type \notin Singular /\ x.val # y.val /\ ~(x.primary /\ y.primary)
    BY DEF UniqueRows
  <2>1. ASSUME NEW a \in idRows, NEW b \in idRows, x = Becomes(q, a), y = Becomes(q, b)
        PROVE  x.type \notin Singular /\ x.val # y.val /\ ~(x.primary /\ y.primary)
    <3>1. a # b /\ a.co = b.co /\ a.type = b.type /\ x.type = a.type
      BY <1>3, <2>1
    <3>2. a.type \notin Singular /\ a.val # b.val /\ ~(a.primary /\ b.primary)
      BY <1>1, <3>1 DEF UniqueRows
    <3>3. x.val = a.val /\ y.val = b.val
      BY <1>3, <2>1, <3>1, <3>2
    <3>4. ~(x.primary /\ y.primary)
      <4>1. ~(Meant(q, a) /\ Meant(q, b))
        BY <1>1, <3>1 DEF Meant, IdShapes
      <4>2. CASE a.co # q.co \/ a.type # q.type
        BY <1>3, <2>1, <3>1, <3>2, <4>2
      <4>3. CASE a.co = q.co /\ a.type = q.type /\ q.role = "primary"
        BY <1>3, <2>1, <3>1, <4>1, <4>3
      <4>4. CASE q.role # "primary"
        BY <1>3, <2>1, <3>2, <4>1, <4>4
      <4> QED BY <4>2, <4>3, <4>4
    <3> QED BY <3>1, <3>2, <3>3, <3>4
  <2>2. ASSUME NEW a \in idRows, NEW n, q.seen = NoRow, n = NewRow(q), a.co = q.co, a.type = q.type
        PROVE  LET z == Becomes(q, a)
               IN  z.type \notin Singular /\ z.val # n.val /\ ~(z.primary /\ n.primary)
    <3>1. ~Meant(q, a) /\ ~Matches(a, q)
      BY <1>5, <2>2 DEF Meant
    <3>2. a.type \notin Singular /\ a.val # q.val
      BY <2>2, <3>1 DEF Matches
    <3>3. /\ Becomes(q, a).type = a.type /\ Becomes(q, a).val = a.val
          /\ q.role = "primary" => ~Becomes(q, a).primary
      BY <1>3, <2>2, <3>1
    <3> QED BY <1>4, <2>2, <3>2, <3>3
  <2>3. \A z \in Written(q) : (\E a \in idRows : z = Becomes(q, a)) \/ (q.seen = NoRow /\ z = NewRow(q))
    BY WrittenAre
  <2>4. CASE \E a, b \in idRows : x = Becomes(q, a) /\ y = Becomes(q, b)
    BY <2>1, <2>4
  <2>5. CASE \E a \in idRows : x = Becomes(q, a) /\ q.seen = NoRow /\ y = NewRow(q)
    BY <1>3, <1>4, <2>2, <2>5
  <2>6. CASE \E a \in idRows : y = Becomes(q, a) /\ q.seen = NoRow /\ x = NewRow(q)
    BY <1>3, <1>4, <2>2, <2>6
  <2> QED BY <2>3, <2>4, <2>5, <2>6
<1>7. PICK z \in Written(q) :
          /\ z.co = q.co /\ z.type = q.type /\ z.val = q.val
          /\ \/ q.seen = NoRow /\ z = NewRow(q)
             \/ \E x \in idRows : z = Becomes(q, x) /\ Meant(q, x)
  BY <1>1, WrittenHas
<1>8. q.role # "keep" => (z.primary <=> q.role = "primary")
  BY <1>3, <1>4, <1>7
<1> QED BY <1>1, <1>6, <1>7, <1>8

LEMMA ItemIs ==
    ASSUME NEW q, ReqOK(q), q.kind \in Batches
    PROVE  q.type \in {"ORG_NUMBER", "ISIN"} /\ (q.type = "ORG_NUMBER" \/ q.snapPrimary => q.role = "keep")
<1>1. q.items \in Seq(PlanItems(q.snapPrimary)) \ {<<>>} /\ q.type = Head(q.items).type /\ q.role = Head(q.items).role
  BY DEF ReqOK
<1>2. Head(q.items) \in PlanItems(q.snapPrimary)
  BY <1>1, HeadTailProperties
<1> QED BY <1>1, <1>2 DEF PlanItems

\* A batch leaves the organisation numbers as they are, and the ISINs where one was PRIMARY.
LEMMA BatchWrites ==
    ASSUME IdInv, NEW r \in Requests, WriteRow(r), req[r].kind \in Batches,
           NEW x \in idRows, x.type = "ORG_NUMBER" \/ req[r].snapPrimary
    PROVE  x \in idRows'
<1> DEFINE q == req[r]
           z == Becomes(q, x)
<1>1. /\ r \in Flying /\ q.pc = "row_write" /\ IdShapes /\ SeenStays
      /\ idRows' = Written(q) \/ idRows' = idRows
  BY WriteRowIs DEF WriteRow, ReqAt, Flying, IdInv
<1>2. /\ ReqOK(q) /\ q.type \in {"ORG_NUMBER", "ISIN"} /\ (q.type = "ORG_NUMBER" \/ q.snapPrimary => q.role = "keep")
      /\ q.type = "ORG_NUMBER" => q.seen = NoRow
  BY <1>1, FlyingAre, ItemIs DEF ReqOK
<1>3. /\ z \in Rows /\ z.id = x.id /\ z.co = x.co /\ z.type = x.type
      /\ x.co # q.co \/ x.type # q.type => z = x
      /\ Meant(q, x) => z.primary = (IF q.role = "keep" THEN x.primary ELSE q.role = "primary")
      /\ x.type \notin Singular \/ ~Meant(q, x) => z.val = x.val
      /\ ~Meant(q, x) /\ q.role # "primary" => z = x
  BY <1>1, BecomesIs
<1>4. z = x
  <2>1. CASE x.co # q.co \/ x.type # q.type
    BY <1>3, <2>1
  <2>2. CASE x.type = q.type /\ ~Meant(q, x)
    BY <1>2, <1>3, <2>2
  <2>3. CASE x.type = q.type /\ Meant(q, x)
    <3>1. q.type = "ISIN" /\ q.role = "keep"
      BY <1>2, <2>3 DEF Meant
    <3>2. z.val = x.val /\ z.primary = x.primary
      BY <1>3, <2>3, <3>1 DEF Singular
    <3>3. x \in Rows
      BY <1>1 DEF IdShapes
    <3> HIDE DEF z
    <3> QED BY <1>3, <3>2, <3>3 DEF Rows
  <2> QED BY <2>1, <2>2, <2>3
<1>5. z \in Written(q)
  BY WrittenAre
<1> QED BY <1>1, <1>4, <1>5

LEMMA BatchAdds ==
    ASSUME IdentifierAssumption, IdInv, IdNext, NEW r \in Requests, req[r].kind \in Batches, req'[r] # req[r],
           NEW x \in idRows, x.type = "ORG_NUMBER" \/ req[r].snapPrimary
    PROVE  x \in idRows'
<1>1. PICK s \in Requests : IdBegins(s) \/ (IdSteps(s) /\ UNCHANGED begun)
  BY DEF IdNext
<1>2. CASE IdBegins(s)
  <2>1. \E q : Begin(s, q)
    BY <1>2, BeginsAre DEF IdInv
  <2> QED BY <2>1 DEF Begin
<1>3. CASE IdSteps(s) /\ UNCHANGED begun
  <2>1. OnlyOf(s)
    BY <1>3, StepsAre DEF IdInv, StepOf
  <2>2. s = r
    BY <2>1 DEF OnlyOf
  <2>3. req[r].kind \notin LeiKinds /\ req[r].kind # "delete"
    BY DEF Batches, LeiKinds
  <2>4. WriteRow(r) \/ idRows' = idRows
    <3>1. CASE LookSteps(r)
      BY <3>1, LooksAre
    <3>2. CASE WriteColumn(r) \/ FindRow(r) \/ Fail(r)
      BY <3>2 DEF WriteColumn, FindRow, Fail, Looked
    <3>3. CASE ClearLei(r)
      BY <2>3, <3>3, ClearLeiIs DEF IdInv
    <3>4. CASE DeleteRows(r)
      BY <2>3, <3>4, DeleteRowsIs DEF IdInv
    <3> QED BY <1>3, <2>2, <3>1, <3>2, <3>3, <3>4 DEF IdSteps, LookSteps
  <2> QED BY <2>4, BatchWrites
<1> QED BY <1>1, <1>2, <1>3

LEMMA InvTypes == ASSUME IdInv PROVE IdTypeOK
<1>1. IdShapes
  BY DEF IdInv
<1>2. ASSUME NEW r \in Flying
      PROVE  /\ req[r].kind \in LeiKinds \cup ManyKinds
             /\ req[r].co \in Companies /\ req[r].val \in IdValues \cup {NoValue}
             /\ req[r].seen \in idRows \cup Rows \cup {NoRow}
             /\ \A i \in DOMAIN req[r].items : req[r].items[i] \in Items
  <2>1. req[r] \in ReqRecord
    BY <1>1, FlyingAre DEF ReqOK
  <2>2. req[r].items \in Seq(Items)
    BY <2>1 DEF ReqRecord
  <2> QED BY <2>1, <2>2, ElementOfSeq, LenProperties DEF ReqRecord
<1>3. \A c \in Born : col[c] \in Leis \cup {NoValue}
  BY <1>1 DEF IdShapes
<1> QED BY <1>1, <1>2, <1>3 DEF IdTypeOK, IdShapes

LEMMA IdInvHolds == IdSpec => []IdInv
<1> USE IdentifierAssumption
<1>1. IdInit => IdInv
  BY InitInv
<1>2. IdInv /\ [IdNext]_ivars => IdInv'
  BY BeginKeepsInv, StepKeepsInv, StillInv DEF IdNext
<1> QED BY <1>1, <1>2, PTL DEF IdSpec

\* The types of the two tables and of the requests.
THEOREM IdentifierTypes == IdSpec => []IdTypeOK
BY IdInvHolds, InvTypes, PTL

\* The identifiers of a company, whatever requests run beside each other and wherever they stop:
\* a LEI has one owner, the column and the row of a company agree, staff's choice of the PRIMARY
\* is written and a batch only adds.
THEOREM IdentifiersHold == IdSpec => IdentifiersAgree
<1> USE IdentifierAssumption
<1>1. IdInv => LeiHasOneOwner /\ TablesAgree
  BY InvOwners, InvAgrees
<1>2. IdInv /\ [IdNext]_ivars => [\A r \in Requests : Honoured(r)]_ivars
  BY SetWrites DEF Honoured
<1>3. IdInv /\ [IdNext]_ivars => [\A r \in Requests : OnlyAdds(r)]_ivars
  BY BatchAdds DEF OnlyAdds
<1> QED
  BY IdInvHolds, <1>1, <1>2, <1>3, PTL DEF IdSpec, IdentifiersAgree, SetIsHonoured, BatchOnlyAdds

-----------------------------------------------------------------------------
(***************************************************************************)
(* What is stored for a year of a company, while saves, deletions and the  *)
(* script that removes doubles take their steps in any order.              *)
(***************************************************************************)

Kinds == Points \cup {"emissions", "scope3"}
RowRecord == [id: Nat, owner: Nat, kind: Kinds, val: Values \cup {None}]
Views == [scope1: SUBSET (Values \cup {None}), cats: [Cats -> SUBSET (Values \cup {None})]]
MapsOfCats(S) == UNION {[K -> S] : K \in SUBSET Cats}
PointSteps == {"read1", "write1", "scope3"} \cup Cats

SaveRecord ==
    [pc: {"list", "purge", "period", "emissions", "points"}, body: Sendable, alone: BOOLEAN,
     lost: BOOLEAN, before: Views, purge: Seq(Nat), period: Nat, emissions: Nat, scope1: Nat,
     prev1: Values \cup {None}, scope3: Nat, match: MapsOfCats(Nat),
     prev: MapsOfCats(Values \cup {None}), todo: SUBSET PointSteps]

ChildOf(y, x) == \/ x.kind = "emissions" /\ y.kind \in {"scope1", "scope3"}
                 \/ x.kind = "scope3" /\ y.kind \in Cats

\* The rows R of a period p, with u ids given out: each has its own id, and hangs below a row of
\* the level above its own.
RowsFit(R, u, p) ==
    /\ \A x \in R : /\ x \in RowRecord /\ x.id \in 1..u /\ x.owner \in 0..u /\ x.id # p
                    /\ x.kind \in Points => x.val \in Values
    /\ \A x, y \in R : x.id = y.id => x = y
    /\ \A x, y \in R : y.owner = x.id => ChildOf(y, x)

\* The rows a save q has found are of the kinds it looked for, as long as they are there.
SaveFits(q, R, u) ==
    /\ {q.period, q.emissions, q.scope1, q.scope3} \subseteq 0..u
    /\ q.pc # "points" => q.scope1 = 0 /\ q.scope3 = 0 /\ q.todo = {}
    /\ "read1" \in q.todo \/ "write1" \in q.todo => q.body.scope1 # "absent"
    /\ "write1" \in q.todo => q.body.scope1 # "null"
    /\ "scope3" \in q.todo => q.todo \cap Cats = {}
    /\ \A k \in q.todo \cap Cats :
          /\ k \in DOMAIN CatsOf(q.body) /\ k \in DOMAIN q.match /\ k \in DOMAIN q.prev
          /\ q.match[k] \in 0..u
    /\ \A x \in R : /\ x.id = q.emissions => x.kind = "emissions"
                    /\ x.id = q.scope1 => x.kind = "scope1"
                    /\ x.id = q.scope3 => x.kind = "scope3"
                    /\ \A k \in q.todo \cap Cats : x.id = q.match[k] => x.kind = k

\* The row of a category that a save is to write is the one it has found, or there is none.
Knows(q, R, d) ==
    \A k \in (q.todo \cap Cats) \ d : \A x \in R :
        x.owner = q.scope3 /\ x.kind = k => x.id = q.match[k]

\* prev is what a row id of R says, when it is not v.
Tells(R, id, v, prev) ==
    /\ \A x \in R : x.id = id => prev = IF x.val # v THEN x.val ELSE None
    /\ (\A x \in R : x.id # id) => prev = None

\* What a save remembers of the rows it is to write.
Remembers(q, R) ==
    /\ "write1" \in q.todo => Tells(R, q.scope1, q.body.scope1, q.prev1)
    /\ \A k \in q.todo \cap Cats : Tells(R, q.match[k], CatsOf(q.body)[k], q.prev[k])

OneEach(R, d) ==
    \A x, y \in R : x.kind \in Cats \ d /\ x.kind = y.kind /\ x.owner = y.owner => x = y

\* What the metadata M says of the values a row had.
History(M, id) == {[at |-> m.at, val |-> m.prev] : m \in {n \in M : n.row = id /\ n.prev # None}}
HistoryIn(R, M, P, rc) ==
    \A x \in R : x.kind \in Points /\ x.id \notin rc => History(M, x.id) = P[x.id]

\* Rows that have not been made have left no trace.
Unmade(M, P, u) ==
    /\ P = [id \in Ids |-> P[id]] /\ \A id \in Ids : id > u => P[id] = {}
    /\ \A m \in M : m.row \in 1..u

Shapes ==
    /\ used \in 0..MaxIds /\ period \in 0..used
    /\ RowsFit(rows, used, period) /\ Unmade(metadata, past, used)
    /\ save = [s \in Savers |-> save[s]]
    /\ \A s \in Savers : save[s] = Idle \/ (save[s] \in SaveRecord /\ SaveFits(save[s], rows, used))

\* A save is alone as long as no other is in flight, and two that have a category are noted.
Lone == \A s \in Busy : save[s].alone => Busy = {s}
Noted == \A s, t \in Busy : s # t =>
             DOMAIN CatsOf(save[s].body) \cap DOMAIN CatsOf(save[t].body) \subseteq doubled

PeriodInv ==
    /\ Shapes /\ Lone /\ Noted /\ OneEach(rows, doubled)
    /\ \A s \in Busy : Knows(save[s], rows, doubled)
    /\ \A s \in Busy : save[s].alone => Remembers(save[s], rows)
    /\ HistoryIn(rows, metadata, past, raced)

-----------------------------------------------------------------------------
(***************************************************************************)
(* Tables.                                                                 *)
(***************************************************************************)

LEMMA IdsOfRows ==
    ASSUME NEW R, NEW u \in Nat, NEW p, RowsFit(R, u, p)
    PROVE  /\ IsFiniteSet(R)
           /\ \A x \in R : (CHOOSE y \in R : y.id = x.id) = x
<1> DEFINE f == [x \in R |-> x.id]
<1>1. f \in Injection(R, 1..u)
  BY DEF RowsFit, RowRecord, Injection, IsInjective
<1>2. IsFiniteSet(1..u) /\ 1..u = 1..u
  BY FS_Interval
<1>3. IsFiniteSet(R)
  BY <1>1, <1>2, FS_Injection
<1> QED BY <1>3 DEF RowsFit

LEMMA FewerRows ==
    ASSUME NEW R, NEW R2 \in SUBSET R, NEW u \in Nat, NEW p, NEW p2, RowsFit(R, u, p),
           p2 = p \/ p2 = 0
    PROVE  RowsFit(R2, u, p2)
BY DEF RowsFit

LEMMA PeriodMade ==
    ASSUME NEW R, NEW u \in Nat, NEW p, RowsFit(R, u, p)
    PROVE  RowsFit(R, u + 1, u + 1)
BY DEF RowsFit

\* The rows when one more is made below an owner; Attaches detaches those of its kind.
Attaches(R, o, k, id, v) ==
    {IF x.owner = o /\ x.kind = k THEN [x EXCEPT !.owner = 0] ELSE x : x \in R} \cup {Row(id, o, k, v)}
Adds(R, o, k, id, v) == R \cup {Row(id, o, k, v)}
Changes(R, id, v) == {IF x.id = id THEN [x EXCEPT !.val = v] ELSE x : x \in R}

LEMMA AttachedIs ==
    ASSUME NEW R, NEW u \in Nat, NEW p, RowsFit(R, u, p), NEW o, NEW k, NEW v,
           NEW x \in Attaches(R, o, k, u + 1, v)
    PROVE  \/ x = Row(u + 1, o, k, v)
           \/ \E y \in R : /\ x.id = y.id /\ x.kind = y.kind /\ x.val = y.val /\ x \in RowRecord
                           /\ x.owner = IF y.owner = o /\ y.kind = k THEN 0 ELSE y.owner
<1>1. CASE x = Row(u + 1, o, k, v)
  BY <1>1
<1>2. CASE \E y \in R : x = IF y.owner = o /\ y.kind = k THEN [y EXCEPT !.owner = 0] ELSE y
  BY <1>2 DEF RowsFit, RowRecord
<1> QED BY <1>1, <1>2 DEF Attaches

LEMMA AttachedFit ==
    ASSUME NEW R, NEW u \in Nat, NEW p, RowsFit(R, u, p), p \in 0..u, NEW o \in 0..u, NEW k \in Kinds,
           NEW v \in Values \cup {None}, k \in Points => v \in Values,
           \A x \in R : x.id = o => \/ x.kind = "emissions" /\ k \in {"scope1", "scope3"}
                                    \/ x.kind = "scope3" /\ k \in Cats
    PROVE  RowsFit(Attaches(R, o, k, u + 1, v), u + 1, p)
<1> DEFINE R2 == Attaches(R, o, k, u + 1, v)
           e == Row(u + 1, o, k, v)
<1>1. e \in RowRecord /\ e.id = u + 1 /\ e.owner = o /\ e.kind = k /\ e.val = v
  BY DEF Row, RowRecord
<1>2. \A x \in R2 : \/ x = e
           \/ \E y \in R : /\ x.id = y.id /\ x.kind = y.kind /\ x.val = y.val /\ x \in RowRecord
                           /\ x.owner = IF y.owner = o /\ y.kind = k THEN 0 ELSE y.owner
  BY AttachedIs
<1>3. \A x, y \in R : x.id = y.id => x = y
  BY DEF RowsFit
<1>4. \A x \in R : x \in RowRecord /\ x.id \in 1..u /\ x.owner \in 0..u /\ x.id # p /\ (x.kind \in Points => x.val \in Values)
  BY DEF RowsFit
<1>5. \A x, y \in R : y.owner = x.id => ChildOf(y, x)
  BY DEF RowsFit
<1> HIDE DEF e, R2
<1>6. ASSUME NEW x \in R2
      PROVE  x \in RowRecord /\ x.id \in 1..(u + 1) /\ x.owner \in 0..(u + 1) /\ x.id # p
             /\ (x.kind \in Points => x.val \in Values)
  BY <1>1, <1>2, <1>4
<1>7. ASSUME NEW x \in R2, NEW y \in R2, x.id = y.id PROVE x = y
  <2>1. CASE x = e /\ y = e
    BY <2>1
  <2>2. CASE x # e /\ y # e
    <3>1. PICK a \in R : /\ x.id = a.id /\ x.kind = a.kind /\ x.val = a.val /\ x \in RowRecord
                         /\ x.owner = IF a.owner = o /\ a.kind = k THEN 0 ELSE a.owner
      BY <2>2, <1>2
    <3>2. PICK b \in R : /\ y.id = b.id /\ y.kind = b.kind /\ y.val = b.val /\ y \in RowRecord
                         /\ y.owner = IF b.owner = o /\ b.kind = k THEN 0 ELSE b.owner
      BY <2>2, <1>2
    <3>3. a = b
      BY <3>1, <3>2, <1>7, <1>3
    <3> QED BY <3>1, <3>2, <3>3 DEF RowRecord
  <2>3. CASE (x = e) # (y = e)
    BY <2>3, <1>7, <1>1, <1>2, <1>4
  <2> QED BY <2>1, <2>2, <2>3
<1>8. ASSUME NEW x \in R2, NEW y \in R2, y.owner = x.id PROVE ChildOf(y, x)
  <2>1. x # e
    BY <1>8, <1>1, <1>2, <1>4
  <2>2. PICK a \in R : x.id = a.id /\ x.kind = a.kind
    BY <2>1, <1>2
  <2>3. CASE y = e
    BY <2>2, <2>3, <1>1, <1>8 DEF ChildOf
  <2>4. CASE y # e
    <3>1. PICK b \in R : /\ y.id = b.id /\ y.kind = b.kind
                         /\ y.owner = IF b.owner = o /\ b.kind = k THEN 0 ELSE b.owner
      BY <2>4, <1>2
    <3>2. b.owner = a.id
      BY <3>1, <2>2, <1>8, <1>4
    <3> QED BY <3>1, <3>2, <2>2, <1>5 DEF ChildOf
  <2> QED BY <2>3, <2>4
<1> QED BY <1>6, <1>7, <1>8 DEF RowsFit, R2

LEMMA AddedFit ==
    ASSUME NEW R, NEW u \in Nat, NEW p, RowsFit(R, u, p), p \in 0..u, NEW o \in 0..u, NEW k \in Kinds,
           NEW v \in Values \cup {None}, k \in Points => v \in Values,
           \A x \in R : x.id = o => \/ x.kind = "emissions" /\ k \in {"scope1", "scope3"}
                                    \/ x.kind = "scope3" /\ k \in Cats
    PROVE  RowsFit(Adds(R, o, k, u + 1, v), u + 1, p)
<1> DEFINE R2 == Adds(R, o, k, u + 1, v)
           e == Row(u + 1, o, k, v)
<1>1. e \in RowRecord /\ e.id = u + 1 /\ e.owner = o /\ e.kind = k /\ e.val = v
  BY DEF Row, RowRecord
<1>2. \A x \in R2 : x = e \/ x \in R
  BY DEF Adds
<1> HIDE DEF e, R2
<1>6. ASSUME NEW x \in R2
      PROVE  x \in RowRecord /\ x.id \in 1..(u + 1) /\ x.owner \in 0..(u + 1) /\ x.id # p
             /\ (x.kind \in Points => x.val \in Values)
  BY <1>1, <1>2 DEF RowsFit
<1>7. ASSUME NEW x \in R2, NEW y \in R2, x.id = y.id PROVE x = y
  BY <1>1, <1>2, <1>7 DEF RowsFit
<1>8. ASSUME NEW x \in R2, NEW y \in R2, y.owner = x.id PROVE ChildOf(y, x)
  BY <1>1, <1>2, <1>8 DEF RowsFit, ChildOf
<1> QED BY <1>6, <1>7, <1>8 DEF RowsFit, R2

LEMMA ChangedIs ==
    ASSUME NEW R, NEW u \in Nat, NEW p, RowsFit(R, u, p), NEW id, NEW v \in Values,
           NEW x \in Changes(R, id, v)
    PROVE  \E y \in R : /\ x.id = y.id /\ x.kind = y.kind /\ x.owner = y.owner /\ x \in RowRecord
                        /\ x.val = IF y.id = id THEN v ELSE y.val
<1>1. PICK y \in R : x = IF y.id = id THEN [y EXCEPT !.val = v] ELSE y
  BY DEF Changes
<1> QED BY <1>1 DEF RowsFit, RowRecord

LEMMA ChangedFit ==
    ASSUME NEW R, NEW u \in Nat, NEW p, RowsFit(R, u, p), NEW id, NEW v \in Values
    PROVE  RowsFit(Changes(R, id, v), u, p)
<1> DEFINE R2 == Changes(R, id, v)
<1>2. \A x \in R2 : \E y \in R : /\ x.id = y.id /\ x.kind = y.kind /\ x.owner = y.owner /\ x \in RowRecord
                        /\ x.val = IF y.id = id THEN v ELSE y.val
  BY ChangedIs
<1> HIDE DEF R2
<1>6. ASSUME NEW x \in R2
      PROVE  x \in RowRecord /\ x.id \in 1..u /\ x.owner \in 0..u /\ x.id # p
             /\ (x.kind \in Points => x.val \in Values)
  BY <1>2 DEF RowsFit
<1>7. ASSUME NEW x \in R2, NEW y \in R2, x.id = y.id PROVE x = y
  <2>1. PICK a \in R : /\ x.id = a.id /\ x.kind = a.kind /\ x.owner = a.owner /\ x \in RowRecord
                       /\ x.val = IF a.id = id THEN v ELSE a.val
    BY <1>2
  <2>2. PICK b \in R : /\ y.id = b.id /\ y.kind = b.kind /\ y.owner = b.owner /\ y \in RowRecord
                       /\ y.val = IF b.id = id THEN v ELSE b.val
    BY <1>2
  <2>3. a = b
    BY <1>7, <2>1, <2>2 DEF RowsFit
  <2> QED BY <2>1, <2>2, <2>3 DEF RowRecord
<1>8. ASSUME NEW x \in R2, NEW y \in R2, y.owner = x.id PROVE ChildOf(y, x)
  <2>1. PICK a \in R : x.id = a.id /\ x.kind = a.kind
    BY <1>2
  <2>2. PICK b \in R : y.id = b.id /\ y.kind = b.kind /\ y.owner = b.owner
    BY <1>2
  <2>3. ChildOf(b, a)
    BY <1>8, <2>1, <2>2 DEF RowsFit
  <2> QED BY <2>1, <2>2, <2>3 DEF ChildOf
<1> QED BY <1>6, <1>7, <1>8 DEF RowsFit, R2

\* The rows R2 after R, of which u ids had been given out: a row that is not new is of the kind it
\* was, and a category stays where it is.
Follows(R, R2, u) ==
    \A x \in R2 : \/ x.id > u
                  \/ \E y \in R : /\ y.id = x.id /\ y.kind = x.kind
                                  /\ x.kind \in Cats => y.owner = x.owner

LEMMA FewerFollow == ASSUME NEW R, NEW R2 \in SUBSET R, NEW u PROVE Follows(R, R2, u)
BY DEF Follows

LEMMA AttachedFollow ==
    ASSUME NEW R, NEW u \in Nat, NEW p, RowsFit(R, u, p), NEW o, NEW k, NEW v, k \notin Cats
    PROVE  Follows(R, Attaches(R, o, k, u + 1, v), u)
<1>1. ASSUME NEW x \in Attaches(R, o, k, u + 1, v)
      PROVE  \/ x.id > u
             \/ \E y \in R : y.id = x.id /\ y.kind = x.kind /\ (x.kind \in Cats => y.owner = x.owner)
  BY AttachedIs DEF Row
<1> QED BY <1>1 DEF Follows

LEMMA AddedFollow ==
    ASSUME NEW R, NEW u \in Nat, NEW o, NEW k, NEW v
    PROVE  Follows(R, Adds(R, o, k, u + 1, v), u)
BY DEF Follows, Adds, Row

LEMMA ChangedFollow ==
    ASSUME NEW R, NEW u \in Nat, NEW p, RowsFit(R, u, p), NEW id, NEW v \in Values
    PROVE  Follows(R, Changes(R, id, v), u)
<1>1. ASSUME NEW x \in Changes(R, id, v)
      PROVE  \E y \in R : y.id = x.id /\ y.kind = x.kind /\ (x.kind \in Cats => y.owner = x.owner)
  BY ChangedIs
<1> QED BY <1>1 DEF Follows

LEMMA FitsStill ==
    ASSUME NEW R, NEW R2, NEW u \in Nat, NEW u2 \in Nat, u <= u2, NEW q, SaveFits(q, R, u),
           Follows(R, R2, u)
    PROVE  SaveFits(q, R2, u2)
<1>1. \A i \in 0..u : i \in 0..u2 /\ ~(i > u)
  OBVIOUS
<1>2. {q.period, q.emissions, q.scope1, q.scope3} \subseteq 0..u /\ \A k \in q.todo \cap Cats : q.match[k] \in 0..u
  BY DEF SaveFits
<1>3. \A x \in R2 : x.id > u \/ \E y \in R : y.id = x.id /\ y.kind = x.kind
  BY DEF Follows
<1>4. \A x \in R2 : /\ x.id = q.emissions => x.kind = "emissions"
                    /\ x.id = q.scope1 => x.kind = "scope1"
                    /\ x.id = q.scope3 => x.kind = "scope3"
                    /\ \A k \in q.todo \cap Cats : x.id = q.match[k] => x.kind = k
  BY <1>1, <1>2, <1>3 DEF SaveFits
<1> QED BY <1>1, <1>4 DEF SaveFits

LEMMA OneEachStill ==
    ASSUME NEW R, NEW R2, NEW u \in Nat, NEW u2, NEW p, NEW p2, NEW d, NEW d2, RowsFit(R, u, p),
           RowsFit(R2, u2, p2), Follows(R, R2, u), OneEach(R, d), d \subseteq d2,
           \A x \in R2 : x.id > u => x.kind \notin Cats
    PROVE  OneEach(R2, d2)
BY DEF RowsFit, Follows, OneEach

LEMMA KnowsStill ==
    ASSUME NEW R, NEW R2, NEW u, NEW q, NEW d, NEW d2, Follows(R, R2, u), Knows(q, R, d),
           d \subseteq d2, \A x \in R2 : x.id > u => x.kind \notin (q.todo \cap Cats) \ d2
    PROVE  Knows(q, R2, d2)
BY DEF Follows, Knows

\* The row id of R is there in R2 with its value, if it is there.
SameRow(R, R2, id) ==
    /\ \A x \in R2 : x.id = id => \E y \in R : y.id = id /\ y.val = x.val
    /\ \A y \in R : y.id = id => \E x \in R2 : x.id = id

LEMMA TellsStill ==
    ASSUME NEW R, NEW R2, NEW id, NEW v, NEW prev, Tells(R, id, v, prev), SameRow(R, R2, id)
    PROVE  Tells(R2, id, v, prev)
BY DEF Tells, SameRow

LEMMA HistoryStays ==
    ASSUME NEW R, NEW R2, NEW u, NEW M, NEW M2 \in SUBSET M, NEW P, NEW rc, HistoryIn(R, M, P, rc),
           \A x \in R2 : x.kind \in Points => \E y \in R : y.id = x.id /\ y.kind = x.kind,
           \A m \in M : m \notin M2 => \A x \in R2 : x.id # m.row
    PROVE  HistoryIn(R2, M2, P, rc)
<1>1. \A x \in R2 : History(M2, x.id) = History(M, x.id)
  BY DEF History
<1> QED BY <1>1 DEF HistoryIn

LEMMA HistoryStarts ==
    ASSUME NEW R, NEW R2, NEW u \in Nat, u + 1 \in Ids, NEW M, NEW P, NEW rc, HistoryIn(R, M, P, rc),
           Unmade(M, P, u), NEW at, NEW prev, NEW alone \in BOOLEAN, alone => prev = None,
           NEW rc2, rc2 = IF alone THEN rc ELSE rc \cup {u + 1},
           \A x \in R : x.id \in 1..u,
           \A x \in R2 : x.id = u + 1 \/ \E y \in R : y.id = x.id /\ y.kind = x.kind
    PROVE  /\ HistoryIn(R2, M \cup {[at |-> at, row |-> u + 1, prev |-> prev]}, P, rc2)
           /\ Unmade(M \cup {[at |-> at, row |-> u + 1, prev |-> prev]}, P, u + 1)
<1> DEFINE m2 == [at |-> at, row |-> u + 1, prev |-> prev]
<1>1. m2.row = u + 1 /\ m2.prev = prev
  OBVIOUS
<1> HIDE DEF m2
<1>2. \A x \in R2 : x.id # u + 1 => History(M \cup {m2}, x.id) = History(M, x.id)
  BY <1>1 DEF History
<1>3. History(M, u + 1) = {} /\ P[u + 1] = {}
  BY DEF History, Unmade
<1>4. alone => History(M \cup {m2}, u + 1) = {}
  BY <1>1, <1>3 DEF History, Unmade
<1>5. HistoryIn(R2, M \cup {m2}, P, rc2)
  BY <1>2, <1>3, <1>4 DEF HistoryIn
<1>6. Unmade(M \cup {m2}, P, u + 1)
  <2>1. \A m \in M \cup {m2} : m.row \in 1..(u + 1)
    BY <1>1 DEF Unmade
  <2>2. \A i \in Ids : i > u + 1 => P[i] = {}
    BY PeriodAssumption DEF Unmade, Ids
  <2> QED BY <2>1, <2>2 DEF Unmade
<1> QED BY <1>5, <1>6 DEF m2

\* The past P2 after P, when the row id has had the value old until it was given v.
Outlived(P2, P, id, at, old, v) ==
    P2 = IF old = v THEN P ELSE [P EXCEPT ![id] = @ \cup {[at |-> at, val |-> old]}]

LEMMA HistoryGrows ==
    ASSUME NEW R, NEW R2, NEW u \in Nat, NEW M, NEW P, NEW rc, HistoryIn(R, M, P, rc),
           Unmade(M, P, u), u \in 0..MaxIds, NEW id \in 1..u, NEW at, NEW prev, NEW alone \in BOOLEAN,
           NEW old, old # None, NEW v, alone => prev = IF old # v THEN old ELSE None,
           NEW rc2, rc2 = IF alone THEN rc ELSE rc \cup {id},
           NEW P2, Outlived(P2, P, id, at, old, v),
           \A x \in R : x.id \in 1..u,
           \A x \in R2 : \E y \in R : y.id = x.id /\ y.kind = x.kind
    PROVE  /\ HistoryIn(R2, M \cup {[at |-> at, row |-> id, prev |-> prev]}, P2, rc2)
           /\ Unmade(M \cup {[at |-> at, row |-> id, prev |-> prev]}, P2, u)
<1> DEFINE m2 == [at |-> at, row |-> id, prev |-> prev]
           e == [at |-> at, val |-> old]
<1>1. m2.row = id /\ m2.prev = prev /\ m2.at = at
  OBVIOUS
<1>2. prev = old => [at |-> m2.at, val |-> m2.prev] = e
  OBVIOUS
<1> HIDE DEF m2, e
<1>3. \A i : i # id => History(M \cup {m2}, i) = History(M, i)
  BY <1>1 DEF History
<1>4. id \in Ids /\ P = [i \in Ids |-> P[i]]
  BY PeriodAssumption DEF Unmade, Ids
<1>5. P2 = [i \in Ids |-> P2[i]] /\ (\A i \in Ids : i # id => P2[i] = P[i])
      /\ P2[id] = (IF old = v THEN P[id] ELSE P[id] \cup {e})
  BY <1>4 DEF e, Outlived
<1>6. alone /\ old = v => History(M \cup {m2}, id) = History(M, id)
  BY <1>1 DEF History
<1>7. alone /\ old # v => History(M \cup {m2}, id) = History(M, id) \cup {e}
  BY <1>1, <1>2 DEF History
<1>8. ASSUME NEW x \in R2, x.kind \in Points, x.id \notin rc2
      PROVE  History(M \cup {m2}, x.id) = P2[x.id]
  <2>1. PICK y \in R : y.id = x.id /\ y.kind = x.kind
    OBVIOUS
  <2>2. x.id \notin rc /\ History(M, x.id) = P[x.id] /\ x.id \in Ids /\ (x.id = id => alone)
    BY <2>1, <1>8, <1>4, PeriodAssumption DEF HistoryIn, Ids
  <2>3. CASE x.id # id
    BY <2>2, <2>3, <1>3, <1>5
  <2>4. CASE x.id = id
    BY <2>2, <2>4, <1>5, <1>6, <1>7
  <2> QED BY <2>3, <2>4
<1>9. Unmade(M \cup {m2}, P2, u)
  <2>1. \A m \in M \cup {m2} : m.row \in 1..u
    BY <1>1 DEF Unmade
  <2>2. \A i \in Ids : i > u => P2[i] = {}
    BY <1>5 DEF Unmade
  <2> QED BY <2>1, <2>2, <1>5 DEF Unmade
<1> QED BY <1>8, <1>9 DEF HistoryIn, m2

-----------------------------------------------------------------------------
(***************************************************************************)
(* A step of one save.                                                     *)
(***************************************************************************)

\* The save s moves on or ends, as itself, and no other does.
Moves(s) ==
    /\ save' = [t \in Savers |-> save'[t]] /\ \A t \in Savers \ {s} : save'[t] = save[t]
    /\ \/ save'[s] = Idle
       \/ save'[s] \in SaveRecord /\ save'[s].body = save[s].body /\ save'[s].alone = save[s].alone

\* What the save makes of the tables does not upset what any save knows.
Goes(s) ==
    /\ used' \in 0..MaxIds /\ used <= used' /\ period' \in 0..used'
    /\ RowsFit(rows', used', period') /\ Unmade(metadata', past', used')
    /\ Follows(rows, rows', used) /\ OneEach(rows', doubled)
    /\ HistoryIn(rows', metadata', past', raced')
    /\ \A x \in rows' : x.id > used /\ x.kind \in Cats => x.kind \in DOMAIN CatsOf(save[s].body)
    /\ save'[s] # Idle => /\ SaveFits(save'[s], rows', used')
                          /\ Knows(save'[s], rows', doubled)
                          /\ save[s].alone => Remembers(save'[s], rows')

LEMMA BusyAre ==
    ASSUME Shapes
    PROVE  /\ \A s \in Savers : s \in Busy <=> save[s] # Idle
           /\ \A s \in Busy : s \in Savers /\ save[s] \in SaveRecord /\ SaveFits(save[s], rows, used)
<1>1. \A q \in SaveRecord : q.pc # "idle"
  BY DEF SaveRecord
<1> QED BY <1>1 DEF Shapes, Busy, Idle

LEMMA SaveMoves ==
    ASSUME PeriodInv, NEW s \in Busy, Moves(s), Goes(s), UNCHANGED doubled
    PROVE  PeriodInv'
<1> USE DEF PeriodInv
<1>1. /\ \A t \in Savers : t \in Busy <=> save[t] # Idle
      /\ \A t \in Busy : t \in Savers /\ save[t] \in SaveRecord /\ SaveFits(save[t], rows, used)
  BY BusyAre
<1>2. used \in Nat /\ used' \in Nat /\ used <= used'
  BY PeriodAssumption DEF Goes, Shapes
<1>3. ASSUME NEW t \in Savers
      PROVE  save'[t] = Idle \/ (save'[t] \in SaveRecord /\ SaveFits(save'[t], rows', used'))
  <2>1. CASE t = s
    BY <2>1 DEF Moves, Goes
  <2>2. CASE t # s /\ save[t] # Idle
    BY <2>2, <1>1, <1>2, FitsStill DEF Moves, Goes
  <2> QED BY <2>1, <2>2 DEF Moves
<1>4. Shapes'
  BY <1>3 DEF Goes, Moves, Shapes
<1>5. /\ Busy' \subseteq Busy
      /\ \A t \in Busy' : t \in Savers /\ save'[t].body = save[t].body /\ save'[t].alone = save[t].alone
  <2>1. \A q \in SaveRecord : q.pc # "idle"
    BY DEF SaveRecord
  <2>2. \A t \in Busy' : t \in Savers /\ save'[t] # Idle
    BY DEF Busy, Idle
  <2> QED BY <2>1, <2>2, <1>1 DEF Moves
<1>6. Lone'
  BY <1>5 DEF Lone
<1>7. Noted'
  BY <1>5 DEF Noted
<1>8. OneEach(rows', doubled') /\ HistoryIn(rows', metadata', past', raced')
  BY DEF Goes
<1>9. ASSUME NEW t \in Busy' PROVE Knows(save'[t], rows', doubled')
  <2>1. CASE t = s
    BY <2>1, <1>5 DEF Goes, Busy, Idle
  <2>2. CASE t # s
    <3>1. t \in Busy /\ save'[t] = save[t] /\ Knows(save[t], rows, doubled)
      BY <2>2, <1>5 DEF Moves
    <3>2. DOMAIN CatsOf(save[s].body) \cap DOMAIN CatsOf(save[t].body) \subseteq doubled
      BY <3>1, <2>2 DEF Noted
    <3>3. \A k \in save[t].todo \cap Cats : k \in DOMAIN CatsOf(save[t].body)
      BY <3>1, <1>1 DEF SaveFits
    <3>4. \A x \in rows' : x.id > used => x.kind \notin (save[t].todo \cap Cats) \ doubled
      BY <3>2, <3>3 DEF Goes
    <3>5. Follows(rows, rows', used)
      BY DEF Goes
    <3> QED BY <3>1, <3>4, <3>5, KnowsStill
  <2> QED BY <2>1, <2>2
<1>10. ASSUME NEW t \in Busy', save'[t].alone PROVE Remembers(save'[t], rows')
  <2>1. t \in Busy /\ save[t].alone
    BY <1>5, <1>10
  <2>2. t = s
    BY <2>1 DEF Lone
  <2> QED BY <2>1, <2>2, <1>10 DEF Goes, Busy, Idle
<1> QED BY <1>4, <1>6, <1>7, <1>8, <1>9, <1>10

LEMMA SetIs ==
    ASSUME Shapes, NEW s \in Savers, NEW n, save' = [save EXCEPT ![s] = n]
    PROVE  /\ save' = [t \in Savers |-> save'[t]] /\ save'[s] = n
           /\ \A t \in Savers \ {s} : save'[t] = save[t]
BY DEF Shapes

\* The save n is q with fewer steps to take.
Narrows(n, q) ==
    /\ n.body = q.body /\ n.period = q.period /\ n.emissions = q.emissions /\ n.scope1 = q.scope1
    /\ n.scope3 = q.scope3 /\ n.match = q.match /\ n.prev = q.prev /\ n.prev1 = q.prev1
    /\ n.todo \subseteq q.todo /\ (n.pc = "points" \/ q.pc # "points")

LEMMA FewerSteps ==
    ASSUME NEW R, NEW u, NEW d, NEW q, NEW n, SaveFits(q, R, u), Narrows(n, q)
    PROVE  /\ SaveFits(n, R, u) /\ (Knows(q, R, d) => Knows(n, R, d))
           /\ (Remembers(q, R) => Remembers(n, R))
<1>1. SaveFits(n, R, u)
  BY DEF SaveFits, Narrows
<1>2. ASSUME Knows(q, R, d) PROVE Knows(n, R, d)
  BY <1>2 DEF Knows, Narrows
<1>3. ASSUME Remembers(q, R) PROVE Remembers(n, R)
  BY <1>3 DEF Remembers, Narrows
<1> QED BY <1>1, <1>2, <1>3

LEMMA QuietGoes ==
    ASSUME PeriodInv, NEW s \in Busy, Moves(s), Quiet,
           save'[s] # Idle => /\ SaveFits(save'[s], rows, used)
                              /\ Knows(save'[s], rows, doubled)
                              /\ save[s].alone => Remembers(save'[s], rows)
    PROVE  PeriodInv'
<1>1. UNCHANGED <<rows, used, period, metadata, past, raced, doubled>>
  BY DEF Quiet
<1>2. \A x \in rows' : ~(x.id > used)
  BY <1>1, PeriodAssumption DEF PeriodInv, Shapes, RowsFit
<1>3. Follows(rows, rows', used)
  BY <1>1, FewerFollow
<1>4. used' \in 0..MaxIds /\ used <= used' /\ period' \in 0..used'
      /\ RowsFit(rows', used', period') /\ Unmade(metadata', past', used')
  BY <1>1, PeriodAssumption DEF PeriodInv, Shapes
<1>5. OneEach(rows', doubled) /\ HistoryIn(rows', metadata', past', raced')
  BY <1>1 DEF PeriodInv
<1>6. Goes(s)
  BY <1>1, <1>2, <1>3, <1>4, <1>5 DEF Goes
<1> QED BY <1>1, <1>6, SaveMoves

LEMMA FailsKeeps == ASSUME PeriodInv, NEW s \in Busy, Fails(s) PROVE PeriodInv'
<1>1. s \in Savers /\ Shapes
  BY DEF Busy, PeriodInv
<1>2. save' = [save EXCEPT ![s] = Idle] /\ Quiet
  BY DEF Fails, Set
<1>3. Moves(s) /\ save'[s] = Idle
  BY <1>1, <1>2, SetIs DEF Moves
<1> QED BY <1>2, <1>3, QuietGoes

LEMMA ListedIs ==
    ASSUME PeriodAssumption, Shapes, NEW S \in SUBSET (1..used)
    PROVE  /\ SetToSeq(S) \in Seq(Nat)
           /\ \A i \in S : \E j \in DOMAIN SetToSeq(S) : SetToSeq(S)[j] = i
<1> DEFINE n == Cardinality(S)
<1>1. IsFiniteSet(S)
  <2>1. used \in Int /\ 1 \in Int
    BY DEF Shapes
  <2>2. IsFiniteSet(1..used)
    BY <2>1, FS_Interval
  <2> QED BY <2>2, FS_Subset
<1>2. n \in Nat /\ \E f : f \in [1..n -> S] /\ IsInjective(f)
  BY <1>1, FS_CardinalityType DEF ExistsBijection, Bijection, Surjection, Injection, IsInjective
<1>3. SetToSeq(S) \in [1..n -> S] /\ IsInjective(SetToSeq(S))
  BY <1>2 DEF SetToSeq
<1>4. S \subseteq Nat
  OBVIOUS
<1>5. SetToSeq(S) \in Seq(Nat)
  <2>1. SetToSeq(S) \in [1..n -> Nat]
    BY <1>3, <1>4
  <2> HIDE DEF n
  <2>2. Seq(Nat) = UNION {[1..m -> Nat] : m \in Nat}
    BY SeqDef
  <2> QED BY <1>2, <2>1, <2>2
<1>6. SetToSeq(S) \in Injection(1..n, S)
  BY <1>3 DEF Injection, IsInjective
<1>7. IsFiniteSet(1..n) /\ Cardinality(1..n) = n
  BY <1>2, FS_Interval
<1>8. SetToSeq(S) \in Surjection(1..n, S)
  BY <1>1, <1>6, <1>7, FS_Injection
<1> QED BY <1>3, <1>5, <1>8 DEF Surjection

LEMMA IdBelowIs ==
    ASSUME Shapes, NEW o, NEW k
    PROVE  /\ IdBelow(o, k) \in 0..used
           /\ \A x \in rows : x.id = IdBelow(o, k) => x.kind = k /\ x.owner = o /\ o # 0
           /\ (\A x \in rows : x.id # IdBelow(o, k)) => IdBelow(o, k) = 0
<1>1. CASE o = 0 \/ Below(o, k) = {}
  BY <1>1 DEF IdBelow, Shapes, RowsFit
<1>2. CASE o # 0 /\ Below(o, k) # {}
  <2>1. PICK x : x = CHOOSE y \in Below(o, k) : TRUE
    OBVIOUS
  <2>2. x \in Below(o, k) /\ IdBelow(o, k) = x.id
    BY <1>2, <2>1 DEF IdBelow
  <2> QED BY <1>2, <2>2 DEF Below, Shapes, RowsFit
<1> QED BY <1>1, <1>2

LEMMA ListAllKeeps == ASSUME PeriodInv, NEW s \in Savers, ListAll(s) PROVE PeriodInv'
<1> DEFINE cats == {x.id : x \in UNION {Below(Scope3, k) : k \in Cats}}
           one(id) == IF id = 0 THEN <<>> ELSE <<id>>
           l == (IF Scope3 = 0 THEN <<>> ELSE SetToSeq(cats) \o <<Scope3>>) \o one(IdBelow(Emissions, "scope1"))
<1>1. save[s].pc = "list" /\ save' = [save EXCEPT ![s] = [save[s] EXCEPT !.pc = "purge", !.purge = l]] /\ Quiet
  BY DEF ListAll, At, Set
<1>2. Shapes /\ s \in Busy /\ save[s] \in SaveRecord /\ SaveFits(save[s], rows, used)
  BY <1>1, BusyAre DEF PeriodInv, Busy
<1>3. cats \in SUBSET (1..used)
  BY <1>2 DEF Below, Shapes, RowsFit
<1>4. SetToSeq(cats) \in Seq(Nat)
  BY <1>2, <1>3, ListedIs, PeriodAssumption
<1>5. Scope3 \in Nat /\ IdBelow(Emissions, "scope1") \in Nat
  BY <1>2, IdBelowIs DEF Scope3, Shapes
<1> HIDE DEF cats
<1>6. l \in Seq(Nat)
  BY <1>4, <1>5
<1> HIDE DEF l
<1>7. Moves(s) /\ save'[s] = [save[s] EXCEPT !.pc = "purge", !.purge = l]
  <2>1. [save[s] EXCEPT !.pc = "purge", !.purge = l] \in SaveRecord
    BY <1>2, <1>6 DEF SaveRecord
  <2>2. save'[s] = [save[s] EXCEPT !.pc = "purge", !.purge = l]
    BY <1>1, <1>2, SetIs
  <2>3. save'[s].body = save[s].body /\ save'[s].alone = save[s].alone
    BY <1>2, <2>2 DEF SaveRecord
  <2> QED BY <1>1, <1>2, <2>1, <2>2, <2>3, SetIs DEF Moves
<1>8. SaveFits(save'[s], rows, used) /\ (Knows(save[s], rows, doubled) => Knows(save'[s], rows, doubled))
      /\ (Remembers(save[s], rows) => Remembers(save'[s], rows))
  <2>1. Narrows(save'[s], save[s])
    BY <1>1, <1>2, <1>7 DEF SaveRecord, Narrows
  <2> QED BY <2>1, <1>2, FewerSteps
<1> QED BY <1>1, <1>2, <1>7, <1>8, QuietGoes DEF PeriodInv

LEMMA PurgedKeeps == ASSUME PeriodInv, NEW s \in Savers, Purged(s) PROVE PeriodInv'
<1>1. save[s].pc = "purge" /\ save' = [save EXCEPT ![s] = [save[s] EXCEPT !.pc = "period"]] /\ Quiet
  BY DEF Purged, At, Set
<1>2. Shapes /\ s \in Busy /\ save[s] \in SaveRecord /\ SaveFits(save[s], rows, used)
  BY <1>1, BusyAre DEF PeriodInv, Busy
<1>3. save'[s] = [save[s] EXCEPT !.pc = "period"]
  BY <1>1, <1>2, SetIs
<1>4. save'[s] \in SaveRecord /\ save'[s].body = save[s].body /\ save'[s].alone = save[s].alone
  BY <1>2, <1>3 DEF SaveRecord
<1>5. Moves(s)
  BY <1>1, <1>2, <1>4, SetIs DEF Moves
<1>6. SaveFits(save'[s], rows, used) /\ (Knows(save[s], rows, doubled) => Knows(save'[s], rows, doubled))
      /\ (Remembers(save[s], rows) => Remembers(save'[s], rows))
  <2>1. Narrows(save'[s], save[s])
    BY <1>1, <1>2, <1>3 DEF SaveRecord, Narrows
  <2> QED BY <2>1, <1>2, FewerSteps
<1> QED BY <1>1, <1>2, <1>5, <1>6, QuietGoes DEF PeriodInv

LEMMA LoseStepKeeps == ASSUME PeriodInv, NEW s \in Savers, LoseStep(s) PROVE PeriodInv'
<1>1. PICK step \in save[s].todo :
         /\ save[s].pc = "points" /\ Quiet
         /\ save' = [save EXCEPT ![s] = [Next1(s, step, {}) EXCEPT !.lost = TRUE, !.before = Nothing]]
  BY DEF LoseStep, At, Set
<1>2. Shapes /\ s \in Busy /\ save[s] \in SaveRecord /\ SaveFits(save[s], rows, used)
  BY <1>1, BusyAre DEF PeriodInv, Busy
<1>3. save'[s] = [save[s] EXCEPT !.todo = (@ \ {step}) \cup {}, !.lost = TRUE, !.before = Nothing]
  BY <1>1, <1>2, SetIs DEF Next1, SaveRecord
<1>4. Nothing \in Views
  BY DEF Nothing, Views
<1>5. save'[s] \in SaveRecord /\ save'[s].body = save[s].body /\ save'[s].alone = save[s].alone
  BY <1>2, <1>3, <1>4 DEF SaveRecord
<1>6. Moves(s)
  BY <1>1, <1>2, <1>5, SetIs DEF Moves
<1>7. SaveFits(save'[s], rows, used) /\ (Knows(save[s], rows, doubled) => Knows(save'[s], rows, doubled))
      /\ (Remembers(save[s], rows) => Remembers(save'[s], rows))
  <2>1. Narrows(save'[s], save[s])
    <3>1. save'[s].todo = save[s].todo \ {step} /\ save'[s].pc = save[s].pc
      BY <1>2, <1>3 DEF SaveRecord
    <3>2. /\ save'[s].body = save[s].body /\ save'[s].period = save[s].period /\ save'[s].emissions = save[s].emissions
          /\ save'[s].scope1 = save[s].scope1 /\ save'[s].scope3 = save[s].scope3
          /\ save'[s].match = save[s].match /\ save'[s].prev = save[s].prev /\ save'[s].prev1 = save[s].prev1
      BY <1>2, <1>3 DEF SaveRecord
    <3> QED BY <1>1, <3>1, <3>2 DEF Narrows
  <2> QED BY <2>1, <1>2, FewerSteps
<1> QED BY <1>1, <1>2, <1>6, <1>7, QuietGoes DEF PeriodInv

LEMMA AnswerKeeps == ASSUME PeriodInv, NEW s \in Savers, Answer(s) PROVE PeriodInv'
BY FailsKeeps DEF Answer, Fails, At, Busy

LEMMA EndsEarlyKeeps == ASSUME PeriodInv, NEW s \in Savers, EndsEarly(s) PROVE PeriodInv'
BY FailsKeeps DEF EndsEarly

LEMMA DeletionIs ==
    ASSUME PeriodInv, NEW ids, Delete(ids), UNCHANGED <<used, past, raced, doubled>>,
           UNCHANGED period \/ period' = 0
    PROVE  /\ rows' \in SUBSET rows
           /\ used' \in 0..MaxIds /\ used <= used' /\ period' \in 0..used'
           /\ RowsFit(rows', used', period') /\ Unmade(metadata', past', used')
           /\ Follows(rows, rows', used) /\ OneEach(rows', doubled)
           /\ HistoryIn(rows', metadata', past', raced')
           /\ \A x \in rows' : ~(x.id > used)
<1>1. rows' = {x \in rows : x.id \notin Cascade(ids)} /\ metadata' = {m \in metadata : m.row \notin Cascade(ids)}
  BY DEF Delete
<1>2. rows' \in SUBSET rows /\ metadata' \in SUBSET metadata
      /\ \A m \in metadata : m \notin metadata' => \A x \in rows' : x.id # m.row
  BY <1>1
<1>3. used \in Nat /\ used' = used /\ past' = past /\ raced' = raced /\ (period' = period \/ period' = 0)
      /\ Shapes /\ RowsFit(rows, used, period) /\ used \in 0..MaxIds /\ period \in 0..used
  BY PeriodAssumption DEF PeriodInv, Shapes
<1>4. RowsFit(rows', used, period')
  BY <1>2, <1>3, FewerRows
<1>5. Unmade(metadata', past, used)
  BY <1>2 DEF PeriodInv, Shapes, Unmade
<1>6. Follows(rows, rows', used)
  BY <1>2, FewerFollow
<1>7. OneEach(rows', doubled)
  BY <1>2 DEF PeriodInv, OneEach
<1>8. HistoryIn(rows', metadata', past, raced)
  <2>1. \A x \in rows' : x.kind \in Points => \E y \in rows : y.id = x.id /\ y.kind = x.kind
    BY <1>2
  <2>2. HistoryIn(rows, metadata, past, raced)
    BY DEF PeriodInv
  <2> QED BY <1>2, <2>1, <2>2, HistoryStays
<1>9. \A x \in rows' : ~(x.id > used)
  BY <1>2, <1>3 DEF RowsFit
<1>10. used' \in 0..MaxIds /\ used <= used' /\ period' \in 0..used'
  BY <1>3
<1> QED BY <1>2, <1>3, <1>4, <1>5, <1>6, <1>7, <1>8, <1>9, <1>10

\* A save that deletes rows and has nothing left to write that it remembers of those.
LEMMA DeletionGoes ==
    ASSUME PeriodInv, NEW s \in Busy, Moves(s), NEW ids, Delete(ids),
           UNCHANGED <<used, past, raced, doubled, period>>, Narrows(save'[s], save[s]),
           save[s].alone => Remembers(save'[s], rows')
    PROVE  PeriodInv'
<1>1. Shapes /\ SaveFits(save[s], rows, used) /\ Knows(save[s], rows, doubled) /\ used \in Nat
  BY BusyAre, PeriodAssumption DEF PeriodInv, Shapes
<1>2. /\ rows' \in SUBSET rows
      /\ used' \in 0..MaxIds /\ used <= used' /\ period' \in 0..used'
      /\ RowsFit(rows', used', period') /\ Unmade(metadata', past', used')
      /\ Follows(rows, rows', used) /\ OneEach(rows', doubled)
      /\ HistoryIn(rows', metadata', past', raced')
      /\ \A x \in rows' : ~(x.id > used)
  BY DeletionIs
<1>3. SaveFits(save[s], rows', used') /\ Knows(save[s], rows', doubled)
  <2>1. used' = used
    OBVIOUS
  <2>2. SaveFits(save[s], rows', used)
    BY <1>1, <1>2, FitsStill
  <2>3. Knows(save[s], rows', doubled)
    BY <1>1, <1>2, KnowsStill
  <2> QED BY <2>1, <2>2, <2>3
<1>4. SaveFits(save'[s], rows', used') /\ Knows(save'[s], rows', doubled)
  BY <1>3, FewerSteps
<1>5. Goes(s)
  BY <1>2, <1>4 DEF Goes
<1> QED BY <1>5, SaveMoves

LEMMA PurgeOneKeeps == ASSUME PeriodInv, NEW s \in Savers, PurgeOne(s) PROVE PeriodInv'
<1>1. save[s].pc = "purge" /\ save[s].purge # <<>>
  BY DEF PurgeOne, At
<1>2. Shapes /\ s \in Busy /\ save[s] \in SaveRecord /\ SaveFits(save[s], rows, used)
  BY <1>1, BusyAre DEF PeriodInv, Busy
<1>3. CASE Fails(s)
  BY <1>2, <1>3, FailsKeeps
<1>4. CASE /\ Delete({Head(save[s].purge)})
           /\ save' = [save EXCEPT ![s] = [save[s] EXCEPT !.purge = Tail(@)]]
           /\ UNCHANGED <<period, used, saves, script, past, raced, doubled>>
  <2>1. save'[s] = [save[s] EXCEPT !.purge = Tail(@)]
    BY <1>2, <1>4, SetIs
  <2>2. Tail(save[s].purge) \in Seq(Nat)
    BY <1>1, <1>2 DEF SaveRecord
  <2>3. save'[s] \in SaveRecord /\ save'[s].body = save[s].body /\ save'[s].alone = save[s].alone
        /\ save'[s].todo = save[s].todo
    BY <1>2, <2>1, <2>2 DEF SaveRecord
  <2>4. Moves(s)
    BY <1>2, <1>4, <2>3, SetIs DEF Moves
  <2>5. Narrows(save'[s], save[s])
    BY <1>1, <1>2, <2>1 DEF SaveRecord, Narrows
  <2>6. save[s].todo = {}
    BY <1>1, <1>2 DEF SaveFits
  <2>7. Remembers(save'[s], rows')
    BY <2>3, <2>6 DEF Remembers
  <2> QED BY <1>2, <1>4, <2>4, <2>5, <2>7, DeletionGoes
<1> QED BY <1>3, <1>4 DEF PurgeOne, Set

LEMMA Scope1DeletesKeeps == ASSUME PeriodInv, NEW s \in Savers, Scope1Deletes(s) PROVE PeriodInv'
<1>1. /\ save[s].pc = "points" /\ "read1" \in save[s].todo /\ save[s].body.scope1 = "null"
      /\ Delete({save[s].scope1}) /\ save' = [save EXCEPT ![s] = Next1(s, "read1", {})]
      /\ UNCHANGED <<period, used, saves, script, past, raced, doubled>>
      /\ \E x \in rows : x.id = save[s].scope1
  BY DEF Scope1Deletes, At, Set, Does, Drops, Exists
<1>2. Shapes /\ s \in Busy /\ save[s] \in SaveRecord /\ SaveFits(save[s], rows, used)
  BY <1>1, BusyAre DEF PeriodInv, Busy
<1>3. save'[s] = [save[s] EXCEPT !.todo = (@ \ {"read1"}) \cup {}]
  BY <1>1, <1>2, SetIs DEF Next1
<1>4. save'[s] \in SaveRecord /\ save'[s].body = save[s].body /\ save'[s].alone = save[s].alone
      /\ save'[s].todo = save[s].todo \ {"read1"} /\ save'[s].match = save[s].match
      /\ save'[s].prev = save[s].prev
  BY <1>2, <1>3 DEF SaveRecord
<1>5. Moves(s)
  BY <1>1, <1>2, <1>4, SetIs DEF Moves
<1>6. Narrows(save'[s], save[s])
  BY <1>1, <1>2, <1>3 DEF SaveRecord, Narrows
<1>7. "write1" \notin save'[s].todo
  BY <1>1, <1>2, <1>4 DEF SaveFits
<1>8. Cascade({save[s].scope1}) = {save[s].scope1}
  <2>1. \A y \in rows : y.owner # save[s].scope1
    BY <1>1, <1>2, PeriodAssumption DEF SaveFits, Shapes, RowsFit, ChildOf
  <2> QED BY <2>1 DEF Cascade, WithChildren
<1>9. \A k \in save'[s].todo \cap Cats : SameRow(rows, rows', save[s].match[k])
  <2>1. rows' = {x \in rows : x.id # save[s].scope1}
    BY <1>1, <1>8 DEF Delete
  <2>2. \A k \in save[s].todo \cap Cats : \A x \in rows : x.id = save[s].match[k] => x.id # save[s].scope1
    BY <1>2, PeriodAssumption DEF SaveFits
  <2> QED BY <2>1, <2>2, <1>4 DEF SameRow
<1>10. ASSUME save[s].alone PROVE Remembers(save'[s], rows')
  <2>1. Remembers(save[s], rows)
    BY <1>2, <1>10 DEF PeriodInv
  <2>2. \A k \in save'[s].todo \cap Cats :
           Tells(rows, save[s].match[k], CatsOf(save[s].body)[k], save[s].prev[k])
    BY <2>1, <1>4 DEF Remembers
  <2>3. \A k \in save'[s].todo \cap Cats :
           Tells(rows', save[s].match[k], CatsOf(save[s].body)[k], save[s].prev[k])
    BY <2>2, <1>9, TellsStill
  <2> QED BY <2>3, <1>4, <1>7 DEF Remembers
<1> QED BY <1>1, <1>2, <1>5, <1>6, <1>10, DeletionGoes

LEMMA UpsertPeriodKeeps == ASSUME PeriodInv, NEW s \in Savers, UpsertPeriod(s) PROVE PeriodInv'
<1>1. /\ save[s].pc = "period" /\ (period = 0 => used < MaxIds)
      /\ period' = IF period = 0 THEN used + 1 ELSE period
      /\ used' = IF period = 0 THEN used + 1 ELSE used
      /\ save' = [save EXCEPT ![s] = [save[s] EXCEPT !.pc = "emissions", !.period = period', !.emissions = Emissions]]
      /\ UNCHANGED <<rows, metadata, saves, script, past, raced, doubled>>
  BY DEF UpsertPeriod, At, Set
<1>2. Shapes /\ s \in Busy /\ save[s] \in SaveRecord /\ SaveFits(save[s], rows, used) /\ used \in 0..MaxIds
      /\ RowsFit(rows, used, period) /\ period \in 0..used
  BY <1>1, BusyAre DEF PeriodInv, Busy, Shapes
<1>3. /\ used' \in 0..MaxIds /\ used <= used' /\ period' \in 0..used'
      /\ RowsFit(rows', used', period')
  BY <1>1, <1>2, PeriodAssumption, PeriodMade
<1>4. Emissions \in 0..used /\ \A x \in rows : x.id = Emissions => x.kind = "emissions"
  BY <1>2, IdBelowIs DEF Emissions
<1>5. save'[s] = [save[s] EXCEPT !.pc = "emissions", !.period = period', !.emissions = Emissions]
  BY <1>1, <1>2, SetIs
<1>6. /\ save'[s] \in SaveRecord /\ save'[s].body = save[s].body /\ save'[s].alone = save[s].alone
      /\ save'[s].pc = "emissions" /\ save'[s].period = period' /\ save'[s].emissions = Emissions
      /\ save'[s].todo = save[s].todo /\ save'[s].scope1 = save[s].scope1 /\ save'[s].scope3 = save[s].scope3
  <2>1. Emissions \in Nat /\ period' \in Nat
    BY <1>3, <1>4
  <2> QED BY <1>2, <1>5, <2>1 DEF SaveRecord
<1>7. Moves(s)
  BY <1>1, <1>2, <1>6, SetIs DEF Moves
<1>8. save[s].todo = {} /\ save[s].scope1 = 0 /\ save[s].scope3 = 0
  BY <1>1, <1>2 DEF SaveFits
<1>9. SaveFits(save'[s], rows', used') /\ Knows(save'[s], rows', doubled) /\ Remembers(save'[s], rows')
  <2>1. \A x \in rows' : x.id # 0
    BY <1>1, <1>2 DEF RowsFit
  <2>2. {period', Emissions, 0} \subseteq 0..used'
    BY <1>3, <1>4, <1>2
  <2> QED BY <1>1, <1>4, <1>6, <1>8, <2>1, <2>2 DEF SaveFits, Knows, Remembers
<1>10. Follows(rows, rows', used)
  BY <1>1, FewerFollow
<1>11. \A x \in rows' : ~(x.id > used)
  BY <1>1, <1>2 DEF RowsFit
<1>12. Unmade(metadata', past', used')
  <2>1. Unmade(metadata, past, used) /\ used' \in Nat /\ used \in Nat
    BY <1>2, <1>3, PeriodAssumption DEF Shapes
  <2>2. \A m \in metadata : m.row \in 1..used'
    BY <2>1, <1>3 DEF Unmade
  <2>3. \A id \in Ids : id > used' => past[id] = {}
    BY <2>1, <1>3, PeriodAssumption DEF Unmade, Ids
  <2> QED BY <1>1, <2>1, <2>2, <2>3 DEF Unmade
<1>13. OneEach(rows', doubled) /\ HistoryIn(rows', metadata', past', raced')
  BY <1>1 DEF PeriodInv
<1>14. Goes(s)
  BY <1>3, <1>9, <1>10, <1>11, <1>12, <1>13 DEF Goes
<1> QED BY <1>1, <1>2, <1>7, <1>14, SaveMoves

\* A save that makes a row of a kind that has no values.
LEMMA AttachGoes ==
    ASSUME PeriodInv, NEW s \in Busy, Moves(s), NEW o \in 0..used, NEW k \in {"emissions", "scope3"},
           used < MaxIds, used' = used + 1, rows' = Attaches(rows, o, k, used + 1, None),
           \A x \in rows : x.id = o => x.kind = "emissions" /\ k = "scope3",
           UNCHANGED <<period, metadata, past, raced, doubled>>,
           SaveFits(save'[s], rows', used'), Knows(save'[s], rows', doubled),
           save[s].alone => Remembers(save'[s], rows')
    PROVE  PeriodInv'
<1>1. Shapes /\ used \in Nat /\ used \in 0..MaxIds /\ RowsFit(rows, used, period) /\ period \in 0..used
      /\ k \notin Points /\ k \in Kinds
  BY PeriodAssumption DEF PeriodInv, Shapes, Points, Kinds
<1>2. RowsFit(rows', used', period')
  BY <1>1, AttachedFit
<1>3. Follows(rows, rows', used)
  BY <1>1, AttachedFollow DEF Points
<1>4. \A x \in rows' : x.id > used => x.kind \notin Points
  <2>1. \A x \in rows' : x = Row(used + 1, o, k, None) \/ \E y \in rows : x.id = y.id
    BY <1>1, AttachedIs
  <2> QED BY <1>1, <2>1 DEF Row, RowsFit
<1>5. OneEach(rows', doubled)
  <2>1. \A x \in rows' : x.id > used => x.kind \notin Cats
    BY <1>4 DEF Points
  <2> QED BY <1>1, <1>2, <1>3, <2>1, OneEachStill DEF PeriodInv
<1>6. HistoryIn(rows', metadata', past', raced')
  <2>1. \A x \in rows' : x.kind \in Points => \E y \in rows : y.id = x.id /\ y.kind = x.kind
    BY <1>3, <1>4 DEF Follows
  <2>2. HistoryIn(rows, metadata, past, raced)
    BY DEF PeriodInv
  <2> QED BY <2>1, <2>2, HistoryStays
<1>7. Unmade(metadata', past', used')
  <2>1. Unmade(metadata, past, used)
    BY <1>1 DEF Shapes
  <2>2. \A m \in metadata : m.row \in 1..(used + 1)
    BY <1>1, <2>1 DEF Unmade
  <2>3. \A id \in Ids : id > used + 1 => past[id] = {}
    BY <1>1, <2>1, PeriodAssumption DEF Unmade, Ids
  <2> QED BY <2>1, <2>2, <2>3 DEF Unmade
<1>8. used' \in 0..MaxIds /\ used <= used' /\ period' \in 0..used'
  BY <1>1, PeriodAssumption
<1>9. \A x \in rows' : x.id > used /\ x.kind \in Cats => x.kind \in DOMAIN CatsOf(save[s].body)
  BY <1>4 DEF Points
<1>10. Goes(s)
  BY <1>2, <1>3, <1>5, <1>6, <1>7, <1>8, <1>9 DEF Goes
<1> QED BY <1>10, SaveMoves

LEMMA BodyIs ==
    ASSUME NEW b \in Sendable
    PROVE  /\ b.scope1 \in {"absent", "null"} \cup Values
           /\ DOMAIN CatsOf(b) \subseteq Cats /\ CatsOf(b) \in MapsOfCats(Values)
           /\ \A k \in DOMAIN CatsOf(b) : CatsOf(b)[k] \in Values
           /\ b.scope3 \in BOOLEAN /\ b.replaceAll \in BOOLEAN
<1>1. b \in Bodies
  BY DEF Sendable
<1>2. PICK K \in SUBSET Cats : b.cats \in [K -> Values]
  BY <1>1 DEF Bodies
<1> QED BY <1>1, <1>2 DEF Bodies, CatsOf, MapsOfCats

LEMMA TodoIs ==
    ASSUME NEW b \in Sendable, NEW e
    PROVE  /\ Todo(b, e) \subseteq {"read1", "scope3"}
           /\ "read1" \in Todo(b, e) => b.scope1 # "absent"
           /\ "scope3" \in Todo(b, e) <=> b.scope3
BY BodyIs DEF Todo, Drops

LEMMA UpsertEmissionsKeeps == ASSUME PeriodInv, NEW s \in Savers, UpsertEmissions(s) PROVE PeriodInv'
<1> DEFINE q == save[s]
           e == save[s].emissions
           n1 == [save[s] EXCEPT !.pc = "points", !.todo = Todo(save[s].body, save[s].emissions),
                        !.scope1 = IdBelow(save[s].emissions, "scope1"), !.scope3 = IdBelow(save[s].emissions, "scope3")]
           n2 == [save[s] EXCEPT !.pc = "points", !.emissions = used + 1, !.todo = Todo(save[s].body, 0)]
<1>1. save[s].pc = "emissions"
  BY DEF UpsertEmissions, At
<1>2. Shapes /\ s \in Busy /\ save[s] \in SaveRecord /\ SaveFits(save[s], rows, used) /\ used \in 0..MaxIds
      /\ RowsFit(rows, used, period) /\ period \in 0..used /\ used \in Nat
  BY <1>1, BusyAre, PeriodAssumption DEF PeriodInv, Busy, Shapes
<1>3. save[s].body \in Sendable /\ save[s].scope1 = 0 /\ save[s].scope3 = 0
  BY <1>1, <1>2 DEF SaveRecord, SaveFits
<1>4. \A x : /\ Todo(save[s].body, x) \subseteq {"read1", "scope3"}
             /\ "read1" \in Todo(save[s].body, x) => save[s].body.scope1 # "absent"
             /\ Todo(save[s].body, x) \cap Cats = {}
  BY <1>3, TodoIs, PeriodAssumption
<1>5. CASE Fails(s)
  BY <1>2, <1>5, FailsKeeps
<1>6. CASE save' = [save EXCEPT ![s] = n1] /\ Quiet
  <2> DEFINE td == Todo(save[s].body, e)
             i1 == IdBelow(e, "scope1")
             i3 == IdBelow(e, "scope3")
  <2>1. save'[s] = [save[s] EXCEPT !.pc = "points", !.todo = td, !.scope1 = i1, !.scope3 = i3]
    BY <1>2, <1>6, SetIs
  <2>2. /\ IdBelow(e, "scope1") \in 0..used /\ IdBelow(e, "scope3") \in 0..used
        /\ \A x \in rows : /\ (x.id = IdBelow(e, "scope1") => x.kind = "scope1")
                            /\ (x.id = IdBelow(e, "scope3") => x.kind = "scope3")
    BY <1>2, IdBelowIs
  <2>3. Todo(save[s].body, e) \in SUBSET PointSteps
    BY <1>4 DEF PointSteps
  <2>4. /\ save'[s] \in SaveRecord /\ save'[s].body = save[s].body /\ save'[s].alone = save[s].alone
        /\ save'[s].pc = "points" /\ save'[s].period = save[s].period /\ save'[s].emissions = save[s].emissions
        /\ save'[s].todo = Todo(save[s].body, e) /\ save'[s].scope1 = IdBelow(e, "scope1")
        /\ save'[s].scope3 = IdBelow(e, "scope3")
    <3>1. td \in SUBSET PointSteps /\ i1 \in Nat /\ i3 \in Nat
      BY <1>2, <2>2, <2>3
    <3> HIDE DEF td, i1, i3, n1, n2, e, q
    <3>2. /\ save'[s] \in SaveRecord /\ save'[s].body = save[s].body /\ save'[s].alone = save[s].alone
          /\ save'[s].pc = "points" /\ save'[s].period = save[s].period /\ save'[s].emissions = save[s].emissions
          /\ save'[s].todo = td /\ save'[s].scope1 = i1 /\ save'[s].scope3 = i3
      BY <1>2, <2>1, <3>1 DEF SaveRecord
    <3> QED BY <3>2 DEF td, i1, i3
  <2>5. Moves(s)
    BY <1>2, <1>6, <2>4, SetIs DEF Moves
  <2>6. SaveFits(save'[s], rows, used)
    <3>1. {save[s].period, save[s].emissions, i1, i3} \subseteq 0..used
      BY <1>2, <2>2 DEF SaveFits
    <3>2. \A x \in rows : x.id = save[s].emissions => x.kind = "emissions"
      BY <1>2 DEF SaveFits
    <3>3. "write1" \notin td /\ td \cap Cats = {} /\ ("read1" \in td => save[s].body.scope1 # "absent")
      BY <1>4
    <3> HIDE DEF td
    <3> QED BY <2>2, <2>4, <3>1, <3>2, <3>3 DEF SaveFits, td
  <2>7. Knows(save'[s], rows, doubled) /\ Remembers(save'[s], rows)
    BY <1>4, <2>4 DEF Knows, Remembers
  <2> QED BY <1>2, <1>6, <2>5, <2>6, <2>7, QuietGoes
<1>7. CASE /\ save[s].period = period /\ used < MaxIds /\ used' = used + 1
           /\ Attach(period, "emissions", used + 1)
           /\ save' = [save EXCEPT ![s] = n2]
           /\ UNCHANGED <<period, metadata, saves, script, past, raced, doubled>>
  <2> DEFINE td == Todo(save[s].body, 0)
  <2>1. save'[s] = [save[s] EXCEPT !.pc = "points", !.emissions = used + 1, !.todo = td]
    BY <1>2, <1>7, SetIs
  <2>2. rows' = Attaches(rows, period, "emissions", used + 1, None)
    BY <1>7 DEF Attach, Attaches
  <2>3. Todo(save[s].body, 0) \in SUBSET PointSteps
    BY <1>4 DEF PointSteps
  <2>4. /\ save'[s] \in SaveRecord /\ save'[s].body = save[s].body /\ save'[s].alone = save[s].alone
        /\ save'[s].pc = "points" /\ save'[s].period = save[s].period /\ save'[s].emissions = used + 1
        /\ save'[s].todo = Todo(save[s].body, 0) /\ save'[s].scope1 = 0 /\ save'[s].scope3 = 0
    <3>1. td \in SUBSET PointSteps /\ used + 1 \in Nat
      BY <1>2, <2>3
    <3> HIDE DEF td, n1, n2, e, q
    <3>2. /\ save'[s] \in SaveRecord /\ save'[s].body = save[s].body /\ save'[s].alone = save[s].alone
          /\ save'[s].pc = "points" /\ save'[s].period = save[s].period /\ save'[s].emissions = used + 1
          /\ save'[s].todo = td /\ save'[s].scope1 = save[s].scope1 /\ save'[s].scope3 = save[s].scope3
      BY <1>2, <2>1, <3>1 DEF SaveRecord
    <3> QED BY <1>3, <3>2 DEF td
  <2>5. Moves(s)
    BY <1>2, <1>7, <2>4, SetIs DEF Moves
  <2>6. \A x \in rows' : (x.id = used + 1 => x.kind = "emissions") /\ x.id # 0
    <3>1. \A x \in rows' : x = Row(used + 1, period, "emissions", None) \/ \E y \in rows : x.id = y.id
      BY <1>2, <2>2, AttachedIs
    <3> QED BY <1>2, <3>1 DEF Row, RowsFit
  <2>7. SaveFits(save'[s], rows', used')
    <3>1. save[s].period \in 0..(used + 1) /\ {0, used + 1} \subseteq 0..(used + 1)
      BY <1>2 DEF SaveFits
    <3> QED BY <1>4, <1>7, <2>4, <2>6, <3>1 DEF SaveFits
  <2>8. Knows(save'[s], rows', doubled) /\ Remembers(save'[s], rows')
    BY <1>4, <2>4 DEF Knows, Remembers
  <2>9. \A x \in rows : x.id # period
    BY <1>2 DEF RowsFit
  <2> QED BY <1>2, <1>7, <2>2, <2>5, <2>7, <2>8, <2>9, AttachGoes
<1> QED BY <1>5, <1>6, <1>7 DEF UpsertEmissions, Set

LEMMA ValueIs ==
    ASSUME Shapes, NEW x \in rows
    PROVE  ValueOf(x.id) = x.val
<1>1. RowsFit(rows, used, period) /\ used \in Nat
  BY PeriodAssumption DEF Shapes
<1>2. \A x1 \in rows : (CHOOSE y \in rows : y.id = x1.id) = x1
  BY <1>1, IdsOfRows
<1> QED BY <1>2 DEF ValueOf

LEMMA PreviousTells ==
    ASSUME Shapes, NEW id, NEW v
    PROVE  Tells(rows, id, v, Previous(id, v)) /\ Previous(id, v) \in Values \cup {None}
<1>1. CASE ~Exists(id)
  BY <1>1 DEF Previous, Tells, Exists
<1>2. ASSUME NEW x \in rows, x.id = id PROVE Tells(rows, id, v, Previous(id, v)) /\ Previous(id, v) \in Values \cup {None}
  <2>1. ValueOf(id) = x.val /\ x.val \in Values \cup {None} /\ \A y \in rows : y.id = id => y = x
    BY <1>2, ValueIs DEF Shapes, RowsFit, RowRecord
  <2>2. Previous(id, v) = IF x.val # v THEN x.val ELSE None
    BY <1>2, <2>1 DEF Previous, Exists
  <2> QED BY <1>2, <2>1, <2>2 DEF Tells
<1> QED BY <1>1, <1>2 DEF Exists

LEMMA Scope1ReadsKeeps == ASSUME PeriodInv, NEW s \in Savers, Scope1Reads(s) PROVE PeriodInv'
<1> DEFINE pr == Previous(save[s].scope1, save[s].body.scope1)
<1>1. /\ save[s].pc = "points" /\ "read1" \in save[s].todo /\ save[s].body.scope1 # "null" /\ Quiet
      /\ save' = [save EXCEPT ![s] = [Next1(s, "read1", {"write1"}) EXCEPT !.prev1 = pr]]
  BY DEF Scope1Reads, At, Set, Does, Drops
<1>2. Shapes /\ s \in Busy /\ save[s] \in SaveRecord /\ SaveFits(save[s], rows, used)
  BY <1>1, BusyAre DEF PeriodInv, Busy
<1>3. pr \in Values \cup {None} /\ Tells(rows, save[s].scope1, save[s].body.scope1, pr)
  BY <1>2, PreviousTells
<1> HIDE DEF pr
<1>4. save'[s] = [save[s] EXCEPT !.todo = (@ \ {"read1"}) \cup {"write1"}, !.prev1 = pr]
  BY <1>1, <1>2, SetIs DEF Next1, SaveRecord
<1>5. /\ save'[s] \in SaveRecord /\ save'[s].body = save[s].body /\ save'[s].alone = save[s].alone
      /\ save'[s].todo = (save[s].todo \ {"read1"}) \cup {"write1"} /\ save'[s].prev1 = pr
      /\ save'[s].pc = "points"
  <2>1. save[s].todo \in SUBSET PointSteps
    BY <1>2 DEF SaveRecord
  <2> DEFINE td == (save[s].todo \ {"read1"}) \cup {"write1"}
  <2>2. td \in SUBSET PointSteps
    BY <2>1 DEF PointSteps
  <2>3. save'[s] = [save[s] EXCEPT !.todo = td, !.prev1 = pr]
    BY <1>2, <1>4 DEF SaveRecord
  <2> HIDE DEF td
  <2>4. /\ save'[s] \in SaveRecord /\ save'[s].body = save[s].body /\ save'[s].alone = save[s].alone
        /\ save'[s].todo = td /\ save'[s].prev1 = pr /\ save'[s].pc = save[s].pc
    BY <1>2, <1>3, <2>2, <2>3 DEF SaveRecord
  <2> QED BY <1>1, <2>4 DEF td
<1>6. /\ save'[s].period = save[s].period /\ save'[s].emissions = save[s].emissions
      /\ save'[s].scope1 = save[s].scope1 /\ save'[s].scope3 = save[s].scope3
      /\ save'[s].match = save[s].match /\ save'[s].prev = save[s].prev
  BY <1>2, <1>4 DEF SaveRecord
<1>7. Moves(s)
  BY <1>1, <1>2, <1>5, SetIs DEF Moves
<1>8. save'[s].todo \cap Cats = save[s].todo \cap Cats /\ ("scope3" \in save'[s].todo <=> "scope3" \in save[s].todo)
  BY <1>5, PeriodAssumption
<1>9. SaveFits(save'[s], rows, used)
  BY <1>1, <1>2, <1>5, <1>6, <1>8 DEF SaveFits
<1>10. ASSUME Knows(save[s], rows, doubled) PROVE Knows(save'[s], rows, doubled)
  BY <1>6, <1>8, <1>10 DEF Knows
<1>11. ASSUME Remembers(save[s], rows) PROVE Remembers(save'[s], rows)
  BY <1>3, <1>5, <1>6, <1>8, <1>11 DEF Remembers
<1> QED BY <1>1, <1>2, <1>7, <1>9, <1>10, <1>11, QuietGoes DEF PeriodInv

LEMMA AttachedSame ==
    ASSUME NEW R, NEW u \in Nat, NEW p, RowsFit(R, u, p), NEW o, NEW k, NEW v, NEW id \in 0..u
    PROVE  SameRow(R, Attaches(R, o, k, u + 1, v), id)
<1>1. \A x \in Attaches(R, o, k, u + 1, v) : x.id = id => \E y \in R : y.id = id /\ y.val = x.val
  BY AttachedIs DEF Row
<1>2. ASSUME NEW y \in R, y.id = id PROVE \E x \in Attaches(R, o, k, u + 1, v) : x.id = id
  <2> DEFINE x == IF y.owner = o /\ y.kind = k THEN [y EXCEPT !.owner = 0] ELSE y
  <2>1. x \in Attaches(R, o, k, u + 1, v)
    BY DEF Attaches
  <2>2. x.id = y.id
    BY DEF RowsFit, RowRecord
  <2> QED BY <1>2, <2>1, <2>2
<1> QED BY <1>1, <1>2 DEF SameRow

LEMMA AddedSame ==
    ASSUME NEW R, NEW u \in Nat, NEW o, NEW k, NEW v, NEW id \in 0..u
    PROVE  SameRow(R, Adds(R, o, k, u + 1, v), id)
BY DEF Adds, SameRow, Row

LEMMA ChangedSame ==
    ASSUME NEW R, NEW u \in Nat, NEW p, RowsFit(R, u, p), NEW id, NEW v \in Values, NEW id2,
           \A x \in R : x.id = id2 => id2 # id
    PROVE  SameRow(R, Changes(R, id, v), id2)
<1>1. \A x \in Changes(R, id, v) : x.id = id2 => \E y \in R : y.id = id2 /\ y.val = x.val
  BY ChangedIs
<1>2. \A y \in R : y.id = id2 => y \in Changes(R, id, v)
  BY DEF Changes
<1> QED BY <1>1, <1>2 DEF SameRow

LEMMA UpsertScope3Keeps == ASSUME PeriodInv, NEW s \in Savers, UpsertScope3(s) PROVE PeriodInv'
<1> DEFINE C == CatsOf(save[s].body)
           td == (save[s].todo \ {"scope3"}) \cup DOMAIN C
           pr(m) == [k \in DOMAIN C |-> Previous(m[k], C[k])]
           go(id, m) == Set(s, [Next1(s, "scope3", DOMAIN C) EXCEPT !.scope3 = id, !.match = m, !.prev = pr(m)])
           m0 == [k \in DOMAIN C |-> 0]
<1>1. /\ save[s].pc = "points" /\ "scope3" \in save[s].todo
      /\ \/ /\ \E m \in [DOMAIN C -> 0..used] : /\ \A k \in DOMAIN C : m[k] \in Matching(save[s].scope3, k)
                                                /\ go(save[s].scope3, m)
            /\ Quiet
         \/ /\ Exists(save[s].emissions) /\ used < MaxIds /\ used' = used + 1
            /\ Attach(save[s].emissions, "scope3", used + 1)
            /\ go(used + 1, m0)
            /\ UNCHANGED <<period, metadata, saves, script, past, raced, doubled>>
  BY DEF UpsertScope3, At, Does
<1>2. Shapes /\ s \in Busy /\ save[s] \in SaveRecord /\ SaveFits(save[s], rows, used) /\ used \in 0..MaxIds
      /\ RowsFit(rows, used, period) /\ period \in 0..used /\ used \in Nat
  <2>1. save[s].pc = "points" /\ Shapes
    BY <1>1 DEF PeriodInv
  <2>2. s \in Busy
    BY <2>1 DEF Busy
  <2> QED BY <2>1, <2>2, BusyAre, PeriodAssumption DEF Shapes
<1>3. /\ DOMAIN C \subseteq Cats /\ save[s].todo \cap Cats = {} /\ td \in SUBSET PointSteps
      /\ td \cap Cats = DOMAIN C /\ "scope3" \notin td
      /\ ("read1" \in td <=> "read1" \in save[s].todo) /\ ("write1" \in td <=> "write1" \in save[s].todo)
  <2>1. save[s].body \in Sendable /\ save[s].todo \in SUBSET PointSteps
    BY <1>2 DEF SaveRecord
  <2>2. DOMAIN C \subseteq Cats
    BY <2>1, BodyIs
  <2>3. save[s].todo \cap Cats = {}
    BY <1>1, <1>2 DEF SaveFits
  <2> HIDE DEF C
  <2> QED BY <2>1, <2>2, <2>3, PeriodAssumption DEF PointSteps
<1>4. ASSUME NEW id \in Nat, NEW m \in [DOMAIN C -> Nat], go(id, m)
      PROVE  /\ Moves(s) /\ save'[s] \in SaveRecord
             /\ save'[s].body = save[s].body /\ save'[s].pc = "points" /\ save'[s].todo = td
             /\ save'[s].period = save[s].period /\ save'[s].emissions = save[s].emissions
             /\ save'[s].scope1 = save[s].scope1 /\ save'[s].scope3 = id
             /\ save'[s].match = m /\ save'[s].prev = pr(m) /\ save'[s].prev1 = save[s].prev1
  <2>1. pr(m) \in MapsOfCats(Values \cup {None})
    <3>1. \A k \in DOMAIN C : Previous(m[k], C[k]) \in Values \cup {None}
      BY <1>2, PreviousTells
    <3> HIDE DEF C
    <3> QED BY <1>3, <3>1 DEF MapsOfCats
  <2>2. m \in MapsOfCats(Nat)
    BY <1>3 DEF MapsOfCats
  <2> DEFINE p == pr(m)
  <2>3. save'[s] = [save[s] EXCEPT !.todo = td, !.scope3 = id, !.match = m, !.prev = p]
    <3>1. save' = [save EXCEPT ![s] = [Next1(s, "scope3", DOMAIN C) EXCEPT !.scope3 = id, !.match = m, !.prev = pr(m)]]
      BY <1>4 DEF Set
    <3>2. save'[s] = [Next1(s, "scope3", DOMAIN C) EXCEPT !.scope3 = id, !.match = m, !.prev = p]
      BY <1>2, <3>1, SetIs
    <3>3. Next1(s, "scope3", DOMAIN C) = [save[s] EXCEPT !.todo = td]
      BY DEF Next1
    <3> HIDE DEF C, td, p, pr
    <3> QED BY <1>2, <3>2, <3>3 DEF SaveRecord
  <2>4. p \in MapsOfCats(Values \cup {None}) /\ td \in SUBSET PointSteps
    BY <1>3, <2>1
  <2> HIDE DEF p, td, C
  <2>5. /\ save'[s] \in SaveRecord /\ save'[s].alone = save[s].alone
        /\ save'[s].body = save[s].body /\ save'[s].pc = save[s].pc /\ save'[s].todo = td
        /\ save'[s].period = save[s].period /\ save'[s].emissions = save[s].emissions
        /\ save'[s].scope1 = save[s].scope1 /\ save'[s].scope3 = id
        /\ save'[s].match = m /\ save'[s].prev = p /\ save'[s].prev1 = save[s].prev1
    BY <1>2, <2>2, <2>3, <2>4 DEF SaveRecord
  <2>6. Moves(s)
    BY <1>2, <1>4, <2>5, SetIs DEF Moves, Set
  <2> QED BY <1>1, <2>5, <2>6 DEF p
<1>5. ASSUME NEW m \in [DOMAIN C -> 0..used], \A k \in DOMAIN C : m[k] \in Matching(save[s].scope3, k),
             go(save[s].scope3, m), Quiet
      PROVE  PeriodInv'
  <2>1. m \in [DOMAIN C -> Nat] /\ save[s].scope3 \in Nat
    BY <1>2 DEF SaveRecord
  <2>2. /\ Moves(s) /\ save'[s] \in SaveRecord
        /\ save'[s].body = save[s].body /\ save'[s].pc = "points" /\ save'[s].todo = td
        /\ save'[s].period = save[s].period /\ save'[s].emissions = save[s].emissions
        /\ save'[s].scope1 = save[s].scope1 /\ save'[s].scope3 = save[s].scope3
        /\ save'[s].match = m /\ save'[s].prev = pr(m) /\ save'[s].prev1 = save[s].prev1
    BY <1>4, <1>5, <2>1
  <2>3. \A k \in DOMAIN C : /\ \A x \in rows : x.id = m[k] => x.kind = k
                            /\ k \notin doubled => \A x \in rows : x.owner = save[s].scope3 /\ x.kind = k => x.id = m[k]
    <3> SUFFICES ASSUME NEW k \in DOMAIN C
                 PROVE  /\ \A x \in rows : x.id = m[k] => x.kind = k
                        /\ k \notin doubled => \A x \in rows : x.owner = save[s].scope3 /\ x.kind = k => x.id = m[k]
      OBVIOUS
    <3>1. m[k] \in Matching(save[s].scope3, k) /\ k \in Cats
      BY <1>3, <1>5
    <3>2. CASE Below(save[s].scope3, k) = {}
      <4>1. m[k] = 0 /\ \A x \in rows : x.id # 0
        BY <1>2, <3>1, <3>2 DEF Matching, RowsFit
      <4>2. \A x \in rows : ~(x.owner = save[s].scope3 /\ x.kind = k)
        BY <3>2 DEF Below
      <4> QED BY <4>1, <4>2
    <3>3. CASE Below(save[s].scope3, k) # {}
      <4>1. PICK y \in rows : y.owner = save[s].scope3 /\ y.kind = k /\ m[k] = y.id
        BY <3>1, <3>3 DEF Matching, Below
      <4>2. \A x \in rows : x.id = m[k] => x = y
        BY <1>2, <4>1 DEF RowsFit
      <4>3. OneEach(rows, doubled)
        BY DEF PeriodInv
      <4>4. k \notin doubled => \A x \in rows : x.owner = save[s].scope3 /\ x.kind = k => x = y
        BY <3>1, <4>1, <4>3 DEF OneEach
      <4> QED BY <4>1, <4>2, <4>4
    <3> QED BY <3>2, <3>3
  <2>4. SaveFits(save'[s], rows, used)
    <3>1. DOMAIN m = DOMAIN C /\ DOMAIN pr(m) = DOMAIN C /\ \A k \in DOMAIN C : m[k] \in 0..used
      OBVIOUS
    <3> HIDE DEF td, pr
    <3>2. \A k \in td \cap Cats : k \in DOMAIN C /\ k \in DOMAIN m /\ k \in DOMAIN pr(m) /\ m[k] \in 0..used
      BY <1>3, <3>1
    <3>3. \A x \in rows : \A k \in td \cap Cats : x.id = m[k] => x.kind = k
      BY <1>3, <2>3
    <3> QED BY <1>2, <1>3, <2>2, <3>2, <3>3 DEF SaveFits
  <2>5. Knows(save'[s], rows, doubled)
    <3> HIDE DEF td, pr, C
    <3> QED BY <1>3, <2>2, <2>3 DEF Knows
  <2>6. ASSUME save[s].alone PROVE Remembers(save'[s], rows)
    <3>1. Remembers(save[s], rows)
      BY <1>2, <2>6 DEF PeriodInv
    <3>2. \A k \in DOMAIN C : pr(m)[k] = Previous(m[k], C[k]) /\ Tells(rows, m[k], C[k], Previous(m[k], C[k]))
      BY <1>2, PreviousTells
    <3>3. \A k \in td \cap Cats : Tells(rows, m[k], C[k], pr(m)[k])
      BY <1>3, <3>2
    <3> HIDE DEF td, pr
    <3> QED BY <1>3, <2>2, <3>1, <3>3 DEF Remembers
  <2> QED BY <1>2, <1>5, <2>2, <2>4, <2>5, <2>6, QuietGoes
<1>6. ASSUME Exists(save[s].emissions), used < MaxIds, used' = used + 1,
             Attach(save[s].emissions, "scope3", used + 1), go(used + 1, m0),
             UNCHANGED <<period, metadata, saves, script, past, raced, doubled>>
      PROVE  PeriodInv'
  <2>1. m0 \in [DOMAIN C -> Nat] /\ used + 1 \in Nat
    BY <1>2
  <2>2. /\ Moves(s) /\ save'[s] \in SaveRecord
        /\ save'[s].body = save[s].body /\ save'[s].pc = "points" /\ save'[s].todo = td
        /\ save'[s].period = save[s].period /\ save'[s].emissions = save[s].emissions
        /\ save'[s].scope1 = save[s].scope1 /\ save'[s].scope3 = used + 1
        /\ save'[s].match = m0 /\ save'[s].prev = pr(m0) /\ save'[s].prev1 = save[s].prev1
    BY <1>4, <1>6, <2>1
  <2>3. rows' = Attaches(rows, save[s].emissions, "scope3", used + 1, None)
    BY <1>6 DEF Attach, Attaches
  <2>4. save[s].emissions \in 0..used /\ \A x \in rows : x.id = save[s].emissions => x.kind = "emissions"
    BY <1>2 DEF SaveFits
  <2>5. \A x \in rows' : /\ x.id \in 1..(used + 1) /\ (x.id = used + 1 => x.kind = "scope3")
                         /\ (x.owner = used + 1 => x.id = used + 1)
    <3>1. \A x \in rows' : \/ x = Row(used + 1, save[s].emissions, "scope3", None)
                           \/ \E y \in rows : x.id = y.id /\ x.owner \in {0, y.owner}
      BY <1>2, <2>3, AttachedIs
    <3>2. \A y \in rows : y.id \in 1..used /\ y.owner \in 0..used
      BY <1>2 DEF RowsFit
    <3> QED BY <1>2, <2>4, <3>1, <3>2 DEF Row
  <2>6. Follows(rows, rows', used)
    BY <1>2, <2>3, AttachedFollow, PeriodAssumption
  <2>7. SaveFits(save'[s], rows', used')
    <3>1. SaveFits(save[s], rows', used')
      BY <1>2, <1>6, <2>6, FitsStill
    <3>2. DOMAIN m0 = DOMAIN C /\ DOMAIN pr(m0) = DOMAIN C /\ \A k \in DOMAIN C : m0[k] = 0
      OBVIOUS
    <3> HIDE DEF td, pr, m0
    <3>3. \A k \in td \cap Cats : k \in DOMAIN C /\ k \in DOMAIN m0 /\ k \in DOMAIN pr(m0) /\ m0[k] = 0
      BY <1>3, <3>2
    <3>4. \A x \in rows' : x.id # 0 /\ (x.id = used + 1 => x.kind = "scope3")
      BY <2>5
    <3>5. used + 1 \in 0..used' /\ 0 \in 0..used'
      BY <1>2, <1>6
    <3> QED BY <1>3, <2>2, <3>1, <3>3, <3>4, <3>5 DEF SaveFits
  <2>8. Knows(save'[s], rows', doubled)
    <3>1. \A x \in rows' : x.owner = used + 1 => x.kind = "scope3"
      BY <2>5
    <3> HIDE DEF td, pr, m0, C
    <3> QED BY <2>2, <3>1, PeriodAssumption DEF Knows
  <2>9. ASSUME save[s].alone PROVE Remembers(save'[s], rows')
    <3>1. Remembers(save[s], rows)
      BY <1>2, <2>9 DEF PeriodInv
    <3>2. SameRow(rows, rows', save[s].scope1)
      BY <1>2, <2>3, AttachedSame DEF SaveFits
    <3>3. "write1" \in save[s].todo => Tells(rows', save[s].scope1, save[s].body.scope1, save[s].prev1)
      BY <3>1, <3>2, TellsStill DEF Remembers
    <3>4. \A k \in DOMAIN C : m0[k] = 0 /\ pr(m0)[k] = None
      BY <1>2, PeriodAssumption DEF Previous, Exists, RowsFit
    <3>5. \A k \in td \cap Cats : Tells(rows', m0[k], C[k], pr(m0)[k])
      BY <1>3, <2>5, <3>4 DEF Tells
    <3> HIDE DEF td, pr, m0
    <3> QED BY <1>3, <2>2, <3>3, <3>5 DEF Remembers
  <2> QED BY <1>2, <1>6, <2>2, <2>3, <2>4, <2>7, <2>8, <2>9, AttachGoes
<1> QED BY <1>1, <1>5, <1>6

\* A save that gives a row a value.
LEMMA ChangeGoes ==
    ASSUME PeriodInv, NEW s \in Busy, Moves(s), NEW x \in rows, x.kind \in Points, NEW v \in Values,
           NEW prev, Change(s, x.id, v, prev), save[s].alone => Tells(rows, x.id, v, prev),
           UNCHANGED <<period, doubled>>, Narrows(save'[s], save[s]),
           save[s].alone => Remembers(save'[s], rows')
    PROVE  PeriodInv'
<1>1. Shapes /\ SaveFits(save[s], rows, used) /\ Knows(save[s], rows, doubled) /\ used \in Nat
      /\ RowsFit(rows, used, period) /\ used \in 0..MaxIds /\ period \in 0..used
      /\ save[s].alone \in BOOLEAN /\ Unmade(metadata, past, used)
      /\ HistoryIn(rows, metadata, past, raced)
  <2>1. Shapes
    BY DEF PeriodInv
  <2>2. save[s] \in SaveRecord /\ SaveFits(save[s], rows, used)
    BY <2>1, BusyAre
  <2>3. save[s].alone \in BOOLEAN
    BY <2>2 DEF SaveRecord
  <2> QED BY <2>1, <2>2, <2>3, PeriodAssumption DEF PeriodInv, Shapes
<1>2. ValueOf(x.id) = x.val /\ x.val \in Values /\ x.val # None /\ x.id \in 1..used
  BY <1>1, ValueIs, PeriodAssumption DEF RowsFit
<1>3. /\ rows' = Changes(rows, x.id, v)
      /\ metadata' = metadata \cup {[at |-> NextNumber, row |-> x.id, prev |-> prev]}
      /\ past' = IF x.val = v THEN past ELSE [past EXCEPT ![x.id] = @ \cup {[at |-> NextNumber, val |-> x.val]}]
      /\ raced' = IF save[s].alone THEN raced ELSE raced \cup {x.id}
      /\ used' = used
  BY <1>2 DEF Change, Changes, Remember
<1>4. RowsFit(rows', used', period') /\ Follows(rows, rows', used)
  BY <1>1, <1>3, ChangedFit, ChangedFollow
<1>5. \A y \in rows' : ~(y.id > used)
  BY <1>1, <1>3, <1>4 DEF RowsFit
<1>6. OneEach(rows', doubled)
  BY <1>1, <1>4, <1>5, OneEachStill DEF PeriodInv
<1>7. save[s].alone => prev = IF x.val # v THEN x.val ELSE None
  BY DEF Tells
<1>8. \A y \in rows' : \E z \in rows : z.id = y.id /\ z.kind = y.kind
  BY <1>4, <1>5 DEF Follows
<1>9. HistoryIn(rows', metadata', past', raced') /\ Unmade(metadata', past', used')
  <2>1. \A y \in rows : y.id \in 1..used
    BY <1>1 DEF RowsFit
  <2> DEFINE at == NextNumber
  <2>2. /\ metadata' = metadata \cup {[at |-> at, row |-> x.id, prev |-> prev]}
        /\ past' = IF x.val = v THEN past ELSE [past EXCEPT ![x.id] = @ \cup {[at |-> at, val |-> x.val]}]
    BY <1>3
  <2> HIDE DEF at
  <2> DEFINE R2 == rows'
             P2 == past'
             rc2 == raced'
  <2>3. /\ HistoryIn(R2, metadata \cup {[at |-> at, row |-> x.id, prev |-> prev]}, P2, rc2)
        /\ Unmade(metadata \cup {[at |-> at, row |-> x.id, prev |-> prev]}, P2, used)
    <3>1. Outlived(P2, past, x.id, at, x.val, v)
      BY <2>2 DEF Outlived
    <3>2. rc2 = IF save[s].alone THEN raced ELSE raced \cup {x.id}
      BY <1>3
    <3>3. \A y \in R2 : \E z \in rows : z.id = y.id /\ z.kind = y.kind
      BY <1>8
    <3>4. x.id \in 1..used /\ x.val # None
      BY <1>2
    <3> HIDE DEF R2, P2, rc2
    <3> QED BY <1>1, <1>7, <2>1, <3>1, <3>2, <3>3, <3>4, HistoryGrows
  <2> QED BY <1>3, <2>2, <2>3
<1>10. SaveFits(save'[s], rows', used') /\ Knows(save'[s], rows', doubled)
  <2>1. SaveFits(save[s], rows', used) /\ Knows(save[s], rows', doubled)
    BY <1>1, <1>4, <1>5, FitsStill, KnowsStill
  <2> QED BY <1>3, <2>1, FewerSteps
<1>11. used' \in 0..MaxIds /\ used <= used' /\ period' \in 0..used'
  BY <1>1, <1>3
<1>12. Goes(s)
  BY <1>4, <1>5, <1>6, <1>9, <1>10, <1>11 DEF Goes
<1> QED BY <1>12, SaveMoves

\* A save that makes a row with a value.
LEMMA PointGoes ==
    ASSUME PeriodInv, NEW s \in Busy, Moves(s), NEW k \in Points, NEW prev, NEW v \in Values,
           NEW o \in 0..used, k \in Cats => k \in DOMAIN CatsOf(save[s].body) /\ k \notin save'[s].todo,
           \A x \in rows : x.id = o => (x.kind = "emissions" /\ k = "scope1") \/ (x.kind = "scope3" /\ k \in Cats),
           \/ k = "scope1" /\ rows' = Attaches(rows, o, k, used + 1, v)
           \/ k \in Cats /\ rows' = Adds(rows, o, k, used + 1, v),
           k \in Cats \ doubled => \A x \in rows : ~(x.owner = o /\ x.kind = k),
           used < MaxIds, used' = used + 1, Remember(used + 1, prev), save[s].alone => prev = None,
           raced' = IF save[s].alone THEN raced ELSE raced \cup {used + 1},
           UNCHANGED <<past, period, doubled>>, Narrows(save'[s], save[s]),
           save[s].alone => Remembers(save'[s], rows')
    PROVE  PeriodInv'
<1>1. Shapes /\ SaveFits(save[s], rows, used) /\ Knows(save[s], rows, doubled) /\ used \in Nat
      /\ RowsFit(rows, used, period) /\ used \in 0..MaxIds /\ period \in 0..used
      /\ save[s].alone \in BOOLEAN /\ Unmade(metadata, past, used)
      /\ HistoryIn(rows, metadata, past, raced)
  <2>1. Shapes
    BY DEF PeriodInv
  <2>2. save[s] \in SaveRecord /\ SaveFits(save[s], rows, used)
    BY <2>1, BusyAre
  <2>3. save[s].alone \in BOOLEAN
    BY <2>2 DEF SaveRecord
  <2> QED BY <2>1, <2>2, <2>3, PeriodAssumption DEF PeriodInv, Shapes
<1>2. k \in Kinds /\ "scope1" \notin Cats
  BY PeriodAssumption DEF Kinds
<1>3. RowsFit(rows', used', period')
  BY <1>1, <1>2, AttachedFit, AddedFit
<1>4. Follows(rows, rows', used)
  BY <1>1, <1>2, AttachedFollow, AddedFollow
<1>5. \A x \in rows' :
        \/ x.id = used + 1 /\ x.kind = k /\ x.owner = o
        \/ \E y \in rows : x.id = y.id /\ x.kind = y.kind /\ (x.kind \in Cats => x.owner = y.owner)
  <2>1. CASE k = "scope1" /\ rows' = Attaches(rows, o, k, used + 1, v)
    <3>1. \A x \in rows' :
             \/ x = Row(used + 1, o, k, v)
             \/ \E y \in rows : /\ x.id = y.id /\ x.kind = y.kind
                                 /\ x.owner = IF y.owner = o /\ y.kind = k THEN 0 ELSE y.owner
      BY <1>1, <2>1, AttachedIs
    <3> QED BY <1>2, <2>1, <3>1 DEF Row
  <2>2. CASE k \in Cats /\ rows' = Adds(rows, o, k, used + 1, v)
    BY <2>2 DEF Adds, Row
  <2> QED BY <2>1, <2>2
<1>6. \A y \in rows : y.id \in 1..used /\ ~(y.id > used)
  BY <1>1 DEF RowsFit
<1>7. OneEach(rows', doubled)
  <2> SUFFICES ASSUME NEW x \in rows', NEW y \in rows', x.kind \in Cats \ doubled, x.kind = y.kind, x.owner = y.owner
               PROVE  x = y
    BY DEF OneEach
  <2>1. OneEach(rows, doubled) /\ \A a, b \in rows' : a.id = b.id => a = b
    BY <1>3 DEF PeriodInv, RowsFit
  <2>2. CASE x.id = used + 1 /\ y.id = used + 1
    BY <2>1, <2>2
  <2>3. CASE x.id # used + 1 /\ y.id # used + 1
    <3>1. PICK a \in rows : x.id = a.id /\ x.kind = a.kind /\ x.owner = a.owner
      BY <1>5, <2>3
    <3>2. PICK b \in rows : y.id = b.id /\ y.kind = b.kind /\ y.owner = b.owner
      BY <1>5, <2>3
    <3> QED BY <2>1, <3>1, <3>2 DEF OneEach
  <2>4. CASE (x.id = used + 1) # (y.id = used + 1)
    BY <1>1, <1>5, <1>6, <2>4
  <2> QED BY <2>2, <2>3, <2>4
<1>8. HistoryIn(rows', metadata', past', raced') /\ Unmade(metadata', past', used')
  <2> DEFINE at == NextNumber
             R2 == rows'
             rc2 == raced'
  <2>1. metadata' = metadata \cup {[at |-> at, row |-> used + 1, prev |-> prev]}
    BY DEF Remember
  <2> HIDE DEF at
  <2>2. \A x \in R2 : x.id = used + 1 \/ \E y \in rows : y.id = x.id /\ y.kind = x.kind
    BY <1>5
  <2>3. rc2 = IF save[s].alone THEN raced ELSE raced \cup {used + 1}
    OBVIOUS
  <2>4. used + 1 \in Ids /\ \A x \in rows : x.id \in 1..used
    BY <1>1, <1>6, PeriodAssumption DEF Ids
  <2> HIDE DEF R2, rc2
  <2>5. /\ HistoryIn(R2, metadata \cup {[at |-> at, row |-> used + 1, prev |-> prev]}, past, rc2)
        /\ Unmade(metadata \cup {[at |-> at, row |-> used + 1, prev |-> prev]}, past, used + 1)
    BY <1>1, <2>2, <2>3, <2>4, HistoryStarts
  <2> QED BY <2>1, <2>5 DEF R2, rc2
<1>9. SaveFits(save'[s], rows', used') /\ Knows(save'[s], rows', doubled)
  <2>1. SaveFits(save'[s], rows, used) /\ Knows(save'[s], rows, doubled)
    BY <1>1, FewerSteps
  <2>2. SaveFits(save'[s], rows', used + 1)
    BY <1>1, <1>4, <2>1, FitsStill
  <2>3. \A x \in rows' : x.id > used => x.kind \notin (save'[s].todo \cap Cats) \ doubled
    BY <1>5, <1>6
  <2>4. Knows(save'[s], rows', doubled)
    BY <1>4, <2>1, <2>3, KnowsStill
  <2> QED BY <2>2, <2>4
<1>10. \A x \in rows' : x.id > used /\ x.kind \in Cats => x.kind \in DOMAIN CatsOf(save[s].body)
  BY <1>5, <1>6
<1>11. used' \in 0..MaxIds /\ used <= used' /\ period' \in 0..used'
  BY <1>1, PeriodAssumption
<1>12. Goes(s)
  BY <1>3, <1>4, <1>7, <1>8, <1>9, <1>10, <1>11 DEF Goes
<1> QED BY <1>12, SaveMoves

LEMMA StepTaken ==
    ASSUME PeriodInv, NEW s \in Savers, NEW step, Does(s, step), Set(s, Next1(s, step, {}))
    PROVE  /\ s \in Busy /\ save[s] \in SaveRecord /\ SaveFits(save[s], rows, used)
           /\ Moves(s) /\ Narrows(save'[s], save[s]) /\ save'[s].todo = save[s].todo \ {step}
<1>1. Shapes /\ save[s].pc = "points" /\ step \in save[s].todo
  BY DEF PeriodInv, Does, At
<1>2. s \in Busy
  BY <1>1 DEF Busy
<1>3. save[s] \in SaveRecord /\ SaveFits(save[s], rows, used)
  BY <1>1, <1>2, BusyAre
<1> DEFINE td == (save[s].todo \ {step}) \cup {}
<1>4. td \in SUBSET PointSteps /\ td = save[s].todo \ {step}
  BY <1>3 DEF SaveRecord
<1>5. save'[s] = [save[s] EXCEPT !.todo = td]
  BY <1>1, SetIs DEF Set, Next1
<1> HIDE DEF td
<1>6. /\ save'[s] \in SaveRecord /\ save'[s].alone = save[s].alone /\ save'[s].todo = td /\ save'[s].pc = save[s].pc
      /\ save'[s].body = save[s].body /\ save'[s].period = save[s].period /\ save'[s].emissions = save[s].emissions
      /\ save'[s].scope1 = save[s].scope1 /\ save'[s].scope3 = save[s].scope3
      /\ save'[s].match = save[s].match /\ save'[s].prev = save[s].prev /\ save'[s].prev1 = save[s].prev1
  BY <1>3, <1>4, <1>5 DEF SaveRecord
<1>7. Moves(s)
  BY <1>1, <1>6, SetIs DEF Moves, Set
<1>8. Narrows(save'[s], save[s])
  BY <1>1, <1>4, <1>6 DEF Narrows
<1> QED BY <1>2, <1>3, <1>4, <1>6, <1>7, <1>8

\* What a save remembers of other rows than the one it writes is still so.
LEMMA StillRemembers ==
    ASSUME NEW R, NEW R2, NEW q, NEW n, Remembers(q, R), Narrows(n, q),
           "write1" \in n.todo => SameRow(R, R2, q.scope1),
           \A k \in n.todo \cap Cats : SameRow(R, R2, q.match[k])
    PROVE  Remembers(n, R2)
<1>1. "write1" \in n.todo => Tells(R2, q.scope1, q.body.scope1, q.prev1)
  BY TellsStill DEF Remembers, Narrows
<1>2. \A k \in n.todo \cap Cats : Tells(R2, q.match[k], CatsOf(q.body)[k], q.prev[k])
  BY TellsStill DEF Remembers, Narrows
<1> QED BY <1>1, <1>2 DEF Remembers, Narrows

LEMMA Scope1WritesKeeps == ASSUME PeriodInv, NEW s \in Savers, Scope1Writes(s) PROVE PeriodInv'
<1> DEFINE v == save[s].body.scope1
           id == save[s].scope1
<1>1. /\ Does(s, "write1") /\ Set(s, Next1(s, "write1", {})) /\ UNCHANGED <<period, saves, script, doubled>>
      /\ "write1" \in save[s].todo
  BY DEF Scope1Writes, Does
<1>2. /\ s \in Busy /\ save[s] \in SaveRecord /\ SaveFits(save[s], rows, used)
      /\ Moves(s) /\ Narrows(save'[s], save[s]) /\ save'[s].todo = save[s].todo \ {"write1"}
  BY <1>1, StepTaken
<1>3. v \in Values
  <2>1. save[s].body \in Sendable
    BY <1>2 DEF SaveRecord
  <2> QED BY <1>1, <1>2, <2>1, BodyIs DEF SaveFits
<1>4. Shapes /\ RowsFit(rows, used, period) /\ used \in Nat /\ period \in 0..used
  BY PeriodAssumption DEF PeriodInv, Shapes
<1>5. save[s].alone => Remembers(save[s], rows)
  BY <1>2 DEF PeriodInv
<1>6. save[s].alone => Tells(rows, id, v, save[s].prev1)
  BY <1>1, <1>5 DEF Remembers
<1>7. CASE Exists(id)
  <2>1. PICK x \in rows : x.id = id
    BY <1>7 DEF Exists
  <2>2. x.kind = "scope1"
    BY <1>2, <2>1 DEF SaveFits
  <2>3. Change(s, x.id, v, save[s].prev1)
    BY <1>7, <2>1 DEF Scope1Writes
  <2>4. rows' = Changes(rows, x.id, v)
    BY <2>3 DEF Change, Changes
  <2>5. \A k \in save'[s].todo \cap Cats : SameRow(rows, rows', save[s].match[k])
    <3>1. \A k \in save'[s].todo \cap Cats : \A y \in rows : y.id = save[s].match[k] => save[s].match[k] # x.id
      <4>1. \A y \in rows : y.id = x.id => y = x
        BY <1>4 DEF RowsFit
      <4> QED BY <1>2, <2>2, <4>1, PeriodAssumption DEF SaveFits
    <3> QED BY <1>3, <1>4, <2>4, <3>1, ChangedSame
  <2>6. save[s].alone => Remembers(save'[s], rows')
    BY <1>2, <1>5, <2>5, StillRemembers
  <2>7. x.kind \in Points
    BY <2>2 DEF Points
  <2> QED BY <1>1, <1>2, <1>3, <1>6, <2>1, <2>3, <2>6, <2>7, ChangeGoes
<1>8. CASE ~Exists(id)
  <2>1. MakeSingle(s, v)
    BY <1>8 DEF Scope1Writes
  <2>2. /\ used < MaxIds /\ used' = used + 1 /\ Remember(used + 1, save[s].prev1) /\ UNCHANGED past
        /\ rows' = Attaches(rows, save[s].emissions, "scope1", used + 1, v)
        /\ raced' = IF save[s].alone THEN raced ELSE raced \cup {used + 1}
    BY <2>1 DEF MakeSingle, Attaches
  <2>3. save[s].alone => save[s].prev1 = None
    BY <1>6, <1>8 DEF Tells, Exists
  <2>4. save[s].emissions \in 0..used /\ \A x \in rows : x.id = save[s].emissions => x.kind = "emissions"
    BY <1>2 DEF SaveFits
  <2>5. \A k \in save'[s].todo \cap Cats : SameRow(rows, rows', save[s].match[k])
    <3>1. \A k \in save'[s].todo \cap Cats : save[s].match[k] \in 0..used
      BY <1>2 DEF SaveFits
    <3> QED BY <1>4, <2>2, <3>1, AttachedSame
  <2>6. save[s].alone => Remembers(save'[s], rows')
    BY <1>2, <1>5, <2>5, StillRemembers
  <2>7. "scope1" \in Points /\ "scope1" \notin Cats
    BY PeriodAssumption DEF Points
  <2> QED BY <1>1, <1>2, <1>3, <2>2, <2>3, <2>4, <2>6, <2>7, PointGoes
<1> QED BY <1>7, <1>8

LEMMA UpsertCategoryKeeps == ASSUME PeriodInv, NEW s \in Savers, UpsertCategory(s) PROVE PeriodInv'
<1>1. PICK k \in Cats :
        /\ Does(s, k) /\ k \in save[s].todo /\ Set(s, Next1(s, k, {})) /\ UNCHANGED <<period, saves, script, doubled>>
        /\ IF Exists(save[s].match[k])
           THEN Change(s, save[s].match[k], CatsOf(save[s].body)[k], save[s].prev[k])
           ELSE /\ Exists(save[s].scope3) /\ used < MaxIds /\ used' = used + 1
                /\ rows' = rows \cup {Row(used + 1, save[s].scope3, k, CatsOf(save[s].body)[k])}
                /\ Remember(used + 1, save[s].prev[k])
                /\ raced' = IF save[s].alone THEN raced ELSE raced \cup {used + 1}
                /\ UNCHANGED past
  BY DEF UpsertCategory, Does
<1> DEFINE v == CatsOf(save[s].body)[k]
           id == save[s].match[k]
<1>2. /\ s \in Busy /\ save[s] \in SaveRecord /\ SaveFits(save[s], rows, used)
      /\ Moves(s) /\ Narrows(save'[s], save[s]) /\ save'[s].todo = save[s].todo \ {k}
  BY <1>1, StepTaken
<1>3. k \in DOMAIN CatsOf(save[s].body) /\ v \in Values
  <2>1. save[s].body \in Sendable
    BY <1>2 DEF SaveRecord
  <2>2. k \in DOMAIN CatsOf(save[s].body)
    BY <1>1, <1>2 DEF SaveFits
  <2> QED BY <2>1, <2>2, BodyIs
<1>4. Shapes /\ RowsFit(rows, used, period) /\ used \in Nat /\ period \in 0..used
  BY PeriodAssumption DEF PeriodInv, Shapes
<1>5. save[s].alone => Remembers(save[s], rows)
  BY <1>2 DEF PeriodInv
<1>6. save[s].alone => Tells(rows, id, v, save[s].prev[k])
  BY <1>1, <1>5 DEF Remembers
<1>7. CASE Exists(id)
  <2>1. PICK x \in rows : x.id = id
    BY <1>7 DEF Exists
  <2>2. x.kind = k /\ x.kind \in Points
    BY <1>1, <1>2, <2>1 DEF SaveFits, Points
  <2>3. Change(s, x.id, v, save[s].prev[k])
    BY <1>1, <1>7, <2>1
  <2>4. rows' = Changes(rows, x.id, v)
    BY <2>3 DEF Change, Changes
  <2>5. \A y \in rows : y.id = x.id => y = x
    BY <1>4 DEF RowsFit
  <2>6. \A j \in save'[s].todo \cap Cats : SameRow(rows, rows', save[s].match[j])
    <3>1. \A j \in save'[s].todo \cap Cats : \A y \in rows : y.id = save[s].match[j] => save[s].match[j] # x.id
      BY <1>2, <2>2, <2>5 DEF SaveFits
    <3> QED BY <1>3, <1>4, <2>4, <3>1, ChangedSame
  <2>7. SameRow(rows, rows', save[s].scope1)
    <3>1. \A y \in rows : y.id = save[s].scope1 => save[s].scope1 # x.id
      BY <1>2, <2>2, <2>5, PeriodAssumption DEF SaveFits
    <3> QED BY <1>3, <1>4, <2>4, <3>1, ChangedSame
  <2>8. save[s].alone => Remembers(save'[s], rows')
    BY <1>2, <1>5, <2>6, <2>7, StillRemembers
  <2> QED BY <1>1, <1>2, <1>3, <1>6, <2>1, <2>2, <2>3, <2>8, ChangeGoes
<1>8. CASE ~Exists(id)
  <2>1. /\ used < MaxIds /\ used' = used + 1 /\ Remember(used + 1, save[s].prev[k]) /\ UNCHANGED past
        /\ rows' = Adds(rows, save[s].scope3, k, used + 1, v)
        /\ raced' = IF save[s].alone THEN raced ELSE raced \cup {used + 1}
    BY <1>1, <1>8 DEF Adds
  <2>2. save[s].alone => save[s].prev[k] = None
    BY <1>6, <1>8 DEF Tells, Exists
  <2>3. save[s].scope3 \in 0..used /\ \A x \in rows : x.id = save[s].scope3 => x.kind = "scope3"
    BY <1>2 DEF SaveFits
  <2>4. \A j \in save'[s].todo \cap Cats : SameRow(rows, rows', save[s].match[j])
    <3>1. \A j \in save'[s].todo \cap Cats : save[s].match[j] \in 0..used
      BY <1>2 DEF SaveFits
    <3> QED BY <1>4, <2>1, <3>1, AddedSame
  <2>5. SameRow(rows, rows', save[s].scope1)
    BY <1>2, <1>4, <2>1, AddedSame DEF SaveFits
  <2>6. save[s].alone => Remembers(save'[s], rows')
    BY <1>2, <1>5, <2>4, <2>5, StillRemembers
  <2>7. k \in Points /\ k \notin save'[s].todo
    BY <1>2 DEF Points
  <2>8. k \notin doubled => \A x \in rows : ~(x.owner = save[s].scope3 /\ x.kind = k)
    <3>1. Knows(save[s], rows, doubled) /\ \A x \in rows : x.id # id
      BY <1>2, <1>8 DEF PeriodInv, Exists
    <3> QED BY <1>1, <3>1 DEF Knows
  <2> QED BY <1>1, <1>2, <1>3, <2>1, <2>2, <2>3, <2>6, <2>7, <2>8, PointGoes
<1> QED BY <1>7, <1>8

\* Every save in flight is noted as disturbed, or as one that another overlaps.
LEMMA DisturbedIs ==
    ASSUME Shapes
    PROVE  /\ Disturbed(save) = [s \in Savers |-> Disturbed(save)[s]]
           /\ \A s \in Savers : Disturbed(save)[s] = Idle <=> save[s] = Idle
           /\ \A s \in Savers \ Busy : Disturbed(save)[s] = save[s]
           /\ \A s \in Busy : /\ Disturbed(save)[s] \in SaveRecord /\ ~Disturbed(save)[s].alone
                              /\ Narrows(Disturbed(save)[s], save[s])
                              /\ Disturbed(save)[s].todo = save[s].todo
<1>1. \A s \in Savers : s \in Busy <=> save[s] # Idle
  BY BusyAre
<1>2. Nothing \in Views
  BY DEF Nothing, Views
<1>3. \A q \in SaveRecord : q # Idle
  BY DEF SaveRecord, Idle
<1>4. ASSUME NEW s \in Busy
      PROVE  /\ Disturbed(save)[s] \in SaveRecord /\ ~Disturbed(save)[s].alone
             /\ Narrows(Disturbed(save)[s], save[s])
             /\ Disturbed(save)[s].todo = save[s].todo
  <2>1. save[s] \in SaveRecord /\ s \in Savers
    BY BusyAre
  <2>2. Disturbed(save)[s] = [save[s] EXCEPT !.alone = FALSE, !.before = Nothing]
    BY <2>1 DEF Disturbed
  <2> DEFINE n == [save[s] EXCEPT !.alone = FALSE, !.before = Nothing]
  <2>3. n \in SaveRecord /\ ~n.alone /\ n.todo = save[s].todo /\ n.pc = save[s].pc
        /\ n.body = save[s].body /\ n.period = save[s].period /\ n.emissions = save[s].emissions
        /\ n.scope1 = save[s].scope1 /\ n.scope3 = save[s].scope3
        /\ n.match = save[s].match /\ n.prev = save[s].prev /\ n.prev1 = save[s].prev1
    BY <1>2, <2>1 DEF SaveRecord
  <2> QED BY <2>2, <2>3 DEF Narrows
<1>5. \A s \in Savers \ Busy : Disturbed(save)[s] = save[s]
  BY DEF Disturbed
<1>6. Disturbed(save) = [s \in Savers |-> Disturbed(save)[s]]
  BY DEF Disturbed
<1> QED BY <1>1, <1>3, <1>4, <1>5, <1>6

LEMMA DisturbsKeeps ==
    ASSUME PeriodInv, NEW ids, Delete(ids), save' = Disturbed(save),
           UNCHANGED <<used, past, raced, doubled>>, UNCHANGED period \/ period' = 0
    PROVE  PeriodInv'
<1>1. Shapes /\ used \in Nat
  BY PeriodAssumption DEF PeriodInv, Shapes
<1>2. /\ rows' \in SUBSET rows
      /\ used' \in 0..MaxIds /\ used <= used' /\ period' \in 0..used'
      /\ RowsFit(rows', used', period') /\ Unmade(metadata', past', used')
      /\ Follows(rows, rows', used) /\ OneEach(rows', doubled)
      /\ HistoryIn(rows', metadata', past', raced')
      /\ \A x \in rows' : ~(x.id > used)
  BY DeletionIs
<1>3. /\ save' = [s \in Savers |-> save'[s]] /\ \A s \in Savers : save'[s] = Idle <=> save[s] = Idle
      /\ \A s \in Savers \ Busy : save'[s] = save[s]
      /\ \A s \in Busy : /\ save'[s] \in SaveRecord /\ ~save'[s].alone
                         /\ Narrows(save'[s], save[s]) /\ save'[s].todo = save[s].todo
  BY <1>1, DisturbedIs
<1>4. \A s \in Savers : s \in Busy <=> save[s] # Idle
  BY <1>1, BusyAre
<1>5. \A s \in Busy : SaveFits(save'[s], rows', used') /\ Knows(save'[s], rows', doubled')
  <2> SUFFICES ASSUME NEW s \in Busy PROVE SaveFits(save'[s], rows', used') /\ Knows(save'[s], rows', doubled')
    OBVIOUS
  <2>1. SaveFits(save[s], rows, used) /\ Knows(save[s], rows, doubled) /\ Narrows(save'[s], save[s])
    BY <1>1, <1>3, BusyAre DEF PeriodInv
  <2>2. SaveFits(save'[s], rows, used) /\ Knows(save'[s], rows, doubled)
    BY <2>1, FewerSteps
  <2>3. SaveFits(save'[s], rows', used) /\ Knows(save'[s], rows', doubled)
    BY <1>1, <1>2, <2>2, FitsStill, KnowsStill
  <2> QED BY <2>3
<1>6. Shapes'
  <2>1. \A s \in Savers : save'[s] = Idle \/ (save'[s] \in SaveRecord /\ SaveFits(save'[s], rows', used'))
    BY <1>3, <1>4, <1>5
  <2> QED BY <1>2, <1>3, <2>1 DEF Shapes
<1>7. Busy' = Busy
  <2>1. \A s \in Savers : s \in Busy' <=> save'[s] # Idle
    <3>1. \A q \in SaveRecord : q.pc # "idle"
      BY DEF SaveRecord
    <3>2. \A s \in Savers : save'[s] = Idle \/ save'[s] \in SaveRecord
      BY <1>3, <1>4
    <3> QED BY <3>1, <3>2 DEF Busy, Idle
  <2> QED BY <1>3, <1>4, <2>1 DEF Busy
<1>8. Lone' /\ \A s \in Busy' : save'[s].alone => Remembers(save'[s], rows')
  BY <1>3, <1>7 DEF Lone
<1>9. Noted'
  BY <1>3, <1>7 DEF Noted, Narrows, PeriodInv
<1> QED BY <1>2, <1>5, <1>6, <1>7, <1>8, <1>9 DEF PeriodInv

LEMMA ShownIs == ASSUME Shapes PROVE Shown \in Views /\ Nothing \in Views
<1>1. \A x \in rows : x.val \in Values \cup {None}
  BY DEF Shapes, RowsFit, RowRecord
<1>2. {x.val : x \in IF Emissions = 0 THEN {} ELSE Below(Emissions, "scope1")} \in SUBSET (Values \cup {None})
  BY <1>1 DEF Below
<1>3. [k \in Cats |-> {x.val : x \in IF Scope3 = 0 THEN {} ELSE Below(Scope3, k)}] \in [Cats -> SUBSET (Values \cup {None})]
  BY <1>1 DEF Below
<1> QED BY <1>2, <1>3 DEF Shown, Nothing, Views

LEMMA BeginSaveKeeps == ASSUME PeriodInv, NEW s \in Savers, BeginSave(s) PROVE PeriodInv'
<1>1. PICK body \in Sendable :
        /\ save' = [Disturbed(save) EXCEPT ![s] =
            [pc |-> IF body.replaceAll THEN "list" ELSE "period", body |-> body, alone |-> Busy = {},
             lost |-> FALSE, before |-> IF Busy = {} THEN Shown ELSE Nothing, purge |-> <<>>, period |-> 0, emissions |-> 0,
             scope1 |-> 0, prev1 |-> None, scope3 |-> 0, match |-> <<>>, prev |-> <<>>,
             todo |-> {}]]
        /\ doubled' = doubled \cup {k \in DOMAIN CatsOf(body) :
                                        \E t \in Busy : k \in DOMAIN CatsOf(save[t].body)}
  BY DEF BeginSave
<1>2. save[s] = Idle /\ UNCHANGED <<period, rows, metadata, used, script, past, raced>> /\ Shapes /\ used \in Nat
  BY PeriodAssumption DEF BeginSave, PeriodInv, Shapes
<1> DEFINE pc == IF body.replaceAll THEN "list" ELSE "period"
           b == IF Busy = {} THEN Shown ELSE Nothing
           n == [pc |-> pc, body |-> body, alone |-> Busy = {},
             lost |-> FALSE, before |-> b, purge |-> <<>>, period |-> 0, emissions |-> 0,
             scope1 |-> 0, prev1 |-> None, scope3 |-> 0, match |-> <<>>, prev |-> <<>>,
             todo |-> {}]
<1>3. /\ Disturbed(save) = [t \in Savers |-> Disturbed(save)[t]]
      /\ \A t \in Savers : Disturbed(save)[t] = Idle <=> save[t] = Idle
      /\ \A t \in Savers \ Busy : Disturbed(save)[t] = save[t]
      /\ \A t \in Busy : /\ Disturbed(save)[t] \in SaveRecord /\ ~Disturbed(save)[t].alone
                         /\ Narrows(Disturbed(save)[t], save[t])
                         /\ Disturbed(save)[t].todo = save[t].todo
  BY <1>2, DisturbedIs
<1>4. /\ save' = [t \in Savers |-> save'[t]] /\ save'[s] = n
      /\ \A t \in Savers \ {s} : save'[t] = Disturbed(save)[t]
  BY <1>1, <1>3
<1>5. /\ n \in SaveRecord /\ n.body = body /\ n.todo = {} /\ n.pc # "points"
      /\ n.period = 0 /\ n.emissions = 0 /\ n.scope1 = 0 /\ n.scope3 = 0 /\ (n.alone => Busy = {})
  <2>1. pc \in {"list", "purge", "period", "emissions", "points"} /\ pc # "points"
    OBVIOUS
  <2>2. b \in Views
    BY <1>2, ShownIs
  <2>3. (Busy = {}) \in BOOLEAN
    OBVIOUS
  <2>4. <<>> \in MapsOfCats(Nat) /\ <<>> \in MapsOfCats(Values \cup {None})
    <3>1. {} \in SUBSET Cats /\ \A S : <<>> \in [{} -> S]
      OBVIOUS
    <3> QED BY <3>1 DEF MapsOfCats
  <2> DEFINE al == Busy = {}
  <2> HIDE DEF pc, b, al
  <2>5. n = [pc |-> pc, body |-> body, alone |-> al,
             lost |-> FALSE, before |-> b, purge |-> <<>>, period |-> 0, emissions |-> 0,
             scope1 |-> 0, prev1 |-> None, scope3 |-> 0, match |-> <<>>, prev |-> <<>>,
             todo |-> {}]
    BY DEF al
  <2>6. al \in BOOLEAN /\ (al => Busy = {})
    BY DEF al
  <2> HIDE DEF n
  <2> QED BY <2>1, <2>2, <2>4, <2>5, <2>6 DEF SaveRecord
<1>6. SaveFits(n, rows, used) /\ Knows(n, rows, doubled') /\ Remembers(n, rows)
  <2>1. \A x \in rows : x.id # 0
    BY <1>2 DEF Shapes, RowsFit
  <2>2. 0 \in 0..used
    BY <1>2
  <2> HIDE DEF n
  <2> QED BY <1>5, <2>1, <2>2 DEF SaveFits, Knows, Remembers
<1> HIDE DEF n
<1>7. \A t \in Savers : t \in Busy <=> save[t] # Idle
  BY <1>2, BusyAre
<1>8. \A t \in Busy : /\ t \in Savers \ {s} /\ save'[t] \in SaveRecord /\ ~save'[t].alone
                      /\ save'[t].body = save[t].body
                      /\ SaveFits(save'[t], rows, used) /\ Knows(save'[t], rows, doubled')
  <2> SUFFICES ASSUME NEW t \in Busy
               PROVE /\ t \in Savers \ {s} /\ save'[t] \in SaveRecord /\ ~save'[t].alone
                     /\ save'[t].body = save[t].body
                     /\ SaveFits(save'[t], rows, used) /\ Knows(save'[t], rows, doubled')
    OBVIOUS
  <2>1. t \in Savers \ {s} /\ save'[t] = Disturbed(save)[t]
    BY <1>2, <1>4, <1>7 DEF Busy
  <2>2. SaveFits(save[t], rows, used) /\ Knows(save[t], rows, doubled)
    BY <1>2, BusyAre DEF PeriodInv
  <2>3. Narrows(save'[t], save[t]) /\ save'[t] \in SaveRecord /\ ~save'[t].alone
    BY <1>3, <2>1
  <2>4. SaveFits(save'[t], rows, used) /\ Knows(save'[t], rows, doubled)
    BY <2>2, <2>3, FewerSteps
  <2>5. Knows(save'[t], rows, doubled')
    BY <1>1, <2>4 DEF Knows
  <2> QED BY <2>1, <2>3, <2>4, <2>5 DEF Narrows
<1>9. Busy' = Busy \cup {s} /\ s \notin Busy
  <2>1. \A q \in SaveRecord : q.pc # "idle"
    BY DEF SaveRecord
  <2>2. \A t \in Savers \ ({s} \cup Busy) : save'[t] = Idle
    BY <1>3, <1>4, <1>7
  <2>3. \A t \in Busy \cup {s} : t \in Savers /\ save'[t].pc # "idle"
    BY <1>4, <1>5, <1>8, <2>1
  <2>4. s \notin Busy
    BY <1>2, <1>7
  <2> QED BY <2>2, <2>3, <2>4 DEF Busy, Idle
<1>10. Shapes'
  <2>1. \A t \in Savers : save'[t] = Idle \/ (save'[t] \in SaveRecord /\ SaveFits(save'[t], rows, used))
    BY <1>3, <1>4, <1>5, <1>6, <1>7, <1>8
  <2> QED BY <1>2, <1>4, <2>1 DEF Shapes
<1>11. Lone'
  BY <1>4, <1>5, <1>8, <1>9 DEF Lone
<1>12. Noted'
  <2> SUFFICES ASSUME NEW t \in Busy \cup {s}, NEW w \in Busy \cup {s}, t # w,
                      NEW k \in DOMAIN CatsOf(save'[t].body) \cap DOMAIN CatsOf(save'[w].body)
               PROVE  k \in doubled'
    BY <1>9 DEF Noted
  <2>1. CASE t \in Busy /\ w \in Busy
    BY <1>1, <1>8, <2>1 DEF PeriodInv, Noted
  <2>2. CASE t = s
    BY <1>1, <1>4, <1>5, <1>8, <2>2
  <2>3. CASE w = s
    BY <1>1, <1>4, <1>5, <1>8, <2>3
  <2> QED BY <2>1, <2>2, <2>3
<1>13. \A t \in Busy' : Knows(save'[t], rows', doubled') /\ (save'[t].alone => Remembers(save'[t], rows'))
  BY <1>2, <1>4, <1>6, <1>8, <1>9
<1>14. OneEach(rows', doubled') /\ HistoryIn(rows', metadata', past', raced')
  BY <1>1, <1>2 DEF PeriodInv, OneEach
<1> QED BY <1>10, <1>11, <1>12, <1>13, <1>14 DEF PeriodInv

LEMMA PeriodInitial == ASSUME PeriodInit PROVE PeriodInv
<1>1. /\ period = 0 /\ rows = {} /\ metadata = {} /\ used = 0
      /\ save = [s \in Savers |-> Idle] /\ past = [id \in Ids |-> {}]
  BY DEF PeriodInit
<1>2. Busy = {}
  BY <1>1 DEF Busy, Idle
<1>3. Shapes
  <2>1. RowsFit(rows, used, period) /\ Unmade(metadata, past, used)
    BY <1>1 DEF RowsFit, Unmade
  <2> QED BY <1>1, <2>1, PeriodAssumption DEF Shapes
<1> QED BY <1>1, <1>2, <1>3 DEF PeriodInv, Lone, Noted, OneEach, HistoryIn

LEMMA PeriodStill == ASSUME PeriodInv, UNCHANGED <<period, rows, metadata, save, used, past, raced, doubled>> PROVE PeriodInv'
BY DEF PeriodInv, Shapes, Lone, Noted, Busy

LEMMA PeriodStep == PeriodInv /\ [PeriodNext]_pvars => PeriodInv'
<1> SUFFICES ASSUME PeriodInv, [PeriodNext]_pvars PROVE PeriodInv'
  OBVIOUS
<1>1. ASSUME NEW s \in Savers, SaveSteps(s) PROVE PeriodInv'
  BY <1>1, BeginSaveKeeps, ListAllKeeps, PurgeOneKeeps, PurgedKeeps, UpsertPeriodKeeps, UpsertEmissionsKeeps,
     Scope1ReadsKeeps, Scope1DeletesKeeps, Scope1WritesKeeps, UpsertScope3Keeps, UpsertCategoryKeeps,
     LoseStepKeeps, AnswerKeeps, EndsEarlyKeeps DEF SaveSteps
<1>2. CASE DeletePoint
  <2>1. PICK x \in rows : Delete({x.id}) /\ save' = Disturbed(save) /\ UNCHANGED <<period, used, past, raced, doubled>>
    BY <1>2 DEF DeletePoint
  <2> QED BY <2>1, DisturbsKeeps
<1>3. CASE DeletePeriod
  BY <1>3, DisturbsKeeps DEF DeletePeriod
<1>4. CASE ScriptMarks
  BY <1>4, PeriodStill DEF ScriptMarks
<1>5. CASE ScriptDeletes
  BY <1>5, DisturbsKeeps DEF ScriptDeletes
<1>6. CASE UNCHANGED pvars
  BY <1>6, PeriodStill DEF pvars
<1> QED BY <1>1, <1>2, <1>3, <1>4, <1>5, <1>6 DEF PeriodNext

LEMMA PeriodInvTells == ASSUME PeriodInv PROVE PeriodsAreWhole
<1>1. Shapes /\ RowsFit(rows, used, period) /\ used \in Nat
  BY PeriodAssumption DEF PeriodInv, Shapes
<1>2. OneRowPerCategory
  <2> SUFFICES ASSUME NEW x \in rows, x.kind \in Cats \ doubled PROVE Cardinality(Below(x.owner, x.kind)) = 1
    BY DEF OneRowPerCategory
  <2>1. Below(x.owner, x.kind) = {x}
    BY DEF PeriodInv, OneEach, Below
  <2> QED BY <2>1, FS_Singleton
<1>3. HistoryTellsAll
  <2> SUFFICES ASSUME NEW x \in rows, x.kind \in Points, x.id \notin raced
               PROVE  {[at |-> m.at, val |-> m.prev] : m \in {n \in MetadataOf({x.id}) : n.prev # None}} = past[x.id]
    BY DEF HistoryTellsAll
  <2>1. {n \in MetadataOf({x.id}) : n.prev # None} = {n \in metadata : n.row = x.id /\ n.prev # None}
    BY DEF MetadataOf
  <2>2. History(metadata, x.id) = past[x.id]
    BY DEF PeriodInv, HistoryIn
  <2> QED BY <2>1, <2>2 DEF History
<1> QED BY <1>2, <1>3 DEF PeriodsAreWhole

LEMMA PeriodInvHolds == PeriodSpec => []PeriodInv
<1>1. PeriodInit => PeriodInv
  BY PeriodInitial
<1> QED BY <1>1, PeriodStep, PTL DEF PeriodSpec

\* A category has one row, and the history of a row tells every value it had, unless saves have
\* overlapped on it.
THEOREM PeriodsHold == PeriodSpec => []PeriodsAreWhole
<1>1. PeriodInv => PeriodsAreWhole
  BY PeriodInvTells
<1> QED BY <1>1, PeriodInvHolds, PTL

-----------------------------------------------------------------------------
(***************************************************************************)
(* What a save that nothing disturbs makes of the year.                    *)
(***************************************************************************)

\* Below, IdBelow, Matching and Shown, of any rows R and period p.
In(R, o, k) == {x \in R : x.owner = o /\ x.kind = k}
IdIn(R, o, k) == IF o = 0 \/ In(R, o, k) = {} THEN 0 ELSE (CHOOSE x \in In(R, o, k) : TRUE).id
MatchingIn(R, o, k) == IF In(R, o, k) = {} THEN {0} ELSE {x.id : x \in In(R, o, k)}
ValuesIn(R, o, k) == {x.val : x \in IF o = 0 THEN {} ELSE In(R, o, k)}
EmissionsIn(R, p) == IdIn(R, p, "emissions")
Scope3In(R, p) == IdIn(R, EmissionsIn(R, p), "scope3")
ShownIn(R, p) == [scope1 |-> ValuesIn(R, EmissionsIn(R, p), "scope1"),
                  cats |-> [k \in Cats |-> ValuesIn(R, Scope3In(R, p), k)]]

SingleKinds == {"emissions", "scope1", "scope3"}
SinglesIn(R) == \A k \in SingleKinds : \A o : o # 0 => \A x, y \in In(R, o, k) : x = y

\* The rows that hold what is shown.
Visible(R, p) ==
    {x \in R : \/ EmissionsIn(R, p) # 0 /\ x.owner = EmissionsIn(R, p) /\ x.kind = "scope1"
               \/ Scope3In(R, p) # 0 /\ x.owner = Scope3In(R, p) /\ x.kind \in Cats}

Base(q) == IF q.body.replaceAll THEN Nothing ELSE q.before
ManyIn(R, o, k) == o # 0 /\ \E x, y \in In(R, o, k) : x # y

\* How far a save q has come that is alone and has lost no step.
Scope1Done(q, R) ==
    IF q.todo \cap {"read1", "write1"} # {}
    THEN ValuesIn(R, q.emissions, "scope1") = Base(q).scope1 /\ q.scope1 = IdIn(R, q.emissions, "scope1")
    ELSE ValuesIn(R, q.emissions, "scope1") = Applied(q.before, q.body).scope1
CatDone(q, R, k) ==
    IF k \in q.todo \/ "scope3" \in q.todo \/ k \notin DOMAIN CatsOf(q.body)
    THEN ValuesIn(R, q.scope3, k) = Base(q).cats[k]
    ELSE ValuesIn(R, q.scope3, k) = {CatsOf(q.body)[k]} \/ ManyIn(R, q.scope3, k)
Points1(q, R, p) ==
    /\ q.emissions = EmissionsIn(R, p) /\ q.emissions # 0 /\ q.scope3 = IdIn(R, q.emissions, "scope3")
    /\ Scope1Done(q, R)
    /\ \A k \in Cats : CatDone(q, R, k)
    /\ \A k \in q.todo \cap Cats : q.match[k] \in MatchingIn(R, q.scope3, k) /\ q.scope3 # 0
    /\ {"read1", "write1"} \cap q.todo # {"read1", "write1"}
Progress(q, R, p) ==
    /\ q.pc = "list" => ShownIn(R, p) = q.before /\ q.body.replaceAll
    /\ q.pc = "purge" => q.body.replaceAll /\ \A x \in Visible(R, p) : \E i \in DOMAIN q.purge : q.purge[i] = x.id
    /\ q.pc \in {"period", "emissions"} => ShownIn(R, p) = Base(q)
    /\ q.pc = "emissions" => q.period = p /\ p # 0 /\ q.emissions = EmissionsIn(R, p)
    /\ q.pc = "points" => Points1(q, R, p)

Advances == \A s \in Busy : save[s].alone /\ ~save[s].lost => Progress(save[s], rows, period)
OkInv == PeriodInv /\ SinglesIn(rows) /\ Advances

LEMMA InIs ==
    /\ \A o, k : Below(o, k) = In(rows, o, k) /\ IdBelow(o, k) = IdIn(rows, o, k)
                 /\ Matching(o, k) = MatchingIn(rows, o, k)
    /\ Emissions = EmissionsIn(rows, period) /\ Scope3 = Scope3In(rows, period)
    /\ Shown = ShownIn(rows, period)
<1>1. \A o, k : Below(o, k) = In(rows, o, k)
  BY DEF Below, In
<1>2. ASSUME NEW o, NEW k PROVE IdBelow(o, k) = IdIn(rows, o, k)
  BY Zenon DEF IdBelow, IdIn, Below, In
<1>3. \A o, k : Matching(o, k) = MatchingIn(rows, o, k)
  BY <1>1 DEF Matching, MatchingIn
<1>4. Emissions = EmissionsIn(rows, period)
  BY <1>2 DEF Emissions, EmissionsIn
<1>5. Scope3 = Scope3In(rows, period)
  BY <1>2, <1>4 DEF Scope3, Scope3In
<1>6. Shown = ShownIn(rows, period)
  BY <1>1, <1>4, <1>5 DEF Shown, ShownIn, ValuesIn
<1> QED BY <1>1, <1>2, <1>3, <1>4, <1>5, <1>6

\* All that is not of kind k is as it was.
Elsewhere(R, R2, k) == \A o, j : j # k => In(R2, o, j) = In(R, o, j)

LEMMA ElseIs ==
    ASSUME NEW R, NEW R2, NEW k, Elsewhere(R, R2, k)
    PROVE  \A o, j : j # k => /\ IdIn(R2, o, j) = IdIn(R, o, j) /\ MatchingIn(R2, o, j) = MatchingIn(R, o, j)
                              /\ ValuesIn(R2, o, j) = ValuesIn(R, o, j)
                              /\ ManyIn(R2, o, j) <=> ManyIn(R, o, j)
<1> SUFFICES ASSUME NEW o, NEW j, j # k
             PROVE  /\ IdIn(R2, o, j) = IdIn(R, o, j) /\ MatchingIn(R2, o, j) = MatchingIn(R, o, j)
                    /\ ValuesIn(R2, o, j) = ValuesIn(R, o, j)
                    /\ ManyIn(R2, o, j) <=> ManyIn(R, o, j)
  OBVIOUS
<1>1. In(R2, o, j) = In(R, o, j)
  BY DEF Elsewhere
<1>2. IdIn(R2, o, j) = IdIn(R, o, j)
  BY <1>1 DEF IdIn
<1>3. MatchingIn(R2, o, j) = MatchingIn(R, o, j)
  BY <1>1 DEF MatchingIn
<1>4. ValuesIn(R2, o, j) = ValuesIn(R, o, j)
  BY <1>1 DEF ValuesIn
<1>5. ManyIn(R2, o, j) <=> ManyIn(R, o, j)
  BY <1>1 DEF ManyIn
<1> QED BY <1>2, <1>3, <1>4, <1>5

LEMMA IdOfOne == ASSUME NEW R, NEW o, o # 0, NEW k, NEW r, In(R, o, k) = {r} PROVE IdIn(R, o, k) = r.id
<1>1. (CHOOSE x \in In(R, o, k) : TRUE) = r
  OBVIOUS
<1> QED BY <1>1 DEF IdIn

LEMMA SameIn == ASSUME NEW R, NEW R2, NEW o, NEW k, In(R2, o, k) = In(R, o, k)
                PROVE  IdIn(R2, o, k) = IdIn(R, o, k) /\ ValuesIn(R2, o, k) = ValuesIn(R, o, k)
BY DEF IdIn, ValuesIn

LEMMA IdInIs ==
    ASSUME NEW R, NEW u \in Nat, NEW p, RowsFit(R, u, p), NEW o, NEW k
    PROVE  /\ IdIn(R, o, k) = 0 => o = 0 \/ In(R, o, k) = {}
           /\ IdIn(R, o, k) # 0 => o # 0 /\ \E x \in In(R, o, k) : x.id = IdIn(R, o, k)
           /\ (\A x \in R : x.id # IdIn(R, o, k)) => IdIn(R, o, k) = 0
<1>1. CASE o = 0 \/ In(R, o, k) = {}
  BY <1>1 DEF IdIn
<1>2. CASE o # 0 /\ In(R, o, k) # {}
  <2>1. PICK x : x = CHOOSE y \in In(R, o, k) : TRUE
    OBVIOUS
  <2>2. x \in In(R, o, k) /\ IdIn(R, o, k) = x.id
    BY <1>2, <2>1 DEF IdIn
  <2>3. x \in R /\ x.id # 0
    BY <2>2 DEF In, RowsFit
  <2> QED BY <1>2, <2>2, <2>3
<1> QED BY <1>1, <1>2

\* R2 has the row e below o, alone of its kind, and is R elsewhere.
Replaced(R, R2, o, k, e) ==
    /\ Elsewhere(R, R2, k) /\ \A i : i # o /\ i # 0 => In(R2, i, k) = In(R, i, k)
    /\ o # 0 => In(R2, o, k) = {e}

LEMMA AttachElse ==
    ASSUME NEW R, NEW u \in Nat, NEW p, RowsFit(R, u, p), NEW o, NEW k, NEW v
    PROVE  Replaced(R, Attaches(R, o, k, u + 1, v), o, k, Row(u + 1, o, k, v))
<1> DEFINE R2 == Attaches(R, o, k, u + 1, v)
           e == Row(u + 1, o, k, v)
<1>1. \A x \in R : ~(x.owner = o /\ x.kind = k) => x \in R2
  BY DEF Attaches
<1>2. e \in R2 /\ e.kind = k /\ e.owner = o
  BY DEF Attaches, Row
<1>3. \A x \in R2 : x = e \/ (x \in R /\ ~(x.owner = o /\ x.kind = k)) \/ (x.owner = 0 /\ x.kind = k /\ o # 0) \/ (o = 0 /\ x.kind = k /\ x.owner = 0)
  <2>1. ASSUME NEW y \in R, y.owner = o, y.kind = k
        PROVE  [y EXCEPT !.owner = 0].owner = 0 /\ [y EXCEPT !.owner = 0].kind = k
    BY <2>1 DEF RowsFit, RowRecord
  <2> QED BY <2>1 DEF Attaches
<1> HIDE DEF R2, e
<1>4. \A i, j : j # k => In(R2, i, j) = In(R, i, j)
  BY <1>1, <1>2, <1>3 DEF In
<1>5. \A i : i # o /\ i # 0 => In(R2, i, k) = In(R, i, k)
  BY <1>1, <1>2, <1>3 DEF In
<1>6. o # 0 => In(R2, o, k) = {e}
  BY <1>2, <1>3 DEF In
<1> QED BY <1>4, <1>5, <1>6 DEF R2, e, Elsewhere, Replaced

LEMMA AddElse ==
    ASSUME NEW R, NEW id, NEW o, NEW k, NEW v
    PROVE  /\ Elsewhere(R, Adds(R, o, k, id, v), k)
           /\ In(Adds(R, o, k, id, v), o, k) = In(R, o, k) \cup {Row(id, o, k, v)}
<1> DEFINE e == Row(id, o, k, v)
           R2 == R \cup {e}
<1>1. e.kind = k /\ e.owner = o
  BY DEF Row
<1> HIDE DEF e
<1>2. Elsewhere(R, R2, k)
  BY <1>1 DEF Elsewhere, In
<1>3. In(R2, o, k) = In(R, o, k) \cup {e}
  BY <1>1 DEF In
<1> QED BY <1>2, <1>3 DEF e, Adds

\* R2 has the row r with the value v, and is R elsewhere.
Revalued(R, R2, r, v) ==
    /\ Elsewhere(R, R2, r.kind)
    /\ \A o, j : In(R, o, j) = {r} => \E x : In(R2, o, j) = {x} /\ x.val = v
    /\ \A o, j : \A y \in In(R, o, j) : \E x \in In(R2, o, j) : x.id = y.id
    /\ \A o, j : \A x \in In(R2, o, j) : \E y \in In(R, o, j) : x.id = y.id

LEMMA ChangeElse ==
    ASSUME NEW R, NEW u \in Nat, NEW p, RowsFit(R, u, p), NEW r \in R, NEW v \in Values
    PROVE  Revalued(R, Changes(R, r.id, v), r, v)
<1> DEFINE R2 == Changes(R, r.id, v)
           e == [r EXCEPT !.val = v]
<1>1. \A y \in R : y.id = r.id => y = r
  BY DEF RowsFit
<1>2. R2 = (R \ {r}) \cup {e}
  BY <1>1 DEF Changes
<1>3. e.owner = r.owner /\ e.kind = r.kind /\ e.id = r.id /\ e.val = v
  BY DEF RowsFit, RowRecord
<1> HIDE DEF R2, e
<1>4. Elsewhere(R, R2, r.kind)
  BY <1>2, <1>3 DEF Elsewhere, In
<1>5. ASSUME NEW o, NEW j, In(R, o, j) = {r}
      PROVE  \E x : In(R2, o, j) = {x} /\ x.val = v
  <2>1. In(R2, o, j) = {e}
    BY <1>2, <1>3, <1>5 DEF In
  <2> QED BY <1>3, <2>1
<1>6. \A o, j : \A y \in In(R, o, j) : \E x \in In(R2, o, j) : x.id = y.id
  BY <1>2, <1>3 DEF In
<1>7. \A o, j : \A x \in In(R2, o, j) : \E y \in In(R, o, j) : x.id = y.id
  BY <1>2, <1>3 DEF In
<1> QED BY <1>4, <1>5, <1>6, <1>7 DEF R2, Revalued

LEMMA DeleteElse ==
    ASSUME NEW R, NEW r \in R, NEW R2, R2 = {x \in R : x.id # r.id}, \A y \in R : y.id = r.id => y = r
    PROVE  /\ Elsewhere(R, R2, r.kind)
           /\ \A o : In(R, o, r.kind) = {r} => In(R2, o, r.kind) = {}
BY DEF Elsewhere, In

LEMMA SinglesFewer == ASSUME NEW R, NEW R2 \in SUBSET R, SinglesIn(R) PROVE SinglesIn(R2)
BY DEF SinglesIn, In

LEMMA SinglesAttached ==
    ASSUME NEW R, NEW u \in Nat, NEW p, RowsFit(R, u, p), NEW o, NEW k, NEW v, SinglesIn(R)
    PROVE  SinglesIn(Attaches(R, o, k, u + 1, v))
<1> DEFINE R2 == Attaches(R, o, k, u + 1, v)
<1>1. Replaced(R, R2, o, k, Row(u + 1, o, k, v))
  BY AttachElse
<1> HIDE DEF R2
<1> SUFFICES ASSUME NEW j \in SingleKinds, NEW i, i # 0, NEW x \in In(R2, i, j), NEW y \in In(R2, i, j)
             PROVE  x = y
  BY DEF SinglesIn, R2
<1>2. CASE j # k
  BY <1>1, <1>2 DEF Replaced, Elsewhere, SinglesIn
<1>3. CASE j = k /\ i # o
  BY <1>1, <1>3 DEF Replaced, SinglesIn
<1>4. CASE j = k /\ i = o
  BY <1>1, <1>4 DEF Replaced
<1> QED BY <1>2, <1>3, <1>4

LEMMA SinglesAdded ==
    ASSUME NEW R, NEW id, NEW o, NEW k \in Cats, NEW v, SinglesIn(R)
    PROVE  SinglesIn(Adds(R, o, k, id, v))
<1>1. Elsewhere(R, Adds(R, o, k, id, v), k)
  BY AddElse
<1>2. \A j \in SingleKinds : j # k
  BY PeriodAssumption DEF SingleKinds
<1> QED BY <1>1, <1>2 DEF Elsewhere, SinglesIn

LEMMA SinglesChanged ==
    ASSUME NEW R, NEW u \in Nat, NEW p, RowsFit(R, u, p), NEW r \in R, NEW v \in Values, SinglesIn(R)
    PROVE  SinglesIn(Changes(R, r.id, v))
<1>0. RowsFit(Changes(R, r.id, v), u, p)
  BY ChangedFit
<1>1. \A x, y \in Changes(R, r.id, v) : x.id = y.id => x = y
  BY <1>0 DEF RowsFit
<1>2. \A o, j : \A x \in In(Changes(R, r.id, v), o, j) : \E y \in In(R, o, j) : x.id = y.id
  <2>1. Revalued(R, Changes(R, r.id, v), r, v)
    BY ChangeElse
  <2> HIDE DEF Changes
  <2> QED BY <2>1 DEF Revalued
<1>3. \A o, j : In(Changes(R, r.id, v), o, j) \subseteq Changes(R, r.id, v)
  BY DEF In
<1> HIDE DEF Changes
<1> SUFFICES ASSUME NEW j \in SingleKinds, NEW o, o # 0, NEW x \in In(Changes(R, r.id, v), o, j),
                    NEW y \in In(Changes(R, r.id, v), o, j)
             PROVE  x = y
  BY DEF SinglesIn
<1>4. PICK a \in In(R, o, j) : x.id = a.id
  BY <1>2
<1>5. PICK b \in In(R, o, j) : y.id = b.id
  BY <1>2
<1> QED BY <1>1, <1>3, <1>4, <1>5 DEF SinglesIn

LEMMA OkMoves ==
    ASSUME OkInv, PeriodInv', NEW s \in Busy, Moves(s), SinglesIn(rows'),
           save[s].alone /\ save'[s] # Idle /\ ~save'[s].lost => Progress(save'[s], rows', period')
    PROVE  OkInv'
<1>1. ASSUME NEW t \in Busy', save'[t].alone, ~save'[t].lost PROVE Progress(save'[t], rows', period')
  <2>1. t \in Savers /\ save'[t] # Idle
    BY DEF Busy, Idle
  <2>2. CASE t = s
    BY <1>1, <2>1, <2>2 DEF Moves
  <2>3. CASE t # s
    <3>1. t \in Busy /\ save[t].alone
      BY <1>1, <2>1, <2>3 DEF Moves, Busy
    <3> QED BY <2>3, <3>1 DEF OkInv, PeriodInv, Lone
  <2> QED BY <2>2, <2>3
<1> QED BY <1>1 DEF OkInv, Advances

LEMMA OkFails == ASSUME OkInv, PeriodInv', NEW s \in Busy, Fails(s) PROVE OkInv'
<1>1. Moves(s) /\ save'[s] = Idle /\ rows' = rows
  BY SetIs DEF OkInv, PeriodInv, Busy, Fails, Set, Quiet, Moves
<1> QED BY <1>1, OkMoves DEF OkInv

LEMMA InFirst ==
    ASSUME NEW a \in Seq(Nat), NEW b \in Seq(Nat), NEW i, \E j \in DOMAIN a : a[j] = i
    PROVE  \E j \in DOMAIN (a \o b) : (a \o b)[j] = i
<1>1. PICK j \in 1..Len(a) : a[j] = i
  OBVIOUS
<1>2. j \in 1..Len(a \o b) /\ (a \o b)[j] = a[j]
  OBVIOUS
<1> QED BY <1>1, <1>2

LEMMA InLast ==
    ASSUME NEW a \in Seq(Nat), NEW y \in Nat
    PROVE  \E j \in DOMAIN (a \o <<y>>) : (a \o <<y>>)[j] = y
<1>1. Len(a) + 1 \in 1..Len(a \o <<y>>) /\ (a \o <<y>>)[Len(a) + 1] = y
  OBVIOUS
<1>2. PICK m : m = Len(a) + 1
  OBVIOUS
<1>3. m \in DOMAIN (a \o <<y>>) /\ (a \o <<y>>)[m] = y
  BY <1>1, <1>2
<1> QED BY <1>3

LEMMA SingleId ==
    ASSUME NEW R, NEW u \in Nat, NEW p, RowsFit(R, u, p), SinglesIn(R), NEW o, o # 0, NEW k \in SingleKinds,
           NEW x \in In(R, o, k)
    PROVE  IdIn(R, o, k) = x.id /\ x.id # 0 /\ In(R, o, k) = {x}
<1>1. In(R, o, k) = {x}
  BY DEF SinglesIn
<1>2. x.id # 0
  BY DEF In, RowsFit
<1> QED BY <1>1, <1>2 DEF IdIn

LEMMA OkListAll == ASSUME OkInv, PeriodInv', NEW s \in Savers, ListAll(s) PROVE OkInv'
<1> DEFINE cats == {x.id : x \in UNION {Below(Scope3, k) : k \in Cats}}
           one(id) == IF id = 0 THEN <<>> ELSE <<id>>
           pre == IF Scope3 = 0 THEN <<>> ELSE SetToSeq(cats) \o <<Scope3>>
           post == one(IdBelow(Emissions, "scope1"))
           l == pre \o post
<1>1. save[s].pc = "list" /\ save' = [save EXCEPT ![s] = [save[s] EXCEPT !.pc = "purge", !.purge = l]] /\ Quiet
  BY DEF ListAll, At, Set
<1>2. Shapes /\ RowsFit(rows, used, period) /\ used \in Nat
  BY PeriodAssumption DEF OkInv, PeriodInv, Shapes
<1>3. s \in Busy
  BY <1>1 DEF Busy
<1>4. save[s] \in SaveRecord
  BY <1>2, <1>3, BusyAre
<1>5. cats \in SUBSET (1..used)
  BY <1>2 DEF Below, RowsFit
<1>6. SetToSeq(cats) \in Seq(Nat) /\ \A i \in cats : \E j \in DOMAIN SetToSeq(cats) : SetToSeq(cats)[j] = i
  BY <1>2, <1>5, ListedIs, PeriodAssumption
<1>7. Scope3 \in Nat /\ IdBelow(Emissions, "scope1") \in Nat
  BY <1>2, IdBelowIs DEF Scope3
<1> HIDE DEF cats
<1>8. pre \in Seq(Nat) /\ post \in Seq(Nat)
  BY <1>6, <1>7
<1>9. ASSUME NEW x \in Visible(rows, period) PROVE \E i \in DOMAIN l : l[i] = x.id
  <2>0. Emissions = EmissionsIn(rows, period) /\ Scope3 = Scope3In(rows, period)
    BY InIs
  <2>1. CASE Emissions # 0 /\ x.owner = Emissions /\ x.kind = "scope1"
    <3>1. x \in In(rows, Emissions, "scope1") /\ "scope1" \in SingleKinds
      BY <2>1 DEF In, Visible, SingleKinds
    <3>2. IdBelow(Emissions, "scope1") = x.id /\ x.id # 0
      BY <1>2, <2>1, <3>1, SingleId, InIs DEF OkInv
    <3>3. post = <<x.id>>
      BY <3>2
    <3>4. x.id \in Nat
      BY <1>2, <3>1 DEF In, RowsFit
    <3>5. PICK a \in Seq(Nat), y \in Nat : a = pre /\ y = x.id
      BY <1>8, <3>4
    <3>6. \E j \in DOMAIN (a \o <<y>>) : (a \o <<y>>)[j] = y
      BY InLast
    <3>7. l = a \o <<y>>
      BY <3>3, <3>5
    <3> HIDE DEF l
    <3> QED BY <3>5, <3>6, <3>7
  <2>2. CASE Scope3 # 0 /\ x.owner = Scope3 /\ x.kind \in Cats
    <3>1. x.id \in cats
      BY <2>2 DEF cats, Below, Visible
    <3>2. <<Scope3>> \in Seq(Nat)
      BY <1>7
    <3>3. PICK c : c = SetToSeq(cats)
      OBVIOUS
    <3>4. c \in Seq(Nat) /\ \E j \in DOMAIN c : c[j] = x.id
      BY <1>6, <3>1, <3>3
    <3>5. \E j \in DOMAIN (c \o <<Scope3>>) : (c \o <<Scope3>>)[j] = x.id
      BY <3>2, <3>4, InFirst
    <3>6. \E j \in DOMAIN pre : pre[j] = x.id
      BY <2>2, <3>3, <3>5
    <3> HIDE DEF pre, post
    <3> QED BY <1>8, <3>6, InFirst
  <2> QED BY <2>0, <2>1, <2>2 DEF Visible
<1> HIDE DEF l
<1>10. save'[s] = [save[s] EXCEPT !.pc = "purge", !.purge = l]
  BY <1>1, <1>2, SetIs
<1>11. l \in Seq(Nat)
  BY <1>8 DEF l
<1>12. /\ save'[s] \in SaveRecord /\ save'[s].body = save[s].body /\ save'[s].alone = save[s].alone
       /\ save'[s].pc = "purge" /\ save'[s].purge = l /\ save'[s].lost = save[s].lost
  BY <1>4, <1>10, <1>11 DEF SaveRecord
<1>13. Moves(s)
  BY <1>1, <1>2, <1>12, SetIs DEF Moves
<1>14. ASSUME save[s].alone, ~save'[s].lost PROVE Progress(save'[s], rows', period')
  <2>1. Progress(save[s], rows, period)
    BY <1>3, <1>12, <1>14 DEF OkInv, Advances
  <2>2. save'[s].body.replaceAll
    BY <1>1, <1>12, <2>1 DEF Progress
  <2>3. rows' = rows /\ period' = period
    BY <1>1 DEF Quiet
  <2> QED BY <1>9, <1>12, <2>2, <2>3 DEF Progress
<1>15. SinglesIn(rows')
  BY <1>1 DEF Quiet, OkInv
<1> QED BY <1>3, <1>13, <1>14, <1>15, OkMoves

LEMMA IdFewer ==
    ASSUME NEW R, NEW u \in Nat, NEW p, RowsFit(R, u, p), SinglesIn(R), NEW R2 \in SUBSET R, NEW o,
           NEW k \in SingleKinds, IdIn(R2, o, k) # 0
    PROVE  IdIn(R, o, k) = IdIn(R2, o, k) /\ o # 0
<1>1. RowsFit(R2, u, p)
  BY FewerRows
<1>2. o # 0 /\ \E x \in In(R2, o, k) : x.id = IdIn(R2, o, k)
  BY <1>1, IdInIs
<1>3. PICK x \in In(R2, o, k) : x.id = IdIn(R2, o, k)
  BY <1>2
<1>4. x \in In(R, o, k)
  BY DEF In
<1> QED BY <1>2, <1>3, <1>4, SingleId

LEMMA VisibleFewer ==
    ASSUME NEW R, NEW u \in Nat, NEW p, RowsFit(R, u, p), SinglesIn(R), NEW R2 \in SUBSET R
    PROVE  Visible(R2, p) \subseteq Visible(R, p)
<1>1. "emissions" \in SingleKinds /\ "scope3" \in SingleKinds
  BY DEF SingleKinds
<1>2. EmissionsIn(R2, p) # 0 => EmissionsIn(R2, p) = EmissionsIn(R, p)
  BY <1>1, IdFewer DEF EmissionsIn
<1>3. Scope3In(R2, p) # 0 => Scope3In(R2, p) = Scope3In(R, p)
  <2>1. ASSUME Scope3In(R2, p) # 0 PROVE Scope3In(R2, p) = Scope3In(R, p)
    <3>1. IdIn(R2, EmissionsIn(R2, p), "scope3") # 0
      BY <2>1 DEF Scope3In
    <3>2. EmissionsIn(R2, p) # 0 /\ IdIn(R, EmissionsIn(R2, p), "scope3") = IdIn(R2, EmissionsIn(R2, p), "scope3")
      BY <1>1, <3>1, IdFewer
    <3> QED BY <1>2, <3>2 DEF Scope3In
  <2> QED BY <2>1
<1> QED BY <1>2, <1>3 DEF Visible

LEMMA OkPurgeOne == ASSUME OkInv, PeriodInv', NEW s \in Savers, PurgeOne(s) PROVE OkInv'
<1>1. save[s].pc = "purge" /\ save[s].purge # <<>>
  BY DEF PurgeOne, At
<1>2. Shapes /\ RowsFit(rows, used, period) /\ used \in Nat /\ s \in Busy
  BY <1>1, PeriodAssumption DEF OkInv, PeriodInv, Shapes, Busy
<1>3. save[s] \in SaveRecord
  BY <1>2, BusyAre
<1>4. CASE Fails(s)
  BY <1>2, <1>4, OkFails
<1>5. CASE /\ Delete({Head(save[s].purge)})
           /\ save' = [save EXCEPT ![s] = [save[s] EXCEPT !.purge = Tail(@)]]
           /\ UNCHANGED <<period, used, saves, script, past, raced, doubled>>
  <2>0. Tail(save[s].purge) \in Seq(Nat)
    BY <1>1, <1>3 DEF SaveRecord
  <2>1. PICK t \in Seq(Nat) : t = Tail(save[s].purge)
    BY <2>0
  <2>2. save'[s] = [save[s] EXCEPT !.purge = t]
    BY <1>2, <1>5, <2>1, SetIs
  <2>3. /\ save'[s] \in SaveRecord /\ save'[s].body = save[s].body /\ save'[s].alone = save[s].alone
        /\ save'[s].pc = "purge" /\ save'[s].purge = t /\ save'[s].lost = save[s].lost
    BY <1>1, <1>3, <2>2 DEF SaveRecord
  <2>4. Moves(s)
    BY <1>2, <1>5, <2>3, SetIs DEF Moves
  <2>5. rows' \in SUBSET rows /\ \A x \in rows' : x.id # Head(save[s].purge)
    BY <1>5 DEF Delete, Cascade, WithChildren
  <2>6. SinglesIn(rows')
    BY <2>5, SinglesFewer DEF OkInv
  <2>7. ASSUME save[s].alone, ~save'[s].lost PROVE Progress(save'[s], rows', period')
    <3>1. Progress(save[s], rows, period)
      BY <1>2, <2>3, <2>7 DEF OkInv, Advances
    <3>2. save[s].body.replaceAll /\ \A x \in Visible(rows, period) : \E i \in DOMAIN save[s].purge : save[s].purge[i] = x.id
      BY <1>1, <3>1 DEF Progress
    <3>3. Visible(rows', period) \subseteq Visible(rows, period) /\ Visible(rows', period) \subseteq rows'
      BY <1>2, <2>5, VisibleFewer DEF OkInv, Visible
    <3>4. ASSUME NEW x \in Visible(rows', period) PROVE \E i \in DOMAIN t : t[i] = x.id
      <4>1. PICK i \in DOMAIN save[s].purge : save[s].purge[i] = x.id
        BY <3>2, <3>3
      <4>2. x.id # Head(save[s].purge)
        BY <2>5, <3>3
      <4>3. save[s].purge \in Seq(Nat)
        BY <1>3 DEF SaveRecord
      <4>4. PICK l : l = save[s].purge
        OBVIOUS
      <4>5. l \in Seq(Nat) /\ l # <<>> /\ t = Tail(l) /\ i \in 1..Len(l) /\ l[i] = x.id /\ x.id # l[1]
        BY <1>1, <2>1, <4>1, <4>2, <4>3, <4>4
      <4>6. i - 1 \in 1..Len(t) /\ t[i - 1] = l[i]
        BY <4>5
      <4> QED BY <2>1, <4>5, <4>6
    <3>5. period' = period
      BY <1>5
    <3> QED BY <2>3, <3>2, <3>4, <3>5 DEF Progress
  <2> QED BY <1>2, <2>4, <2>6, <2>7, OkMoves
<1> QED BY <1>4, <1>5 DEF PurgeOne, Set

LEMMA OkPurged == ASSUME OkInv, PeriodInv', NEW s \in Savers, Purged(s) PROVE OkInv'
<1>1. save[s].pc = "purge" /\ save[s].purge = <<>> /\ save' = [save EXCEPT ![s] = [save[s] EXCEPT !.pc = "period"]] /\ Quiet
  BY DEF Purged, At, Set
<1>2. Shapes /\ RowsFit(rows, used, period) /\ used \in Nat /\ s \in Busy
  BY <1>1, PeriodAssumption DEF OkInv, PeriodInv, Shapes, Busy
<1>3. save[s] \in SaveRecord
  BY <1>2, BusyAre
<1>4. save'[s] = [save[s] EXCEPT !.pc = "period"]
  BY <1>1, <1>2, SetIs
<1>5. /\ save'[s] \in SaveRecord /\ save'[s].body = save[s].body /\ save'[s].alone = save[s].alone
      /\ save'[s].pc = "period" /\ save'[s].lost = save[s].lost /\ save'[s].before = save[s].before
  BY <1>3, <1>4 DEF SaveRecord
<1>6. Moves(s)
  BY <1>1, <1>2, <1>5, SetIs DEF Moves
<1>7. rows' = rows /\ period' = period
  BY <1>1 DEF Quiet
<1>8. ASSUME save[s].alone, ~save'[s].lost PROVE Progress(save'[s], rows', period')
  <2>1. Progress(save[s], rows, period)
    BY <1>2, <1>5, <1>8 DEF OkInv, Advances
  <2>2. save[s].body.replaceAll /\ Visible(rows, period) = {}
    BY <1>1, <2>1 DEF Progress
  <2>3. ValuesIn(rows, EmissionsIn(rows, period), "scope1") = {}
    BY <2>2 DEF Visible, ValuesIn, In
  <2>4. \A k \in Cats : ValuesIn(rows, Scope3In(rows, period), k) = {}
    BY <2>2 DEF Visible, ValuesIn, In
  <2>5. ShownIn(rows, period) = Nothing
    BY <2>3, <2>4 DEF ShownIn, Nothing
  <2> QED BY <1>5, <1>7, <2>2, <2>5 DEF Progress, Base
<1>9. SinglesIn(rows')
  BY <1>7 DEF OkInv
<1> QED BY <1>2, <1>6, <1>8, <1>9, OkMoves

LEMMA OkUpsertPeriod == ASSUME OkInv, PeriodInv', NEW s \in Savers, UpsertPeriod(s) PROVE OkInv'
<1>1. /\ save[s].pc = "period"
      /\ period' = IF period = 0 THEN used + 1 ELSE period
      /\ save' = [save EXCEPT ![s] = [save[s] EXCEPT !.pc = "emissions", !.period = period', !.emissions = Emissions]]
      /\ UNCHANGED rows
  BY DEF UpsertPeriod, At, Set
<1>2. Shapes /\ RowsFit(rows, used, period) /\ used \in Nat /\ s \in Busy /\ period \in 0..used
  BY <1>1, PeriodAssumption DEF OkInv, PeriodInv, Shapes, Busy
<1>3. save[s] \in SaveRecord
  BY <1>2, BusyAre
<1>4. PICK e \in Nat, p \in Nat : e = Emissions /\ p = period'
  BY <1>1, <1>2, IdBelowIs DEF Emissions
<1>5. save'[s] = [save[s] EXCEPT !.pc = "emissions", !.period = p, !.emissions = e]
  BY <1>1, <1>2, <1>4, SetIs
<1>6. /\ save'[s] \in SaveRecord /\ save'[s].body = save[s].body /\ save'[s].alone = save[s].alone
      /\ save'[s].pc = "emissions" /\ save'[s].lost = save[s].lost /\ save'[s].before = save[s].before
      /\ save'[s].period = p /\ save'[s].emissions = e
  BY <1>3, <1>5 DEF SaveRecord
<1>7. Moves(s)
  BY <1>1, <1>2, <1>6, SetIs DEF Moves
<1>8. p # 0 /\ e = EmissionsIn(rows, p) /\ EmissionsIn(rows, p) = EmissionsIn(rows, period)
  <2>1. e = EmissionsIn(rows, period)
    BY <1>4, InIs
  <2>2. CASE period # 0
    BY <1>1, <1>4, <2>1, <2>2
  <2>3. CASE period = 0
    <3>1. p = used + 1 /\ \A x \in rows : x.owner # p
      BY <1>1, <1>2, <1>4, <2>3 DEF RowsFit
    <3>2. EmissionsIn(rows, p) = 0 /\ EmissionsIn(rows, period) = 0
      BY <2>3, <3>1 DEF EmissionsIn, IdIn, In
    <3> QED BY <1>2, <2>1, <3>1, <3>2
  <2> QED BY <2>2, <2>3
<1>9. ASSUME save[s].alone, ~save'[s].lost PROVE Progress(save'[s], rows', period')
  <2>1. Progress(save[s], rows, period)
    BY <1>2, <1>6, <1>9 DEF OkInv, Advances
  <2>2. ShownIn(rows, period) = Base(save[s])
    BY <1>1, <2>1 DEF Progress
  <2>3. ShownIn(rows, p) = ShownIn(rows, period)
    BY <1>8 DEF ShownIn, Scope3In
  <2>4. Base(save'[s]) = Base(save[s])
    BY <1>6 DEF Base
  <2> QED BY <1>1, <1>4, <1>6, <1>8, <2>2, <2>3, <2>4 DEF Progress
<1>10. SinglesIn(rows')
  BY <1>1 DEF OkInv
<1> QED BY <1>2, <1>7, <1>9, <1>10, OkMoves

LEMMA AppliedIs ==
    ASSUME NEW q
    PROVE  /\ q.body.scope1 = "absent" => Applied(q.before, q.body).scope1 = Base(q).scope1
           /\ q.body.scope1 = "null" => Applied(q.before, q.body).scope1 = {}
           /\ q.body.scope1 \in Values => Applied(q.before, q.body).scope1 = {q.body.scope1}
           /\ \A k \in Cats : Applied(q.before, q.body).cats[k] =
                 IF k \in DOMAIN CatsOf(q.body) THEN {CatsOf(q.body)[k]} ELSE Base(q).cats[k]
           /\ Applied(q.before, q.body) = [scope1 |-> Applied(q.before, q.body).scope1,
                                           cats |-> [k \in Cats |-> Applied(q.before, q.body).cats[k]]]
<1> DEFINE b == Base(q)
           v == CASE q.body.scope1 = "absent" -> b.scope1
                  [] q.body.scope1 = "null" -> {}
                  [] OTHER -> {q.body.scope1}
           c == [k \in Cats |-> IF k \in DOMAIN CatsOf(q.body) THEN {CatsOf(q.body)[k]} ELSE b.cats[k]]
<1>1. Applied(q.before, q.body) = [scope1 |-> v, cats |-> c]
  BY DEF Applied, Base
<1>2. /\ q.body.scope1 = "absent" => v = b.scope1
      /\ q.body.scope1 = "null" => v = {}
      /\ q.body.scope1 \in Values => v = {q.body.scope1}
  BY PeriodAssumption
<1>3. \A k \in Cats : c[k] = IF k \in DOMAIN CatsOf(q.body) THEN {CatsOf(q.body)[k]} ELSE b.cats[k]
  OBVIOUS
<1>4. c = [k \in Cats |-> c[k]]
  OBVIOUS
<1> HIDE DEF v, c, b
<1>5. Applied(q.before, q.body).scope1 = v /\ Applied(q.before, q.body).cats = c
  BY <1>1
<1> QED BY <1>1, <1>2, <1>3, <1>4, <1>5 DEF b

LEMMA TodoNot ==
    ASSUME NEW b \in Sendable, NEW e
    PROVE  /\ "read1" \notin Todo(b, e) => b.scope1 = "absent" \/ (b.scope1 = "null" /\ IdBelow(e, "scope1") = 0)
           /\ \A k \in DOMAIN CatsOf(b) : "scope3" \in Todo(b, e)
<1>1. "read1" \notin Todo(b, e) => b.scope1 = "absent" \/ (b.scope1 = "null" /\ IdBelow(e, "scope1") = 0)
  BY DEF Todo, Drops
<1>2. b.scope3 \/ CatsOf(b) = <<>>
  BY DEF Sendable, CatsOf
<1>3. DOMAIN CatsOf(b) # {} => b.scope3
  BY <1>2
<1> QED BY <1>1, <1>3 DEF Todo

\* A save has read what is below the emissions.
LEMMA PointsBegin ==
    ASSUME NEW R, NEW p, NEW n, NEW e, n.body \in Sendable,
           n.todo \subseteq {"read1", "scope3"}, \A k \in DOMAIN CatsOf(n.body) : "scope3" \in n.todo,
           "read1" \notin n.todo => n.body.scope1 = "absent" \/ (n.body.scope1 = "null" /\ ValuesIn(R, e, "scope1") = {}),
           n.emissions = e, e = EmissionsIn(R, p), e # 0, n.scope1 = IdIn(R, e, "scope1"),
           n.scope3 = IdIn(R, e, "scope3"), ShownIn(R, p) = Base(n)
    PROVE  Points1(n, R, p)
<1>1. n.scope3 = Scope3In(R, p)
  BY DEF Scope3In
<1>2. ValuesIn(R, e, "scope1") = Base(n).scope1 /\ \A k \in Cats : ValuesIn(R, n.scope3, k) = Base(n).cats[k]
  <2>1. ShownIn(R, p).scope1 = ValuesIn(R, e, "scope1")
    BY DEF ShownIn
  <2>2. \A k \in Cats : ShownIn(R, p).cats[k] = ValuesIn(R, n.scope3, k)
    BY <1>1 DEF ShownIn
  <2> QED BY <2>1, <2>2
<1>3. Scope1Done(n, R)
  <2>1. CASE "read1" \in n.todo
    BY <1>2, <2>1 DEF Scope1Done
  <2>2. CASE "read1" \notin n.todo
    <3>1. n.todo \cap {"read1", "write1"} = {}
      BY <2>2
    <3>2. ValuesIn(R, e, "scope1") = Applied(n.before, n.body).scope1
      BY <1>2, <2>2, AppliedIs
    <3> QED BY <3>1, <3>2 DEF Scope1Done
  <2> QED BY <2>1, <2>2
<1>4. \A k \in Cats : CatDone(n, R, k)
  BY <1>2 DEF CatDone
<1>5. n.todo \cap Cats = {} /\ "write1" \notin n.todo
  BY PeriodAssumption
<1> QED BY <1>3, <1>4, <1>5 DEF Points1

LEMMA OkUpsertEmissions == ASSUME OkInv, PeriodInv', NEW s \in Savers, UpsertEmissions(s) PROVE OkInv'
<1> DEFINE n1 == [save[s] EXCEPT !.pc = "points", !.todo = Todo(save[s].body, save[s].emissions),
                        !.scope1 = IdBelow(save[s].emissions, "scope1"), !.scope3 = IdBelow(save[s].emissions, "scope3")]
           n2 == [save[s] EXCEPT !.pc = "points", !.emissions = used + 1, !.todo = Todo(save[s].body, 0)]
<1>1. save[s].pc = "emissions"
  BY DEF UpsertEmissions, At
<1>2. Shapes /\ RowsFit(rows, used, period) /\ used \in Nat /\ s \in Busy /\ period \in 0..used
  BY <1>1, PeriodAssumption DEF OkInv, PeriodInv, Shapes, Busy
<1>3. save[s] \in SaveRecord /\ SaveFits(save[s], rows, used)
  BY <1>2, BusyAre
<1>4. save[s].body \in Sendable /\ save[s].scope1 = 0 /\ save[s].scope3 = 0
  BY <1>1, <1>3 DEF SaveRecord, SaveFits
<1>5. \A x : /\ Todo(save[s].body, x) \subseteq {"read1", "scope3"}
             /\ Todo(save[s].body, x) \in SUBSET PointSteps
             /\ \A k \in DOMAIN CatsOf(save[s].body) : "scope3" \in Todo(save[s].body, x)
             /\ "read1" \notin Todo(save[s].body, x) =>
                   save[s].body.scope1 = "absent" \/ (save[s].body.scope1 = "null" /\ IdBelow(x, "scope1") = 0)
  BY <1>4, TodoIs, TodoNot DEF PointSteps
<1>6. ASSUME save[s].alone, ~save[s].lost
      PROVE  ShownIn(rows, period) = Base(save[s]) /\ save[s].period = period /\ period # 0
             /\ save[s].emissions = EmissionsIn(rows, period)
  BY <1>1, <1>2, <1>6 DEF OkInv, Advances, Progress
<1>7. CASE Fails(s)
  BY <1>2, <1>7, OkFails
<1>8. CASE Exists(save[s].emissions) /\ save' = [save EXCEPT ![s] = n1] /\ Quiet
  <2>1. PICK e \in Nat, i1 \in Nat, i3 \in Nat, td \in SUBSET PointSteps :
           /\ e = save[s].emissions /\ i1 = IdBelow(e, "scope1") /\ i3 = IdBelow(e, "scope3")
           /\ td = Todo(save[s].body, e)
    <3>1. \A x : IdBelow(x, "scope1") \in Nat /\ IdBelow(x, "scope3") \in Nat
      BY <1>2, IdBelowIs
    <3> QED BY <1>3, <1>5, <3>1 DEF SaveRecord
  <2>2. save'[s] = [save[s] EXCEPT !.pc = "points", !.todo = td, !.scope1 = i1, !.scope3 = i3]
    BY <1>2, <1>8, <2>1, SetIs
  <2>3. /\ save'[s] \in SaveRecord /\ save'[s].body = save[s].body /\ save'[s].alone = save[s].alone
        /\ save'[s].pc = "points" /\ save'[s].lost = save[s].lost /\ save'[s].before = save[s].before
        /\ save'[s].emissions = e /\ save'[s].scope1 = i1 /\ save'[s].scope3 = i3 /\ save'[s].todo = td
    BY <1>3, <2>1, <2>2 DEF SaveRecord
  <2>4. Moves(s)
    BY <1>2, <1>8, <2>3, SetIs DEF Moves
  <2>5. rows' = rows /\ period' = period
    BY <1>8 DEF Quiet
  <2>6. ASSUME save[s].alone, ~save'[s].lost PROVE Progress(save'[s], rows', period')
    <3>1. ShownIn(rows, period) = Base(save[s]) /\ e = EmissionsIn(rows, period)
      BY <1>6, <2>1, <2>3, <2>6
    <3>2. e # 0
      BY <1>2, <1>8, <2>1 DEF Exists, RowsFit
    <3>3. i1 = IdIn(rows, e, "scope1") /\ i3 = IdIn(rows, e, "scope3")
      BY <2>1, InIs
    <3>4. i1 = 0 => ValuesIn(rows, e, "scope1") = {}
      BY <1>2, <3>3, IdInIs DEF ValuesIn
    <3>5. /\ save'[s].body \in Sendable /\ save'[s].todo \subseteq {"read1", "scope3"}
          /\ \A k \in DOMAIN CatsOf(save'[s].body) : "scope3" \in save'[s].todo
          /\ "read1" \notin save'[s].todo => save'[s].body.scope1 = "absent"
                \/ (save'[s].body.scope1 = "null" /\ ValuesIn(rows, e, "scope1") = {})
      BY <1>4, <1>5, <2>1, <2>3, <3>4
    <3>6. Base(save'[s]) = Base(save[s])
      BY <2>3 DEF Base
    <3>7. Points1(save'[s], rows, period)
      BY <2>3, <3>1, <3>2, <3>3, <3>5, <3>6, PointsBegin
    <3> QED BY <2>3, <2>5, <3>7 DEF Progress
  <2>7. SinglesIn(rows')
    BY <2>5 DEF OkInv
  <2> QED BY <1>2, <2>4, <2>6, <2>7, OkMoves
<1>9. CASE /\ ~Exists(save[s].emissions) /\ save[s].period = period /\ used < MaxIds /\ used' = used + 1
           /\ Attach(period, "emissions", used + 1)
           /\ save' = [save EXCEPT ![s] = n2]
           /\ UNCHANGED <<period, metadata, saves, script, past, raced, doubled>>
  <2>1. PICK u \in Nat, td \in SUBSET PointSteps : u = used + 1 /\ td = Todo(save[s].body, 0)
    BY <1>2, <1>5
  <2>2. save'[s] = [save[s] EXCEPT !.pc = "points", !.emissions = u, !.todo = td]
    BY <1>2, <1>9, <2>1, SetIs
  <2>3. /\ save'[s] \in SaveRecord /\ save'[s].body = save[s].body /\ save'[s].alone = save[s].alone
        /\ save'[s].pc = "points" /\ save'[s].lost = save[s].lost /\ save'[s].before = save[s].before
        /\ save'[s].emissions = u /\ save'[s].scope1 = 0 /\ save'[s].scope3 = 0 /\ save'[s].todo = td
    BY <1>3, <1>4, <2>1, <2>2 DEF SaveRecord
  <2>4. Moves(s)
    BY <1>2, <1>9, <2>3, SetIs DEF Moves
  <2>5. rows' = Attaches(rows, period, "emissions", used + 1, None) /\ period' = period
    BY <1>9 DEF Attach, Attaches
  <2>6. SinglesIn(rows')
    BY <1>2, <2>5, SinglesAttached DEF OkInv
  <2>7. ASSUME save[s].alone, ~save'[s].lost PROVE Progress(save'[s], rows', period')
    <3>1. ShownIn(rows, period) = Base(save[s]) /\ save[s].emissions = EmissionsIn(rows, period) /\ period # 0
      BY <1>6, <2>3, <2>7
    <3>2. Replaced(rows, rows', period, "emissions", Row(used + 1, period, "emissions", None))
      BY <1>2, <2>5, AttachElse
    <3>3. In(rows', period, "emissions") = {Row(used + 1, period, "emissions", None)}
      BY <3>1, <3>2 DEF Replaced
    <3>4. EmissionsIn(rows', period) = u
      <4>1. Row(used + 1, period, "emissions", None).id = u
        BY <2>1 DEF Row
      <4>2. PICK R : R = rows'
        OBVIOUS
      <4>3. IdIn(R, period, "emissions") = u
        BY <3>1, <3>3, <4>1, <4>2, IdOfOne
      <4> QED BY <4>2, <4>3 DEF EmissionsIn
    <3>5. \A j : j # "emissions" => In(rows', u, j) = {}
      <4>1. \A j : In(rows, u, j) = {}
        BY <1>2, <2>1 DEF In, RowsFit
      <4> QED BY <3>2, <4>1 DEF Replaced, Elsewhere
    <3>6. IdIn(rows', u, "scope1") = 0 /\ IdIn(rows', u, "scope3") = 0 /\ ValuesIn(rows', u, "scope1") = {}
      BY <3>5 DEF IdIn, ValuesIn
    <3>7. EmissionsIn(rows, period) = 0
      <4>1. \A x \in rows : x.id # IdIn(rows, period, "emissions")
        BY <1>9, <3>1 DEF Exists, EmissionsIn
      <4> QED BY <1>2, <4>1, IdInIs DEF EmissionsIn
    <3>8. ShownIn(rows, period) = Nothing
      <4>1. Scope3In(rows, period) = 0
        BY <3>7 DEF Scope3In, IdIn
      <4> QED BY <3>7, <4>1 DEF ShownIn, Nothing, ValuesIn
    <3>9. ShownIn(rows', period) = Nothing
      <4>1. Scope3In(rows', period) = 0
        BY <3>4, <3>6 DEF Scope3In
      <4>2. \A k \in Cats : ValuesIn(rows', Scope3In(rows', period), k) = {}
        BY <4>1 DEF ValuesIn
      <4> QED BY <3>4, <3>6, <4>2 DEF ShownIn, Nothing
    <3>10. Base(save'[s]) = Base(save[s])
      BY <2>3 DEF Base
    <3>11. u # 0
      BY <1>2, <2>1
    <3>12. /\ save'[s].body \in Sendable /\ save'[s].todo \subseteq {"read1", "scope3"}
           /\ \A k \in DOMAIN CatsOf(save'[s].body) : "scope3" \in save'[s].todo
           /\ "read1" \notin save'[s].todo => save'[s].body.scope1 = "absent"
                 \/ (save'[s].body.scope1 = "null" /\ ValuesIn(rows', u, "scope1") = {})
      BY <1>4, <1>5, <2>1, <2>3, <3>6
    <3>13. ShownIn(rows', period) = Base(save'[s])
      BY <3>1, <3>8, <3>9, <3>10
    <3>14. PICK R : R = rows'
      OBVIOUS
    <3>15. Points1(save'[s], R, period)
      BY <2>3, <3>4, <3>6, <3>11, <3>12, <3>13, <3>14, PointsBegin
    <3> QED BY <2>3, <2>5, <3>14, <3>15 DEF Progress
  <2> QED BY <1>2, <2>4, <2>6, <2>7, OkMoves
<1> QED BY <1>7, <1>8, <1>9 DEF UpsertEmissions, Set

\* n is q with the step taken.
Takes(n, q, step) ==
    /\ n.pc = q.pc /\ n.body = q.body /\ n.before = q.before /\ n.lost = q.lost /\ n.alone = q.alone
    /\ n.emissions = q.emissions /\ n.scope1 = q.scope1 /\ n.scope3 = q.scope3 /\ n.match = q.match
    /\ n.todo = q.todo \ {step}

\* A save that has taken a step at its data points.
LEMMA OkPoints ==
    ASSUME OkInv, PeriodInv', NEW s \in Busy, Moves(s), SinglesIn(rows'), period' = period,
           save[s].pc = "points", save'[s].pc = "points",
           ~save'[s].lost => ~save[s].lost,
           ~save'[s].lost /\ Points1(save[s], rows, period) => Points1(save'[s], rows', period)
    PROVE  OkInv'
<1>1. ASSUME save[s].alone, ~save'[s].lost PROVE Progress(save'[s], rows', period')
  <2>1. Points1(save[s], rows, period)
    BY <1>1 DEF OkInv, Advances, Progress
  <2>2. Points1(save'[s], rows', period)
    BY <1>1, <2>1
  <2> QED BY <2>2 DEF Progress
<1> QED BY <1>1, OkMoves

LEMMA StepTakes ==
    ASSUME PeriodInv, NEW s \in Savers, NEW step, Does(s, step), Set(s, Next1(s, step, {}))
    PROVE  Takes(save'[s], save[s], step) /\ save[s].pc = "points" /\ step \in save[s].todo
<1>1. Shapes /\ save[s].pc = "points" /\ step \in save[s].todo
  BY DEF PeriodInv, Does, At
<1>2. save[s] \in SaveRecord
  BY <1>1, BusyAre DEF Busy
<1> DEFINE td == (save[s].todo \ {step}) \cup {}
<1>3. td = save[s].todo \ {step}
  OBVIOUS
<1>4. save'[s] = [save[s] EXCEPT !.todo = td]
  BY <1>1, SetIs DEF Set, Next1
<1> HIDE DEF td
<1>5. Takes(save'[s], save[s], step)
  BY <1>2, <1>3, <1>4 DEF SaveRecord, Takes
<1> QED BY <1>1, <1>5

\* Of a step that is about scope 1: the rest of what has been done is as it was.
LEMMA CatsKept ==
    ASSUME NEW R, NEW R2, NEW p, NEW q, NEW n, Points1(q, R, p), Elsewhere(R, R2, "scope1"),
           n.body = q.body, n.before = q.before, n.emissions = q.emissions, n.scope3 = q.scope3,
           n.match = q.match, n.todo \cap Cats = q.todo \cap Cats,
           "scope3" \in n.todo <=> "scope3" \in q.todo,
           {"read1", "write1"} \cap n.todo # {"read1", "write1"},
           Scope1Done(n, R2)
    PROVE  Points1(n, R2, p)
<1>1. \A o, j : j # "scope1" =>
         /\ IdIn(R2, o, j) = IdIn(R, o, j) /\ MatchingIn(R2, o, j) = MatchingIn(R, o, j)
         /\ ValuesIn(R2, o, j) = ValuesIn(R, o, j)
         /\ ManyIn(R2, o, j) <=> ManyIn(R, o, j)
  BY ElseIs
<1>2. Base(n) = Base(q)
  BY DEF Base
<1>3. EmissionsIn(R2, p) = EmissionsIn(R, p) /\ IdIn(R2, q.emissions, "scope3") = IdIn(R, q.emissions, "scope3")
  BY <1>1 DEF EmissionsIn
<1>4. ASSUME NEW k \in Cats PROVE CatDone(n, R2, k)
  <2>1. k # "scope1" /\ CatDone(q, R, k)
    BY PeriodAssumption DEF Points1
  <2>2. ValuesIn(R2, q.scope3, k) = ValuesIn(R, q.scope3, k) /\ (ManyIn(R2, q.scope3, k) <=> ManyIn(R, q.scope3, k))
    BY <1>1, <2>1
  <2>3. k \in n.todo <=> k \in q.todo
    OBVIOUS
  <2> QED BY <1>2, <2>1, <2>2, <2>3 DEF CatDone
<1>5. ASSUME NEW k \in n.todo \cap Cats PROVE n.match[k] \in MatchingIn(R2, n.scope3, k) /\ n.scope3 # 0
  <2>1. k \in q.todo \cap Cats /\ k # "scope1"
    BY PeriodAssumption
  <2>2. q.match[k] \in MatchingIn(R, q.scope3, k) /\ q.scope3 # 0
    BY <2>1 DEF Points1
  <2> QED BY <1>1, <2>1, <2>2
<1> QED BY <1>3, <1>4, <1>5 DEF Points1

LEMMA OkScope1Reads == ASSUME OkInv, PeriodInv', NEW s \in Savers, Scope1Reads(s) PROVE OkInv'
<1> DEFINE pr == Previous(save[s].scope1, save[s].body.scope1)
<1>1. /\ save[s].pc = "points" /\ "read1" \in save[s].todo /\ Quiet
      /\ save' = [save EXCEPT ![s] = [Next1(s, "read1", {"write1"}) EXCEPT !.prev1 = pr]]
  BY DEF Scope1Reads, At, Set, Does
<1>2. Shapes /\ s \in Busy /\ save[s] \in SaveRecord
  BY <1>1, BusyAre DEF OkInv, PeriodInv, Busy
<1>3. pr \in Values \cup {None}
  BY <1>2, PreviousTells
<1> DEFINE td == (save[s].todo \ {"read1"}) \cup {"write1"}
<1>4. td \in SUBSET PointSteps
  BY <1>2 DEF SaveRecord, PointSteps
<1>5. save'[s] = [save[s] EXCEPT !.todo = td, !.prev1 = pr]
  <2>1. save'[s] = [Next1(s, "read1", {"write1"}) EXCEPT !.prev1 = pr]
    BY <1>1, <1>2, SetIs
  <2>2. Next1(s, "read1", {"write1"}) = [save[s] EXCEPT !.todo = td]
    BY DEF Next1
  <2> HIDE DEF td, pr
  <2> QED BY <1>2, <2>1, <2>2 DEF SaveRecord
<1>6. /\ "write1" \in td /\ "read1" \notin td /\ td \cap Cats = save[s].todo \cap Cats
      /\ "scope3" \in td <=> "scope3" \in save[s].todo
  BY PeriodAssumption
<1> HIDE DEF td, pr
<1>7. /\ save'[s] \in SaveRecord /\ save'[s].body = save[s].body /\ save'[s].alone = save[s].alone
      /\ save'[s].todo = td /\ save'[s].pc = save[s].pc /\ save'[s].lost = save[s].lost
      /\ save'[s].before = save[s].before
      /\ save'[s].emissions = save[s].emissions /\ save'[s].match = save[s].match
      /\ save'[s].scope1 = save[s].scope1 /\ save'[s].scope3 = save[s].scope3
  BY <1>2, <1>3, <1>4, <1>5 DEF SaveRecord
<1>8. Moves(s)
  BY <1>1, <1>2, <1>7, SetIs DEF Moves
<1>9. rows' = rows /\ period' = period
  BY <1>1 DEF Quiet
<1>10. ASSUME Points1(save[s], rows, period) PROVE Points1(save'[s], rows, period)
  <2>1. ValuesIn(rows, save[s].emissions, "scope1") = Base(save[s]).scope1 /\ save[s].scope1 = IdIn(rows, save[s].emissions, "scope1")
    BY <1>1, <1>10 DEF Points1, Scope1Done
  <2>2. Scope1Done(save'[s], rows)
    BY <1>6, <1>7, <2>1 DEF Scope1Done, Base
  <2>3. Elsewhere(rows, rows, "scope1")
    BY DEF Elsewhere
  <2> QED BY <1>6, <1>7, <1>10, <2>2, <2>3, CatsKept
<1>11. SinglesIn(rows')
  BY <1>9 DEF OkInv
<1> QED BY <1>1, <1>2, <1>7, <1>8, <1>9, <1>10, <1>11, OkPoints

\* A save that writes scope 1, or deletes it, and has taken that step.
LEMMA Scope1Taken ==
    ASSUME NEW R, NEW R2, NEW p, NEW q, NEW n, NEW step \in {"read1", "write1"}, step \in q.todo,
           Points1(q, R, p), Elsewhere(R, R2, "scope1"), Takes(n, q, step),
           ValuesIn(R2, q.emissions, "scope1") = Applied(q.before, q.body).scope1
    PROVE  Points1(n, R2, p)
<1>1. {"read1", "write1"} \cap n.todo = {}
  BY DEF Points1, Takes
<1>2. Scope1Done(n, R2)
  BY <1>1 DEF Scope1Done, Takes
<1>3. n.todo \cap Cats = q.todo \cap Cats /\ ("scope3" \in n.todo <=> "scope3" \in q.todo)
  BY PeriodAssumption DEF Takes
<1>4. {"read1", "write1"} \cap n.todo # {"read1", "write1"}
  BY <1>1
<1> QED BY <1>2, <1>3, <1>4, CatsKept DEF Takes

\* The row of scope 1 that such a save knows.
LEMMA Scope1Known ==
    ASSUME NEW R, NEW u \in Nat, NEW p, RowsFit(R, u, p), SinglesIn(R), NEW q, Points1(q, R, p),
           q.todo \cap {"read1", "write1"} # {}, NEW x \in R, x.id = q.scope1
    PROVE  In(R, q.emissions, "scope1") = {x} /\ q.emissions # 0 /\ x.kind = "scope1"
<1>1. q.emissions # 0 /\ q.scope1 = IdIn(R, q.emissions, "scope1")
  BY DEF Points1, Scope1Done
<1>2. x.id # 0 /\ \A y \in R : y.id = x.id => y = x
  BY DEF RowsFit
<1>3. PICK y \in In(R, q.emissions, "scope1") : y.id = x.id
  BY <1>1, <1>2, IdInIs
<1>4. y = x /\ x \in In(R, q.emissions, "scope1")
  BY <1>2, <1>3 DEF In
<1>5. "scope1" \in SingleKinds
  BY DEF SingleKinds
<1> QED BY <1>1, <1>4, <1>5 DEF SinglesIn, In

LEMMA OkScope1Deletes == ASSUME OkInv, PeriodInv', NEW s \in Savers, Scope1Deletes(s) PROVE OkInv'
<1>1. /\ Does(s, "read1") /\ Set(s, Next1(s, "read1", {})) /\ save[s].body.scope1 = "null"
      /\ Delete({save[s].scope1}) /\ period' = period
      /\ \E x \in rows : x.id = save[s].scope1
  BY DEF Scope1Deletes, Drops, Exists
<1>2. Takes(save'[s], save[s], "read1") /\ save[s].pc = "points" /\ "read1" \in save[s].todo
  BY <1>1, StepTakes DEF OkInv
<1>3. s \in Busy /\ Moves(s) /\ SaveFits(save[s], rows, used) /\ Shapes
  BY <1>1, StepTaken DEF OkInv, PeriodInv
<1>4. RowsFit(rows, used, period) /\ used \in Nat
  BY <1>3, PeriodAssumption DEF Shapes
<1>5. PICK x \in rows : x.id = save[s].scope1
  BY <1>1
<1>6. x.kind = "scope1" /\ \A y \in rows : y.id = x.id => y = x
  BY <1>3, <1>4, <1>5 DEF SaveFits, RowsFit
<1>7. rows' = {y \in rows : y.id # x.id}
  <2>1. \A y \in rows : y.owner # x.id
    BY <1>4, <1>6, PeriodAssumption DEF RowsFit, ChildOf
  <2>2. Cascade({x.id}) = {x.id}
    BY <2>1 DEF Cascade, WithChildren
  <2> QED BY <1>1, <1>5, <2>2 DEF Delete
<1>8. SinglesIn(rows')
  <2>1. rows' \in SUBSET rows
    BY <1>7
  <2> QED BY <2>1, SinglesFewer DEF OkInv
<1>9. ASSUME Points1(save[s], rows, period) PROVE Points1(save'[s], rows', period)
  <2>1. In(rows, save[s].emissions, "scope1") = {x}
    BY <1>2, <1>4, <1>5, <1>9, Scope1Known DEF OkInv
  <2>2. PICK R : R = rows'
    OBVIOUS
  <2>3. Elsewhere(rows, R, "scope1") /\ In(R, save[s].emissions, "scope1") = {}
    <3>1. R = {y \in rows : y.id # x.id}
      BY <1>7, <2>2
    <3>2. Elsewhere(rows, R, x.kind) /\ (In(rows, save[s].emissions, x.kind) = {x} => In(R, save[s].emissions, x.kind) = {})
      BY <1>6, <3>1, DeleteElse
    <3> QED BY <1>6, <2>1, <3>2
  <2>4. ValuesIn(R, save[s].emissions, "scope1") = {}
    BY <2>3 DEF ValuesIn
  <2>5. ValuesIn(R, save[s].emissions, "scope1") = Applied(save[s].before, save[s].body).scope1
    BY <1>1, <2>4, AppliedIs
  <2>6. Points1(save'[s], R, period)
    BY <1>2, <1>9, <2>3, <2>5, Scope1Taken
  <2> QED BY <2>2, <2>6
<1> QED BY <1>1, <1>2, <1>3, <1>8, <1>9, OkPoints DEF Takes

\* One value is shown of a kind when there is one row.
LEMMA OneValue == ASSUME NEW R, NEW o, o # 0, NEW k, NEW x, In(R, o, k) = {x} PROVE ValuesIn(R, o, k) = {x.val}
BY DEF ValuesIn

LEMMA OkScope1Writes == ASSUME OkInv, PeriodInv', NEW s \in Savers, Scope1Writes(s) PROVE OkInv'
<1> DEFINE v == save[s].body.scope1
           id == save[s].scope1
<1>1. Does(s, "write1") /\ Set(s, Next1(s, "write1", {})) /\ period' = period
  BY DEF Scope1Writes
<1>2. Takes(save'[s], save[s], "write1") /\ save[s].pc = "points" /\ "write1" \in save[s].todo
  BY <1>1, StepTakes DEF OkInv
<1>3. s \in Busy /\ Moves(s) /\ SaveFits(save[s], rows, used) /\ save[s] \in SaveRecord /\ Shapes
  BY <1>1, StepTaken DEF OkInv, PeriodInv
<1>4. RowsFit(rows, used, period) /\ used \in Nat /\ SinglesIn(rows)
  BY <1>3, PeriodAssumption DEF Shapes, OkInv
<1>5. v \in Values
  <2>1. save[s].body \in Sendable
    BY <1>3 DEF SaveRecord
  <2> QED BY <1>2, <1>3, <2>1, BodyIs DEF SaveFits
<1>6. ASSUME NEW R2, Elsewhere(rows, R2, "scope1"), NEW x, In(R2, save[s].emissions, "scope1") = {x}, x.val = v,
             Points1(save[s], rows, period)
      PROVE  Points1(save'[s], R2, period)
  <2>1. save[s].emissions # 0
    BY <1>6 DEF Points1
  <2>2. ValuesIn(R2, save[s].emissions, "scope1") = {v}
    BY <1>6, <2>1, OneValue
  <2>3. ValuesIn(R2, save[s].emissions, "scope1") = Applied(save[s].before, save[s].body).scope1
    BY <1>5, <2>2, AppliedIs
  <2> QED BY <1>2, <1>6, <2>3, Scope1Taken
<1>7. CASE Exists(id)
  <2>1. PICK x \in rows : x.id = id
    BY <1>7 DEF Exists
  <2>2. x.kind = "scope1"
    BY <1>3, <2>1 DEF SaveFits
  <2>3. rows' = Changes(rows, x.id, v)
    BY <1>7, <2>1 DEF Scope1Writes, Change, Changes
  <2>4. PICK R2 : R2 = rows'
    OBVIOUS
  <2>5. Revalued(rows, R2, x, v)
    BY <1>4, <1>5, <2>3, <2>4, ChangeElse
  <2>6. SinglesIn(rows')
    BY <1>4, <1>5, <2>3, SinglesChanged
  <2>7. ASSUME Points1(save[s], rows, period) PROVE Points1(save'[s], rows', period)
    <3>1. In(rows, save[s].emissions, "scope1") = {x}
      BY <1>2, <1>4, <2>1, <2>7, Scope1Known
    <3>2. PICK y : In(R2, save[s].emissions, "scope1") = {y} /\ y.val = v
      BY <2>5, <3>1 DEF Revalued
    <3>3. Elsewhere(rows, R2, "scope1")
      BY <2>2, <2>5 DEF Revalued
    <3> QED BY <1>6, <2>4, <2>7, <3>2, <3>3
  <2> QED BY <1>1, <1>2, <1>3, <2>6, <2>7, OkPoints DEF Takes
<1>8. CASE ~Exists(id)
  <2>1. rows' = Attaches(rows, save[s].emissions, "scope1", used + 1, v)
    BY <1>8 DEF Scope1Writes, MakeSingle, Attaches
  <2>2. PICK R2 : R2 = rows'
    OBVIOUS
  <2>3. Replaced(rows, R2, save[s].emissions, "scope1", Row(used + 1, save[s].emissions, "scope1", v))
    BY <1>4, <2>1, <2>2, AttachElse
  <2>4. SinglesIn(rows')
    BY <1>4, <2>1, SinglesAttached
  <2>5. ASSUME Points1(save[s], rows, period) PROVE Points1(save'[s], rows', period)
    <3>1. save[s].emissions # 0
      BY <2>5 DEF Points1
    <3>2. In(R2, save[s].emissions, "scope1") = {Row(used + 1, save[s].emissions, "scope1", v)} /\ Elsewhere(rows, R2, "scope1")
      BY <2>3, <3>1 DEF Replaced
    <3>3. Row(used + 1, save[s].emissions, "scope1", v).val = v
      BY DEF Row
    <3> QED BY <1>6, <2>2, <2>5, <3>2, <3>3
  <2> QED BY <1>1, <1>2, <1>3, <2>4, <2>5, OkPoints DEF Takes
<1> QED BY <1>7, <1>8

\* Of a step that is about scope 3: scope 1 is as it was.
LEMMA Scope1Kept ==
    ASSUME NEW R, NEW R2, NEW q, NEW n, Scope1Done(q, R),
           ValuesIn(R2, q.emissions, "scope1") = ValuesIn(R, q.emissions, "scope1"),
           IdIn(R2, q.emissions, "scope1") = IdIn(R, q.emissions, "scope1"),
           n.body = q.body, n.before = q.before, n.emissions = q.emissions, n.scope1 = q.scope1,
           n.todo \cap {"read1", "write1"} = q.todo \cap {"read1", "write1"}
    PROVE  Scope1Done(n, R2)
BY DEF Scope1Done, Base

\* n is q with scope 3 found, and what was read below it.
Finds(n, q, id, m) ==
    /\ n.pc = q.pc /\ n.body = q.body /\ n.before = q.before /\ n.lost = q.lost
    /\ n.emissions = q.emissions /\ n.scope1 = q.scope1 /\ n.scope3 = id /\ n.match = m
    /\ n.todo = (q.todo \ {"scope3"}) \cup DOMAIN CatsOf(q.body)

LEMMA Scope3Taken ==
    ASSUME NEW R, NEW R2, NEW p, NEW q, NEW n, NEW id, NEW m, Points1(q, R, p), Finds(n, q, id, m),
           "scope3" \in q.todo, q.todo \cap Cats = {}, DOMAIN CatsOf(q.body) \subseteq Cats,
           \A k : k # "scope3" => In(R2, q.emissions, k) = In(R, q.emissions, k),
           EmissionsIn(R2, p) = EmissionsIn(R, p),
           IdIn(R2, q.emissions, "scope3") = id,
           \A k \in Cats : ValuesIn(R2, id, k) = ValuesIn(R, q.scope3, k),
           \A k \in DOMAIN CatsOf(q.body) : m[k] \in MatchingIn(R2, id, k) /\ id # 0
    PROVE  Points1(n, R2, p)
<1>1. /\ n.todo \cap Cats = DOMAIN CatsOf(q.body)
      /\ n.todo \cap {"read1", "write1"} = q.todo \cap {"read1", "write1"}
  BY PeriodAssumption DEF Finds
<1>2. Scope1Done(n, R2)
  <2>1. In(R2, q.emissions, "scope1") = In(R, q.emissions, "scope1")
    OBVIOUS
  <2>2. /\ ValuesIn(R2, q.emissions, "scope1") = ValuesIn(R, q.emissions, "scope1")
        /\ IdIn(R2, q.emissions, "scope1") = IdIn(R, q.emissions, "scope1")
    BY <2>1, SameIn
  <2>4. Scope1Done(q, R)
    BY DEF Points1
  <2> QED BY <1>1, <2>2, <2>4, Scope1Kept DEF Finds
<1>3. ASSUME NEW k \in Cats PROVE CatDone(n, R2, k)
  <2>1. ValuesIn(R, q.scope3, k) = Base(q).cats[k]
    BY DEF Points1, CatDone
  <2>2. ValuesIn(R2, n.scope3, k) = Base(n).cats[k]
    BY <2>1 DEF Finds, Base
  <2>3. k \in n.todo \/ k \notin DOMAIN CatsOf(n.body)
    BY <1>1 DEF Finds
  <2> QED BY <2>2, <2>3 DEF CatDone
<1>4. {"read1", "write1"} \cap n.todo # {"read1", "write1"}
  BY <1>1 DEF Points1
<1> QED BY <1>1, <1>2, <1>3, <1>4 DEF Points1, Finds

LEMMA Found ==
    ASSUME OkInv, NEW s \in Savers, save[s].pc = "points", "scope3" \in save[s].todo,
           NEW id \in Nat, NEW m \in [DOMAIN CatsOf(save[s].body) -> Nat],
           Set(s, [Next1(s, "scope3", DOMAIN CatsOf(save[s].body)) EXCEPT !.scope3 = id, !.match = m,
                       !.prev = [k \in DOMAIN CatsOf(save[s].body) |-> Previous(m[k], CatsOf(save[s].body)[k])]])
    PROVE  /\ s \in Busy /\ Moves(s) /\ Finds(save'[s], save[s], id, m)
           /\ save[s].todo \cap Cats = {} /\ DOMAIN CatsOf(save[s].body) \subseteq Cats
<1> DEFINE C == CatsOf(save[s].body)
           td == (save[s].todo \ {"scope3"}) \cup DOMAIN C
           p == [k \in DOMAIN C |-> Previous(m[k], C[k])]
<1>1. Shapes /\ s \in Busy /\ save[s] \in SaveRecord /\ SaveFits(save[s], rows, used)
  BY BusyAre DEF OkInv, PeriodInv, Busy
<1>2. DOMAIN C \subseteq Cats /\ save[s].todo \cap Cats = {} /\ td \in SUBSET PointSteps
  <2>1. save[s].body \in Sendable /\ save[s].todo \in SUBSET PointSteps
    BY <1>1 DEF SaveRecord
  <2>2. DOMAIN C \subseteq Cats
    BY <2>1, BodyIs
  <2>3. save[s].todo \cap Cats = {}
    BY <1>1 DEF SaveFits
  <2> HIDE DEF C
  <2> QED BY <2>1, <2>2, <2>3 DEF PointSteps
<1>3. p \in MapsOfCats(Values \cup {None}) /\ m \in MapsOfCats(Nat)
  <2>1. \A k \in DOMAIN C : Previous(m[k], C[k]) \in Values \cup {None}
    BY <1>1, PreviousTells
  <2>2. m \in [DOMAIN C -> Nat]
    OBVIOUS
  <2> HIDE DEF C
  <2> QED BY <1>2, <2>1, <2>2 DEF MapsOfCats
<1>4. save'[s] = [save[s] EXCEPT !.todo = td, !.scope3 = id, !.match = m, !.prev = p]
  <2>1. save' = [save EXCEPT ![s] = [Next1(s, "scope3", DOMAIN C) EXCEPT !.scope3 = id, !.match = m, !.prev = p]]
    BY DEF Set
  <2>2. save'[s] = [Next1(s, "scope3", DOMAIN C) EXCEPT !.scope3 = id, !.match = m, !.prev = p]
    BY <1>1, <2>1, SetIs
  <2>3. Next1(s, "scope3", DOMAIN C) = [save[s] EXCEPT !.todo = td]
    BY DEF Next1
  <2> HIDE DEF C, td, p
  <2> QED BY <1>1, <2>2, <2>3 DEF SaveRecord
<1> HIDE DEF p
<1>5. /\ save'[s] \in SaveRecord /\ save'[s].alone = save[s].alone
      /\ save'[s].body = save[s].body /\ Finds(save'[s], save[s], id, m)
  <2>1. PICK t : t = td
    OBVIOUS
  <2>2. save'[s] = [save[s] EXCEPT !.todo = t, !.scope3 = id, !.match = m, !.prev = p]
    BY <1>4, <2>1
  <2>3. t \in SUBSET PointSteps
    BY <1>2, <2>1
  <2> HIDE DEF td, C
  <2>4. /\ save'[s] \in SaveRecord /\ save'[s].alone = save[s].alone
        /\ save'[s].body = save[s].body /\ save'[s].pc = save[s].pc /\ save'[s].todo = t
        /\ save'[s].before = save[s].before /\ save'[s].lost = save[s].lost
        /\ save'[s].emissions = save[s].emissions
        /\ save'[s].scope1 = save[s].scope1 /\ save'[s].scope3 = id /\ save'[s].match = m
    BY <1>1, <1>3, <2>2, <2>3 DEF SaveRecord
  <2> QED BY <2>1, <2>4 DEF Finds, td, C
<1>6. Moves(s)
  BY <1>1, <1>5, SetIs DEF Moves, Set
<1> QED BY <1>1, <1>2, <1>5, <1>6

LEMMA OkUpsertScope3 == ASSUME OkInv, PeriodInv', NEW s \in Savers, UpsertScope3(s) PROVE OkInv'
<1> DEFINE C == CatsOf(save[s].body)
           go(id, m) == Set(s, [Next1(s, "scope3", DOMAIN C) EXCEPT !.scope3 = id, !.match = m,
                                    !.prev = [k \in DOMAIN C |-> Previous(m[k], C[k])]])
           m0 == [k \in DOMAIN C |-> 0]
<1>1. /\ save[s].pc = "points" /\ "scope3" \in save[s].todo
      /\ \/ /\ Exists(save[s].scope3) /\ Quiet
            /\ \E m \in [DOMAIN C -> 0..used] : /\ \A k \in DOMAIN C : m[k] \in Matching(save[s].scope3, k)
                                                /\ go(save[s].scope3, m)
         \/ /\ ~Exists(save[s].scope3) /\ Exists(save[s].emissions)
            /\ Attach(save[s].emissions, "scope3", used + 1)
            /\ go(used + 1, m0)
            /\ UNCHANGED period
  BY DEF UpsertScope3, At, Does
<1>2. Shapes /\ RowsFit(rows, used, period) /\ used \in Nat /\ SinglesIn(rows)
      /\ save[s] \in SaveRecord /\ SaveFits(save[s], rows, used)
  <2>1. Shapes /\ s \in Busy
    BY <1>1 DEF OkInv, PeriodInv, Busy
  <2> QED BY <2>1, BusyAre, PeriodAssumption DEF Shapes, OkInv
<1>3. ASSUME NEW m \in [DOMAIN C -> 0..used], \A k \in DOMAIN C : m[k] \in Matching(save[s].scope3, k),
             go(save[s].scope3, m), Exists(save[s].scope3), Quiet
      PROVE  OkInv'
  <2>1. m \in [DOMAIN C -> Nat] /\ save[s].scope3 \in Nat
    BY <1>2 DEF SaveRecord
  <2>2. /\ s \in Busy /\ Moves(s) /\ Finds(save'[s], save[s], save[s].scope3, m)
        /\ save[s].todo \cap Cats = {} /\ DOMAIN C \subseteq Cats
    BY <1>1, <1>3, <2>1, Found
  <2>3. rows' = rows /\ period' = period
    BY <1>3 DEF Quiet
  <2>4. \A k \in DOMAIN C : m[k] \in MatchingIn(rows, save[s].scope3, k) /\ save[s].scope3 # 0
    BY <1>2, <1>3, InIs DEF Exists, RowsFit
  <2>5. ASSUME Points1(save[s], rows, period) PROVE Points1(save'[s], rows, period)
    <3>1. save[s].scope3 = IdIn(rows, save[s].emissions, "scope3")
      BY <2>5 DEF Points1
    <3> QED BY <1>1, <2>2, <2>4, <2>5, <3>1, Scope3Taken
  <2>6. save'[s].pc = "points" /\ save'[s].lost = save[s].lost
    BY <1>1, <2>2 DEF Finds
  <2> QED BY <1>1, <1>2, <2>2, <2>3, <2>5, <2>6, OkPoints
<1>4. ASSUME ~Exists(save[s].scope3), Exists(save[s].emissions),
             Attach(save[s].emissions, "scope3", used + 1), go(used + 1, m0), UNCHANGED period
      PROVE  OkInv'
  <2>1. m0 \in [DOMAIN C -> Nat] /\ used + 1 \in Nat
    BY <1>2
  <2>2. /\ s \in Busy /\ Moves(s) /\ Finds(save'[s], save[s], used + 1, m0)
        /\ save[s].todo \cap Cats = {} /\ DOMAIN C \subseteq Cats
    BY <1>1, <1>4, <2>1, Found
  <2>3. rows' = Attaches(rows, save[s].emissions, "scope3", used + 1, None)
    BY <1>4 DEF Attach, Attaches
  <2>4. PICK R : R = rows'
    OBVIOUS
  <2>5. Replaced(rows, R, save[s].emissions, "scope3", Row(used + 1, save[s].emissions, "scope3", None)) /\ SinglesIn(R)
    BY <1>2, <2>3, <2>4, AttachElse, SinglesAttached
  <2>6. ASSUME Points1(save[s], rows, period) PROVE Points1(save'[s], R, period)
    <3>1. save[s].emissions # 0 /\ save[s].scope3 = IdIn(rows, save[s].emissions, "scope3")
      BY <2>6 DEF Points1
    <3>2. save[s].scope3 = 0
      <4>1. \A x \in rows : x.id # IdIn(rows, save[s].emissions, "scope3")
        BY <1>4, <3>1 DEF Exists
      <4> QED BY <1>2, <3>1, <4>1, IdInIs
    <3>3. Elsewhere(rows, R, "scope3") /\ In(R, save[s].emissions, "scope3") = {Row(used + 1, save[s].emissions, "scope3", None)}
      BY <2>5, <3>1 DEF Replaced
    <3>4. Row(used + 1, save[s].emissions, "scope3", None).id = used + 1
      BY DEF Row
    <3>5. IdIn(R, save[s].emissions, "scope3") = used + 1
      BY <3>1, <3>3, <3>4, IdOfOne
    <3>6. EmissionsIn(R, period) = EmissionsIn(rows, period)
      BY <3>3, ElseIs DEF EmissionsIn
    <3>7. \A k \in Cats : In(R, used + 1, k) = {}
      <4>1. \A k : In(rows, used + 1, k) = {}
        BY <1>2 DEF In, RowsFit
      <4> QED BY <3>3, <4>1, PeriodAssumption DEF Elsewhere
    <3>8. \A k \in Cats : ValuesIn(R, used + 1, k) = ValuesIn(rows, save[s].scope3, k)
      BY <3>2, <3>7 DEF ValuesIn
    <3>9. \A k \in DOMAIN C : m0[k] \in MatchingIn(R, used + 1, k) /\ used + 1 # 0
      BY <1>2, <2>2, <3>7 DEF MatchingIn
    <3>10. \A k : k # "scope3" => In(R, save[s].emissions, k) = In(rows, save[s].emissions, k)
      BY <3>3 DEF Elsewhere
    <3> DEFINE id == used + 1
               n == save'[s]
               q == save[s]
    <3>11. Finds(n, q, id, m0) /\ q.todo \cap Cats = {} /\ DOMAIN CatsOf(q.body) \subseteq Cats
      BY <2>2
    <3>12. IdIn(R, q.emissions, "scope3") = id /\ \A k \in Cats : ValuesIn(R, id, k) = ValuesIn(rows, q.scope3, k)
      BY <3>5, <3>8
    <3>13. \A k \in DOMAIN CatsOf(q.body) : m0[k] \in MatchingIn(R, id, k) /\ id # 0
      BY <3>9
    <3>14. "scope3" \in q.todo /\ Points1(q, rows, period)
           /\ \A k : k # "scope3" => In(R, q.emissions, k) = In(rows, q.emissions, k)
      BY <1>1, <2>6, <3>10
    <3> HIDE DEF m0, id, n, q
    <3>15. Points1(n, R, period)
      BY <3>6, <3>11, <3>12, <3>13, <3>14, Scope3Taken
    <3> QED BY <3>15 DEF n
  <2>7. save'[s].pc = "points" /\ save'[s].lost = save[s].lost
    BY <1>1, <2>2 DEF Finds
  <2> QED BY <1>1, <1>4, <2>2, <2>4, <2>5, <2>6, <2>7, OkPoints
<1> QED BY <1>1, <1>3, <1>4

\* A save that has written a category.
LEMMA CategoryTaken ==
    ASSUME NEW R, NEW R2, NEW p, NEW q, NEW n, NEW k \in Cats, k \in q.todo, "scope3" \notin q.todo,
           k \in DOMAIN CatsOf(q.body), Points1(q, R, p), Elsewhere(R, R2, k), Takes(n, q, k),
           ValuesIn(R2, q.scope3, k) = {CatsOf(q.body)[k]} \/ ManyIn(R2, q.scope3, k)
    PROVE  Points1(n, R2, p)
<1>1. \A o, j : j # k =>
         /\ IdIn(R2, o, j) = IdIn(R, o, j) /\ MatchingIn(R2, o, j) = MatchingIn(R, o, j)
         /\ ValuesIn(R2, o, j) = ValuesIn(R, o, j)
         /\ ManyIn(R2, o, j) <=> ManyIn(R, o, j)
  BY ElseIs
<1>2. k \notin {"scope1", "scope3", "emissions", "read1", "write1"}
  BY PeriodAssumption
<1>3. Base(n) = Base(q)
  BY DEF Base, Takes
<1>4. EmissionsIn(R2, p) = EmissionsIn(R, p) /\ IdIn(R2, q.emissions, "scope3") = IdIn(R, q.emissions, "scope3")
      /\ IdIn(R2, q.emissions, "scope1") = IdIn(R, q.emissions, "scope1")
      /\ ValuesIn(R2, q.emissions, "scope1") = ValuesIn(R, q.emissions, "scope1")
  BY <1>1, <1>2 DEF EmissionsIn
<1>5. n.todo \cap {"read1", "write1"} = q.todo \cap {"read1", "write1"}
  BY <1>2 DEF Takes
<1>6. Scope1Done(n, R2)
  <2>1. Scope1Done(q, R)
    BY DEF Points1
  <2> QED BY <1>4, <1>5, <2>1, Scope1Kept DEF Takes
<1>7. ASSUME NEW j \in Cats PROVE CatDone(n, R2, j)
  <2>1. CASE j = k
    <3>1. k \notin n.todo /\ "scope3" \notin n.todo /\ n.body = q.body /\ n.scope3 = q.scope3
      BY DEF Takes
    <3> QED BY <2>1, <3>1 DEF CatDone
  <2>2. CASE j # k
    <3>1. /\ n.body = q.body /\ n.scope3 = q.scope3 /\ CatDone(q, R, j)
          /\ j \in n.todo <=> j \in q.todo
          /\ "scope3" \in n.todo <=> "scope3" \in q.todo
      BY <1>2, <2>2 DEF Takes, Points1
    <3>2. ValuesIn(R2, q.scope3, j) = ValuesIn(R, q.scope3, j) /\ (ManyIn(R2, q.scope3, j) <=> ManyIn(R, q.scope3, j))
      BY <1>1, <2>2
    <3> QED BY <1>3, <3>1, <3>2 DEF CatDone
  <2> QED BY <2>1, <2>2
<1>8. ASSUME NEW j \in n.todo \cap Cats PROVE n.match[j] \in MatchingIn(R2, n.scope3, j) /\ n.scope3 # 0
  <2>1. j \in q.todo \cap Cats /\ j # k
    BY DEF Takes
  <2>2. q.match[j] \in MatchingIn(R, q.scope3, j) /\ q.scope3 # 0
    BY <2>1 DEF Points1
  <2> QED BY <1>1, <2>1, <2>2 DEF Takes
<1>9. {"read1", "write1"} \cap n.todo # {"read1", "write1"}
  BY <1>5 DEF Points1
<1>10. n.emissions = q.emissions /\ n.scope3 = q.scope3 /\ n.scope1 = q.scope1
  BY DEF Takes
<1> QED BY <1>4, <1>6, <1>7, <1>8, <1>9, <1>10 DEF Points1

\* The rows of a category remain several when one of them gets a value.
LEMMA ManyStay ==
    ASSUME NEW R, NEW R2, NEW r, NEW v, Revalued(R, R2, r, v), \A x, y \in R : x.id = y.id => x = y,
           NEW o, NEW k, ManyIn(R, o, k)
    PROVE  ManyIn(R2, o, k)
<1>1. PICK x, y \in In(R, o, k) : x # y
  BY DEF ManyIn
<1>2. x.id # y.id
  BY <1>1 DEF In
<1>3. \A z \in In(R, o, k) : \E w \in In(R2, o, k) : w.id = z.id
  BY DEF Revalued
<1>4. PICK a \in In(R2, o, k) : a.id = x.id
  BY <1>3
<1>5. PICK b \in In(R2, o, k) : b.id = y.id
  BY <1>3
<1> QED BY <1>2, <1>4, <1>5 DEF ManyIn

LEMMA OkUpsertCategory == ASSUME OkInv, PeriodInv', NEW s \in Savers, UpsertCategory(s) PROVE OkInv'
<1>1. PICK k \in Cats :
        /\ Does(s, k) /\ Set(s, Next1(s, k, {})) /\ period' = period
        /\ IF Exists(save[s].match[k])
           THEN rows' = Changes(rows, save[s].match[k], CatsOf(save[s].body)[k])
           ELSE rows' = Adds(rows, save[s].scope3, k, used + 1, CatsOf(save[s].body)[k])
  BY DEF UpsertCategory, Change, Changes, Adds
<1> DEFINE v == CatsOf(save[s].body)[k]
           id == save[s].match[k]
<1>2. Takes(save'[s], save[s], k) /\ save[s].pc = "points" /\ k \in save[s].todo
  BY <1>1, StepTakes DEF OkInv
<1>3. s \in Busy /\ Moves(s) /\ SaveFits(save[s], rows, used) /\ save[s] \in SaveRecord /\ Shapes
  BY <1>1, StepTaken DEF OkInv, PeriodInv
<1>4. RowsFit(rows, used, period) /\ used \in Nat /\ SinglesIn(rows) /\ \A x, y \in rows : x.id = y.id => x = y
  BY <1>3, PeriodAssumption DEF Shapes, OkInv, RowsFit
<1>5. k \in DOMAIN CatsOf(save[s].body) /\ v \in Values /\ "scope3" \notin save[s].todo
  <2>1. save[s].body \in Sendable
    BY <1>3 DEF SaveRecord
  <2>2. k \in DOMAIN CatsOf(save[s].body) /\ "scope3" \notin save[s].todo
    BY <1>2, <1>3 DEF SaveFits
  <2> QED BY <2>1, <2>2, BodyIs
<1>6. ASSUME Points1(save[s], rows, period) PROVE id \in MatchingIn(rows, save[s].scope3, k) /\ save[s].scope3 # 0
  BY <1>2, <1>6 DEF Points1
<1>7. PICK R : R = rows'
  OBVIOUS
<1>8. CASE Exists(id)
  <2>1. PICK x \in rows : x.id = id
    BY <1>8 DEF Exists
  <2>2. x.kind = k
    BY <1>2, <1>3, <2>1 DEF SaveFits
  <2>3. R = Changes(rows, x.id, v)
    BY <1>1, <1>7, <1>8, <2>1
  <2>4. Revalued(rows, R, x, v) /\ SinglesIn(R)
    BY <1>4, <1>5, <2>3, ChangeElse, SinglesChanged
  <2>5. ASSUME Points1(save[s], rows, period) PROVE Points1(save'[s], R, period)
    <3>1. x \in In(rows, save[s].scope3, k)
      <4>1. x.id # 0
        BY <1>4 DEF RowsFit
      <4>2. \E y \in In(rows, save[s].scope3, k) : y.id = x.id
        BY <1>6, <2>1, <2>5, <4>1 DEF MatchingIn
      <4> QED BY <1>4, <4>2 DEF In
    <3>2. ValuesIn(R, save[s].scope3, k) = {v} \/ ManyIn(R, save[s].scope3, k)
      <4>1. CASE In(rows, save[s].scope3, k) = {x}
        <5>1. PICK y : In(R, save[s].scope3, k) = {y} /\ y.val = v
          BY <2>4, <4>1 DEF Revalued
        <5> QED BY <1>6, <2>5, <5>1, OneValue
      <4>2. CASE In(rows, save[s].scope3, k) # {x}
        <5>1. ManyIn(rows, save[s].scope3, k)
          BY <1>6, <2>5, <3>1, <4>2 DEF ManyIn
        <5> QED BY <1>4, <2>4, <5>1, ManyStay
      <4> QED BY <4>1, <4>2
    <3>3. Elsewhere(rows, R, k)
      BY <2>2, <2>4 DEF Revalued
    <3> QED BY <1>2, <1>5, <2>5, <3>2, <3>3, CategoryTaken
  <2> QED BY <1>1, <1>2, <1>3, <1>7, <2>4, <2>5, OkPoints DEF Takes
<1>9. CASE ~Exists(id)
  <2>1. R = Adds(rows, save[s].scope3, k, used + 1, v)
    BY <1>1, <1>7, <1>9
  <2>2. SinglesIn(R) /\ Elsewhere(rows, R, k)
        /\ In(R, save[s].scope3, k) = In(rows, save[s].scope3, k) \cup {Row(used + 1, save[s].scope3, k, v)}
    BY <1>4, <2>1, AddElse, SinglesAdded
  <2>3. ASSUME Points1(save[s], rows, period) PROVE Points1(save'[s], R, period)
    <3>1. In(rows, save[s].scope3, k) = {}
      BY <1>6, <1>9, <2>3 DEF MatchingIn, Exists, In
    <3>2. PICK x : x = Row(used + 1, save[s].scope3, k, v)
      OBVIOUS
    <3>3. In(R, save[s].scope3, k) = {x} /\ x.val = v
      BY <2>2, <3>1, <3>2 DEF Row
    <3>4. ValuesIn(R, save[s].scope3, k) = {v}
      BY <1>6, <2>3, <3>3, OneValue
    <3> QED BY <1>2, <1>5, <2>2, <2>3, <3>4, CategoryTaken
  <2> QED BY <1>1, <1>2, <1>3, <1>7, <2>2, <2>3, OkPoints DEF Takes
<1> QED BY <1>8, <1>9

LEMMA OkLoseStep == ASSUME OkInv, PeriodInv', NEW s \in Savers, LoseStep(s) PROVE OkInv'
<1>1. PICK step \in save[s].todo :
         /\ save[s].pc = "points" /\ Quiet
         /\ save' = [save EXCEPT ![s] = [Next1(s, step, {}) EXCEPT !.lost = TRUE, !.before = Nothing]]
  BY DEF LoseStep, At, Set
<1>2. Shapes /\ s \in Busy /\ save[s] \in SaveRecord
  BY <1>1, BusyAre DEF OkInv, PeriodInv, Busy
<1>3. save'[s] = [save[s] EXCEPT !.todo = (@ \ {step}) \cup {}, !.lost = TRUE, !.before = Nothing]
  BY <1>1, <1>2, SetIs DEF Next1, SaveRecord
<1>4. Nothing \in Views
  BY DEF Nothing, Views
<1>5. save'[s] \in SaveRecord /\ save'[s].body = save[s].body /\ save'[s].alone = save[s].alone /\ save'[s].lost
  BY <1>2, <1>3, <1>4 DEF SaveRecord
<1>6. Moves(s)
  BY <1>1, <1>2, <1>5, SetIs DEF Moves
<1>7. SinglesIn(rows')
  BY <1>1 DEF Quiet, OkInv
<1> QED BY <1>2, <1>5, <1>6, <1>7, OkMoves

LEMMA OkAnswer == ASSUME OkInv, PeriodInv', NEW s \in Savers, Answer(s) \/ EndsEarly(s) PROVE OkInv'
<1>1. s \in Busy /\ Fails(s)
  BY DEF Answer, EndsEarly, Fails, At, Busy
<1> QED BY <1>1, OkFails

LEMMA OkDisturbs ==
    ASSUME OkInv, PeriodInv', save' = Disturbed(save), rows' \in SUBSET rows
    PROVE  OkInv'
<1>1. Shapes
  BY DEF OkInv, PeriodInv
<1>2. /\ \A s \in Savers \ Busy : save'[s] = save[s]
      /\ \A s \in Busy : ~save'[s].alone
  BY <1>1, DisturbedIs
<1>3. \A s \in Busy' : s \in Busy
  BY <1>2 DEF Busy
<1>4. SinglesIn(rows')
  BY SinglesFewer DEF OkInv
<1> QED BY <1>2, <1>3, <1>4 DEF OkInv, Advances

LEMMA DeletesFewer == ASSUME NEW ids, Delete(ids) PROVE rows' \in SUBSET rows
BY DEF Delete

LEMMA OkBeginSave == ASSUME OkInv, PeriodInv', NEW s \in Savers, BeginSave(s) PROVE OkInv'
<1>1. PICK body \in Sendable :
        save' = [Disturbed(save) EXCEPT ![s] =
            [pc |-> IF body.replaceAll THEN "list" ELSE "period", body |-> body, alone |-> Busy = {},
             lost |-> FALSE, before |-> IF Busy = {} THEN Shown ELSE Nothing, purge |-> <<>>, period |-> 0, emissions |-> 0,
             scope1 |-> 0, prev1 |-> None, scope3 |-> 0, match |-> <<>>, prev |-> <<>>,
             todo |-> {}]]
  BY DEF BeginSave
<1>2. save[s] = Idle /\ UNCHANGED <<period, rows>> /\ Shapes
  BY DEF BeginSave, OkInv, PeriodInv
<1>3. /\ Disturbed(save) = [t \in Savers |-> Disturbed(save)[t]]
      /\ \A t \in Savers \ Busy : Disturbed(save)[t] = save[t]
      /\ \A t \in Busy : ~Disturbed(save)[t].alone
  BY <1>2, DisturbedIs
<1> DEFINE pc == IF body.replaceAll THEN "list" ELSE "period"
           b == IF Busy = {} THEN Shown ELSE Nothing
           al == Busy = {}
           n == [pc |-> pc, body |-> body, alone |-> al,
             lost |-> FALSE, before |-> b, purge |-> <<>>, period |-> 0, emissions |-> 0,
             scope1 |-> 0, prev1 |-> None, scope3 |-> 0, match |-> <<>>, prev |-> <<>>,
             todo |-> {}]
<1>4. save'[s] = n /\ \A t \in Savers \ {s} : save'[t] = Disturbed(save)[t]
  BY <1>1, <1>3
<1>5. ASSUME Busy = {} PROVE Progress(n, rows, period)
  <2>1. b = ShownIn(rows, period)
    BY <1>5, InIs
  <2>2. /\ pc = "list" => body.replaceAll
        /\ pc = "period" => ~body.replaceAll
        /\ pc \in {"list", "period"}
    OBVIOUS
  <2>3. n.pc = pc /\ n.body = body /\ n.before = b
    OBVIOUS
  <2> HIDE DEF n, pc, b, al
  <2> QED BY <2>1, <2>2, <2>3 DEF Progress, Base
<1>6. n.alone => Busy = {}
  OBVIOUS
<1> HIDE DEF n
<1>7. ASSUME NEW t \in Busy', save'[t].alone PROVE t = s
  <2>1. t \in Savers /\ save'[t].pc # "idle"
    BY DEF Busy
  <2>2. CASE t # s
    <3>1. save'[t] = Disturbed(save)[t]
      BY <1>4, <2>1, <2>2
    <3>2. t \notin Busy
      BY <1>3, <1>7, <3>1
    <3>3. save[t].pc = "idle" /\ save'[t] = save[t]
      BY <1>3, <2>1, <3>1, <3>2 DEF Busy
    <3> QED BY <2>1, <3>3
  <2> QED BY <2>2
<1>8. Advances'
  <2> SUFFICES ASSUME NEW t \in Busy', save'[t].alone, ~save'[t].lost PROVE Progress(save'[t], rows', period')
    BY DEF Advances
  <2>1. t = s
    BY <1>7
  <2> QED BY <1>2, <1>4, <1>5, <1>6, <2>1
<1>9. SinglesIn(rows')
  BY <1>2 DEF OkInv
<1> QED BY <1>8, <1>9 DEF OkInv

LEMMA OkInitial == ASSUME PeriodInit PROVE OkInv
<1>1. Busy = {} /\ rows = {}
  BY DEF PeriodInit, Busy, Idle
<1>2. SinglesIn(rows) /\ Advances
  BY <1>1 DEF SinglesIn, In, Advances
<1> QED BY <1>2, PeriodInitial DEF OkInv

LEMMA OkStill == ASSUME OkInv, PeriodInv', UNCHANGED <<period, rows, save>> PROVE OkInv'
BY DEF OkInv, Advances, Busy

LEMMA OkStep == OkInv /\ [PeriodNext]_pvars => OkInv'
<1> SUFFICES ASSUME OkInv, [PeriodNext]_pvars PROVE OkInv'
  OBVIOUS
<1>0. PeriodInv'
  BY PeriodStep DEF OkInv
<1>1. ASSUME NEW s \in Savers, SaveSteps(s) PROVE OkInv'
  BY <1>0, <1>1, OkBeginSave, OkListAll, OkPurgeOne, OkPurged, OkUpsertPeriod, OkUpsertEmissions,
     OkScope1Reads, OkScope1Deletes, OkScope1Writes, OkUpsertScope3, OkUpsertCategory,
     OkLoseStep, OkAnswer DEF SaveSteps
<1>2. CASE DeletePoint
  <2>1. PICK x \in rows : Delete({x.id}) /\ save' = Disturbed(save)
    BY <1>2 DEF DeletePoint
  <2> QED BY <1>0, <2>1, DeletesFewer, OkDisturbs
<1>3. CASE DeletePeriod
  BY <1>0, <1>3, DeletesFewer, OkDisturbs DEF DeletePeriod
<1>4. CASE ScriptMarks
  BY <1>0, <1>4, OkStill DEF ScriptMarks
<1>5. CASE ScriptDeletes
  BY <1>0, <1>5, DeletesFewer, OkDisturbs DEF ScriptDeletes
<1>6. CASE UNCHANGED pvars
  BY <1>0, <1>6, OkStill DEF pvars
<1> QED BY <1>1, <1>2, <1>3, <1>4, <1>5, <1>6 DEF PeriodNext

\* Two different rows make more than one.
LEMMA ManyCount ==
    ASSUME NEW S, IsFiniteSet(S), NEW x \in S, NEW y \in S, x # y
    PROVE  Cardinality(S) > 1
<1>1. {x, y} \subseteq S /\ Cardinality({x, y}) = 2
  <2>1. Cardinality({x}) = 1 /\ IsFiniteSet({x})
    BY FS_Singleton
  <2>2. Cardinality({x} \cup {y}) = Cardinality({x}) + 1
    BY <2>1, FS_AddElement
  <2>3. {x} \cup {y} = {x, y}
    OBVIOUS
  <2> QED BY <2>1, <2>2, <2>3
<1>2. Cardinality({x, y}) <= Cardinality(S) /\ Cardinality(S) \in Nat
  BY <1>1, FS_Subset, FS_CardinalityType
<1> QED BY <1>1, <1>2

LEMMA OkAnswers == ASSUME OkInv, NEW s \in Savers PROVE AnswersAsOneStep(s)
<1> SUFFICES ASSUME save[s].pc = "points", save[s].todo = {}, save[s].alone, ~save[s].lost,
                    \A k \in Cats : ~(Cardinality(Below(Scope3, k)) > 1)
             PROVE  Shown = Applied(save[s].before, save[s].body)
  BY DEF AnswersAsOneStep, Answer, At
<1>1. s \in Busy
  BY DEF Busy
<1>2. Points1(save[s], rows, period)
  BY <1>1 DEF OkInv, Advances, Progress
<1>3. PICK q : q = save[s]
  OBVIOUS
<1>4. /\ q.emissions = EmissionsIn(rows, period) /\ q.scope3 = IdIn(rows, q.emissions, "scope3") /\ q.todo = {}
      /\ Scope1Done(q, rows) /\ \A k \in Cats : CatDone(q, rows, k)
  BY <1>2, <1>3 DEF Points1
<1>5. q.scope3 = Scope3In(rows, period) /\ q.scope3 = Scope3
  BY <1>4, InIs DEF Scope3In
<1>6. ValuesIn(rows, q.emissions, "scope1") = Applied(q.before, q.body).scope1
  BY <1>4 DEF Scope1Done
<1>7. \A k \in Cats : ~ManyIn(rows, q.scope3, k)
  <2> SUFFICES ASSUME NEW k \in Cats, ManyIn(rows, q.scope3, k) PROVE FALSE
    OBVIOUS
  <2>1. PICK x, y \in In(rows, q.scope3, k) : x # y
    BY DEF ManyIn
  <2>2. IsFiniteSet(rows)
    BY IdsOfRows, PeriodAssumption DEF OkInv, PeriodInv, Shapes
  <2>3. In(rows, q.scope3, k) = Below(Scope3, k) /\ Below(Scope3, k) \subseteq rows
    BY <1>5, InIs DEF Below
  <2>4. IsFiniteSet(Below(Scope3, k))
    BY <2>2, <2>3, FS_Subset
  <2> QED BY <2>1, <2>3, <2>4, ManyCount
<1>8. \A k \in Cats : ValuesIn(rows, q.scope3, k) = Applied(q.before, q.body).cats[k]
  <2> SUFFICES ASSUME NEW k \in Cats PROVE ValuesIn(rows, q.scope3, k) = Applied(q.before, q.body).cats[k]
    OBVIOUS
  <2>1. CatDone(q, rows, k) /\ ~ManyIn(rows, q.scope3, k)
    BY <1>4, <1>7
  <2>2. Applied(q.before, q.body).cats[k] = IF k \in DOMAIN CatsOf(q.body) THEN {CatsOf(q.body)[k]} ELSE Base(q).cats[k]
    BY AppliedIs
  <2> QED BY <1>4, <2>1, <2>2 DEF CatDone
<1>9. ShownIn(rows, period) = [scope1 |-> Applied(q.before, q.body).scope1,
                               cats |-> [k \in Cats |-> Applied(q.before, q.body).cats[k]]]
  BY <1>4, <1>5, <1>6, <1>8 DEF ShownIn
<1>10. Applied(q.before, q.body) = [scope1 |-> Applied(q.before, q.body).scope1,
                                    cats |-> [k \in Cats |-> Applied(q.before, q.body).cats[k]]]
  BY AppliedIs
<1>11. ShownIn(rows, period) = Applied(q.before, q.body)
  BY <1>9, <1>10, Zenon
<1>12. Shown = ShownIn(rows, period)
  BY InIs
<1> QED BY <1>3, <1>11, <1>12

LEMMA OkInvHolds == PeriodSpec => []OkInv
<1>1. PeriodInit => OkInv
  BY OkInitial
<1> QED BY <1>1, OkStep, PTL DEF PeriodSpec

\* A save answered with ok, which was alone, has had no other effect than a single step.
THEOREM OkSavesAreOneStep == PeriodSpec => OkIsOneStep
<1>1. OkInv => \A s \in Savers : AnswersAsOneStep(s)
  BY OkAnswers
<1>2. OkInv /\ [PeriodNext]_pvars => [\A s \in Savers : AnswersAsOneStep(s)]_pvars
  BY <1>1
<1> QED BY <1>2, OkInvHolds, PTL DEF PeriodSpec, OkIsOneStep

-----------------------------------------------------------------------------
(* What is stored is of its type, and every id in use is one that was given out. *)

\* Ids and batches are among those given out.
GoalBounds ==
    /\ \A g \in goals : g.id \in 1..made /\ g.batch \in 0..writes
    /\ \A w \in Writing : writer[w].batch \in 0..writes /\ writer[w].found \subseteq 1..made

LEMMA GoalBoundsStep == GoalInv /\ GoalBounds /\ [GoalNext]_gvars => GoalBounds'
<1>. SUFFICES ASSUME GoalInv, GoalBounds, [GoalNext]_gvars PROVE GoalBounds'
  OBVIOUS
<1>1. /\ made \in Nat /\ writes \in Nat /\ writer \in [Writers -> WriterType \cup {Resting}]
      /\ \A g \in goals : g \in GoalType
  BY DEF GoalInv, GoalTypes
<1>2. \A w \in Writers : w \in Writing <=> writer[w] # Resting
  BY <1>1 DEF Writing, Resting, WriterType
<1>3. ASSUME NEW w \in Writers, BeginExtraction(w) PROVE GoalBounds'
  <2>1. writes' = writes + 1 /\ UNCHANGED <<goals, made>>
    BY <1>3 DEF BeginExtraction
  <2>2. writer'[w].batch = writes + 1 /\ writer'[w].found = {} /\ \A v \in Writers : v # w => writer'[v] = writer[v]
    BY <1>1, <1>3 DEF BeginExtraction
  <2>3. \A v \in Writing' : v = w \/ (v \in Writing /\ writer'[v] = writer[v])
    BY <2>2 DEF Writing
  <2>. QED
    BY <1>1, <2>1, <2>2, <2>3 DEF GoalBounds
<1>4. ASSUME NEW w \in Writers, FindUnverified(w) PROVE GoalBounds'
  <2>1. UNCHANGED <<goals, made, writes>>
    BY <1>4 DEF FindUnverified
  <2>2. writer[w] \in WriterType /\ w \in Writing
    BY <1>1, <1>4 DEF FindUnverified, Resting, Writing
  <2>3. /\ writer'[w].batch = writer[w].batch
        /\ writer'[w].found \subseteq {g.id : g \in goals}
        /\ \A v \in Writers : v # w => writer'[v] = writer[v]
    BY <1>1, <1>4, <2>2 DEF FindUnverified, WriterType
  <2>4. \A v \in Writing' : v = w \/ (v \in Writing /\ writer'[v] = writer[v])
    BY <2>3 DEF Writing
  <2>. QED
    BY <2>1, <2>2, <2>3, <2>4 DEF GoalBounds
<1>5. ASSUME NEW w \in Writers, Commit(w) PROVE GoalBounds'
  <2>1. writer[w] \in WriterType /\ w \in Writing
    BY <1>1, <1>5 DEF Commit, Resting, Writing
  <2>2. writer[w].texts \in SUBSET Texts /\ writer[w].report \in AnyReport /\ writer[w].batch \in Nat
    BY <2>1 DEF WriterType
  <2>. DEFINE n == Cardinality(writer[w].texts)
              N == NewGoals(writer[w].texts, writer[w].report, writer[w].batch)
  <2>3. /\ n \in Nat
        /\ \A g \in N : g \in GoalType /\ g.id > made /\ g.id <= made + n /\ g.batch = writer[w].batch
    <3>1. GoalTypes
      BY DEF GoalInv
    <3>2. \A T \in SUBSET Texts, r \in AnyReport, b \in Nat :
             /\ NewGoals(T, r, b) \subseteq GoalType /\ Cardinality(T) \in Nat
             /\ \A g \in NewGoals(T, r, b) : g.id > made /\ g.id <= made + Cardinality(T) /\ g.batch = b
      BY <3>1, NewGoalsAre
    <3>. DEFINE T == writer[w].texts
                r == writer[w].report
                b == writer[w].batch
    <3>3. T \in SUBSET Texts /\ r \in AnyReport /\ b \in Nat
      BY <2>2
    <3>. HIDE DEF T, r, b
    <3>4. /\ NewGoals(T, r, b) \subseteq GoalType /\ Cardinality(T) \in Nat
          /\ \A g \in NewGoals(T, r, b) : g.id > made /\ g.id <= made + Cardinality(T) /\ g.batch = b
      BY <3>2, <3>3
    <3>. QED
      BY <3>4 DEF T, r, b
  <2>4. goals' = {g \in goals : g.id \notin writer[w].found} \cup N
        /\ made' = made + n /\ writes' = writes
        /\ writer' = [writer EXCEPT ![w] = Resting]
    BY <1>5 DEF Commit
  <2>. HIDE DEF n, N
  <2>5. \A v \in Writing' : v \in Writing /\ writer'[v] = writer[v]
    BY <1>1, <2>4 DEF Writing, Resting
  <2>6. \A g \in goals' : g.id \in 1..made' /\ g.batch \in 0..writes'
    <3>1. \A g \in N : g.id \in Nat
      BY <2>3 DEF GoalType
    <3>. QED
      BY <1>1, <2>1, <2>3, <2>4, <3>1 DEF GoalBounds
  <2>7. 1..made \subseteq 1..made'
    BY <1>1, <2>3, <2>4
  <2>. QED
    BY <2>4, <2>5, <2>6, <2>7 DEF GoalBounds
<1>6. ASSUME NEW w \in Writers, Rollback(w) PROVE GoalBounds'
  <2>1. UNCHANGED <<goals, made, writes>> /\ writer' = [writer EXCEPT ![w] = Resting]
    BY <1>6 DEF Rollback
  <2>2. \A v \in Writing' : v \in Writing /\ writer'[v] = writer[v]
    BY <1>1, <2>1 DEF Writing, Resting
  <2>. QED
    BY <2>1, <2>2 DEF GoalBounds
<1>7. CASE StaffCreate
  <2>1. PICK e : goals' = goals \cup {e} /\ e.id = made + 1 /\ e.batch = 0
    <3>1. PICK r \in AnyReport, t \in Texts, v \in BOOLEAN : goals' =
             goals \cup {[id |-> made + 1, report |-> r, text |-> t, verified |-> <<v>>, batch |-> 0]}
      BY <1>7 DEF StaffCreate
    <3>. DEFINE e == [id |-> made + 1, report |-> r, text |-> t, verified |-> <<v>>, batch |-> 0]
    <3>2. e.id = made + 1 /\ e.batch = 0
      OBVIOUS
    <3>. QED
      BY <3>1, <3>2
  <2>2. made' = made + 1 /\ writes' = writes + 1 /\ writer' = writer
    BY <1>7 DEF StaffCreate
  <2>3. 1..made \subseteq 1..made' /\ 0..writes \subseteq 0..writes'
    BY <1>1, <2>2
  <2>4. made + 1 \in 1..made' /\ 0 \in 0..writes'
    BY <1>1, <2>2
  <2>. QED
    BY <2>1, <2>2, <2>3, <2>4 DEF GoalBounds, Writing
<1>8. CASE StaffUpdate
  <2>1. PICK g \in goals : \E e : goals' = (goals \ {g}) \cup {e} /\ e.id = g.id /\ e.batch = 0
    <3>1. PICK g \in goals, r \in AnyReport, t \in Texts, v \in BOOLEAN :
             goals' = (goals \ {g}) \cup
                      {[g EXCEPT !.report = r, !.text = t, !.verified = Append(@, v), !.batch = 0]}
      BY <1>8 DEF StaffUpdate
    <3>. DEFINE e == [g EXCEPT !.report = r, !.text = t, !.verified = Append(@, v), !.batch = 0]
    <3>2. e.id = g.id /\ e.batch = 0
      BY <1>1 DEF GoalType
    <3>. QED
      BY <3>1, <3>2
  <2>2. made' = made /\ writes' = writes + 1 /\ writer' = writer
    BY <1>8 DEF StaffUpdate
  <2>3. 0..writes \subseteq 0..writes' /\ 0 \in 0..writes'
    BY <1>1, <2>2
  <2>. QED
    BY <2>1, <2>2, <2>3 DEF GoalBounds, Writing
<1>9. CASE StaffDelete
  <2>1. goals' \subseteq goals /\ UNCHANGED <<writer, made, writes>>
    BY <1>9 DEF StaffDelete
  <2>. QED
    BY <2>1 DEF GoalBounds, Writing
<1>10. CASE UNCHANGED gvars
  BY <1>10 DEF gvars, GoalBounds, Writing
<1>. QED
  BY <1>3, <1>4, <1>5, <1>6, <1>7, <1>8, <1>9, <1>10 DEF GoalNext

\* Goals, their metadata and the requests are well typed in every reachable state.
THEOREM GoalTypesHold == GoalSpec => []GoalTypesOK
<1>1. GoalInit => GoalBounds
  BY DEF GoalInit, GoalBounds, Writing, Resting
<1>2. GoalInv /\ GoalBounds => GoalTypesOK
  BY DEF GoalInv, GoalTypes, GoalType, OwnIds, GoalBounds, GoalTypesOK
<1>. QED
  BY <1>1, <1>2, GoalInitial, GoalStep, GoalBoundsStep, PTL DEF GoalSpec

\* The script lists, and holds, only ids of companies.
ListKnown ==
    /\ list \subseteq Firms
    /\ turn.at = "pages" => DOMAIN turn.things \subseteq Firms

LEMMA ListKnownStep == ShellInv /\ ListKnown /\ [ShellNext]_svars => ListKnown'
<1>. SUFFICES ASSUME ShellInv, ListKnown, [ShellNext]_svars PROVE ListKnown'
  OBVIOUS
<1>1. CASE RunSteps
  <2>1. UNCHANGED <<list, turn>>
    BY <1>1 DEF RunSteps, RunBegins, PrecheckCreates, PrecheckFinds, syncRunCompanyId, Relinks, Saves,
                RunFails, Retried, StaffAdd, ByScript
  <2>. QED
    BY <2>1 DEF ListKnown
<1>2. CASE ListPage
  <2>1. list' = list /\ turn' = [at |-> "pages", things |-> on] /\ DOMAIN on \subseteq Firms
    BY <1>2 DEF ListPage, ShellInv, ShellTypes, There
  <2>. QED
    BY <2>1 DEF ListKnown
<1>3. CASE ListRuns
  BY <1>3 DEF ListRuns, NoRun, ListKnown
<1>4. CASE \E c \in Firms : ComesTo(c)
  <2>1. list' \subseteq list /\ turn'.at # "pages"
    BY <1>4 DEF ComesTo, NoRun
  <2>. QED
    BY <2>1 DEF ListKnown
<1>5. CASE CountsRuns
  <2>1. turn \in [at : {"runs", "delete"}, company : Firms, things : SUBSET Things,
                  had : SUBSET Things, used : SUBSET ReportRuns]
    BY <1>5 DEF CountsRuns, ShellInv, ShellTypes, AtCompany
  <2>2. list' = list /\ turn'.at # "pages"
    BY <1>5, <2>1 DEF CountsRuns, NoRun
  <2>. QED
    BY <2>2 DEF ListKnown
<1>6. CASE Deletes
  BY <1>6 DEF Deletes, NoRun, ListKnown
<1>7. CASE UNCHANGED svars
  BY <1>7 DEF svars, ListKnown
<1>. QED
  BY <1>1, <1>2, <1>3, <1>4, <1>5, <1>6, <1>7 DEF ShellNext, Script

\* Companies, runs, their rows and the script are well typed in every reachable state.
THEOREM ShellTypesHold == ShellSpec => []ShellTypeOK
<1>1. ShellInit => ListKnown
  BY DEF ShellInit, ListKnown, NoRun
<1>2. ShellInv /\ ListKnown => ShellTypeOK
  <2>. SUFFICES ASSUME ShellInv, ListKnown PROVE ShellTypeOK
    OBVIOUS
  <2>1. /\ runOf \in [ReportRuns -> RunType] /\ row \in [ReportRuns -> RowType]
        /\ There \subseteq Firms /\ on \in [There -> SUBSET Things]
        /\ turn.at \in {"idle", "pages", "runs", "delete"}
    BY DEF ShellInv, ShellTypes
  <2>. QED
    BY <2>1 DEF ListKnown, ShellTypeOK, RunType, RowType
<1>. QED
  BY <1>1, <1>2, ShellInitial, ShellStep, ListKnownStep, PTL DEF ShellSpec

-----------------------------------------------------------------------------
(***************************************************************************)
(* The types of the tables: every row hangs on one that is there or on     *)
(* nothing, metadata is of a row that is there, and no two have a number.  *)
(***************************************************************************)

\* A set of numbers up to n has a greatest one, or is empty.
LEMMA GreatestOf ==
    ASSUME NEW n \in Nat, NEW T, T \subseteq 1..n
    PROVE  Max({0} \cup T) \in {0} \cup T /\ \A t \in T : t <= Max({0} \cup T)
<1>. DEFINE S == {0} \cup T
            D == {d \in Nat : n - d \in S}
            R == {p \in Nat \X Nat : p[1] < p[2]}
<1>0. S \subseteq 0..n /\ 0 \in S
  OBVIOUS
<1>1. n \in D
  BY <1>0
<1>2. IsWellFoundedOn(R, Nat)
  BY NatLessThanWellFounded DEF OpToRel
<1>3. PICK d \in D : \A e \in D : ~(<<e, d>> \in R)
  BY <1>1, <1>2, WFMin
<1>4. ASSUME NEW y \in S PROVE n - d >= y
  <2>1. y \in 0..n /\ n - y \in Nat /\ n - (n - y) = y
    BY <1>0
  <2>2. n - y \in D
    BY <2>1
  <2>3. ~(n - y < d)
    BY <1>3, <2>1, <2>2
  <2>. QED
    BY <2>1, <2>3
<1>5. \E x \in S : \A y \in S : x >= y
  BY <1>4
<1>6. Max(S) \in S /\ \A y \in S : Max(S) >= y
  BY <1>5 DEF Max
<1>. QED
  BY <1>0, <1>6

Linked(R, M) == \A m \in M : \E x \in R : x.id = m.row /\ x.kind \in Points
Owned(R, p) == \A x \in R : x.owner = 0 \/ x.owner = p \/ \E y \in R : y.id = x.owner
Dated(M) ==
    /\ \E n \in Nat : \A m \in M : m.at \in 1..n
    /\ \A m, n \in M : m.at = n.at => m = n

TableInv ==
    /\ Linked(rows, metadata) /\ Owned(rows, period) /\ Dated(metadata)
    /\ saves \in 0..MaxSaves

\* The rows of R are there in R2, maybe with another owner or value.
Stays(R, R2) == \A y \in R : \E x \in R2 : x.id = y.id /\ x.kind = y.kind

LEMMA AttachedStay ==
    ASSUME NEW R, NEW u, NEW p, RowsFit(R, u, p), NEW o, NEW k, NEW id, NEW v
    PROVE  Stays(R, Attaches(R, o, k, id, v))
<1>. SUFFICES ASSUME NEW y \in R PROVE \E x \in Attaches(R, o, k, id, v) : x.id = y.id /\ x.kind = y.kind
  BY DEF Stays
<1>. DEFINE x == IF y.owner = o /\ y.kind = k THEN [y EXCEPT !.owner = 0] ELSE y
<1>1. x \in Attaches(R, o, k, id, v)
  BY DEF Attaches
<1>2. x.id = y.id /\ x.kind = y.kind
  BY DEF RowsFit, RowRecord
<1>. QED
  BY <1>1, <1>2

LEMMA AddedStay == ASSUME NEW R, NEW o, NEW k, NEW id, NEW v PROVE Stays(R, Adds(R, o, k, id, v))
BY DEF Stays, Adds

LEMMA ChangedStay ==
    ASSUME NEW R, NEW u, NEW p, RowsFit(R, u, p), NEW id, NEW v
    PROVE  Stays(R, Changes(R, id, v))
<1>. SUFFICES ASSUME NEW y \in R PROVE \E x \in Changes(R, id, v) : x.id = y.id /\ x.kind = y.kind
  BY DEF Stays
<1>. DEFINE x == IF y.id = id THEN [y EXCEPT !.val = v] ELSE y
<1>1. x \in Changes(R, id, v)
  BY DEF Changes
<1>2. x.id = y.id /\ x.kind = y.kind
  BY DEF RowsFit, RowRecord
<1>. QED
  BY <1>1, <1>2

\* A row made below one that is there, or below the period, has its owner, and so have the others.
LEMMA AttachedOwned ==
    ASSUME NEW R, NEW u \in Nat, NEW p, RowsFit(R, u, p), Owned(R, p), NEW o, NEW k, NEW v,
           o = p \/ \E y \in R : y.id = o
    PROVE  Owned(Attaches(R, o, k, u + 1, v), p)
<1>. DEFINE R2 == Attaches(R, o, k, u + 1, v)
<1>1. \A x \in R2 : x = Row(u + 1, o, k, v) \/ \E y \in R : x.owner = 0 \/ x.owner = y.owner
  BY AttachedIs
<1>2. \A y \in R : \E x \in R2 : x.id = y.id
  BY AttachedStay DEF Stays
<1>3. Row(u + 1, o, k, v).owner = o
  BY DEF Row
<1>. HIDE DEF R2
<1>4. \A x \in R2 : x.owner = 0 \/ x.owner = p \/ \E y \in R : y.id = x.owner
  BY <1>1, <1>3 DEF Owned
<1>5. Owned(R2, p)
  BY <1>2, <1>4 DEF Owned
<1>. QED
  BY <1>5 DEF R2

LEMMA AddedOwned ==
    ASSUME NEW R, NEW p, Owned(R, p), NEW o, NEW k, NEW id, NEW v, \E y \in R : y.id = o
    PROVE  Owned(Adds(R, o, k, id, v), p)
<1>1. Row(id, o, k, v).owner = o
  BY DEF Row
<1>. QED
  BY <1>1 DEF Adds, Owned

LEMMA ChangedOwned ==
    ASSUME NEW R, NEW u \in Nat, NEW p, RowsFit(R, u, p), Owned(R, p), NEW id, NEW v \in Values
    PROVE  Owned(Changes(R, id, v), p)
<1>. DEFINE R2 == Changes(R, id, v)
<1>1. \A x \in R2 : \E y \in R : x.owner = y.owner
  BY ChangedIs
<1>2. \A y \in R : \E x \in R2 : x.id = y.id
  BY ChangedStay DEF Stays
<1>. HIDE DEF R2
<1>3. Owned(R2, p)
  BY <1>1, <1>2 DEF Owned
<1>. QED
  BY <1>3 DEF R2

LEMMA LinkedStill ==
    ASSUME NEW R, NEW R2, NEW M, Linked(R, M), Stays(R, R2)
    PROVE  Linked(R2, M)
BY DEF Linked, Stays

\* Metadata of a row that is there, with the next number.
LEMMA RememberedIs ==
    ASSUME TableInv, NEW id, NEW prev, Remember(id, prev), Stays(rows, rows'),
           \E x \in rows' : x.id = id /\ x.kind \in Points
    PROVE  Linked(rows', metadata') /\ Dated(metadata')
<1>. DEFINE T == {m.at : m \in metadata}
            e == [at |-> NextNumber, row |-> id, prev |-> prev]
<1>1. metadata' = metadata \cup {e} /\ e.at = NextNumber /\ e.row = id
  BY DEF Remember
<1>2. PICK n \in Nat : \A m \in metadata : m.at \in 1..n
  BY DEF TableInv, Dated
<1>3. T \subseteq 1..n
  BY <1>2
<1>4. Max({0} \cup T) \in {0} \cup T /\ \A t \in T : t <= Max({0} \cup T)
  BY <1>2, <1>3, GreatestOf
<1>5. NextNumber \in Nat /\ NextNumber >= 1 /\ \A m \in metadata : m.at < NextNumber
  <2>1. \A m \in metadata : m.at \in T /\ m.at \in Nat
    BY <1>2
  <2>2. Max({0} \cup T) \in Nat /\ NextNumber = 1 + Max({0} \cup T)
    BY <1>3, <1>4 DEF NextNumber
  <2>. DEFINE x == Max({0} \cup T)
  <2>3. \A m \in metadata : m.at <= x
    BY <1>4, <2>1
  <2>. HIDE DEF x
  <2>4. x \in Nat /\ NextNumber = 1 + x
    BY <2>2 DEF x
  <2>. QED
    BY <2>1, <2>3, <2>4
<1>. HIDE DEF e
<1>6. Linked(rows', metadata')
  BY <1>1, LinkedStill DEF TableInv, Linked
<1>7. Dated(metadata')
  <2>1. \A m, k \in metadata' : m.at = k.at => m = k
    BY <1>1, <1>2, <1>5 DEF TableInv, Dated
  <2>2. \A m \in metadata' : m.at \in 1..(n + NextNumber)
    BY <1>1, <1>2, <1>5
  <2>3. n + NextNumber \in Nat
    BY <1>2, <1>5
  <2>. QED
    BY <2>1, <2>2, <2>3 DEF Dated
<1>. QED
  BY <1>6, <1>7

\* Three levels are all there are below a row or the period: what is left has its owner.
LEMMA DeletedOwned ==
    ASSUME Shapes, Owned(rows, period), NEW ids, NEW y \in rows, y.owner \in Cascade(ids)
    PROVE  y.id \in Cascade(ids)
<1>. DEFINE L1 == WithChildren(ids)
            L2 == WithChildren(L1)
            L3 == WithChildren(L2)
<1>0. Cascade(ids) = L3
  BY DEF Cascade
<1>1. /\ \A i : i \in L1 => i \in ids \/ \E x \in rows : x.id = i /\ x.owner \in ids
      /\ \A x \in rows : x.owner \in ids => x.id \in L1
  BY DEF WithChildren
<1>2. /\ \A i : i \in L2 => i \in L1 \/ \E x \in rows : x.id = i /\ x.owner \in L1
      /\ \A x \in rows : x.owner \in L1 => x.id \in L2
  BY DEF WithChildren
<1>3. /\ \A i : i \in L3 => i \in L2 \/ \E x \in rows : x.id = i /\ x.owner \in L2
      /\ \A x \in rows : x.owner \in L2 => x.id \in L3
      /\ \A i \in L2 : i \in L3
  BY DEF WithChildren
<1>4. \A i \in ids : i \in L1
  BY DEF WithChildren
<1>5. \A i \in L1 : i \in L2
  BY DEF WithChildren
<1>. HIDE DEF L1, L2, L3
<1>6. /\ \A a, b \in rows : b.owner = a.id => ChildOf(b, a)
      /\ \A a, b \in rows : a.id = b.id => a = b
  BY DEF Shapes, RowsFit
<1>7. CASE y.owner \in L2
  BY <1>0, <1>3, <1>7
<1>8. CASE y.owner \notin L2
  <2>1. PICK x \in rows : x.id = y.owner /\ x.owner \in L2
    BY <1>0, <1>3, <1>8
  <2>2. x.owner \notin L1
    BY <1>2, <1>8, <2>1
  <2>3. PICK w \in rows : w.id = x.owner /\ w.owner \in L1
    BY <1>2, <2>1, <2>2
  <2>4. w.owner \notin ids
    BY <1>1, <2>2, <2>3
  <2>5. PICK v \in rows : v.id = w.owner
    BY <1>1, <2>3, <2>4
  <2>6. ChildOf(y, x) /\ ChildOf(x, w) /\ ChildOf(w, v)
    BY <1>6, <2>1, <2>3, <2>5
  <2>7. FALSE
    BY <2>6, PeriodAssumption DEF ChildOf
  <2>. QED
    BY <2>7
<1>. QED
  BY <1>7, <1>8

LEMMA DeletedTables ==
    ASSUME Shapes, TableInv, NEW ids, Delete(ids), saves' = saves,
           period' = period \/ (period' = 0 /\ period \in ids)
    PROVE  TableInv'
<1>. DEFINE gone == Cascade(ids)
<1>1. rows' = {x \in rows : x.id \notin gone} /\ metadata' = {m \in metadata : m.row \notin gone}
  BY DEF Delete
<1>2. \A y \in rows : y.owner \in gone => y.id \in gone
  BY DeletedOwned DEF TableInv
<1>3. \A i \in ids : i \in gone
  BY DEF Cascade, WithChildren
<1>. HIDE DEF gone
<1>4. Linked(rows', metadata')
  BY <1>1 DEF TableInv, Linked
<1>5. Owned(rows', period')
  BY <1>1, <1>2, <1>3 DEF TableInv, Owned
<1>6. Dated(metadata')
  BY <1>1 DEF TableInv, Dated
<1>. QED
  BY <1>4, <1>5, <1>6 DEF TableInv

\* A row gets a value, and its metadata.
LEMMA ChangedTables ==
    ASSUME Shapes, TableInv, NEW s, NEW id, NEW v \in Values, NEW prev, Change(s, id, v, prev),
           \E x \in rows : x.id = id /\ x.kind \in Points, UNCHANGED <<saves, period>>
    PROVE  TableInv'
<1>1. RowsFit(rows, used, period) /\ used \in Nat
  BY PeriodAssumption DEF Shapes
<1>2. rows' = Changes(rows, id, v) /\ Remember(id, prev)
  BY DEF Change, Changes
<1>3. Stays(rows, rows')
  BY <1>1, <1>2, ChangedStay
<1>4. Owned(rows', period)
  BY <1>1, <1>2, ChangedOwned DEF TableInv
<1>5. Linked(rows', metadata') /\ Dated(metadata')
  <2>1. \E x \in rows' : x.id = id /\ x.kind \in Points
    BY <1>3 DEF Stays
  <2>. QED
    BY <1>2, <1>3, <2>1, RememberedIs
<1>. QED
  BY <1>4, <1>5 DEF TableInv

\* A data point is made below a row, alone of its kind or beside others, and its metadata.
LEMMA MadeTables ==
    ASSUME Shapes, TableInv, NEW o, NEW k \in Points, NEW v, NEW prev,
           \/ rows' = Attaches(rows, o, k, used + 1, v)
           \/ rows' = Adds(rows, o, k, used + 1, v),
           Exists(o), Remember(used + 1, prev), UNCHANGED <<saves, period>>
    PROVE  TableInv'
<1>1. RowsFit(rows, used, period) /\ used \in Nat
  BY PeriodAssumption DEF Shapes
<1>2. Stays(rows, rows')
  BY <1>1, AttachedStay, AddedStay
<1>3. Owned(rows', period)
  BY <1>1, AttachedOwned, AddedOwned DEF TableInv, Exists
<1>4. Linked(rows', metadata') /\ Dated(metadata')
  <2>1. Row(used + 1, o, k, v) \in rows'
    BY DEF Attaches, Adds
  <2>2. Row(used + 1, o, k, v).id = used + 1 /\ Row(used + 1, o, k, v).kind = k
    BY DEF Row
  <2>. QED
    BY <1>2, <2>1, <2>2, RememberedIs
<1>. QED
  BY <1>3, <1>4 DEF TableInv

\* A row without a value is made.
LEMMA AttachedTables ==
    ASSUME Shapes, TableInv, NEW o, NEW k, Attach(o, k, used + 1), o = period \/ Exists(o),
           UNCHANGED <<saves, period, metadata>>
    PROVE  TableInv'
<1>1. RowsFit(rows, used, period) /\ used \in Nat
  BY PeriodAssumption DEF Shapes
<1>2. rows' = Attaches(rows, o, k, used + 1, None)
  BY DEF Attach, Attaches
<1>3. Linked(rows', metadata')
  BY <1>1, <1>2, AttachedStay, LinkedStill DEF TableInv
<1>4. Owned(rows', period)
  BY <1>1, <1>2, AttachedOwned DEF TableInv, Exists
<1>. QED
  BY <1>3, <1>4 DEF TableInv

LEMMA TablesStill == ASSUME TableInv, UNCHANGED <<rows, metadata, period, saves>> PROVE TableInv'
BY DEF TableInv

\* The writes of a save.
LEMMA SaveTables ==
    ASSUME PeriodInv, TableInv, NEW s \in Savers, SaveSteps(s)
    PROVE  TableInv'
<1>0. Shapes /\ RowsFit(rows, used, period) /\ used \in Nat
  BY PeriodAssumption DEF PeriodInv, Shapes
<1>1. CASE BeginSave(s)
  <2>1. UNCHANGED <<rows, metadata, period>> /\ saves < MaxSaves /\ saves' = saves + 1
    BY <1>1 DEF BeginSave
  <2>2. saves' \in 0..MaxSaves
    BY <2>1, PeriodAssumption DEF TableInv
  <2>. QED
    BY <2>1, <2>2 DEF TableInv
<1>2. CASE ListAll(s) \/ Purged(s) \/ Scope1Reads(s) \/ LoseStep(s) \/ Answer(s) \/ EndsEarly(s)
  <2>1. UNCHANGED <<rows, metadata, period, saves>>
    BY <1>2 DEF ListAll, Purged, Scope1Reads, LoseStep, Answer, EndsEarly, Fails, Quiet
  <2>. QED
    BY <2>1, TablesStill
<1>3. CASE PurgeOne(s)
  <2>1. CASE Fails(s)
    BY <2>1, TablesStill DEF Fails, Quiet
  <2>2. CASE ~Fails(s)
    <3>1. Delete({Head(save[s].purge)}) /\ UNCHANGED <<period, saves>>
      BY <1>3, <2>2 DEF PurgeOne
    <3>. QED
      BY <1>0, <3>1, DeletedTables
  <2>. QED
    BY <2>1, <2>2
<1>4. CASE UpsertPeriod(s)
  <2>1. UNCHANGED <<rows, metadata, saves>> /\ (period' = period \/ period = 0)
    BY <1>4 DEF UpsertPeriod
  <2>. QED
    BY <2>1 DEF TableInv, Owned
<1>5. CASE UpsertEmissions(s)
  <2>1. CASE Fails(s) \/ Quiet
    BY <2>1, TablesStill DEF Fails, Quiet
  <2>2. CASE ~Fails(s) /\ ~Quiet
    <3>1. Attach(period, "emissions", used + 1) /\ UNCHANGED <<period, metadata, saves>>
      BY <1>5, <2>2 DEF UpsertEmissions
    <3>. QED
      BY <1>0, <3>1, AttachedTables
  <2>. QED
    BY <2>1, <2>2
<1>6. CASE Scope1Deletes(s)
  <2>1. Delete({save[s].scope1}) /\ UNCHANGED <<period, saves>>
    BY <1>6 DEF Scope1Deletes
  <2>. QED
    BY <1>0, <2>1, DeletedTables
<1>7. CASE Scope1Writes(s)
  <2>. DEFINE v == save[s].body.scope1
              id == save[s].scope1
  <2>1. /\ Does(s, "write1") /\ Set(s, Next1(s, "write1", {})) /\ UNCHANGED <<period, saves>>
        /\ "write1" \in save[s].todo
        /\ IF Exists(id) THEN Change(s, id, v, save[s].prev1) ELSE MakeSingle(s, v)
    BY <1>7 DEF Scope1Writes, Does
  <2>2. /\ s \in Busy /\ save[s] \in SaveRecord /\ SaveFits(save[s], rows, used)
    BY <2>1, StepTaken
  <2>3. v \in Values
    <3>1. save[s].body \in Sendable
      BY <2>2 DEF SaveRecord
    <3>. QED
      BY <2>1, <2>2, <3>1, BodyIs DEF SaveFits
  <2>. HIDE DEF v
  <2>4. CASE Exists(id)
    <3>1. \E x \in rows : x.id = id /\ x.kind \in Points
      BY <2>2, <2>4 DEF SaveFits, Exists, Points
    <3>2. Change(s, id, v, save[s].prev1)
      BY <2>1, <2>4
    <3>. HIDE DEF id
    <3>. QED
      BY <1>0, <2>1, <2>3, <3>1, <3>2, ChangedTables
  <2>5. CASE ~Exists(id)
    <3>1. MakeSingle(s, v)
      BY <2>1, <2>5
    <3>2. Exists(save[s].emissions) /\ Remember(used + 1, save[s].prev1)
          /\ rows' = Attaches(rows, save[s].emissions, "scope1", used + 1, v)
      BY <3>1 DEF MakeSingle, Attaches
    <3>. QED
      BY <1>0, <2>1, <3>2, MadeTables DEF Points
  <2>. QED
    BY <2>4, <2>5
<1>8. CASE UpsertScope3(s)
  <2>1. CASE Quiet
    BY <2>1, TablesStill DEF Quiet
  <2>2. CASE ~Quiet
    <3>1. Exists(save[s].emissions) /\ Attach(save[s].emissions, "scope3", used + 1)
          /\ UNCHANGED <<period, metadata, saves>>
      BY <1>8, <2>2 DEF UpsertScope3
    <3>. QED
      BY <1>0, <3>1, AttachedTables
  <2>. QED
    BY <2>1, <2>2
<1>9. CASE UpsertCategory(s)
  <2>1. PICK k \in Cats :
          /\ Does(s, k) /\ k \in save[s].todo /\ Set(s, Next1(s, k, {})) /\ UNCHANGED <<period, saves>>
          /\ IF Exists(save[s].match[k])
             THEN Change(s, save[s].match[k], CatsOf(save[s].body)[k], save[s].prev[k])
             ELSE /\ Exists(save[s].scope3)
                  /\ rows' = rows \cup {Row(used + 1, save[s].scope3, k, CatsOf(save[s].body)[k])}
                  /\ Remember(used + 1, save[s].prev[k])
    BY <1>9 DEF UpsertCategory, Does
  <2>. DEFINE v == CatsOf(save[s].body)[k]
              id == save[s].match[k]
  <2>2. s \in Busy /\ save[s] \in SaveRecord /\ SaveFits(save[s], rows, used)
    BY <2>1, StepTaken
  <2>3. v \in Values
    <3>1. save[s].body \in Sendable
      BY <2>2 DEF SaveRecord
    <3>2. k \in DOMAIN CatsOf(save[s].body)
      BY <2>1, <2>2 DEF SaveFits
    <3>. QED
      BY <3>1, <3>2, BodyIs
  <2>4. CASE Exists(id)
    <3>1. \E x \in rows : x.id = id /\ x.kind \in Points
      BY <2>1, <2>2, <2>4 DEF SaveFits, Exists, Points
    <3>2. Change(s, id, v, save[s].prev[k])
      BY <2>1, <2>4
    <3>. HIDE DEF id, v
    <3>. QED
      BY <1>0, <2>1, <2>3, <3>1, <3>2, ChangedTables
  <2>5. CASE ~Exists(id)
    <3>1. Exists(save[s].scope3) /\ rows' = Adds(rows, save[s].scope3, k, used + 1, v)
          /\ Remember(used + 1, save[s].prev[k]) /\ k \in Points
      BY <2>1, <2>5 DEF Adds, Points
    <3>. HIDE DEF v
    <3>. QED
      BY <1>0, <2>1, <3>1, MadeTables
  <2>. QED
    BY <2>4, <2>5
<1>. QED
  BY <1>1, <1>2, <1>3, <1>4, <1>5, <1>6, <1>7, <1>8, <1>9 DEF SaveSteps

LEMMA TableStep == PeriodInv /\ TableInv /\ [PeriodNext]_pvars => TableInv'
<1>. SUFFICES ASSUME PeriodInv, TableInv, [PeriodNext]_pvars PROVE TableInv'
  OBVIOUS
<1>0. Shapes
  BY DEF PeriodInv
<1>1. CASE \E s \in Savers : SaveSteps(s)
  BY <1>1, SaveTables
<1>2. CASE DeletePoint
  <2>1. PICK x \in rows : Delete({x.id}) /\ UNCHANGED <<period, saves>>
    BY <1>2 DEF DeletePoint
  <2>. QED
    BY <1>0, <2>1, DeletedTables
<1>3. CASE DeletePeriod
  <2>1. period' = 0 /\ Delete({period}) /\ saves' = saves
    BY <1>3 DEF DeletePeriod
  <2>. QED
    BY <1>0, <2>1, DeletedTables
<1>4. CASE ScriptMarks
  BY <1>4, TablesStill DEF ScriptMarks
<1>5. CASE ScriptDeletes
  <2>1. Delete(script) /\ UNCHANGED <<period, saves>>
    BY <1>5 DEF ScriptDeletes
  <2>. QED
    BY <1>0, <2>1, DeletedTables
<1>6. CASE UNCHANGED pvars
  BY <1>6, TablesStill DEF pvars
<1>. QED
  BY <1>1, <1>2, <1>3, <1>4, <1>5, <1>6 DEF PeriodNext

\* The tables of a year and the saves in flight are well typed in every reachable state: rows hang
\* on rows that are there, and metadata is of a data point that is there.
THEOREM PeriodTypesHold == PeriodSpec => []PeriodTypesOK
<1>1. PeriodInit => TableInv
  <2>. SUFFICES ASSUME PeriodInit PROVE TableInv
    OBVIOUS
  <2>1. 0 \in Nat /\ 0 \in 0..MaxSaves
    BY PeriodAssumption
  <2>. QED
    BY <2>1 DEF PeriodInit, TableInv, Linked, Owned, Dated
<1>2. PeriodInv /\ TableInv => PeriodTypesOK
  <2>. SUFFICES ASSUME PeriodInv, TableInv PROVE PeriodTypesOK
    OBVIOUS
  <2>1. Shapes /\ RowsFit(rows, used, period) /\ used \in 0..MaxIds /\ period \in 0..used
    BY DEF PeriodInv, Shapes
  <2>2. period \in 0..MaxIds /\ saves \in 0..MaxSaves
    BY <2>1, PeriodAssumption DEF TableInv
  <2>3. \A x \in rows : /\ x.id \in 1..used
                        /\ x.owner \in {0, period} \cup {y.id : y \in rows}
                        /\ x.kind \in Points \cup {"emissions", "scope3"}
                        /\ x.val \in Values \cup {None}
    BY <2>1 DEF RowsFit, RowRecord, Kinds, TableInv, Owned
  <2>4. \A x, y \in rows : x.id = y.id => x = y
    BY <2>1 DEF RowsFit
  <2>5. \A m \in metadata : \E x \in rows : x.id = m.row /\ x.kind \in Points
    BY DEF TableInv, Linked
  <2>6. \A m, n \in metadata : m.at = n.at => m = n
    BY DEF TableInv, Dated
  <2>7. \A s \in Busy : save[s].body \in Bodies /\ DOMAIN save[s].match \subseteq Cats
    <3>. SUFFICES ASSUME NEW s \in Busy PROVE save[s].body \in Bodies /\ DOMAIN save[s].match \subseteq Cats
      OBVIOUS
    <3>1. save[s] \in SaveRecord
      BY <2>1, BusyAre
    <3>2. save[s].body \in Sendable /\ save[s].match \in MapsOfCats(Nat)
      BY <3>1 DEF SaveRecord
    <3>. QED
      BY <3>2 DEF Sendable, MapsOfCats
  <2>. QED
    BY <2>1, <2>2, <2>3, <2>4, <2>5, <2>6, <2>7 DEF PeriodTypesOK
<1>. QED
  BY <1>1, <1>2, PeriodInvHolds, TableStep, PTL DEF PeriodSpec

\* Every part of what is stored for a company holds what its columns are for, at every step of
\* the saves, of the staff's edits and of the scripts.
THEOREM DataTypesHold == PeriodSpec /\ GoalSpec /\ IdSpec /\ ShellSpec => []DataTypesOK
<1>1. PeriodTypesOK /\ GoalTypesOK /\ IdTypeOK /\ ShellTypeOK => DataTypesOK
  BY DEF DataTypesOK
<1> QED BY <1>1, PeriodTypesHold, GoalTypesHold, IdentifierTypes, ShellTypesHold, PTL
=============================================================================
