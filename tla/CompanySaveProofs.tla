-------------------------- MODULE CompanySaveProofs --------------------------
(* Proofs about CompanySave. *)
EXTENDS CompanySave, TLAPS

LEMMA LeaseOps ==
  ASSUME NEW S, NEW ttl \in Nat \ {0}, NEW l \in LeaseType(S, ttl)
  PROVE  /\ Absent \in LeaseType(S, ttl)
         /\ \A t \in S : Granted(t, ttl) \in LeaseType(S, ttl)
         /\ Aged(l) \in LeaseType(S, ttl)
         /\ l.left > 1 => Aged(l) = [owner |-> l.owner, left |-> l.left - 1]
BY DEF LeaseType, Absent, Granted, Aged

(* Every reachable state is well typed. *)
THEOREM TypeCorrect == Spec => []TypeOK
<1>1. Init => TypeOK
  BY ConstantsAssumption DEF Init, TypeOK, Absent, LeaseType, PC
<1>2. TypeOK /\ [Next]_vars => TypeOK'
  <2> SUFFICES ASSUME TypeOK, [Next]_vars PROVE TypeOK'
    OBVIOUS
  <2> USE ConstantsAssumption DEF TypeOK, PC
  <2>1. ASSUME NEW a \in Attempts, Start(a) PROVE TypeOK'
    BY <2>1 DEF Start, Goto, CanonicalCompanyId
  <2>2. ASSUME NEW a \in Attempts, Acquire(a) PROVE TypeOK'
    BY <2>2 DEF Acquire, Goto, Granted, LeaseType
  <2>3. ASSUME NEW a \in Attempts, GiveUp(a) \/ RedisFails(a) PROVE TypeOK'
    BY <2>3 DEF GiveUp, RedisFails, Goto
  <2>4. ASSUME NEW a \in Attempts, SendRequest(a) \/ NoRequest(a) PROVE TypeOK'
    BY <2>4 DEF SendRequest, NoRequest, Goto
  <2>5. ASSUME NEW a \in Attempts, HandlerEnds(a) PROVE TypeOK'
    BY <2>5 DEF HandlerEnds
  <2>6. ASSUME NEW a \in Attempts, ReceiveAnswer(a) PROVE TypeOK'
    <3>1. ok' \in [Attempts -> BOOLEAN]
      BY <2>6, Zenon DEF ReceiveAnswer
    <3>2. QED BY <2>6, <3>1 DEF ReceiveAnswer, Goto
  <2>61. ASSUME NEW a \in Attempts, LoseAnswer(a) PROVE TypeOK'
    BY <2>61 DEF LoseAnswer, Goto
  <2>7. ASSUME NEW a \in Attempts, ReleaseGet(a) \/ ReleaseFails(a) PROVE TypeOK'
    BY <2>7 DEF ReleaseGet, ReleaseFails, Goto
  <2>8. ASSUME NEW a \in Attempts, ReleaseDel(a) PROVE TypeOK'
    BY <2>8 DEF ReleaseDel, Goto, Absent, LeaseType
  <2>9. ASSUME NEW a \in Attempts, Return(a) PROVE TypeOK'
    BY <2>9 DEF Return, Goto
  <2>10. ASSUME NEW a \in Attempts, Crash(a) PROVE TypeOK'
    BY <2>10 DEF Crash, Goto
  <2>11. ASSUME NEW r \in Runs, NEW c \in Companies, Link(r, c) PROVE TypeOK'
    BY <2>11 DEF Link
  <2>12. CASE Tick
    <3>1. lock' \in [Companies -> LeaseType(Attempts, TTL)]
      BY <2>12, LeaseOps DEF Tick
    <3>2. met' \in [Attempts -> SUBSET (Attempts \cup {NoToken})]
      BY <2>12 DEF Tick, LeaseType
    <3>3. QED BY <2>12, <3>1, <3>2 DEF Tick
  <2>13. CASE UNCHANGED vars
    BY <2>13 DEF vars
  <2>14. QED
    BY <2>1, <2>2, <2>3, <2>4, <2>5, <2>6, <2>7, <2>8, <2>9, <2>10, <2>11,
       <2>12, <2>13, <2>61 DEF Next, Processor
<1>3. QED BY <1>1, <1>2, PTL DEF Spec

-----------------------------------------------------------------------------
(* While attempts are quicker than the TTL and answers arrive, an attempt   *)
(* under the lock owns it.                                                  *)

LEMMA LeaseInvariant ==
  ASSUME MaxHold < TTL, ~CanLoseAnswer
  PROVE  Spec => []IInv
<1> USE ConstantsAssumption
<1> DEFINE Inv == HolderOwnsLease /\ RequestsBelongToHolders
<1>1. Init => Inv
  BY DEF Init, HolderOwnsLease, RequestsBelongToHolders, Busy, UnderLock
<1>2. TypeOK /\ TypeOK' /\ Inv /\ [Next]_vars => Inv'
  <2> SUFFICES ASSUME TypeOK, TypeOK', Inv, [Next]_vars PROVE Inv'
    OBVIOUS
  <2> USE DEF TypeOK, HolderOwnsLease, RequestsBelongToHolders, Busy, UnderLock, Get
  <2>1. ASSUME NEW a \in Attempts, Start(a) PROVE Inv'
    BY <2>1 DEF Start, Goto
  <2>2. ASSUME NEW a \in Attempts, Acquire(a) PROVE Inv'
    <3>1. /\ lock'[target[a]] = [owner |-> a, left |-> TTL]
          /\ \A c \in Companies : c # target[a] => lock'[c] = lock[c]
          /\ target' = target /\ age' = age /\ handler' = handler
      BY <2>2 DEF Acquire, Granted
    <3>2. \A b \in Attempts : Busy(b) => target[b] # target[a]
      BY <2>2 DEF Acquire, IsFree
    <3>3. \A b \in Attempts : b # a => Busy(b)' = Busy(b)
      BY <2>2 DEF Acquire, Goto
    <3>4. age[a] = 0
      BY <2>2 DEF Acquire
    <3>5. HolderOwnsLease'
      BY <3>1, <3>2, <3>3, <3>4
    <3>6. RequestsBelongToHolders'
      BY <2>2 DEF Acquire, Goto
    <3>7. QED BY <3>5, <3>6
  <2>3. ASSUME NEW a \in Attempts, GiveUp(a) \/ RedisFails(a) PROVE Inv'
    BY <2>3 DEF GiveUp, RedisFails, Goto
  <2>4. ASSUME NEW a \in Attempts, SendRequest(a) PROVE Inv'
    <3>1. /\ pc[a] = "locked" /\ pc'[a] = "saving"
          /\ \A b \in Attempts : b # a => pc'[b] = pc[b] /\ handler'[b] = handler[b]
          /\ lock' = lock /\ target' = target /\ age' = age
      BY <2>4 DEF SendRequest, Goto
    <3>2. QED BY <3>1
  <2>41. ASSUME NEW a \in Attempts, NoRequest(a) PROVE Inv'
    BY <2>41 DEF NoRequest, Goto
  <2>5. ASSUME NEW a \in Attempts, HandlerEnds(a) PROVE Inv'
    BY <2>5 DEF HandlerEnds
  <2>6. ASSUME NEW a \in Attempts, ReceiveAnswer(a) PROVE Inv'
    BY <2>6 DEF ReceiveAnswer, Goto
  <2>61. ASSUME NEW a \in Attempts, LoseAnswer(a) PROVE Inv'
    <3>1. FALSE
      BY <2>61, Zenon DEF LoseAnswer
    <3>2. QED BY <3>1
  <2>7. ASSUME NEW a \in Attempts, ReleaseGet(a) \/ ReleaseFails(a) PROVE Inv'
    BY <2>7 DEF ReleaseGet, ReleaseFails, Goto
  <2>8. ASSUME NEW a \in Attempts, ReleaseDel(a) PROVE Inv'
    <3>1. /\ pc'[a] = "returning" /\ handler[a] # "running"
          /\ \A c \in Companies : c # target[a] => lock'[c] = lock[c]
          /\ target' = target /\ age' = age /\ handler' = handler
      BY <2>8 DEF ReleaseDel, Goto
    <3>2. \A b \in Attempts : b # a /\ Busy(b) => target[b] # target[a]
      BY <2>8 DEF ReleaseDel
    <3>3. \A b \in Attempts : b # a => pc'[b] = pc[b]
      BY <2>8 DEF ReleaseDel, Goto
    <3>4. HolderOwnsLease'
      BY <3>1, <3>2, <3>3
    <3>5. RequestsBelongToHolders'
      BY <3>1, <3>3
    <3>6. QED BY <3>4, <3>5
  <2>9. ASSUME NEW a \in Attempts, Return(a) PROVE Inv'
    <3>1. /\ pc'[a] \in {"done", "failed"} /\ handler[a] # "running"
          /\ lock' = lock /\ target' = target /\ age' = age /\ handler' = handler
          /\ \A b \in Attempts : b # a => pc'[b] = pc[b]
      BY <2>9 DEF Return, Goto
    <3>2. QED BY <3>1
  <2>10. ASSUME NEW a \in Attempts, Crash(a) PROVE Inv'
    BY <2>10 DEF Crash, Goto
  <2>11. ASSUME NEW r \in Runs, NEW c \in Companies, Link(r, c) PROVE Inv'
    BY <2>11 DEF Link
  <2>12. CASE Tick
    <3>1. \A b \in Attempts : Busy(b) => age[b] + 1 <= MaxHold /\ age'[b] = age[b] + 1
      BY <2>12 DEF Tick
    <3>2. \A b \in Attempts : Busy(b)' = Busy(b)
      BY <2>12 DEF Tick
    <3>3. ASSUME NEW b \in Attempts, Busy(b)
          PROVE  lock'[target[b]] = [owner |-> b, left |-> lock[target[b]].left - 1]
      <4>1. lock[target[b]].owner = b /\ lock[target[b]].left > 1
        BY <3>1, <3>3 DEF LeaseType
      <4>2. lock'[target[b]] = Aged(lock[target[b]])
        BY <2>12 DEF Tick
      <4>3. QED BY <4>1, <4>2, LeaseOps
    <3>4. ASSUME NEW b \in Attempts, Busy(b)'
          PROVE  /\ lock'[target'[b]].owner = b
                 /\ lock'[target'[b]].left + age'[b] >= TTL
                 /\ age'[b] <= MaxHold
      <4>1. Busy(b) /\ target' = target
        BY <2>12, <3>2, <3>4 DEF Tick
      <4>2. lock[target[b]].left \in Nat /\ age[b] \in Nat /\ TTL \in Nat /\ MaxHold \in Nat
        <5>1. lock[target[b]] \in LeaseType(Attempts, TTL) BY DEF TypeOK
        <5>2. QED BY <5>1 DEF LeaseType
      <4>3. lock[target[b]].left + age[b] >= TTL
        BY <4>1
      <4>4. lock'[target[b]].left = lock[target[b]].left - 1 /\ lock'[target[b]].owner = b
        <5>1. lock'[target[b]] = [owner |-> b, left |-> lock[target[b]].left - 1]
          BY <3>3, <4>1, Zenon
        <5>2. QED BY ONLY <5>1
      <4>5. age'[b] = age[b] + 1 /\ age'[b] <= MaxHold
        BY <3>1, <4>1
      <4>6. lock'[target[b]].left + age'[b] = lock[target[b]].left + age[b]
        BY ONLY <4>2, <4>4, <4>5
      <4>7. QED BY ONLY <4>1, <4>3, <4>4, <4>5, <4>6
    <3>5. ASSUME NEW b \in Attempts
          PROVE  /\ handler'[b] = "running" => pc'[b] \in {"saving", "crashed"}
                 /\ pc'[b] \in {"idle", "waiting"} => age'[b] = 0
      <4>1. ~Busy(b) => age'[b] = 0
        BY <2>12 DEF Tick
      <4>2. pc' = pc /\ handler' = handler
        BY <2>12 DEF Tick
      <4>3. QED BY <4>1, <4>2
    <3>6. QED BY <3>4, <3>5
  <2>13. CASE UNCHANGED vars
    BY <2>13 DEF vars
  <2>14. QED
    BY <2>1, <2>2, <2>3, <2>4, <2>41, <2>5, <2>6, <2>61, <2>7, <2>8, <2>9, <2>10,
       <2>11, <2>12, <2>13 DEF Next, Processor
<1>3. QED BY <1>1, <1>2, TypeCorrect, PTL DEF Spec, IInv

(* For any number of runs, jobs, executions and companies, and any crashes  *)
(* and stalls: no two requests for a company are served at a time.          *)
THEOREM Serialized ==
  ASSUME MaxHold < TTL, ~CanLoseAnswer
  PROVE  Spec => []SavesSerialized
<1>1. IInv => SavesSerialized
  BY DEF IInv, TypeOK, HolderOwnsLease, SavesSerialized, Writing, Busy
<1>2. QED BY <1>1, LeaseInvariant, PTL

(* The lock of an attempt that is under it, or whose request is still being   *)
(* served, is only ever removed by that attempt's own del.                    *)
THEOREM OnlyTheOwnerEnds ==
  ASSUME MaxHold < TTL, ~CanLoseAnswer
  PROVE  Spec => LockOnlyEndedByOwner
<1> DEFINE Kept == \A a \in Attempts :
       /\ lock[target[a]].owner = a
       /\ Busy(a)
       /\ lock'[target[a]].owner # a
       => pc[a] = "deleting" /\ pc'[a] = "returning"
<1>1. IInv /\ IInv' /\ [Next]_vars => [Kept]_lock
  <2> SUFFICES ASSUME IInv, IInv', [Next]_vars, lock' # lock,
                      NEW a \in Attempts, lock[target[a]].owner = a, Busy(a),
                      lock'[target[a]].owner # a
               PROVE  pc[a] = "deleting" /\ pc'[a] = "returning"
    OBVIOUS
  <2> USE DEF IInv, TypeOK
  <2>1. target[a] \in Companies
    OBVIOUS
  <2>2. CASE Busy(a)' /\ target'[a] = target[a]
    BY <2>2 DEF HolderOwnsLease, Get
  <2>3. ASSUME NEW b \in Attempts, Acquire(b) PROVE FALSE
    <3>1. lock[target[b]].owner = NoToken
      BY <2>3 DEF Acquire, IsFree, Get
    <3>2. target[b] # target[a]
      BY <3>1, ConstantsAssumption
    <3>3. lock'[target[a]] = lock[target[a]]
      BY <2>3, <3>2, <2>1 DEF Acquire
    <3>4. QED BY <3>3
  <2>4. ASSUME NEW b \in Attempts, ReleaseDel(b)
        PROVE  pc[a] = "deleting" /\ pc'[a] = "returning"
    <3>1. CASE b = a
      BY <2>4, <3>1 DEF ReleaseDel, Goto
    <3>2. CASE b # a
      <4>1. Busy(b)
        BY <2>4 DEF ReleaseDel, Busy, UnderLock
      <4>2. target[b] # target[a]
        BY <4>1, <3>2 DEF HolderOwnsLease, Get
      <4>3. lock'[target[a]] = lock[target[a]]
        BY <2>4, <4>2, <2>1 DEF ReleaseDel
      <4>4. QED BY <4>3
    <3>3. QED BY <3>1, <3>2
  <2>5. CASE Tick
    <3>1. Busy(a)' /\ target'[a] = target[a]
      BY <2>5 DEF Tick, Busy, UnderLock
    <3>2. QED BY <3>1, <2>2
  <2>6. ASSUME NEW b \in Attempts,
               \/ Start(b) \/ GiveUp(b) \/ RedisFails(b) \/ SendRequest(b)
               \/ NoRequest(b) \/ ReceiveAnswer(b) \/ LoseAnswer(b)
               \/ ReleaseGet(b) \/ ReleaseFails(b) \/ Return(b)
               \/ HandlerEnds(b) \/ Crash(b)
        PROVE  FALSE
    BY <2>6 DEF Start, GiveUp, RedisFails, SendRequest, NoRequest, ReceiveAnswer,
                LoseAnswer, ReleaseGet, ReleaseFails, Return, HandlerEnds, Crash
  <2>7. ASSUME NEW r \in Runs, NEW c \in Companies, Link(r, c) PROVE FALSE
    BY <2>7 DEF Link
  <2>8. CASE UNCHANGED vars
    BY <2>8 DEF vars
  <2>9. QED
    BY <2>3, <2>4, <2>5, <2>6, <2>7, <2>8 DEF Next, Processor
<1>2. QED BY <1>1, LeaseInvariant, PTL DEF Spec, LockOnlyEndedByOwner

-----------------------------------------------------------------------------
(* The writes of a company, seen through writer, take turns.                *)

LEMMA TurnFacts == Turn({}) = NoToken /\ \A a \in Attempts : Turn({a}) = a
<1>1. Turn({}) = NoToken
  BY DEF Turn
<1>2. ASSUME NEW a \in Attempts PROVE Turn({a}) = a
  <2>1. (CHOOSE b \in {a} : TRUE) \in {a}
    BY Zenon
  <2>2. QED BY <2>1 DEF Turn
<1>3. QED BY <1>1, <1>2

LEMMA SameWriting ==
  ASSUME \A c \in Companies : Writing(c)' = Writing(c)
  PROVE  writer' = writer
BY DEF writer

(* For any number of companies and executions, the requests being served    *)
(* implement one writer at a time per company, whose turn only it ends.     *)
THEOREM WritesTakeTurns ==
  ASSUME MaxHold < TTL, ~CanLoseAnswer
  PROVE  Spec => ImplementsSerialAccess
<1>1. Init => Serial!Init
  BY TurnFacts DEF Init, Serial!Init, writer, Writing
<1>2. IInv => SavesSerialized
  BY DEF IInv, TypeOK, HolderOwnsLease, SavesSerialized, Writing, Busy
<1>3. IInv /\ IInv' /\ SavesSerialized /\ SavesSerialized' /\ [Next]_vars
        => [Serial!Next]_writer
  <2> SUFFICES ASSUME IInv, IInv', SavesSerialized, SavesSerialized', [Next]_vars
               PROVE  Serial!Next \/ writer' = writer
    OBVIOUS
  <2> USE DEF IInv, TypeOK
  <2>1. ASSUME NEW a \in Attempts, Start(a) PROVE writer' = writer
    <3>1. handler' = handler /\ handler[a] # "running"
          /\ \A b \in Attempts : b # a => target'[b] = target[b]
      BY <2>1 DEF Start, RequestsBelongToHolders
    <3>2. \A c \in Companies : Writing(c)' = Writing(c)
      BY <3>1 DEF Writing
    <3>3. QED BY <3>2, SameWriting
  <2>2. ASSUME NEW a \in Attempts, SendRequest(a) PROVE Serial!Next
    <3>0. PICK t \in Companies : t = target[a]
      OBVIOUS
    <3>1. /\ t = target[a]
          /\ handler[a] # "running" /\ handler'[a] = "running" /\ target' = target
          /\ \A b \in Attempts : b # a => handler'[b] = handler[b]
      BY <2>2, <3>0 DEF SendRequest, RequestsBelongToHolders
    <3>2. Writing(t)' = {a}
      BY <3>1 DEF Writing, SavesSerialized
    <3>3. Writing(t) = {}
      BY <3>1, <3>2 DEF Writing
    <3>4. \A c \in Companies : c # t => Writing(c)' = Writing(c)
      BY <3>1 DEF Writing
    <3>5. writer[t] = NoToken
      BY <3>3, TurnFacts DEF writer
    <3>6. writer' = [writer EXCEPT ![t] = a]
      BY <3>2, <3>4, TurnFacts DEF writer
    <3>7. QED BY <3>5, <3>6 DEF Serial!Next, Serial!Begin
  <2>3. ASSUME NEW a \in Attempts, HandlerEnds(a) PROVE Serial!Next
    <3>0. PICK t \in Companies : t = target[a]
      OBVIOUS
    <3>1. /\ t = target[a]
          /\ handler[a] = "running" /\ handler'[a] # "running" /\ target' = target
          /\ \A b \in Attempts : b # a => handler'[b] = handler[b]
      BY <2>3, <3>0 DEF HandlerEnds
    <3>2. Writing(t)' = {}
      BY <3>1 DEF Writing, SavesSerialized
    <3>3. \A c \in Companies : c # t => Writing(c)' = Writing(c)
      BY <3>1 DEF Writing
    <3>4. writer' = [writer EXCEPT ![t] = NoToken]
      BY <3>2, <3>3, TurnFacts DEF writer
    <3>5. QED BY <3>4 DEF Serial!Next, Serial!End
  <2>4. ASSUME UNCHANGED <<handler, target>> PROVE writer' = writer
    <3>1. \A c \in Companies : Writing(c)' = Writing(c)
      BY <2>4 DEF Writing
    <3>2. QED BY <3>1, SameWriting
  <2>5. ASSUME NEW a \in Attempts,
               \/ Acquire(a) \/ GiveUp(a) \/ RedisFails(a) \/ NoRequest(a)
               \/ ReceiveAnswer(a) \/ LoseAnswer(a) \/ ReleaseGet(a)
               \/ ReleaseDel(a) \/ ReleaseFails(a) \/ Return(a) \/ Crash(a)
        PROVE  UNCHANGED <<handler, target>>
    BY <2>5 DEF Acquire, GiveUp, RedisFails, NoRequest, ReceiveAnswer, LoseAnswer,
                ReleaseGet, ReleaseDel, ReleaseFails, Return, Crash
  <2>6. ASSUME NEW r \in Runs, NEW c \in Companies, Link(r, c)
        PROVE  UNCHANGED <<handler, target>>
    BY <2>6 DEF Link
  <2>7. CASE Tick \/ UNCHANGED vars
    BY <2>7, <2>4 DEF Tick, vars
  <2>8. QED
    BY <2>1, <2>2, <2>3, <2>4, <2>5, <2>6, <2>7 DEF Next, Processor
<1>4. QED
  BY <1>1, <1>2, <1>3, LeaseInvariant, PTL DEF Spec, ImplementsSerialAccess, Serial!Spec

-----------------------------------------------------------------------------
(* A waiter that has met one holder only has not waited longer than that    *)
(* holder's lease lasts: an execution takes the lock once, and never renews *)
(* it.                                                                      *)

Outside(b) == pc[b] \in {"idle", "waiting"}

OneHolderMet(a) ==
  \A b \in Attempts :
    met[a] \cup {lock[target[a]].owner} \subseteq {b}
      => lock[target[a]].left + waited[a] <= TTL

WaitInv ==
  /\ \A c \in Companies, b \in Attempts : lock[c].owner = b => ~Outside(b)
  /\ \A a \in Attempts :
       /\ \A b \in met[a] : b \in Attempts /\ ~Outside(b)
       /\ pc[a] = "idle" => met[a] = {}
       /\ met[a] = {} => waited[a] = 0
       /\ pc[a] = "waiting" => OneHolderMet(a)

LEMMA WaitInvariant == Spec => []WaitInv
<1> USE ConstantsAssumption DEF Outside
<1>1. Init => WaitInv
  BY DEF Init, WaitInv, OneHolderMet, Absent
<1>2. TypeOK /\ TypeOK' /\ WaitInv /\ [Next]_vars => WaitInv'
  <2> SUFFICES ASSUME TypeOK, TypeOK', WaitInv, [Next]_vars PROVE WaitInv'
    OBVIOUS
  <2>t. /\ lock \in [Companies -> LeaseType(Attempts, TTL)]
        /\ pc \in [Attempts -> PC] /\ target \in [Attempts -> Companies]
        /\ waited \in [Attempts -> Nat] /\ TTL \in Nat
        /\ \A c \in Companies : lock[c].left \in 0 .. TTL
    BY DEF TypeOK, LeaseType
  <2>1. ASSUME NEW a \in Attempts, Start(a) PROVE WaitInv'
    <3>1. /\ pc[a] = "idle" /\ pc'[a] = "waiting" /\ met[a] = {} /\ waited[a] = 0
          /\ \A b \in Attempts : b # a => pc'[b] = pc[b] /\ target'[b] = target[b]
          /\ lock' = lock /\ met' = met /\ waited' = waited
          /\ target'[a] \in Companies
      BY <2>1, <2>t DEF Start, Goto, WaitInv, TypeOK
    <3>2. lock'[target'[a]].left + waited'[a] <= TTL
      BY <3>1, <2>t
    <3>3. QED BY <3>1, <3>2 DEF WaitInv, OneHolderMet
  <2>2. ASSUME NEW a \in Attempts, Acquire(a) PROVE WaitInv'
    <3>1. /\ pc[a] = "waiting" /\ pc'[a] = "locked"
          /\ \A b \in Attempts : b # a => pc'[b] = pc[b]
          /\ lock'[target[a]] = [owner |-> a, left |-> TTL]
          /\ \A c \in Companies : c # target[a] => lock'[c] = lock[c]
          /\ target' = target /\ met' = met /\ waited' = waited
      BY <2>2, <2>t DEF Acquire, Goto, Granted
    <3>2. ASSUME NEW d \in Attempts, pc'[d] = "waiting", NEW b \in Attempts,
                 met'[d] \cup {lock'[target'[d]].owner} \subseteq {b}
          PROVE  lock'[target'[d]].left + waited'[d] <= TTL
      <4>1. CASE target[d] = target[a]
        <5>1. a \notin met[d]
          BY <3>1 DEF WaitInv
        <5>2. met[d] = {}
          BY <5>1, <4>1, <3>1, <3>2
        <5>3. waited[d] = 0
          BY <5>2 DEF WaitInv
        <5>4. QED BY <5>3, <4>1, <3>1, <2>t
      <4>2. CASE target[d] # target[a]
        <5>1. lock'[target'[d]] = lock[target[d]] /\ pc[d] = "waiting"
          BY <4>2, <3>1, <3>2, <2>t
        <5>2. QED BY <5>1, <3>1, <3>2 DEF WaitInv, OneHolderMet
      <4>3. QED BY <4>1, <4>2
    <3>3. \A c \in Companies, b \in Attempts : lock'[c].owner = b => ~Outside(b)'
      BY <3>1 DEF WaitInv
    <3>4. QED BY <3>1, <3>2, <3>3 DEF WaitInv, OneHolderMet
  <2>3. ASSUME NEW a \in Attempts, ReleaseDel(a) PROVE WaitInv'
    <3>1. /\ pc'[a] = "returning"
          /\ \A b \in Attempts : b # a => pc'[b] = pc[b]
          /\ lock'[target[a]] = [owner |-> NoToken, left |-> 0]
          /\ \A c \in Companies : c # target[a] => lock'[c] = lock[c]
          /\ target' = target /\ met' = met /\ waited' = waited
      BY <2>3, <2>t DEF ReleaseDel, Goto, Absent
    <3>2. ASSUME NEW d \in Attempts, pc'[d] = "waiting", NEW b \in Attempts,
                 met'[d] \cup {lock'[target'[d]].owner} \subseteq {b}
          PROVE  lock'[target'[d]].left + waited'[d] <= TTL
      <4>0. lock'[target[a]].owner = NoToken /\ target'[d] = target[d]
        BY <3>1
      <4>1. target[d] # target[a]
        BY <3>2, <4>0
      <4>2. lock'[target'[d]] = lock[target[d]] /\ pc[d] = "waiting"
        BY <4>1, <3>1, <3>2, <2>t
      <4>3. QED BY <4>2, <3>1, <3>2 DEF WaitInv, OneHolderMet
    <3>3. \A c \in Companies, b \in Attempts : lock'[c].owner = b => ~Outside(b)'
      BY <3>1 DEF WaitInv
    <3>4. \A d \in Attempts : /\ \A b \in met'[d] : b \in Attempts /\ ~Outside(b)'
                              /\ pc'[d] = "idle" => met'[d] = {}
                              /\ met'[d] = {} => waited'[d] = 0
      BY <3>1 DEF WaitInv
    <3>5. QED BY <3>2, <3>3, <3>4 DEF WaitInv, OneHolderMet
  <2>4. ASSUME NEW a \in Attempts,
               \/ GiveUp(a) \/ RedisFails(a) \/ SendRequest(a) \/ NoRequest(a)
               \/ ReceiveAnswer(a) \/ LoseAnswer(a) \/ ReleaseGet(a)
               \/ ReleaseFails(a) \/ Return(a) \/ Crash(a)
        PROVE  WaitInv'
    <3>1. /\ pc'[a] \notin {"idle", "waiting"}
          /\ \A b \in Attempts : b # a => pc'[b] = pc[b]
          /\ UNCHANGED <<lock, target, met, waited>>
      BY <2>4, <2>t DEF GiveUp, RedisFails, SendRequest, NoRequest, ReceiveAnswer,
         LoseAnswer, ReleaseGet, ReleaseFails, Return, Crash, Goto
    <3>2. QED BY <3>1 DEF WaitInv, OneHolderMet
  <2>5. CASE UNCHANGED <<lock, pc, target, met, waited>>
    BY <2>5 DEF WaitInv, OneHolderMet
  <2>6. CASE Tick
    <3>1. /\ pc' = pc /\ target' = target
          /\ \A c \in Companies : lock'[c] = Aged(lock[c])
          /\ \A a \in Attempts : pc[a] = "waiting" =>
               /\ lock[target[a]].owner # NoToken
               /\ waited'[a] = waited[a] + 1
               /\ met'[a] = met[a] \cup {lock[target[a]].owner}
          /\ \A a \in Attempts : pc[a] # "waiting" => waited'[a] = 0 /\ met'[a] = {}
      BY <2>6 DEF Tick, WaitersPolled, IsFree, Get
    <3>2. \A c \in Companies : Aged(lock[c]) = Absent
                               \/ /\ Aged(lock[c]).owner = lock[c].owner
                                  /\ Aged(lock[c]).left = lock[c].left - 1
      BY <2>t DEF Aged
    <3>3. \A c \in Companies : lock'[c].owner \in {NoToken, lock[c].owner}
      BY <3>1, <3>2 DEF Absent
    <3>4. \A c \in Companies : lock[c].owner \in Attempts \cup {NoToken}
      BY <2>t DEF LeaseType
    <3>5. ASSUME NEW a \in Attempts, pc[a] = "waiting", NEW b \in Attempts,
                 met'[a] \cup {lock'[target[a]].owner} \subseteq {b}
          PROVE  lock'[target[a]].left + waited'[a] <= TTL
      <4>0. PICK c \in Companies : c = target[a]
        BY <2>t
      <4>1. target[a] = c /\ lock'[c].owner = b /\ lock[c].owner = b
        BY <3>5, <3>1, <3>3, <4>0, ConstantsAssumption
      <4>2. lock'[c].left = lock[c].left - 1
        BY <4>1, <3>1, <3>2 DEF Absent
      <4>3. lock[c].left + waited[a] <= TTL
        BY <3>5, <3>1, <4>1 DEF WaitInv, OneHolderMet
      <4>4. QED BY <4>1, <4>2, <4>3, <3>1, <3>5, <2>t
    <3>6. ASSUME NEW a \in Attempts
          PROVE  /\ \A b \in met'[a] : b \in Attempts /\ ~Outside(b)'
                 /\ pc'[a] = "idle" => met'[a] = {}
                 /\ met'[a] = {} => waited'[a] = 0
      <4>1. CASE pc[a] = "waiting"
        <5>1. lock[target[a]].owner \in Attempts /\ target[a] \in Companies
          BY <4>1, <3>1, <3>4, <2>t
        <5>2. ~Outside(lock[target[a]].owner)
          BY <5>1 DEF WaitInv
        <5>3. /\ met'[a] = met[a] \cup {lock[target[a]].owner}
              /\ pc'[a] = "waiting"
          BY <4>1, <3>1
        <5>4. \A b \in met'[a] : b \in Attempts /\ ~Outside(b)
          BY <5>1, <5>2, <5>3 DEF WaitInv
        <5>5. QED BY <5>3, <5>4, <3>1
      <4>2. CASE pc[a] # "waiting"
        BY <4>2, <3>1
      <4>3. QED BY <4>1, <4>2
    <3>7. \A c \in Companies, b \in Attempts : lock'[c].owner = b => ~Outside(b)'
      BY <3>1, <3>3 DEF WaitInv
    <3>8. QED BY <3>1, <3>5, <3>6, <3>7 DEF WaitInv, OneHolderMet
  <2>7. ASSUME NEW r \in Runs, NEW c \in Companies, Link(r, c) PROVE WaitInv'
    BY <2>7, <2>5 DEF Link
  <2>8. ASSUME NEW a \in Attempts, HandlerEnds(a) PROVE WaitInv'
    BY <2>8, <2>5 DEF HandlerEnds
  <2>9. CASE UNCHANGED vars
    BY <2>9, <2>5 DEF vars
  <2>10. QED
    BY <2>1, <2>2, <2>3, <2>4, <2>6, <2>7, <2>8, <2>9 DEF Next, Processor
<1>3. QED BY <1>1, <1>2, TypeCorrect, PTL DEF Spec

(* A save gives up only behind two holders or more, whatever crashes and     *)
(* expires, as long as waiters wait at least as long as a lease lives.      *)
THEOREM GivesUpBehindTwo ==
  ASSUME TTL <= MaxWait
  PROVE  Spec => GivesUpOnlyUnderContention
<1> DEFINE Two == \A a \in Attempts : GiveUp(a) =>
       \E b, c \in met[a] \cup {lock[target[a]].owner} : b # c
<1>1. TypeOK /\ WaitInv => [Two]_vars
  <2> SUFFICES ASSUME TypeOK, WaitInv, NEW a \in Attempts, GiveUp(a),
                      \A b, c \in met[a] \cup {lock[target[a]].owner} : b = c
               PROVE  FALSE
    OBVIOUS
  <2>1. /\ lock[target[a]] \in LeaseType(Attempts, TTL)
        /\ waited[a] \in Nat /\ TTL \in Nat /\ MaxWait \in Nat
    BY ConstantsAssumption DEF TypeOK
  <2>2. /\ pc[a] = "waiting" /\ waited[a] > MaxWait
        /\ lock[target[a]].owner \in Attempts /\ lock[target[a]].left \in 0 .. TTL
    BY <2>1 DEF GiveUp, IsFree, Get, LeaseType
  <2>3. lock[target[a]].left + waited[a] <= TTL
    BY <2>2 DEF WaitInv, OneHolderMet
  <2>4. QED BY <2>1, <2>2, <2>3
<1>2. QED BY <1>1, TypeCorrect, WaitInvariant, PTL DEF GivesUpOnlyUnderContention
=============================================================================
