------------------------ MODULE ProxyManagerProofs ------------------------
(***************************************************************************)
(* Theorems about module ProxyManager, for every list of proxies, every    *)
(* number of leases and every strategy.                                    *)
(***************************************************************************)
EXTENDS ProxyManager, FiniteSetTheorems, TLAPS

-----------------------------------------------------------------------------
(* Operators.                                                                *)

\* Whatever the strategy, an object that can be selected is available.
LEMMA SelectedIsAvailable ==
  \A avail : \A i \in Selected(avail) : i \in avail
BY DEF Selected

\* The list holds objects.
LEMMA Listed ==
  ASSUME TypeOK, NEW i \in DOMAIN proxies
  PROVE  /\ proxies[i] \in Object
         /\ proxies[i].raw \in Proxies /\ proxies[i].raw \in Raws
<1>1. proxies[i] \in Object
      BY DEF TypeOK
<1>2. proxies[i].raw \in Proxies
      BY <1>1 DEF Object
<1> QED
  BY <1>1, <1>2 DEF Raws

\* What is added to the list comes after all that is there.
LEMMA Appended ==
  ASSUME TypeOK, NEW news \in SeqOf(Proxies, 2), AddBulk(news)
  PROVE  /\ news \in Seq(Proxies)
         /\ proxies' \in Seq(Object)
         /\ Len(proxies') = Len(proxies) + Len(news)
         /\ \A i \in DOMAIN proxies : i \in DOMAIN proxies' /\ proxies'[i] = proxies[i]
         /\ \A i \in DOMAIN proxies' :
              i \notin DOMAIN proxies =>
                /\ i - Len(proxies) \in DOMAIN news
                /\ proxies'[i] = NewObject(news[i - Len(proxies)])
         /\ \A k \in DOMAIN news :
              /\ Len(proxies) + k \in DOMAIN proxies'
              /\ proxies'[Len(proxies) + k] = NewObject(news[k])
<1> DEFINE added == [k \in DOMAIN news |-> NewObject(news[k])]
<1>1. news \in Seq(Proxies)
  <2>1. PICK m \in 0..2 : news \in [1..m -> Proxies]
        BY DEF SeqOf
  <2> QED
    BY <2>1
<1>2. \A r \in Proxies : NewObject(r) \in Object
      BY ManagerConstants DEF ManagerConstants, NewObject, Object, Health, Latency
<1>3. added \in Seq(Object) /\ Len(added) = Len(news)
      BY <1>1, <1>2
<1>4. proxies \in Seq(Object)
      BY DEF TypeOK
<1>5. proxies' = proxies \o added
      BY DEF AddBulk
<1>6. proxies' \in Seq(Object) /\ Len(proxies') = Len(proxies) + Len(news)
      BY <1>3, <1>4, <1>5
<1>7. \A i \in DOMAIN proxies : i \in DOMAIN proxies' /\ proxies'[i] = proxies[i]
      BY <1>3, <1>4, <1>5
<1>8. \A i \in DOMAIN proxies' :
        i \notin DOMAIN proxies =>
          i - Len(proxies) \in DOMAIN news /\ proxies'[i] = added[i - Len(proxies)]
      BY <1>1, <1>3, <1>4, <1>5
<1>9. \A k \in DOMAIN news :
        Len(proxies) + k \in DOMAIN proxies' /\ proxies'[Len(proxies) + k] = added[k]
      BY <1>1, <1>3, <1>4, <1>5
<1> QED
  BY <1>1, <1>6, <1>7, <1>8, <1>9

-----------------------------------------------------------------------------
(* Type correctness.                                                         *)

LEMMA InitTypeOK == Init => TypeOK
<1> SUFFICES ASSUME Init PROVE TypeOK
    OBVIOUS
<1>1. PICK n \in 0..MaxObjects, f \in [1..MaxObjects -> Proxies] :
        proxies = [i \in 1..n |-> NewObject(f[i])]
      BY DEF Init
<1>2. \A r \in Proxies : NewObject(r) \in Object
      BY ManagerConstants DEF ManagerConstants, NewObject, Object, Health, Latency
<1>3. \A i \in 1..n : f[i] \in Proxies
      BY ManagerConstants DEF ManagerConstants
<1>4. proxies \in Seq(Object) /\ Len(proxies) = n
      BY <1>1, <1>2, <1>3
<1> QED
  BY <1>4, ManagerConstants DEF ManagerConstants, Init, TypeOK

LEMMA NextTypeOK == TypeOK /\ [Next]_vars => TypeOK'
<1> SUFFICES ASSUME TypeOK, [Next]_vars PROVE TypeOK'
    OBVIOUS
<1>1. ASSUME NEW news \in SeqOf(Proxies, 2), AddBulk(news) PROVE TypeOK'
      BY <1>1, Appended DEF TypeOK, AddBulk
<1>2. CASE Acquire
  <2>1. PICK i \in Selected(GetAvailable) :
          /\ proxies[i].useCount < MaxUse
          /\ proxies' = [proxies EXCEPT ![i].useCount = @ + 1]
          /\ inUse' = inUse \cup {proxies[i].raw}
          /\ lent' = lent \cup {i}
        BY <1>2 DEF Acquire
  <2>2. i \in DOMAIN proxies
        BY SelectedIsAvailable DEF GetAvailable
  <2>3. proxies[i] \in Object
        BY <2>2 DEF TypeOK
  <2>4. [proxies[i] EXCEPT !.useCount = @ + 1] \in Object
        BY <2>1, <2>3, ManagerConstants DEF Object, ManagerConstants
  <2>5. proxies' \in Seq(Object) /\ Len(proxies') = Len(proxies)
        BY <2>1, <2>2, <2>4 DEF TypeOK
  <2>6. rrIndex' \in 0..MaxUse /\ strategy' \in Strategies
        BY <1>2, ManagerConstants DEF Acquire, TypeOK, ManagerConstants
  <2> QED
    BY <2>1, <2>2, <2>3, <2>5, <2>6 DEF TypeOK, Object
<1>3. ASSUME NEW i \in DOMAIN proxies, Release(i) PROVE TypeOK'
      BY <1>3 DEF TypeOK, Release
<1>4. ASSUME NEW i \in DOMAIN proxies, NEW h \in Health, NEW l \in Latency,
             UpdateHealth(i, h, l)
      PROVE  TypeOK'
  <2> DEFINE p == proxies[i]
  <2>0. p \in Object
        BY DEF TypeOK
  <2> HIDE DEF p
  <2>1. [p EXCEPT !.health = h, !.latency = l] \in Object
        BY <2>0 DEF Object
  <2>2. proxies' = [proxies EXCEPT ![i] = [p EXCEPT !.health = h, !.latency = l]]
        BY <1>4 DEF UpdateHealth, TypeOK, p
  <2>3. proxies' \in Seq(Object) /\ Len(proxies') = Len(proxies)
        BY <2>1, <2>2 DEF TypeOK
  <2> QED
    BY <1>4, <2>3 DEF TypeOK, UpdateHealth
<1>5. ASSUME NEW s \in Strategies, SetStrategy(s) PROVE TypeOK'
      BY <1>5 DEF TypeOK, SetStrategy
<1>6. CASE UNCHANGED vars
      BY <1>6 DEF TypeOK, vars
<1> QED
  BY <1>1, <1>2, <1>3, <1>4, <1>5, <1>6 DEF Next

\* Every reachable state has the types of manager.go: in particular the index of
\* a lent object stays inside the list.
THEOREM TypeCorrect == Spec => []TypeOK
BY InitTypeOK, NextTypeOK, PTL DEF Spec

-----------------------------------------------------------------------------
(* What the other operations do to the list.                                 *)

\* Acquire lends one available object; the list keeps endpoints and health.
LEMMA Lent ==
  ASSUME TypeOK, Acquire
  PROVE  /\ DOMAIN proxies' = DOMAIN proxies
         /\ \A j \in DOMAIN proxies :
              proxies'[j].raw = proxies[j].raw /\ proxies'[j].health = proxies[j].health
         /\ \E i \in GetAvailable :
              lent' = lent \cup {i} /\ inUse' = inUse \cup {proxies[i].raw}
<1>1. PICK i \in Selected(GetAvailable) :
        /\ proxies' = [proxies EXCEPT ![i].useCount = @ + 1]
        /\ inUse' = inUse \cup {proxies[i].raw}
        /\ lent' = lent \cup {i}
      BY DEF Acquire
<1>2. i \in GetAvailable /\ i \in DOMAIN proxies
      BY SelectedIsAvailable DEF GetAvailable
<1>3. \A j \in DOMAIN proxies : proxies[j] \in Object
      BY DEF TypeOK
<1> QED
  BY <1>1, <1>2, <1>3 DEF TypeOK, Object

\* UpdateHealth changes one object, and not its endpoint.
LEMMA Marked ==
  ASSUME TypeOK, NEW i \in DOMAIN proxies, NEW h, NEW l, UpdateHealth(i, h, l)
  PROVE  /\ DOMAIN proxies' = DOMAIN proxies
         /\ \A j \in DOMAIN proxies : proxies'[j].raw = proxies[j].raw
         /\ \A j \in DOMAIN proxies : j # i => proxies'[j].health = proxies[j].health
         /\ proxies'[i].health = h
<1>1. \A j \in DOMAIN proxies : proxies[j] \in Object
      BY DEF TypeOK
<1>2. proxies' = [proxies EXCEPT ![i] = [[proxies[i] EXCEPT !.health = h] EXCEPT !.latency = l]]
      BY DEF UpdateHealth, TypeOK
<1> QED
  BY <1>1, <1>2 DEF TypeOK, Object

-----------------------------------------------------------------------------
(* Exclusive leases.                                                         *)

LEMMA InitOneLease == Init => OneLeasePerEndpoint
BY DEF Init, OneLeasePerEndpoint

LEMMA NextOneLease ==
  TypeOK /\ OneLeasePerEndpoint /\ [Next]_vars => OneLeasePerEndpoint'
<1> SUFFICES ASSUME TypeOK, OneLeasePerEndpoint, [Next]_vars PROVE OneLeasePerEndpoint'
    OBVIOUS
<1>0. lent \subseteq DOMAIN proxies
      BY DEF TypeOK
<1>1. ASSUME NEW news \in SeqOf(Proxies, 2), AddBulk(news) PROVE OneLeasePerEndpoint'
  <2>1. \A i \in lent : proxies'[i] = proxies[i]
        BY <1>0, <1>1, Appended
  <2>2. UNCHANGED <<inUse, lent>>
        BY <1>1 DEF AddBulk
  <2> QED
    BY <2>1, <2>2 DEF OneLeasePerEndpoint
<1>2. CASE Acquire
  <2>1. PICK i \in GetAvailable :
          lent' = lent \cup {i} /\ inUse' = inUse \cup {proxies[i].raw}
        BY <1>2, Lent
  <2>2. i \in DOMAIN proxies /\ proxies[i].raw \notin inUse
        BY DEF GetAvailable
  <2>3. \A j \in lent : proxies[j].raw # proxies[i].raw
        BY <2>2 DEF OneLeasePerEndpoint
  <2>4. \A j \in lent' : proxies'[j].raw = proxies[j].raw
        BY <1>0, <1>2, <2>1, <2>2, Lent
  <2> QED
    BY <2>1, <2>3, <2>4 DEF OneLeasePerEndpoint
<1>3. ASSUME NEW i \in DOMAIN proxies, Release(i) PROVE OneLeasePerEndpoint'
      BY <1>3 DEF Release, OneLeasePerEndpoint
<1>4. ASSUME NEW i \in DOMAIN proxies, NEW h \in Health, NEW l \in Latency,
             UpdateHealth(i, h, l)
      PROVE  OneLeasePerEndpoint'
  <2>1. \A j \in lent : proxies'[j].raw = proxies[j].raw
        BY <1>0, <1>4, Marked
  <2>2. UNCHANGED <<inUse, lent>>
        BY <1>4 DEF UpdateHealth
  <2> QED
    BY <2>1, <2>2 DEF OneLeasePerEndpoint
<1>5. ASSUME NEW s \in Strategies, SetStrategy(s) PROVE OneLeasePerEndpoint'
      BY <1>5 DEF SetStrategy, OneLeasePerEndpoint
<1>6. CASE UNCHANGED vars
      BY <1>6 DEF vars, OneLeasePerEndpoint
<1> QED
  BY <1>1, <1>2, <1>3, <1>4, <1>5, <1>6 DEF Next

\* Two holders never have the same endpoint, although LoadFromFile keeps
\* duplicates: getAvailable looks endpoints up in inUse, not objects.
THEOREM ExclusiveLeases == Spec => []OneLeasePerEndpoint
<1>1. Init => TypeOK /\ OneLeasePerEndpoint
      BY InitTypeOK, InitOneLease
<1>2. TypeOK /\ OneLeasePerEndpoint /\ [Next]_vars => (TypeOK /\ OneLeasePerEndpoint)'
      BY NextTypeOK, NextOneLease
<1> QED
  BY <1>1, <1>2, PTL DEF Spec

LEMMA LeasesAddUp == TypeOK /\ OneLeasePerEndpoint => CountsAddUp
<1> SUFFICES ASSUME TypeOK, OneLeasePerEndpoint PROVE CountsAddUp
    OBVIOUS
<1>1. Len(proxies) \in Nat /\ DOMAIN proxies = 1..Len(proxies)
      BY DEF TypeOK
<1>2. IsFiniteSet(DOMAIN proxies) /\ Cardinality(DOMAIN proxies) = Len(proxies)
  <2>1. IsFiniteSet(1..Len(proxies))
        BY <1>1, FS_Interval
  <2>2. Cardinality(1..Len(proxies)) = IF 1 > Len(proxies) THEN 0 ELSE Len(proxies) - 1 + 1
        BY <1>1, FS_Interval
  <2> QED
    BY <1>1, <2>1, <2>2
<1>3. /\ IsFiniteSet(GetAvailable) /\ Cardinality(GetAvailable) \in Nat
      /\ IsFiniteSet(lent) /\ Cardinality(lent) \in Nat
  <2>1. GetAvailable \in SUBSET DOMAIN proxies /\ lent \in SUBSET DOMAIN proxies
        BY DEF GetAvailable, TypeOK
  <2> QED
    BY <1>2, <2>1, FS_Subset, FS_CardinalityType
<1>4. Cardinality(GetAvailable) + Cardinality(lent) <= Len(proxies)
  <2>1. GetAvailable \cap lent = {}
        BY DEF GetAvailable, OneLeasePerEndpoint
  <2>2. Cardinality(GetAvailable \cup lent)
          = Cardinality(GetAvailable) + Cardinality(lent) - Cardinality(GetAvailable \cap lent)
        BY <1>3, FS_Union
  <2>3. GetAvailable \cup lent \in SUBSET DOMAIN proxies
        BY DEF GetAvailable, TypeOK
  <2>4. Cardinality(GetAvailable \cup lent) <= Len(proxies)
        BY <1>2, <2>3, FS_Subset
  <2>5. Cardinality(GetAvailable \cap lent) = 0
        BY <2>1, FS_EmptySet
  <2> QED
    BY <1>3, <2>2, <2>4, <2>5
<1>5. Cardinality(inUse) \in Nat /\ Cardinality(inUse) <= Cardinality(lent)
  <2> DEFINE endpoint == [i \in lent |-> proxies[i].raw]
  <2>1. endpoint \in Surjection(lent, inUse)
        BY DEF Surjection, OneLeasePerEndpoint
  <2> HIDE DEF endpoint
  <2> QED
    BY <1>3, <2>1, FS_Surjection, FS_CardinalityType
<1> QED
  BY <1>1, <1>3, <1>4, <1>5 DEF CountsAddUp, Count

\* The counters Manager.Count shows never exceed the list: every endpoint in use
\* has a lent object of its own, which is not counted as available.
THEOREM CountersAddUp == Spec => []CountsAddUp
BY TypeCorrect, ExclusiveLeases, LeasesAddUp, PTL

-----------------------------------------------------------------------------
(* The manager implements the pool.                                          *)

\* What ProxyPool calls dead.
DeadRaws ==
  {r \in Raws : \A i \in DOMAIN proxies : proxies[i].raw = r => proxies[i].health = "dead"}

LEMMA AddBulkImplements ==
  ASSUME TypeOK, NEW news \in SeqOf(Proxies, 2), AddBulk(news)
  PROVE  \E S \in SUBSET Proxies : Pool!AddBulk(S)
<1> DEFINE S == {news[k] : k \in DOMAIN news}
<1>0. ASSUME NEW r \in S
      PROVE  \E i \in DOMAIN proxies' : proxies'[i].raw = r /\ proxies'[i].health = "usable"
  <2>1. PICK k \in DOMAIN news : r = news[k]
        BY <1>0
  <2>2. PICK i \in DOMAIN proxies' : proxies'[i] = NewObject(r)
        BY <2>1, Appended
  <2> QED
    BY <2>2 DEF NewObject
<1>1. S \in SUBSET Proxies
      BY Appended
<1>2. Raws' = Raws \cup S
  <2>1. \A r \in Raws : r \in Raws'
        BY Appended DEF Raws
  <2>2. \A r \in S : r \in Raws'
        BY <1>0 DEF Raws
  <2>3. \A r \in Raws' : r \in Raws \cup S
        BY Appended DEF Raws, NewObject
  <2> QED
    BY <2>1, <2>2, <2>3
<1>3. Raws \cap S = {}
      BY DEF AddBulk
<1>4. DeadRaws' = DeadRaws
  <2>1. \A r \in S : r \notin DeadRaws'
        BY <1>0 DEF DeadRaws
  <2>2. ASSUME NEW i \in DOMAIN proxies', i \notin DOMAIN proxies PROVE proxies'[i].raw \in S
        BY <2>2, Appended DEF NewObject
  <2>3. ASSUME NEW r \in Raws, NEW i \in DOMAIN proxies', proxies'[i].raw = r
        PROVE  i \in DOMAIN proxies /\ proxies'[i] = proxies[i]
        BY <1>3, <2>2, <2>3, Appended
  <2>4. \A r \in Raws : r \in DeadRaws <=> r \in DeadRaws'
        BY <1>2, <2>3, Appended DEF DeadRaws
  <2>5. DeadRaws \subseteq Raws /\ DeadRaws' \subseteq Raws'
        BY DEF DeadRaws
  <2> QED
    BY <1>2, <2>1, <2>4, <2>5
<1>5. UNCHANGED inUse
      BY DEF AddBulk
<1> QED
  BY <1>1, <1>2, <1>4, <1>5 DEF Pool!AddBulk, DeadRaws

LEMMA AcquireImplements ==
  ASSUME TypeOK, Acquire
  PROVE  \E p \in Proxies : Pool!Acquire(p)
<1>1. PICK i \in GetAvailable :
        lent' = lent \cup {i} /\ inUse' = inUse \cup {proxies[i].raw}
      BY Lent
<1>2. i \in DOMAIN proxies /\ proxies[i].health # "dead" /\ proxies[i].raw \notin inUse
      BY DEF GetAvailable
<1>3. proxies[i].raw \in Proxies /\ proxies[i].raw \in Raws
      BY <1>2, Listed
<1>4. proxies[i].raw \notin DeadRaws
      BY <1>2 DEF DeadRaws
<1>5. Raws' = Raws
      BY Lent DEF Raws
<1>6. DeadRaws' = DeadRaws
      BY <1>5, Lent DEF DeadRaws
<1> QED
  BY <1>1, <1>2, <1>3, <1>4, <1>5, <1>6 DEF Pool!Acquire, Pool!Available, DeadRaws

LEMMA ReleaseImplements ==
  ASSUME TypeOK, NEW i \in DOMAIN proxies, Release(i)
  PROVE  \E p \in Proxies : Pool!Release(p)
<1>1. proxies[i].raw \in Proxies
      BY Listed
<1>2. inUse' = inUse \ {proxies[i].raw} /\ UNCHANGED proxies
      BY DEF Release
<1>3. Raws' = Raws /\ DeadRaws' = DeadRaws
      BY <1>2 DEF Raws, DeadRaws
<1> QED
  BY <1>1, <1>2, <1>3 DEF Pool!Release, DeadRaws

\* A report on one object kills the endpoint only if every object of it is dead
\* now, and revives it if this one is not; otherwise nothing changes.
LEMMA UpdateHealthImplements ==
  ASSUME TypeOK, NEW i \in DOMAIN proxies, NEW h \in Health, NEW l \in Latency,
         UpdateHealth(i, h, l)
  PROVE  \/ \E p \in Proxies, isDead \in BOOLEAN : Pool!UpdateHealth(p, isDead)
         \/ UNCHANGED Pool!poolVars
<1>1. PICK r \in Proxies : r = proxies[i].raw /\ r \in Raws
      BY Listed
<1>2. Raws' = Raws /\ UNCHANGED inUse
  <2>1. Raws' = Raws
        BY Marked DEF Raws
  <2> QED
    BY <2>1 DEF UpdateHealth
<1>3. \A q \in Raws : q # r => (q \in DeadRaws <=> q \in DeadRaws')
      BY <1>1, <1>2, Marked DEF DeadRaws
<1>4. r \in DeadRaws' => h = "dead"
      BY <1>1, Marked DEF DeadRaws
<1>5. h = "dead" /\ r \in DeadRaws => r \in DeadRaws'
      BY <1>1, <1>2, Marked DEF DeadRaws
<1>6. DeadRaws \subseteq Raws /\ DeadRaws' \subseteq Raws
      BY <1>2 DEF DeadRaws
<1>7. CASE r \in DeadRaws'
  <2>1. DeadRaws' = DeadRaws \cup {r}
        BY <1>3, <1>6, <1>7
  <2>2. Pool!UpdateHealth(r, TRUE)
        BY <1>1, <1>2, <2>1 DEF Pool!UpdateHealth, DeadRaws
  <2> QED
    BY <1>1, <2>2
<1>8. CASE r \notin DeadRaws'
  <2>1. DeadRaws' = DeadRaws \ {r}
        BY <1>3, <1>6, <1>8
  <2>2. Pool!UpdateHealth(r, FALSE)
        BY <1>1, <1>2, <2>1 DEF Pool!UpdateHealth, DeadRaws
  <2> QED
    BY <1>1, <2>2
<1> QED
  BY <1>7, <1>8

LEMMA StepIsPoolStep ==
  TypeOK /\ [Next]_vars => [Pool!PoolNext]_(Pool!poolVars)
<1> SUFFICES ASSUME TypeOK, [Next]_vars PROVE Pool!PoolNext \/ UNCHANGED Pool!poolVars
    OBVIOUS
<1>1. ASSUME NEW news \in SeqOf(Proxies, 2), AddBulk(news) PROVE Pool!PoolNext
      BY <1>1, AddBulkImplements DEF Pool!PoolNext
<1>2. CASE Acquire
      BY <1>2, AcquireImplements DEF Pool!PoolNext
<1>3. ASSUME NEW i \in DOMAIN proxies, Release(i) PROVE Pool!PoolNext
      BY <1>3, ReleaseImplements DEF Pool!PoolNext
<1>4. ASSUME NEW i \in DOMAIN proxies, NEW h \in Health, NEW l \in Latency,
             UpdateHealth(i, h, l)
      PROVE  Pool!PoolNext \/ UNCHANGED Pool!poolVars
      BY <1>4, UpdateHealthImplements DEF Pool!PoolNext
<1>5. ASSUME UNCHANGED <<proxies, inUse>> PROVE UNCHANGED Pool!poolVars
      BY <1>5 DEF Pool!poolVars, Raws
<1>6. ASSUME NEW s \in Strategies, SetStrategy(s) PROVE UNCHANGED Pool!poolVars
      BY <1>5, <1>6 DEF SetStrategy
<1>7. CASE UNCHANGED vars
      BY <1>5, <1>7 DEF vars
<1> QED
  BY <1>1, <1>2, <1>3, <1>4, <1>6, <1>7 DEF Next

\* ProxyManager implements the pool that Engine is built on: whatever the
\* strategy, Acquire hands out an endpoint that is known, not dead and not in use,
\* also when the list names it twice.
THEOREM IsPool == Spec => ImplementsPool
<1>1. Init => Pool!PoolInit
  <2> SUFFICES ASSUME Init PROVE Pool!PoolInit
      OBVIOUS
  <2>1. TypeOK
        BY InitTypeOK
  <2>2. Raws \in SUBSET Proxies
        BY <2>1, Listed DEF Raws
  <2>3. \A i \in DOMAIN proxies : proxies[i].health = "usable"
        BY DEF Init, NewObject
  <2>4. DeadRaws = {}
        BY <2>3 DEF DeadRaws, Raws
  <2> QED
    BY <2>2, <2>4 DEF Init, Pool!PoolInit, DeadRaws
<1>2. TypeOK /\ [Next]_vars => [Pool!PoolNext]_(Pool!poolVars)
      BY StepIsPoolStep
<1> QED
  BY <1>1, <1>2, TypeCorrect, PTL DEF Spec, ImplementsPool, Pool!PoolSpec
=============================================================================
