---------------------------- MODULE EngineProofs ----------------------------
(***************************************************************************)
(* Theorems about module Engine, for every number of callers, runs,        *)
(* workers, proxies and tokens.  Each is proved from an inductive          *)
(* invariant, with one step per action of Next that can disturb it.        *)
(***************************************************************************)
EXTENDS Engine, FiniteSetTheorems, TLAPS

-----------------------------------------------------------------------------
(* Type correctness.                                                         *)

\* The size of the map is a number.
LEMMA MapSize ==
  ASSUME TypeOK
  PROVE  Cardinality(workers) \in Nat
BY EngineConstants, FS_Subset, FS_CardinalityType DEF EngineConstants, TypeOK

\* Callers and runs are processes.
LEMMA ProcsAre == Callers \subseteq Procs /\ Runs \subseteq Procs
BY DEF Procs

LEMMA InitTypeOK == Init => TypeOK
<1> SUFFICES ASSUME Init PROVE TypeOK
    OBVIOUS
<1>1. PoolTypeOK /\ state \in States
      BY EngineConstants DEF EngineConstants, Init, PoolTypeOK, States
<1>2. pc \in [Procs -> CallerPCs \cup MonitorPCs]
      BY DEF Init, CallerPCs, MonitorPCs
<1>3. wpc \in [Workers -> WorkerPCs]
      BY DEF Init, WorkerPCs
<1> QED
  BY <1>1, <1>2, <1>3 DEF Init, TypeOK

LEMMA NextTypeOK == TypeOK /\ [Next]_vars => TypeOK'
<1> SUFFICES ASSUME TypeOK, [Next]_vars PROVE TypeOK'
    OBVIOUS
<1> USE ProcsAre
    DEF TypeOK, PoolTypeOK, States, vars, poolVars, engineVars, mapVars, ctxVars,
        procVars, opVars, workerVars, givenVars
<1>0. Cardinality(workers) \in Nat /\ Targets \subseteq Nat
      BY MapSize, EngineConstants DEF EngineConstants
<1>1. ASSUME NEW q \in Procs, SpawnAcquire(q) PROVE TypeOK'
  <2>1. PoolTypeOK'
        BY <1>1 DEF SpawnAcquire, Acquire, Available
  <2>2. idx' \in [Procs -> Nat] /\ held' \in [Procs -> Proxies \cup {None}]
        BY <1>1 DEF SpawnAcquire, Available
  <2> QED
    BY <1>1, <2>1, <2>2 DEF SpawnAcquire
<1>2. ASSUME NEW q \in Procs, SpawnRegister(q) PROVE TypeOK'
  <2>1. SpawnCtx(q) \in Procs \cup {None}
        BY <1>2 DEF SpawnCtx, Procs
  <2>2. held[q] \in Proxies
        BY <1>2 DEF SpawnRegister
  <2>3. wpc' \in [Workers -> WorkerPCs]
        BY <1>2 DEF SpawnRegister, WorkerPCs
  <2> QED
    BY <1>2, <2>1, <2>2, <2>3 DEF SpawnRegister
<1>3. ASSUME NEW c \in Callers, StartCheck(c) PROVE TypeOK'
  <2>1. run' \in [Callers -> Runs \cup {None}] /\ last' \in [Procs -> Nat]
        BY <1>3, <1>0 DEF StartCheck
  <2>2. pc' \in [Procs -> CallerPCs \cup MonitorPCs]
        BY <1>3 DEF StartCheck, Request, Goto, CallerPCs
  <2> QED
    BY <1>3, <2>1, <2>2 DEF StartCheck
<1>4. ASSUME NEW c \in Callers, StartStore(c) PROVE TypeOK'
      BY <1>4 DEF StartStore, Goto, CallerPCs, MonitorPCs
<1>5. ASSUME NEW c \in Callers, StartDerive(c) PROVE TypeOK'
      BY <1>5 DEF StartDerive, Goto, CallerPCs, MonitorPCs
<1>6. ASSUME NEW c \in Callers, StartRunning(c) PROVE TypeOK'
      BY <1>6 DEF StartRunning, Goto, CallerPCs, MonitorPCs
<1>7. ASSUME NEW c \in Callers, StopBegin(c) \/ StopCancel(c) PROVE TypeOK'
      BY <1>7 DEF StopBegin, StopCancel, Request, Goto, CallerPCs, MonitorPCs
<1>8. ASSUME NEW c \in Callers, LockMap(c) PROVE TypeOK'
      BY <1>8 DEF LockMap, Goto, CallerPCs, MonitorPCs
<1>9. ASSUME NEW c \in Callers, NEW w \in Workers, StopEach(c, w) PROVE TypeOK'
      BY <1>9 DEF StopEach, WorkerStop, Release, WorkerPCs
<1>10. ASSUME NEW c \in Callers, StopClear(c) \/ StopEnd(c) PROVE TypeOK'
      BY <1>10 DEF StopClear, StopEnd, Goto, CallerPCs, MonitorPCs
<1>11. ASSUME NEW c \in Callers, ScaleUp(c) PROVE TypeOK'
      BY <1>11, <1>0 DEF ScaleUp, Request, Goto, CallerPCs, MonitorPCs
<1>12. ASSUME NEW c \in Callers, ScaleUpEnd(c) PROVE TypeOK'
      BY <1>12 DEF ScaleUpEnd, Goto, CallerPCs, MonitorPCs
<1>13. ASSUME NEW c \in Callers, ScaleDown(c) PROVE TypeOK'
  <2>1. PICK n \in Targets : /\ n < Cardinality(workers)
                            /\ last' = [last EXCEPT ![c] = Cardinality(workers) - n]
        BY <1>13 DEF ScaleDown
  <2>3. Cardinality(workers) - n \in Nat
        BY <2>1, <1>0
  <2>2. pc' \in [Procs -> CallerPCs \cup MonitorPCs]
        BY <1>13 DEF ScaleDown, Request, Goto, CallerPCs
  <2> QED
    BY <1>13, <2>1, <2>2, <2>3 DEF ScaleDown
<1>14. ASSUME NEW c \in Callers, ScaleDownLock(c) PROVE TypeOK'
      BY <1>14 DEF ScaleDownLock, Goto, CallerPCs, MonitorPCs
<1>15. ASSUME NEW c \in Callers, NEW w \in Workers, ScaleDownEach(c, w)
       PROVE  TypeOK'
      BY <1>15 DEF ScaleDownEach, WorkerStop, Release, WorkerPCs
<1>16. ASSUME NEW c \in Callers, ScaleDownEnd(c) PROVE TypeOK'
      BY <1>16 DEF ScaleDownEnd, Goto, CallerPCs, MonitorPCs
<1>17. ASSUME NEW c \in Callers, GracefulBegin(c) \/ GracefulStopped(c)
       PROVE  TypeOK'
      BY <1>17 DEF GracefulBegin, GracefulStopped, Request, Goto, CallerPCs, MonitorPCs
<1>18. ASSUME NEW c \in Callers, GracefulDrained(c) \/ GracefulEnd(c) \/ StopAgain(c)
       PROVE  TypeOK'
      BY <1>18 DEF GracefulDrained, GracefulEnd, StopAgain, Goto, CallerPCs, MonitorPCs
<1>19. ASSUME NEW r \in Runs, MonitorTick(r) \/ MonitorExit(r) PROVE TypeOK'
      BY <1>19 DEF MonitorTick, MonitorExit, Goto, CallerPCs, MonitorPCs
<1>20. ASSUME NEW r \in Runs, MonitorCount(r) PROVE TypeOK'
      BY <1>20, <1>0 DEF MonitorCount, Goto, CallerPCs, MonitorPCs
<1>21. ASSUME NEW r \in Runs, MonitorRespawned(r) PROVE TypeOK'
      BY <1>21 DEF MonitorRespawned, Goto, CallerPCs, MonitorPCs
<1>22. ASSUME NEW w \in Workers, WorkerStep(w) PROVE TypeOK'
      BY <1>22 DEF WorkerStep, CtxExit, GivesUp, Connects, ViewerEnds,
                    ReleaseProxy, Release, WorkerGoto, WorkerPCs
<1>23. ASSUME NEW w \in Workers, Deregister(w) PROVE TypeOK'
      BY <1>23 DEF Deregister, WorkerGoto, WorkerPCs
<1>24. ASSUME NEW c \in Callers, Disconnect(c) PROVE TypeOK'
      BY <1>24 DEF Disconnect
<1>25. CASE UNCHANGED vars
      BY <1>25
<1>26. CASE PoolChange
      BY <1>26 DEF PoolChange, ProxyImport, ProxyCheck, AddBulk, UpdateHealth
<1> QED
  BY <1>26, <1>1, <1>2, <1>3, <1>4, <1>5, <1>6, <1>7, <1>8, <1>9, <1>10, <1>11, <1>12, <1>13, <1>14, <1>15, <1>16, <1>17, <1>18, <1>19, <1>20, <1>21, <1>22, <1>23, <1>24, <1>25
     DEF Next, NewRequest, CallerStep, CallerLocks, MonitorStep, MonitorLocks

\* Every variable keeps its type; a scale-down in particular never computes a
\* negative number of workers to remove, although the map is unlocked between
\* the two reads of its size.
THEOREM TypeCorrect == Spec => []TypeOK
<1>1. Init => TypeOK
      BY InitTypeOK
<1>2. TypeOK /\ [Next]_vars => TypeOK'
      BY NextTypeOK
<1> QED
  BY <1>1, <1>2, PTL DEF Spec

-----------------------------------------------------------------------------
(* Proxies: the engine uses the pool as ProxyPool says, a proxy is assigned  *)
(* once until a worker is stopped explicitly, and no proxy is lost.          *)

leaseVars == <<poolVars, held, wproxy, wpc, stopCalled>>

\* The actions that change who has a proxy.
LEMMA LeaseSteps ==
  ASSUME [Next]_vars
  PROVE  \/ \E q \in Procs : SpawnAcquire(q) \/ SpawnRegister(q)
         \/ \E c \in Callers, w \in Workers : StopEach(c, w) \/ ScaleDownEach(c, w)
         \/ \E w \in Workers : WorkerStep(w) \/ Deregister(w)
         \/ PoolChange
         \/ UNCHANGED leaseVars
<1> USE ProcsAre DEF leaseVars, vars, workerVars, givenVars, opVars, procVars
<1>1. ASSUME NEW c \in Callers, NewRequest(c) PROVE UNCHANGED leaseVars
      BY <1>1 DEF NewRequest, StartCheck, StopBegin, ScaleUp, ScaleDown, GracefulBegin
<1>2. ASSUME NEW c \in Callers, CallerStep(c), ~SpawnAcquire(c),
             ~\E w \in Workers : StopEach(c, w) \/ ScaleDownEach(c, w)
      PROVE  UNCHANGED leaseVars
      BY <1>2 DEF CallerStep, StartStore, StartDerive, StartRunning, StopCancel,
                  StopClear, StopEnd, ScaleUpEnd, ScaleDownEnd, GracefulStopped,
                  GracefulEnd, StopAgain
<1>3. ASSUME NEW c \in Callers, CallerLocks(c), ~SpawnRegister(c)
      PROVE  UNCHANGED leaseVars
      BY <1>3 DEF CallerLocks, LockMap, ScaleDownLock, GracefulDrained
<1>4. ASSUME NEW c \in Callers, Disconnect(c) PROVE UNCHANGED leaseVars
      BY <1>4 DEF Disconnect
<1>5. ASSUME NEW r \in Runs, MonitorStep(r) \/ MonitorLocks(r), ~SpawnAcquire(r),
             ~SpawnRegister(r)
      PROVE  UNCHANGED leaseVars
      BY <1>5 DEF MonitorStep, MonitorLocks, MonitorTick, MonitorRespawned, MonitorExit,
                  MonitorCount
<1> QED
  BY <1>1, <1>2, <1>3, <1>4, <1>5 DEF Next

\* The engine's steps on the pool are steps of ProxyPool, or leave it alone: it
\* acquires only what is available, and releases nothing but proxies.
THEOREM UsesPool == Spec => PoolSpec
<1>1. Init => PoolInit
      BY EngineConstants DEF EngineConstants, Init, PoolInit
<1>2. TypeOK /\ [Next]_vars => [PoolNext]_poolVars
  <2> SUFFICES ASSUME TypeOK, [Next]_vars PROVE [PoolNext]_poolVars
      OBVIOUS
  <2> USE DEF PoolNext
  <2>1. ASSUME NEW p \in Proxies \cup {None}, Release(p) PROVE [PoolNext]_poolVars
    <3>1. CASE p \in Proxies
          BY <2>1, <3>1
    <3>2. CASE p \notin Proxies
      <4>1. p \notin inUse
            BY <3>2 DEF TypeOK, PoolTypeOK
      <4> QED
        BY <4>1, <2>1 DEF Release, poolVars
    <3> QED
      BY <3>1, <3>2
  <2>2. ASSUME NEW w \in Workers PROVE wproxy[w] \in Proxies \cup {None}
        BY DEF TypeOK
  <2>3. ASSUME NEW q \in Procs, SpawnAcquire(q) PROVE [PoolNext]_poolVars
    <3>1. CASE UNCHANGED poolVars
          BY <3>1
    <3>2. CASE \E p \in Available : Acquire(p)
          BY <3>2 DEF Available, TypeOK, PoolTypeOK
    <3> QED
      BY <2>3, <3>1, <3>2 DEF SpawnAcquire
  <2>4. ASSUME NEW q \in Procs, SpawnRegister(q) PROVE [PoolNext]_poolVars
        BY <2>4 DEF SpawnRegister
  <2>5. ASSUME NEW c \in Callers, NEW w \in Workers, StopEach(c, w) \/ ScaleDownEach(c, w)
        PROVE  [PoolNext]_poolVars
        BY <2>1, <2>2, <2>5 DEF StopEach, ScaleDownEach, WorkerStop
  <2>6. ASSUME NEW w \in Workers, WorkerStep(w) \/ Deregister(w)
        PROVE  [PoolNext]_poolVars
        BY <2>1, <2>2, <2>6
           DEF WorkerStep, CtxExit, GivesUp, Connects, ViewerEnds, ReleaseProxy, Deregister
  <2>7. CASE PoolChange
        BY <2>7, EngineConstants
           DEF EngineConstants, PoolChange, ProxyImport, ProxyCheck
  <2> QED
    BY LeaseSteps, <2>3, <2>4, <2>5, <2>6, <2>7 DEF leaseVars
<1> QED
  BY <1>1, <1>2, TypeCorrect, PTL DEF Spec, PoolSpec

\* Imports and health checks touch no lease, no process and no worker.
LEMMA PoolChangeOnly ==
  ASSUME PoolChange
  PROVE  UNCHANGED <<inUse, engineVars, procVars, workerVars>>
BY DEF PoolChange, ProxyImport, ProxyCheck, AddBulk, UpdateHealth

\* The steps of a worker that keep its proxy assigned.
LEMMA KeepsProxy ==
  ASSUME NEW w \in Workers, TypeOK,
         CtxExit(w) \/ GivesUp(w) \/ Connects(w) \/ ViewerEnds(w)
  PROVE  Using' = Using /\ UNCHANGED <<poolVars, held, wproxy, stopCalled>>
<1>1. UNCHANGED <<poolVars, held, wproxy, stopCalled>>
      BY DEF CtxExit, GivesUp, Connects, ViewerEnds, procVars, opVars, givenVars
<1>2. \A v \in Workers : wpc[v] \in {"loop", "active", "ending", "exiting"}
                       <=> wpc'[v] \in {"loop", "active", "ending", "exiting"}
      BY DEF CtxExit, GivesUp, Connects, ViewerEnds, WorkerGoto, TypeOK
<1> QED
  BY <1>1, <1>2 DEF Using

LEMMA NextLeaseUntilStop == TypeOK /\ LeaseUntilStop /\ [Next]_vars => LeaseUntilStop'
<1> SUFFICES ASSUME TypeOK, LeaseUntilStop, [Next]_vars, ~stopCalled'
             PROVE  (ExclusiveProxy /\ Assigned \subseteq inUse)'
    BY DEF LeaseUntilStop
<1> USE DEF LeaseUntilStop, ExclusiveProxy, Assigned
<1>0. None \notin Proxies
      BY EngineConstants DEF EngineConstants
<1>1. ASSUME NEW q \in Procs, SpawnAcquire(q)
      PROVE  (ExclusiveProxy /\ Assigned \subseteq inUse)'
  <2>1. ~stopCalled /\ Using' = Using /\ wproxy' = wproxy
        BY <1>1 DEF SpawnAcquire, workerVars, givenVars, Using
  <2>2. CASE UNCHANGED <<poolVars, held>>
        BY <2>1, <2>2 DEF poolVars
  <2>3. CASE \E p \in Available : Acquire(p) /\ held' = held
        BY <2>1, <2>3 DEF Acquire
  <2>4. CASE \E p \in Available : Acquire(p) /\ held' = [held EXCEPT ![q] = p]
    <3>1. PICK p \in Available : Acquire(p) /\ held' = [held EXCEPT ![q] = p]
          BY <2>4
    <3>2. p \notin inUse /\ p # None /\ inUse' = inUse \cup {p}
          BY <3>1, <1>0 DEF Available, Acquire, TypeOK, PoolTypeOK
    <3>3. \A w \in Using : wproxy[w] # p
          BY <2>1, <3>2
    <3>4. \A s \in Procs : held[s] # p
          BY <2>1, <3>2
    <3>5. \A s \in Procs : held'[s] = IF s = q THEN p ELSE held[s]
          BY <3>1 DEF TypeOK
    <3>6. ExclusiveProxy'
          BY <2>1, <3>2, <3>3, <3>4, <3>5
    <3>7. (Assigned \subseteq inUse)'
          BY <2>1, <3>2, <3>5
    <3> QED
      BY <3>6, <3>7
  <2> QED
    BY <1>1, <2>2, <2>3, <2>4 DEF SpawnAcquire
<1>2. ASSUME NEW q \in Procs, SpawnRegister(q)
      PROVE  (ExclusiveProxy /\ Assigned \subseteq inUse)'
  <2>1. PICK w \in Workers :
          /\ wpc[w] = "free"
          /\ wpc' = [wpc EXCEPT ![w] = "loop"]
          /\ wproxy' = [wproxy EXCEPT ![w] = held[q]]
        BY <1>2 DEF SpawnRegister
  <2>2. ~stopCalled /\ inUse' = inUse /\ held[q] # None
        BY <1>2 DEF SpawnRegister, poolVars
  <2>3. Using' = Using \cup {w} /\ w \notin Using
        BY <2>1 DEF Using, TypeOK
  <2>4. \A v \in Using : wproxy'[v] = wproxy[v]
        BY <2>1, <2>3 DEF TypeOK, Using
  <2>5. wproxy'[w] = held[q]
        BY <2>1 DEF TypeOK
  <2>6. \A s \in Procs : held'[s] = IF s = q THEN None ELSE held[s]
        BY <1>2 DEF SpawnRegister, TypeOK
  <2>7. ExclusiveProxy'
        BY <2>2, <2>3, <2>4, <2>5, <2>6
  <2>8. (Assigned \subseteq inUse)'
        BY <2>2, <2>3, <2>4, <2>5, <2>6
  <2> QED
    BY <2>7, <2>8
<1>3. ASSUME NEW c \in Callers, NEW w \in Workers, StopEach(c, w) \/ ScaleDownEach(c, w)
      PROVE  FALSE
      BY <1>3 DEF StopEach, ScaleDownEach, WorkerStop
<1>4. ASSUME NEW w \in Workers, CtxExit(w) \/ GivesUp(w) \/ Connects(w) \/ ViewerEnds(w)
      PROVE  (ExclusiveProxy /\ Assigned \subseteq inUse)'
      BY <1>4, KeepsProxy DEF poolVars
<1>5. ASSUME NEW w \in Workers, ReleaseProxy(w)
      PROVE  (ExclusiveProxy /\ Assigned \subseteq inUse)'
  <2>1. /\ ~stopCalled /\ wproxy' = wproxy /\ held' = held
        /\ inUse' = inUse \ {wproxy[w]}
        BY <1>5 DEF ReleaseProxy, Release, procVars, opVars, givenVars
  <2>2. Using' = Using \ {w} /\ w \in Using
        BY <1>5 DEF ReleaseProxy, WorkerGoto, Using, TypeOK
  <2>3. \A v \in Using' : wproxy[v] # wproxy[w]
        BY <2>1, <2>2
  <2>4. \A q \in Procs : held[q] # None => held[q] # wproxy[w]
        BY <2>1, <2>2
  <2>5. ExclusiveProxy'
        BY <2>1, <2>2
  <2>6. (Assigned \subseteq inUse)'
        BY <2>1, <2>2, <2>3, <2>4
  <2> QED
    BY <2>5, <2>6
<1>6. ASSUME NEW w \in Workers, Deregister(w)
      PROVE  (ExclusiveProxy /\ Assigned \subseteq inUse)'
  <2>1. ~stopCalled /\ held' = held /\ inUse' = inUse
        BY <1>6 DEF Deregister, procVars, opVars, poolVars
  <2>2. Using' = Using
        BY <1>6 DEF Deregister, WorkerGoto, Using, TypeOK
  <2>3. \A v \in Using : wproxy'[v] = wproxy[v]
        BY <1>6 DEF Deregister, WorkerGoto, Using, TypeOK
  <2> QED
    BY <2>1, <2>2, <2>3
<1>7. CASE UNCHANGED leaseVars
      BY <1>7 DEF leaseVars, poolVars, Using
<1>8. CASE PoolChange
      BY <1>8, PoolChangeOnly DEF procVars, opVars, workerVars, givenVars, Using
<1> QED
  BY LeaseSteps, <1>1, <1>2, <1>3, <1>4, <1>5, <1>6, <1>7, <1>8 DEF WorkerStep

\* Until Worker.Stop is called for the first time, no two workers share a proxy
\* and the pool knows of every proxy assigned, whatever callers, monitors and
\* worker goroutines do at the same time.
THEOREM ExclusiveUntilStop == Spec => []LeaseUntilStop
<1>1. Init => LeaseUntilStop
      BY DEF Init, LeaseUntilStop, ExclusiveProxy, Assigned, Using
<1>2. TypeOK /\ LeaseUntilStop /\ [Next]_vars => LeaseUntilStop'
      BY NextLeaseUntilStop
<1> QED
  BY <1>1, <1>2, TypeCorrect, PTL DEF Spec

\* Spawn loops stay within the tokens, if the requests ask for no more.
WithinTokens == \A q \in Procs : last[q] <= NumTokens \/ pc[q] = "scalingDown"

LEMMA NextWithinTokens ==
  ASSUME TypeOK, WithinTokens, [Next]_vars, \A n \in Targets : n <= NumTokens
  PROVE  WithinTokens'
<1> USE ProcsAre DEF Goto, Request
<1>0. NumTokens \in Nat /\ Targets \subseteq Nat /\ Cardinality(workers) \in Nat
      BY MapSize, EngineConstants DEF EngineConstants
<1>1. ASSUME last' = last, \A q \in Procs : pc[q] = "scalingDown" => pc'[q] = pc[q]
      PROVE  WithinTokens'
      BY <1>1 DEF WithinTokens
<1>2. ASSUME NEW c \in Callers, NEW to, pc' = [pc EXCEPT ![c] = to],
             NEW n \in Nat, last' = [last EXCEPT ![c] = n],
             n <= NumTokens \/ to = "scalingDown"
      PROVE  WithinTokens'
      BY <1>2, <1>0 DEF TypeOK, WithinTokens
<1>3. ASSUME NEW c \in Callers, NewRequest(c) PROVE WithinTokens'
  <2>1. CASE StartCheck(c)
        BY <1>0, <1>2, <2>1 DEF StartCheck
  <2>2. CASE ScaleUp(c)
        BY <1>0, <1>2, <2>2 DEF ScaleUp
  <2>3. CASE ScaleDown(c)
    <3>1. PICK n \in Targets : /\ n < Cardinality(workers)
                              /\ last' = [last EXCEPT ![c] = Cardinality(workers) - n]
          BY <2>3 DEF ScaleDown
    <3>2. Cardinality(workers) - n \in Nat
          BY <3>1, <1>0
    <3>3. pc' = [pc EXCEPT ![c] = "scalingDown"]
          BY <2>3 DEF ScaleDown
    <3> QED
      BY <1>2, <3>1, <3>2, <3>3
  <2>4. CASE StopBegin(c) \/ GracefulBegin(c)
        BY <1>1, <2>4 DEF StopBegin, GracefulBegin, opVars, TypeOK
  <2> QED
    BY <1>3, <2>1, <2>2, <2>3, <2>4 DEF NewRequest
<1>4. ASSUME NEW c \in Callers, StartRunning(c) PROVE WithinTokens'
  <2>1. last[c] <= NumTokens
        BY <1>4 DEF StartRunning, WithinTokens
  <2>2. \A q \in Procs : last'[q] \in {last[q], last[c], 0}
        BY <1>4 DEF StartRunning, TypeOK
  <2>3. \A q \in Procs : pc[q] = "scalingDown" /\ q # run[c] => pc'[q] = pc[q]
        BY <1>4 DEF StartRunning, TypeOK
  <2>4. \A q \in Procs : pc[q] = "scalingDown" => last'[q] <= NumTokens \/ q # run[c]
        BY <1>4, <1>0, <2>1 DEF StartRunning, TypeOK
  <2>5. \A q \in Procs : pc[q] # "scalingDown" => last'[q] <= NumTokens
    <3>1. 0 <= NumTokens
          BY <1>0
    <3> QED
      BY <2>1, <2>2, <3>1 DEF WithinTokens
  <2> QED
    BY <2>3, <2>4, <2>5 DEF WithinTokens
<1>5. ASSUME NEW c \in Callers, ScaleUpEnd(c) \/ ScaleDownLock(c) PROVE WithinTokens'
  <2>1. last' = [last EXCEPT ![c] = 0]
        BY <1>5 DEF ScaleUpEnd, ScaleDownLock
  <2>2. 0 <= NumTokens
        BY <1>0
  <2>3. \/ pc' = [pc EXCEPT ![c] = "idle"]
        \/ pc' = [pc EXCEPT ![c] = "removing"]
        BY <1>5 DEF ScaleUpEnd, ScaleDownLock
  <2> QED
    BY <1>2, <2>1, <2>2, <2>3
<1>6. ASSUME NEW c \in Callers, CallerStep(c), ~StartRunning(c), ~ScaleUpEnd(c)
      PROVE  WithinTokens'
      BY <1>1, <1>6
         DEF CallerStep, StartStore, StartDerive, SpawnAcquire, StopCancel, StopEach,
             ScaleDownEach, StopClear, StopEnd, ScaleDownEnd, GracefulStopped,
             GracefulEnd, StopAgain, opVars, TypeOK
<1>7. ASSUME NEW c \in Callers, CallerLocks(c), ~ScaleDownLock(c) PROVE WithinTokens'
      BY <1>1, <1>7
         DEF CallerLocks, SpawnRegister, LockMap, GracefulDrained, opVars, TypeOK
<1>8. ASSUME NEW r \in Runs, MonitorStep(r) \/ MonitorLocks(r) PROVE WithinTokens'
      BY <1>1, <1>8
         DEF MonitorStep, MonitorLocks, MonitorTick, SpawnAcquire, MonitorRespawned,
             MonitorExit, MonitorCount, SpawnRegister, opVars, TypeOK
<1>9. CASE UNCHANGED <<pc, last>>
      BY <1>9 DEF WithinTokens
<1>10. ASSUME NEW w \in Workers, WorkerStep(w) \/ Deregister(w)
       PROVE  UNCHANGED <<pc, last>>
      BY <1>10 DEF WorkerStep, CtxExit, GivesUp, Connects, ViewerEnds, ReleaseProxy,
                   Deregister, procVars, opVars
<1>11. ASSUME NEW c \in Callers, Disconnect(c) PROVE UNCHANGED <<pc, last>>
      BY <1>11 DEF Disconnect, procVars, opVars
<1>12. CASE PoolChange
      BY <1>9, <1>12, PoolChangeOnly DEF procVars, opVars
<1> QED
  BY <1>3, <1>4, <1>5, <1>6, <1>7, <1>8, <1>9, <1>10, <1>11, <1>12
     DEF Next, CallerLocks, vars, procVars, opVars

LEMMA IndexHasToken ==
  ASSUME TypeOK, WithinTokens, NEW q \in Procs, SpawnAcquire(q)
  PROVE  ~(idx[q] >= NumTokens)
<1>1. idx[q] \in Nat /\ last[q] \in Nat /\ NumTokens \in Nat
      BY EngineConstants DEF EngineConstants, TypeOK
<1>2. pc[q] # "scalingDown" /\ idx[q] < last[q]
      BY DEF SpawnAcquire, Spawning
<1>3. last[q] <= NumTokens
      BY <1>2 DEF WithinTokens
<1>4. \A i, l, n \in Nat : i < l /\ l <= n => ~(i >= n)
      OBVIOUS
<1> QED
  BY <1>1, <1>2, <1>3, <1>4

LEMMA NextNoProxyLeak ==
  ASSUME TypeOK, WithinTokens, NoProxyLeak, [Next]_vars
  PROVE  NoProxyLeak'
<1> USE DEF NoProxyLeak, Assigned
<1>0. None \notin Proxies
      BY EngineConstants DEF EngineConstants
<1>1. ASSUME NEW q \in Procs, SpawnAcquire(q) PROVE NoProxyLeak'
  <2>1. Using' = Using /\ wproxy' = wproxy /\ held[q] = None
        BY <1>1 DEF SpawnAcquire, workerVars, givenVars, Using
  <2>2. ~(idx[q] >= NumTokens)
        BY <1>1, IndexHasToken
  <2>3. CASE UNCHANGED <<poolVars, held>>
        BY <2>1, <2>3 DEF poolVars
  <2>4. CASE \E p \in Available : Acquire(p) /\ held' = [held EXCEPT ![q] = p]
    <3>1. PICK p \in Available : Acquire(p) /\ held' = [held EXCEPT ![q] = p]
          BY <2>4
    <3>2. p # None /\ inUse' = inUse \cup {p}
          BY <1>0, <3>1 DEF Available, Acquire, TypeOK, PoolTypeOK
    <3>3. \A s \in Procs : held'[s] = IF s = q THEN p ELSE held[s]
          BY <3>1 DEF TypeOK
    <3> QED
      BY <2>1, <3>2, <3>3
  <2> QED
    BY <1>1, <2>2, <2>3, <2>4 DEF SpawnAcquire
<1>2. ASSUME NEW q \in Procs, SpawnRegister(q) PROVE NoProxyLeak'
  <2>1. PICK w \in Workers :
          /\ wpc[w] = "free"
          /\ wpc' = [wpc EXCEPT ![w] = "loop"]
          /\ wproxy' = [wproxy EXCEPT ![w] = held[q]]
        BY <1>2 DEF SpawnRegister
  <2>2. Using' = Using \cup {w} /\ w \notin Using
        BY <2>1 DEF Using, TypeOK
  <2>3. (\A v \in Using : wproxy'[v] = wproxy[v]) /\ wproxy'[w] = held[q]
        BY <2>1, <2>2 DEF TypeOK, Using
  <2>4. \A s \in Procs : held'[s] = IF s = q THEN None ELSE held[s]
        BY <1>2 DEF SpawnRegister, TypeOK
  <2>5. inUse' = inUse
        BY <1>2 DEF SpawnRegister, poolVars
  <2>6. Assigned \subseteq Assigned'
        BY <2>2, <2>3, <2>4
  <2> QED
    BY <2>5, <2>6
<1>3. ASSUME NEW c \in Callers, NEW w \in Workers, StopEach(c, w) \/ ScaleDownEach(c, w)
      PROVE  NoProxyLeak'
  <2>1. /\ inUse' \subseteq inUse /\ held' = held /\ wproxy' = wproxy
        /\ wpc' = IF wpc[w] = "active" THEN [wpc EXCEPT ![w] = "ending"] ELSE wpc
        BY <1>3 DEF StopEach, ScaleDownEach, WorkerStop, Release, givenVars
  <2>2. Using' = Using
        BY <2>1 DEF Using, TypeOK
  <2> QED
    BY <2>1, <2>2
<1>4. ASSUME NEW w \in Workers, CtxExit(w) \/ GivesUp(w) \/ Connects(w) \/ ViewerEnds(w)
      PROVE  NoProxyLeak'
      BY <1>4, KeepsProxy DEF poolVars
<1>5. ASSUME NEW w \in Workers, ReleaseProxy(w) PROVE NoProxyLeak'
  <2>1. wproxy' = wproxy /\ held' = held /\ inUse' = inUse \ {wproxy[w]}
        BY <1>5 DEF ReleaseProxy, Release, procVars, opVars, givenVars
  <2>2. Using' = Using \ {w}
        BY <1>5 DEF ReleaseProxy, WorkerGoto, Using, TypeOK
  <2>3. Assigned \ {wproxy[w]} \subseteq Assigned'
        BY <2>1, <2>2
  <2> QED
    BY <2>1, <2>3
<1>6. ASSUME NEW w \in Workers, Deregister(w) PROVE NoProxyLeak'
  <2>1. held' = held /\ inUse' = inUse
        BY <1>6 DEF Deregister, procVars, opVars, poolVars
  <2>2. Using' = Using
        BY <1>6 DEF Deregister, WorkerGoto, Using, TypeOK
  <2>3. \A v \in Using : wproxy'[v] = wproxy[v]
        BY <1>6 DEF Deregister, WorkerGoto, Using, TypeOK
  <2> QED
    BY <2>1, <2>2, <2>3
<1>7. CASE UNCHANGED leaseVars
      BY <1>7 DEF leaseVars, poolVars, Using
<1>8. CASE PoolChange
      BY <1>8, PoolChangeOnly DEF procVars, opVars, workerVars, givenVars, Using
<1> QED
  BY LeaseSteps, <1>1, <1>2, <1>3, <1>4, <1>5, <1>6, <1>7, <1>8 DEF WorkerStep

\* If no request asks for more workers than there are tokens, every proxy the
\* pool holds back belongs to a worker that uses it or to a spawn under way.
THEOREM NoProxyIsLost ==
  ASSUME \A n \in Targets : n <= NumTokens
  PROVE  Spec => []NoProxyLeak
<1>1. Init => WithinTokens /\ NoProxyLeak
  <2>1. 0 <= NumTokens
        BY EngineConstants DEF EngineConstants
  <2> QED
    BY <2>1 DEF Init, WithinTokens, NoProxyLeak, Assigned
<1>2. TypeOK /\ WithinTokens /\ [Next]_vars => WithinTokens'
      BY NextWithinTokens
<1>3. TypeOK /\ WithinTokens /\ NoProxyLeak /\ [Next]_vars => NoProxyLeak'
      BY NextNoProxyLeak
<1> QED
  BY <1>1, <1>2, <1>3, TypeCorrect, PTL DEF Spec

-----------------------------------------------------------------------------
(* The map and the goroutines.                                               *)

mapStepVars == <<workers, wpc, stopped>>

\* The actions that change the map, or the set of live goroutines.
LEMMA MapSteps ==
  ASSUME [Next]_vars
  PROVE  \/ \E q \in Procs : SpawnRegister(q)
         \/ \E c \in Callers, w \in Workers : StopEach(c, w) \/ ScaleDownEach(c, w)
         \/ \E c \in Callers : StopClear(c) \/ GracefulDrained(c)
         \/ \E w \in Workers : WorkerStep(w) \/ Deregister(w)
         \/ UNCHANGED mapStepVars
<1> USE ProcsAre DEF mapStepVars, vars, engineVars, mapVars, workerVars
<1>1. ASSUME NEW c \in Callers, NewRequest(c) PROVE UNCHANGED mapStepVars
      BY <1>1 DEF NewRequest, StartCheck, StopBegin, ScaleUp, ScaleDown, GracefulBegin
<1>2. ASSUME NEW c \in Callers, CallerStep(c), ~StopClear(c),
             ~\E w \in Workers : StopEach(c, w) \/ ScaleDownEach(c, w)
      PROVE  UNCHANGED mapStepVars
      BY <1>2 DEF CallerStep, StartStore, StartDerive, SpawnAcquire, StartRunning,
                  StopCancel, StopEnd, ScaleUpEnd, ScaleDownEnd, GracefulStopped,
                  GracefulEnd, StopAgain
<1>3. ASSUME NEW c \in Callers, CallerLocks(c), ~SpawnRegister(c), ~GracefulDrained(c)
      PROVE  UNCHANGED mapStepVars
      BY <1>3 DEF CallerLocks, LockMap, ScaleDownLock
<1>4. ASSUME NEW c \in Callers, Disconnect(c) PROVE UNCHANGED mapStepVars
      BY <1>4 DEF Disconnect
<1>5. ASSUME NEW r \in Runs, MonitorStep(r) \/ MonitorLocks(r), ~SpawnRegister(r)
      PROVE  UNCHANGED mapStepVars
      BY <1>5 DEF MonitorStep, MonitorLocks, MonitorTick, SpawnAcquire, MonitorRespawned,
                  MonitorExit, MonitorCount
<1>6. CASE PoolChange
      BY <1>6, PoolChangeOnly
<1> QED
  BY <1>1, <1>2, <1>3, <1>4, <1>5, <1>6 DEF Next

\* Only Deregister frees a worker.
LEMMA LiveStays ==
  ASSUME TypeOK, NEW w \in Workers,
         \/ WorkerStep(w)
         \/ \E c \in Callers : StopEach(c, w) \/ ScaleDownEach(c, w)
  PROVE  Live' = Live
<1>1. \A v \in Workers : wpc'[v] = "free" <=> wpc[v] = "free"
      BY DEF WorkerStep, CtxExit, GivesUp, Connects, ViewerEnds, ReleaseProxy, WorkerGoto,
             StopEach, ScaleDownEach, WorkerStop, TypeOK
<1> QED
  BY <1>1 DEF Live

LEMMA NextMapIsLive == ASSUME TypeOK, MapIsLive, [Next]_vars PROVE MapIsLive'
<1> USE DEF MapIsLive
<1>1. ASSUME NEW q \in Procs, SpawnRegister(q) PROVE MapIsLive'
      BY <1>1 DEF SpawnRegister, Live, TypeOK
<1>2. ASSUME NEW c \in Callers, NEW w \in Workers, StopEach(c, w) \/ ScaleDownEach(c, w)
      PROVE  MapIsLive'
      BY <1>2, LiveStays DEF StopEach, ScaleDownEach, engineVars, mapVars
<1>3. ASSUME NEW c \in Callers, StopClear(c) \/ GracefulDrained(c) PROVE MapIsLive'
      BY <1>3 DEF StopClear, GracefulDrained
<1>4. ASSUME NEW w \in Workers, WorkerStep(w) PROVE MapIsLive'
  <2>1. workers' = workers
        BY <1>4 DEF WorkerStep, CtxExit, GivesUp, Connects, ViewerEnds, ReleaseProxy,
                    engineVars, mapVars
  <2> QED
    BY <1>4, <2>1, LiveStays
<1>5. ASSUME NEW w \in Workers, Deregister(w) PROVE MapIsLive'
      BY <1>5 DEF Deregister, WorkerGoto, Live, TypeOK
<1>6. CASE UNCHANGED mapStepVars
      BY <1>6 DEF mapStepVars, Live
<1> QED
  BY MapSteps, <1>1, <1>2, <1>3, <1>4, <1>5, <1>6

\* The map never lists a worker whose goroutine has ended, so its size is a
\* number of goroutines whenever SetWorkerCount or the monitor reads it.
THEOREM MapListsLive == Spec => []MapIsLive
<1>1. Init => MapIsLive
      BY DEF Init, MapIsLive
<1>2. TypeOK /\ MapIsLive /\ [Next]_vars => MapIsLive'
      BY NextMapIsLive
<1> QED
  BY <1>1, <1>2, TypeCorrect, PTL DEF Spec

\* A loop over the map runs under the lock.
LoopPCs == {"stoppingEach", "drainingEach", "removing"}
LockHeld == \A c \in Callers : pc[c] \in LoopPCs => mu = c

LEMMA NextLockHeld == ASSUME TypeOK, LockHeld, [Next]_vars PROVE LockHeld'
<1> USE ProcsAre DEF LockHeld, LoopPCs, Goto, Request, mapVars, engineVars
<1>1. ASSUME mu' = mu, \A c \in Callers : pc'[c] \in LoopPCs => pc[c] \in LoopPCs
      PROVE  LockHeld'
      BY <1>1
<1>2. ASSUME NEW c \in Callers, NewRequest(c) PROVE LockHeld'
      BY <1>1, <1>2 DEF NewRequest, StartCheck, StopBegin, ScaleUp, ScaleDown,
                        GracefulBegin, TypeOK
<1>3. ASSUME NEW c \in Callers, StopClear(c) \/ ScaleDownEnd(c) \/ GracefulStopped(c)
      PROVE  LockHeld'
      BY <1>3 DEF StopClear, ScaleDownEnd, GracefulStopped, TypeOK
<1>4. ASSUME NEW c \in Callers, CallerStep(c),
             ~(StopClear(c) \/ ScaleDownEnd(c) \/ GracefulStopped(c))
      PROVE  LockHeld'
      BY <1>1, <1>4
         DEF CallerStep, StartStore, StartDerive, SpawnAcquire, StartRunning, StopCancel,
             StopEach, ScaleDownEach, StopEnd, ScaleUpEnd, GracefulEnd, StopAgain, TypeOK
<1>5. ASSUME NEW c \in Callers, LockMap(c) \/ ScaleDownLock(c) PROVE LockHeld'
  <2>1. mu = None /\ mu' = c
        BY <1>5 DEF LockMap, ScaleDownLock
  <2>2. \A d \in Callers : pc[d] \notin LoopPCs
        BY <2>1, EngineConstants DEF EngineConstants, Procs
  <2>3. \A d \in Callers : d # c => pc'[d] = pc[d]
        BY <1>5 DEF LockMap, ScaleDownLock, TypeOK
  <2> QED
    BY <2>1, <2>2, <2>3
<1>6. ASSUME NEW c \in Callers, SpawnRegister(c) \/ GracefulDrained(c) \/ Disconnect(c)
      PROVE  LockHeld'
      BY <1>1, <1>6 DEF SpawnRegister, GracefulDrained, Disconnect, procVars, TypeOK
<1>7. ASSUME NEW r \in Runs, MonitorStep(r) \/ MonitorLocks(r) PROVE LockHeld'
      BY <1>1, <1>7
         DEF MonitorStep, MonitorLocks, MonitorTick, SpawnAcquire, MonitorRespawned,
             MonitorExit, MonitorCount, SpawnRegister, TypeOK
<1>8. ASSUME NEW w \in Workers, WorkerStep(w) \/ Deregister(w) PROVE LockHeld'
      BY <1>1, <1>8 DEF WorkerStep, CtxExit, GivesUp, Connects, ViewerEnds, ReleaseProxy,
                        Deregister, procVars
<1>9. CASE UNCHANGED vars \/ PoolChange
      BY <1>9, PoolChangeOnly DEF vars, procVars
<1> QED
  BY <1>2, <1>3, <1>4, <1>5, <1>6, <1>7, <1>8, <1>9 DEF Next, CallerLocks

\* At most one caller walks the map, and it holds workersMu while it does.
THEOREM LoopsHoldLock == Spec => []LockHeld
<1>1. Init => LockHeld
      BY EngineConstants DEF EngineConstants, Init, LockHeld, LoopPCs, Procs
<1>2. TypeOK /\ LockHeld /\ [Next]_vars => LockHeld'
      BY NextLockHeld
<1> QED
  BY <1>1, <1>2, TypeCorrect, PTL DEF Spec

\* Nobody drains, if nobody asks for a graceful shutdown.
NoDrain ==
  \A c \in Callers : pc[c] \notin {"drainingLock", "drainingEach", "draining"}

LEMMA NextNoDrain ==
  ASSUME TypeOK, NoDrain, [Next]_vars, \A c \in Callers : "graceful" \notin Ops[c]
  PROVE  NoDrain'
<1> USE ProcsAre DEF NoDrain, Goto, Request
<1>1. ASSUME NEW c \in Callers, NewRequest(c) PROVE NoDrain'
      BY <1>1 DEF NewRequest, StartCheck, StopBegin, ScaleUp, ScaleDown, GracefulBegin,
                  TypeOK
<1>2. ASSUME NEW c \in Callers, CallerStep(c) PROVE NoDrain'
      BY <1>2
         DEF CallerStep, StartStore, StartDerive, SpawnAcquire, StartRunning, StopCancel,
             StopEach, ScaleDownEach, StopClear, StopEnd, ScaleUpEnd, ScaleDownEnd,
             GracefulStopped, GracefulEnd, StopAgain, TypeOK
<1>3. ASSUME NEW c \in Callers, CallerLocks(c) \/ Disconnect(c) PROVE NoDrain'
      BY <1>3 DEF CallerLocks, SpawnRegister, LockMap, ScaleDownLock, GracefulDrained,
                  Disconnect, procVars, TypeOK
<1>4. ASSUME NEW r \in Runs, MonitorStep(r) \/ MonitorLocks(r) PROVE NoDrain'
      BY <1>4
         DEF MonitorStep, MonitorLocks, MonitorTick, SpawnAcquire, MonitorRespawned,
             MonitorExit, MonitorCount, SpawnRegister, TypeOK
<1>5. ASSUME NEW w \in Workers, WorkerStep(w) \/ Deregister(w) PROVE NoDrain'
      BY <1>5 DEF WorkerStep, CtxExit, GivesUp, Connects, ViewerEnds, ReleaseProxy,
                  Deregister, procVars
<1>6. CASE UNCHANGED vars \/ PoolChange
      BY <1>6, PoolChangeOnly DEF vars, procVars
<1> QED
  BY <1>1, <1>2, <1>3, <1>4, <1>5, <1>6 DEF Next

\* Stop has stopped every worker of the map that it no longer has to visit.
StoppedSoFar ==
  \A c \in Callers : pc[c] = "stoppingEach" => workers \ todo[c] \subseteq stopped

LEMMA NextStoppedSoFar ==
  ASSUME TypeOK, LockHeld, NoDrain, StoppedSoFar, [Next]_vars
  PROVE  StoppedSoFar'
<1> USE ProcsAre DEF StoppedSoFar, Goto, Request
<1>0. /\ mu = None => \A c \in Callers : pc[c] # "stoppingEach"
      /\ \A c, d \in Callers : pc[c] \in LoopPCs /\ pc[d] = "stoppingEach" => c = d
      BY EngineConstants DEF EngineConstants, LockHeld, LoopPCs, Procs
<1>1. ASSUME workers' = workers, stopped \subseteq stopped',
             \A c \in Callers : pc'[c] = "stoppingEach"
                                  => pc[c] = "stoppingEach" /\ todo'[c] = todo[c]
      PROVE  StoppedSoFar'
      BY <1>1
<1>2. ASSUME NEW c \in Callers, NewRequest(c) PROVE StoppedSoFar'
      BY <1>1, <1>2 DEF NewRequest, StartCheck, StopBegin, ScaleUp, ScaleDown,
                        GracefulBegin, engineVars, mapVars, opVars, workerVars, TypeOK
<1>3. ASSUME NEW c \in Callers, LockMap(c) PROVE StoppedSoFar'
  <2>1. todo'[c] = workers /\ workers' = workers
        BY <1>3 DEF LockMap, TypeOK
  <2>2. \A d \in Callers : d # c => pc'[d] # "stoppingEach"
        BY <1>0, <1>3 DEF LockMap, TypeOK
  <2> QED
    BY <2>1, <2>2
<1>4. ASSUME NEW c \in Callers, NEW w \in Workers, StopEach(c, w) PROVE StoppedSoFar'
  <2>1. /\ workers' = workers /\ pc' = pc /\ stopped' = stopped \cup {w}
        /\ \A d \in Callers : todo'[d] = IF d = c THEN todo[c] \ {w} ELSE todo[d]
        BY <1>4 DEF StopEach, WorkerStop, engineVars, mapVars, TypeOK
  <2> QED
    BY <2>1
<1>5. ASSUME NEW c \in Callers, NEW w \in Workers, ScaleDownEach(c, w)
      PROVE  StoppedSoFar'
  <2>1. pc[c] = "removing" /\ pc' = pc
        BY <1>5 DEF ScaleDownEach
  <2>2. \A d \in Callers : pc[d] # "stoppingEach"
        BY <1>0, <2>1 DEF LoopPCs
  <2> QED
    BY <2>1, <2>2
<1>6. ASSUME NEW c \in Callers, StopClear(c) PROVE StoppedSoFar'
  <2>1. pc[c] = "stoppingEach" /\ pc' = [pc EXCEPT ![c] = "stopped"]
        BY <1>6 DEF StopClear
  <2>2. \A d \in Callers : d # c => pc[d] # "stoppingEach"
        BY <1>0, <2>1 DEF LoopPCs
  <2> QED
    BY <2>1, <2>2 DEF TypeOK
<1>7. ASSUME NEW c \in Callers, CallerStep(c), ~StopClear(c),
             ~\E w \in Workers : StopEach(c, w) \/ ScaleDownEach(c, w)
      PROVE  StoppedSoFar'
      BY <1>1, <1>7
         DEF CallerStep, StartStore, StartDerive, SpawnAcquire, StartRunning, StopCancel,
             StopEnd, ScaleUpEnd, ScaleDownEnd, GracefulStopped, GracefulEnd, StopAgain,
             engineVars, mapVars, opVars, workerVars, TypeOK
<1>8. ASSUME NEW c \in Callers, ScaleDownLock(c) \/ Disconnect(c) PROVE StoppedSoFar'
      BY <1>1, <1>8 DEF ScaleDownLock, Disconnect, mapVars, procVars, opVars, workerVars,
                        TypeOK
<1>9. ASSUME NEW c \in Callers, GracefulDrained(c) PROVE FALSE
      BY <1>9 DEF GracefulDrained, NoDrain
<1>10. ASSUME NEW r \in Runs, MonitorStep(r) \/ MonitorCount(r) PROVE StoppedSoFar'
      BY <1>1, <1>10
         DEF MonitorStep, MonitorTick, SpawnAcquire, MonitorRespawned, MonitorExit,
             MonitorCount, engineVars, mapVars, opVars, workerVars, TypeOK
<1>11. ASSUME mu = None, pc' = pc PROVE StoppedSoFar'
      BY <1>0, <1>11
<1>12. ASSUME NEW q \in Procs, SpawnRegister(q) PROVE StoppedSoFar'
      BY <1>11, <1>12 DEF SpawnRegister
<1>13. ASSUME NEW w \in Workers, Deregister(w) PROVE StoppedSoFar'
      BY <1>11, <1>13 DEF Deregister, procVars
<1>14. ASSUME NEW w \in Workers, WorkerStep(w) PROVE StoppedSoFar'
      BY <1>1, <1>14 DEF WorkerStep, CtxExit, GivesUp, Connects, ViewerEnds, ReleaseProxy,
                         engineVars, mapVars, procVars, opVars
<1>15. CASE UNCHANGED vars \/ PoolChange
      BY <1>15, PoolChangeOnly DEF vars, engineVars, mapVars, procVars, opVars, workerVars
<1> QED
  BY <1>2, <1>3, <1>4, <1>5, <1>6, <1>7, <1>8, <1>9, <1>10, <1>12, <1>13, <1>14, <1>15
     DEF Next, CallerLocks, MonitorLocks

LEMMA NextOrphansWereStopped ==
  ASSUME TypeOK, NoDrain, StoppedSoFar, OrphansWereStopped, [Next]_vars
  PROVE  OrphansWereStopped'
<1> USE DEF OrphansWereStopped
<1>1. ASSUME NEW q \in Procs, SpawnRegister(q) PROVE OrphansWereStopped'
      BY <1>1 DEF SpawnRegister, Live, TypeOK
<1>2. ASSUME NEW c \in Callers, NEW w \in Workers, StopEach(c, w) \/ ScaleDownEach(c, w)
      PROVE  OrphansWereStopped'
  <2>1. stopped' = stopped \cup {w} /\ workers \ {w} \subseteq workers'
        BY <1>2 DEF StopEach, ScaleDownEach, WorkerStop, engineVars, mapVars
  <2> QED
    BY <1>2, <2>1, LiveStays
<1>3. ASSUME NEW c \in Callers, StopClear(c) PROVE OrphansWereStopped'
  <2>1. workers \subseteq stopped
        BY <1>3 DEF StopClear, Goto, StoppedSoFar
  <2>2. Live' = Live /\ stopped' = stopped
        BY <1>3 DEF StopClear, workerVars, Live
  <2> QED
    BY <2>1, <2>2
<1>4. ASSUME NEW c \in Callers, GracefulDrained(c) PROVE FALSE
      BY <1>4 DEF GracefulDrained, Goto, NoDrain
<1>5. ASSUME NEW w \in Workers, WorkerStep(w) PROVE OrphansWereStopped'
  <2>1. workers' = workers /\ stopped' = stopped
        BY <1>5 DEF WorkerStep, CtxExit, GivesUp, Connects, ViewerEnds, ReleaseProxy,
                    engineVars, mapVars
  <2> QED
    BY <1>5, <2>1, LiveStays
<1>6. ASSUME NEW w \in Workers, Deregister(w) PROVE OrphansWereStopped'
      BY <1>6 DEF Deregister, WorkerGoto, Live, TypeOK
<1>7. CASE UNCHANGED mapStepVars
      BY <1>7 DEF mapStepVars, Live
<1> QED
  BY MapSteps, <1>1, <1>2, <1>3, <1>4, <1>5, <1>6, <1>7

\* Without graceful shutdowns, whose drain timeout replaces the map unseen, a
\* goroutine only ever leaves the map told to stop: Stop and SetWorkerCount
\* visit every worker they drop although starts, respawns and ends of workers
\* go on between their steps.
THEOREM OrphansStopped ==
  ASSUME \A c \in Callers : "graceful" \notin Ops[c]
  PROVE  Spec => []OrphansWereStopped
<1>1. Init => NoDrain /\ StoppedSoFar /\ OrphansWereStopped
  <2>1. ASSUME Init PROVE \A c \in Callers : pc[c] = "idle"
        BY <2>1, EngineConstants DEF EngineConstants, Init, Procs
  <2> QED
    BY <2>1 DEF Init, NoDrain, StoppedSoFar, OrphansWereStopped, Live
<1>2. TypeOK /\ NoDrain /\ [Next]_vars => NoDrain'
      BY NextNoDrain
<1>3. TypeOK /\ LockHeld /\ NoDrain /\ StoppedSoFar /\ [Next]_vars => StoppedSoFar'
      BY NextStoppedSoFar
<1>4. TypeOK /\ NoDrain /\ StoppedSoFar /\ OrphansWereStopped /\ [Next]_vars
        => OrphansWereStopped'
      BY NextOrphansWereStopped
<1> QED
  BY <1>1, <1>2, <1>3, <1>4, TypeCorrect, LoopsHoldLock, PTL DEF Spec

-----------------------------------------------------------------------------
(* Stop, when requests do not overlap: one caller at a time starts and stops, *)
(* and nobody scales up on the context of a request.                          *)

SequentialPCs ==
  {"idle", "starting", "deriving", "startingWorkers", "cancelling", "locking",
   "stoppingEach", "stopped", "drainingLock", "drainingEach", "draining", "drained",
   "stopAgain"}

\* The caller of the requests is somewhere in one of them, the other callers in none;
\* between two requests the engine runs or has stopped.
OneRequest(c) ==
  /\ pc[c] \in SequentialPCs
  /\ \A d \in Callers \ {c} : pc[d] = "idle"
  /\ \A r \in Runs : pc[r] \in MonitorPCs
  /\ pc[c] = "idle" => state \in {"stopped", "running"}

\* Of the callers, only one that is spawning has a proxy in hand.
HeldBySpawner == \A d \in Callers : held[d] # None => pc[d] \in Spawning

\* The run of a Start is the one that cancel will end, once it has derived it.
StartIsCancellable(c) ==
  /\ pc[c] \in {"starting", "deriving", "startingWorkers"} => run[c] \in Runs
  /\ pc[c] = "startingWorkers" => run[c] = cancel

\* Who may forget cancel, or has called it, leaves no run behind.
CancelIsOver == cancel = None \/ Done(cancel)
OverAfterStop(c) ==
  \/ pc[c] \in {"starting", "deriving", "locking", "stoppingEach", "stopped"}
  \/ pc[c] = "idle" /\ state = "stopped"
  => CancelIsOver

\* What a run has begun ends with cancel, or has been told to end.
Cancellable(x) == x = cancel \/ Done(x)
RunsCancellable ==
  /\ \A r \in Runs : pc[r] # "unborn" \/ held[r] # None => Cancellable(r)
  /\ \A w \in Live : wctx[w] \in Runs /\ Cancellable(wctx[w])

SequentialInv(c) ==
  /\ OneRequest(c) /\ HeldBySpawner /\ StartIsCancellable(c) /\ OverAfterStop(c)
  /\ RunsCancellable

\* It is the turn of some caller; between two requests, of every one.
TakesTurns == \E c \in Callers : SequentialInv(c)

\* No request begins while another is under way.
OneAtATime == \A c, d \in Callers : pc[c] # "idle" /\ pc[d] # "idle" => c = d

NobodyScales == \A c \in Callers : "scale" \notin Ops[c]

LEMMA InitSequential ==
  ASSUME NEW c \in Callers, Init
  PROVE  SequentialInv(c)
<1>1. /\ \A d \in Callers : pc[d] = "idle"
      /\ \A r \in Runs : pc[r] = "unborn"
      /\ \A q \in Procs : held[q] = None
      BY EngineConstants DEF EngineConstants, Init, Procs
<1>2. OneRequest(c)
      BY <1>1 DEF Init, OneRequest, SequentialPCs, MonitorPCs
<1>3. /\ HeldBySpawner
      /\ \A r \in Runs : pc[r] = "unborn" /\ held[r] = None
      BY <1>1, ProcsAre DEF HeldBySpawner
<1>4. StartIsCancellable(c)
      BY <1>1 DEF StartIsCancellable
<1>5. Live = {}
      BY DEF Init, Live
<1>6. RunsCancellable
      BY <1>3, <1>5 DEF RunsCancellable
<1>7. OverAfterStop(c)
      BY DEF Init, OverAfterStop, CancelIsOver
<1> QED
  BY <1>2, <1>3, <1>4, <1>6, <1>7 DEF SequentialInv

\* What has been begun stays cancellable as long as nothing else begins and cancel stays.
LEMMA StaysCancellable ==
  ASSUME RunsCancellable, done \subseteq done', cancel' = cancel,
         \A r \in Runs : pc[r] = "unborn" /\ held[r] = None
                          => pc'[r] = "unborn" /\ held'[r] = None,
         Live' \subseteq Live, \A w \in Live' : wctx'[w] = wctx[w]
  PROVE  RunsCancellable'
BY DEF RunsCancellable, Cancellable, Done

\* A step of another process than the caller's, or of the pool, that moves no caller and
\* changes neither the engine's state nor its runs.
LEMMA OthersKeepSequential ==
  ASSUME NEW c \in Callers, SequentialInv(c), RunsCancellable',
         \A d \in Callers : pc'[d] = pc[d],
         \A r \in Runs : pc'[r] \in MonitorPCs,
         HeldBySpawner', done \subseteq done', UNCHANGED <<state, cancel, run>>
  PROVE  SequentialInv(c)'
<1>1. OneRequest(c)'
      BY DEF SequentialInv, OneRequest
<1>2. StartIsCancellable(c)' /\ OverAfterStop(c)'
      BY DEF SequentialInv, StartIsCancellable, OverAfterStop, CancelIsOver, Done
<1> QED
  BY <1>1, <1>2 DEF SequentialInv

\* A step of the caller that moves it on, and begins and forgets nothing.
LEMMA CallerKeepsSequential ==
  ASSUME NEW c \in Callers, TypeOK, SequentialInv(c), NEW to \in SequentialPCs,
         pc' = [pc EXCEPT ![c] = to], held[c] = None \/ to = "startingWorkers",
         done \subseteq done', UNCHANGED <<cancel, run, held, wctx>>, Live' = Live,
         to = "idle" => state' \in {"stopped", "running"},
         StartIsCancellable(c)', OverAfterStop(c)'
  PROVE  SequentialInv(c)'
<1> USE ProcsAre
<1>1. c \notin Runs /\ c \in Procs
      BY EngineConstants DEF EngineConstants
<1>2. \A q \in Procs : q # c => pc'[q] = pc[q]
      BY DEF TypeOK
<1>3. pc'[c] = to
      BY <1>1 DEF TypeOK
<1>4. OneRequest(c)'
      BY <1>1, <1>2, <1>3 DEF SequentialInv, OneRequest
<1>5. HeldBySpawner'
      BY <1>2, <1>3 DEF SequentialInv, HeldBySpawner, Spawning
<1>6. RunsCancellable'
      BY <1>1, <1>2, StaysCancellable DEF SequentialInv
<1> QED
  BY <1>4, <1>5, <1>6 DEF SequentialInv

\* Between two requests the turn may pass to any caller.
LEMMA TurnPasses ==
  ASSUME NEW c \in Callers, NEW d \in Callers, SequentialInv(c), pc[c] = "idle"
  PROVE  SequentialInv(d)
<1>1. \A b \in Callers : pc[b] = "idle"
      BY DEF SequentialInv, OneRequest
<1>2. OneRequest(d)
      BY <1>1 DEF SequentialInv, OneRequest
<1>3. StartIsCancellable(d) /\ OverAfterStop(d)
      BY <1>1 DEF SequentialInv, StartIsCancellable, OverAfterStop
<1> QED
  BY <1>2, <1>3 DEF SequentialInv

\* A caller that takes a step does so in its turn.
LEMMA StepsInTurn ==
  ASSUME NEW c \in Callers, TypeOK, SequentialInv(c), OneAtATime', NEW d \in Callers,
         NewRequest(d) \/ CallerStep(d) \/ CallerLocks(d)
  PROVE  SequentialInv(d)
<1> USE ProcsAre
<1> SUFFICES ASSUME d # c PROVE SequentialInv(d)
    OBVIOUS
<1>1. pc[d] = "idle"
      BY DEF SequentialInv, OneRequest
<1>2. held[d] = None
      BY <1>1 DEF SequentialInv, HeldBySpawner, Spawning
<1>3. ~CallerStep(d)
      BY <1>1
      DEF CallerStep, StartStore, StartDerive, SpawnAcquire, StartRunning, StopCancel,
          StopEach, ScaleDownEach, StopClear, StopEnd, ScaleUpEnd, ScaleDownEnd,
          GracefulStopped, GracefulEnd, StopAgain, Goto, Spawning
<1>4. ~CallerLocks(d)
      BY <1>1, <1>2
      DEF CallerLocks, SpawnRegister, LockMap, ScaleDownLock, GracefulDrained, Goto
<1>5. PICK to \in CallerPCs \ {"idle"} : pc' = [pc EXCEPT ![d] = to]
      BY <1>3, <1>4
      DEF NewRequest, StartCheck, StopBegin, ScaleUp, ScaleDown, GracefulBegin, Request,
          Goto, CallerPCs
<1>6. pc'[d] # "idle" /\ pc'[c] = pc[c]
      BY <1>5 DEF TypeOK
<1>7. pc[c] = "idle"
      BY <1>6 DEF OneAtATime
<1> QED
  BY <1>7, TurnPasses

\* The requests' own steps.
LEMMA RequestSteps ==
  ASSUME NEW c \in Callers, NobodyScales, TypeOK, SequentialInv(c),
         \/ NewRequest(c)
         \/ CallerStep(c) /\ ~SpawnAcquire(c)
         \/ CallerLocks(c) /\ ~SpawnRegister(c)
  PROVE  SequentialInv(c)'
<1> USE ProcsAre DEF Goto
<1>1. /\ c \in Procs /\ c \notin Runs /\ None \notin Runs
      /\ \A r \in Runs : r \in Procs
      BY EngineConstants DEF EngineConstants, Procs
<1>2. pc[c] \in SequentialPCs
      BY DEF SequentialInv, OneRequest
<1>3. pc[c] # "startingWorkers" => held[c] = None
      BY <1>1, <1>2 DEF SequentialInv, HeldBySpawner, Spawning, SequentialPCs
<1>4. \A to : pc' = [pc EXCEPT ![c] = to] => pc'[c] = to
      BY <1>1 DEF TypeOK
<1>5. CASE StartCheck(c)
  <2>1. /\ pc[c] = "idle" /\ state = "stopped" /\ pc' = [pc EXCEPT ![c] = "starting"]
        /\ UNCHANGED <<state, cancel, done, held, wctx, wpc>>
        BY <1>5
        DEF StartCheck, Request, SequentialInv, OneRequest, engineVars, ctxVars, workerVars,
            givenVars
  <2>2. PICK r \in Runs : run' = [run EXCEPT ![c] = r]
        BY <1>5 DEF StartCheck
  <2>3. run'[c] = r
        BY <2>2 DEF TypeOK
  <2>4. pc'[c] = "starting"
        BY <1>4, <2>1
  <2>5. OneRequest(c)'
        BY <1>1, <2>1, <2>4 DEF SequentialInv, OneRequest, SequentialPCs, TypeOK
  <2>6. HeldBySpawner'
        BY <1>3, <2>1, <2>4 DEF SequentialInv, HeldBySpawner, TypeOK
  <2>7. StartIsCancellable(c)' /\ OverAfterStop(c)'
        BY <2>1, <2>3, <2>4
        DEF SequentialInv, StartIsCancellable, OverAfterStop, CancelIsOver, Done
  <2>8. RunsCancellable'
    <3>1. \A r2 \in Runs : pc'[r2] = pc[r2]
          BY <1>1, <2>1 DEF TypeOK
    <3>2. Live' = Live
          BY <2>1 DEF Live
    <3> QED
      BY <2>1, <3>1, <3>2, StaysCancellable DEF SequentialInv
  <2> QED
    BY <2>5, <2>6, <2>7, <2>8 DEF SequentialInv
<1>6. CASE StartDerive(c)
  <2>1. /\ pc[c] = "deriving" /\ pc' = [pc EXCEPT ![c] = "startingWorkers"]
        /\ cancel' = run[c] /\ UNCHANGED <<state, done, run, held, wctx, wpc>>
        BY <1>6 DEF StartDerive, workerVars, givenVars
  <2>2. run[c] \in Runs /\ CancelIsOver
        BY <2>1 DEF SequentialInv, StartIsCancellable, OverAfterStop
  <2>3. pc'[c] = "startingWorkers"
        BY <1>4, <2>1
  <2>4. OneRequest(c)'
        BY <1>1, <2>1, <2>3 DEF SequentialInv, OneRequest, SequentialPCs, TypeOK
  <2>5. HeldBySpawner'
        BY <2>1, <2>3 DEF SequentialInv, HeldBySpawner, Spawning, TypeOK
  <2>6. StartIsCancellable(c)' /\ OverAfterStop(c)'
        BY <2>1, <2>2, <2>3 DEF StartIsCancellable, OverAfterStop
  <2>7. \A x \in Runs : Cancellable(x) => Done(x)'
        BY <1>1, <2>1, <2>2 DEF Cancellable, CancelIsOver, Done
  <2>8. RunsCancellable'
    <3>1. \A r2 \in Runs : pc'[r2] = pc[r2]
          BY <1>1, <2>1 DEF TypeOK
    <3>2. Live' = Live
          BY <2>1 DEF Live
    <3> QED
      BY <2>1, <2>7, <3>1, <3>2 DEF SequentialInv, RunsCancellable, Cancellable
  <2> QED
    BY <2>4, <2>5, <2>6, <2>8 DEF SequentialInv
<1>7. CASE StartRunning(c)
  <2> DEFINE r == run[c]
  <2>1. /\ pc[c] = "startingWorkers" /\ held[c] = None /\ state' = "running"
        /\ pc' = [pc EXCEPT ![c] = "idle", ![r] = "waiting"]
        /\ UNCHANGED <<cancel, done, held, wctx, wpc>>
        BY <1>7 DEF StartRunning, Spawned, ctxVars, workerVars, givenVars
  <2>2. r \in Runs /\ r = cancel
        BY <2>1 DEF SequentialInv, StartIsCancellable
  <2> HIDE DEF r
  <2>3. /\ pc'[c] = "idle" /\ pc'[r] = "waiting"
        /\ \A q \in Procs : q # c /\ q # r => pc'[q] = pc[q]
        BY <1>1, <2>1, <2>2 DEF TypeOK
  <2>4. OneRequest(c)'
    <3>1. \A d \in Callers \ {c} : d # r
          BY <2>2, EngineConstants DEF EngineConstants
    <3> QED
      BY <1>1, <2>1, <2>3, <3>1 DEF SequentialInv, OneRequest, SequentialPCs, MonitorPCs
  <2>5. HeldBySpawner'
        BY <1>1, <2>1, <2>2, <2>3, EngineConstants
        DEF EngineConstants, SequentialInv, HeldBySpawner
  <2>6. StartIsCancellable(c)' /\ OverAfterStop(c)'
        BY <2>1, <2>3 DEF StartIsCancellable, OverAfterStop
  <2>7. RunsCancellable'
    <3>1. Live' = Live
          BY <2>1 DEF Live
    <3>2. \A x \in Runs : Cancellable(x)' <=> Cancellable(x)
          BY <2>1 DEF Cancellable, Done
    <3>3. Cancellable(r)
          BY <2>2 DEF Cancellable
    <3>4. \A x \in Runs : x # r => pc'[x] = pc[x]
          BY <1>1, <2>3
    <3> QED
      BY <2>1, <3>1, <3>2, <3>3, <3>4 DEF SequentialInv, RunsCancellable
  <2> QED
    BY <2>4, <2>5, <2>6, <2>7 DEF SequentialInv
<1>8. ASSUME UNCHANGED <<cancel, run, held, wctx>>, Live' = Live, done \subseteq done',
             NEW to \in SequentialPCs, pc' = [pc EXCEPT ![c] = to],
             to \notin {"starting", "startingWorkers"}, pc[c] # "startingWorkers",
             to = "deriving" => pc[c] = "starting",
             to = "idle" => state' \in {"stopped", "running"} /\ pc[c] = "stopped",
             to = "stoppingEach" => pc[c] = "locking", to = "stopped" => pc[c] = "stoppingEach",
             to = "locking" => CancelIsOver'
      PROVE  SequentialInv(c)'
  <2>1. pc'[c] = to
        BY <1>4, <1>8
  <2>2. StartIsCancellable(c)'
        BY <1>8, <2>1 DEF SequentialInv, StartIsCancellable
  <2>3. CancelIsOver => CancelIsOver'
        BY <1>8 DEF CancelIsOver, Done
  <2>4. OverAfterStop(c)'
        BY <1>8, <2>1, <2>3 DEF SequentialInv, OverAfterStop
  <2> QED
    BY <1>3, <1>8, <2>2, <2>4, CallerKeepsSequential
<1>9. CASE StartStore(c)
  <2>1. /\ pc[c] = "starting" /\ pc' = [pc EXCEPT ![c] = "deriving"]
        /\ UNCHANGED <<cancel, run, held, wctx, wpc, done>>
        BY <1>9 DEF StartStore, ctxVars, opVars, workerVars, givenVars
  <2>2. Live' = Live
        BY <2>1 DEF Live
  <2> QED
    BY <1>8, <2>1, <2>2 DEF SequentialPCs
<1>10. CASE StopBegin(c)
  <2>1. /\ pc[c] = "idle" /\ pc' = [pc EXCEPT ![c] = "cancelling"]
        /\ UNCHANGED <<cancel, run, held, wctx, wpc, done>>
        BY <1>10 DEF StopBegin, Request, ctxVars, opVars, workerVars, givenVars
  <2>2. Live' = Live
        BY <2>1 DEF Live
  <2> QED
    BY <1>8, <2>1, <2>2 DEF SequentialPCs
<1>11. CASE StopCancel(c)
  <2>1. /\ pc[c] = "cancelling" /\ pc' = [pc EXCEPT ![c] = "locking"]
        /\ UNCHANGED <<cancel, run, held, wctx, wpc>>
        /\ done \subseteq done' /\ CancelIsOver'
        BY <1>11 DEF StopCancel, opVars, workerVars, givenVars, CancelIsOver, Done
  <2>2. Live' = Live
        BY <2>1 DEF Live
  <2> QED
    BY <1>8, <2>1, <2>2 DEF SequentialPCs
<1>12. CASE LockMap(c)
  <2>1. /\ UNCHANGED <<cancel, run, held, wctx, wpc, done>>
        /\ \/ pc[c] = "locking" /\ pc' = [pc EXCEPT ![c] = "stoppingEach"]
           \/ pc[c] = "drainingLock" /\ pc' = [pc EXCEPT ![c] = "drainingEach"]
        BY <1>12 DEF LockMap, ctxVars, workerVars, givenVars
  <2>2. Live' = Live
        BY <2>1 DEF Live
  <2> QED
    BY <1>8, <2>1, <2>2 DEF SequentialPCs
<1>13. ASSUME NEW w \in Workers, StopEach(c, w) PROVE SequentialInv(c)'
  <2>1. /\ UNCHANGED <<cancel, run, held, wctx, done, pc, state>>
        BY <1>13 DEF StopEach, WorkerStop, engineVars, ctxVars, givenVars
  <2>2. Live' = Live
        BY <1>13, LiveStays
  <2>3. RunsCancellable'
        BY <2>1, <2>2, StaysCancellable DEF SequentialInv
  <2> QED
    BY <2>1, <2>3, OthersKeepSequential DEF SequentialInv, OneRequest, HeldBySpawner
<1>14. CASE StopClear(c)
  <2>1. /\ pc[c] = "stoppingEach" /\ pc' = [pc EXCEPT ![c] = "stopped"]
        /\ UNCHANGED <<cancel, run, held, wctx, wpc, done>>
        BY <1>14 DEF StopClear, ctxVars, opVars, workerVars, givenVars
  <2>2. Live' = Live
        BY <2>1 DEF Live
  <2> QED
    BY <1>8, <2>1, <2>2 DEF SequentialPCs
<1>15. CASE StopEnd(c)
  <2>1. /\ pc[c] = "stopped" /\ pc' = [pc EXCEPT ![c] = "idle"] /\ state' = "stopped"
        /\ UNCHANGED <<cancel, run, held, wctx, wpc, done>>
        BY <1>15 DEF StopEnd, ctxVars, opVars, workerVars, givenVars
  <2>2. Live' = Live
        BY <2>1 DEF Live
  <2> QED
    BY <1>8, <2>1, <2>2 DEF SequentialPCs
<1>16. CASE GracefulBegin(c)
  <2>1. /\ pc[c] = "idle" /\ pc' = [pc EXCEPT ![c] = "drainingLock"]
        /\ UNCHANGED <<cancel, run, held, wctx, wpc, done>>
        BY <1>16 DEF GracefulBegin, Request, ctxVars, opVars, workerVars, givenVars
  <2>2. Live' = Live
        BY <2>1 DEF Live
  <2> QED
    BY <1>8, <2>1, <2>2 DEF SequentialPCs
<1>17. CASE GracefulStopped(c)
  <2>1. /\ pc[c] = "drainingEach" /\ pc' = [pc EXCEPT ![c] = "draining"]
        /\ UNCHANGED <<cancel, run, held, wctx, wpc, done>>
        BY <1>17 DEF GracefulStopped, ctxVars, opVars, workerVars, givenVars
  <2>2. Live' = Live
        BY <2>1 DEF Live
  <2> QED
    BY <1>8, <2>1, <2>2 DEF SequentialPCs
<1>18. CASE GracefulDrained(c)
  <2>1. /\ pc[c] = "draining" /\ pc' = [pc EXCEPT ![c] = "drained"]
        /\ UNCHANGED <<cancel, run, held, wctx, wpc, done>>
        BY <1>18 DEF GracefulDrained, ctxVars, opVars, workerVars, givenVars
  <2>2. Live' = Live
        BY <2>1 DEF Live
  <2> QED
    BY <1>8, <2>1, <2>2 DEF SequentialPCs
<1>19. CASE GracefulEnd(c) \/ StopAgain(c)
  <2>1. /\ \/ pc[c] = "drained" /\ pc' = [pc EXCEPT ![c] = "stopAgain"]
           \/ pc[c] = "stopAgain" /\ pc' = [pc EXCEPT ![c] = "cancelling"]
        /\ UNCHANGED <<cancel, run, held, wctx, wpc, done>>
        BY <1>19 DEF GracefulEnd, StopAgain, ctxVars, opVars, workerVars, givenVars
  <2>2. Live' = Live
        BY <2>1 DEF Live
  <2> QED
    BY <1>8, <2>1, <2>2 DEF SequentialPCs
<1>20. ~ScaleUp(c) /\ ~ScaleDown(c)
       BY DEF ScaleUp, ScaleDown, Request, NobodyScales
<1>21. /\ ~ScaleUpEnd(c) /\ ~ScaleDownLock(c) /\ ~ScaleDownEnd(c)
       /\ \A w \in Workers : ~ScaleDownEach(c, w)
       BY <1>2 DEF ScaleUpEnd, ScaleDownLock, ScaleDownEnd, ScaleDownEach, SequentialPCs
<1> QED
  BY <1>5, <1>6, <1>7, <1>9, <1>10, <1>11, <1>12, <1>13, <1>14, <1>15, <1>16, <1>17, <1>18,
     <1>19, <1>20, <1>21 DEF NewRequest, CallerStep, CallerLocks

\* A worker is born: of the run being started, which cancel ends, or of the run of a
\* monitor, which has begun.
LEMMA SpawnSteps ==
  ASSUME NEW c \in Callers, TypeOK, SequentialInv(c), NEW q \in {c} \cup Runs,
         SpawnAcquire(q) \/ SpawnRegister(q)
  PROVE  SequentialInv(c)'
<1> USE ProcsAre
<1>1. /\ q \in Procs /\ c \notin Runs /\ None \notin Runs
      /\ \A d \in Callers : d \notin Runs
      BY EngineConstants DEF EngineConstants
<1>2. UNCHANGED <<pc, state, cancel, run, done>>
      BY DEF SpawnAcquire, SpawnRegister, engineVars, ctxVars
<1>3. \A x \in Procs : x # q => held'[x] = held[x]
      BY DEF SpawnAcquire, SpawnRegister, TypeOK
<1>4. q \in Callers => q = c
      BY <1>1
<1>5. pc[q] \in Spawning \/ held[q] # None
      BY DEF SpawnAcquire, SpawnRegister
<1>6. q = c => pc[c] = "startingWorkers"
      BY <1>5 DEF SequentialInv, OneRequest, SequentialPCs, HeldBySpawner, Spawning
<1>7. q \in Runs => pc[q] # "unborn" \/ held[q] # None
      BY <1>5 DEF Spawning
<1>8. HeldBySpawner'
      BY <1>2, <1>3, <1>4, <1>6 DEF SequentialInv, HeldBySpawner, Spawning
<1>9. \A x \in Runs : Cancellable(x)' <=> Cancellable(x)
      BY <1>2 DEF Cancellable, Done
<1>10. \A r \in Runs : pc'[r] # "unborn" \/ held'[r] # None => Cancellable(r)
      BY <1>1, <1>2, <1>3, <1>7 DEF SequentialInv, RunsCancellable
<1>11. SpawnCtx(q) \in Runs /\ Cancellable(SpawnCtx(q))
  <2>1. CASE q \in Runs
        BY <1>7, <2>1 DEF SpawnCtx, SequentialInv, RunsCancellable
  <2>2. CASE q = c
        BY <1>1, <1>6, <2>2 DEF SpawnCtx, SequentialInv, StartIsCancellable, Cancellable
  <2> QED
    BY <2>1, <2>2
<1>12. \A w \in Live' : wctx'[w] \in Runs /\ Cancellable(wctx'[w])
  <2>1. CASE SpawnAcquire(q)
        BY <2>1 DEF SpawnAcquire, workerVars, givenVars, Live, SequentialInv,
                    RunsCancellable
  <2>2. CASE SpawnRegister(q)
    <3>1. PICK v \in Workers : /\ wpc' = [wpc EXCEPT ![v] = "loop"]
                               /\ wctx' = [wctx EXCEPT ![v] = SpawnCtx(q)]
          BY <2>2 DEF SpawnRegister
    <3>2. wctx'[v] = SpawnCtx(q)
          BY <3>1 DEF TypeOK
    <3>3. \A w \in Workers : w # v => wpc'[w] = wpc[w] /\ wctx'[w] = wctx[w]
          BY <3>1 DEF TypeOK
    <3>4. \A w \in Live' : w = v \/ w \in Live
          BY <3>3 DEF Live
    <3> QED
      BY <1>11, <3>2, <3>3, <3>4 DEF SequentialInv, RunsCancellable, Live
  <2> QED
    BY <2>1, <2>2
<1>13. RunsCancellable'
      BY <1>9, <1>10, <1>12 DEF RunsCancellable
<1> QED
  BY <1>2, <1>8, <1>13, OthersKeepSequential DEF SequentialInv, OneRequest

\* A monitor between its spawns.
LEMMA MonitorSteps ==
  ASSUME NEW c \in Callers, TypeOK, SequentialInv(c), NEW r \in Runs,
         MonitorTick(r) \/ MonitorCount(r) \/ MonitorRespawned(r) \/ MonitorExit(r)
  PROVE  SequentialInv(c)'
<1> USE ProcsAre
<1>1. r \in Procs /\ \A d \in Callers : d # r
      BY EngineConstants DEF EngineConstants
<1>2. UNCHANGED <<held, state, cancel, run, done, wpc, wctx>>
      BY DEF MonitorTick, MonitorCount, MonitorRespawned, MonitorExit, engineVars, ctxVars,
             opVars, workerVars, givenVars
<1>3. PICK to \in MonitorPCs : pc' = [pc EXCEPT ![r] = to] /\ pc[r] # "unborn"
      BY DEF MonitorTick, MonitorCount, MonitorRespawned, MonitorExit, Goto, MonitorPCs
<1>4. pc'[r] = to /\ \A q \in Procs : q # r => pc'[q] = pc[q]
      BY <1>3 DEF TypeOK
<1>5. HeldBySpawner'
      BY <1>1, <1>2, <1>4 DEF SequentialInv, HeldBySpawner
<1>6. Live' = Live
      BY <1>2 DEF Live
<1>7. RunsCancellable'
      BY <1>2, <1>3, <1>4, <1>6, StaysCancellable DEF SequentialInv
<1>8. \A x \in Runs : pc'[x] \in MonitorPCs
      BY <1>4 DEF SequentialInv, OneRequest
<1>9. \A d \in Callers : pc'[d] = pc[d]
      BY <1>1, <1>4
<1> QED
  BY <1>2, <1>5, <1>7, <1>8, <1>9, OthersKeepSequential

\* A client goes away, a worker moves on or ends, or the pool changes.
LEMMA OtherSteps ==
  ASSUME NEW c \in Callers, TypeOK, SequentialInv(c),
         \/ \E d \in Callers : Disconnect(d)
         \/ \E w \in Workers : WorkerStep(w) \/ Deregister(w)
         \/ PoolChange
         \/ UNCHANGED vars
  PROVE  SequentialInv(c)'
<1>1. UNCHANGED <<pc, held, state, cancel, run>> /\ done \subseteq done'
  <2>1. ASSUME NEW d \in Callers, Disconnect(d)
        PROVE  UNCHANGED <<pc, held, state, cancel, run>> /\ done \subseteq done'
        BY <2>1 DEF Disconnect, procVars, opVars
  <2>2. ASSUME NEW w \in Workers, WorkerStep(w) \/ Deregister(w)
        PROVE  UNCHANGED <<pc, held, state, cancel, run, done>>
        BY <2>2 DEF WorkerStep, CtxExit, GivesUp, Connects, ViewerEnds, ReleaseProxy,
                    Deregister, engineVars, ctxVars, procVars, opVars
  <2>3. PoolChange => UNCHANGED <<pc, held, state, cancel, run, done>>
        BY PoolChangeOnly DEF engineVars, ctxVars, procVars, opVars
  <2>4. UNCHANGED vars => UNCHANGED <<pc, held, state, cancel, run, done>>
        BY DEF vars, engineVars, ctxVars, procVars, opVars
  <2> QED
    BY <2>1, <2>2, <2>3, <2>4
<1>2. Live' \subseteq Live /\ \A w \in Live' : wctx'[w] = wctx[w]
  <2>1. ASSUME NEW d \in Callers, Disconnect(d)
        PROVE  Live' = Live /\ wctx' = wctx
        BY <2>1 DEF Disconnect, workerVars, givenVars, Live
  <2>2. ASSUME NEW w \in Workers, WorkerStep(w)
        PROVE  Live' = Live /\ wctx' = wctx
    <3>1. Live' = Live
          BY <2>2, LiveStays
    <3>2. wctx' = wctx
          BY <2>2 DEF WorkerStep, CtxExit, GivesUp, Connects, ViewerEnds, ReleaseProxy,
                      givenVars
    <3> QED
      BY <3>1, <3>2
  <2>3. ASSUME NEW w \in Workers, Deregister(w)
        PROVE  Live' \subseteq Live /\ \A v \in Live' : wctx'[v] = wctx[v]
    <3>1. /\ wpc' = [wpc EXCEPT ![w] = "free"] /\ wctx' = [wctx EXCEPT ![w] = None]
          BY <2>3 DEF Deregister, WorkerGoto
    <3>2. wpc'[w] = "free"
          BY <3>1 DEF TypeOK
    <3>3. \A v \in Workers : v # w => wpc'[v] = wpc[v] /\ wctx'[v] = wctx[v]
          BY <3>1 DEF TypeOK
    <3> QED
      BY <3>2, <3>3 DEF Live
  <2>4. PoolChange => Live' = Live /\ wctx' = wctx
        BY PoolChangeOnly DEF workerVars, givenVars, Live
  <2>5. UNCHANGED vars => Live' = Live /\ wctx' = wctx
        BY DEF vars, workerVars, givenVars, Live
  <2> QED
    BY <2>1, <2>2, <2>3, <2>4, <2>5
<1>3. RunsCancellable'
      BY <1>1, <1>2, StaysCancellable DEF SequentialInv
<1> QED
  BY <1>1, <1>3, OthersKeepSequential DEF SequentialInv, OneRequest, HeldBySpawner

LEMMA NextTakesTurns ==
  ASSUME NobodyScales, TypeOK, TakesTurns, [Next]_vars, OneAtATime'
  PROVE  TakesTurns'
<1>1. PICK c \in Callers : SequentialInv(c)
      BY DEF TakesTurns
<1>2. ASSUME NEW d \in Callers, NewRequest(d) \/ CallerStep(d) \/ CallerLocks(d)
      PROVE  SequentialInv(d)'
  <2>1. SequentialInv(d)
        BY <1>1, <1>2, StepsInTurn
  <2> QED
    BY <1>2, <2>1, RequestSteps, SpawnSteps
<1>3. ASSUME NEW r \in Runs, MonitorStep(r) \/ MonitorLocks(r)
      PROVE  SequentialInv(c)'
      BY <1>1, <1>3, SpawnSteps, MonitorSteps DEF MonitorStep, MonitorLocks
<1>4. ASSUME \/ \E d \in Callers : Disconnect(d)
             \/ \E w \in Workers : WorkerStep(w) \/ Deregister(w)
             \/ PoolChange
             \/ UNCHANGED vars
      PROVE  SequentialInv(c)'
      BY <1>1, <1>4, OtherSteps
<1> QED
  BY <1>2, <1>3, <1>4 DEF Next, TakesTurns

\* If the requests that start, stop and shut down are served one after the other and
\* nobody scales, an engine that has stopped leaves no goroutine behind whose context
\* is not done, however far the monitors and the workers had come.  (When a Stop
\* overlaps a Start, or a worker has the context of a scaling request, it may.)
THEOREM StopLeavesNothing ==
  ASSUME NobodyScales, Callers # {}
  PROVE  Spec /\ []OneAtATime => []StoppedMeansStopped
<1>1. Init => TakesTurns
      BY InitSequential DEF TakesTurns
<1>2. TypeOK /\ TakesTurns /\ [Next]_vars /\ OneAtATime' => TakesTurns'
      BY NextTakesTurns
<1>3. TakesTurns => StoppedMeansStopped
  <2> SUFFICES ASSUME NEW c \in Callers, SequentialInv(c), state = "stopped",
                      \A q \in Procs : pc[q] \in {"idle", "unborn", "waiting", "ended"},
                      NEW w \in Live
               PROVE  Done(wctx[w])
      BY DEF TakesTurns, StoppedMeansStopped
  <2>1. pc[c] = "idle"
        BY ProcsAre DEF SequentialInv, OneRequest, SequentialPCs
  <2>2. CancelIsOver
        BY <2>1 DEF SequentialInv, OverAfterStop
  <2>3. wctx[w] \in Runs /\ Cancellable(wctx[w])
        BY DEF SequentialInv, RunsCancellable
  <2>4. wctx[w] # None
        BY <2>3, EngineConstants DEF EngineConstants, Procs
  <2> QED
    BY <2>2, <2>3, <2>4 DEF CancelIsOver, Cancellable
<1> QED
  BY <1>1, <1>2, <1>3, TypeCorrect, PTL DEF Spec

-----------------------------------------------------------------------------
(* A worker is what WorkerLoop says, from its birth to its deferred Release. *)

\* A context that is done stays so; a worker gets its context at its birth and loses it at
\* its end.
LEMMA ContextSteps ==
  ASSUME [Next]_vars
  PROVE  /\ done \subseteq done'
         /\ \/ \E q \in Procs : SpawnRegister(q)
            \/ \E w \in Workers : Deregister(w)
            \/ UNCHANGED wctx
<1> USE ProcsAre DEF vars, engineVars, ctxVars, workerVars, givenVars
<1>1. ASSUME NEW c \in Callers, NewRequest(c) PROVE UNCHANGED <<done, wctx>>
      BY <1>1 DEF NewRequest, StartCheck, StopBegin, ScaleUp, ScaleDown, GracefulBegin
<1>2. ASSUME NEW c \in Callers, NEW w \in Workers, StopEach(c, w) \/ ScaleDownEach(c, w)
      PROVE  UNCHANGED <<done, wctx>>
      BY <1>2 DEF StopEach, ScaleDownEach, WorkerStop
<1>3. ASSUME NEW c \in Callers, CallerStep(c),
             ~\E w \in Workers : StopEach(c, w) \/ ScaleDownEach(c, w)
      PROVE  done \subseteq done' /\ UNCHANGED wctx
      BY <1>3 DEF CallerStep, StartStore, StartDerive, SpawnAcquire, StartRunning, StopCancel,
                  StopClear, StopEnd, ScaleUpEnd, ScaleDownEnd, GracefulStopped,
                  GracefulEnd, StopAgain
<1>4. ASSUME NEW q \in Procs, SpawnRegister(q) PROVE UNCHANGED done
      BY <1>4 DEF SpawnRegister
<1>5. ASSUME NEW c \in Callers, CallerLocks(c), ~SpawnRegister(c)
      PROVE  UNCHANGED <<done, wctx>>
      BY <1>5 DEF CallerLocks, LockMap, ScaleDownLock, GracefulDrained
<1>6. ASSUME NEW c \in Callers, Disconnect(c) PROVE done \subseteq done' /\ UNCHANGED wctx
      BY <1>6 DEF Disconnect
<1>7. ASSUME NEW r \in Runs, MonitorStep(r) \/ MonitorLocks(r), ~SpawnRegister(r)
      PROVE  UNCHANGED <<done, wctx>>
      BY <1>7 DEF MonitorStep, MonitorLocks, MonitorTick, SpawnAcquire, MonitorRespawned,
                  MonitorExit, MonitorCount
<1>8. ASSUME NEW w \in Workers, WorkerStep(w) PROVE UNCHANGED <<done, wctx>>
      BY <1>8 DEF WorkerStep, CtxExit, GivesUp, Connects, ViewerEnds, ReleaseProxy
<1>9. ASSUME NEW w \in Workers, Deregister(w) PROVE UNCHANGED done
      BY <1>9 DEF Deregister
<1>10. CASE PoolChange
       BY <1>10, PoolChangeOnly
<1> QED
  BY <1>1, <1>2, <1>3, <1>4, <1>5, <1>6, <1>7, <1>8, <1>9, <1>10 DEF Next

Loop(w) == INSTANCE WorkerLoop WITH wpc <- wpc[w], ctxDone <- Done(wctx[w])

\* Worker w is born at the top of its loop, takes the loop's steps, and leaves it exiting.
LoopStep(w) ==
  /\ w \in Using /\ w \in Using' => [Loop(w)!LoopNext]_(Loop(w)!loopVars)
  /\ w \notin Using /\ w \in Using' => wpc'[w] = "loop"
  /\ w \in Using /\ w \notin Using' => wpc[w] = "exiting"

LEMMA NextLoopStep ==
  ASSUME NEW w \in Workers, TypeOK, [Next]_vars
  PROVE  LoopStep(w)
<1> USE ProcsAre DEF LoopStep, Using
<1>1. ASSUME w \in Using, w \in Using' PROVE wctx'[w] = wctx[w]
  <2>1. ASSUME NEW q \in Procs, SpawnRegister(q) PROVE wctx'[w] = wctx[w]
        BY <1>1, <2>1 DEF SpawnRegister, TypeOK
  <2>2. ASSUME NEW v \in Workers, Deregister(v) PROVE wctx'[w] = wctx[w]
        BY <1>1, <2>2 DEF Deregister, WorkerGoto, TypeOK
  <2> QED
    BY <2>1, <2>2, ContextSteps
<1>2. ASSUME w \in Using, w \in Using'
      PROVE  Done(wctx[w])' = Done(wctx[w]) \/ Done(wctx[w])' = TRUE
      BY <1>1, <1>2, ContextSteps DEF Done
<1>3. CASE wpc'[w] = wpc[w]
      BY <1>2, <1>3 DEF Loop!LoopNext, Loop!loopVars, Loop!Cancelled
<1>4. ASSUME UNCHANGED done, w \in Using, w \in Using'
      PROVE  Done(wctx[w])' = Done(wctx[w])
      BY <1>1, <1>4 DEF Done
<1>5. ASSUME NEW q \in Procs, SpawnRegister(q) PROVE LoopStep(w)
  <2>1. PICK v \in Workers : wpc[v] = "free" /\ wpc' = [wpc EXCEPT ![v] = "loop"]
        BY <1>5 DEF SpawnRegister
  <2>2. wpc'[v] = "loop" /\ (v # w => wpc'[w] = wpc[w])
        BY <2>1 DEF TypeOK
  <2> QED
    BY <1>3, <2>1, <2>2
<1>6. ASSUME NEW c \in Callers, NEW v \in Workers, StopEach(c, v) \/ ScaleDownEach(c, v)
      PROVE  LoopStep(w)
  <2>1. UNCHANGED done /\ WorkerStop(v)
        BY <1>6 DEF StopEach, ScaleDownEach, engineVars, ctxVars
  <2>2. wpc'[w] = wpc[w] \/ (wpc[w] = "active" /\ wpc'[w] = "ending")
        BY <2>1 DEF WorkerStop, TypeOK
  <2> QED
    BY <1>3, <1>4, <2>1, <2>2 DEF Loop!LoopNext, Loop!loopVars, Loop!Told
<1>7. ASSUME NEW v \in Workers, WorkerStep(v) PROVE LoopStep(w)
  <2>1. UNCHANGED done
        BY <1>7 DEF WorkerStep, CtxExit, GivesUp, Connects, ViewerEnds, ReleaseProxy,
                    engineVars, ctxVars
  <2>2. CASE v # w
    <3>1. wpc'[w] = wpc[w]
          BY <1>7, <2>2 DEF WorkerStep, CtxExit, GivesUp, Connects, ViewerEnds, ReleaseProxy,
                            WorkerGoto, TypeOK
    <3> QED
      BY <1>3, <3>1
  <2>3. CASE CtxExit(w) \/ GivesUp(w)
    <3>1. wpc[w] = "loop" /\ wpc'[w] = "exiting"
          BY <2>3 DEF CtxExit, GivesUp, WorkerGoto, TypeOK
    <3> QED
      BY <1>4, <2>1, <3>1 DEF Loop!LoopNext, Loop!Leave
  <2>4. CASE Connects(w)
    <3>1. wpc[w] = "loop" /\ wpc'[w] = "active"
          BY <2>4 DEF Connects, WorkerGoto, TypeOK
    <3> QED
      BY <1>4, <2>1, <3>1 DEF Loop!LoopNext, Loop!Connect
  <2>5. CASE ViewerEnds(w)
    <3>1. /\ wpc[w] \in {"active", "ending"}
          /\ wpc'[w] = IF Done(wctx[w]) THEN "exiting" ELSE "loop"
          BY <2>5 DEF ViewerEnds, TypeOK
    <3> QED
      BY <1>4, <2>1, <3>1 DEF Loop!LoopNext, Loop!ViewerEnds
  <2>6. CASE ReleaseProxy(w)
    <3>1. wpc[w] = "exiting" /\ wpc'[w] = "released"
          BY <2>6 DEF ReleaseProxy, WorkerGoto, TypeOK
    <3> QED
      BY <3>1
  <2> QED
    BY <1>7, <2>2, <2>3, <2>4, <2>5, <2>6 DEF WorkerStep
<1>8. ASSUME NEW v \in Workers, Deregister(v) PROVE LoopStep(w)
  <2>1. wpc[v] = "released" /\ wpc'[v] = "free" /\ (v # w => wpc'[w] = wpc[w])
        BY <1>8 DEF Deregister, WorkerGoto, TypeOK
  <2> QED
    BY <1>3, <2>1
<1>9. CASE UNCHANGED wpc
      BY <1>3, <1>9
<1>10. ASSUME NEW c \in Callers, StopClear(c) \/ GracefulDrained(c) PROVE UNCHANGED wpc
      BY <1>10 DEF StopClear, GracefulDrained, workerVars
<1> QED
  BY MapSteps, <1>5, <1>6, <1>7, <1>8, <1>9, <1>10 DEF mapStepVars

\* From its birth to its deferred Release every worker of the engine is the worker loop
\* that ReconnectingViewer implements, whatever stops, scalings and disconnections meet it:
\* the engine tells its viewer to end and ends its context, and does nothing else to it.
THEOREM UsesWorkerLoop ==
  ASSUME NEW w \in Workers
  PROVE  Spec => [][LoopStep(w)]_vars
<1>1. TypeOK /\ [Next]_vars => [LoopStep(w)]_vars
      BY NextLoopStep
<1> QED
  BY <1>1, TypeCorrect, PTL DEF Spec
=============================================================================
