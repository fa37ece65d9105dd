------------------------------- MODULE Engine -------------------------------
(***************************************************************************)
(* The worker pool: internal/engine/engine.go, worker.go, shutdown.go and  *)
(* the control of reconnect.go, over the proxy pool.  The processes are    *)
(*   - the callers: one per API connection (requests of one connection are *)
(*     served in order) and main, running Start, Stop, SetWorkerCount and  *)
(*     GracefulShutdown;                                                   *)
(*   - one monitorLoop per Start that got that far, named by its context;  *)
(*   - one goroutine per worker, in ReconnectingViewer.Start.              *)
(* A step is what runs between two accesses to state others can see:       *)
(* e.state is atomic, workersMu guards the map, the proxy manager has its  *)
(* own mutex.  metricsLoop only reads and is left out.                     *)
(***************************************************************************)
EXTENDS ProxyPool, Integers, FiniteSets

CONSTANTS
  Callers,      \* API connections and main
  Connections,  \* the callers whose context ends when their client goes away
  Runs,         \* contexts Start creates (bound: calls of Start that begin)
  Workers,      \* worker ids (bound: worker goroutines alive at a time)
  Targets,      \* worker counts a request can ask for
  NumTokens,    \* len(e.tokens), fixed when the engine is created
  Loaded,       \* proxies in the file main loads; clients can import the rest
  Checked,      \* proxies whose health a check may find changed
  Ops,          \* Ops[c]: the operations c uses (main only starts and stops)
  None

Operations == {"start", "stop", "scale", "graceful"}
Procs == Callers \cup Runs

ASSUME EngineConstants ==
  /\ Connections \subseteq Callers
  /\ Callers \cap Runs = {}
  /\ IsFiniteSet(Workers)
  /\ Targets \subseteq Nat \ {0}
  /\ NumTokens \in Nat
  /\ Loaded \subseteq Proxies /\ Checked \subseteq Proxies
  /\ Ops \in [Callers -> SUBSET Operations]
  /\ None \notin Procs \cup Workers \cup Proxies

VARIABLES
  state,        \* e.state
  workers,      \* e.workers: the ids in the map
  mu,           \* who holds workersMu across steps, or None
  cancel,       \* e.cancel: the run it cancels, or None
  parent,       \* parent[r]: the caller whose context run r derives from
  done,         \* contexts that are done
  pc,           \* where each process is
  run,          \* run[c]: the context of the Start that c executes
  idx, last,    \* spawn loop: next index, and the index it stops at
  held,         \* proxy acquired by spawnWorker, worker not yet registered
  todo,         \* workers the loop under workersMu still has to stop
  wpc,          \* where each worker goroutine is
  wproxy, wctx, \* what spawnWorker gave the worker
  stopped,      \* workers on which Worker.Stop was called
  stopCalled    \* history: Worker.Stop was called, on any worker ever

mapVars    == <<workers, mu>>
ctxVars    == <<cancel, parent, done>>
engineVars == <<state, mapVars, ctxVars>>
opVars     == <<run, idx, last, held, todo>>
procVars   == <<pc, opVars>>
givenVars  == <<wproxy, wctx>>
workerVars == <<wpc, givenVars, stopped, stopCalled>>
vars == <<poolVars, engineVars, procVars, workerVars>>

States == {"stopped", "starting", "running", "stopping"}
CallerPCs == {"idle", "starting", "deriving", "startingWorkers", "scalingUp",
              "scalingDown", "removing", "cancelling", "locking", "stoppingEach",
              "stopped", "drainingLock", "drainingEach", "draining", "drained",
              "stopAgain"}
MonitorPCs == {"unborn", "waiting", "counting", "respawning", "ended"}
WorkerPCs == {"free", "loop", "active", "ending", "exiting", "released"}

Done(x) == x \in done
Live == {w \in Workers : wpc[w] # "free"}
\* Workers that still use their proxy: goroutines before the deferred Release.
Using == {w \in Workers : wpc[w] \in {"loop", "active", "ending", "exiting"}}
Spawning == {"startingWorkers", "scalingUp", "respawning"}

TypeOK ==
  /\ PoolTypeOK
  /\ state \in States
  /\ workers \subseteq Workers
  /\ mu \in Callers \cup {None}
  /\ cancel \in Runs \cup {None}
  /\ parent \in [Runs -> Callers \cup {None}]
  /\ done \subseteq Procs
  /\ pc \in [Procs -> CallerPCs \cup MonitorPCs]
  /\ run \in [Callers -> Runs \cup {None}]
  /\ idx \in [Procs -> Nat] /\ last \in [Procs -> Nat]
  /\ held \in [Procs -> Proxies \cup {None}]
  /\ todo \in [Callers -> SUBSET Workers]
  /\ wpc \in [Workers -> WorkerPCs]
  /\ wproxy \in [Workers -> Proxies \cup {None}]
  /\ wctx \in [Workers -> Procs \cup {None}]
  /\ stopped \subseteq Workers
  /\ stopCalled \in BOOLEAN

Init ==
  /\ known = Loaded /\ dead = {} /\ inUse = {}
  /\ state = "stopped" /\ workers = {} /\ mu = None /\ cancel = None
  /\ parent = [r \in Runs |-> None] /\ done = {}
  /\ pc = [q \in Procs |-> IF q \in Runs THEN "unborn" ELSE "idle"]
  /\ run = [c \in Callers |-> None]
  /\ idx = [q \in Procs |-> 0] /\ last = [q \in Procs |-> 0]
  /\ held = [q \in Procs |-> None]
  /\ todo = [c \in Callers |-> {}]
  /\ wpc = [w \in Workers |-> "free"]
  /\ wproxy = [w \in Workers |-> None] /\ wctx = [w \in Workers |-> None]
  /\ stopped = {}
  /\ stopCalled = FALSE

-----------------------------------------------------------------------------
(* Helpers: moving one process, Worker.Stop, spawnWorker.                    *)

Goto(q, from, to) == pc[q] = from /\ pc' = [pc EXCEPT ![q] = to]

\* c begins operation op: its connection is open and serves one request at a time.
Request(c, op, to) == op \in Ops[c] /\ ~Done(c) /\ Goto(c, "idle", to)

\* The context the spawn loop of q hands to the workers: a run's own context,
\* or the request's when SetWorkerCount scales up.
SpawnCtx(q) ==
  IF q \in Runs THEN q ELSE IF pc[q] = "scalingUp" THEN q ELSE run[q]

\* Worker.Stop: a running inner viewer is told to stop, and the proxy is
\* released.  The worker's own context is not cancelled.
WorkerStop(w) ==
  /\ wpc' = IF wpc[w] = "active" THEN [wpc EXCEPT ![w] = "ending"] ELSE wpc
  /\ Release(wproxy[w])
  /\ stopped' = stopped \cup {w}
  /\ stopCalled' = TRUE
  /\ UNCHANGED <<givenVars>>

\* spawnWorker up to Acquire, for the next index: no proxy, or a proxy but no
\* token for this index (the proxy is kept), or both.
SpawnAcquire(q) ==
  /\ pc[q] \in Spawning /\ held[q] = None /\ idx[q] < last[q]
  /\ \/ /\ Available = {}
        /\ idx' = [idx EXCEPT ![q] = @ + 1]
        /\ UNCHANGED <<poolVars, held>>
     \/ \E p \in Available :
          /\ Acquire(p)
          /\ IF idx[q] >= NumTokens
             THEN idx' = [idx EXCEPT ![q] = @ + 1] /\ UNCHANGED held
             ELSE held' = [held EXCEPT ![q] = p] /\ UNCHANGED idx
  /\ UNCHANGED <<engineVars, pc, run, last, todo, workerVars>>

\* spawnWorker, the rest: insert the worker in the map and start its goroutine.
SpawnRegister(q) ==
  /\ held[q] # None /\ mu = None
  /\ \E w \in Workers :
       /\ wpc[w] = "free"
       /\ workers' = workers \cup {w}
       /\ wpc' = [wpc EXCEPT ![w] = "loop"]
       /\ wproxy' = [wproxy EXCEPT ![w] = held[q]]
       /\ wctx' = [wctx EXCEPT ![w] = SpawnCtx(q)]
  /\ held' = [held EXCEPT ![q] = None]
  /\ idx' = [idx EXCEPT ![q] = @ + 1]
  /\ UNCHANGED <<poolVars, state, mu, ctxVars, pc, run, last, todo, stopped,
                 stopCalled>>

Spawned(q) == held[q] = None /\ idx[q] >= last[q]

-----------------------------------------------------------------------------
(* Engine.Start.                                                             *)

\* The check; an engine that is starting or stopping passes it.
StartCheck(c) ==
  /\ Request(c, "start", "starting")
  /\ state # "running"
  /\ \E r \in Runs, n \in Targets :
       /\ parent[r] = None /\ \A d \in Callers : run[d] # r
       /\ run' = [run EXCEPT ![c] = r]
       /\ last' = [last EXCEPT ![c] = n]
  /\ UNCHANGED <<poolVars, engineVars, idx, held, todo, workerVars>>

StartStore(c) ==
  /\ Goto(c, "starting", "deriving")
  /\ state' = "starting"
  /\ UNCHANGED <<poolVars, mapVars, ctxVars, opVars, workerVars>>

\* context.WithCancel; the cancel of an earlier run is forgotten.
StartDerive(c) ==
  /\ Goto(c, "deriving", "startingWorkers")
  /\ cancel' = run[c]
  /\ parent' = [parent EXCEPT ![run[c]] = c]
  /\ idx' = [idx EXCEPT ![c] = 0]
  /\ UNCHANGED <<poolVars, state, mapVars, done, run, last, held, todo, workerVars>>

\* All workers tried: the engine is running, whatever happened meanwhile.
StartRunning(c) ==
  /\ pc[c] = "startingWorkers" /\ Spawned(c)
  /\ state' = "running"
  /\ pc' = [pc EXCEPT ![c] = "idle", ![run[c]] = "waiting"]
  /\ last' = [last EXCEPT ![run[c]] = last[c], ![c] = 0]
  /\ idx' = [idx EXCEPT ![c] = 0]
  /\ run' = [run EXCEPT ![c] = None]
  /\ UNCHANGED <<poolVars, mapVars, ctxVars, held, todo, workerVars>>

-----------------------------------------------------------------------------
(* Engine.Stop, and the loop over the map it shares with GracefulShutdown.   *)

StopBegin(c) ==
  /\ Request(c, "stop", "cancelling")
  /\ state' = "stopping"
  /\ UNCHANGED <<poolVars, mapVars, ctxVars, opVars, workerVars>>

\* Mutant: cancel is not called.
StopCancel_Skipped(c) ==
  /\ Goto(c, "cancelling", "locking")
  /\ UNCHANGED <<poolVars, engineVars, opVars, workerVars>>

StopCancel(c) ==
  /\ Goto(c, "cancelling", "locking")
  /\ done' = IF cancel = None THEN done ELSE done \cup {cancel}
  /\ UNCHANGED <<poolVars, state, mapVars, cancel, parent, opVars, workerVars>>

\* Mutant: the loop runs over a copy of the map, without the lock.
LockMap_Copy(c) ==
  /\ mu = None
  /\ \/ Goto(c, "locking", "stoppingEach")
     \/ Goto(c, "drainingLock", "drainingEach")
  /\ todo' = [todo EXCEPT ![c] = workers]
  /\ UNCHANGED <<poolVars, engineVars, run, idx, last, held, workerVars>>

LockMap(c) ==
  /\ mu = None
  /\ \/ Goto(c, "locking", "stoppingEach")
     \/ Goto(c, "drainingLock", "drainingEach")
  /\ mu' = c
  /\ todo' = [todo EXCEPT ![c] = workers]
  /\ UNCHANGED <<poolVars, state, workers, ctxVars, run, idx, last, held, workerVars>>

StopEach(c, w) ==
  /\ pc[c] \in {"stoppingEach", "drainingEach"} /\ w \in todo[c]
  /\ WorkerStop(w)
  /\ todo' = [todo EXCEPT ![c] = @ \ {w}]
  /\ UNCHANGED <<engineVars, pc, run, idx, last, held>>

\* Mutant: no unlock.
StopClear_KeepsLock(c) ==
  /\ Goto(c, "stoppingEach", "stopped") /\ todo[c] = {}
  /\ workers' = {}
  /\ UNCHANGED <<poolVars, state, mu, ctxVars, opVars, workerVars>>

\* A fresh map, then the unlock.
StopClear(c) ==
  /\ Goto(c, "stoppingEach", "stopped") /\ todo[c] = {}
  /\ workers' = {} /\ mu' = None
  /\ UNCHANGED <<poolVars, state, ctxVars, opVars, workerVars>>

StopEnd(c) ==
  /\ Goto(c, "stopped", "idle")
  /\ state' = "stopped"
  /\ UNCHANGED <<poolVars, mapVars, ctxVars, opVars, workerVars>>

-----------------------------------------------------------------------------
(* Engine.SetWorkerCount: the count is read, the lock dropped, then used.    *)

ScaleUp(c) ==
  /\ Request(c, "scale", "scalingUp") /\ mu = None
  /\ \E n \in Targets :
       /\ n > Cardinality(workers)
       /\ last' = [last EXCEPT ![c] = n]
  /\ idx' = [idx EXCEPT ![c] = Cardinality(workers)]
  /\ UNCHANGED <<poolVars, engineVars, run, held, todo, workerVars>>

ScaleUpEnd(c) ==
  /\ Goto(c, "scalingUp", "idle") /\ Spawned(c)
  /\ idx' = [idx EXCEPT ![c] = 0] /\ last' = [last EXCEPT ![c] = 0]
  /\ UNCHANGED <<poolVars, engineVars, run, held, todo, workerVars>>

\* Mutant: the difference the wrong way round.
ScaleDown_Swapped(c) ==
  /\ Request(c, "scale", "scalingDown") /\ mu = None
  /\ \E n \in Targets :
       /\ n < Cardinality(workers)
       /\ last' = [last EXCEPT ![c] = n - Cardinality(workers)]
  /\ UNCHANGED <<poolVars, engineVars, run, idx, held, todo, workerVars>>

\* last[c] is the number of workers to remove.
ScaleDown(c) ==
  /\ Request(c, "scale", "scalingDown") /\ mu = None
  /\ \E n \in Targets :
       /\ n < Cardinality(workers)
       /\ last' = [last EXCEPT ![c] = Cardinality(workers) - n]
  /\ UNCHANGED <<poolVars, engineVars, run, idx, held, todo, workerVars>>

\* The loop visits the map in any order and ends when enough are removed or the
\* map is empty.
ScaleDownLock(c) ==
  /\ Goto(c, "scalingDown", "removing") /\ mu = None
  /\ mu' = c
  /\ \E S \in SUBSET workers :
       /\ \/ Cardinality(S) = last[c]
          \/ S = workers /\ Cardinality(S) < last[c]
       /\ todo' = [todo EXCEPT ![c] = S]
  /\ last' = [last EXCEPT ![c] = 0]
  /\ UNCHANGED <<poolVars, state, workers, ctxVars, run, idx, held, workerVars>>

ScaleDownEach(c, w) ==
  /\ pc[c] = "removing" /\ w \in todo[c]
  /\ WorkerStop(w)
  /\ workers' = workers \ {w}
  /\ todo' = [todo EXCEPT ![c] = @ \ {w}]
  /\ UNCHANGED <<state, mu, ctxVars, pc, run, idx, last, held>>

ScaleDownEnd(c) ==
  /\ Goto(c, "removing", "idle") /\ todo[c] = {}
  /\ mu' = None
  /\ UNCHANGED <<poolVars, state, workers, ctxVars, opVars, workerVars>>

-----------------------------------------------------------------------------
(* MultiGracefulShutdown on this engine's channel: GracefulShutdown (stop    *)
(* every worker, keep the map, wait for it to empty), then StopAll.          *)

GracefulBegin(c) ==
  /\ Request(c, "graceful", "drainingLock")
  /\ state' = "stopping"
  /\ UNCHANGED <<poolVars, mapVars, ctxVars, opVars, workerVars>>

GracefulStopped(c) ==
  /\ Goto(c, "drainingEach", "draining") /\ todo[c] = {}
  /\ mu' = None
  /\ UNCHANGED <<poolVars, state, workers, ctxVars, opVars, workerVars>>

\* The polling goroutine saw an empty map, or the drain timeout passed and the
\* map is replaced without a word to the workers in it.
GracefulDrained(c) ==
  /\ Goto(c, "draining", "drained") /\ mu = None
  /\ workers' = {}
  /\ UNCHANGED <<poolVars, state, mu, ctxVars, opVars, workerVars>>

\* GracefulShutdown's last store; StopAll calls Stop on the same engine.
GracefulEnd(c) ==
  /\ Goto(c, "drained", "stopAgain")
  /\ state' = "stopped"
  /\ UNCHANGED <<poolVars, mapVars, ctxVars, opVars, workerVars>>

\* Stop again, from StopAll: its first store (StopBegin, not a new request).
StopAgain(c) ==
  /\ Goto(c, "stopAgain", "cancelling")
  /\ state' = "stopping"
  /\ UNCHANGED <<poolVars, mapVars, ctxVars, opVars, workerVars>>

-----------------------------------------------------------------------------
(* monitorLoop of run r.  select may take the tick when the context is done. *)

MonitorTick(r) ==
  /\ Goto(r, "waiting", "counting")
  /\ state = "running"
  /\ UNCHANGED <<poolVars, engineVars, opVars, workerVars>>

\* Mutant: the indices start at the target.
MonitorCount_FromTarget(r) ==
  /\ pc[r] = "counting" /\ mu = None
  /\ IF Cardinality(workers) < last[r]
     THEN /\ Goto(r, "counting", "respawning")
          /\ idx' = [idx EXCEPT ![r] = last[r]]
     ELSE /\ Goto(r, "counting", "waiting")
          /\ UNCHANGED idx
  /\ UNCHANGED <<poolVars, engineVars, run, last, held, todo, workerVars>>

MonitorCount(r) ==
  /\ pc[r] = "counting" /\ mu = None
  /\ IF Cardinality(workers) < last[r]
     THEN /\ Goto(r, "counting", "respawning")
          /\ idx' = [idx EXCEPT ![r] = Cardinality(workers)]
     ELSE /\ Goto(r, "counting", "waiting")
          /\ UNCHANGED idx
  /\ UNCHANGED <<poolVars, engineVars, run, last, held, todo, workerVars>>

MonitorRespawned(r) ==
  /\ Goto(r, "respawning", "waiting") /\ Spawned(r)
  /\ idx' = [idx EXCEPT ![r] = 0]
  /\ UNCHANGED <<poolVars, engineVars, run, last, held, todo, workerVars>>

MonitorExit(r) ==
  /\ Goto(r, "waiting", "ended") /\ Done(r)
  /\ UNCHANGED <<poolVars, engineVars, opVars, workerVars>>

-----------------------------------------------------------------------------
(* A worker goroutine: ReconnectingViewer.Start, then the deferred Release   *)
(* and the removal from the map.                                             *)

WorkerGoto(w, from, to) == wpc[w] = from /\ wpc' = [wpc EXCEPT ![w] = to]

\* The poll of the context at the top of the loop.
CtxExit(w) ==
  /\ WorkerGoto(w, "loop", "exiting") /\ Done(wctx[w])
  /\ UNCHANGED <<poolVars, engineVars, procVars, givenVars, stopped, stopCalled>>

\* Mutant: a worker that gives up releases its proxy itself, too.
GivesUp_Releases(w) ==
  /\ WorkerGoto(w, "loop", "exiting")
  /\ Release(wproxy[w])
  /\ UNCHANGED <<engineVars, procVars, givenVars, stopped, stopCalled>>

\* Connect failed once too often (ReconnectingViewer counts the attempts).  A
\* failure after which it waits and tries again leaves it in the loop.  The
\* poll came before Connect, so the context may be done by now.
GivesUp(w) ==
  /\ WorkerGoto(w, "loop", "exiting")
  /\ UNCHANGED <<poolVars, engineVars, procVars, givenVars, stopped, stopCalled>>

\* Connect gives a fresh inner viewer, which runs.
Connects(w) ==
  /\ WorkerGoto(w, "loop", "active")
  /\ UNCHANGED <<poolVars, engineVars, procVars, givenVars, stopped, stopCalled>>

\* Mutant: the context is not looked at when the viewer returns.
ViewerEnds_NoCheck(w) ==
  /\ wpc[w] \in {"active", "ending"}
  /\ wpc' = [wpc EXCEPT ![w] = "loop"]
  /\ UNCHANGED <<poolVars, engineVars, procVars, givenVars, stopped, stopCalled>>

\* viewer.Start returns: an error, its own Stop, or the context.  Only the
\* context ends the loop: attempt is 0 after a success.
ViewerEnds(w) ==
  /\ wpc[w] \in {"active", "ending"}
  /\ wpc' = [wpc EXCEPT ![w] = IF Done(wctx[w]) THEN "exiting" ELSE "loop"]
  /\ UNCHANGED <<poolVars, engineVars, procVars, givenVars, stopped, stopCalled>>

\* Mutant: no deferred Release.
ReleaseProxy_Forgotten(w) ==
  /\ WorkerGoto(w, "exiting", "released")
  /\ UNCHANGED <<poolVars, engineVars, procVars, givenVars, stopped, stopCalled>>

ReleaseProxy(w) ==
  /\ WorkerGoto(w, "exiting", "released")
  /\ Release(wproxy[w])
  /\ UNCHANGED <<engineVars, procVars, givenVars, stopped, stopCalled>>

\* Mutant: the entry stays in the map.
Deregister_KeepsEntry(w) ==
  /\ WorkerGoto(w, "released", "free") /\ mu = None
  /\ wproxy' = [wproxy EXCEPT ![w] = None] /\ wctx' = [wctx EXCEPT ![w] = None]
  /\ stopped' = stopped \ {w}
  /\ UNCHANGED <<poolVars, engineVars, procVars, stopCalled>>

\* The goroutine ends; its id, random in the code, can be drawn again.
Deregister(w) ==
  /\ WorkerGoto(w, "released", "free") /\ mu = None
  /\ workers' = workers \ {w}
  /\ wproxy' = [wproxy EXCEPT ![w] = None] /\ wctx' = [wctx EXCEPT ![w] = None]
  /\ stopped' = stopped \ {w}
  /\ UNCHANGED <<poolVars, state, mu, ctxVars, procVars, stopCalled>>

-----------------------------------------------------------------------------
(* The pool changes under the engine: a client imports proxies, and the check *)
(* a client asked for, a goroutine of its own, reports on them one by one.    *)

ProxyImport ==
  /\ known # Proxies /\ AddBulk(Proxies)
  /\ UNCHANGED <<engineVars, procVars, workerVars>>

ProxyCheck(p) ==
  /\ UpdateHealth(p, p \notin dead)
  /\ UNCHANGED <<engineVars, procVars, workerVars>>

PoolChange == ProxyImport \/ \E p \in Checked : ProxyCheck(p)

-----------------------------------------------------------------------------
(* A client goes away: its context, and those derived from it, are done once *)
(* its last request has returned.                                            *)

Disconnect(c) ==
  /\ c \in Connections /\ pc[c] = "idle" /\ ~Done(c)
  /\ done' = done \cup {c} \cup {r \in Runs : parent[r] = c}
  /\ UNCHANGED <<poolVars, state, mapVars, cancel, parent, procVars, workerVars>>

-----------------------------------------------------------------------------
\* A request under way, up to the steps that need workersMu.
CallerStep(c) ==
  \/ StartStore(c) \/ StartDerive(c) \/ SpawnAcquire(c) \/ StartRunning(c)
  \/ StopCancel(c) \/ (\E w \in Workers : StopEach(c, w) \/ ScaleDownEach(c, w))
  \/ StopClear(c) \/ StopEnd(c)
  \/ ScaleUpEnd(c) \/ ScaleDownEnd(c)
  \/ GracefulStopped(c) \/ GracefulEnd(c) \/ StopAgain(c)

CallerLocks(c) ==
  SpawnRegister(c) \/ LockMap(c) \/ ScaleDownLock(c) \/ GracefulDrained(c)

MonitorStep(r) == MonitorTick(r) \/ SpawnAcquire(r) \/ MonitorRespawned(r) \/ MonitorExit(r)

MonitorLocks(r) == MonitorCount(r) \/ SpawnRegister(r)

WorkerStep(w) ==
  \/ CtxExit(w) \/ GivesUp(w) \/ Connects(w)
  \/ ViewerEnds(w) \/ ReleaseProxy(w)

NewRequest(c) ==
  \/ StartCheck(c) \/ StopBegin(c) \/ ScaleUp(c) \/ ScaleDown(c) \/ GracefulBegin(c)

Next ==
  \/ \E c \in Callers : NewRequest(c) \/ CallerStep(c) \/ CallerLocks(c) \/ Disconnect(c)
  \/ \E r \in Runs : MonitorStep(r) \/ MonitorLocks(r)
  \/ \E w \in Workers : WorkerStep(w) \/ Deregister(w)
  \/ PoolChange

Spec == Init /\ [][Next]_vars

\* Goroutines are scheduled.  A viewer is not obliged to fail: it only has to
\* return when its context is done or it was told to stop.  sync.RWMutex queues its
\* waiters, so a process that keeps asking for workersMu gets it.
Fairness ==
  /\ \A c \in Callers : WF_vars(CallerStep(c)) /\ SF_vars(CallerLocks(c))
  /\ \A r \in Runs : WF_vars(MonitorStep(r)) /\ SF_vars(MonitorLocks(r))
  /\ \A w \in Workers :
       /\ WF_vars(WorkerStep(w) /\ (wpc[w] = "active" => Done(wctx[w])))
       /\ SF_vars(Deregister(w))

FairSpec == Spec /\ Fairness

-----------------------------------------------------------------------------
(* Properties.                                                               *)

\* Proxies the engine accounts for: of workers that use one, of spawns under way.
Assigned == ({wproxy[w] : w \in Using} \cup {held[q] : q \in Procs}) \ {None}

\* No two workers (or a worker and a spawn under way) have the same proxy.
ExclusiveProxy ==
  /\ \A v, w \in Using : wproxy[v] = wproxy[w] => v = w
  /\ \A w \in Using, q \in Procs : held[q] # None => held[q] # wproxy[w]
  /\ \A q, s \in Procs : held[q] = held[s] /\ held[q] # None => q = s

\* As long as no worker was ever stopped explicitly, proxies are exclusive and
\* every assigned proxy is marked in use, through starts, scale-ups, respawns,
\* reconnections and cancelled contexts in any interleaving.  (Worker.Stop
\* breaks it: its Release and the goroutine's own are one too many.)
LeaseUntilStop == ~stopCalled => ExclusiveProxy /\ Assigned \subseteq inUse

\* With a token for every worker asked for, no proxy stays marked in use with
\* nobody to release it.
NoProxyLeak == inUse \subseteq Assigned

\* A goroutine that is out of the map, beyond the reach of a later Stop, was
\* told to stop while it was in it.
OrphansWereStopped == \A w \in Live \ workers : w \in stopped

\* The converse: the map lists no worker whose goroutine is gone, so len(map)
\* is what SetWorkerCount and the monitor take it for.
MapIsLive == workers \subseteq Live

\* When Stop has returned and nothing is under way, every goroutine left has a
\* context that is done, so it is on its way out.
StoppedMeansStopped ==
  /\ state = "stopped"
  /\ \A q \in Procs : pc[q] \in {"idle", "unborn", "waiting", "ended"}
  => \A w \in Live : Done(wctx[w])

\* Two workers that nobody stopped never share a proxy.
UnstoppedShareNoProxy ==
  \A v, w \in Using \ stopped : wproxy[v] = wproxy[w] => v = w

\* What Stop says it does: once it has emptied the map, every goroutine that
\* lives ends.
StopEndsWorkers ==
  \A c \in Callers, w \in Workers : (pc[c] = "stopped" /\ w \in Live) ~> wpc[w] = "free"

\* No request waits for ever: neither for workersMu nor for a drain.
RequestsReturn == \A c \in Callers : pc[c] # "idle" ~> pc[c] = "idle"

\* A goroutine whose context is done ends and gives its proxy back.
CancelledWorkersEnd == \A w \in Workers : (w \in Live /\ Done(wctx[w])) ~> wpc[w] = "free"

\* After Stop the engine drains: unless it is started again, no goroutine is
\* left and no proxy is in use.
StopDrains == state = "stopped" ~> (Live = {} /\ inUse = {}) \/ state # "stopped"

\* A live monitor brings an engine that lost all its workers back, as long as
\* the pool has a proxy for it.
MonitorRefills ==
  \A r \in Runs :
    (pc[r] = "waiting" /\ ~Done(r) /\ state = "running" /\ workers = {})
      ~> (Done(r) \/ state # "running" \/ workers # {} \/ Available = {})
=============================================================================
