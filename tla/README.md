# A TLA+ model of MongeBot

MongeBot runs a pool of simulated viewers for a live channel. A worker is one
goroutine that holds one proxy and one token and keeps a platform viewer
connected. The engine spawns, respawns, scales and stops workers; a proxy manager
lends the proxies; an API server drives the engine for a desktop client, and
`main` stops it on a signal. A multi-channel engine keeps one engine per channel, and
a scheduler starts and stops those by rules. This directory models the concurrent core of that
program and the services around it (tokens, restream, log and broadcast, circuit breaker,
rate limiter, the loops of the Twitch and Kick viewers, profiles, configuration, vault,
database), checks them with TLC and proves their safety properties and refinements with TLAPS.

Paths below are relative to the repository; `engine.go` and friends are in
`internal/engine/`.

## 1. Inventory

| component | state | operations | used by |
|---|---|---|---|
| proxy pool (`internal/proxy/manager.go`, `types.go`) | list of proxies with health, latency, use count; `inUse` keyed by `Raw()`; strategy; round-robin index; all under one mutex | LoadFromFile, AddBulk, Acquire, Release, UpdateHealth, SetStrategy, Count | engine, checker, API, validator |
| proxy checker (`internal/proxy/checker.go`) | none | CheckAll: works on a copy of the list and reports by UpdateHealth | API |
| engine (`engine.go`, `worker.go`, `shutdown.go`) | atomic `state`; map of workers under `workersMu`; `cancel` of the latest Start; target of each monitor | Start, Stop, SetWorkerCount, GracefulShutdown, spawnWorker, monitorLoop | API, main, multi-channel engine |
| reconnecting viewer (`reconnect.go`, `fsm.go`) | current inner viewer, displayed state, attempt counter | Start (a loop), Stop | worker goroutine, Worker.Stop |
| platform viewers (`internal/platform/*/viewer.go`) | `cancel`, one goroutine per loop, buffered `errCh`; what the set-up learnt (broadcast, user, stream URL, spade URL) | Start, Stop; heartbeats, liveness, point claims | reconnecting viewer |
| socket clients (`twitch/pubsub.go`, `chat.go`, `ads.go`) | connection, pinger, messages not yet read; per ad watcher the ads it has met | Connect, readLoop, pingLoop, Watch | Twitch viewer |
| API server (`internal/api/`) | connections; per connection a context and one request at a time | handlers that call the components | client |
| multi-channel engine (`multi.go`) | map of engines under a lock | StartChannel, StopChannel, StopAll | scheduler, API |
| scheduler (`scheduler.go`) | rules; per rule the cancel of a watcher, which has its own `wasLive` or `engineRunning` and timers | AddRule, RemoveRule, Start, Stop, the watchers | API, main |
| token manager and validator (`internal/token/`) | tokens with state and error count; `tokens.txt` | AddBulk, Quarantine, ReportError, both ValidateAll | main, API |
| restreaming (`internal/stream/ffmpeg.go`) | command, cancel and state of the latest run; one goroutine per run | Start, Stop, restart of a loop | API |
| log ring and broadcast (`internal/logger/ring.go`, `api/server.go`) | circular buffer, subscribers' channels; map of clients under an RWMutex | Push, All, broadcast, connect, leave | logger, API |
| API token buckets (`api/middleware.go`) | per client tokens and `lastCheck` | Allow, cleanup | none yet |
| circuit breaker (`pkg/netutil/circuitbreaker.go`) | state, counts, time of the last failure | AllowRequest, RecordSuccess, RecordFailure, Reset | none yet |
| profiles (`internal/account/`) | list with one active flag; JSON file | Create, Delete, SetActive, Duplicate, Import, load | main, API |
| configuration (`internal/config/`) | one struct, shared; JSON file | Load, environment overrides, Save, `config.set` | main, API |
| vault (`internal/vault/`) | tokens; encrypted file with a salt | Open, AddToken, RemoveToken, SetTokenValidity, Save | none yet |
| sessions (`internal/storage/`, `persistence.go`) | SQLite tables of profiles, sessions, snapshots; the persister's session id and loops | StartSession, EndSession, snapshots, cleanup | main |

`PROJECT.json` lists these and the remaining parts, each with its status.

**How they interact.** A request runs in the goroutine of its connection, with the
connection's context; a connection serves one request at a time. `Start` derives
the run's context from the request's, so the run ends with the connection.
`SetWorkerCount` gives the *request's* context to the workers it adds.
Worker goroutines and monitors run beside the callers and share the engine's
map, the atomic state and the pool. `Worker.Stop` is called under `workersMu`;
it stops the current inner viewer and releases the proxy, while the
goroutine that owns the proxy is still running and will release it again when it ends.
The validator borrows proxies from the engine's pool. A restream runs on the context of the
request that asked for it, and its restarts on children of that. The services otherwise
share no state with the engine or with one another.

**What is hard.** Check-then-act over a dropped lock (scaling, monitor); Stop
replacing the map under spawns and deregistrations; two parties releasing one
proxy; contexts with different owners; a stop that falls between `Connect` and the
start of the viewer; results that nobody receives any more; a drain timeout that
passes while workers are still ending. In the services: answers written over what changed
while the request was out; goroutines of an old run that meet the state of a new one; loops
left behind by a viewer that has returned; writers of one file that do not exclude each
other; writes cut by a crash. `PROJECT.json` lists every such hazard
at its line with the properties that cover it, or why none does.

**What makes each component correct.** Pool: an endpoint is lent once, and lending
obeys health. Engine: proxies are exclusive and not lost, the map and the
goroutines agree, Stop ends what it stops, requests return, the monitor refills.
Reconnecting viewer: it gives up neither early nor never, ends when cancelled,
leaks no goroutine, and shows a state that fits what it does. Scheduler and
multi-channel engine: the channel runs when its rule says so, and one channel's
start does not stop the others. Tokens: what is handed out has few errors, is in the file
and keeps no proxy. Restream: Stop reaches the process, and the state shown fits what runs.
Log and broadcast: the history is the last entries in order, and nobody hangs. Viewers: they
report the broadcast they watch, end with their stream and with their context, and keep no
connection. Stores: memory, file and database agree, and nothing goes that nobody removed.

## 2. Modules

| module | models |
|---|---|
| `ProxyPool` | what the pool promises: abstract specification, and the operations `Engine` uses |
| `ProxyManager` | the proxy manager in detail; implements `ProxyPool` |
| `Engine` | callers, monitors and worker goroutines over `ProxyPool` |
| `WorkerLoop` | what `Engine` takes one worker goroutine for: abstract specification |
| `ReconnectingViewer` | one worker in detail, with its viewers, loops and stops; implements `WorkerLoop` |
| `MultiEngine` | the engines of several channels, each abstracted to the context it was started with |
| `Scheduler` | rules, watchers, timers and the clients that drive them, over `MultiEngine` |
| `Tokens` | the token manager, its file, both validators, over `ProxyPool` |
| `Restream` | the ffmpeg manager and the goroutines of its runs |
| `LogBroadcast` | the log ring, its feed, and the broadcasts to the map of clients; implements `BoundedLog` |
| `BoundedLog` | what a log of fixed capacity promises: abstract specification |
| `CircuitBreaker`, `RateLimiter` | the breaker with its callers; the API's token buckets |
| `TwitchSocket` | a PubSub or chat client, its pinger and its ad watchers |
| `TwitchSession` | set-up, heartbeats, liveness and point claims of a Twitch viewer |
| `KickViewer` | a Kick viewer in detail; implements `ViewerLife` |
| `ViewerLife` | what `ReconnectingViewer` takes one viewer for: abstract specification |
| `FileWrites`, `SavedFile` | what `os.WriteFile` does; a document and the file several writers save it to |
| `Profiles`, `AppConfig`, `Vault` | the stores that keep a file |
| `Sessions` | the SQLite tables and the persister |
| `ProxyManagerProofs`, `EngineProofs`, `ReconnectingViewerProofs`, `SchedulerProofs`, `TokensProofs` | theorems about the module of that name |
| `ViewersProofs` | theorems about `KickViewer`, `TwitchSession` and `TwitchSocket` |
| `ServicesProofs` | theorems about `Restream`, `CircuitBreaker`, `RateLimiter`, `LogBroadcast`, and about all services together (`MCServices`) |
| `StoresProofs` | theorems about `Profiles`, `AppConfig`, `Vault`, `Sessions`, and about all stores together (`MCStores`) |
| `MCProxyManager`, `MCEngine`, `MCReconnectingViewer`, `MCScheduler`, `MCServices`, `MCStores` | instances for TLC |

The abstract specifications are the seams. `Engine` is written over
`ProxyPool` (so it holds for every rotation strategy), and `ProxyManager` is shown
to implement it; `Engine` describes a worker by the actions of `WorkerLoop`, and
`ReconnectingViewer` is shown to implement those. Thus the detail of one side
never multiplies with the detail of the other. `ReconnectingViewer` in turn knows a viewer by
the actions of `ViewerLife`, which `KickViewer` implements. `MultiEngine` takes of `Engine` only that Stop
and the end of the run's context end its workers; what `Engine` says against that
(workers of a scale-up) is not repeated there.

### ProxyPool and ProxyManager

Every manager method holds the mutex throughout, so a method is one action. A proxy
is a value of `Raw()`, the key of `inUse`. In `ProxyManager` the list holds objects:
the file may name an endpoint twice, and then two objects share a key; `Selected`
is what each strategy may pick (`sort.Slice` is not stable, so ties are open).
`lent` is a history variable: the objects acquired and not yet released. Release
is called by holders only, once each; that the engine does *not* always keep to
this is a finding of `Engine`, which is built on the pool's unchecked Release.
Latency keeps the two values that order the strategy `fastest`; parsing, URL
formatting and locks are left out.

### Engine

A step is what runs between two accesses to state others see.

| code | model |
|---|---|
| `Start` | `StartCheck` (the state test, where a Starting or Stopping engine passes), `StartStore`, `StartDerive` (context and `e.cancel`), `SpawnAcquire`/`SpawnRegister` per index, `StartRunning` (the final store and the monitor's goroutine) |
| `spawnWorker` | `SpawnAcquire` up to the token lookup, with both early returns; `SpawnRegister` from there |
| `Stop` | `StopBegin`, `StopCancel`, `LockMap`, `StopEach` per worker, `StopClear`, `StopEnd` |
| `SetWorkerCount` | `ScaleUp` and `ScaleDown` read the count; then spawns and `ScaleUpEnd`, or `ScaleDownLock`, `ScaleDownEach`, `ScaleDownEnd` |
| `MultiGracefulShutdown` | `GracefulBegin`, `LockMap`, `StopEach`, `GracefulStopped`, `GracefulDrained` (map empty or timeout), `GracefulEnd`, then `StopAgain` and the rest of Stop |
| `monitorLoop` | `MonitorTick`, `MonitorCount`, spawns, `MonitorRespawned`, `MonitorExit` |
| worker goroutine | `CtxExit`, `GivesUp`, `Connects`, `ViewerEnds`, then the deferred `ReleaseProxy` and `Deregister` |
| `Worker.Stop` | `WorkerStop`: a viewer that runs is told to end; the proxy is released |
| API | `Request` (one at a time, connection open), `Disconnect`, `ProxyImport`, `ProxyCheck` |

`mu` is set only where the lock is held over several steps (the loops that call
`Worker.Stop`); critical sections of one step test it. `stopCalled` is a history variable.
Between `Connect` and `viewer.Start`, a stop is lost in the code; in `Engine` that is
`Told` not happening for a worker in `"loop"`.

### ReconnectingViewer

The runner (`Poll`, `ConnectFails`, `ConnectSucceeds`, `ViewerStarts`, `SetupFails`,
`SetupSucceeds`, `ViewerReturns`, `AfterViewer`, `Backoff`), the loops of all viewers
created so far (`LoopEnds`), a caller of Stop (`StopForces`, `StopInner`) and whoever
cancels the context (`Cancel`). `armed` says for which viewers `v.cancel` is set,
so that a stop that comes too early does nothing. `fails` counts attempts in a row
that never got a viewer active, independent of the code's own `attempt`;
`gaveUp` and `stopCalled` are history.

### MultiEngine and Scheduler

A method of `MultiEngine` holds the lock for its whole body, the Start or Stop of the
engine included, and is one action. `alive` says which engines work; `engines` is the map.
`CancelContexts` is what the end of a context does: workers end, the map entry stays.

| code | model |
|---|---|
| `AddRule`, `RemoveRule`, `Scheduler.Stop` | actions of that name; the last two call the stored cancels |
| `Scheduler.Start` | `Start` copies the rules and drops the lock; `StartRule` is one turn of its loop |
| `watchStreamLive` | `StreamTick` (a poll that finds a change), `LiveStart` with the timer, `OfflineStop` |
| the timer goroutine | `TimerFires`, `TimerCancelled` |
| `watchSchedule` | `ScheduleTick` (reads the clock), `ScheduledStart`, `ScheduledStop` |
| the done branches | `WatcherEnds` |
| API, connection | `Request`, `MultiStart`, `MultiStop`, `MultiStopAll`, `Disconnect` |

A tick and the call it leads to are two steps, since what was read is old when the call
gets the lock. A watcher's context is a name, `Watchers`; it descends from the client whose
request called Start, so `Disconnect` ends it too. `main` also calls Start, but before any
rule exists, which does nothing. `rules` is a set: ids are taken to be unique, and the
order of Start's loop is left open. The clock is weekday and minute; both it
and the streams change at any time, also between a read and its use.

### Tokens

Each method of the manager is one action, since it holds the mutex; `Manager.ValidateAll` is two
(`RecheckAsk`, `RecheckAnswer`), since it asks the platform without it. `AddTokens` leaves behind a
goroutine that appends to the file (`AppendLine`, `AppendFails`). A job of the validator goes through
`SpawnCheck` (semaphore), `CheckVia` (a proxy, or none), `CheckAnswer` and `CheckEnd` (the deferred
Release and the slot). `Restart` is a crash or a shutdown at any moment: the file is read, and
what was read is appended again. `Acquire` and `Release` of tokens have no caller.

### Restream

`StreamStart` and `StreamStop` are the two methods. The goroutine of a run is `Launch` (which reads
`m.cmd` without the lock), `ProcessEnd` or `ProcessKilled`, `Outcome` and, for a loop, `StartAgain`. A run
is a member of `Runs` that is used again when nothing refers to it. `hasty` is history: a
Stop found goroutines that have not yet finished.

### LogBroadcast, CircuitBreaker, RateLimiter

`Store` and `Offer` are the two critical sections of Push. `CastLock` to `CastUnlock` is `broadcast`, for
its two callers; `EnterOrLeave` is the write lock around the clients' map. The lock is Go's: a
writer that waits keeps new readers out, and its unlock lets in those that wait.
In `CircuitBreaker` the guarded function runs between `AllowRequest` and
`Return`; a call that began while the service was down may fail. `RateLimiter` counts time in ticks;
`credit` is history: what the advertised rate would still allow.

### TwitchSocket, TwitchSession, KickViewer

Three sides of a viewer. `TwitchSocket`: `DialEnds`, `GreetEnds`, then a reader that polls its context, reads and
handles a message; an ad event runs `Watch` (`WatchSees`, `WatchSeesEnd`, `WatchGivesUp`) in the reader.
`TwitchSession`: the four requests of the set-up, the first event, then one action per wait,
request and answer of the heartbeat, liveness and claim loops; `SocketLost` stands for `TwitchSocket`'s
clients. The segment and pulse loops change counters only. `KickViewer`: look-up, both
loops and `errCh`; `ImplementsViewer` maps it to `ViewerLife`. Platform, channel and server
are the environment; a request is answered or fails, and always fails once its context is done.

### FileWrites, SavedFile, Profiles, AppConfig, Vault, Sessions

`os.WriteFile` empties a file and then writes it; a crash or an error in it leaves the file as it was,
empty or cut. `Profiles` holds its lock over the save, so each operation is one action with each outcome of the
write. `AppConfig` and `Vault` do not: they take the steps of `SavedFile` (`Encode`, `Truncate`, `Fill`, `WriteFails`)
per caller. `config.set` reads the live struct, merges, decodes back field by field and saves, without any lock.
`Vault` also tracks whether the salt in the header gives the key the data is encrypted with. AddToken appends whatever is there, so an id may have several entries: RemoveToken drops
all of them, SetTokenValidity changes the first; the order of entries of different ids is left out. In `Sessions` a
statement runs on a connection with foreign keys or on one without; `strayed` is history.
`unsure` is history too: a save overlapped another or failed.

### MCServices and MCStores

The services share no state, so composing them would multiply their states and add
no behaviour. Each behaviour of `MCServices` runs one of them, drawn at the start, and the others
stay as they are; the same for `MCStores`. One run so checks each of them completely.

## 3. Runs

| run | instance | shows |
|---|---|---|
| `proxy_manager` | 2 endpoints, up to 3 entries, 2 leases, use counts to 2 | `CountsAddUp`, `OneLeasePerEndpoint`, and `ImplementsPool`: refinement of `ProxyPool` |
| `engine_api` | a client that starts and scales and may leave, main that stops; 2 workers, 2 proxies, 2 tokens, targets 1 and 2, one Start; no fairness | `LeaseUntilStop`, `NoProxyLeak`, `OrphansWereStopped`, `MapIsLive` |
| `engine_live` | one caller that starts, stops, shuts down gracefully and may go away; a proxy that is imported, dies and recovers; 2 workers, target 1 | `StoppedMeansStopped`, `RequestsReturn`, `CancelledWorkersEnd`, `StopDrains`, `MonitorRefills` |
| `engine_exclusive` | as `engine_api` | finding: `UnstoppedShareNoProxy` is violated |
| `engine_stop` | one caller that starts, scales and stops | finding: `StopEndsWorkers` is violated |
| `reconnecting_viewer` | 2 loops, `errCh` of capacity 2, 3 viewers, MaxAttempts 1, reconnection on or off | `LoopsNeverBlock`, `NeverGivesUpEarly`, `FinishedIsNotActive`, `OnlyRetryLeavesTable`, `EverythingEnds`, `StoppedViewerEnds`, and `ImplementsWorkerLoop`: refinement of `WorkerLoop` |
| `reconnect_attempts` | the same with a Connect that never fails, as in the three providers | finding: `AttemptsBounded` is violated |
| `scheduler` | 2 clients, one channel, a live rule with a max duration and a night rule, 2 watchers | `ListedWhileAlive`, `RunIsRemembered`, `LimitedRunHasTimer`, `UntrackedOnlyByRestart` |
| `scheduler_live` | 1 client, 1 watcher, three rules: live, live with a max duration, night | `OfflineRunsStop`, `ScheduledRunsStop`, `CancelledWatchersEnd` |
| `scheduler_stop` | 1 client, 2 watchers | finding: `StopCancelsAll` is violated |
| `services` | one of eight services, see below | `TokensSafe`, `OutcomesFit`, `ViewersSafe`, `ServicesProceed`, and `ServicesImplement`: refinement of `BoundedLog` and `ViewerLife` |
| `stores` | one of four stores, see below | `ProfilesSafe`, `StoresAgree`, `StoresKeep` |

Every property of a passing run has a mutant (`PROJECT.json`, operators
commented "Mutant" beside what they change): a plausible bug in the code under which
that run fails.

**What `services` and `stores` show.**

| property | parts |
|---|---|
| `TokensSafe` | `UsableHasFewErrors`: a valid token is below the error threshold, whatever order reports, quarantines and late answers come in; `PoolIsBacked`: a restart loses only tokens whose append was pending or failed; `ProxiesHeldByChecks`: validations leak no proxy and share none |
| `OutcomesFit` | `LiveIsBacked`, `StopReachesProcess` (a process out of Stop's reach, or a second one, takes an earlier Stop whose goroutines have not finished); `CountsFitCircuit`; `NeverOverRate` |
| `ViewersSafe` | `OnlyReconnectLeaks` (only RECONNECT leaves a connection without its reader), `AdsCounted`; `OneLoopLeft` (a Kick viewer has a loop left that ends it); `BroadcastMatches` (heartbeats name the broadcast watched, unless the channel restarted during the set-up) |
| `ServicesImplement` | the ring is a log of the last `Cap` entries; a Kick viewer lives as `ReconnectingViewer` assumes |
| `ServicesProceed` | validations end; a restream whose context is done does not stay live; nobody hangs on the log's and the clients' locks; the circuit closes when the service works again for good; sockets and loops end with their viewer; a request to reconnect is heeded; a viewer without a stream returns; a bonus that stays is claimed |
| `ProfilesSafe` | ids are unique and at most one profile is active, in memory and in the file |
| `StoresAgree` | configuration and vault are in their files unless saves overlapped or failed (or an update was refused); references in the database hold unless a statement ran without foreign keys |
| `StoresKeep` | an unreadable profile file is not overwritten; a session that is open, or ended after the day of the cutoff, stays with its snapshots unless its profile goes |

**Bounds and why they suffice.** `Runs` bounds calls of Start; `Workers` the
goroutines alive at one time, not those created: an id is drawn again after its
goroutine has ended, as the code draws random ids. Two workers and two proxies are the
least for a double release to hurt; two targets make scaling go both ways.
A spawn that finds no free id waits for one: this delay is an artifact of the
bound and only removes behaviours. With one Start, a second Start of the engine is
not explored by TLC; the proofs of the safety invariants are for any number.
In `ProxyManager` three entries over two endpoints force a duplicate; use counts and
the round-robin index stop at `MaxUse`. Three viewers let a loop of the first meet
the third. `errCh` of twitch has 8 places for 7 loops and that of kick 3 for 2; the
instance takes exactly as many places as loops, the tightest case. In `Scheduler`,
`Watchers` bounds the watchers of all Starts together: two are a restart of one rule, or two
rules that compete for the channel. `MaxTimers` of two lets the timer of one live period
meet the next. The clock has two days of two minutes, and the night rule starts in the
last minute of the one weekday it allows and stops in the first, so that its stop falls on
a day the filter skips. Clients and watchers are symmetric; which unborn watcher a
new context takes makes no difference.

In `services`: two tokens and a semaphore of one slot make one job wait for another; one proxy makes
one job go without; the threshold of errors is 1, so that each report matters. Two runs
of the restream are an old goroutine and a new run; the run bound makes a third Start wait, which removes
behaviours only. Two entries in a ring of two with a feed of one wrap and overflow;
one connection and two broadcasting goroutines already make a writer wait for readers and readers for a writer.
Two callers of the breaker are a late result and a trial; two keys show that buckets are
independent, and four ticks let one go stale. Two ads, one ad event and two waiting messages let an ad begin while
another was watched and RECONNECT wait behind it (`MaxWatches`, `MaxInbox`). Two broadcasts are a restart.
In `stores`: two profiles of five ids (what two imports may need), two clients of
the configuration with two fields, two users of the vault and two tokens with up to two entries each
(`MaxEntries`), two sessions (`MaxSessions`). Clients, vault users and tokens are symmetric.

**Deadlock.** `CHECK_DEADLOCK FALSE` in the engine's configurations, where the system
may stop: the client has gone, main has nothing left to do, or all Starts of the
bound are used; and in the viewer's, where Start has returned and its loops
have ended; and in `MCServices.cfg`, where a viewer that has returned, with its loops, has stopped.
`MCStores` checks deadlock. `MCProxyManager` checks deadlock, and so do the scheduler's configurations, where
it says little, since the clock always ticks. That nobody waits for ever is
`RequestsReturn`.

**Fairness.** Goroutines are scheduled: weak fairness for a caller inside a request,
a monitor, a worker and the runner. New requests, disconnections, health reports,
stops and cancellations are owed by nobody. `sync.RWMutex` queues its waiters, so steps that need
`workersMu` have strong fairness. A viewer need not ever fail: a worker with a
running viewer is fair only when its context is done or it was told to stop,
since every loop of a viewer selects on its context (`twitch/viewer.go`), and a
loop goroutine only when its context is done. The ticker of the monitor fires
for ever, hence weak fairness of `MonitorTick`.

In `Scheduler` the clock runs and timers fire (weak fairness), and a watcher with a call to
make makes it. Polls of the status may fail; weak fairness of `StreamTick`
says that some poll succeeds while the change lasts. A watcher looks at the time every
30 seconds and may sleep through a minute, but not through the same one every week:
strong fairness of `ScheduleTick`. A `select` with two ready branches picks
either, so that the done branch is taken in the end: strong fairness of `WatcherEnds`.
Nobody owes a request, a disconnection or a change of a stream.

In `MCServices` weak fairness drives goroutines that can run, and requests, processes and timeouts
end. Writers of the clients' lock have strong fairness, as `sync.RWMutex` serves its waiters. A `select` that is offered
the end of its context again and again takes it; of requests repeated for ever one is
answered as the platform is: strong fairness of the ends of loops, of the liveness
answer and of the claims (`Served`, `EndsOnce`). Each of these ends happens once in a behaviour, or
for one service only, so a few conditions on their disjunction say the same as one for each.
Callers of the breaker go on calling. Nobody owes a bonus, a broadcast, an import, a Stop or a
message. `MCStores` states no liveness.

## 4. Findings

1. **A proxy is released twice** (`engine_exclusive`). `Worker.Stop`
   (`worker.go:20`) releases a proxy its goroutine still uses; the goroutine's deferred
   Release (`engine.go:252`) comes later and may free what another worker has acquired
   meanwhile. Two workers that nobody stopped end up on one proxy.
2. **Workers of a scale-up survive Stop** (`engine_stop`). Their context is the
   request's (`engine.go:147`), Stop cancels the run's, and the viewer
   that Worker.Stop ended is replaced by a reconnect.
3. **MaxAttempts does not limit fruitless attempts** (`reconnect_attempts`).
   `attempt` is reset by Connect (`reconnect.go:100`), which cannot fail in the three
   providers; the failures come afterwards. The give-up branch at
   `reconnect.go:118` is dead and the backoff never grows.
4. **Stop does not reach every watcher** (`scheduler_stop`). "Stop cancels all running
   schedule monitors." (`scheduler.go:118`), but a second Start overwrites each stored
   cancel (`scheduler.go:104`), and the first watchers go on. `UntrackedOnlyByRestart` shows
   that this is the only way to lose one.

Other behaviour of the code that the model has, and which no text of the
repository contradicts: a respawn of an index beyond the tokens keeps its proxy for
good (`engine.go:220`; excluded from `NoProxyLeak` by its assumption); Stop during Start is
overwritten by Running, and a second Start forgets the first one's cancel; after
the client of a run has left, the engine is Running without a monitor; a stop
between Connect and viewer.Start is lost; the other loops of a viewer that returned
run on until the worker's context is done; after a drain timeout the map is
cleared without a word to workers registered in between; the monitor can give
one token index to two workers, since it counts on from the size of the map. An engine
whose context has ended stays in the map of channels, and its channel is refused as running
until somebody stops it; a watcher whose StartChannel was refused still stops the channel
when the stream ends; the max-duration timer of one live period may end the next run
early; the weekday filter also skips a stop; and a rule removed while Start works on its copy
gets a watcher all the same, which Stop does reach.

Of the services: after a Stop and a quick Start, the old goroutine of the restream may run the new command
or write its state, and a further Start may leave a process Stop does not reach. A good answer that
comes late lifts a quarantine. An import that has been answered is lost if the program ends before
its append; each start appends the whole token file to itself once more. `RateLimiter.Allow` stamps `lastCheck` on
refused calls too, so a client that polls faster than the interval never earns a token. RECONNECT leaves the connection
open until its pinger ends with the viewer. An ad whose end is seen counts twice (`ads.go:84`). A heartbeat counts
whatever is answered, and the spade URL is kept for good. A token that the platform answers with no user, other than
401, leaves the viewer anonymous. A channel that restarts between the requests of a set-up
gives heartbeats of a broadcast the viewer does not watch. The Kick viewer keeps its playback URL.

Of the stores: SetActive of an unknown id deactivates every profile in memory. An archive that names one id twice
gives two profiles with it. After an unreadable profile file the program runs without a manager and its handlers fail. An old
configuration file makes `Load` panic (`config.go:126` passes no logger). Values of flags and the environment are saved by
the next `config.set`, and a refused `config.set` leaves what it had decoded. `Vault.Save` writes a new random salt while the
key stays that of the old one, so a vault saved after a change cannot be opened again; nothing opens a vault
yet, and a token that is added twice has two entries, of which SetTokenValidity reaches the first only. Foreign keys are on for the first connection only; as no code but the tests fills the
table of profiles, with them on a session of a configured profile cannot be inserted. EndSession and
CleanupOldSessions have no caller; an ended session keeps getting snapshots; and the cleanup compares two formats of time
as text, so that what ended on the day of the cutoff counts as older.

## 5. Proofs

Every invariant and every action property that a passing run checks is a theorem, and so are
the refinements. They hold for all constants that satisfy the assumptions of the modules
(`ManagerConstants`, `EngineConstants`, `TokensAssumption` and so on): any number of proxies, leases,
callers, runs, workers, viewers, loops, attempts, channels, rules, watchers, tokens, clients,
profiles and sessions. What the assumptions say beyond the kind of each constant:
`ProfilesAssumption` asks for more ids than a list and an archive use, since the code draws
an id of eight random bytes and takes it to be new (of `n` ids, an import of `m` profiles needs at most
`n + m`); `RateAssumption` that five minutes, after which the cleanup forgets a bucket, are enough to fill it,
which `NewRateLimiter` leaves to its caller (with a slower refill the cleanup would hand out a full bucket too
early); `SocketAssumption` that there are finitely many ads to count.

**Pool.** `OneLeasePerEndpoint` is inductive relative to `TypeOK`: Acquire picks an
object whose endpoint is not in `inUse` (whatever the strategy, `SelectedIsAvailable`), and
`inUse` is exactly the endpoints of what is lent. `CountersAddUp` follows by counting: lent and
available objects are disjoint, and each endpoint in use has a lent object. `IsPool` proves
the refinement of `ProxyPool` action by action; the one that is not obvious is
UpdateHealth, since an endpoint is dead only when every object that names it is.

**Engine.** `TypeCorrect` is by the type invariant alone; the one step with
arithmetic in it is that a scale-down never computes a negative number. `UsesPool`: each step of
the engine is a pool operation or leaves the pool alone. `LoopsHoldLock`: a process in
a loop over the map owns `mu`. `MapListsLive`: an entry is added with its goroutine and removed before its id
is free. `ExclusiveUntilStop`: `LeaseUntilStop` is inductive relative to
the type invariant: while nobody has called Worker.Stop, Acquire hands
out only what is not in `inUse`, which contains everything assigned, and a Release is
the owner's. `NoProxyIsLost` assumes targets at most `NumTokens`; it needs the
strengthening `WithinTokens` (no spawn loop goes beyond the last target), so that the early
return at `engine.go:220` is never taken. `OrphansStopped` assumes that no caller
shuts down gracefully (whose timeout may drop workers nobody told); it needs that
what a finished loop leaves in the map has been stopped, for which the loop's `todo` and the
lock holder are related (`StoppedSoFar`, with `LockHeld` and `NoDrain`).
`StopLeavesNothing` proves `StoppedMeansStopped` for behaviours in which no request begins while
another is under way (`OneAtATime`) and nobody scales; without the first a Start may overwrite what a
Stop left (`engine.go:115`, and `:103` for two Starts), without the second a worker has the context
of the request that scaled, which no Stop ends. Its invariant, `SequentialInv`, is said of the
caller whose turn it is: of all that has begun, the context is the one `cancel` would
end, or is done (`RunsCancellable`), and `cancel` may be forgotten or left behind only when
it has been called (`OverAfterStop`). The monitors are free: one may respawn workers while Stop runs
and after it, on a context that is done.
`UsesWorkerLoop` joins the two levels from above, as `IsWorkerLoop` does from below: a worker is born at the
top of its loop, takes steps of `WorkerLoop` only, and leaves it exiting. Its context may be done at
its birth already, which in `WorkerLoop` is a first step.

**ReconnectingViewer.** `SendsDoNotBlock` assumes that `errCh` has room for all loops:
each result stands for a loop that has ended. `GivesUpLate` relates the code's `attempt` to the history
`fails` at every program point. `FinishedIsShown` and `FollowsTable` tie the displayed state to the
program counter, as long as no Stop interferes for the second. `IsWorkerLoop`
proves the refinement: initial states map to initial states and every step is a step of
`WorkerLoop` or a stutter. `ViewersLive` does the same for what it asks of a viewer: each one created, the
replaced ones included, lives a `ViewerLife`; `KickIsViewer` is the other side of that seam.

**Scheduler.** `UsesEngines`: each step is an operation of `MultiEngine` or leaves it alone,
and `AliveIsListed` follows from that module alone. `RunsAreRemembered`, `LimitedRunsEnd` and
`RestartsLoseWatchers` come from one inductive invariant, `WatcherInv`: the three
properties, that a context in the map belongs to a watcher that was born, that a
live watcher about to start has its flag off (else a start could clear what it should
remember), and that an entry of `running` is a watcher of that rule.

**Tokens.** `TokensInv` adds to `TokensSafe` that what is not loaded has no errors, that a check
is about a token that is loaded (so that a late answer never brings one into the pool unbacked),
and that a check holds a proxy only between the request and the deferred Release. A check takes what is
not in `inUse`, which is exactly what checks hold, so no two hold the same.

**Viewers.** `KickLeavesOneLoop` and `KickIsViewer` rest on `KickInv`: until the context is done, a loop
ends with an error only, so the loops left are those that did not fail, and a result waiting in `errCh`
is a failed loop's. `HeartbeatsMatch` follows the set-up request by request (`TwitchInv`: from
the metadata on there is a broadcast, from the playlist on the stream is its stream, unless the channel
changed). `SocketsAreSafe` counts: a watcher's number is that of the ads it met
(`WatcherCounts`), and the watches that were and the ad events waiting stay within the bound
(`WatchesFit`), which needs the ad events of a queue counted over its tail and what is appended.

**Restream, breaker, buckets, log.** `StreamsAreSafe`: only the goroutine of the latest run is active unless a
Stop was hasty, and only while the stream is live; each process has a goroutine that waits for it
(`StreamInv`). `BreakerIsSafe` is inductive with the types. `RateIsKept` needs the accounts: the
credit pays for the tokens of a bucket and for the time since its last call (`Paid`), where whole
intervals are rounded down, so a call never finds more in the bucket than is paid for, and a cleanup
forgets a bucket only when the time pays for a full one. `BufferIsLog`: the entry at
position `i` is at `(head - size + i) % Cap` (`EntriesInOrder`), so a push appends one and, when the
buffer is full, drops the oldest; hence the refinement of `BoundedLog`.

**Stores.** `ProfilesAreSafe` is inductive over what each request makes of a list: it adds one with a new
id, drops one, activates one in place of the others, or imports, with a new id for each that is taken (there
is one, by the assumption on ids, and the choice made at once is an injection). `UnreadFileIsKept`: what a start could not
read is not managed. `ConfigIsBacked` and `VaultIsBacked` share their argument, `SaverAlone`: while
no saves overlapped and none failed, one writer at most is saving, its draft is what is in
memory, the file is empty once it has been truncated, and a difference between the two has somebody on the way
to save it. `SessionsAreLinked` adds that ids are unique and not yet to be given (AUTOINCREMENT), so
a statement hits one session, and `RecentSessionsAreKept` that updates work in place and that a delete takes
only the rows it selects, with their snapshots.

**Compositions.** `MCServices` and `MCStores` are what the runs check. `EachService` and `EachStore`
show that a behaviour of the composition is, seen from each part, one of that part (it begins
as its module says and takes its steps or none), so the theorems of the parts carry over:
`ServicesTypeCorrect`, `TokensStaySafe`, `OutcomesAlwaysFit`, `ViewersStaySafe`, `ServicesAreImplemented`,
`StoresTypeCorrect`, `ProfilesStaySafe`, `StoresAlwaysAgree`, `StoresAlwaysKeep`.

**Left to TLC.** Liveness (`RequestsReturn`, `CancelledWorkersEnd`, `StopDrains`, `MonitorRefills`,
`EverythingEnds`, `StoppedViewerEnds`, `OfflineRunsStop`, `ScheduledRunsStop`, `CancelledWatchersEnd`,
`ServicesProceed`), whose fairness conditions need ENABLED, which the prover does not reason about; and
the findings, which are counterexamples.

## 6. Plan

Done: pool, engine, viewer, multi-channel engine, scheduler, services and stores with their runs, and the
theorems for every invariant and action property of those. What is left:

1. The seams that are only described so far: `Tokens` between two restarts as a user of `ProxyPool`, as
   `UsesPool` has the engine; an engine whose requests do not overlap and do not scale as what `MultiEngine`
   takes it for.
2. `TwitchSession` as a `ViewerLife`, with its loops as the model has them.
3. What a crash leaves of a saved file, as action properties of `Profiles`, `AppConfig` and `Vault`.

## 7. Not modelled

The content of messages, parsing, formatting, logging and metrics (pure input and output); the
encryption (a library call); fingerprints, user agents and behaviour profiles
(random data); time itself: delays and timeouts are nondeterministic. The command line client
and the frontend keep no state the program depends on.

No module has: the event bus, to which nothing subscribes (`multi.go` publishes); the tracker of 429 answers in
`engine/ratelimit.go`, which the engine creates and never asks (its `Stats` takes its read lock twice, which would hang beside a
waiting writer); the notifier, created but never told to watch; webhooks, one request per event over a list; the proxy
extras (geo fills one field, scraper and chain have no caller); drops and search of Twitch, one request each; the
YouTube provider, a stub that waits for its context; the registry, filled at start; quality selection,
segment downloads and the GraphQL pulse of the viewers, which change counters only; the proxy checker's semaphore;
configuration migrations; queries, exports and metrics endpoints, which only read. The validator shares the pool with
the engine; each is checked over `ProxyPool` by itself, and that they do not disturb each other is what
the pool's own operations say.
