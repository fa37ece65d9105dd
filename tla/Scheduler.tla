----------------------------- MODULE Scheduler -----------------------------
(***************************************************************************)
(* The scheduler (internal/engine/scheduler.go) over the channel engines,  *)
(* and the API clients that drive both (internal/api/handler_scheduler.go).*)
(* Each watcher is a goroutine with a context of its own, derived from the *)
(* context of the client whose scheduler.start created it: main starts the *)
(* scheduler too, but before any rule exists.  What a watcher reads (the   *)
(* stream's status, the time of day) is old when it acts on it, and others *)
(* start and stop the same channel.                                        *)
(***************************************************************************)
EXTENDS MultiEngine, Naturals, FiniteSets

CONSTANTS
  Clients,      \* API connections
  Watchers,     \* watcher contexts (bound: rules started, over all Starts)
  Rules,        \* rule ids; a client picks them, different ones for each rule
  RuleOf,       \* RuleOf[r]: what rule r says
  Days, Minutes,\* of the clock: 0..Days-1 and 0..Minutes-1
  MaxTimers     \* bound: max-duration timers pending at one watcher

RuleType ==
  [channel : Channels, trigger : {"stream_live", "scheduled", "manual"},
   limited : BOOLEAN,           \* MaxDuration > 0
   enabled : BOOLEAN,
   start : Nat, stop : Nat,     \* StartTime and StopTime
   weekdays : SUBSET Nat]

ASSUME SchedulerConstants ==
  /\ Contexts = Clients \cup Watchers
  /\ Clients \cap Watchers = {}
  /\ None \notin Contexts
  /\ \A r \in Rules : RuleOf[r] \in RuleType
  /\ Days \in Nat \ {0} /\ Minutes \in Nat \ {0}
  /\ MaxTimers \in Nat \ {0}
  /\ IsFiniteSet(Watchers)

VARIABLES
  rules,        \* s.rules: the rules added
  running,      \* s.running: running[r] is the watcher cancel was stored for
  todo,         \* todo[c]: rules Start has copied for c and not yet started
  rule, parent, \* of a watcher: its rule (None: not born), and whose Start it was
  pc,           \* where each watcher is
  on,           \* a watcher's wasLive or engineRunning
  timers,       \* its max-duration timers that have not fired
  online,       \* channels whose stream is live
  now           \* the time of day and the weekday

schedVars   == <<rules, running, todo>>
watcherVars == <<rule, parent, pc, on, timers>>
worldVars   == <<online, now>>
vars == <<multiVars, schedVars, watcherVars, worldVars>>

PCs == {"unborn", "waiting", "starting", "stopping", "ended"}

TypeOK ==
  /\ MultiTypeOK
  /\ rules \subseteq Rules
  /\ running \in [Rules -> Watchers \cup {None}]
  /\ todo \in [Clients -> SUBSET Rules]
  /\ rule \in [Watchers -> Rules \cup {None}]
  /\ parent \in [Watchers -> Clients \cup {None}]
  /\ pc \in [Watchers -> PCs]
  /\ \A w \in Watchers : IF pc[w] = "unborn" THEN timers[w] = 0 ELSE rule[w] \in Rules
  /\ on \in [Watchers -> BOOLEAN]
  /\ timers \in [Watchers -> 0..MaxTimers]
  /\ online \subseteq Channels
  /\ now \in [day : 0..(Days - 1), minute : 0..(Minutes - 1)]

Init ==
  /\ MultiInit
  /\ rules = {} /\ running = [r \in Rules |-> None]
  /\ todo = [c \in Clients |-> {}]
  /\ rule = [w \in Watchers |-> None] /\ parent = [w \in Watchers |-> None]
  /\ pc = [w \in Watchers |-> "unborn"]
  /\ on = [w \in Watchers |-> FALSE]
  /\ timers = [w \in Watchers |-> 0]
  /\ online = {}
  /\ now = [day |-> 0, minute |-> 0]

RuleFor(w) == RuleOf[rule[w]]
Unborn == {w \in Watchers : pc[w] = "unborn"}
\* A connection serves one request at a time.
Idle(c) == c \notin done /\ todo[c] = {}

-----------------------------------------------------------------------------
(* Requests: the rules, and the channels directly.                           *)

AddRule(r) ==
  /\ r \notin rules /\ rules' = rules \cup {r}
  /\ UNCHANGED <<multiVars, running, todo, watcherVars, worldVars>>

\* Mutant: the entry goes, nobody calls its cancel.
RemoveRule_NoCancel(r) ==
  /\ running' = [running EXCEPT ![r] = None]
  /\ rules' = rules \ {r}
  /\ UNCHANGED <<multiVars, todo, watcherVars, worldVars>>

\* Mutant: cancel is called whether there is an entry or not.
RemoveRule_NilCancel(r) ==
  /\ CancelContexts({running[r]})
  /\ running' = [running EXCEPT ![r] = None]
  /\ rules' = rules \ {r}
  /\ UNCHANGED <<todo, watcherVars, worldVars>>

RemoveRule(r) ==
  /\ CancelContexts({running[r]} \ {None})
  /\ running' = [running EXCEPT ![r] = None]
  /\ rules' = rules \ {r}
  /\ UNCHANGED <<todo, watcherVars, worldVars>>

\* Scheduler.Start copies the rules and drops the lock.
Start(c) ==
  /\ todo' = [todo EXCEPT ![c] = {r \in rules : RuleOf[r].enabled}]
  /\ Cardinality(todo'[c]) <= Cardinality(Unborn)              \* bound
  /\ UNCHANGED <<multiVars, rules, running, watcherVars, worldVars>>

\* Its loop, for one rule: a context, the entry (an older one is overwritten),
\* and the watcher; a manual rule has none.
StartRule(c, r) ==
  /\ r \in todo[c] /\ Unborn # {}                              \* bound
  /\ todo' = [todo EXCEPT ![c] = @ \ {r}]
  /\ LET w == CHOOSE v \in Watchers : v \in Unborn           \* a new context
     IN  /\ running' = [running EXCEPT ![r] = w]
         /\ rule' = [rule EXCEPT ![w] = r]
         /\ parent' = [parent EXCEPT ![w] = c]
         /\ pc' = [pc EXCEPT ![w] = IF RuleOf[r].trigger = "manual" THEN "ended" ELSE "waiting"]
  /\ UNCHANGED <<multiVars, rules, on, timers, worldVars>>

\* Scheduler.Stop.
Stop ==
  /\ CancelContexts({running[r] : r \in Rules} \ {None})
  /\ running' = [r \in Rules |-> None]
  /\ UNCHANGED <<rules, todo, watcherVars, worldVars>>

MultiStart(c, ch) ==
  StartChannel(c, ch) /\ UNCHANGED <<schedVars, watcherVars, worldVars>>

MultiStop(ch) ==
  engines[ch] # None /\ StopChannel(ch) /\ UNCHANGED <<schedVars, watcherVars, worldVars>>

MultiStopAll == StopAll /\ UNCHANGED <<schedVars, watcherVars, worldVars>>

Request(c) ==
  /\ Idle(c)
  /\ \/ \E r \in Rules : AddRule(r) \/ RemoveRule(r)
     \/ Start(c) \/ Stop
     \/ \E ch \in Channels : MultiStart(c, ch) \/ MultiStop(ch)
     \/ MultiStopAll

\* A client goes away, and with it the contexts of the watchers it started.
Disconnect(c) ==
  /\ Idle(c)
  /\ CancelContexts({c} \cup {w \in Watchers : parent[w] = c})
  /\ UNCHANGED <<schedVars, watcherVars, worldVars>>

-----------------------------------------------------------------------------
(* watchStreamLive.                                                          *)

WatcherGoto(w, from, to) == pc[w] = from /\ pc' = [pc EXCEPT ![w] = to]

\* A poll that finds the status changed.  One that fails, or finds nothing new,
\* changes nothing; with the context done it fails.
StreamTick(w) ==
  /\ pc[w] = "waiting" /\ RuleFor(w).trigger = "stream_live" /\ w \notin done
  /\ \/ RuleFor(w).channel \in online /\ ~on[w] /\ WatcherGoto(w, "waiting", "starting")
     \/ RuleFor(w).channel \notin online /\ on[w] /\ WatcherGoto(w, "waiting", "stopping")
  /\ UNCHANGED <<multiVars, schedVars, rule, parent, on, timers, worldVars>>

\* Mutant: the timer is set only if the start failed.
LiveStart_NoTimer(w) ==
  /\ WatcherGoto(w, "starting", "waiting") /\ RuleFor(w).trigger = "stream_live"
  /\ StartChannel(w, RuleFor(w).channel)
  /\ on' = [on EXCEPT ![w] = TRUE]
  /\ timers[w] < MaxTimers
  /\ timers' = [timers EXCEPT
       ![w] = IF RuleFor(w).limited /\ engines[RuleFor(w).channel] # None THEN @ + 1 ELSE @]
  /\ UNCHANGED <<schedVars, rule, parent, worldVars>>

\* The channel is started; if that fails (it is in the map) all goes on as if
\* it had not, the timer included.
LiveStart(w) ==
  /\ WatcherGoto(w, "starting", "waiting") /\ RuleFor(w).trigger = "stream_live"
  /\ StartChannel(w, RuleFor(w).channel)
  /\ on' = [on EXCEPT ![w] = TRUE]
  /\ timers[w] < MaxTimers                                     \* bound
  /\ timers' = [timers EXCEPT ![w] = IF RuleFor(w).limited THEN @ + 1 ELSE @]
  /\ UNCHANGED <<schedVars, rule, parent, worldVars>>

\* Mutant: only the flag changes.
OfflineStop_FlagOnly(w) ==
  /\ WatcherGoto(w, "stopping", "waiting") /\ RuleFor(w).trigger = "stream_live"
  /\ on' = [on EXCEPT ![w] = FALSE]
  /\ UNCHANGED <<multiVars, schedVars, rule, parent, timers, worldVars>>

OfflineStop(w) ==
  /\ WatcherGoto(w, "stopping", "waiting") /\ RuleFor(w).trigger = "stream_live"
  /\ StopChannel(RuleFor(w).channel)
  /\ on' = [on EXCEPT ![w] = FALSE]
  /\ UNCHANGED <<schedVars, rule, parent, timers, worldVars>>

\* MaxDuration has passed since some start: whatever runs for the channel now
\* is stopped.
TimerFires(w) ==
  /\ timers[w] > 0 /\ timers' = [timers EXCEPT ![w] = @ - 1]
  /\ StopChannel(RuleFor(w).channel)
  /\ UNCHANGED <<schedVars, rule, parent, pc, on, worldVars>>

TimerCancelled(w) ==
  /\ w \in done
  /\ timers[w] > 0 /\ timers' = [timers EXCEPT ![w] = @ - 1]
  /\ UNCHANGED <<multiVars, schedVars, rule, parent, pc, on, worldVars>>

-----------------------------------------------------------------------------
(* watchSchedule.  The select may take a tick when the context is done.      *)

Allowed(w) == RuleFor(w).weekdays = {} \/ now.day \in RuleFor(w).weekdays
StartsNow(w) == now.minute = RuleFor(w).start /\ ~on[w]

ScheduleTick(w) ==
  /\ pc[w] = "waiting" /\ RuleFor(w).trigger = "scheduled" /\ Allowed(w)
  /\ \/ StartsNow(w) /\ WatcherGoto(w, "waiting", "starting")
     \/ /\ ~StartsNow(w) /\ now.minute = RuleFor(w).stop /\ on[w]
        /\ WatcherGoto(w, "waiting", "stopping")
  /\ UNCHANGED <<multiVars, schedVars, rule, parent, on, timers, worldVars>>

\* Mutant: the outcome of StartChannel the wrong way round.
ScheduledStart_IfError(w) ==
  LET failed == engines[RuleFor(w).channel] # None
  IN  /\ WatcherGoto(w, "starting", "waiting")
      /\ RuleFor(w).trigger = "scheduled"
      /\ StartChannel(w, RuleFor(w).channel)
      /\ on' = [on EXCEPT ![w] = failed]
      /\ UNCHANGED <<schedVars, rule, parent, timers, worldVars>>

\* Mutant: engineRunning is shadowed.
ScheduledStart_Shadowed(w) ==
  /\ WatcherGoto(w, "starting", "waiting") /\ RuleFor(w).trigger = "scheduled"
  /\ StartChannel(w, RuleFor(w).channel)
  /\ UNCHANGED <<schedVars, rule, parent, on, timers, worldVars>>

\* engineRunning is set only if the channel was started.  StartTime and StopTime
\* may be the same minute: the second test follows in the same tick.
ScheduledStart(w) ==
  LET started == engines[RuleFor(w).channel] = None
  IN  /\ pc[w] = "starting" /\ RuleFor(w).trigger = "scheduled"
      /\ WatcherGoto(w, "starting",
           IF started /\ RuleFor(w).start = RuleFor(w).stop THEN "stopping" ELSE "waiting")
      /\ StartChannel(w, RuleFor(w).channel)
      /\ on' = [on EXCEPT ![w] = started]
      /\ UNCHANGED <<schedVars, rule, parent, timers, worldVars>>

ScheduledStop(w) ==
  /\ WatcherGoto(w, "stopping", "waiting") /\ RuleFor(w).trigger = "scheduled"
  /\ StopChannel(RuleFor(w).channel)
  /\ on' = [on EXCEPT ![w] = FALSE]
  /\ UNCHANGED <<schedVars, rule, parent, timers, worldVars>>

\* Mutant: watchSchedule does not look at its context.
WatcherEnds_StreamOnly(w) ==
  /\ w \in done /\ WatcherGoto(w, "waiting", "ended")
  /\ RuleFor(w).trigger = "stream_live"
  /\ UNCHANGED <<multiVars, schedVars, rule, parent, on, timers, worldVars>>

WatcherEnds(w) ==
  /\ w \in done /\ WatcherGoto(w, "waiting", "ended")
  /\ UNCHANGED <<multiVars, schedVars, rule, parent, on, timers, worldVars>>

-----------------------------------------------------------------------------
(* The world: streams start and end, the clock goes round.                   *)

StreamChanges(ch) ==
  /\ online' = IF ch \in online THEN online \ {ch} ELSE online \cup {ch}
  /\ UNCHANGED <<multiVars, schedVars, watcherVars, now>>

ClockTick ==
  /\ now' = IF now.minute < Minutes - 1
            THEN [now EXCEPT !.minute = @ + 1]
            ELSE [day |-> (now.day + 1) % Days, minute |-> 0]
  /\ UNCHANGED <<multiVars, schedVars, watcherVars, online>>

Watcher(w) ==
  \/ StreamTick(w) \/ LiveStart(w) \/ OfflineStop(w)
  \/ ScheduleTick(w) \/ ScheduledStart(w) \/ ScheduledStop(w)
  \/ WatcherEnds(w)

Timer(w) == TimerFires(w) \/ TimerCancelled(w)

Next ==
  \/ \E c \in Clients : Request(c) \/ Disconnect(c)
  \/ \E c \in Clients, r \in Rules : StartRule(c, r)
  \/ \E w \in Watchers : Watcher(w) \/ Timer(w)
  \/ \E ch \in Channels : StreamChanges(ch)
  \/ ClockTick

Spec == Init /\ [][Next]_vars

\* Goroutines are scheduled, timers fire, the clock runs; of the polls infinitely
\* many succeed.  A tick that finds something to do at this minute may be missed,
\* but not on every day; and a select that finds its context done whenever it
\* looks takes that branch in the end.
Fairness ==
  /\ WF_vars(ClockTick)
  /\ \A w \in Watchers :
       /\ WF_vars(StreamTick(w)) /\ SF_vars(ScheduleTick(w))
       /\ WF_vars(LiveStart(w) \/ OfflineStop(w) \/ ScheduledStart(w) \/ ScheduledStop(w))
       /\ SF_vars(WatcherEnds(w)) /\ WF_vars(Timer(w))

FairSpec == Spec /\ Fairness

-----------------------------------------------------------------------------
(* Properties.                                                               *)

\* Channel w started its engine for, and whose map entry still is that engine.
Runs(w) == pc[w] # "unborn" /\ engines[RuleFor(w).channel] = w

\* A watcher never forgets a run of its own: as long as the channel's entry is
\* the engine it started, it means to stop it.
RunIsRemembered == \A w \in Watchers : Runs(w) => on[w]

\* A run under a max duration has a timer that will stop it, unless its own
\* context has ended it, whatever timers of earlier runs have done meanwhile.
LimitedRunHasTimer ==
  \A w \in Watchers :
    Runs(w) /\ RuleFor(w).trigger = "stream_live" /\ RuleFor(w).limited /\ w \notin done
      => timers[w] > 0

Watching(w) == pc[w] \notin {"unborn", "ended"} /\ w \notin done

\* A watcher that goes on can be cancelled by its rule, unless the rule was
\* started again: no Stop, removal or race with a Start loses one otherwise.
UntrackedOnlyByRestart ==
  \A w \in Watchers :
    Watching(w) /\ running[rule[w]] # w
      => \E v \in Watchers \ {w} : pc[v] # "unborn" /\ rule[v] = rule[w]

\* "Stop cancels all running schedule monitors."
StopCancelsAll == [][Stop => \A w \in Watchers : ~Watching(w)']_vars

\* The engine of a rule does not outlast the stream: it is stopped unless the
\* rule is, or the stream comes back.
OfflineRunsStop ==
  \A w \in Watchers :
    (Runs(w) /\ RuleFor(w).trigger = "stream_live" /\ RuleFor(w).channel \notin online)
      ~> (~Runs(w) \/ w \in done \/ RuleFor(w).channel \in online)

\* An engine started at StartTime is stopped at a StopTime, weekdays permitting.
ScheduledRunsStop ==
  \A w \in Watchers :
    (Runs(w) /\ RuleFor(w).trigger = "scheduled") ~> (~Runs(w) \/ w \in done)

\* A cancelled watcher ends, and so do the timers it started.
CancelledWatchersEnd ==
  \A w \in Watchers :
    (w \in done /\ pc[w] # "unborn") ~> (pc[w] = "ended" /\ timers[w] = 0)
=============================================================================
