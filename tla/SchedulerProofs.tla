--------------------------- MODULE SchedulerProofs ---------------------------
(***************************************************************************)
(* Theorems about module Scheduler and the channel engines under it, for   *)
(* every number of clients, channels, rules, watchers and timers.          *)
(***************************************************************************)
EXTENDS Scheduler, TLAPS

-----------------------------------------------------------------------------
(* Type correctness.                                                         *)

\* What the constants say: a context is a client or a watcher, None is neither,
\* and a watcher that was born has a rule with a channel.
LEMMA ContextsAre ==
  /\ Clients \subseteq Contexts /\ Watchers \subseteq Contexts
  /\ Clients \cap Watchers = {} /\ None \notin Contexts
BY SchedulerConstants DEF SchedulerConstants

LEMMA BornHasChannel ==
  ASSUME TypeOK, NEW w \in Watchers, pc[w] # "unborn"
  PROVE  RuleFor(w).channel \in Channels
<1>1. rule[w] \in Rules
      BY DEF TypeOK
<1> QED
  BY <1>1, SchedulerConstants DEF SchedulerConstants, RuleType, RuleFor

\* The watcher a Start creates is a new one.
LEMMA NewWatcher ==
  ASSUME Unborn # {}
  PROVE  LET w == CHOOSE v \in Watchers : v \in Unborn
         IN  w \in Watchers /\ pc[w] = "unborn"
BY DEF Unborn

\* A step of the scheduler or of a client is one operation of the channel
\* engines, or leaves them alone.
LEMMA StepUsesEngines == TypeOK /\ [Next]_vars => [MultiNext]_multiVars
<1> SUFFICES ASSUME TypeOK, [Next]_vars PROVE [MultiNext]_multiVars
    OBVIOUS
<1> USE DEF MultiNext
<1>1. ASSUME NEW c \in Clients, Request(c) PROVE [MultiNext]_multiVars
  <2>1. \A r \in Rules : {running[r]} \ {None} \in SUBSET Contexts
        BY ContextsAre DEF TypeOK
  <2>2. {running[r] : r \in Rules} \ {None} \in SUBSET Contexts
        BY ContextsAre DEF TypeOK
  <2>3. ASSUME NEW r \in Rules, AddRule(r) \/ RemoveRule(r) PROVE [MultiNext]_multiVars
        BY <2>1, <2>3 DEF AddRule, RemoveRule
  <2>4. CASE Start(c) \/ Stop
        BY <2>2, <2>4 DEF Start, Stop
  <2>5. ASSUME NEW ch \in Channels, MultiStart(c, ch) \/ MultiStop(ch)
        PROVE  [MultiNext]_multiVars
        BY <2>5, ContextsAre DEF MultiStart, MultiStop
  <2>6. CASE MultiStopAll
        BY <2>6 DEF MultiStopAll
  <2> QED
    BY <1>1, <2>3, <2>4, <2>5, <2>6 DEF Request
<1>2. ASSUME NEW c \in Clients, Disconnect(c) PROVE [MultiNext]_multiVars
  <2>1. {c} \cup {w \in Watchers : parent[w] = c} \in SUBSET Contexts
        BY ContextsAre
  <2> QED
    BY <1>2, <2>1 DEF Disconnect
<1>3. ASSUME NEW c \in Clients, NEW r \in Rules, StartRule(c, r) PROVE UNCHANGED multiVars
      BY <1>3 DEF StartRule
<1>4. ASSUME NEW w \in Watchers, Watcher(w) PROVE [MultiNext]_multiVars
  <2>1. CASE StreamTick(w) \/ ScheduleTick(w) \/ WatcherEnds(w)
        BY <2>1 DEF StreamTick, ScheduleTick, WatcherEnds
  <2>2. CASE LiveStart(w) \/ OfflineStop(w) \/ ScheduledStart(w) \/ ScheduledStop(w)
    <3>1. RuleFor(w).channel \in Channels /\ w \in Contexts
          BY <2>2, BornHasChannel, ContextsAre
             DEF LiveStart, OfflineStop, ScheduledStart, ScheduledStop, WatcherGoto
    <3> QED
      BY <2>2, <3>1 DEF LiveStart, OfflineStop, ScheduledStart, ScheduledStop
  <2> QED
    BY <1>4, <2>1, <2>2 DEF Watcher
<1>5. ASSUME NEW w \in Watchers, Timer(w) PROVE [MultiNext]_multiVars
  <2>1. timers[w] > 0 => pc[w] # "unborn"
        BY SchedulerConstants DEF SchedulerConstants, TypeOK
  <2> QED
    BY <1>5, <2>1, BornHasChannel DEF Timer, TimerFires, TimerCancelled
<1>6. ASSUME NEW ch \in Channels, StreamChanges(ch) PROVE UNCHANGED multiVars
      BY <1>6 DEF StreamChanges
<1>7. CASE ClockTick \/ UNCHANGED vars
      BY <1>7 DEF ClockTick, vars
<1> QED
  BY <1>1, <1>2, <1>3, <1>4, <1>5, <1>6, <1>7 DEF Next

\* The operations on the engines keep their types.
LEMMA MultiTypes == MultiTypeOK /\ [MultiNext]_multiVars => MultiTypeOK'
BY DEF MultiTypeOK, MultiNext, multiVars, StartChannel, StopChannel, StopAll, CancelContexts

LEMMA InitTypeOK == Init => TypeOK
<1> SUFFICES ASSUME Init PROVE TypeOK
    OBVIOUS
<1>1. MultiTypeOK
      BY DEF Init, MultiInit, MultiTypeOK
<1>2. pc \in [Watchers -> PCs] /\ \A w \in Watchers : IF pc[w] = "unborn" THEN timers[w] = 0 ELSE rule[w] \in Rules
      BY DEF Init, PCs
<1>3. now \in [day : 0..(Days - 1), minute : 0..(Minutes - 1)]
      BY SchedulerConstants DEF SchedulerConstants, Init
<1>4. timers \in [Watchers -> 0..MaxTimers]
      BY SchedulerConstants DEF SchedulerConstants, Init
<1> QED
  BY <1>1, <1>2, <1>3, <1>4 DEF Init, TypeOK

LEMMA NextTypeOK == TypeOK /\ [Next]_vars => TypeOK'
<1> SUFFICES ASSUME TypeOK, [Next]_vars PROVE TypeOK'
    OBVIOUS
<1> USE DEF schedVars, watcherVars, worldVars
<1> DEFINE BornTypeOK ==
      \A v \in Watchers : IF pc[v] = "unborn" THEN timers[v] = 0 ELSE rule[v] \in Rules
<1>m. MultiTypeOK'
      BY StepUsesEngines, MultiTypes DEF TypeOK
<1>b. BornTypeOK
      BY DEF TypeOK
<1>1. ASSUME NEW c \in Clients, Request(c) PROVE TypeOK'
      BY <1>m, <1>1 DEF TypeOK, Request, AddRule, RemoveRule, Start, Stop, MultiStart,
                        MultiStop, MultiStopAll
<1>2. ASSUME NEW c \in Clients, Disconnect(c) PROVE TypeOK'
      BY <1>m, <1>2 DEF TypeOK, Disconnect
<1>3. ASSUME NEW c \in Clients, NEW r \in Rules, StartRule(c, r) PROVE TypeOK'
  <2> DEFINE w == CHOOSE v \in Watchers : v \in Unborn
  <2>1. w \in Watchers
        BY <1>3, NewWatcher DEF StartRule
  <2>2. /\ running' = [running EXCEPT ![r] = w]
        /\ rule' = [rule EXCEPT ![w] = r]
        /\ parent' = [parent EXCEPT ![w] = c]
        /\ pc' = [pc EXCEPT ![w] = IF RuleOf[r].trigger = "manual" THEN "ended" ELSE "waiting"]
        /\ todo' = [todo EXCEPT ![c] = @ \ {r}]
        /\ UNCHANGED <<multiVars, rules, on, timers, worldVars>>
        BY <1>3 DEF StartRule
  <2> HIDE DEF w
  <2>3. pc' \in [Watchers -> PCs]
        BY <2>1, <2>2 DEF TypeOK, PCs
  <2>4. BornTypeOK'
        BY <1>b, <2>1, <2>2 DEF TypeOK
  <2> QED
    BY <1>m, <2>1, <2>2, <2>3, <2>4 DEF TypeOK
<1>4. ASSUME NEW w \in Watchers, Watcher(w) PROVE TypeOK'
  <2>1. /\ pc' \in [Watchers -> PCs]
        /\ BornTypeOK'
        BY <1>b, <1>4
           DEF TypeOK, PCs, Watcher, WatcherGoto, StreamTick, LiveStart, OfflineStop,
               ScheduleTick, ScheduledStart, ScheduledStop, WatcherEnds
  <2>2. on' \in [Watchers -> BOOLEAN]
        BY <1>4 DEF TypeOK, Watcher, StreamTick, LiveStart, OfflineStop, ScheduleTick,
                    ScheduledStart, ScheduledStop, WatcherEnds
  <2>3. timers[w] \in 0..MaxTimers /\ MaxTimers \in Nat
        BY SchedulerConstants DEF SchedulerConstants, TypeOK
  <2>4. timers[w] < MaxTimers => timers[w] + 1 \in 0..MaxTimers
        BY <2>3
  <2>5. timers' \in [Watchers -> 0..MaxTimers]
        BY <1>4, <2>3, <2>4
           DEF TypeOK, Watcher, StreamTick, LiveStart, OfflineStop, ScheduleTick,
               ScheduledStart, ScheduledStop, WatcherEnds
  <2> QED
    BY <1>m, <1>4, <2>1, <2>2, <2>5
       DEF TypeOK, Watcher, StreamTick, LiveStart, OfflineStop, ScheduleTick,
           ScheduledStart, ScheduledStop, WatcherEnds
<1>5. ASSUME NEW w \in Watchers, Timer(w) PROVE TypeOK'
  <2>1. timers[w] > 0 /\ timers[w] \in 0..MaxTimers /\ MaxTimers \in Nat
        BY <1>5, SchedulerConstants
           DEF SchedulerConstants, TypeOK, Timer, TimerFires, TimerCancelled
  <2>2. timers[w] - 1 \in 0..MaxTimers
        BY <2>1
  <2>3. BornTypeOK'
        BY <1>b, <1>5, <2>1 DEF TypeOK, Timer, TimerFires, TimerCancelled
  <2> QED
    BY <1>m, <1>5, <2>2, <2>3 DEF TypeOK, Timer, TimerFires, TimerCancelled
<1>6. ASSUME NEW ch \in Channels, StreamChanges(ch) PROVE TypeOK'
      BY <1>m, <1>6 DEF TypeOK, StreamChanges
<1>7. CASE ClockTick
  <2>1. /\ Days \in Nat \ {0} /\ Minutes \in Nat \ {0}
        /\ now.day \in 0..(Days - 1) /\ now.minute \in 0..(Minutes - 1)
        BY SchedulerConstants DEF SchedulerConstants, TypeOK
  <2>2. (now.day + 1) % Days \in 0..(Days - 1)
        BY <2>1
  <2>3. now.minute < Minutes - 1 => now.minute + 1 \in 0..(Minutes - 1)
        BY <2>1
  <2>4. 0 \in 0..(Minutes - 1)
        BY <2>1
  <2>5. now' \in [day : 0..(Days - 1), minute : 0..(Minutes - 1)]
        BY <1>7, <2>1, <2>2, <2>3, <2>4 DEF TypeOK, ClockTick
  <2> QED
    BY <1>m, <1>7, <2>5 DEF TypeOK, ClockTick
<1>8. CASE UNCHANGED vars
      BY <1>m, <1>8 DEF TypeOK, vars
<1> QED
  BY <1>1, <1>2, <1>3, <1>4, <1>5, <1>6, <1>7, <1>8 DEF Next

\* Every variable keeps its type, and nobody calls a cancel that was never
\* stored.
THEOREM TypeCorrect == Spec => []TypeOK
<1>1. Init => TypeOK
      BY InitTypeOK
<1>2. TypeOK /\ [Next]_vars => TypeOK'
      BY NextTypeOK
<1> QED
  BY <1>1, <1>2, PTL DEF Spec

-----------------------------------------------------------------------------
(* The channel engines.                                                      *)

\* The scheduler and its clients use the channel engines as MultiEngine says.
THEOREM UsesEngines == Spec => MultiSpec
<1>1. Init => MultiInit
      BY DEF Init
<1> QED
  BY <1>1, StepUsesEngines, TypeCorrect, PTL DEF Spec, MultiSpec

LEMMA NextListed ==
  MultiTypeOK /\ ListedWhileAlive /\ [MultiNext]_multiVars => ListedWhileAlive'
<1> SUFFICES ASSUME MultiTypeOK, ListedWhileAlive, [MultiNext]_multiVars
             PROVE  ListedWhileAlive'
    OBVIOUS
<1> USE DEF MultiTypeOK, ListedWhileAlive
<1>1. ASSUME NEW x \in Contexts, NEW ch \in Channels, StartChannel(x, ch)
      PROVE  ListedWhileAlive'
  <2>1. CASE engines[ch] # None
        BY <1>1, <2>1 DEF StartChannel
  <2>2. CASE engines[ch] = None
    <3>1. \A a \in alive : a[1] # ch
          BY <2>2, ContextsAre
    <3> QED
      BY <1>1, <2>2, <3>1 DEF StartChannel
  <2> QED
    BY <2>1, <2>2
<1>2. ASSUME NEW ch \in Channels, StopChannel(ch) PROVE ListedWhileAlive'
  <2>1. \A a \in alive' : a \in alive /\ a[1] # ch
        BY <1>2 DEF StopChannel
  <2> QED
    BY <1>2, <2>1 DEF StopChannel
<1>3. CASE StopAll
  <2>1. alive' = {}
        BY <1>3 DEF StopAll
  <2> QED
    BY <2>1
<1>4. ASSUME NEW S \in SUBSET Contexts, CancelContexts(S) PROVE ListedWhileAlive'
      BY <1>4 DEF CancelContexts
<1>5. CASE UNCHANGED multiVars
      BY <1>5 DEF multiVars
<1> QED
  BY <1>1, <1>2, <1>3, <1>4, <1>5 DEF MultiNext

\* An engine whose workers go on is the one in the map for its channel, through
\* starts and stops by clients, watchers and timers and the end of any context.
THEOREM AliveIsListed == Spec => []ListedWhileAlive
<1>1. Init => ListedWhileAlive
      BY DEF Init, MultiInit, ListedWhileAlive
<1>2. TypeOK /\ ListedWhileAlive /\ [Next]_vars => ListedWhileAlive'
      BY NextListed, StepUsesEngines DEF TypeOK
<1> QED
  BY <1>1, <1>2, TypeCorrect, PTL DEF Spec

-----------------------------------------------------------------------------
(* The watchers.                                                             *)

\* What the properties of the watchers rest on: the map and the table of
\* cancels name watchers that were born, and one about to start means to.
ListedAreBorn ==
  \A ch \in Channels, w \in Watchers : engines[ch] = w => pc[w] # "unborn"
StartingIsOff == \A w \in Watchers : pc[w] = "starting" => on[w] = FALSE
TrackedAreTheirs ==
  \A r \in Rules, w \in Watchers :
    running[r] = w => pc[w] # "unborn" /\ rule[w] = r

\* The inductive invariant.
WatcherInv ==
  /\ TypeOK
  /\ ListedAreBorn /\ StartingIsOff /\ TrackedAreTheirs
  /\ RunIsRemembered /\ LimitedRunHasTimer /\ UntrackedOnlyByRestart

LEMMA InitWatcherInv == Init => WatcherInv
<1> SUFFICES ASSUME Init PROVE WatcherInv
    OBVIOUS
<1>1. \A w \in Watchers : pc[w] = "unborn" /\ w # None
      BY ContextsAre DEF Init
<1>2. \A ch \in Channels : engines[ch] = None
      BY DEF Init, MultiInit
<1>3. \A r \in Rules : running[r] = None
      BY DEF Init
<1> QED
  BY <1>1, <1>2, <1>3, InitTypeOK
     DEF WatcherInv, ListedAreBorn, StartingIsOff, TrackedAreTheirs, RunIsRemembered,
         LimitedRunHasTimer, UntrackedOnlyByRestart, Runs, Watching

\* A step that leaves the watchers and the table alone, enters no watcher into
\* the map and makes no context undone, keeps what the invariant says.
LEMMA QuietStep ==
  ASSUME WatcherInv, TypeOK', UNCHANGED <<watcherVars, running>>,
         done \subseteq done',
         \A ch \in Channels, w \in Watchers : engines'[ch] = w => engines[ch] = w
  PROVE  WatcherInv'
<1> USE DEF WatcherInv, watcherVars
<1>0. \A w \in Watchers : pc[w] # "unborn" => RuleFor(w).channel \in Channels
      BY BornHasChannel
<1>1. \A w \in Watchers : Runs(w)' => Runs(w)
      BY <1>0 DEF Runs, RuleFor
<1>2. RunIsRemembered' /\ LimitedRunHasTimer'
      BY <1>1 DEF RunIsRemembered, LimitedRunHasTimer, RuleFor
<1>3. ListedAreBorn' /\ StartingIsOff' /\ TrackedAreTheirs'
      BY DEF ListedAreBorn, StartingIsOff, TrackedAreTheirs
<1>4. UntrackedOnlyByRestart'
      BY DEF UntrackedOnlyByRestart, Watching
<1> QED
  BY <1>2, <1>3, <1>4

\* A step of watcher w (or of a timer of its) that keeps its rule: the others
\* see only their own entries of the map, which only w's stops can remove.
LEMMA OwnStep ==
  ASSUME WatcherInv, TypeOK', NEW w \in Watchers, pc[w] # "unborn",
         UNCHANGED <<running, rule, done>>, pc'[w] # "unborn",
         \A v \in Watchers \ {w} : pc'[v] = pc[v] /\ on'[v] = on[v] /\ timers'[v] = timers[v],
         \A ch \in Channels, v \in Watchers \ {w} : engines'[ch] = v => engines[ch] = v,
         pc'[w] = "starting" => on'[w] = FALSE,
         pc[w] = "ended" => pc'[w] = "ended",
         Runs(w)' => on'[w],
         Runs(w)' /\ RuleFor(w).trigger = "stream_live" /\ RuleFor(w).limited /\ w \notin done
           => timers'[w] > 0
  PROVE  WatcherInv'
<1> USE DEF WatcherInv
<1>0. \A v \in Watchers : pc[v] # "unborn" => RuleFor(v).channel \in Channels
      BY BornHasChannel
<1>1. \A v \in Watchers : v # w /\ Runs(v)' => Runs(v)
      BY <1>0 DEF Runs, RuleFor
<1>2. RunIsRemembered'
      BY <1>1 DEF RunIsRemembered
<1>3. LimitedRunHasTimer'
      BY <1>1 DEF LimitedRunHasTimer, RuleFor
<1>4. ListedAreBorn' /\ StartingIsOff' /\ TrackedAreTheirs'
      BY DEF ListedAreBorn, StartingIsOff, TrackedAreTheirs
<1>5. UntrackedOnlyByRestart'
  <2> SUFFICES ASSUME NEW u \in Watchers, Watching(u)', running'[rule'[u]] # u
               PROVE  \E v \in Watchers \ {u} : pc'[v] # "unborn" /\ rule'[v] = rule'[u]
      BY DEF UntrackedOnlyByRestart
  <2>1. Watching(u) /\ running[rule[u]] # u
        BY DEF Watching
  <2>2. PICK v \in Watchers \ {u} : pc[v] # "unborn" /\ rule[v] = rule[u]
        BY <2>1 DEF UntrackedOnlyByRestart
  <2> QED
    BY <2>2
<1> QED
  BY <1>2, <1>3, <1>4, <1>5

LEMMA NextWatcherInv == WatcherInv /\ [Next]_vars => WatcherInv'
<1> SUFFICES ASSUME WatcherInv, [Next]_vars PROVE WatcherInv'
    OBVIOUS
<1>t. TypeOK /\ TypeOK'
      BY NextTypeOK DEF WatcherInv
<1>e. /\ engines \in [Channels -> Contexts \cup {None}]
      /\ \A w \in Watchers : w # None
      BY <1>t, ContextsAre DEF TypeOK, MultiTypeOK
<1>1. ASSUME NEW r \in Rules, AddRule(r) PROVE WatcherInv'
      BY <1>1, <1>t, QuietStep DEF AddRule, multiVars
<1>2. ASSUME NEW r \in Rules, RemoveRule(r) PROVE WatcherInv'
  <2>1. /\ UNCHANGED <<engines, watcherVars>>
        /\ done' = done \cup ({running[r]} \ {None})
        /\ running' = [running EXCEPT ![r] = None]
        BY <1>2 DEF RemoveRule, CancelContexts
  <2>2. RunIsRemembered' /\ LimitedRunHasTimer' /\ ListedAreBorn' /\ StartingIsOff'
        BY <2>1 DEF WatcherInv, RunIsRemembered, LimitedRunHasTimer, ListedAreBorn,
                    StartingIsOff, Runs, RuleFor, watcherVars
  <2>3. TrackedAreTheirs'
        BY <2>1, <1>e, <1>t DEF WatcherInv, TypeOK, TrackedAreTheirs, watcherVars
  <2>4. \A w \in Watchers : Watching(w)' /\ running'[rule[w]] # w
                              => Watching(w) /\ running[rule[w]] # w
        BY <2>1, <1>e, <1>t DEF Watching, TypeOK, watcherVars
  <2>5. UntrackedOnlyByRestart'
        BY <2>1, <2>4 DEF WatcherInv, UntrackedOnlyByRestart, watcherVars
  <2> QED
    BY <1>t, <2>2, <2>3, <2>5 DEF WatcherInv
<1>3. CASE Stop
  <2>1. /\ UNCHANGED <<engines, watcherVars>>
        /\ done' = done \cup ({running[r] : r \in Rules} \ {None})
        /\ running' = [r \in Rules |-> None]
        BY <1>3 DEF Stop, CancelContexts
  <2>2. RunIsRemembered' /\ LimitedRunHasTimer' /\ ListedAreBorn' /\ StartingIsOff'
        BY <2>1 DEF WatcherInv, RunIsRemembered, LimitedRunHasTimer, ListedAreBorn,
                    StartingIsOff, Runs, RuleFor, watcherVars
  <2>3. TrackedAreTheirs'
        BY <2>1, <1>e DEF TrackedAreTheirs
  <2>4. \A w \in Watchers : Watching(w)' => Watching(w) /\ running[rule[w]] # w
        BY <2>1, <1>e, <1>t DEF Watching, TypeOK, watcherVars
  <2>5. UntrackedOnlyByRestart'
        BY <2>1, <2>4 DEF WatcherInv, UntrackedOnlyByRestart, watcherVars
  <2> QED
    BY <1>t, <2>2, <2>3, <2>5 DEF WatcherInv
<1>4. ASSUME NEW c \in Clients, Start(c) PROVE WatcherInv'
      BY <1>4, <1>t, QuietStep DEF Start, multiVars
<1>5. ASSUME NEW c \in Clients, NEW ch \in Channels, MultiStart(c, ch) \/ MultiStop(ch)
      PROVE  WatcherInv'
  <2>1. \A h \in Channels, w \in Watchers : engines'[h] = w => engines[h] = w
        BY <1>5, <1>e, ContextsAre DEF MultiStart, MultiStop, StartChannel, StopChannel
  <2> QED
    BY <1>5, <1>t, <2>1, QuietStep
       DEF MultiStart, MultiStop, StartChannel, StopChannel, schedVars
<1>6. CASE MultiStopAll
  <2>1. \A h \in Channels, w \in Watchers : engines'[h] = w => engines[h] = w
        BY <1>6, <1>e DEF MultiStopAll, StopAll
  <2> QED
    BY <1>6, <1>t, <2>1, QuietStep DEF MultiStopAll, StopAll, schedVars
<1>7. ASSUME NEW c \in Clients, Disconnect(c) PROVE WatcherInv'
      BY <1>7, <1>t, QuietStep DEF Disconnect, CancelContexts, schedVars
<1>8. ASSUME NEW c \in Clients, NEW r \in Rules, StartRule(c, r) PROVE WatcherInv'
  <2>1. PICK w \in Watchers :
          /\ pc[w] = "unborn"
          /\ running' = [running EXCEPT ![r] = w]
          /\ rule' = [rule EXCEPT ![w] = r]
          /\ pc' = [pc EXCEPT ![w] = IF RuleOf[r].trigger = "manual" THEN "ended" ELSE "waiting"]
        BY <1>8, NewWatcher DEF StartRule
  <2>2. UNCHANGED <<engines, done, on, timers>>
        BY <1>8 DEF StartRule, multiVars
  <2>3. /\ pc'[w] \notin {"unborn", "starting"} /\ rule'[w] = r /\ running'[r] = w
        /\ \A v \in Watchers \ {w} : pc'[v] = pc[v] /\ rule'[v] = rule[v]
        /\ \A q \in Rules \ {r} : running'[q] = running[q]
        BY <2>1, <2>2, <1>t DEF TypeOK
  <2>4. \A ch \in Channels : engines[ch] # w
        BY <2>1 DEF WatcherInv, ListedAreBorn
  <2>5. \A v \in Watchers : Runs(v)' => v # w /\ Runs(v) /\ RuleFor(v)' = RuleFor(v)
    <3>1. RuleFor(w)'.channel \in Channels
          BY <2>3, SchedulerConstants DEF SchedulerConstants, RuleType, RuleFor
    <3>2. ~Runs(w)'
          BY <3>1, <2>2, <2>4 DEF Runs
    <3> QED
      BY <3>2, <2>2, <2>3 DEF Runs, RuleFor
  <2>6. RunIsRemembered' /\ LimitedRunHasTimer'
        BY <2>1, <2>2, <2>5 DEF WatcherInv, RunIsRemembered, LimitedRunHasTimer
  <2>7. ListedAreBorn' /\ StartingIsOff'
        BY <2>2, <2>3 DEF WatcherInv, ListedAreBorn, StartingIsOff
  <2>8. TrackedAreTheirs'
        BY <2>1, <2>3 DEF WatcherInv, TrackedAreTheirs
  <2>9. UntrackedOnlyByRestart'
    <3> SUFFICES ASSUME NEW u \in Watchers, Watching(u)', running'[rule'[u]] # u
                 PROVE  \E v \in Watchers \ {u} : pc'[v] # "unborn" /\ rule'[v] = rule'[u]
        BY DEF UntrackedOnlyByRestart
    <3>1. u # w
          BY <2>3
    <3>2. CASE rule[u] = r
          BY <3>1, <3>2, <2>1, <2>3
    <3>3. CASE rule[u] # r
      <4>1. Watching(u) /\ rule[u] \in Rules
            BY <3>1, <2>2, <2>3, <1>t DEF Watching, TypeOK
      <4>2. running[rule[u]] # u
            BY <3>1, <3>3, <4>1, <2>3
      <4>3. PICK v \in Watchers \ {u} : pc[v] # "unborn" /\ rule[v] = rule[u]
            BY <4>1, <4>2 DEF WatcherInv, UntrackedOnlyByRestart
      <4> QED
        BY <4>3, <3>1, <2>1, <2>3
    <3> QED
      BY <3>2, <3>3
  <2> QED
    BY <1>t, <2>6, <2>7, <2>8, <2>9 DEF WatcherInv
<1>9. ASSUME NEW w \in Watchers, StreamTick(w) \/ ScheduleTick(w) \/ WatcherEnds(w)
      PROVE  WatcherInv'
  <2>1. /\ pc[w] = "waiting" /\ UNCHANGED <<engines, running, rule, done, on, timers>>
        /\ \E q \in {"starting", "stopping", "ended"} :
             pc' = [pc EXCEPT ![w] = q] /\ (q = "starting" => on[w] = FALSE)
        BY <1>9, <1>t DEF StreamTick, ScheduleTick, StartsNow, WatcherEnds, WatcherGoto,
                          multiVars, schedVars, TypeOK
  <2>2. Runs(w)' => Runs(w)
        BY <2>1 DEF Runs, RuleFor
  <2>3. Runs(w) => on[w]
        BY DEF WatcherInv, RunIsRemembered
  <2>4. Runs(w) /\ RuleFor(w).trigger = "stream_live" /\ RuleFor(w).limited /\ w \notin done
          => timers[w] > 0
        BY DEF WatcherInv, LimitedRunHasTimer
  <2>5. pc'[w] \in {"starting", "stopping", "ended"} /\ (pc'[w] = "starting" => on'[w] = FALSE)
        BY <2>1, <1>t DEF TypeOK
  <2>6. \A v \in Watchers \ {w} : pc'[v] = pc[v] /\ on'[v] = on[v] /\ timers'[v] = timers[v]
        BY <2>1, <1>t DEF TypeOK
  <2> QED
    BY <1>t, <2>1, <2>2, <2>3, <2>4, <2>5, <2>6, OwnStep
<1>10. ASSUME NEW w \in Watchers, LiveStart(w) PROVE WatcherInv'
  <2>1. /\ pc[w] = "starting" /\ UNCHANGED <<running, rule, done>>
        /\ pc' = [pc EXCEPT ![w] = "waiting"]
        /\ on' = [on EXCEPT ![w] = TRUE]
        /\ timers' = [timers EXCEPT ![w] = IF RuleFor(w).limited THEN @ + 1 ELSE @]
        /\ engines' = engines \/ engines' = [engines EXCEPT ![RuleFor(w).channel] = w]
        BY <1>10 DEF LiveStart, StartChannel, WatcherGoto, schedVars
  <2>2. \A ch \in Channels, v \in Watchers \ {w} : engines'[ch] = v => engines[ch] = v
        BY <2>1, <1>e
  <2>3. /\ pc'[w] = "waiting" /\ on'[w] = TRUE
        /\ \A v \in Watchers \ {w} : pc'[v] = pc[v] /\ on'[v] = on[v] /\ timers'[v] = timers[v]
        BY <2>1, <1>t DEF TypeOK
  <2>4. timers[w] \in Nat
        BY <1>t, SchedulerConstants DEF SchedulerConstants, TypeOK
  <2>5. RuleFor(w).limited => timers'[w] > 0
        BY <2>1, <2>4, <1>t DEF TypeOK
  <2> QED
    BY <1>t, <2>1, <2>2, <2>3, <2>5, OwnStep
<1>11. ASSUME NEW w \in Watchers, OfflineStop(w) \/ ScheduledStop(w) PROVE WatcherInv'
  <2>1. /\ pc[w] = "stopping" /\ UNCHANGED <<running, rule, done, timers>>
        /\ pc' = [pc EXCEPT ![w] = "waiting"]
        /\ on' = [on EXCEPT ![w] = FALSE]
        /\ engines' = [engines EXCEPT ![RuleFor(w).channel] = None]
        BY <1>11 DEF OfflineStop, ScheduledStop, StopChannel, WatcherGoto, schedVars
  <2>2. \A ch \in Channels, v \in Watchers \ {w} : engines'[ch] = v => engines[ch] = v
        BY <2>1, <1>e
  <2>3. /\ pc'[w] = "waiting"
        /\ \A v \in Watchers \ {w} : pc'[v] = pc[v] /\ on'[v] = on[v] /\ timers'[v] = timers[v]
        BY <2>1, <1>t DEF TypeOK
  <2>4. ~Runs(w)'
    <3>1. RuleFor(w).channel \in Channels
          BY <2>1, <1>t, BornHasChannel
    <3> QED
      BY <2>1, <3>1, <1>e DEF Runs, RuleFor
  <2> QED
    BY <1>t, <2>1, <2>2, <2>3, <2>4, OwnStep
<1>12. ASSUME NEW w \in Watchers, ScheduledStart(w) PROVE WatcherInv'
  <2> DEFINE ch == RuleFor(w).channel
  <2>1. /\ pc[w] = "starting" /\ UNCHANGED <<running, rule, done, timers>>
        /\ RuleFor(w).trigger = "scheduled"
        /\ \E q \in {"stopping", "waiting"} : pc' = [pc EXCEPT ![w] = q]
        /\ on' = [on EXCEPT ![w] = (engines[ch] = None)]
        /\ \/ engines[ch] # None /\ engines' = engines
           \/ engines[ch] = None /\ engines' = [engines EXCEPT ![ch] = w]
        BY <1>12 DEF ScheduledStart, StartChannel, WatcherGoto, schedVars
  <2>2. \A h \in Channels, v \in Watchers \ {w} : engines'[h] = v => engines[h] = v
        BY <2>1, <1>e
  <2>3. /\ pc'[w] \in {"stopping", "waiting"}
        /\ \A v \in Watchers \ {w} : pc'[v] = pc[v] /\ on'[v] = on[v] /\ timers'[v] = timers[v]
        BY <2>1, <1>t DEF TypeOK
  <2>4. on[w] = FALSE /\ ~Runs(w)
        BY <2>1 DEF WatcherInv, StartingIsOff, RunIsRemembered
  <2>5. Runs(w)' => on'[w]
    <3>1. CASE engines[ch] # None
      <4>1. ~Runs(w)'
            BY <2>1, <2>4, <3>1 DEF Runs, RuleFor
      <4> QED
        BY <4>1
    <3>2. CASE engines[ch] = None
          BY <2>1, <3>2, <1>t DEF TypeOK
    <3> QED
      BY <3>1, <3>2
  <2> QED
    BY <1>t, <2>1, <2>2, <2>3, <2>5, OwnStep
<1>13. ASSUME NEW w \in Watchers, TimerFires(w) PROVE WatcherInv'
  <2>1. /\ timers[w] > 0 /\ UNCHANGED <<running, rule, done, pc, on>>
        /\ timers' = [timers EXCEPT ![w] = @ - 1]
        /\ engines' = [engines EXCEPT ![RuleFor(w).channel] = None]
        BY <1>13 DEF TimerFires, StopChannel, schedVars
  <2>2. pc[w] # "unborn"
        BY <2>1, <1>t DEF TypeOK
  <2>3. \A ch \in Channels, v \in Watchers \ {w} : engines'[ch] = v => engines[ch] = v
        BY <2>1, <1>e
  <2>4. \A v \in Watchers \ {w} : timers'[v] = timers[v]
        BY <2>1, <1>t DEF TypeOK
  <2>5. ~Runs(w)'
    <3>1. RuleFor(w).channel \in Channels
          BY <2>2, <1>t, BornHasChannel
    <3> QED
      BY <2>1, <3>1, <1>e DEF Runs, RuleFor
  <2>6. pc[w] = "starting" => on[w] = FALSE
        BY DEF WatcherInv, StartingIsOff
  <2> QED
    BY <1>t, <2>1, <2>2, <2>3, <2>4, <2>5, <2>6, OwnStep
<1>14. ASSUME NEW w \in Watchers, TimerCancelled(w) PROVE WatcherInv'
  <2>1. /\ w \in done /\ timers[w] > 0
        /\ UNCHANGED <<engines, running, rule, done, pc, on>>
        /\ timers' = [timers EXCEPT ![w] = @ - 1]
        BY <1>14 DEF TimerCancelled, multiVars, schedVars
  <2>2. pc[w] # "unborn"
        BY <2>1, <1>t DEF TypeOK
  <2>3. \A v \in Watchers \ {w} : timers'[v] = timers[v]
        BY <2>1, <1>t DEF TypeOK
  <2>4. Runs(w)' => on'[w]
        BY <2>1 DEF WatcherInv, RunIsRemembered, Runs, RuleFor
  <2>5. pc[w] = "starting" => on[w] = FALSE
        BY DEF WatcherInv, StartingIsOff
  <2> QED
    BY <1>t, <2>1, <2>2, <2>3, <2>4, <2>5, OwnStep
<1>15. CASE (\E ch \in Channels : StreamChanges(ch)) \/ ClockTick \/ UNCHANGED vars
      BY <1>15, <1>t, QuietStep DEF StreamChanges, ClockTick, vars, multiVars, schedVars
<1> QED
  BY <1>1, <1>2, <1>3, <1>4, <1>5, <1>6, <1>7, <1>8, <1>9, <1>10, <1>11, <1>12, <1>13, <1>14, <1>15
     DEF Next, Request, Watcher, Timer

LEMMA WatcherInvariant == Spec => []WatcherInv
BY InitWatcherInv, NextWatcherInv, PTL DEF Spec

\* As long as the entry of a channel is the engine a watcher started, the watcher
\* knows it, and will stop it when its stream ends or its stop time comes.
THEOREM RunsAreRemembered == Spec => []RunIsRemembered
<1>1. WatcherInv => RunIsRemembered
      BY DEF WatcherInv
<1> QED
  BY <1>1, WatcherInvariant, PTL

\* A run with a max duration always has a timer that is going to stop it, or its
\* context is done, however many timers of earlier runs fire meanwhile.
THEOREM LimitedRunsEnd == Spec => []LimitedRunHasTimer
<1>1. WatcherInv => LimitedRunHasTimer
      BY DEF WatcherInv
<1> QED
  BY <1>1, WatcherInvariant, PTL

\* Only starting a rule again makes its watcher unreachable for Stop.
THEOREM RestartsLoseWatchers == Spec => []UntrackedOnlyByRestart
<1>1. WatcherInv => UntrackedOnlyByRestart
      BY DEF WatcherInv
<1> QED
  BY <1>1, WatcherInvariant, PTL
=============================================================================
