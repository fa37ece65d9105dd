------------------------------ MODULE Restream ------------------------------
(***************************************************************************)
(* The ffmpeg restream (internal/stream/ffmpeg.go).  Start and Stop hold   *)
(* the mutex for their whole body; the goroutine that Start leaves behind  *)
(* reads m.cmd without it, runs the process, and takes it to write the     *)
(* outcome.  A run is one successful Start: its command, its context, its  *)
(* goroutine.  After a Stop the goroutine of an old run can so meet the    *)
(* command of a new one.  Left out: the arguments of ffmpeg.               *)
(***************************************************************************)
EXTENDS Naturals, FiniteSets

CONSTANTS
  Runs,         \* runs remembered at a time; Start waits for a free one
  StreamClients,\* connections whose context a run uses
  NoRun

ASSUME RestreamAssumption == NoRun \notin Runs

VARIABLES
  state,        \* Manager.state; Starting is replaced before Start unlocks
  current,      \* the run of m.cmd and m.cancel
  phase,        \* where the goroutine of a run is
  ran,          \* the run whose command that goroutine executes
  failed,       \* goroutines whose command returned an error
  process,      \* commands with a process that lives
  started,      \* commands that were started once: cmd.Process is set
  ended,        \* runs whose context is done
  owner,        \* the connection a run's context comes from
  loops,        \* runs with cfg.Loop
  hasty         \* Stop was called and goroutines of that time are still there

streamVars == <<state, current, phase, ran, failed, process, started, ended,
                owner, loops, hasty>>

RunPhases == {"free", "launched", "running", "exited", "again"}

StreamTypeOK ==
  /\ state \in {"stopped", "live", "error"}
  /\ current \in Runs \cup {NoRun}
  /\ phase \in [Runs -> RunPhases] /\ ran \in [Runs -> Runs \cup {NoRun}]
  /\ failed \subseteq Runs /\ process \subseteq started /\ started \subseteq Runs
  /\ ended \subseteq Runs /\ loops \subseteq Runs
  /\ owner \in [Runs -> StreamClients] /\ hasty \in BOOLEAN

\* A run that nothing refers to any more.
Unused == {r \in Runs : /\ phase[r] = "free" /\ r # current /\ r \notin process
                        /\ \A q \in Runs : ran[q] # r}
\* The name of the next run: which one does not matter.
NextRun == CHOOSE r \in Unused : TRUE
Active == {r \in Runs : phase[r] \in {"launched", "running", "exited"}}

StreamInit ==
  /\ state = "stopped" /\ current = NoRun
  /\ phase = [r \in Runs |-> "free"] /\ ran = [r \in Runs |-> NoRun]
  /\ failed = {} /\ process = {} /\ started = {} /\ ended = {} /\ loops = {}
  /\ owner \in {[r \in Runs |-> c] : c \in StreamClients}
  /\ hasty = FALSE

\* Manager.Start for a context of c, done already or not, as run r.
Begin(r, c, done, loop) ==
  /\ state' = "live" /\ current' = r
  /\ started' = started \ Unused
  /\ ended' = (ended \ Unused) \cup (IF done THEN {r} ELSE {})
  /\ loops' = (loops \ Unused) \cup (IF loop THEN {r} ELSE {})
  /\ owner' = [owner EXCEPT ![r] = c]

\* Mutant: Start only refuses a stream that is starting.
StreamStart_WhileLive(c, loop) ==
  /\ Unused # {} /\ Begin(NextRun, c, FALSE, loop)
  /\ phase' = [phase EXCEPT ![NextRun] = "launched"]
  /\ UNCHANGED <<ran, failed, process, hasty>>

\* stream.start; the refusal of a live stream changes nothing.
StreamStart(c, loop) ==
  /\ state # "live"
  /\ Unused # {} /\ Begin(NextRun, c, FALSE, loop)
  /\ phase' = [phase EXCEPT ![NextRun] = "launched"]
  /\ UNCHANGED <<ran, failed, process, hasty>>

\* The goroutine reads m.cmd and runs that: a command that was started before,
\* whose context is done or whose program is missing, fails at once.
Launch(r) ==
  /\ phase[r] = "launched"
  /\ \/ /\ current \notin started \cup ended
        /\ phase' = [phase EXCEPT ![r] = "running"]
        /\ ran' = [ran EXCEPT ![r] = current]
        /\ process' = process \cup {current}
        /\ started' = started \cup {current}
        /\ UNCHANGED failed
     \/ /\ phase' = [phase EXCEPT ![r] = "exited"]
        /\ failed' = failed \cup {r}
        /\ UNCHANGED <<ran, process, started>>
  /\ UNCHANGED <<state, current, ended, owner, loops, hasty>>

\* The process of r's command ends, well or not.
ProcessEnd(r, ok) ==
  /\ phase[r] = "running"
  /\ process' = process \ {ran[r]}
  /\ ran' = [ran EXCEPT ![r] = NoRun]
  /\ phase' = [phase EXCEPT ![r] = "exited"]
  /\ failed' = IF ok THEN failed ELSE failed \cup {r}
  /\ UNCHANGED <<state, current, started, ended, owner, loops, hasty>>

\* Mutant: a plain exec.Command: only Stop kills the process.
ProcessKilled_ByStopOnly(r) ==
  /\ ran[r] \in ended /\ state = "stopped"
  /\ \E ok \in BOOLEAN : ProcessEnd(r, ok)

\* exec.CommandContext kills the process once the command's context is done.
ProcessKilled(r) ==
  /\ ran[r] \in ended
  /\ \E ok \in BOOLEAN : ProcessEnd(r, ok)

\* The goroutine writes the outcome, whatever run the state is about by now;
\* with Loop, and its own context not done, it leaves another Start behind.
Outcome(r) ==
  /\ phase[r] = "exited"
  /\ IF r \in loops \ ended
     THEN phase' = [phase EXCEPT ![r] = "again"] /\ state' = "stopped"
     ELSE /\ phase' = [phase EXCEPT ![r] = "free"]
          /\ state' = IF r \in failed THEN "error" ELSE "stopped"
  /\ failed' = failed \ {r}
  /\ hasty' = (hasty /\ Active # {r})
  /\ UNCHANGED <<current, ran, process, started, ended, owner, loops>>

\* go m.Start(ctx, cfg) of a loop: refused silently while a stream is live; else
\* a new run whose context is a child of the old one.
StartAgain(r) ==
  /\ phase[r] = "again"
  /\ \/ /\ state = "live"
        /\ phase' = [phase EXCEPT ![r] = "free"]
        /\ UNCHANGED <<state, current, started, ended, owner, loops>>
     \/ /\ state # "live"
        /\ Unused # {} /\ Begin(NextRun, owner[r], r \in ended, TRUE)
        /\ phase' = [phase EXCEPT ![r] = "free", ![NextRun] = "launched"]
  /\ UNCHANGED <<ran, failed, process, hasty>>

\* stream.stop: the latest context is cancelled, its process killed.
StreamStop ==
  /\ state' = "stopped"
  /\ ended' = ended \cup ({current} \ {NoRun})
  /\ hasty' = (hasty \/ Active # {})
  /\ UNCHANGED <<current, phase, ran, failed, process, started, owner, loops>>

\* A connection closes, and with it the context of every run it asked for.
ClientLeaves(c) ==
  /\ ended' = ended \cup {r \in Runs : owner[r] = c /\ r \notin Unused}
  /\ UNCHANGED <<state, current, phase, ran, failed, process, started, owner,
                 loops, hasty>>

StreamGoroutine(r) ==
  Launch(r) \/ ProcessKilled(r) \/ Outcome(r) \/ StartAgain(r)

StreamNext ==
  \/ \E c \in StreamClients : ClientLeaves(c) \/ \E loop \in BOOLEAN : StreamStart(c, loop)
  \/ StreamStop
  \/ \E r \in Runs : StreamGoroutine(r) \/ \E ok \in BOOLEAN : ProcessEnd(r, ok)

-----------------------------------------------------------------------------
\* A stream shown as live has a goroutine that is to write its end.
LiveIsBacked == state = "live" => Active # {}

\* A process that the next Stop does not reach, a second one beside it, or a
\* goroutine that runs another run's command, needs an earlier Stop whose
\* goroutines have not finished: without it the Starts of clients and of loops
\* never overlap, however many connections ask and leave.
StopReachesProcess ==
  ~hasty => /\ process \subseteq {current}
            /\ \A r \in Runs : ran[r] \in {r, NoRun}

StreamSafe == LiveIsBacked /\ StopReachesProcess

\* Once the context of the live run is done, the stream does not stay live.
StreamEnds == \A r \in Runs : []<>~(state = "live" /\ current = r /\ r \in ended)
=============================================================================
