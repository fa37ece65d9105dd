------------------------- MODULE ReconnectingViewer -------------------------
(***************************************************************************)
(* One worker in detail: ReconnectingViewer (internal/engine/reconnect.go) *)
(* with its state machine (fsm.go) around the viewers it creates one after *)
(* the other (platform/twitch/viewer.go; kick/viewer.go has the same shape *)
(* with fewer loops).  Concurrent parties: the runner in Start, callers of *)
(* Stop, whoever cancels the context, and the loop goroutines of every     *)
(* viewer started so far, which share its errCh.                           *)
(***************************************************************************)
EXTENDS Integers, FiniteSets

CONSTANTS
  MaxAttempts,  \* ReconnectConfig.MaxAttempts, 0 for unlimited
  MaxSessions,  \* bound: viewers created
  ConnectErrors,\* whether Platform.Connect can fail (the three providers' never does)
  Loops,        \* the loops a viewer runs (twitch: 7, kick: 2)
  ErrCap        \* capacity of errCh (twitch: 8, kick: 3)

ASSUME ViewerConstants ==
  /\ MaxAttempts \in Nat /\ MaxSessions \in Nat \ {0}
  /\ ConnectErrors \in BOOLEAN
  /\ IsFiniteSet(Loops) /\ Loops # {}
  /\ ErrCap \in Nat

Sessions == 1..MaxSessions

\* The viewer statuses, and fsm.go's table.
Status == {"idle", "connecting", "active", "reconnecting", "stopped", "error"}
ValidTransitions ==
  [s \in Status |->
    CASE s = "idle"         -> {"connecting"}
      [] s = "connecting"   -> {"active", "error", "stopped"}
      [] s = "active"       -> {"reconnecting", "stopped", "error"}
      [] s = "reconnecting" -> {"connecting", "stopped", "error"}
      [] s = "stopped"      -> {"idle"}
      [] s = "error"        -> {"idle", "stopped"}]

VARIABLES
  enabled,      \* ReconnectConfig.Enabled
  ctxDone,      \* the context given to Start is done
  fsm,          \* rv.fsm
  pc,           \* the runner
  attempt,      \* Start's attempt
  session,      \* viewers created; the last one is rv.inner (0: nil)
  armed,        \* viewers whose Start has set v.cancel
  cancelled,    \* viewers whose own context is cancelled
  loops,        \* loops[s]: loop goroutines of viewer s not yet at their send
  errs,         \* errs[s]: results in errCh of viewer s
  stopping,     \* a Stop is between its ForceState and its use of rv.inner
  stopCalled,   \* history: Stop was called
  fails,        \* history: attempts in a row that never got a viewer active
  gaveUp        \* history: Start returned because shouldGiveUp said so

runnerVars == <<enabled, fsm, pc, attempt, session, armed, fails, gaveUp>>
loopVars   == <<loops, errs>>
stopVars   == <<cancelled, stopping, stopCalled>>
vars == <<ctxDone, runnerVars, loopVars, stopVars>>

PCs == {"poll", "connect", "connected", "setup", "running", "viewerReturned",
        "backoff", "returned"}

TypeOK ==
  /\ enabled \in BOOLEAN /\ ctxDone \in BOOLEAN
  /\ fsm \in Status /\ pc \in PCs
  /\ attempt \in Nat
  /\ session \in 0..MaxSessions
  /\ armed \subseteq 1..session /\ cancelled \subseteq armed
  /\ loops \in [Sessions -> SUBSET Loops]
  /\ errs \in [Sessions -> 0..ErrCap]
  /\ stopping \in BOOLEAN /\ stopCalled \in BOOLEAN
  /\ fails \in Nat /\ gaveUp \in BOOLEAN

Init ==
  /\ enabled \in BOOLEAN /\ ctxDone = FALSE
  /\ fsm = "idle" /\ pc = "poll" /\ attempt = 0
  /\ session = 0 /\ armed = {} /\ cancelled = {}
  /\ loops = [s \in Sessions |-> {}] /\ errs = [s \in Sessions |-> 0]
  /\ stopping = FALSE /\ stopCalled = FALSE
  /\ fails = 0 /\ gaveUp = FALSE

-----------------------------------------------------------------------------
(* ReconnectingViewer.Start.                                                 *)

ShouldGiveUp == MaxAttempts > 0 /\ attempt >= MaxAttempts

\* ForceState, or nothing when reconnection is disabled.
ForceState(s) == (enabled /\ fsm' = s) \/ (~enabled /\ UNCHANGED fsm)

\* The poll at the top of the loop; without reconnection there is none.
Poll ==
  /\ pc = "poll"
  /\ \/ (enabled /\ ctxDone) /\ pc' = "returned" /\ UNCHANGED fsm
     \/ ~(enabled /\ ctxDone) /\ pc' = "connect" /\ ForceState("connecting")
  /\ UNCHANGED <<ctxDone, enabled, attempt, session, armed, fails, gaveUp, loopVars,
                 stopVars>>

ConnectFails ==
  /\ ConnectErrors /\ pc = "connect"
  /\ ForceState("error")
  /\ fails' = fails + 1
  /\ \/ enabled /\ ShouldGiveUp /\ pc' = "returned" /\ gaveUp' = TRUE
     \/ enabled /\ ~ShouldGiveUp /\ pc' = "backoff" /\ UNCHANGED gaveUp
     \/ ~enabled /\ pc' = "returned" /\ UNCHANGED gaveUp
  /\ UNCHANGED <<ctxDone, enabled, attempt, session, armed, loopVars, stopVars>>

\* Mutant: attempt is not reset.
ConnectSucceeds_KeepsAttempt ==
  /\ pc = "connect" /\ session < MaxSessions
  /\ pc' = "connected"
  /\ session' = session + 1
  /\ ForceState("active")
  /\ UNCHANGED <<ctxDone, enabled, attempt, armed, fails, gaveUp, loopVars, stopVars>>

ConnectSucceeds ==
  /\ pc = "connect" /\ session < MaxSessions
  /\ pc' = "connected"
  /\ session' = session + 1
  /\ ForceState("active")
  /\ attempt' = 0
  /\ UNCHANGED <<ctxDone, enabled, armed, fails, gaveUp, loopVars, stopVars>>

\* Start of the viewer: v.cancel is set, so a Stop reaches it from here on.
ViewerStarts ==
  /\ pc = "connected"
  /\ pc' = "setup"
  /\ armed' = armed \cup {session}
  /\ UNCHANGED <<ctxDone, enabled, fsm, attempt, session, fails, gaveUp, loopVars,
                 stopVars>>

\* Metadata or playlist could not be fetched (or the context is done).
SetupFails ==
  /\ pc = "setup"
  /\ pc' = "viewerReturned"
  /\ fails' = fails + 1
  /\ UNCHANGED <<ctxDone, enabled, fsm, attempt, session, armed, gaveUp, loopVars,
                 stopVars>>

\* Mutant: the failed initial event is sent to errCh as well.
SetupSucceeds_SendsEventError ==
  /\ pc = "setup"
  /\ pc' = "running"
  /\ fails' = 0
  /\ loops' = [loops EXCEPT ![session] = Loops]
  /\ errs' = [errs EXCEPT ![session] = 1]
  /\ UNCHANGED <<ctxDone, enabled, fsm, attempt, session, armed, gaveUp, stopVars>>

SetupSucceeds ==
  /\ pc = "setup"
  /\ pc' = "running"
  /\ fails' = 0
  /\ loops' = [loops EXCEPT ![session] = Loops]
  /\ UNCHANGED <<ctxDone, enabled, fsm, attempt, session, armed, gaveUp, errs, stopVars>>

\* Mutants: the loops' context is derived from no other, or is Start's own.
SessionDone_Detached(s) == s \in cancelled
SessionDone_Parent(s) == ctxDone

SessionDone(s) == ctxDone \/ s \in cancelled

\* The viewer's select: the first loop result, or its context.  Its context is
\* not cancelled on the way out, so the other loops go on.
ViewerReturns ==
  /\ pc = "running"
  /\ \/ errs[session] > 0 /\ errs' = [errs EXCEPT ![session] = @ - 1]
     \/ SessionDone(session) /\ UNCHANGED errs
  /\ pc' = "viewerReturned"
  /\ UNCHANGED <<ctxDone, enabled, fsm, attempt, session, armed, fails, gaveUp, loops,
                 stopVars>>

\* Mutants: the state is not forced when the context is done; or not when the
\* viewer died.
AfterViewer_StaysActive ==
  /\ pc = "viewerReturned"
  /\ \/ (~enabled \/ ctxDone) /\ pc' = "returned" /\ UNCHANGED <<fsm, gaveUp>>
     \/ /\ enabled /\ ~ctxDone
        /\ pc' = IF ShouldGiveUp THEN "returned" ELSE "backoff"
        /\ fsm' = IF ShouldGiveUp THEN "error" ELSE "reconnecting"
        /\ gaveUp' = ShouldGiveUp
  /\ UNCHANGED <<ctxDone, enabled, attempt, session, armed, fails, loopVars, stopVars>>
AfterViewer_NotReconnecting ==
  /\ pc = "viewerReturned"
  /\ \/ (~enabled \/ ctxDone) /\ pc' = "returned" /\ ForceState("stopped") /\ UNCHANGED gaveUp
     \/ /\ enabled /\ ~ctxDone
        /\ pc' = IF ShouldGiveUp THEN "returned" ELSE "backoff"
        /\ fsm' = IF ShouldGiveUp THEN "error" ELSE fsm
        /\ gaveUp' = ShouldGiveUp
  /\ UNCHANGED <<ctxDone, enabled, attempt, session, armed, fails, loopVars, stopVars>>

AfterViewer ==
  /\ pc = "viewerReturned"
  /\ \/ (~enabled \/ ctxDone) /\ pc' = "returned" /\ ForceState("stopped") /\ UNCHANGED gaveUp
     \/ /\ enabled /\ ~ctxDone
        /\ pc' = IF ShouldGiveUp THEN "returned" ELSE "backoff"
        /\ fsm' = IF ShouldGiveUp THEN "error" ELSE "reconnecting"
        /\ gaveUp' = ShouldGiveUp
  /\ UNCHANGED <<ctxDone, enabled, attempt, session, armed, fails, loopVars, stopVars>>

\* waitBackoff: the timer, or the context.
Backoff ==
  /\ pc = "backoff"
  /\ pc' = "poll"
  /\ attempt' = attempt + 1
  /\ UNCHANGED <<ctxDone, enabled, fsm, session, armed, fails, gaveUp, loopVars,
                 stopVars>>

-----------------------------------------------------------------------------
(* The loops of a viewer, Stop and the context.                              *)

\* A loop ends, by an error or because its context is done, and sends.
LoopEnds(s, l) ==
  /\ l \in loops[s] /\ errs[s] < ErrCap
  /\ loops' = [loops EXCEPT ![s] = @ \ {l}]
  /\ errs' = [errs EXCEPT ![s] = @ + 1]
  /\ UNCHANGED <<ctxDone, runnerVars, stopVars>>

StopForces ==
  /\ ~stopping
  /\ stopping' = TRUE /\ stopCalled' = TRUE
  /\ fsm' = "stopped"
  /\ UNCHANGED <<ctxDone, enabled, pc, attempt, session, armed, fails, gaveUp, loopVars,
                 cancelled>>

\* Mutant: v.cancel is taken to be set whenever there is a viewer.
StopInner_NoNilCheck ==
  /\ stopping
  /\ stopping' = FALSE
  /\ cancelled' = cancelled \cup ({session} \cap Sessions)
  /\ UNCHANGED <<ctxDone, runnerVars, loopVars, stopCalled>>

\* inner.Stop: v.cancel may still be nil; then nothing happens.
StopInner ==
  /\ stopping
  /\ stopping' = FALSE
  /\ cancelled' = cancelled \cup ({session} \cap armed)
  /\ UNCHANGED <<ctxDone, runnerVars, loopVars, stopCalled>>

Cancel ==
  /\ ~ctxDone /\ ctxDone' = TRUE
  /\ UNCHANGED <<runnerVars, loopVars, stopVars>>

Runner ==
  \/ Poll \/ ConnectFails \/ ConnectSucceeds \/ ViewerStarts \/ SetupFails
  \/ SetupSucceeds \/ ViewerReturns \/ AfterViewer \/ Backoff

Next ==
  \/ Runner
  \/ \E s \in Sessions, l \in Loops : LoopEnds(s, l)
  \/ StopForces \/ StopInner \/ Cancel

Spec == Init /\ [][Next]_vars

\* The runner is scheduled; a loop has to end only when its context is done.
FairSpec ==
  /\ Spec
  /\ WF_vars(Runner)
  /\ WF_vars(StopInner)
  /\ \A s \in Sessions, l \in Loops : WF_vars(SessionDone(s) /\ LoopEnds(s, l))

-----------------------------------------------------------------------------
(* Properties.                                                               *)

\* errCh has room for every loop of its viewer, so no loop goroutine stays
\* blocked on its send after Start stopped receiving.
LoopsNeverBlock == \A s \in Sessions : errs[s] + Cardinality(loops[s]) <= ErrCap

\* Start gives up only after MaxAttempts attempts in a row came to nothing: a
\* viewer that was active once resets the count, whatever ended it.
NeverGivesUpEarly == gaveUp => fails >= MaxAttempts

\* A worker whose Start has returned is not shown as connecting or active,
\* whenever Stop and the context interfere.
FinishedIsNotActive == (pc = "returned" /\ enabled) => fsm \notin {"connecting", "active"}

\* As long as nobody calls Stop, the states forced upon the fsm follow its
\* table, but for the retry after a failed connect (error -> connecting).
OnlyRetryLeavesTable ==
  [][~stopCalled' /\ fsm' # fsm =>
       fsm' \in ValidTransitions[fsm] \/ <<fsm, fsm'>> = <<"error", "connecting">>]_vars

\* Once the context is done, Start returns and every loop of every viewer ends,
\* those of viewers that had returned before included.
EverythingEnds ==
  ctxDone ~> (pc = "returned" /\ \A s \in Sessions : loops[s] = {})

\* A viewer that Stop reached ends all its loops, whether or not it was still
\* the current one.
StoppedViewerEnds == \A s \in Sessions : s \in cancelled ~> loops[s] = {}

\* What MaxAttempts says: the number of attempts in a row that come to nothing
\* is limited.
AttemptsBounded == (enabled /\ MaxAttempts > 0) => fails <= MaxAttempts + 1

\* The engine's view of this worker.  Without reconnection there is one attempt,
\* whose viewer the engine's loop need not see.
LoopPC ==
  CASE pc = "returned" -> "exiting"
    [] pc \in {"poll", "connect", "backoff"} \/ (pc # "returned" /\ ~enabled) -> "loop"
    [] OTHER -> IF session \in cancelled THEN "ending" ELSE "active"

Loop == INSTANCE WorkerLoop WITH wpc <- LoopPC, ctxDone <- ctxDone

\* ReconnectingViewer does what Engine's worker actions say.
ImplementsWorkerLoop == Loop!LoopSpec
=============================================================================
