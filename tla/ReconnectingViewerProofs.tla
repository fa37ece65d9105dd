---------------------- MODULE ReconnectingViewerProofs ----------------------
(***************************************************************************)
(* Theorems about module ReconnectingViewer, for every MaxAttempts, any    *)
(* number of viewers and loops, and whether or not Connect can fail.       *)
(***************************************************************************)
EXTENDS ReconnectingViewer, FiniteSetTheorems, TLAPS

-----------------------------------------------------------------------------
(* Type correctness.                                                         *)

\* The type invariant in parts.
ControlOK == fsm \in Status /\ pc \in PCs
CountsOK == attempt \in Nat /\ fails \in Nat
SessionsOK == session \in 0..MaxSessions /\ armed \subseteq 1..session /\ cancelled \subseteq armed
LoopsOK == loops \in [Sessions -> SUBSET Loops] /\ errs \in [Sessions -> 0..ErrCap]
FlagsOK ==
  /\ enabled \in BOOLEAN /\ ctxDone \in BOOLEAN /\ stopping \in BOOLEAN
  /\ stopCalled \in BOOLEAN /\ gaveUp \in BOOLEAN

LEMMA TypeParts == TypeOK <=> ControlOK /\ CountsOK /\ SessionsOK /\ LoopsOK /\ FlagsOK
BY DEF TypeOK, ControlOK, CountsOK, SessionsOK, LoopsOK, FlagsOK

\* The steps, all at once.
LEMMA Steps ==
  ASSUME [Next]_vars
  PROVE  \/ Poll \/ ConnectFails \/ ConnectSucceeds \/ ViewerStarts \/ SetupFails
         \/ SetupSucceeds \/ ViewerReturns \/ AfterViewer \/ Backoff
         \/ \E s \in Sessions, l \in Loops : LoopEnds(s, l)
         \/ StopForces \/ StopInner \/ Cancel \/ UNCHANGED vars
BY DEF Next, Runner

LEMMA NextControlOK == ASSUME ControlOK, [Next]_vars PROVE ControlOK'
<1> USE DEF ControlOK, Status, PCs
<1>1. CASE Poll
      BY <1>1 DEF Poll, ForceState
<1>2. CASE ConnectFails \/ ConnectSucceeds
      BY <1>2 DEF ConnectFails, ConnectSucceeds, ForceState, ShouldGiveUp
<1>3. CASE ViewerStarts \/ SetupFails \/ SetupSucceeds \/ ViewerReturns
      BY <1>3 DEF ViewerStarts, SetupFails, SetupSucceeds, ViewerReturns
<1>4. CASE AfterViewer
      BY <1>4 DEF AfterViewer, ForceState, ShouldGiveUp
<1>5. CASE Backoff \/ StopForces
      BY <1>5 DEF Backoff, StopForces
<1>6. CASE UNCHANGED <<fsm, pc>>
      BY <1>6
<1> QED
  BY Steps, <1>1, <1>2, <1>3, <1>4, <1>5, <1>6
     DEF LoopEnds, StopInner, Cancel, vars, runnerVars

LEMMA NextCountsOK == ASSUME CountsOK, [Next]_vars PROVE CountsOK'
<1> USE DEF CountsOK
<1>1. CASE ConnectFails \/ ConnectSucceeds
      BY <1>1 DEF ConnectFails, ConnectSucceeds
<1>2. CASE SetupFails
      BY <1>2 DEF SetupFails
<1>3. CASE SetupSucceeds
      BY <1>3 DEF SetupSucceeds
<1>4. CASE Backoff
      BY <1>4 DEF Backoff
<1>5. CASE UNCHANGED <<attempt, fails>>
      BY <1>5
<1> QED
  BY Steps, <1>1, <1>2, <1>3, <1>4, <1>5
     DEF Poll, ViewerStarts, ViewerReturns, AfterViewer, LoopEnds, StopForces, StopInner,
         Cancel, vars, runnerVars

\* Between Connect and the next backoff there is a viewer.
HasSession == pc \in {"connected", "setup", "running", "viewerReturned"} => session # 0

LEMMA NextHasSession ==
  ASSUME SessionsOK, HasSession, [Next]_vars
  PROVE  HasSession'
<1> USE DEF HasSession
<1>1. CASE ConnectSucceeds
      BY <1>1, ViewerConstants DEF ViewerConstants, ConnectSucceeds, SessionsOK
<1>2. CASE Poll \/ ConnectFails \/ Backoff
      BY <1>2 DEF Poll, ConnectFails, Backoff
<1>3. CASE ViewerStarts \/ SetupFails \/ SetupSucceeds \/ ViewerReturns
      BY <1>3 DEF ViewerStarts, SetupFails, SetupSucceeds, ViewerReturns
<1>4. CASE AfterViewer
      BY <1>4 DEF AfterViewer
<1>5. CASE UNCHANGED <<pc, session>>
      BY <1>5
<1> QED
  BY Steps, <1>1, <1>2, <1>3, <1>4, <1>5
     DEF LoopEnds, StopForces, StopInner, Cancel, vars, runnerVars

LEMMA NextSessionsOK == ASSUME SessionsOK, HasSession, [Next]_vars PROVE SessionsOK'
<1> USE DEF SessionsOK
<1>1. CASE ConnectSucceeds
      BY <1>1, ViewerConstants DEF ViewerConstants, ConnectSucceeds, stopVars
<1>2. CASE ViewerStarts
  <2>1. armed' = armed \cup {session} /\ UNCHANGED <<session, cancelled>>
        BY <1>2 DEF ViewerStarts, stopVars
  <2>2. session \in 1..session
        BY <1>2, ViewerConstants DEF ViewerConstants, HasSession, ViewerStarts
  <2> QED
    BY <2>1, <2>2
<1>3. CASE StopInner
      BY <1>3 DEF StopInner, runnerVars
<1>4. CASE UNCHANGED <<session, armed, cancelled>>
      BY <1>4
<1>5. ASSUME NEW s \in Sessions, NEW l \in Loops, LoopEnds(s, l)
      PROVE  UNCHANGED <<session, armed, cancelled>>
      BY <1>5 DEF LoopEnds, runnerVars, stopVars
<1> QED
  BY Steps, <1>1, <1>2, <1>3, <1>4, <1>5
     DEF Poll, ConnectFails, SetupFails, SetupSucceeds, ViewerReturns, AfterViewer, Backoff,
         StopForces, Cancel, runnerVars, stopVars, vars

LEMMA NextLoopsOK ==
  ASSUME SessionsOK, LoopsOK, HasSession, [Next]_vars
  PROVE  LoopsOK'
<1> USE ViewerConstants DEF LoopsOK, ViewerConstants
<1>1. CASE SetupSucceeds
      BY <1>1 DEF SetupSucceeds
<1>2. CASE ViewerReturns
  <2>1. session \in Sessions
        BY <1>2 DEF ViewerReturns, HasSession, SessionsOK, Sessions
  <2>2. CASE errs' = errs
        BY <1>2, <2>2 DEF ViewerReturns
  <2>3. CASE errs[session] > 0 /\ errs' = [errs EXCEPT ![session] = @ - 1]
    <3>1. errs[session] - 1 \in 0..ErrCap
          BY <2>1, <2>3
    <3> QED
      BY <1>2, <2>3, <3>1 DEF ViewerReturns
  <2> QED
    BY <1>2, <2>2, <2>3 DEF ViewerReturns
<1>3. ASSUME NEW s \in Sessions, NEW l \in Loops, LoopEnds(s, l) PROVE LoopsOK'
      BY <1>3 DEF LoopEnds
<1>4. CASE UNCHANGED loopVars
      BY <1>4 DEF loopVars
<1> QED
  BY Steps, <1>1, <1>2, <1>3, <1>4
     DEF Poll, ConnectFails, ConnectSucceeds, ViewerStarts, SetupFails, AfterViewer, Backoff,
         StopForces, StopInner, Cancel, vars

LEMMA NextFlagsOK == ASSUME FlagsOK, [Next]_vars PROVE FlagsOK'
<1> USE DEF FlagsOK, stopVars, runnerVars
<1>1. CASE StopForces \/ StopInner \/ Cancel
      BY <1>1 DEF StopForces, StopInner, Cancel
<1>2. CASE ConnectFails
      BY <1>2 DEF ConnectFails
<1>3. CASE AfterViewer
      BY <1>3 DEF AfterViewer, ShouldGiveUp
<1>4. CASE UNCHANGED <<enabled, ctxDone, stopping, stopCalled, gaveUp>>
      BY <1>4
<1> QED
  BY Steps, <1>1, <1>2, <1>3, <1>4
     DEF Poll, ConnectSucceeds, ViewerStarts, SetupFails, SetupSucceeds, ViewerReturns,
         Backoff, LoopEnds, vars

Typed == TypeOK /\ HasSession

LEMMA InitTyped == Init => Typed
<1>1. Init => ControlOK /\ CountsOK /\ HasSession
      BY DEF Init, ControlOK, CountsOK, HasSession, Status, PCs
<1>2. Init => FlagsOK
      BY DEF Init, FlagsOK
<1>3. Init => SessionsOK /\ LoopsOK
      BY ViewerConstants DEF ViewerConstants, Init, SessionsOK, LoopsOK
<1> QED
  BY <1>1, <1>2, <1>3, TypeParts DEF Typed

LEMMA NextTyped == Typed /\ [Next]_vars => Typed'
<1>1. TypeOK' <=> (ControlOK /\ CountsOK /\ SessionsOK /\ LoopsOK /\ FlagsOK)'
      BY TypeParts, PTL
<1> QED
  BY <1>1, TypeParts, NextControlOK, NextCountsOK, NextSessionsOK, NextLoopsOK, NextFlagsOK,
     NextHasSession DEF Typed

\* Every variable keeps its type: Stop only ever cancels a viewer that has been
\* started, and a viewer is started only when there is one.
THEOREM TypeCorrect == Spec => []TypeOK
<1>1. Spec => []Typed
      BY InitTyped, NextTyped, PTL DEF Spec
<1>2. Typed => TypeOK
      BY DEF Typed
<1> QED
  BY <1>1, <1>2, PTL

LEMMA AlwaysTyped == Spec => []Typed
BY InitTyped, NextTyped, PTL DEF Spec

-----------------------------------------------------------------------------
(* The error channel of a viewer.                                            *)

\* A viewer has no loops and no results before its setup is over.
Fresh ==
  \A s \in Sessions :
    s > session \/ (s = session /\ pc \in {"connected", "setup"})
      => errs[s] = 0 /\ loops[s] = {}

LEMMA NextFresh == ASSUME Typed, Fresh, [Next]_vars PROVE Fresh'
<1> USE DEF Fresh
<1>0. session \in Nat /\ (\A s \in Sessions : s \in Nat) /\ LoopsOK
      BY ViewerConstants, TypeParts DEF ViewerConstants, Typed, SessionsOK, Sessions
<1>1. ASSUME session' = session, UNCHANGED loopVars,
             pc' \in {"connected", "setup"} => pc \in {"connected", "setup"}
      PROVE  Fresh'
      BY <1>1 DEF loopVars
<1>2. CASE ConnectSucceeds
  <2>1. session' = session + 1 /\ UNCHANGED loopVars
        BY <1>2 DEF ConnectSucceeds
  <2>2. \A s \in Sessions : s > session' \/ s = session' => s > session
        BY <2>1, <1>0
  <2> QED
    BY <2>1, <2>2 DEF loopVars
<1>3. CASE SetupSucceeds
  <2>1. /\ UNCHANGED <<session, errs>> /\ pc' = "running"
        /\ loops' = [loops EXCEPT ![session] = Loops]
        BY <1>3 DEF SetupSucceeds
  <2>2. \A s \in Sessions : s > session => s # session
        BY <1>0
  <2> QED
    BY <1>0, <2>1, <2>2 DEF LoopsOK
<1>4. CASE ViewerReturns
  <2>1. /\ UNCHANGED <<session, loops>> /\ pc' = "viewerReturned"
        /\ errs' = errs \/ errs' = [errs EXCEPT ![session] = @ - 1]
        BY <1>4 DEF ViewerReturns
  <2>2. \A s \in Sessions : s > session => s # session
        BY <1>0
  <2> QED
    BY <1>0, <2>1, <2>2 DEF LoopsOK
<1>5. ASSUME NEW t \in Sessions, NEW l \in Loops, LoopEnds(t, l) PROVE Fresh'
  <2>1. /\ UNCHANGED <<session, pc>> /\ l \in loops[t]
        /\ loops' = [loops EXCEPT ![t] = @ \ {l}]
        /\ errs' = [errs EXCEPT ![t] = @ + 1]
        BY <1>5 DEF LoopEnds, runnerVars
  <2> QED
    BY <1>0, <2>1 DEF LoopsOK
<1>6. CASE ViewerStarts
      BY <1>1, <1>6 DEF ViewerStarts
<1>7. CASE Poll \/ ConnectFails \/ SetupFails \/ Backoff
      BY <1>1, <1>7 DEF Poll, ConnectFails, SetupFails, Backoff
<1>8. CASE AfterViewer
      BY <1>1, <1>8 DEF AfterViewer
<1>9. CASE StopForces \/ StopInner \/ Cancel \/ UNCHANGED vars
      BY <1>1, <1>9 DEF StopForces, StopInner, Cancel, vars, runnerVars
<1> QED
  BY Steps, <1>2, <1>3, <1>4, <1>5, <1>6, <1>7, <1>8, <1>9

LEMMA NextLoopsNeverBlock ==
  ASSUME Typed, Fresh, LoopsNeverBlock, [Next]_vars, Cardinality(Loops) <= ErrCap
  PROVE  LoopsNeverBlock'
<1> USE DEF LoopsNeverBlock
<1>0. /\ LoopsOK /\ session \in Nat /\ ErrCap \in Nat
      /\ (pc \in {"setup", "running"} => session \in Sessions)
  <2>1. SessionsOK /\ LoopsOK /\ HasSession
        BY TypeParts DEF Typed
  <2> QED
    BY <2>1, ViewerConstants DEF ViewerConstants, SessionsOK, HasSession, Sessions
<1>1. \A s \in Sessions : /\ errs[s] \in Nat /\ IsFiniteSet(loops[s])
                         /\ Cardinality(loops[s]) \in Nat
      BY <1>0, ViewerConstants, FS_Subset, FS_CardinalityType DEF ViewerConstants, LoopsOK
<1>2. CASE SetupSucceeds
  <2>1. session \in Sessions /\ errs[session] = 0
        BY <1>0, <1>2 DEF SetupSucceeds, Fresh
  <2>2. errs' = errs /\ loops' = [loops EXCEPT ![session] = Loops]
        BY <1>2 DEF SetupSucceeds
  <2>3. Cardinality(Loops) \in Nat
        BY ViewerConstants, FS_CardinalityType DEF ViewerConstants
  <2>4. \A s \in Sessions : s # session => loops'[s] = loops[s]
        BY <1>0, <2>2 DEF LoopsOK
  <2>5. loops'[session] = Loops
        BY <1>0, <2>1, <2>2 DEF LoopsOK
  <2>6. errs'[session] + Cardinality(loops'[session]) <= ErrCap
        BY <2>1, <2>2, <2>3, <2>5
  <2> QED
    BY <2>2, <2>4, <2>6
<1>3. CASE ViewerReturns
  <2>1. loops' = loops /\ (errs' = errs \/ errs' = [errs EXCEPT ![session] = @ - 1])
        BY <1>3 DEF ViewerReturns
  <2>2. \A s \in Sessions : errs'[s] = errs[s] \/ errs'[s] = errs[s] - 1
        BY <1>0, <2>1 DEF LoopsOK
  <2> QED
    BY <1>0, <1>1, <2>1, <2>2
<1>4. ASSUME NEW t \in Sessions, NEW l \in Loops, LoopEnds(t, l) PROVE LoopsNeverBlock'
  <2>1. /\ l \in loops[t] /\ loops' = [loops EXCEPT ![t] = @ \ {l}]
        /\ errs' = [errs EXCEPT ![t] = @ + 1]
        BY <1>4 DEF LoopEnds
  <2>2. Cardinality(loops[t] \ {l}) = Cardinality(loops[t]) - 1
        BY <1>1, <2>1, FS_RemoveElement
  <2>3. errs'[t] = errs[t] + 1 /\ loops'[t] = loops[t] \ {l}
        BY <1>0, <2>1 DEF LoopsOK
  <2>4. \A s \in Sessions : s # t => errs'[s] = errs[s] /\ loops'[s] = loops[s]
        BY <1>0, <2>1 DEF LoopsOK
  <2>5. errs'[t] + Cardinality(loops'[t]) = errs[t] + Cardinality(loops[t])
        BY <1>1, <2>2, <2>3
  <2> QED
    BY <2>4, <2>5
<1>5. CASE UNCHANGED loopVars
      BY <1>5 DEF loopVars
<1> QED
  BY Steps, <1>2, <1>3, <1>4, <1>5
     DEF Poll, ConnectFails, ConnectSucceeds, ViewerStarts, SetupFails, AfterViewer, Backoff,
         StopForces, StopInner, Cancel, vars

\* If errCh has room for one result of each loop, no loop ever waits to send
\* its own: not those of a viewer that was stopped, failed or was replaced.
THEOREM SendsDoNotBlock ==
  ASSUME Cardinality(Loops) <= ErrCap
  PROVE  Spec => []LoopsNeverBlock
<1>1. Init => Fresh /\ LoopsNeverBlock
      BY FS_EmptySet, ViewerConstants DEF ViewerConstants, Init, Fresh, LoopsNeverBlock
<1>2. Typed /\ Fresh /\ [Next]_vars => Fresh'
      BY NextFresh
<1>3. Typed /\ Fresh /\ LoopsNeverBlock /\ [Next]_vars => LoopsNeverBlock'
      BY NextLoopsNeverBlock
<1> QED
  BY <1>1, <1>2, <1>3, AlwaysTyped, PTL DEF Spec

-----------------------------------------------------------------------------
(* Giving up.                                                                *)

\* attempt counts failed attempts in a row, but for the one during whose
\* backoff the count of a viewer that had been active starts over.
AttemptsAreFails ==
  /\ pc \in {"poll", "connect"} => attempt <= fails + 1
  /\ pc = "backoff" => attempt <= fails
  /\ pc \in {"connected", "setup", "running", "viewerReturned"} => attempt = 0
  /\ gaveUp => pc = "returned"

LEMMA NextAttemptsAreFails ==
  ASSUME Typed, AttemptsAreFails, [Next]_vars
  PROVE  AttemptsAreFails'
<1> USE DEF AttemptsAreFails
<1>0. attempt \in Nat /\ fails \in Nat /\ MaxAttempts \in Nat
      BY TypeParts, ViewerConstants DEF Typed, CountsOK, ViewerConstants
<1>1. CASE Poll
      BY <1>1 DEF Poll
<1>2. CASE ConnectFails
  <2>1. pc = "connect" /\ attempt' = attempt /\ fails' = fails + 1
        BY <1>2 DEF ConnectFails
  <2>2. attempt' <= fails'
        BY <1>0, <2>1
  <2>3. pc' \in {"backoff", "returned"} /\ (gaveUp' => gaveUp \/ pc' = "returned")
        BY <1>2 DEF ConnectFails
  <2> QED
    BY <2>1, <2>2, <2>3
<1>3. CASE ConnectSucceeds
      BY <1>3 DEF ConnectSucceeds
<1>4. CASE ViewerStarts \/ SetupFails \/ SetupSucceeds \/ ViewerReturns
      BY <1>4 DEF ViewerStarts, SetupFails, SetupSucceeds, ViewerReturns
<1>5. CASE AfterViewer
  <2>1. attempt = 0 /\ attempt' = 0 /\ fails' = fails /\ ~gaveUp
        BY <1>5 DEF AfterViewer
  <2>2. ~ShouldGiveUp
        BY <1>0, <2>1 DEF ShouldGiveUp
  <2>3. pc' \in {"backoff", "returned"} /\ ~gaveUp'
        BY <1>5, <2>1, <2>2 DEF AfterViewer
  <2> QED
    BY <1>0, <2>1, <2>3
<1>6. CASE Backoff
  <2>1. /\ pc = "backoff" /\ attempt' = attempt + 1 /\ fails' = fails /\ gaveUp' = gaveUp
        /\ pc' = "poll"
        BY <1>6 DEF Backoff
  <2>2. attempt' <= fails' + 1
        BY <1>0, <2>1
  <2> QED
    BY <2>1, <2>2
<1>7. CASE UNCHANGED runnerVars
      BY <1>7 DEF runnerVars
<1>8. CASE StopForces
      BY <1>8 DEF StopForces
<1> QED
  BY Steps, <1>1, <1>2, <1>3, <1>4, <1>5, <1>6, <1>7, <1>8
     DEF LoopEnds, StopInner, Cancel, vars

LEMMA NextNeverGivesUpEarly ==
  ASSUME Typed, AttemptsAreFails, NeverGivesUpEarly, [Next]_vars
  PROVE  NeverGivesUpEarly'
<1> USE DEF NeverGivesUpEarly
<1>0. attempt \in Nat /\ fails \in Nat /\ MaxAttempts \in Nat
      BY TypeParts, ViewerConstants DEF Typed, CountsOK, ViewerConstants
<1>1. CASE ConnectFails
  <2>1. pc = "connect" /\ fails' = fails + 1
        BY <1>1 DEF ConnectFails
  <2>2. ~gaveUp
        BY <2>1 DEF AttemptsAreFails
  <2>3. CASE ShouldGiveUp
    <3>1. attempt >= MaxAttempts /\ attempt <= fails + 1
          BY <2>1, <2>3 DEF ShouldGiveUp, AttemptsAreFails
    <3> QED
      BY <1>0, <2>1, <3>1
  <2>4. CASE ~ShouldGiveUp
        BY <1>1, <2>2, <2>4 DEF ConnectFails
  <2> QED
    BY <2>3, <2>4
<1>2. CASE SetupFails \/ SetupSucceeds
      BY <1>2 DEF SetupFails, SetupSucceeds, AttemptsAreFails
<1>3. CASE AfterViewer
  <2>1. ~gaveUp /\ attempt = 0
        BY <1>3 DEF AfterViewer, AttemptsAreFails
  <2>2. ~ShouldGiveUp
        BY <1>0, <2>1 DEF ShouldGiveUp
  <2> QED
    BY <1>3, <2>1, <2>2 DEF AfterViewer
<1>4. CASE UNCHANGED <<fails, gaveUp>>
      BY <1>4
<1> QED
  BY Steps, <1>1, <1>2, <1>3, <1>4
     DEF Poll, ConnectSucceeds, ViewerStarts, ViewerReturns, Backoff, LoopEnds, StopForces,
         StopInner, Cancel, vars, runnerVars

\* Start never returns for want of attempts before MaxAttempts attempts in a
\* row have come to nothing, in particular not because of attempts made before
\* the last time a viewer was active.
THEOREM GivesUpLate == Spec => []NeverGivesUpEarly
<1>1. Init => AttemptsAreFails /\ NeverGivesUpEarly
      BY DEF Init, AttemptsAreFails, NeverGivesUpEarly
<1>2. Typed /\ AttemptsAreFails /\ [Next]_vars => AttemptsAreFails'
      BY NextAttemptsAreFails
<1>3. Typed /\ AttemptsAreFails /\ NeverGivesUpEarly /\ [Next]_vars => NeverGivesUpEarly'
      BY NextNeverGivesUpEarly
<1> QED
  BY <1>1, <1>2, <1>3, AlwaysTyped, PTL DEF Spec

-----------------------------------------------------------------------------
(* The state machine.                                                        *)

\* What fsm shows at each point of Start; a Stop may force "stopped" anywhere.
Shown ==
  IF enabled
  THEN /\ pc \in {"poll", "backoff"} => fsm \in {"idle", "error", "reconnecting", "stopped"}
       /\ pc = "connect" => fsm \in {"connecting", "stopped"}
       /\ pc \in {"connected", "setup", "running", "viewerReturned"}
            => fsm \in {"active", "stopped"}
       /\ pc = "returned" => fsm \notin {"connecting", "active"}
  ELSE fsm \in {"idle", "stopped"}

\* Without a Stop, only the end of Start is shown as stopped.
StoppedIsLast == ~stopCalled /\ fsm = "stopped" => pc = "returned"

LEMMA NextShown == ASSUME Typed, AttemptsAreFails, Shown, [Next]_vars PROVE Shown'
<1> USE DEF Shown
<1>1. CASE Poll
      BY <1>1 DEF Poll, ForceState
<1>2. CASE ConnectFails
      BY <1>2 DEF ConnectFails, ForceState
<1>3. CASE ConnectSucceeds
      BY <1>3 DEF ConnectSucceeds, ForceState
<1>4. CASE ViewerStarts \/ SetupFails \/ SetupSucceeds \/ ViewerReturns
      BY <1>4 DEF ViewerStarts, SetupFails, SetupSucceeds, ViewerReturns
<1>5. CASE AfterViewer
      BY <1>5 DEF AfterViewer, ForceState
<1>6. CASE Backoff
      BY <1>6 DEF Backoff
<1>7. CASE StopForces
      BY <1>7 DEF StopForces
<1>8. CASE UNCHANGED runnerVars
      BY <1>8 DEF runnerVars
<1> QED
  BY Steps, <1>1, <1>2, <1>3, <1>4, <1>5, <1>6, <1>7, <1>8
     DEF LoopEnds, StopInner, Cancel, vars

LEMMA NextStoppedIsLast ==
  ASSUME StoppedIsLast, [Next]_vars
  PROVE  StoppedIsLast'
<1> USE DEF StoppedIsLast, stopVars
<1>1. CASE Poll
      BY <1>1 DEF Poll, ForceState
<1>2. CASE ConnectFails
      BY <1>2 DEF ConnectFails, ForceState
<1>3. CASE ConnectSucceeds
      BY <1>3 DEF ConnectSucceeds, ForceState
<1>4. CASE ViewerStarts \/ SetupFails \/ SetupSucceeds
      BY <1>4 DEF ViewerStarts, SetupFails, SetupSucceeds
<1>5. CASE AfterViewer
      BY <1>5 DEF AfterViewer, ForceState
<1>6. CASE ViewerReturns \/ Backoff
      BY <1>6 DEF ViewerReturns, Backoff
<1>7. CASE StopForces
      BY <1>7 DEF StopForces
<1>8. CASE UNCHANGED runnerVars /\ UNCHANGED stopCalled
      BY <1>8 DEF runnerVars
<1> QED
  BY Steps, <1>1, <1>2, <1>3, <1>4, <1>5, <1>6, <1>7, <1>8
     DEF LoopEnds, StopInner, Cancel, vars

LEMMA AlwaysShown == Spec => [](AttemptsAreFails /\ Shown /\ StoppedIsLast)
<1>1. Init => AttemptsAreFails /\ Shown /\ StoppedIsLast
      BY DEF Init, AttemptsAreFails, Shown, StoppedIsLast
<1> QED
  BY <1>1, NextAttemptsAreFails, NextShown, NextStoppedIsLast, AlwaysTyped, PTL DEF Spec

\* Whenever Stop and the cancelling of the context fall between the steps of
\* Start, a worker whose Start has returned is not shown as working.
THEOREM FinishedIsShown == Spec => []FinishedIsNotActive
<1>1. Shown => FinishedIsNotActive
      BY DEF Shown, FinishedIsNotActive
<1> QED
  BY <1>1, AlwaysShown, PTL

\* As long as Stop is not called, Start forces the state along the table of
\* valid transitions, but for the retry after a failed connect.
THEOREM FollowsTable == Spec => OnlyRetryLeavesTable
<1> DEFINE Follows ==
      ~stopCalled' /\ fsm' # fsm =>
        fsm' \in ValidTransitions[fsm] \/ <<fsm, fsm'>> = <<"error", "connecting">>
<1>1. ASSUME AttemptsAreFails, Shown, StoppedIsLast, Typed, [Next]_vars, ~stopCalled',
             fsm' # fsm
      PROVE  fsm' \in ValidTransitions[fsm] \/ <<fsm, fsm'>> = <<"error", "connecting">>
  <2>0. /\ "connecting" \in ValidTransitions["idle"]
        /\ "connecting" \in ValidTransitions["reconnecting"]
        /\ {"active", "error"} \subseteq ValidTransitions["connecting"]
        /\ {"reconnecting", "stopped", "error"} \subseteq ValidTransitions["active"]
        BY DEF ValidTransitions, Status
  <2>1. fsm = "stopped" => pc = "returned"
    <3>1. ~stopCalled
          BY <1>1, Steps DEF Poll, ConnectFails, ConnectSucceeds, ViewerStarts, SetupFails,
             SetupSucceeds, ViewerReturns, AfterViewer, Backoff, LoopEnds, StopForces,
             StopInner, Cancel, vars, stopVars
    <3> QED
      BY <1>1, <3>1 DEF StoppedIsLast
  <2>2. CASE Poll
    <3>1. enabled /\ fsm' = "connecting" /\ pc = "poll"
          BY <1>1, <2>2 DEF Poll, ForceState
    <3>2. fsm \in {"idle", "error", "reconnecting"}
          BY <1>1, <2>1, <3>1 DEF Shown
    <3> QED
      BY <2>0, <3>1, <3>2
  <2>3. CASE ConnectFails
    <3>1. enabled /\ fsm' = "error" /\ pc = "connect"
          BY <1>1, <2>3 DEF ConnectFails, ForceState
    <3>2. fsm = "connecting"
          BY <1>1, <2>1, <3>1 DEF Shown
    <3> QED
      BY <2>0, <3>1, <3>2
  <2>4. CASE ConnectSucceeds
    <3>1. enabled /\ fsm' = "active" /\ pc = "connect"
          BY <1>1, <2>4 DEF ConnectSucceeds, ForceState
    <3>2. fsm = "connecting"
          BY <1>1, <2>1, <3>1 DEF Shown
    <3> QED
      BY <2>0, <3>1, <3>2
  <2>5. CASE AfterViewer
    <3>1. enabled /\ fsm' \in {"stopped", "error", "reconnecting"} /\ pc = "viewerReturned"
          BY <1>1, <2>5 DEF AfterViewer, ForceState
    <3>2. fsm = "active"
          BY <1>1, <2>1, <3>1 DEF Shown
    <3> QED
      BY <2>0, <3>1, <3>2
  <2>6. CASE StopForces
        BY <1>1, <2>6 DEF StopForces
  <2> QED
    BY <1>1, Steps, <2>2, <2>3, <2>4, <2>5, <2>6
       DEF ViewerStarts, SetupFails, SetupSucceeds, ViewerReturns, Backoff, LoopEnds, StopInner,
           Cancel, vars, runnerVars
<1>2. AttemptsAreFails /\ Shown /\ StoppedIsLast /\ Typed /\ [Next]_vars => [Follows]_vars
      BY <1>1
<1> QED
  BY <1>2, AlwaysShown, AlwaysTyped, PTL DEF Spec, OnlyRetryLeavesTable

-----------------------------------------------------------------------------
(* ReconnectingViewer is the worker loop of module Engine.                   *)

\* The engine's view, without CASE.
LEMMA LoopPCIs ==
  /\ pc = "returned" => LoopPC = "exiting"
  /\ pc \in {"poll", "connect", "backoff"} => LoopPC = "loop"
  /\ pc # "returned" /\ ~enabled => LoopPC = "loop"
  /\ enabled /\ pc \in {"connected", "setup", "running", "viewerReturned"}
       => LoopPC = IF session \in cancelled THEN "ending" ELSE "active"
BY DEF LoopPC

LEMMA LoopPCNext ==
  /\ pc' = "returned" => LoopPC' = "exiting"
  /\ pc' \in {"poll", "connect", "backoff"} => LoopPC' = "loop"
  /\ pc' # "returned" /\ ~enabled' => LoopPC' = "loop"
  /\ enabled' /\ pc' \in {"connected", "setup", "running", "viewerReturned"}
       => LoopPC' = IF session' \in cancelled' THEN "ending" ELSE "active"
BY DEF LoopPC

LEMMA StepIsLoopStep ==
  ASSUME Typed, AttemptsAreFails, [Next]_vars
  PROVE  [Loop!LoopNext]_(Loop!loopVars)
<1> USE LoopPCIs, LoopPCNext
    DEF Loop!LoopNext, Loop!loopVars, Loop!Leave, Loop!Connect, Loop!ViewerEnds, Loop!Told,
        Loop!Cancelled
<1>1. CASE Poll
      BY <1>1 DEF Poll
<1>2. CASE ConnectFails
      BY <1>2 DEF ConnectFails
<1>3. CASE ConnectSucceeds
  <2>1. session + 1 \notin cancelled
        BY TypeParts, ViewerConstants DEF Typed, SessionsOK, ViewerConstants
  <2> QED
    BY <1>3, <2>1 DEF ConnectSucceeds, stopVars
<1>4. CASE ViewerStarts \/ SetupFails \/ SetupSucceeds
      BY <1>4 DEF ViewerStarts, SetupFails, SetupSucceeds, stopVars
<1>5. CASE ViewerReturns
      BY <1>5 DEF ViewerReturns, stopVars
<1>6. CASE AfterViewer
  <2>1. ~ShouldGiveUp
        BY <1>6, TypeParts, ViewerConstants
           DEF AfterViewer, AttemptsAreFails, ShouldGiveUp, ViewerConstants
  <2> QED
    BY <1>6, <2>1 DEF AfterViewer
<1>7. CASE Backoff
      BY <1>7 DEF Backoff
<1>8. CASE UNCHANGED <<enabled, pc, session, cancelled>>
  <2>1. LoopPC' = LoopPC
        BY <1>8 DEF LoopPC
  <2>2. ctxDone' = ctxDone \/ ctxDone' = TRUE
        BY Steps DEF Poll, ConnectFails, ConnectSucceeds, ViewerStarts, SetupFails,
           SetupSucceeds, ViewerReturns, AfterViewer, Backoff, LoopEnds, StopForces,
           StopInner, Cancel, vars
  <2> QED
    BY <2>1, <2>2
<1>9. CASE StopInner
  <2>1. UNCHANGED <<ctxDone, enabled, pc, session>> /\ cancelled \subseteq cancelled'
        BY <1>9 DEF StopInner, runnerVars
  <2> QED
    BY <2>1, TypeParts DEF Typed, ControlOK, PCs
<1> QED
  BY Steps, <1>1, <1>2, <1>3, <1>4, <1>5, <1>6, <1>7, <1>8, <1>9
     DEF LoopEnds, StopForces, Cancel, vars, runnerVars, stopVars

\* ReconnectingViewer implements the worker loop that module Engine is built on:
\* it leaves only when its context is done or it gives up on connecting, and a
\* viewer that ends for any other reason, Stop included, is replaced.
THEOREM IsWorkerLoop == Spec => ImplementsWorkerLoop
<1>1. Init => Loop!LoopInit
      BY LoopPCIs DEF Init, Loop!LoopInit
<1>2. Typed /\ AttemptsAreFails /\ [Next]_vars => [Loop!LoopNext]_(Loop!loopVars)
      BY StepIsLoopStep
<1> QED
  BY <1>1, <1>2, AlwaysTyped, AlwaysShown, PTL DEF Spec, ImplementsWorkerLoop, Loop!LoopSpec

-----------------------------------------------------------------------------
(* Each of its viewers lives the life of ViewerLife.                         *)

\* Where viewer s is: not created or not started, the current one, or returned.
Stage(s) ==
  IF s > session THEN "new"
  ELSE IF s < session THEN "returned"
  ELSE IF pc = "connected" THEN "new"
  ELSE IF pc \in {"setup", "running"} THEN pc
  ELSE "returned"

Life(s) == INSTANCE ViewerLife WITH
             stage <- Stage(s), over <- SessionDone(s), left <- loops[s], results <- errs[s]

\* Where the runner goes, one viewer is and the others are not.
LEMMA StageNext ==
  ASSUME NEW s \in Sessions, Typed, session' = session
  PROVE  /\ s # session => Stage(s)' = Stage(s)
         /\ UNCHANGED pc => Stage(s)' = Stage(s)
BY TypeParts, ViewerConstants DEF Stage, Typed, SessionsOK, ViewerConstants, Sessions

LEMMA StepIsViewerStep ==
  ASSUME NEW s \in Sessions, Typed, [Next]_vars
  PROVE  [Life(s)!LifeNext]_(Life(s)!lifeVars)
<1> USE DEF Life!LifeNext, Life!lifeVars
<1>1. session \in Nat /\ s \in Nat
      BY TypeParts, ViewerConstants DEF Typed, SessionsOK, ViewerConstants, Sessions
<1>2. loops \in [Sessions -> SUBSET Loops] /\ errs \in [Sessions -> 0..ErrCap]
      BY TypeParts DEF Typed, LoopsOK
<1>3. CASE Poll \/ ConnectFails \/ AfterViewer \/ Backoff
  <2>1. /\ UNCHANGED <<session, loops, errs, ctxDone, cancelled>>
        /\ pc \in {"poll", "connect", "viewerReturned", "backoff"}
        /\ pc' \in {"poll", "connect", "backoff", "returned"}
        BY <1>3 DEF Poll, ConnectFails, AfterViewer, Backoff, loopVars, stopVars
  <2>2. Stage(s)' = Stage(s)
        BY <2>1 DEF Stage
  <2> QED
    BY <2>1, <2>2 DEF SessionDone
<1>4. CASE ConnectSucceeds
  <2>1. /\ pc = "connect" /\ pc' = "connected" /\ session' = session + 1
        /\ UNCHANGED <<loops, errs, ctxDone, cancelled>>
        BY <1>4 DEF ConnectSucceeds, loopVars, stopVars
  <2>2. Stage(s)' = Stage(s)
        BY <1>1, <2>1 DEF Stage
  <2> QED
    BY <2>1, <2>2 DEF SessionDone
<1>5. CASE ViewerStarts
  <2>1. /\ pc = "connected" /\ pc' = "setup"
        /\ UNCHANGED <<session, loops, errs, ctxDone, cancelled>>
        BY <1>5 DEF ViewerStarts, loopVars, stopVars
  <2>2. s = session => Stage(s) = "new" /\ Stage(s)' = "setup"
        BY <1>1, <2>1 DEF Stage
  <2> QED
    BY <2>1, <2>2, StageNext DEF SessionDone, Life!Starts
<1>6. CASE SetupFails
  <2>1. /\ pc = "setup" /\ pc' = "viewerReturned"
        /\ UNCHANGED <<session, loops, errs, ctxDone, cancelled>>
        BY <1>6 DEF SetupFails, loopVars, stopVars
  <2>2. s = session => Stage(s) = "setup" /\ Stage(s)' = "returned"
        BY <1>1, <2>1 DEF Stage
  <2> QED
    BY <2>1, <2>2, StageNext DEF SessionDone, Life!Fails
<1>7. CASE SetupSucceeds
  <2>1. /\ pc = "setup" /\ pc' = "running" /\ loops' = [loops EXCEPT ![session] = Loops]
        /\ UNCHANGED <<session, errs, ctxDone, cancelled>>
        BY <1>7 DEF SetupSucceeds, stopVars
  <2>2. s = session => Stage(s) = "setup" /\ Stage(s)' = "running" /\ loops'[s] = Loops
        BY <1>1, <1>2, <2>1 DEF Stage
  <2>3. s # session => loops'[s] = loops[s]
        BY <1>2, <2>1
  <2> QED
    BY <2>1, <2>2, <2>3, StageNext DEF SessionDone, Life!Succeeds
<1>8. CASE ViewerReturns
  <2>1. /\ pc = "running" /\ pc' = "viewerReturned"
        /\ UNCHANGED <<session, loops, ctxDone, cancelled>>
        /\ \/ errs[session] > 0 /\ errs' = [errs EXCEPT ![session] = @ - 1]
           \/ SessionDone(session) /\ UNCHANGED errs
        BY <1>8 DEF ViewerReturns, stopVars
  <2>2. s = session => Stage(s) = "running" /\ Stage(s)' = "returned"
        BY <1>1, <2>1 DEF Stage
  <2>3. s # session => errs'[s] = errs[s]
        BY <1>2, <2>1
  <2>4. CASE s = session
        BY <1>2, <2>1, <2>2, <2>4 DEF SessionDone, Life!Returns
  <2>5. CASE s # session
        BY <2>1, <2>3, <2>5, StageNext DEF SessionDone
  <2> QED
    BY <2>4, <2>5
<1>9. ASSUME NEW z \in Sessions, NEW l \in Loops, LoopEnds(z, l)
      PROVE  [Life(s)!LifeNext]_(Life(s)!lifeVars)
  <2>1. /\ l \in loops[z] /\ errs[z] < ErrCap
        /\ loops' = [loops EXCEPT ![z] = @ \ {l}] /\ errs' = [errs EXCEPT ![z] = @ + 1]
        /\ UNCHANGED <<session, pc, ctxDone, cancelled>>
        BY <1>9 DEF LoopEnds, runnerVars, stopVars
  <2>2. Stage(s)' = Stage(s) /\ SessionDone(s)' = SessionDone(s)
        BY <2>1 DEF Stage, SessionDone
  <2>3. CASE s = z
    <3>1. loops'[s] = loops[s] \ {l} /\ errs'[s] = errs[s] + 1
          BY <1>2, <2>1, <2>3
    <3> QED
      BY <2>1, <2>2, <2>3, <3>1 DEF Life!LoopEnds
  <2>4. CASE s # z
        BY <1>2, <2>1, <2>2, <2>4
  <2> QED
    BY <2>3, <2>4
<1>10. CASE StopForces \/ UNCHANGED vars
  <2>1. UNCHANGED <<session, pc, loops, errs, ctxDone, cancelled>>
        BY <1>10 DEF StopForces, vars, runnerVars, loopVars, stopVars
  <2> QED
    BY <2>1 DEF Stage, SessionDone
<1>11. CASE StopInner \/ Cancel
  <2>1. /\ UNCHANGED <<session, pc, loops, errs>>
        /\ SessionDone(s)' = SessionDone(s) \/ SessionDone(s)' = TRUE
    <3>1. CASE StopInner
          BY <3>1 DEF StopInner, runnerVars, loopVars, SessionDone
    <3>2. CASE Cancel
          BY <3>2 DEF Cancel, runnerVars, loopVars, stopVars, SessionDone
    <3> QED
      BY <1>11, <3>1, <3>2
  <2>2. Stage(s)' = Stage(s)
        BY <2>1 DEF Stage
  <2> QED
    BY <2>1, <2>2 DEF Life!Over
<1> QED
  BY Steps, <1>3, <1>4, <1>5, <1>6, <1>7, <1>8, <1>9, <1>10, <1>11

\* Every viewer that ReconnectingViewer creates, the replaced ones included, is used as
\* ViewerLife says: started once, its loops begun at the end of a set-up, a result taken
\* by its Start alone, and its context never undone.  KickViewer implements that life.
THEOREM ViewersLive ==
  ASSUME NEW s \in Sessions
  PROVE  Spec => Life(s)!LifeSpec
<1>1. Init => Life(s)!LifeInit
      BY ViewerConstants DEF ViewerConstants, Init, Life!LifeInit, Stage, SessionDone, Sessions
<1>2. Typed /\ [Next]_vars => [Life(s)!LifeNext]_(Life(s)!lifeVars)
      BY StepIsViewerStep
<1> QED
  BY <1>1, <1>2, AlwaysTyped, PTL DEF Spec, Life!LifeSpec
=============================================================================
