----------------------------- MODULE WorkerLoop -----------------------------
(***************************************************************************)
(* What module Engine takes a worker goroutine for, up to its deferred     *)
(* Release: a loop that connects, runs a viewer and starts over, which     *)
(* leaves when its context is done or it gives up.  These are the worker   *)
(* actions of Engine for one worker; ReconnectingViewer implements them.   *)
(***************************************************************************)
VARIABLES
  wpc,          \* "loop", "active", "ending" (told to stop) or "exiting"
  ctxDone       \* whether the worker's context is done

loopVars == <<wpc, ctxDone>>

LoopInit == wpc = "loop" /\ ctxDone = FALSE

Leave == wpc = "loop" /\ wpc' = "exiting" /\ UNCHANGED ctxDone
Connect == wpc = "loop" /\ wpc' = "active" /\ UNCHANGED ctxDone

\* Only a context that is done ends the loop when a viewer returns.
ViewerEnds ==
  /\ wpc \in {"active", "ending"}
  /\ wpc' = IF ctxDone THEN "exiting" ELSE "loop"
  /\ UNCHANGED ctxDone

Told == wpc = "active" /\ wpc' = "ending" /\ UNCHANGED ctxDone
Cancelled == ctxDone' = TRUE /\ UNCHANGED wpc

LoopNext == Leave \/ Connect \/ ViewerEnds \/ Told \/ Cancelled

LoopSpec == LoopInit /\ [][LoopNext]_loopVars
=============================================================================
