----------------------------- MODULE ViewerLife -----------------------------
(***************************************************************************)
(* What module ReconnectingViewer takes one viewer for: the actions        *)
(* ViewerStarts, SetupFails, SetupSucceeds, ViewerReturns and LoopEnds for *)
(* one session.  KickViewer implements them.                               *)
(***************************************************************************)
EXTENDS Naturals

CONSTANTS Loops, ErrCap

VARIABLES
  stage,        \* "new", "setup", "running" or "returned"
  over,         \* the viewer's context is done
  left,         \* loops not yet at their send
  results       \* results in errCh

lifeVars == <<stage, over, left, results>>

LifeInit == stage = "new" /\ over = FALSE /\ left = {} /\ results = 0

Starts == stage = "new" /\ stage' = "setup" /\ UNCHANGED <<over, left, results>>
Fails == stage = "setup" /\ stage' = "returned" /\ UNCHANGED <<over, left, results>>
Succeeds == stage = "setup" /\ stage' = "running" /\ left' = Loops /\ UNCHANGED <<over, results>>

\* With a result of a loop, or because its context is done.
Returns ==
  /\ stage = "running" /\ stage' = "returned"
  /\ \/ results > 0 /\ results' = results - 1
     \/ over /\ UNCHANGED results
  /\ UNCHANGED <<over, left>>

LoopEnds ==
  /\ \E l \in left : left' = left \ {l}
  /\ results < ErrCap /\ results' = results + 1
  /\ UNCHANGED <<stage, over>>

Over == over' = TRUE /\ UNCHANGED <<stage, left, results>>

LifeNext == Starts \/ Fails \/ Succeeds \/ Returns \/ LoopEnds \/ Over

LifeSpec == LifeInit /\ [][LifeNext]_lifeVars
=============================================================================
