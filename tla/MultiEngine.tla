---------------------------- MODULE MultiEngine ----------------------------
(***************************************************************************)
(* The engines of several channels (internal/engine/multi.go).  Every      *)
(* method holds the lock for its whole body, the Start or Stop of the      *)
(* engine included, so each is one action.  Of an engine this module keeps *)
(* the context it was started with and whether its workers go on: Stop and *)
(* the end of that context end them (module Engine has the details, and    *)
(* the workers of a scale-up that Stop misses).  Scheduler is built on     *)
(* these operations.                                                       *)
(***************************************************************************)
CONSTANTS
  Channels,
  Contexts,     \* what an engine can be started with: a client's or a watcher's
  None

VARIABLES
  engines,      \* me.engines: engines[ch] is the context of its engine, or None
  alive,        \* <<ch, x>>: an engine started for ch with context x works
  done          \* contexts that are done

multiVars == <<engines, alive, done>>

MultiTypeOK ==
  /\ engines \in [Channels -> Contexts \cup {None}]
  /\ alive \subseteq Channels \X Contexts
  /\ done \subseteq Contexts

MultiInit ==
  /\ engines = [ch \in Channels |-> None]
  /\ alive = {} /\ done = {}

\* A channel in the map is refused.  An engine started with a context that is
\* done enters the map like any other; its workers end at their first poll.
StartChannel(x, ch) ==
  /\ \/ engines[ch] # None /\ UNCHANGED <<engines, alive>>
     \/ /\ engines[ch] = None
        /\ engines' = [engines EXCEPT ![ch] = x]
        /\ alive' = alive \cup ({<<ch, x>>} \ (Channels \X done))
  /\ UNCHANGED done

StopChannel(ch) ==
  /\ engines' = [engines EXCEPT ![ch] = None]
  /\ alive' = alive \ {<<ch, engines[ch]>>}
  /\ UNCHANGED done

\* Mutant: the map is replaced, the engines are not stopped.
StopAll_Forgets ==
  /\ engines' = [ch \in Channels |-> None]
  /\ UNCHANGED <<alive, done>>

StopAll ==
  /\ engines' = [ch \in Channels |-> None]
  /\ alive' = alive \ {<<ch, engines[ch]>> : ch \in Channels}
  /\ UNCHANGED done

\* Contexts end, and with them the workers that use them; the map stays.
CancelContexts(S) ==
  /\ done' = done \cup S
  /\ alive' = {a \in alive : a[2] \notin S}
  /\ UNCHANGED engines

MultiNext ==
  \/ \E x \in Contexts, ch \in Channels : StartChannel(x, ch)
  \/ \E ch \in Channels : StopChannel(ch)
  \/ StopAll
  \/ \E S \in SUBSET Contexts : CancelContexts(S)

MultiSpec == MultiInit /\ [][MultiNext]_multiVars

-----------------------------------------------------------------------------
\* Every engine that works is the one the map has for its channel: whatever
\* runs can be seen and stopped.
ListedWhileAlive == \A a \in alive : engines[a[1]] = a[2]
=============================================================================
