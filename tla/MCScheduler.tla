----------------------------- MODULE MCScheduler -----------------------------
(* Rules for one channel: the live stream, the same with a max duration, and   *)
(* the night of the first weekday.                                             *)
EXTENDS Scheduler, TLC

CONSTANTS ch, live, brief, night, w1, w2

MCContexts == Clients \cup Watchers

NightAndLive ==
  LET base == [channel |-> ch, trigger |-> "stream_live", limited |-> FALSE,
               enabled |-> TRUE, start |-> 0, stop |-> 0, weekdays |-> {}]
  IN  live :> base
      @@ brief :> [base EXCEPT !.limited = TRUE]
      @@ night :> [base EXCEPT !.trigger = "scheduled", !.start = 1, !.weekdays = {0}]

Symmetry == Permutations(Watchers) \cup Permutations(Clients)
=============================================================================
