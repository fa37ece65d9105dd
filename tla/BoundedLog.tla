----------------------------- MODULE BoundedLog -----------------------------
(***************************************************************************)
(* What a log buffer of a fixed capacity promises: it holds the last       *)
(* entries pushed, oldest first, and forgets nothing while there is room.  *)
(* The circular buffer of LogBroadcast implements it.                      *)
(***************************************************************************)
EXTENDS Naturals, Sequences

CONSTANTS Entries, Cap
VARIABLE log

LogInit == log = <<>>

LogPush(e) ==
  log' = LET longer == Append(log, e) IN
         IF Len(longer) > Cap THEN Tail(longer) ELSE longer

LogNext == \E e \in Entries : LogPush(e)

LogSpec == LogInit /\ [][LogNext]_log
=============================================================================
