------------------------------ MODULE Sessions ------------------------------
(***************************************************************************)
(* The SQLite tables of sessions (internal/storage) and the persister that *)
(* writes them (internal/engine/persistence.go).  Each statement runs by   *)
(* itself on one of the connections of the pool; PRAGMA foreign_keys=ON    *)
(* was run on the first of them only, so a statement on another (fk FALSE) *)
(* neither checks references nor cascades.  A statement that fails changes *)
(* nothing: it is a step that does not happen.                             *)
(***************************************************************************)
EXTENDS Naturals, FiniteSets

CONSTANTS
  ProfileRows,    \* ids of rows of table profiles
  MaxSessions,    \* bound: sessions inserted
  NoSession       \* 0, the persister's id before the first StartSession

ASSUME SessionsAssumption == MaxSessions \in Nat /\ NoSession = 0

VARIABLES
  rows,        \* table profiles
  sessions,    \* table sessions
  snapshots,   \* table metrics_snapshots: the session ids it refers to
  lastId,      \* AUTOINCREMENT's last id
  sessionID,   \* MetricsPersister.sessionID
  loops,       \* its snapshotLoops: 0, 1, or 2 for more than one
  strayed      \* ghost: a statement ran without foreign keys

sessionVars == <<rows, sessions, snapshots, lastId, sessionID, loops, strayed>>

\* The age of ended_at against CleanupOldSessions' cutoff.
Ages == {"open", "newer", "sameDay", "older"}
SessionRow == [id : 1..MaxSessions, profile : ProfileRows, ended : Ages]
IdsIn(table) == {s.id : s \in table}

SessionsTypeOK ==
  /\ rows \subseteq ProfileRows /\ sessions \subseteq SessionRow
  /\ Cardinality(IdsIn(sessions)) = Cardinality(sessions)
  /\ snapshots \subseteq 1..MaxSessions
  /\ lastId \in 0..MaxSessions /\ sessionID \in 0..lastId
  /\ loops \in 0..2 /\ (loops > 0 => sessionID # NoSession)
  /\ strayed \in BOOLEAN

\* A new database.
SessionsInit ==
  /\ rows = {} /\ sessions = {} /\ snapshots = {} /\ lastId = 0
  /\ sessionID = NoSession /\ loops = 0 /\ strayed = FALSE

\* The statement ran on a connection with or without foreign keys.
On(fk) == strayed' = (strayed \/ ~fk)

CreateRow(p, fk) ==
  /\ p \notin rows /\ rows' = rows \cup {p} /\ On(fk)
  /\ UNCHANGED <<sessions, snapshots, lastId, sessionID, loops>>

\* Mutant: the snapshots of a session that goes are left.
Without_KeepsSnapshots(gone, fk) ==
  /\ sessions' = sessions \ gone /\ On(fk)
  /\ UNCHANGED snapshots

\* Rows of sessions go; ON DELETE CASCADE takes their snapshots with them.
Without(gone, fk) ==
  /\ sessions' = sessions \ gone /\ On(fk)
  /\ snapshots' = IF fk THEN snapshots \ IdsIn(gone) ELSE snapshots

\* ProfileRepo.Delete, which cascades to the profile's sessions.
DeleteRow(p, fk) ==
  /\ p \in rows /\ rows' = rows \ {p}
  /\ Without({s \in sessions : fk /\ s.profile = p}, fk)
  /\ UNCHANGED <<lastId, sessionID, loops>>

InsertSession(p, fk) ==
  /\ fk => p \in rows
  /\ lastId < MaxSessions /\ lastId' = lastId + 1
  /\ sessions' = sessions \cup {[id |-> lastId', profile |-> p, ended |-> "open"]}
  /\ On(fk)

\* Mutant: an insert that fails is only logged.  Its id is 0.
StartSession_GoesOn(p, fk) ==
  /\ \/ InsertSession(p, fk) /\ sessionID' = lastId'
     \/ /\ fk /\ p \notin rows /\ sessionID' = NoSession
        /\ UNCHANGED <<sessions, lastId, strayed>>
  /\ loops' = IF loops = 0 THEN 1 ELSE 2
  /\ UNCHANGED <<rows, snapshots>>

\* A loop that runs for an earlier session goes on with the new id.
StartSession(p, fk) ==
  /\ InsertSession(p, fk)
  /\ sessionID' = lastId'
  /\ loops' = IF loops = 0 THEN 1 ELSE 2
  /\ UNCHANGED <<rows, snapshots>>

\* The id stays: an ended session may be ended again, and goes on getting snapshots.
EndSession(fk) ==
  /\ sessionID # NoSession
  /\ sessions' = {IF s.id = sessionID THEN [s EXCEPT !.ended = "newer"] ELSE s : s \in sessions}
  /\ On(fk)
  /\ UNCHANGED <<rows, snapshots, lastId, sessionID, loops>>

\* One round of a snapshotLoop.
SaveSnapshot(fk) ==
  /\ loops > 0 /\ sessionID # NoSession
  /\ fk => sessionID \in IdsIn(sessions)
  /\ snapshots' = snapshots \cup {sessionID} /\ On(fk)
  /\ UNCHANGED <<rows, sessions, lastId, sessionID, loops>>

\* The clock moves on against the cutoff.
GrowOld ==
  /\ \E s \in sessions :
       /\ s.ended \in {"newer", "sameDay"}
       /\ sessions' = (sessions \ {s}) \cup
            {[s EXCEPT !.ended = IF @ = "newer" THEN "sameDay" ELSE "older"]}
  /\ UNCHANGED <<rows, snapshots, lastId, sessionID, loops, strayed>>

\* Mutant: a session that has no end counts as one that ended long ago.
CleanupOldSessions_Open(fk) ==
  /\ Without({s \in sessions : s.ended # "newer"}, fk)
  /\ UNCHANGED <<rows, lastId, sessionID, loops>>

\* The times are compared as text, "2006-01-02 15:04:05" with
\* "2006-01-02T15:04:05Z": what ended on the day of the cutoff, before it or
\* after, counts as older.
CleanupOldSessions(fk) ==
  /\ Without({s \in sessions : s.ended \in {"sameDay", "older"}}, fk)
  /\ UNCHANGED <<rows, lastId, sessionID, loops>>

\* The program starts again: a new persister, and a new first connection.
RestartPersister ==
  /\ sessionID' = NoSession /\ loops' = 0
  /\ UNCHANGED <<rows, sessions, snapshots, lastId, strayed>>

SessionsNext ==
  \/ \E fk \in BOOLEAN :
       \/ \E p \in ProfileRows : CreateRow(p, fk) \/ DeleteRow(p, fk) \/ StartSession(p, fk)
       \/ EndSession(fk) \/ SaveSnapshot(fk) \/ CleanupOldSessions(fk)
  \/ GrowOld \/ RestartPersister

-----------------------------------------------------------------------------
\* While every statement found the connection with foreign keys, a session has
\* its profile and a snapshot its session, whatever the persister still refers to.
SessionsLinked ==
  strayed \/ /\ \A s \in sessions : s.profile \in rows
             /\ snapshots \subseteq IdsIn(sessions)

\* A session that has not ended, or ended after the day of the cutoff, stays with
\* its snapshots unless its profile goes: although cleaning up compares the times
\* as text, and deletes cascade.
RecentSessionsKept ==
  [][\A s \in sessions : s.ended \in {"open", "newer"} =>
       \/ s.profile \notin rows'
       \/ s.id \in IdsIn(sessions') /\ (s.id \in snapshots => s.id \in snapshots')]_sessionVars
=============================================================================
