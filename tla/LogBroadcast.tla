---------------------------- MODULE LogBroadcast ----------------------------
(***************************************************************************)
(* The log buffer (internal/logger/ring.go) and the events that the API    *)
(* server sends to its clients (internal/api/server.go).  Push stores the  *)
(* entry under one lock and offers it to the subscribers under another.    *)
(* broadcast holds the read lock of the clients' map while it writes to    *)
(* one client after the other, up to five seconds each; a client enters    *)
(* and leaves the map under the write lock.  The lock is Go's RWMutex: a   *)
(* writer that waits keeps new readers out, and lets in those that wait    *)
(* when it unlocks.  Of the feed only its length matters here.  Requests   *)
(* and answers are Engine's part.                                          *)
(***************************************************************************)
EXTENDS Naturals, Sequences, FiniteSets

CONSTANTS
  Entries,      \* log entries
  Cap,          \* capacity of the buffer
  FeedCap,      \* size of the channel of broadcastLogs (100)
  Pushers,      \* goroutines that log
  Conns,        \* websocket connections
  NoEntry

ASSUME LogAssumption == /\ Cap \in Nat \ {0} /\ FeedCap \in Nat \ {0}
                        /\ NoEntry \notin Entries

VARIABLES
  entries, head, size,  \* RingBuffer
  offering,     \* pushers between the two locks of Push
  feed,         \* entries in the channel of broadcastLogs
  serving,      \* the server's context is not done
  conn,         \* conn[c]: out, joining, in, leaving
  stuck,        \* connected peers that have stopped to read
  caster,       \* what each of the two broadcasting goroutines does
  unsent        \* unsent[b]: connections it has still to write to

ringVars == <<entries, head, size>>
castVars == <<conn, stuck, caster, unsent>>
logVars == <<ringVars, offering, feed, serving, castVars>>

Casters == {"logs", "metrics"}

LogTypeOK ==
  /\ entries \in [0..(Cap - 1) -> Entries \cup {NoEntry}]
  /\ head \in 0..(Cap - 1) /\ size \in 0..Cap
  /\ offering \subseteq Pushers /\ feed \in 0..FeedCap /\ serving \in BOOLEAN
  /\ conn \in [Conns -> {"out", "joining", "in", "leaving"}]
  /\ stuck \subseteq Conns
  /\ caster \in [Casters -> {"idle", "ready", "reading", "ended"}]
  /\ unsent \in [Casters -> SUBSET Conns]

\* RingBuffer.All: the first entries, or the two halves around head.
All == [i \in 1..size |-> IF size < Cap THEN entries[i - 1]
                          ELSE entries[(head + i - 1) % Cap]]

\* NewRingBuffer, NewServer, Start: broadcastLogs has subscribed.
LogBroadcastInit ==
  /\ entries = [i \in 0..(Cap - 1) |-> NoEntry] /\ head = 0 /\ size = 0
  /\ offering = {} /\ feed = 0 /\ serving = TRUE
  /\ conn = [c \in Conns |-> "out"] /\ stuck = {}
  /\ caster = [b \in Casters |-> "idle"] /\ unsent = [b \in Casters |-> {}]

-----------------------------------------------------------------------------
\* Mutant: the size stops one short of the capacity.
Store_OffByOne(p, e) ==
  /\ p \notin offering /\ offering' = offering \cup {p}
  /\ entries' = [entries EXCEPT ![head] = e]
  /\ head' = (head + 1) % Cap
  /\ size' = IF size < Cap - 1 THEN size + 1 ELSE size
  /\ UNCHANGED <<feed, serving, castVars>>

\* Mutant: head is not taken back to the start.
Store_NoWrap(p, e) ==
  /\ p \notin offering /\ offering' = offering \cup {p}
  /\ entries' = [entries EXCEPT ![head] = e]
  /\ head' = head + 1
  /\ size' = IF size < Cap THEN size + 1 ELSE size
  /\ UNCHANGED <<feed, serving, castVars>>

\* RingBuffer.Push, under mu ...
Store(p, e) ==
  /\ p \notin offering /\ offering' = offering \cup {p}
  /\ entries' = [entries EXCEPT ![head] = e]
  /\ head' = (head + 1) % Cap
  /\ size' = IF size < Cap THEN size + 1 ELSE size
  /\ UNCHANGED <<feed, serving, castVars>>

\* Mutant: the send waits for room in the channel.
Offer_Blocks(p) ==
  /\ p \in offering /\ feed < FeedCap
  /\ offering' = offering \ {p} /\ feed' = feed + 1
  /\ UNCHANGED <<ringVars, serving, castVars>>

\* ... and under subMu: a full channel misses the entry.
Offer(p) ==
  /\ p \in offering
  /\ offering' = offering \ {p}
  /\ feed' = IF feed < FeedCap THEN feed + 1 ELSE feed
  /\ UNCHANGED <<ringVars, serving, castVars>>

-----------------------------------------------------------------------------
InMap == {c \in Conns : conn[c] \in {"in", "leaving"}}
Waiting == {c \in Conns : conn[c] \in {"joining", "leaving"}}
Reading == {b \in Casters : caster[b] = "reading"}

\* broadcastLogs takes an entry, the metrics callback is called: broadcast asks
\* for the read lock.
CastBegin(b) ==
  /\ caster[b] = "idle"
  /\ b = "logs" => feed > 0
  /\ feed' = IF b = "logs" THEN feed - 1 ELSE feed
  /\ caster' = [caster EXCEPT ![b] = "ready"]
  /\ UNCHANGED <<ringVars, offering, serving, conn, stuck, unsent>>

\* A reader goes in at once unless a writer waits; the clients it will write to
\* cannot change while it reads.
CastLock(b) ==
  /\ caster[b] = "ready" /\ Waiting = {}
  /\ caster' = [caster EXCEPT ![b] = "reading"]
  /\ unsent' = [unsent EXCEPT ![b] = InMap]
  /\ UNCHANGED <<ringVars, offering, feed, serving, conn, stuck>>

\* A write ends: sent, failed, or after five seconds.
CastWrite(b, c) ==
  /\ caster[b] = "reading" /\ c \in unsent[b]
  /\ unsent' = [unsent EXCEPT ![b] = @ \ {c}]
  /\ UNCHANGED <<ringVars, offering, feed, serving, conn, stuck, caster>>

CastUnlock(b) ==
  /\ caster[b] = "reading" /\ unsent[b] = {}
  /\ caster' = [caster EXCEPT ![b] = "idle"]
  /\ UNCHANGED <<ringVars, offering, feed, serving, conn, stuck, unsent>>

\* broadcastLogs returns between two broadcasts; it does not unsubscribe, and
\* the channel stays in the buffer's map.
CastEnd ==
  /\ ~serving /\ caster["logs"] = "idle"
  /\ caster' = [caster EXCEPT !["logs"] = "ended"]
  /\ UNCHANGED <<ringVars, offering, feed, serving, conn, stuck, unsent>>

-----------------------------------------------------------------------------
\* handleWebSocket, for a connection that is accepted and later ends.
Arrive(c) ==
  /\ serving /\ conn[c] = "out"
  /\ conn' = [conn EXCEPT ![c] = "joining"]
  /\ UNCHANGED <<ringVars, offering, feed, serving, stuck, caster, unsent>>

Depart(c) ==
  /\ conn[c] = "in"
  /\ conn' = [conn EXCEPT ![c] = "leaving"]
  /\ UNCHANGED <<ringVars, offering, feed, serving, stuck, caster, unsent>>

\* The write lock around the map's change; its unlock lets waiting readers in.
EnterOrLeave(c) ==
  /\ conn[c] \in {"joining", "leaving"} /\ Reading = {}
  /\ conn' = [conn EXCEPT ![c] = IF @ = "joining" THEN "in" ELSE "out"]
  /\ stuck' = IF conn[c] = "leaving" THEN stuck \ {c} ELSE stuck
  /\ caster' = [b \in Casters |-> IF caster[b] = "ready" THEN "reading" ELSE caster[b]]
  /\ unsent' = [b \in Casters |-> IF caster[b] = "ready" THEN InMap' ELSE unsent[b]]
  /\ UNCHANGED <<ringVars, offering, feed, serving>>

\* A peer stops to read: writes to it block.
GetStuck(c) ==
  /\ conn[c] = "in" /\ stuck' = stuck \cup {c}
  /\ UNCHANGED <<ringVars, offering, feed, serving, conn, caster, unsent>>

\* The program shuts down: the listener closes, the connections stay.
ServerDone ==
  /\ serving /\ serving' = FALSE
  /\ UNCHANGED <<ringVars, offering, feed, castVars>>

-----------------------------------------------------------------------------
CastStep(b) == CastLock(b) \/ CastUnlock(b) \/ \E c \in Conns : CastWrite(b, c)

LogBroadcastNext ==
  \/ \E p \in Pushers : Offer(p) \/ \E e \in Entries : Store(p, e)
  \/ \E b \in Casters : CastBegin(b) \/ CastStep(b)
  \/ CastEnd \/ ServerDone
  \/ \E c \in Conns : Arrive(c) \/ Depart(c) \/ EnterOrLeave(c) \/ GetStuck(c)

-----------------------------------------------------------------------------
\* The circular buffer is a log of the last Cap entries (logs.history shows it
\* whole and in order), whoever pushes.
LogHistory == INSTANCE BoundedLog WITH log <- All
ImplementsLog == LogHistory!LogSpec

\* Nobody hangs on the locks: a goroutine that logs goes on even when the feed
\* is full and its reader gone, a client gets in or out of the map and every
\* broadcast ends, though peers stop to read.
NobodyHangs ==
  /\ \A p \in Pushers : []<>(p \notin offering)
  /\ \A c \in Conns : []<>(c \notin Waiting)
  /\ \A b \in Casters : []<>(caster[b] \notin {"ready", "reading"})
=============================================================================
