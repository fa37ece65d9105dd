---------------------------- MODULE TwitchSocket ----------------------------
(***************************************************************************)
(* One WebSocket client of a Twitch viewer: PubSub (platform/twitch/       *)
(* pubsub.go), whose ad events start an ad watcher (ads.go), or chat       *)
(* (chat.go).  Each has a reader, which is a loop of the viewer, and a     *)
(* pinger that nobody waits for.  The ad watcher runs in the reader: while *)
(* it watches, for five minutes at most, messages queue up.  Left out: the *)
(* segments an ad has, and pings that succeed.                             *)
(***************************************************************************)
EXTENDS Naturals, Sequences, FiniteSets

CONSTANTS
  Ads,          \* the finitely many ads a playlist shows, each for once
  NoAd,
  MaxWatches,   \* bound: ad events
  MaxInbox      \* bound: messages that wait to be read

ASSUME SocketAssumption == /\ NoAd \notin Ads /\ IsFiniteSet(Ads)
                           /\ MaxWatches \in Nat /\ MaxInbox \in Nat

VARIABLES
  client,       \* which of the two
  viewerDone,   \* the viewer's context is done
  reader, pinger,
  link,         \* the connection
  inbox,        \* messages of the server
  airing, aired,\* the ad in the playlist, and those that were
  watches,      \* ad watchers so far
  processed, currentAd, counted,  \* processedIDs, currentAdID, adsWatched of Watch
  adsWatched,   \* Viewer.adsWatched
  met,          \* ghost: <<w, a>>, watcher w met ad a
  endings,      \* ghost: watchers that saw the end of an ad
  asked         \* ghost: the server asked for a reconnect

watchVars == <<airing, aired, watches, processed, currentAd, counted, adsWatched,
               met, endings>>
socketVars == <<client, viewerDone, reader, pinger, link, inbox, asked, watchVars>>

\* What the server sends, as far as the readers tell it apart.
Messages == IF client = "pubsub" THEN {"ad", "reconnect", "other"} ELSE {"ping", "other"}

SocketTypeOK ==
  /\ client \in {"pubsub", "chat"} /\ viewerDone \in BOOLEAN
  /\ reader \in {"dial", "greet", "poll", "read", "watch", "returned"}
  /\ pinger \in BOOLEAN /\ link \in {"none", "open", "closed"}
  /\ inbox \in Seq(Messages) /\ Len(inbox) <= MaxInbox
  /\ airing \in aired \cup {NoAd} /\ aired \subseteq Ads
  /\ watches \in 0..MaxWatches
  /\ processed \subseteq Ads /\ currentAd \in processed \cup {NoAd}
  /\ counted \in 0..Cardinality(Ads) /\ adsWatched \in Nat
  /\ met \subseteq (1..watches) \X Ads /\ endings \subseteq 1..watches
  /\ asked \in BOOLEAN

SocketInit ==
  /\ client \in {"pubsub", "chat"} /\ viewerDone = FALSE
  /\ reader = "dial" /\ pinger = FALSE /\ link = "none" /\ inbox = <<>>
  /\ airing = NoAd /\ aired = {} /\ watches = 0
  /\ processed = {} /\ currentAd = NoAd /\ counted = 0 /\ adsWatched = 0
  /\ met = {} /\ endings = {} /\ asked = FALSE

-----------------------------------------------------------------------------
(* Connect and readLoop.                                                     *)

DialEnds ==
  /\ reader = "dial"
  /\ \/ ~viewerDone /\ reader' = "greet" /\ link' = "open"
     \/ reader' = "returned" /\ UNCHANGED link
  /\ UNCHANGED <<client, viewerDone, pinger, inbox, asked, watchVars>>

\* Mutant: a failed greeting leaves the connection as it is.
GreetEnds_KeepsLink ==
  /\ reader = "greet"
  /\ \/ link = "open" /\ ~viewerDone /\ reader' = "poll" /\ pinger' = TRUE /\ UNCHANGED link
     \/ reader' = "returned" /\ UNCHANGED <<pinger, link>>
  /\ UNCHANGED <<client, viewerDone, inbox, asked, watchVars>>

\* The LISTEN, or the IRC handshake; then the pinger is started.
GreetEnds ==
  /\ reader = "greet"
  /\ \/ link = "open" /\ ~viewerDone /\ reader' = "poll" /\ pinger' = TRUE /\ UNCHANGED link
     \/ reader' = "returned" /\ link' = "closed" /\ UNCHANGED pinger
  /\ UNCHANGED <<client, viewerDone, inbox, asked, watchVars>>

Polls ==
  /\ reader = "poll"
  /\ \/ viewerDone /\ reader' = "returned" /\ link' = "closed"
     \/ ~viewerDone /\ reader' = "read" /\ UNCHANGED link
  /\ UNCHANGED <<client, viewerDone, pinger, inbox, asked, watchVars>>

\* A read of a connection that is gone, or whose context is done, fails, and
\* closes it.
ReadFails ==
  /\ reader = "read" /\ (link = "closed" \/ viewerDone)
  /\ reader' = "returned" /\ link' = "closed"
  /\ UNCHANGED <<client, viewerDone, pinger, inbox, asked, watchVars>>

Received(m) ==
  /\ reader = "read" /\ inbox # <<>> /\ Head(inbox) = m
  /\ inbox' = Tail(inbox)
  /\ UNCHANGED <<client, viewerDone, pinger>>

\* A message that changes nothing: PONG, RESPONSE, a chat line, a stream event
\* (the viewer has set no callback for those).
ReceiveOther == Received("other") /\ reader' = "poll" /\ UNCHANGED <<link, asked, watchVars>>

\* An ad event: a new watcher, in this goroutine.
ReceiveAd ==
  /\ Received("ad")
  /\ reader' = "watch" /\ watches' = watches + 1
  /\ processed' = {} /\ currentAd' = NoAd /\ counted' = 0
  /\ UNCHANGED <<link, asked, airing, aired, adsWatched, met, endings>>

\* The reader returns, and leaves the connection to its pinger.
ReceiveReconnect ==
  /\ Received("reconnect")
  /\ reader' = "returned" /\ asked' = TRUE
  /\ UNCHANGED <<link, watchVars>>

\* PING is answered; a write whose context is done may close the connection.
ReceivePing ==
  /\ Received("ping")
  /\ \/ link = "open" /\ ~viewerDone /\ reader' = "poll" /\ UNCHANGED link
     \/ (link = "closed" \/ viewerDone) /\ reader' = "returned" /\ link' \in {link, "closed"}
  /\ UNCHANGED <<asked, watchVars>>

\* pingLoop ends with the context or at a write that fails.
PingerEnds ==
  /\ pinger /\ (viewerDone \/ link = "closed") /\ pinger' = FALSE
  /\ UNCHANGED <<client, viewerDone, reader, link, inbox, asked, watchVars>>

-----------------------------------------------------------------------------
(* AdWatcher.Watch, called from onAd.                                        *)

\* Watch returns n; the viewer adds that to its count.
WatchReturns(n) ==
  /\ reader' = "poll" /\ adsWatched' = adsWatched + n
  /\ UNCHANGED <<client, viewerDone, pinger, link, inbox, asked, airing, aired, watches,
                 processed, currentAd, counted, met>>

\* Mutant: an ad counts whenever a playlist shows it.
WatchSees_EveryTime ==
  /\ reader = "watch" /\ airing # NoAd /\ counted < Cardinality(Ads)
  /\ processed' = processed \cup {airing} /\ currentAd' = airing /\ counted' = counted + 1
  /\ met' = met \cup {<<watches, airing>>}
  /\ UNCHANGED <<client, viewerDone, reader, pinger, link, inbox, asked, airing, aired,
                 watches, adsWatched, endings>>

\* A playlist with an ad this watcher has not seen.
WatchSees ==
  /\ reader = "watch" /\ airing \notin processed \cup {NoAd}
  /\ processed' = processed \cup {airing} /\ currentAd' = airing /\ counted' = counted + 1
  /\ met' = met \cup {<<watches, airing>>}
  /\ UNCHANGED <<client, viewerDone, reader, pinger, link, inbox, asked, airing, aired,
                 watches, adsWatched, endings>>

\* The first playlist without one: the ad that ended counts once more.
WatchSeesEnd ==
  /\ reader = "watch" /\ airing = NoAd /\ currentAd # NoAd
  /\ WatchReturns(counted + 1)
  /\ endings' = endings \cup {watches}

\* The deadline has passed, or the context is done.
WatchGivesUp ==
  /\ reader = "watch"
  /\ WatchReturns(counted) /\ UNCHANGED endings

-----------------------------------------------------------------------------
(* The server, the stream and the viewer's context.                          *)

Send(m) ==
  /\ link = "open" /\ Len(inbox) < MaxInbox
  /\ m = "ad" => watches + Cardinality({i \in DOMAIN inbox : inbox[i] = "ad"}) < MaxWatches
  /\ inbox' = Append(inbox, m)
  /\ UNCHANGED <<client, viewerDone, reader, pinger, link, asked, watchVars>>

Drop ==
  /\ link = "open" /\ link' = "closed"
  /\ UNCHANGED <<client, viewerDone, reader, pinger, inbox, asked, watchVars>>

PlaylistChanges ==
  /\ client = "pubsub" /\ airing' \in (Ads \ aired) \cup {NoAd}
  /\ aired' = aired \cup ({airing'} \ {NoAd})
  /\ UNCHANGED <<client, viewerDone, reader, pinger, link, inbox, asked, watches,
                 processed, currentAd, counted, adsWatched, met, endings>>

ViewerDone ==
  /\ ~viewerDone /\ viewerDone' = TRUE
  /\ UNCHANGED <<client, reader, pinger, link, inbox, asked, watchVars>>

Watching == WatchSees \/ WatchSeesEnd \/ WatchGivesUp
Reader ==
  \/ DialEnds \/ GreetEnds \/ Polls \/ ReadFails
  \/ ReceiveOther \/ ReceiveAd \/ ReceiveReconnect \/ ReceivePing
  \/ Watching

SocketNext ==
  \/ Reader \/ PingerEnds
  \/ (\E m \in Messages : Send(m)) \/ Drop \/ PlaylistChanges \/ ViewerDone

-----------------------------------------------------------------------------
\* While the viewer goes on, a connection without a reader is left open for one
\* reason only: the server asked for a reconnect.
OnlyReconnectLeaks ==
  (reader = "returned" /\ link = "open" /\ ~viewerDone) => asked

\* The viewer's count of ads: each ad once for every watcher that met it, and once
\* more for the one whose end a watcher saw, whatever cuts its watching short.
AdsCounted ==
  LET reported == {p \in met : reader = "watch" => p[1] # watches}
  IN adsWatched = Cardinality(reported) + Cardinality(endings)

SocketSafe == OnlyReconnectLeaks /\ AdsCounted

\* The loops end with the viewer, and a request to reconnect is heeded though an
\* ad is being watched when it comes.
SocketEnds ==
  /\ []<>(viewerDone => reader = "returned" /\ ~pinger)
  /\ []<>((\E i \in DOMAIN inbox : inbox[i] = "reconnect") => reader = "returned")
=============================================================================
