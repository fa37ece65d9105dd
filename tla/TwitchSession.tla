---------------------------- MODULE TwitchSession ---------------------------
(***************************************************************************)
(* What one Twitch viewer learns and uses (platform/twitch/viewer.go,      *)
(* gql.go, points.go): three GraphQL requests and a playlist, one after    *)
(* the other, give it its broadcast, user and stream URL, which it keeps;  *)
(* then its loops report heartbeats, look whether the stream is still      *)
(* served and claim bonuses.  Meanwhile the channel may end its broadcast  *)
(* and begin another.  Left out: who the user is; the segment and pulse    *)
(* loops, which change nothing; PubSub and chat are module TwitchSocket.   *)
(***************************************************************************)
EXTENDS FiniteSets

CONSTANTS
  Broadcasts, OffAir,   \* broadcasts of the channel, each on air once
  Bonuses, NoBonus      \* bonuses for the account's points, each offered once

ASSUME SessionAssumption == OffAir \notin Broadcasts /\ NoBonus \notin Bonuses

VARIABLES
  onAir, offered,                 \* what the platform has now
  pastOnAir, taken,               \* broadcasts and bonuses that are over
  viewer,                         \* where Start is
  viewerOver,                     \* its context is done
  broadcastID, weaverURL,         \* the broadcast they are of
  spadeURL,
  heartbeat, liveness, claimer,   \* the loops
  claimID,                        \* the bonus the claimer has seen
  reported,                       \* broadcasts that heartbeats named
  restarted                       \* ghost: the channel changed during the set-up

platformVars == <<onAir, offered, pastOnAir, taken>>
learntVars   == <<broadcastID, weaverURL>>
loopsVars    == <<heartbeat, liveness, claimer, claimID>>
sessionState == <<viewer, viewerOver, learntVars, spadeURL, loopsVars, reported>>
twitchVars   == <<platformVars, sessionState, restarted>>

SetUpStages == {"metadata", "identity", "access", "playlist"}

TwitchTypeOK ==
  /\ onAir \in Broadcasts \cup {OffAir} /\ pastOnAir \subseteq Broadcasts
  /\ offered \in Bonuses \cup {NoBonus} /\ taken \subseteq Bonuses
  /\ viewerOver \in BOOLEAN /\ restarted \in BOOLEAN
  /\ viewer \in SetUpStages \cup {"event", "active", "returned"}
  /\ broadcastID \in Broadcasts \cup {OffAir} /\ weaverURL \in Broadcasts \cup {OffAir}
  /\ spadeURL \in {"", "known"}
  /\ heartbeat \in {"off", "wait", "page", "post"}
  /\ liveness \in {"off", "wait", "head"}
  /\ claimer \in {"off", "wait", "check", "claim"}
  /\ claimID \in Bonuses \cup {NoBonus}
  /\ reported \subseteq Broadcasts

TwitchInit ==
  /\ onAir \in Broadcasts \cup {OffAir} /\ offered = NoBonus
  /\ pastOnAir = {} /\ taken = {}
  /\ viewer = "metadata" /\ viewerOver = FALSE
  /\ broadcastID = OffAir /\ weaverURL = OffAir /\ spadeURL = ""
  /\ heartbeat = "off" /\ liveness = "off" /\ claimer = "off" /\ claimID = NoBonus
  /\ reported = {} /\ restarted = FALSE

-----------------------------------------------------------------------------
(* Start: fetchMetadata, setupHLS and the first event.                       *)

\* A request is answered, or fails: that, always once the context is done.
Answered == ~viewerOver

SetUpFails ==
  /\ viewer \in SetUpStages /\ viewer' = "returned"
  /\ UNCHANGED <<viewerOver, learntVars, spadeURL, loopsVars, reported, platformVars, restarted>>

\* Mutant: a channel that is off the air is not noticed.
FetchMetadata_AnyStream ==
  /\ viewer = "metadata" /\ Answered
  /\ broadcastID' = onAir /\ viewer' = "identity"
  /\ UNCHANGED <<viewerOver, weaverURL, spadeURL, loopsVars, reported,
                 platformVars, restarted>>

FetchMetadata ==
  /\ viewer = "metadata" /\ Answered
  /\ broadcastID' = onAir
  /\ viewer' = IF onAir = OffAir THEN "returned" ELSE "identity"
  /\ UNCHANGED <<viewerOver, weaverURL, spadeURL, loopsVars, reported,
                 platformVars, restarted>>

\* Only a 401 ends the set-up: an answer that names no user leaves the viewer
\* nobody, and it goes on.
AuthenticatedUser ==
  /\ viewer = "identity" /\ Answered /\ viewer' = "access"
  /\ UNCHANGED <<viewerOver, learntVars, spadeURL, loopsVars, reported, platformVars, restarted>>

\* The playback token and its signature.
StreamToken ==
  /\ viewer = "access" /\ Answered /\ viewer' = "playlist"
  /\ UNCHANGED <<viewerOver, learntVars, spadeURL, loopsVars, reported, platformVars, restarted>>

\* The master playlist exists while the channel is on the air; it names the stream
\* of the broadcast of now.
MasterPlaylist ==
  /\ viewer = "playlist" /\ Answered /\ onAir # OffAir
  /\ weaverURL' = onAir /\ viewer' = "event"
  /\ UNCHANGED <<viewerOver, broadcastID, spadeURL, loopsVars, reported,
                 platformVars, restarted>>

\* The first event may fail, and leave the spade URL to the heartbeats.
FirstEvent ==
  /\ viewer = "event" /\ viewer' = "active"
  /\ \/ Answered /\ spadeURL' = "known"
     \/ UNCHANGED spadeURL
  /\ heartbeat' = "wait" /\ liveness' = "wait" /\ claimer' = "wait"
  /\ UNCHANGED <<viewerOver, learntVars, claimID, reported, platformVars, restarted>>

\* Start returns: the liveness loop has ended, or the context is done.  The other
\* loops go on.
StartReturns ==
  /\ viewer = "active" /\ (liveness = "off" \/ viewerOver)
  /\ viewer' = "returned"
  /\ UNCHANGED <<viewerOver, learntVars, spadeURL, loopsVars, reported, platformVars, restarted>>

\* PubSub or chat ends, for any reason, with the same effect.
SocketLost ==
  /\ viewer = "active" /\ viewer' = "returned"
  /\ UNCHANGED <<viewerOver, learntVars, spadeURL, loopsVars, reported, platformVars, restarted>>

SetUpStep == FetchMetadata \/ AuthenticatedUser \/ StreamToken \/ MasterPlaylist
StartStep == SetUpStep \/ SetUpFails \/ FirstEvent \/ StartReturns

-----------------------------------------------------------------------------
(* heartbeatLoop and sendSpadeEvent.                                         *)

keptByHeart == <<viewer, viewerOver, learntVars, liveness, claimer, claimID, platformVars,
                 restarted>>

HeartTick ==
  /\ heartbeat = "wait"
  /\ heartbeat' = IF spadeURL = "" THEN "page" ELSE "post"
  /\ UNCHANGED <<spadeURL, reported, keptByHeart>>

\* fetchSpadeURL: the page, and the settings it names.  The URL is kept for good.
SpadePage ==
  /\ heartbeat = "page"
  /\ \/ Answered /\ spadeURL' = "known" /\ heartbeat' = "post"
     \/ heartbeat' = "wait" /\ UNCHANGED spadeURL
  /\ UNCHANGED <<reported, keptByHeart>>

\* Whatever the answer says, it counts.
SpadePost ==
  /\ heartbeat = "post" /\ heartbeat' = "wait"
  /\ \/ Answered /\ reported' = reported \cup {broadcastID}
     \/ UNCHANGED reported
  /\ UNCHANGED <<spadeURL, keptByHeart>>

HeartEnds ==
  /\ heartbeat = "wait" /\ viewerOver /\ heartbeat' = "off"
  /\ UNCHANGED <<spadeURL, reported, keptByHeart>>

-----------------------------------------------------------------------------
(* livenessLoop.                                                             *)

keptByLiveness == <<viewer, viewerOver, learntVars, spadeURL, heartbeat, claimer, claimID,
                    reported, platformVars, restarted>>

LivenessTick == liveness = "wait" /\ liveness' = "head" /\ UNCHANGED keptByLiveness

\* The stream of a broadcast that has ended is answered 404, sooner or later.
LivenessHead ==
  /\ liveness = "head"
  /\ \/ liveness' = "wait"
     \/ Answered /\ weaverURL # onAir /\ liveness' = "off"
  /\ UNCHANGED keptByLiveness

LivenessOver == liveness = "wait" /\ viewerOver /\ liveness' = "off" /\ UNCHANGED keptByLiveness

-----------------------------------------------------------------------------
(* PointsClaimer.Run, checkAndClaim.                                         *)

keptByClaimer == <<viewer, viewerOver, learntVars, spadeURL, heartbeat, liveness, reported,
                   restarted, onAir, pastOnAir>>

ClaimTick ==
  /\ claimer = "wait" /\ claimer' = "check"
  /\ UNCHANGED <<claimID, offered, taken, keptByClaimer>>

ClaimOver ==
  /\ claimer = "wait" /\ viewerOver /\ claimer' = "off"
  /\ UNCHANGED <<claimID, offered, taken, keptByClaimer>>

AvailableBonus ==
  /\ claimer = "check"
  /\ \/ claimer' = "wait" /\ UNCHANGED claimID     \* an error, or none
     \/ /\ Answered /\ offered # NoBonus
        /\ claimID' = offered /\ claimer' = "claim"
  /\ UNCHANGED <<offered, taken, keptByClaimer>>

\* The claim reaches the platform or not; one for a bonus that is gone does nothing.
ClaimBonus ==
  /\ claimer = "claim" /\ claimer' = "wait" /\ claimID' = NoBonus
  /\ \/ UNCHANGED <<offered, taken>>
     \/ /\ claimID = offered
        /\ offered' = NoBonus /\ taken' = taken \cup {claimID}
  /\ UNCHANGED keptByClaimer

-----------------------------------------------------------------------------
(* The platform and the viewer's context.                                    *)

\* A broadcast ends, or the next one begins.
ChannelChanges ==
  /\ onAir' \in IF onAir = OffAir THEN Broadcasts \ pastOnAir ELSE {OffAir}
  /\ pastOnAir' = pastOnAir \cup ({onAir} \ {OffAir})
  /\ restarted' = (restarted \/ viewer \in SetUpStages \ {"metadata"})
  /\ UNCHANGED <<offered, taken, sessionState>>

BonusTurns ==
  /\ offered' \in IF offered = NoBonus THEN Bonuses \ taken ELSE {NoBonus}
  /\ taken' = taken \cup ({offered} \ {NoBonus})
  /\ UNCHANGED <<onAir, pastOnAir, sessionState, restarted>>

ViewerOver ==
  /\ ~viewerOver /\ viewerOver' = TRUE
  /\ UNCHANGED <<viewer, learntVars, spadeURL, loopsVars, reported, platformVars, restarted>>

HeartStep == HeartTick \/ SpadePage \/ SpadePost \/ HeartEnds
LookStep == LivenessTick \/ LivenessHead \/ LivenessOver
ClaimStep == ClaimTick \/ ClaimOver \/ AvailableBonus \/ ClaimBonus

TwitchNext ==
  \/ StartStep \/ HeartStep \/ LookStep \/ ClaimStep \/ SocketLost
  \/ ChannelChanges \/ BonusTurns \/ ViewerOver

-----------------------------------------------------------------------------
\* A viewer that is active names in its heartbeats the broadcast whose stream it
\* watches, unless the channel began another one between the requests of its
\* set-up; it never names none.
BroadcastMatches ==
  (viewer = "active" => broadcastID # OffAir /\ (~restarted => weaverURL = broadcastID))
  /\ OffAir \notin reported

\* A viewer whose stream is gone for good returns, whatever else goes on; a bonus
\* that stays is claimed while the claimer runs, however often a request fails;
\* and the loops end with the context.
SessionProceeds ==
  /\ <>[](weaverURL # onAir) => <>[](viewer # "active")
  /\ \A b \in Bonuses : []<>(offered # b \/ claimer = "off")
  /\ []<>(viewerOver => viewer = "returned" /\ {heartbeat, liveness, claimer} = {"off"})
=============================================================================
