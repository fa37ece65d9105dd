----------------------------- MODULE KickViewer -----------------------------
(***************************************************************************)
(* The viewer of Kick (platform/kick/viewer.go): a channel lookup, then    *)
(* two loops that share errCh with Start.  The segment loop keeps the      *)
(* playback URL of that lookup; the liveness loop looks the channel up     *)
(* again and only asks whether there is one.  Left out: the counters of    *)
(* segments and bytes, and the text of playlists.                          *)
(***************************************************************************)
EXTENDS Naturals, FiniteSets

CONSTANT KickErrCap      \* capacity of errCh (3)

ASSUME KickAssumption == KickErrCap \in Nat

VARIABLES
  kick,         \* Start: new, setup, running, returned
  kickDone,     \* its context is done
  kickStatus,
  segmentLoop, livenessLoop,
  errCh,        \* results in it
  broken,       \* ghost: loops that returned an error
  kickOnAir,    \* the channel is live
  playlist      \* what a request of the playback URL would get

kickVars == <<kick, kickDone, kickStatus, segmentLoop, livenessLoop, errCh, broken,
              kickOnAir, playlist>>

KickLoops == {"segments", "liveness"}

KickTypeOK ==
  /\ kick \in {"new", "setup", "running", "returned"} /\ kickDone \in BOOLEAN
  /\ kickStatus \in {"idle", "connecting", "active", "stopped", "error"}
  /\ segmentLoop \in {"off", "poll", "playlist", "nap", "pause"}
  /\ livenessLoop \in {"off", "wait", "lookup"}
  /\ errCh \in 0..KickErrCap /\ broken \subseteq KickLoops
  /\ kickOnAir \in BOOLEAN /\ playlist \in {"served", "gone", "refused"}

KickInit ==
  /\ kick = "new" /\ kickDone = FALSE /\ kickStatus = "idle"
  /\ segmentLoop = "off" /\ livenessLoop = "off" /\ errCh = 0 /\ broken = {}
  /\ kickOnAir \in BOOLEAN /\ playlist = "served"

-----------------------------------------------------------------------------
(* Start and Stop.                                                           *)

KickStarts ==
  /\ kick = "new" /\ kick' = "setup" /\ kickStatus' = "connecting"
  /\ UNCHANGED <<kickDone, segmentLoop, livenessLoop, errCh, broken, kickOnAir, playlist>>

\* fetchChannelData, as Start and the liveness loop see it: an error, which a
\* context that is done makes certain, or whether the channel has a stream.
LookUp == {"error"} \cup (IF kickDone THEN {} ELSE IF kickOnAir THEN {"live"} ELSE {"offline"})

SetUp ==
  /\ kick = "setup"
  /\ \/ /\ LookUp \cap {"error", "offline"} # {}
        /\ kick' = "returned" /\ kickStatus' = "error"
        /\ UNCHANGED <<segmentLoop, livenessLoop>>
     \/ /\ "live" \in LookUp
        /\ kick' = "running" /\ kickStatus' = "active"
        /\ segmentLoop' = "poll" /\ livenessLoop' = "wait"
  /\ UNCHANGED <<kickDone, errCh, broken, kickOnAir, playlist>>

\* Mutant: Start gives a viewer up for reasons of its own.
KickReturns_AnyTime ==
  /\ kick = "running"
  /\ errCh' = IF errCh > 0 THEN errCh - 1 ELSE errCh
  /\ kick' = "returned" /\ kickStatus' = "stopped"
  /\ UNCHANGED <<kickDone, segmentLoop, livenessLoop, broken, kickOnAir, playlist>>

\* The first result of a loop, or the context; the context is not cancelled on
\* the way out, so the other loop goes on.
KickReturns ==
  /\ kick = "running"
  /\ \/ errCh > 0 /\ errCh' = errCh - 1
     \/ kickDone /\ UNCHANGED errCh
  /\ kick' = "returned" /\ kickStatus' = "stopped"
  /\ UNCHANGED <<kickDone, segmentLoop, livenessLoop, broken, kickOnAir, playlist>>

\* Stop, or the end of the context given to Start; before Start there is nothing
\* for Stop to cancel.
KickCancelled ==
  /\ ~kickDone /\ kickDone' = TRUE
  /\ UNCHANGED <<kick, kickStatus, segmentLoop, livenessLoop, errCh, broken, kickOnAir, playlist>>

-----------------------------------------------------------------------------
(* The loops.                                                                *)

\* Loop l sends its result, an error or nil.
Sends(l, error) ==
  /\ errCh < KickErrCap /\ errCh' = errCh + 1
  /\ broken' = IF error THEN broken \cup {l} ELSE broken

SegmentPlaylist ==
  /\ segmentLoop = "playlist"
  /\ \/ \* the request fails, or gets an answer that is neither 200 nor 404
        segmentLoop' = "nap" /\ UNCHANGED <<errCh, broken>>
     \/ /\ playlist = "served" /\ ~kickDone
        /\ segmentLoop' = "pause" /\ UNCHANGED <<errCh, broken>>
     \/ /\ playlist = "gone" /\ ~kickDone
        /\ segmentLoop' = "off" /\ Sends("segments", TRUE)
  /\ UNCHANGED <<kick, kickDone, kickStatus, livenessLoop, kickOnAir, playlist>>

\* The poll at the top and the delay at the end see the context; the ten seconds
\* after a failure do not.
SegmentTurns ==
  /\ \/ /\ segmentLoop \in {"poll", "pause"} /\ kickDone
        /\ segmentLoop' = "off" /\ Sends("segments", FALSE)
     \/ /\ segmentLoop = "poll" /\ ~kickDone
        /\ segmentLoop' = "playlist" /\ UNCHANGED <<errCh, broken>>
     \/ /\ segmentLoop \in {"nap", "pause"}
        /\ segmentLoop' = "poll" /\ UNCHANGED <<errCh, broken>>
  /\ UNCHANGED <<kick, kickDone, kickStatus, livenessLoop, kickOnAir, playlist>>

LivenessWaits ==
  /\ livenessLoop = "wait"
  /\ \/ livenessLoop' = "lookup" /\ UNCHANGED <<errCh, broken>>
     \/ kickDone /\ livenessLoop' = "off" /\ Sends("liveness", FALSE)
  /\ UNCHANGED <<kick, kickDone, kickStatus, segmentLoop, kickOnAir, playlist>>

LivenessLooksUp ==
  /\ livenessLoop = "lookup"
  /\ \/ /\ LookUp \cap {"error", "live"} # {}
        /\ livenessLoop' = "wait" /\ UNCHANGED <<errCh, broken>>
     \/ /\ "offline" \in LookUp
        /\ livenessLoop' = "off" /\ Sends("liveness", TRUE)
  /\ UNCHANGED <<kick, kickDone, kickStatus, segmentLoop, kickOnAir, playlist>>

-----------------------------------------------------------------------------
\* The channel goes on or off the air, and its playlist with it or not.
ChannelTurns ==
  /\ kickOnAir' \in BOOLEAN /\ playlist' \in {"served", "gone", "refused"}
  /\ UNCHANGED <<kick, kickDone, kickStatus, segmentLoop, livenessLoop, errCh, broken>>

KickStart == KickStarts \/ SetUp \/ KickReturns
SegmentStep == SegmentPlaylist \/ SegmentTurns
LivenessStep == LivenessWaits \/ LivenessLooksUp
LivenessEnds == LivenessStep /\ livenessLoop' = "off"

KickNext == KickStart \/ KickCancelled \/ SegmentStep \/ LivenessStep \/ ChannelTurns

-----------------------------------------------------------------------------
LeftLoops == (IF segmentLoop = "off" THEN {} ELSE {"segments"})
             \cup (IF livenessLoop = "off" THEN {} ELSE {"liveness"})

\* A loop goes on after Start returned, with nobody to stop it but the worker's
\* context, only beside one that failed: never both, and never after a Stop.
OneLoopLeft ==
  (kick = "returned" /\ LeftLoops # {} /\ ~kickDone) =>
     broken # {} /\ LeftLoops = KickLoops \ broken

Life == INSTANCE ViewerLife WITH Loops <- KickLoops, ErrCap <- KickErrCap,
          stage <- kick, over <- kickDone, left <- LeftLoops, results <- errCh

\* The viewer of Kick does what ReconnectingViewer takes a viewer for.
ImplementsViewer == Life!LifeSpec

\* A cancelled viewer ends with both loops, however long its naps; a viewer whose
\* channel goes off the air for good returns, though its playback URL is still
\* served, if lookups are answered now and then.
KickEnds ==
  /\ []<>(kickDone /\ kick # "new" => kick = "returned" /\ LeftLoops = {})
  /\ <>[]~kickOnAir => []<>(kick = "returned")
=============================================================================
