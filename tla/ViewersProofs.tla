---------------------------- MODULE ViewersProofs ---------------------------
(***************************************************************************)
(* Theorems about the parts of the platforms' viewers: the viewer of Kick  *)
(* (KickViewer), what a viewer of Twitch learns and reports                *)
(* (TwitchSession) and its WebSocket clients with the ad watcher           *)
(* (TwitchSocket), for every capacity of errCh, every set of broadcasts    *)
(* and bonuses, every finite set of ads and every bound on messages.       *)
(***************************************************************************)
EXTENDS KickViewer, TwitchSession, TwitchSocket, FiniteSetTheorems, SequenceTheorems, TLAPS

-----------------------------------------------------------------------------
(* KickViewer: the inductive invariant.                                      *)

\* Before its set-up is over a viewer has no loop and no result.
NothingBeforeSetUp ==
  kick \in {"new", "setup"} =>
    segmentLoop = "off" /\ livenessLoop = "off" /\ broken = {} /\ errCh = 0

\* Until the context is done a loop ends with an error only, so the loops that are left
\* are those that did not fail; after a set-up that failed there are none.
LeftAreUnbroken ==
  (~kickDone /\ (kick = "running" \/ (kick = "returned" /\ LeftLoops # {}))) =>
    LeftLoops = KickLoops \ broken

\* Until the context is done every result is that of a loop that failed.
ResultsAreErrors == ~kickDone /\ errCh > 0 => broken # {}

KickInv ==
  /\ KickTypeOK
  /\ NothingBeforeSetUp
  /\ LeftAreUnbroken
  /\ ResultsAreErrors
  /\ OneLoopLeft

LEMMA InitKick == KickInit => KickInv
<1> SUFFICES ASSUME KickInit PROVE KickInv
    OBVIOUS
<1>1. KickTypeOK
  <2>1. errCh \in 0..KickErrCap
        BY KickAssumption DEF KickAssumption, KickInit
  <2>2. kickOnAir \in BOOLEAN /\ kickDone \in BOOLEAN
        BY DEF KickInit
  <2> QED
    BY <2>1, <2>2 DEF KickInit, KickTypeOK
<1>2. NothingBeforeSetUp /\ LeftAreUnbroken /\ ResultsAreErrors /\ OneLoopLeft
      BY DEF KickInit, NothingBeforeSetUp, LeftAreUnbroken, ResultsAreErrors, OneLoopLeft
<1> QED
  BY <1>1, <1>2 DEF KickInv

\* Which loops are left, loop by loop.
LEMMA LeftLoop ==
  /\ LeftLoops \subseteq KickLoops
  /\ "segments" \in LeftLoops <=> segmentLoop # "off"
  /\ "liveness" \in LeftLoops <=> livenessLoop # "off"
BY DEF LeftLoops, KickLoops

LEMMA LeftLoopNext ==
  /\ LeftLoops' \subseteq KickLoops
  /\ "segments" \in LeftLoops' <=> segmentLoop' # "off"
  /\ "liveness" \in LeftLoops' <=> livenessLoop' # "off"
BY DEF LeftLoops, KickLoops

\* Start and Stop.
LEMMA KickStartSteps ==
  ASSUME KickInv, KickStart \/ KickCancelled
  PROVE  KickInv'
<1> USE DEF KickInv
<1>1. CASE KickStarts
  <2>1. LeftLoops' = LeftLoops
        BY <1>1 DEF KickStarts, LeftLoops
  <2> QED
    BY <1>1, <2>1 DEF KickStarts, KickTypeOK, NothingBeforeSetUp, LeftAreUnbroken,
                      ResultsAreErrors, OneLoopLeft
<1>2. CASE SetUp
  <2>1. KickTypeOK' /\ NothingBeforeSetUp' /\ ResultsAreErrors'
        BY <1>2 DEF SetUp, KickTypeOK, NothingBeforeSetUp, ResultsAreErrors
  <2>2. CASE kick' = "running"
    <3>1. LeftLoops' = KickLoops /\ broken' = {}
          BY <1>2, <2>2 DEF SetUp, NothingBeforeSetUp, LeftLoops, KickLoops
    <3> QED
      BY <2>1, <2>2, <3>1 DEF LeftAreUnbroken, OneLoopLeft
  <2>3. CASE kick' = "returned"
    <3>1. LeftLoops' = {}
          BY <1>2, <2>3 DEF SetUp, NothingBeforeSetUp, LeftLoops
    <3> QED
      BY <2>1, <2>3, <3>1 DEF LeftAreUnbroken, OneLoopLeft
  <2> QED
    BY <1>2, <2>2, <2>3 DEF SetUp
<1>3. CASE KickReturns
  <2>1. LeftLoops' = LeftLoops
        BY <1>3 DEF KickReturns, LeftLoops
  <2>2. errCh' \in 0..KickErrCap /\ (errCh' > 0 => errCh > 0)
        BY <1>3, KickAssumption DEF KickAssumption, KickReturns, KickTypeOK
  <2> QED
    BY <1>3, <2>1, <2>2 DEF KickReturns, KickTypeOK, NothingBeforeSetUp, LeftAreUnbroken,
                            ResultsAreErrors, OneLoopLeft
<1>4. CASE KickCancelled
  BY <1>4 DEF KickCancelled, KickTypeOK, NothingBeforeSetUp, LeftAreUnbroken,
              ResultsAreErrors, OneLoopLeft
<1> QED
  BY <1>1, <1>2, <1>3, <1>4 DEF KickStart

\* A result that is sent fits in the channel.
LEMMA SendsType ==
  ASSUME KickTypeOK, NEW l \in KickLoops, NEW error \in BOOLEAN, Sends(l, error)
  PROVE  errCh' \in 0..KickErrCap /\ broken' \subseteq KickLoops
<1>1. errCh' \in 0..KickErrCap
      BY KickAssumption DEF KickAssumption, Sends, KickTypeOK
<1>2. broken' \subseteq KickLoops
      BY DEF Sends, KickTypeOK
<1> QED
  BY <1>1, <1>2

\* A step of a loop: it goes on and sends nothing, or it ends with one result, which is an
\* error unless the context is done.
LoopGoesOn ==
  LeftLoops' = LeftLoops /\ UNCHANGED <<errCh, broken>>

LoopIsOver(l) ==
  /\ l \in LeftLoops /\ LeftLoops' = LeftLoops \ {l}
  /\ \E error \in BOOLEAN : Sends(l, error) /\ (~error => kickDone)

LEMMA LoopStep ==
  ASSUME KickInv, SegmentStep \/ LivenessStep
  PROVE  /\ KickTypeOK'
         /\ UNCHANGED <<kick, kickDone>>
         /\ LoopGoesOn \/ \E l \in KickLoops : LoopIsOver(l)
<1> USE DEF KickInv
<1>1. CASE SegmentStep
  <2>1. KickTypeOK' /\ UNCHANGED <<kick, kickDone, livenessLoop>>
    <3>1. CASE SegmentPlaylist
      BY <3>1, SendsType DEF SegmentPlaylist, KickTypeOK, KickLoops
    <3>2. CASE SegmentTurns
      BY <3>2, SendsType DEF SegmentTurns, KickTypeOK, KickLoops
    <3> QED
      BY <1>1, <3>1, <3>2 DEF SegmentStep
  <2>2. segmentLoop # "off"
        BY <1>1 DEF SegmentStep, SegmentPlaylist, SegmentTurns
  <2>3. CASE segmentLoop' # "off"
    <3>1. UNCHANGED <<errCh, broken>>
          BY <1>1, <2>3 DEF SegmentStep, SegmentPlaylist, SegmentTurns
    <3> QED
      BY <2>1, <2>2, <2>3, <3>1 DEF LoopGoesOn, LeftLoops
  <2>4. CASE segmentLoop' = "off"
    <3>1. Sends("segments", TRUE) \/ (Sends("segments", FALSE) /\ kickDone)
          BY <1>1, <2>4 DEF SegmentStep, SegmentPlaylist, SegmentTurns
    <3>2. "segments" \in LeftLoops /\ LeftLoops' = LeftLoops \ {"segments"}
          BY <2>1, <2>2, <2>4 DEF LeftLoops
    <3>3. LoopIsOver("segments")
          BY <3>1, <3>2 DEF LoopIsOver
    <3> QED
      BY <2>1, <3>3 DEF KickLoops
  <2> QED
    BY <2>3, <2>4
<1>2. CASE LivenessStep
  <2>1. KickTypeOK' /\ UNCHANGED <<kick, kickDone, segmentLoop>>
    <3>1. CASE LivenessWaits
      BY <3>1, SendsType DEF LivenessWaits, KickTypeOK, KickLoops
    <3>2. CASE LivenessLooksUp
      BY <3>2, SendsType DEF LivenessLooksUp, KickTypeOK, KickLoops
    <3> QED
      BY <1>2, <3>1, <3>2 DEF LivenessStep
  <2>2. livenessLoop # "off"
        BY <1>2 DEF LivenessStep, LivenessWaits, LivenessLooksUp
  <2>3. CASE livenessLoop' # "off"
    <3>1. UNCHANGED <<errCh, broken>>
          BY <1>2, <2>3 DEF LivenessStep, LivenessWaits, LivenessLooksUp
    <3> QED
      BY <2>1, <2>2, <2>3, <3>1 DEF LoopGoesOn, LeftLoops
  <2>4. CASE livenessLoop' = "off"
    <3>1. Sends("liveness", TRUE) \/ (Sends("liveness", FALSE) /\ kickDone)
          BY <1>2, <2>4 DEF LivenessStep, LivenessWaits, LivenessLooksUp
    <3>2. "liveness" \in LeftLoops /\ LeftLoops' = LeftLoops \ {"liveness"}
          BY <2>1, <2>2, <2>4 DEF LeftLoops
    <3>3. LoopIsOver("liveness")
          BY <3>1, <3>2 DEF LoopIsOver
    <3> QED
      BY <2>1, <3>3 DEF KickLoops
  <2> QED
    BY <2>3, <2>4
<1> QED
  BY <1>1, <1>2

LEMMA KickLoopSteps ==
  ASSUME KickInv, SegmentStep \/ LivenessStep
  PROVE  KickInv'
<1>1. KickTypeOK' /\ UNCHANGED <<kick, kickDone>>
      BY LoopStep
<1>2. kick \notin {"new", "setup"}
      BY DEF KickInv, NothingBeforeSetUp, SegmentStep, SegmentPlaylist, SegmentTurns,
             LivenessStep, LivenessWaits, LivenessLooksUp
<1>3. CASE LoopGoesOn
  BY <1>1, <1>2, <1>3
  DEF LoopGoesOn, KickInv, NothingBeforeSetUp, LeftAreUnbroken, ResultsAreErrors, OneLoopLeft
<1>4. ASSUME NEW l \in KickLoops, LoopIsOver(l) PROVE KickInv'
  <2>1. PICK error \in BOOLEAN : Sends(l, error) /\ (~error => kickDone)
        BY <1>4 DEF LoopIsOver
  <2>2. ~kickDone => broken' = broken \cup {l} /\ LeftLoops' = LeftLoops \ {l}
        BY <1>4, <2>1 DEF LoopIsOver, Sends
  <2>3. LeftLoops' # {} => LeftLoops # {}
        BY <1>4 DEF LoopIsOver
  <2>4. NothingBeforeSetUp' /\ ResultsAreErrors'
        BY <1>1, <1>2, <2>2 DEF NothingBeforeSetUp, ResultsAreErrors
  <2>5. LeftAreUnbroken' /\ OneLoopLeft'
        BY <1>1, <2>2, <2>3 DEF KickInv, LeftAreUnbroken, OneLoopLeft
  <2> QED
    BY <1>1, <2>4, <2>5 DEF KickInv
<1> QED
  BY <1>3, <1>4, LoopStep

LEMMA NextKick == KickInv /\ [KickNext]_kickVars => KickInv'
<1> SUFFICES ASSUME KickInv, [KickNext]_kickVars PROVE KickInv'
    OBVIOUS
<1>1. CASE ChannelTurns
  <2>1. LeftLoops' = LeftLoops
        BY <1>1 DEF ChannelTurns, LeftLoops
  <2> QED
    BY <1>1, <2>1 DEF ChannelTurns, KickInv, KickTypeOK, NothingBeforeSetUp, LeftAreUnbroken,
                      ResultsAreErrors, OneLoopLeft
<1>2. CASE UNCHANGED kickVars
  <2>1. LeftLoops' = LeftLoops
        BY <1>2 DEF kickVars, LeftLoops
  <2> QED
    BY <1>2, <2>1 DEF kickVars, KickInv, KickTypeOK, NothingBeforeSetUp, LeftAreUnbroken,
                      ResultsAreErrors, OneLoopLeft
<1> QED
  BY <1>1, <1>2, KickStartSteps, KickLoopSteps DEF KickNext

\* Every reachable state of the viewer of Kick has its type.
THEOREM KickTypeCorrect == KickInit /\ [][KickNext]_kickVars => []KickTypeOK
<1>1. KickInv => KickTypeOK
      BY DEF KickInv
<1> QED
  BY <1>1, InitKick, NextKick, PTL

\* Whatever the capacity of errCh: after Start returned, a loop goes on without a cancelled
\* context only beside one that failed.
THEOREM KickLeavesOneLoop == KickInit /\ [][KickNext]_kickVars => []OneLoopLeft
<1>1. KickInv => OneLoopLeft
      BY DEF KickInv
<1> QED
  BY <1>1, InitKick, NextKick, PTL

-----------------------------------------------------------------------------
(* KickViewer implements ViewerLife.                                         *)

LEMMA KickStepIsLifeStep ==
  ASSUME KickInv, [KickNext]_kickVars
  PROVE  [Life!LifeNext]_(Life!lifeVars)
<1> USE DEF Life!LifeNext, Life!lifeVars
<1>1. ASSUME KickStarts PROVE Life!Starts
  <2>1. LeftLoops' = LeftLoops
        BY <1>1 DEF KickStarts, LeftLoops
  <2> QED
    BY <1>1, <2>1 DEF KickStarts, Life!Starts
<1>2. ASSUME SetUp PROVE Life!Fails \/ Life!Succeeds
  <2>1. CASE kick' = "returned"
    <3>1. LeftLoops' = LeftLoops
          BY <1>2, <2>1 DEF SetUp, LeftLoops
    <3> QED
      BY <1>2, <2>1, <3>1 DEF SetUp, Life!Fails
  <2>2. CASE kick' = "running"
    <3>1. LeftLoops' = KickLoops
          BY <1>2, <2>2 DEF SetUp, LeftLoops, KickLoops
    <3> QED
      BY <1>2, <2>2, <3>1 DEF SetUp, Life!Succeeds
  <2> QED
    BY <1>2, <2>1, <2>2 DEF SetUp
<1>3. ASSUME KickReturns PROVE Life!Returns
  <2>1. LeftLoops' = LeftLoops
        BY <1>3 DEF KickReturns, LeftLoops
  <2> QED
    BY <1>3, <2>1 DEF KickReturns, Life!Returns
<1>4. ASSUME KickCancelled PROVE Life!Over
  <2>1. LeftLoops' = LeftLoops
        BY <1>4 DEF KickCancelled, LeftLoops
  <2> QED
    BY <1>4, <2>1 DEF KickCancelled, Life!Over
<1>5. ASSUME SegmentStep \/ LivenessStep
      PROVE  Life!LoopEnds \/ UNCHANGED Life!lifeVars
  BY <1>5, LoopStep DEF LoopGoesOn, LoopIsOver, Sends, Life!LoopEnds
<1>6. ASSUME ChannelTurns \/ UNCHANGED kickVars PROVE UNCHANGED Life!lifeVars
  BY <1>6 DEF ChannelTurns, kickVars, LeftLoops
<1> QED
  BY <1>1, <1>2, <1>3, <1>4, <1>5, <1>6 DEF KickNext, KickStart

\* The viewer of Kick is a viewer as ReconnectingViewer has it, step by step: its two loops
\* run from the end of its set-up, each sends one result, and Start returns with a result
\* or because its context is done.
THEOREM KickIsViewer == KickInit /\ [][KickNext]_kickVars => ImplementsViewer
<1>1. KickInit => Life!LifeInit
      BY DEF KickInit, Life!LifeInit, LeftLoops
<1>2. KickInv /\ [KickNext]_kickVars => [Life!LifeNext]_(Life!lifeVars)
      BY KickStepIsLifeStep
<1> QED
  BY <1>1, <1>2, InitKick, NextKick, PTL DEF ImplementsViewer, Life!LifeSpec

-----------------------------------------------------------------------------
(* TwitchSession.                                                            *)

\* From its metadata on a viewer has a broadcast, which is not off the air.
HasBroadcast ==
  viewer \in {"identity", "access", "playlist", "event", "active"} => broadcastID # OffAir

\* No heartbeat is sent before the set-up is over, and none without a broadcast.
HeartHasBroadcast ==
  /\ viewer \in SetUpStages \cup {"event"} => heartbeat = "off"
  /\ heartbeat # "off" => broadcastID # OffAir

\* During the set-up the broadcast is that on the air, unless the channel changed; from the
\* playlist on, the stream is that of the broadcast.
OfOneBroadcast ==
  ~restarted =>
    /\ viewer \in {"identity", "access", "playlist"} => onAir = broadcastID
    /\ viewer \in {"event", "active"} => weaverURL = broadcastID

\* The claimer claims a bonus it has seen.
ClaimsSeenBonus == claimer = "claim" => claimID \in Bonuses

TwitchInv ==
  /\ TwitchTypeOK
  /\ HasBroadcast
  /\ HeartHasBroadcast
  /\ OfOneBroadcast
  /\ ClaimsSeenBonus
  /\ BroadcastMatches

LEMMA InitTwitch == TwitchInit => TwitchInv
<1> SUFFICES ASSUME TwitchInit PROVE TwitchInv
    OBVIOUS
<1>1. TwitchTypeOK
      BY DEF TwitchInit, TwitchTypeOK, SetUpStages
<1>2. HasBroadcast /\ HeartHasBroadcast /\ OfOneBroadcast /\ ClaimsSeenBonus /\ BroadcastMatches
      BY DEF TwitchInit, HasBroadcast, HeartHasBroadcast, OfOneBroadcast, ClaimsSeenBonus,
             BroadcastMatches
<1> QED
  BY <1>1, <1>2 DEF TwitchInv

\* The type invariant in parts.
FlagsTyped == viewerOver \in BOOLEAN /\ restarted \in BOOLEAN
PlatformTyped ==
  /\ onAir \in Broadcasts \cup {OffAir} /\ pastOnAir \subseteq Broadcasts
  /\ offered \in Bonuses \cup {NoBonus} /\ taken \subseteq Bonuses
LearntTyped ==
  /\ viewer \in SetUpStages \cup {"event", "active", "returned"}
  /\ broadcastID \in Broadcasts \cup {OffAir} /\ weaverURL \in Broadcasts \cup {OffAir}
  /\ spadeURL \in {"", "known"}
HeartTyped == heartbeat \in {"off", "wait", "page", "post"} /\ reported \subseteq Broadcasts
ClaimTyped ==
  /\ liveness \in {"off", "wait", "head"}
  /\ claimer \in {"off", "wait", "check", "claim"} /\ claimID \in Bonuses \cup {NoBonus}

LEMMA TwitchParts ==
  TwitchTypeOK <=> FlagsTyped /\ PlatformTyped /\ LearntTyped /\ HeartTyped /\ ClaimTyped
BY DEF TwitchTypeOK, FlagsTyped, PlatformTyped, LearntTyped, HeartTyped, ClaimTyped

LEMMA TwitchPartsNext ==
  FlagsTyped' /\ PlatformTyped' /\ LearntTyped' /\ HeartTyped' /\ ClaimTyped' => TwitchTypeOK'
BY DEF TwitchTypeOK, FlagsTyped, PlatformTyped, LearntTyped, HeartTyped, ClaimTyped

\* A step of Start.  The set-up ends with what it learnt, or the viewer returns.
LEMMA TwitchStartSteps ==
  ASSUME TwitchInv, StartStep \/ SocketLost
  PROVE  TwitchInv'
<1> USE DEF TwitchInv, learntVars, loopsVars, platformVars, Answered
<1>1. CASE FetchMetadata
  <2>1. TwitchTypeOK' /\ ClaimsSeenBonus'
    <3>1. FlagsTyped'
          BY <1>1, TwitchParts DEF FetchMetadata, FlagsTyped
    <3>2. PlatformTyped'
          BY <1>1, TwitchParts DEF FetchMetadata, PlatformTyped
    <3>3. LearntTyped'
      <4>1. broadcastID' = onAir /\ onAir \in Broadcasts \cup {OffAir}
            BY <1>1, TwitchParts DEF FetchMetadata, PlatformTyped
      <4>2. viewer' \in {"returned", "identity"} /\ UNCHANGED <<weaverURL, spadeURL>>
            BY <1>1 DEF FetchMetadata
      <4> QED
        BY <4>1, <4>2, TwitchParts DEF LearntTyped, SetUpStages
    <3>4. HeartTyped'
          BY <1>1, TwitchParts DEF FetchMetadata, HeartTyped
    <3>5. ClaimTyped'
          BY <1>1, TwitchParts DEF FetchMetadata, ClaimTyped
    <3>6. ClaimsSeenBonus'
          BY <1>1, TwitchParts DEF FetchMetadata, ClaimsSeenBonus, ClaimTyped
    <3> QED
      BY <3>1, <3>2, <3>3, <3>4, <3>5, <3>6, TwitchPartsNext
  <2>2. HasBroadcast' /\ OfOneBroadcast' /\ BroadcastMatches'
        BY <1>1 DEF FetchMetadata, HasBroadcast, OfOneBroadcast, BroadcastMatches
  <2>3. HeartHasBroadcast'
        BY <1>1 DEF FetchMetadata, HeartHasBroadcast, SetUpStages
  <2> QED
    BY <2>1, <2>2, <2>3
<1>2. ASSUME AuthenticatedUser \/ StreamToken \/ SetUpFails \/ StartReturns \/ SocketLost
      PROVE  TwitchInv'
  <2>1. /\ UNCHANGED <<broadcastID, weaverURL, heartbeat, liveness, claimer, claimID, onAir, offered,
                        pastOnAir, taken, restarted, viewerOver, reported, spadeURL>>
        /\ \/ viewer = "identity" /\ viewer' = "access"
           \/ viewer = "access" /\ viewer' = "playlist"
           \/ viewer' = "returned"
        BY <1>2 DEF AuthenticatedUser, StreamToken, SetUpFails, StartReturns, SocketLost
  <2>0. /\ viewerOver' \in BOOLEAN /\ restarted' \in BOOLEAN
        /\ pastOnAir' \subseteq Broadcasts /\ taken' \subseteq Bonuses /\ reported' \subseteq Broadcasts
        BY <2>1 DEF TwitchTypeOK
  <2>2. TwitchTypeOK' /\ ClaimsSeenBonus'
    <3>1. FlagsTyped'
          BY <2>0, <2>1, TwitchParts DEF FlagsTyped
    <3>2. PlatformTyped'
          BY <2>0, <2>1, TwitchParts DEF PlatformTyped
    <3>3. LearntTyped'
          BY <2>0, <2>1, TwitchParts DEF LearntTyped, SetUpStages
    <3>4. HeartTyped'
          BY <2>0, <2>1, TwitchParts DEF HeartTyped
    <3>5. ClaimTyped'
          BY <2>0, <2>1, TwitchParts DEF ClaimTyped
    <3>6. ClaimsSeenBonus'
          BY <2>0, <2>1, TwitchParts DEF ClaimsSeenBonus, ClaimTyped
    <3> QED
      BY <3>1, <3>2, <3>3, <3>4, <3>5, <3>6, TwitchPartsNext
  <2>3. HasBroadcast' /\ OfOneBroadcast' /\ BroadcastMatches'
        BY <2>1 DEF HasBroadcast, OfOneBroadcast, BroadcastMatches
  <2>4. HeartHasBroadcast'
        BY <2>1 DEF HeartHasBroadcast, SetUpStages
  <2> QED
    BY <2>2, <2>3, <2>4
<1>3. CASE MasterPlaylist
  <2>1. TwitchTypeOK' /\ ClaimsSeenBonus'
    <3>1. FlagsTyped'
          BY <1>3, TwitchParts DEF MasterPlaylist, FlagsTyped
    <3>2. PlatformTyped'
          BY <1>3, TwitchParts DEF MasterPlaylist, PlatformTyped
    <3>3. LearntTyped'
      <4>1. weaverURL' = onAir /\ onAir \in Broadcasts \cup {OffAir}
            BY <1>3, TwitchParts DEF MasterPlaylist, PlatformTyped
      <4>2. viewer' = "event" /\ UNCHANGED <<broadcastID, spadeURL>>
            BY <1>3 DEF MasterPlaylist
      <4> QED
        BY <4>1, <4>2, TwitchParts DEF LearntTyped
    <3>4. HeartTyped'
          BY <1>3, TwitchParts DEF MasterPlaylist, HeartTyped
    <3>5. ClaimTyped'
          BY <1>3, TwitchParts DEF MasterPlaylist, ClaimTyped
    <3>6. ClaimsSeenBonus'
          BY <1>3, TwitchParts DEF MasterPlaylist, ClaimsSeenBonus, ClaimTyped
    <3> QED
      BY <3>1, <3>2, <3>3, <3>4, <3>5, <3>6, TwitchPartsNext
  <2>2. HasBroadcast' /\ OfOneBroadcast' /\ BroadcastMatches'
        BY <1>3 DEF MasterPlaylist, HasBroadcast, OfOneBroadcast, BroadcastMatches
  <2>3. HeartHasBroadcast'
        BY <1>3 DEF MasterPlaylist, HeartHasBroadcast, SetUpStages
  <2> QED
    BY <2>1, <2>2, <2>3
<1>4. CASE FirstEvent
  <2>1. TwitchTypeOK' /\ ClaimsSeenBonus'
    <3>1. FlagsTyped'
          BY <1>4, TwitchParts DEF FirstEvent, FlagsTyped
    <3>2. PlatformTyped'
          BY <1>4, TwitchParts DEF FirstEvent, PlatformTyped
    <3>3. LearntTyped'
          BY <1>4, TwitchParts DEF FirstEvent, LearntTyped, SetUpStages
    <3>4. HeartTyped'
          BY <1>4, TwitchParts DEF FirstEvent, HeartTyped
    <3>5. ClaimTyped'
          BY <1>4, TwitchParts DEF FirstEvent, ClaimTyped
    <3>6. ClaimsSeenBonus'
          BY <1>4, TwitchParts DEF FirstEvent, ClaimsSeenBonus, ClaimTyped
    <3> QED
      BY <3>1, <3>2, <3>3, <3>4, <3>5, <3>6, TwitchPartsNext
  <2>2. HasBroadcast' /\ OfOneBroadcast' /\ BroadcastMatches'
        BY <1>4 DEF FirstEvent, HasBroadcast, OfOneBroadcast, BroadcastMatches
  <2>3. HeartHasBroadcast'
        BY <1>4 DEF FirstEvent, HasBroadcast, HeartHasBroadcast, SetUpStages
  <2> QED
    BY <2>1, <2>2, <2>3
<1> QED
  BY <1>1, <1>2, <1>3, <1>4 DEF StartStep, SetUpStep

\* A step of the heartbeats: only those that began go on, and they name the broadcast.
LEMMA TwitchHeartSteps ==
  ASSUME TwitchInv, HeartStep
  PROVE  TwitchInv'
<1> USE DEF TwitchInv, keptByHeart, learntVars, platformVars, Answered
<1>1. /\ UNCHANGED <<viewer, viewerOver, broadcastID, weaverURL, liveness, claimer, claimID,
                     onAir, offered, pastOnAir, taken, restarted>>
      /\ heartbeat # "off"
      BY DEF HeartStep, HeartTick, SpadePage, SpadePost, HeartEnds
<1>2. heartbeat' \in {"off", "wait", "page", "post"} /\ spadeURL' \in {"", "known"}
      BY DEF HeartStep, HeartTick, SpadePage, SpadePost, HeartEnds, TwitchTypeOK
<1>3. reported' \in {reported, reported \cup {broadcastID}}
      BY DEF HeartStep, HeartTick, SpadePage, SpadePost, HeartEnds
<1>4. broadcastID \in Broadcasts
      BY <1>1 DEF HeartHasBroadcast, TwitchTypeOK
<1>0. viewerOver' \in BOOLEAN /\ restarted' \in BOOLEAN
      BY <1>1 DEF TwitchTypeOK
<1>5. TwitchTypeOK' /\ ClaimsSeenBonus'
  <2>1. FlagsTyped'
        BY <1>0, <1>1, <1>2, <1>3, <1>4, TwitchParts DEF FlagsTyped
  <2>2. PlatformTyped'
        BY <1>0, <1>1, <1>2, <1>3, <1>4, TwitchParts DEF PlatformTyped
  <2>3. LearntTyped'
        BY <1>0, <1>1, <1>2, <1>3, <1>4, TwitchParts DEF LearntTyped, SetUpStages
  <2>4. HeartTyped'
        BY <1>0, <1>1, <1>2, <1>3, <1>4, TwitchParts DEF HeartTyped
  <2>5. ClaimTyped'
        BY <1>0, <1>1, <1>2, <1>3, <1>4, TwitchParts DEF ClaimTyped
  <2>6. ClaimsSeenBonus'
        BY <1>0, <1>1, <1>2, <1>3, <1>4, TwitchParts DEF ClaimsSeenBonus, ClaimTyped
  <2> QED
    BY <2>1, <2>2, <2>3, <2>4, <2>5, <2>6, TwitchPartsNext
<1>6. HasBroadcast' /\ OfOneBroadcast'
      BY <1>1 DEF HasBroadcast, OfOneBroadcast
<1>7. HeartHasBroadcast'
      BY <1>1 DEF HeartHasBroadcast
<1>8. BroadcastMatches'
      BY <1>1, <1>3, <1>4, SessionAssumption DEF SessionAssumption, BroadcastMatches
<1> QED
  BY <1>5, <1>6, <1>7, <1>8

\* Steps of the liveness loop, of the claimer, of the platform and of the context.
LEMMA TwitchOtherSteps ==
  ASSUME TwitchInv, LookStep \/ ClaimStep \/ ChannelChanges \/ BonusTurns \/ ViewerOver
  PROVE  TwitchInv'
<1> USE DEF TwitchInv, keptByLiveness, keptByClaimer, sessionState, learntVars, loopsVars,
            platformVars, Answered
<1>1. CASE LookStep
  <2>1. /\ UNCHANGED keptByLiveness
        /\ liveness' \in {"off", "wait", "head"}
        BY <1>1 DEF LookStep, LivenessTick, LivenessHead, LivenessOver
  <2>0. /\ viewerOver' \in BOOLEAN /\ restarted' \in BOOLEAN
        /\ pastOnAir' \subseteq Broadcasts /\ taken' \subseteq Bonuses /\ reported' \subseteq Broadcasts
        BY <2>1 DEF TwitchTypeOK
  <2>2. TwitchTypeOK' /\ ClaimsSeenBonus'
    <3>1. FlagsTyped'
          BY <2>0, <2>1, TwitchParts DEF FlagsTyped
    <3>2. PlatformTyped'
          BY <2>0, <2>1, TwitchParts DEF PlatformTyped
    <3>3. LearntTyped'
          BY <2>0, <2>1, TwitchParts DEF LearntTyped, SetUpStages
    <3>4. HeartTyped'
          BY <2>0, <2>1, TwitchParts DEF HeartTyped
    <3>5. ClaimTyped'
          BY <2>0, <2>1, TwitchParts DEF ClaimTyped
    <3>6. ClaimsSeenBonus'
          BY <2>0, <2>1, TwitchParts DEF ClaimsSeenBonus, ClaimTyped
    <3> QED
      BY <3>1, <3>2, <3>3, <3>4, <3>5, <3>6, TwitchPartsNext
  <2>3. HasBroadcast' /\ OfOneBroadcast' /\ BroadcastMatches' /\ HeartHasBroadcast'
        BY <2>1 DEF HasBroadcast, OfOneBroadcast, BroadcastMatches, HeartHasBroadcast
  <2> QED
    BY <2>2, <2>3
<1>2. CASE ClaimStep
  <2>1. UNCHANGED keptByClaimer
        BY <1>2 DEF ClaimStep, ClaimTick, ClaimOver, AvailableBonus, ClaimBonus
  <2>2. /\ claimer' \in {"off", "wait", "check", "claim"}
        /\ claimID' \in Bonuses \cup {NoBonus}
        /\ ClaimsSeenBonus'
        BY <1>2 DEF ClaimStep, ClaimTick, ClaimOver, AvailableBonus, ClaimBonus, TwitchTypeOK,
                    ClaimsSeenBonus
  <2>3. offered' \in Bonuses \cup {NoBonus} /\ taken' \subseteq Bonuses
        BY <1>2 DEF ClaimStep, ClaimTick, ClaimOver, AvailableBonus, ClaimBonus, TwitchTypeOK,
                    ClaimsSeenBonus
  <2>4. TwitchTypeOK'
    <3>1. FlagsTyped'
          BY <2>1, <2>2, <2>3, TwitchParts DEF FlagsTyped
    <3>2. PlatformTyped'
          BY <2>1, <2>2, <2>3, TwitchParts DEF PlatformTyped
    <3>3. LearntTyped'
          BY <2>1, <2>2, <2>3, TwitchParts DEF LearntTyped, SetUpStages
    <3>4. HeartTyped'
          BY <2>1, <2>2, <2>3, TwitchParts DEF HeartTyped
    <3>5. ClaimTyped'
          BY <2>1, <2>2, <2>3, TwitchParts DEF ClaimTyped
    <3>6. ClaimsSeenBonus'
          BY <2>1, <2>2, <2>3, TwitchParts DEF ClaimsSeenBonus, ClaimTyped
    <3> QED
      BY <3>1, <3>2, <3>3, <3>4, <3>5, <3>6, TwitchPartsNext
  <2>5. HasBroadcast' /\ OfOneBroadcast' /\ BroadcastMatches' /\ HeartHasBroadcast'
        BY <2>1 DEF HasBroadcast, OfOneBroadcast, BroadcastMatches, HeartHasBroadcast
  <2> QED
    BY <2>2, <2>4, <2>5
<1>3. CASE ChannelChanges
  <2>0. /\ viewerOver' \in BOOLEAN /\ restarted' \in BOOLEAN
        /\ pastOnAir' \subseteq Broadcasts /\ taken' \subseteq Bonuses /\ reported' \subseteq Broadcasts
        BY <1>3 DEF ChannelChanges, TwitchTypeOK
  <2>1. TwitchTypeOK' /\ ClaimsSeenBonus'
    <3>1. /\ UNCHANGED <<broadcastID, weaverURL, heartbeat, liveness, claimer, claimID, viewer,
                       spadeURL, reported>>
          /\ UNCHANGED <<offered, taken>>
          /\ onAir' \in Broadcasts \cup {OffAir}
          BY <1>3 DEF ChannelChanges, TwitchTypeOK
    <3>2. FlagsTyped'
          BY <2>0, <3>1, TwitchParts DEF FlagsTyped
    <3>3. PlatformTyped'
          BY <2>0, <3>1, TwitchParts DEF PlatformTyped
    <3>4. LearntTyped'
          BY <2>0, <3>1, TwitchParts DEF LearntTyped, SetUpStages
    <3>5. HeartTyped'
          BY <2>0, <3>1, TwitchParts DEF HeartTyped
    <3>6. ClaimTyped'
          BY <2>0, <3>1, TwitchParts DEF ClaimTyped
    <3>7. ClaimsSeenBonus'
          BY <2>0, <3>1, TwitchParts DEF ClaimsSeenBonus, ClaimTyped
    <3> QED
      BY <3>2, <3>3, <3>4, <3>5, <3>6, <3>7, TwitchPartsNext
  <2>2. HasBroadcast' /\ OfOneBroadcast' /\ BroadcastMatches' /\ HeartHasBroadcast'
        BY <1>3 DEF ChannelChanges, HasBroadcast, OfOneBroadcast, BroadcastMatches,
                    HeartHasBroadcast, SetUpStages
  <2> QED
    BY <2>1, <2>2
<1>4. CASE BonusTurns
  <2>0. /\ viewerOver' \in BOOLEAN /\ restarted' \in BOOLEAN
        /\ pastOnAir' \subseteq Broadcasts /\ taken' \subseteq Bonuses /\ reported' \subseteq Broadcasts
        BY <1>4 DEF BonusTurns, TwitchTypeOK
  <2>1. TwitchTypeOK' /\ ClaimsSeenBonus'
    <3>1. /\ UNCHANGED <<broadcastID, weaverURL, heartbeat, liveness, claimer, claimID, viewer,
                       spadeURL, reported>>
          /\ UNCHANGED <<onAir, pastOnAir>>
          /\ offered' \in Bonuses \cup {NoBonus}
          BY <1>4 DEF BonusTurns, TwitchTypeOK
    <3>2. FlagsTyped'
          BY <2>0, <3>1, TwitchParts DEF FlagsTyped
    <3>3. PlatformTyped'
          BY <2>0, <3>1, TwitchParts DEF PlatformTyped
    <3>4. LearntTyped'
          BY <2>0, <3>1, TwitchParts DEF LearntTyped, SetUpStages
    <3>5. HeartTyped'
          BY <2>0, <3>1, TwitchParts DEF HeartTyped
    <3>6. ClaimTyped'
          BY <2>0, <3>1, TwitchParts DEF ClaimTyped
    <3>7. ClaimsSeenBonus'
          BY <2>0, <3>1, TwitchParts DEF ClaimsSeenBonus, ClaimTyped
    <3> QED
      BY <3>2, <3>3, <3>4, <3>5, <3>6, <3>7, TwitchPartsNext
  <2>2. HasBroadcast' /\ OfOneBroadcast' /\ BroadcastMatches' /\ HeartHasBroadcast'
        BY <1>4 DEF BonusTurns, HasBroadcast, OfOneBroadcast, BroadcastMatches, HeartHasBroadcast
  <2> QED
    BY <2>1, <2>2
<1>5. CASE ViewerOver
  <2>0. /\ viewerOver' \in BOOLEAN /\ restarted' \in BOOLEAN
        /\ pastOnAir' \subseteq Broadcasts /\ taken' \subseteq Bonuses /\ reported' \subseteq Broadcasts
        BY <1>5 DEF ViewerOver, TwitchTypeOK
  <2>1. TwitchTypeOK' /\ ClaimsSeenBonus'
    <3>1. /\ UNCHANGED <<broadcastID, weaverURL, heartbeat, liveness, claimer, claimID, viewer,
                       spadeURL, reported>>
          /\ UNCHANGED <<onAir, pastOnAir, offered, taken>>
          BY <1>5 DEF ViewerOver
    <3>2. FlagsTyped'
          BY <2>0, <3>1, TwitchParts DEF FlagsTyped
    <3>3. PlatformTyped'
          BY <2>0, <3>1, TwitchParts DEF PlatformTyped
    <3>4. LearntTyped'
          BY <2>0, <3>1, TwitchParts DEF LearntTyped, SetUpStages
    <3>5. HeartTyped'
          BY <2>0, <3>1, TwitchParts DEF HeartTyped
    <3>6. ClaimTyped'
          BY <2>0, <3>1, TwitchParts DEF ClaimTyped
    <3>7. ClaimsSeenBonus'
          BY <2>0, <3>1, TwitchParts DEF ClaimsSeenBonus, ClaimTyped
    <3> QED
      BY <3>2, <3>3, <3>4, <3>5, <3>6, <3>7, TwitchPartsNext
  <2>2. HasBroadcast' /\ OfOneBroadcast' /\ BroadcastMatches' /\ HeartHasBroadcast'
        BY <1>5 DEF ViewerOver, HasBroadcast, OfOneBroadcast, BroadcastMatches, HeartHasBroadcast
  <2> QED
    BY <2>1, <2>2
<1> QED
  BY <1>1, <1>2, <1>3, <1>4, <1>5

LEMMA NextTwitch == TwitchInv /\ [TwitchNext]_twitchVars => TwitchInv'
<1> SUFFICES ASSUME TwitchInv, [TwitchNext]_twitchVars PROVE TwitchInv'
    OBVIOUS
<1>1. CASE UNCHANGED twitchVars
  <2> USE <1>1 DEF twitchVars, platformVars, sessionState, learntVars, loopsVars, TwitchInv
  <2>0. /\ viewerOver' \in BOOLEAN /\ restarted' \in BOOLEAN
        /\ pastOnAir' \subseteq Broadcasts /\ taken' \subseteq Bonuses /\ reported' \subseteq Broadcasts
        BY DEF TwitchTypeOK
  <2>1. TwitchTypeOK' /\ ClaimsSeenBonus'
    <3>1. /\ UNCHANGED <<broadcastID, weaverURL, heartbeat, liveness, claimer, claimID, viewer,
                       spadeURL, reported>>
          /\ UNCHANGED <<onAir, pastOnAir, offered, taken>>
          OBVIOUS
    <3>2. FlagsTyped'
          BY <2>0, <3>1, TwitchParts DEF FlagsTyped
    <3>3. PlatformTyped'
          BY <2>0, <3>1, TwitchParts DEF PlatformTyped
    <3>4. LearntTyped'
          BY <2>0, <3>1, TwitchParts DEF LearntTyped, SetUpStages
    <3>5. HeartTyped'
          BY <2>0, <3>1, TwitchParts DEF HeartTyped
    <3>6. ClaimTyped'
          BY <2>0, <3>1, TwitchParts DEF ClaimTyped
    <3>7. ClaimsSeenBonus'
          BY <2>0, <3>1, TwitchParts DEF ClaimsSeenBonus, ClaimTyped
    <3> QED
      BY <3>2, <3>3, <3>4, <3>5, <3>6, <3>7, TwitchPartsNext
  <2>2. HasBroadcast' /\ OfOneBroadcast' /\ BroadcastMatches' /\ HeartHasBroadcast'
        BY DEF HasBroadcast, OfOneBroadcast, BroadcastMatches, HeartHasBroadcast
  <2> QED
    BY <2>1, <2>2
<1> QED
  BY <1>1, TwitchStartSteps, TwitchHeartSteps, TwitchOtherSteps DEF TwitchNext

\* Every reachable state of a viewer of Twitch has its type.
THEOREM TwitchTypeCorrect == TwitchInit /\ [][TwitchNext]_twitchVars => []TwitchTypeOK
<1>1. TwitchInv => TwitchTypeOK
      BY DEF TwitchInv
<1> QED
  BY <1>1, InitTwitch, NextTwitch, PTL

\* For every set of broadcasts: an active viewer reports the broadcast whose stream it
\* watches, unless the channel began another one between the requests of its set-up, and
\* no heartbeat names none.
THEOREM HeartbeatsMatch == TwitchInit /\ [][TwitchNext]_twitchVars => []BroadcastMatches
<1>1. TwitchInv => BroadcastMatches
      BY DEF TwitchInv
<1> QED
  BY <1>1, InitTwitch, NextTwitch, PTL

-----------------------------------------------------------------------------
(* TwitchSocket: ad events that wait.                                        *)

\* Where a queue holds ad events.
AdPositions(q) == {i \in DOMAIN q : q[i] = "ad"}

LEMMA AdPositionsFinite ==
  ASSUME NEW S, NEW q \in Seq(S)
  PROVE  /\ IsFiniteSet(AdPositions(q))
         /\ Cardinality(AdPositions(q)) \in Nat
<1>1. AdPositions(q) \subseteq 1..Len(q) /\ Len(q) \in Nat
      BY DEF AdPositions
<1>2. IsFiniteSet(1..Len(q))
      BY <1>1, FS_Interval
<1>3. IsFiniteSet(AdPositions(q))
      BY <1>1, <1>2, FS_Subset
<1> QED
  BY <1>3, FS_CardinalityType

\* A message that joins the queue adds one ad event, or none.
LEMMA AdsOfAppend ==
  ASSUME NEW S, NEW q \in Seq(S), NEW m \in S
  PROVE  Cardinality(AdPositions(Append(q, m))) =
           IF m = "ad" THEN Cardinality(AdPositions(q)) + 1 ELSE Cardinality(AdPositions(q))
<1>1. IsFiniteSet(AdPositions(q))
      BY AdPositionsFinite
<1>2. /\ DOMAIN Append(q, m) = 1..(Len(q) + 1) /\ DOMAIN q = 1..Len(q) /\ Len(q) \in Nat
      /\ \A i \in 1..Len(q) : Append(q, m)[i] = q[i]
      /\ Append(q, m)[Len(q) + 1] = m
      BY AppendProperties
<1>3. CASE m = "ad"
  <2>1. AdPositions(Append(q, m)) = AdPositions(q) \cup {Len(q) + 1}
        BY <1>2, <1>3 DEF AdPositions
  <2>2. Len(q) + 1 \notin AdPositions(q)
        BY <1>2 DEF AdPositions
  <2> QED
    BY <1>1, <1>3, <2>1, <2>2, FS_AddElement
<1>4. CASE m # "ad"
  <2>1. AdPositions(Append(q, m)) = AdPositions(q)
        BY <1>2, <1>4 DEF AdPositions
  <2> QED
    BY <1>4, <2>1
<1> QED
  BY <1>3, <1>4

\* The message that leaves it takes one away, or none.
LEMMA AdsOfTail ==
  ASSUME NEW S, NEW q \in Seq(S), q # <<>>
  PROVE  Cardinality(AdPositions(Tail(q))) =
           IF Head(q) = "ad" THEN Cardinality(AdPositions(q)) - 1 ELSE Cardinality(AdPositions(q))
<1> DEFINE before == AdPositions(q) \ {1}
           after == AdPositions(Tail(q))
           shift == [i \in after |-> i + 1]
<1>1. IsFiniteSet(AdPositions(q)) /\ IsFiniteSet(after)
      BY AdPositionsFinite, HeadTailProperties
<1>2. /\ DOMAIN Tail(q) = 1..(Len(q) - 1) /\ DOMAIN q = 1..Len(q) /\ Len(q) \in Nat \ {0}
      /\ \A i \in 1..(Len(q) - 1) : Tail(q)[i] = q[i + 1]
      /\ Head(q) = q[1]
      BY HeadTailProperties
<1>3. shift \in Bijection(after, before)
  <2>1. \A i \in after : i \in Nat /\ i + 1 \in before
        BY <1>2 DEF AdPositions
  <2>2. \A j \in before : j - 1 \in after /\ (j - 1) + 1 = j
        BY <1>2 DEF AdPositions
  <2>3. shift \in Injection(after, before)
        BY <2>1 DEF Injection, IsInjective
  <2>4. shift \in Surjection(after, before)
        BY <2>1, <2>2 DEF Surjection
  <2> QED
    BY <2>3, <2>4 DEF Bijection
<1>4. Cardinality(before) = Cardinality(after)
      BY <1>1, <1>3, FS_Bijection DEF ExistsBijection
<1>5. 1 \in AdPositions(q) <=> Head(q) = "ad"
      BY <1>2 DEF AdPositions
<1> QED
  BY <1>1, <1>4, <1>5, FS_RemoveElement

-----------------------------------------------------------------------------
(* TwitchSocket: the inductive invariant.                                    *)

\* Before it dialled a reader has no connection.
DialHasNoLink == reader = "dial" => link = "none"

\* Ad events that were and those that wait stay within the bound.
WatchesFit == watches + Cardinality(AdPositions(inbox)) <= MaxWatches

\* A watcher counts the ads it has seen, which are those it met, and has seen no end yet.
WatcherCounts ==
  /\ counted = Cardinality(processed)
  /\ reader = "watch" =>
       /\ watches > 0 /\ watches \notin endings
       /\ \A a \in Ads : a \in processed <=> <<watches, a>> \in met

SocketInv ==
  /\ SocketTypeOK
  /\ DialHasNoLink
  /\ WatchesFit
  /\ WatcherCounts
  /\ SocketSafe

\* What the viewer was told of: all that was met, but by the watcher that still watches.
Reported == {p \in met : reader = "watch" => p[1] # watches}

LEMMA AdsCountedIs == AdsCounted <=> adsWatched = Cardinality(Reported) + Cardinality(endings)
BY DEF AdsCounted, Reported

LEMMA AdsCountedNext ==
  AdsCounted' <=> adsWatched' = Cardinality(Reported') + Cardinality(endings')
BY DEF AdsCounted, Reported

\* All these sets are finite.
LEMMA WatchesFinite ==
  ASSUME SocketTypeOK
  PROVE  /\ IsFiniteSet(met) /\ IsFiniteSet(endings) /\ IsFiniteSet(processed)
         /\ IsFiniteSet(Reported)
         /\ Cardinality(processed) \in 0..Cardinality(Ads)
<1>1. watches \in Nat /\ IsFiniteSet(Ads)
      BY SocketAssumption DEF SocketAssumption, SocketTypeOK
<1>2. IsFiniteSet(1..watches)
      BY <1>1, FS_Interval
<1>3. IsFiniteSet((1..watches) \X Ads)
      BY <1>1, <1>2, FS_Product
<1>4. /\ met \in SUBSET ((1..watches) \X Ads) /\ endings \in SUBSET (1..watches)
      /\ processed \in SUBSET Ads /\ Reported \in SUBSET met
      BY DEF SocketTypeOK, Reported
<1>5. IsFiniteSet(met) /\ IsFiniteSet(endings)
      BY <1>2, <1>3, <1>4, FS_Subset
<1>6. IsFiniteSet(processed) /\ Cardinality(processed) <= Cardinality(Ads)
      BY <1>1, <1>4, FS_Subset
<1>7. IsFiniteSet(Reported)
      BY <1>4, <1>5, FS_Subset
<1>8. Cardinality(processed) \in Nat /\ Cardinality(Ads) \in Nat
      BY <1>1, <1>6, FS_CardinalityType
<1> QED
  BY <1>5, <1>6, <1>7, <1>8

LEMMA InitSocket == SocketInit => SocketInv
<1> SUFFICES ASSUME SocketInit PROVE SocketInv
    OBVIOUS
<1> USE DEF SocketInit
<1>1. Cardinality(Ads) \in Nat /\ MaxWatches \in Nat /\ MaxInbox \in Nat
      BY SocketAssumption, FS_CardinalityType DEF SocketAssumption
<1>2. inbox \in Seq(Messages) /\ Len(inbox) = 0 /\ AdPositions(inbox) = {}
      BY DEF AdPositions
<1>3. viewerDone \in BOOLEAN /\ pinger \in BOOLEAN /\ asked \in BOOLEAN
      OBVIOUS
<1>4. counted \in 0..Cardinality(Ads) /\ watches \in 0..MaxWatches /\ adsWatched \in Nat
      BY <1>1
<1>5. met \subseteq (1..watches) \X Ads /\ endings \subseteq 1..watches
      OBVIOUS
<1>6. SocketTypeOK
      BY <1>1, <1>2, <1>3, <1>4, <1>5 DEF SocketTypeOK
<1>7. Reported = {}
      BY DEF Reported
<1>8. DialHasNoLink /\ WatchesFit /\ WatcherCounts
  <2>1. DialHasNoLink
        BY DEF DialHasNoLink
  <2>2. watches + Cardinality({}) <= MaxWatches
        BY <1>1, FS_EmptySet
  <2>3. WatchesFit
        BY <1>2, <2>2 DEF WatchesFit
  <2>4. WatcherCounts
        BY FS_EmptySet DEF WatcherCounts
  <2> QED
    BY <2>1, <2>3, <2>4
<1>9. OnlyReconnectLeaks /\ AdsCounted
      BY <1>7, FS_EmptySet, AdsCountedIs DEF OnlyReconnectLeaks
<1> QED
  BY <1>6, <1>8, <1>9 DEF SocketInv, SocketSafe

\* A step that leaves the watcher and its ads alone keeps what is said of them; a reader
\* that does not watch may go on as it likes.
LEMMA WatcherUntouched ==
  ASSUME SocketInv, UNCHANGED <<watches, processed, counted, adsWatched, met, endings>>,
         reader' = reader \/ (reader # "watch" /\ reader' # "watch")
  PROVE  WatcherCounts' /\ AdsCounted'
<1>1. WatcherCounts'
      BY DEF SocketInv, WatcherCounts
<1>2. Reported' = Reported
      BY DEF Reported
<1> QED
  BY <1>1, <1>2, AdsCountedIs, AdsCountedNext DEF SocketInv, SocketSafe

\* The types of what such a step leaves alone.
LEMMA WatchTypeUntouched ==
  ASSUME SocketTypeOK, UNCHANGED <<watches, processed, currentAd, counted, adsWatched, met, endings>>
  PROVE  /\ watches' \in 0..MaxWatches
         /\ processed' \subseteq Ads /\ currentAd' \in processed' \cup {NoAd}
         /\ counted' \in 0..Cardinality(Ads) /\ adsWatched' \in Nat
         /\ met' \subseteq (1..watches') \X Ads /\ endings' \subseteq 1..watches'
BY DEF SocketTypeOK

\* The steps of the reader that read no message, of the pinger, of the connection and of
\* the viewer's context.
LEMMA LinkSteps ==
  ASSUME SocketInv, DialEnds \/ GreetEnds \/ Polls \/ ReadFails \/ PingerEnds \/ Drop \/ ViewerDone
  PROVE  SocketInv'
<1> USE DEF watchVars
<1>1. /\ UNCHANGED <<client, inbox, asked, airing, aired, watches, processed, currentAd, counted,
                     adsWatched, met, endings>>
      /\ reader' \in {"dial", "greet", "poll", "read", "watch", "returned"}
      /\ reader' = reader \/ (reader # "watch" /\ reader' # "watch")
      /\ link' \in {"none", "open", "closed"}
      BY DEF DialEnds, GreetEnds, Polls, ReadFails, PingerEnds, Drop, ViewerDone, SocketInv, SocketTypeOK
<1>2. viewerDone' \in BOOLEAN /\ pinger' \in BOOLEAN /\ asked' \in BOOLEAN
      BY DEF DialEnds, GreetEnds, Polls, ReadFails, PingerEnds, Drop, ViewerDone, SocketInv, SocketTypeOK
<1>3. Messages' = Messages
      BY <1>1 DEF Messages
<1>4. /\ client' \in {"pubsub", "chat"} /\ inbox' \in Seq(Messages') /\ Len(inbox') <= MaxInbox
      /\ airing' \in aired' \cup {NoAd} /\ aired' \subseteq Ads
      BY <1>1, <1>3 DEF SocketInv, SocketTypeOK
<1>5. SocketTypeOK'
      BY <1>1, <1>2, <1>4, WatchTypeUntouched DEF SocketInv, SocketTypeOK
<1>6. DialHasNoLink' /\ OnlyReconnectLeaks'
      BY DEF DialEnds, GreetEnds, Polls, ReadFails, PingerEnds, Drop, ViewerDone, SocketInv, SocketSafe,
             DialHasNoLink, OnlyReconnectLeaks
<1>7. WatchesFit'
      BY <1>1 DEF SocketInv, WatchesFit
<1>8. WatcherCounts' /\ AdsCounted'
      BY <1>1, WatcherUntouched
<1> QED
  BY <1>5, <1>6, <1>7, <1>8 DEF SocketInv, SocketSafe

\* A message that was received: the queue is one shorter.
LEMMA ReceivedOne ==
  ASSUME SocketInv, NEW m, Received(m)
  PROVE  /\ m \in Messages
         /\ inbox' \in Seq(Messages) /\ Len(inbox') <= MaxInbox
         /\ Cardinality(AdPositions(inbox)) \in Nat
         /\ Cardinality(AdPositions(inbox')) =
              IF m = "ad" THEN Cardinality(AdPositions(inbox)) - 1 ELSE Cardinality(AdPositions(inbox))
<1>1. inbox \in Seq(Messages) /\ inbox # <<>> /\ Head(inbox) = m /\ inbox' = Tail(inbox)
      BY DEF SocketInv, SocketTypeOK, Received
<1>2. Len(inbox) <= MaxInbox /\ Len(inbox) \in Nat /\ MaxInbox \in Nat
      BY <1>1, SocketAssumption DEF SocketAssumption, SocketInv, SocketTypeOK
<1>3. m \in Messages /\ Tail(inbox) \in Seq(Messages) /\ Len(Tail(inbox)) = Len(inbox) - 1
      BY <1>1, HeadTailProperties
<1>4. Cardinality(AdPositions(inbox)) \in Nat
      BY <1>1, AdPositionsFinite
<1>5. Cardinality(AdPositions(Tail(inbox))) =
        IF m = "ad" THEN Cardinality(AdPositions(inbox)) - 1 ELSE Cardinality(AdPositions(inbox))
      BY <1>1, AdsOfTail
<1> QED
  BY <1>1, <1>2, <1>3, <1>4, <1>5

LEMMA ReceiveSteps ==
  ASSUME SocketInv, ReceiveOther \/ ReceiveReconnect \/ ReceivePing
  PROVE  SocketInv'
<1> USE DEF watchVars
<1>0. PICK m \in {"other", "reconnect", "ping"} : Received(m)
      BY DEF ReceiveOther, ReceiveReconnect, ReceivePing
<1>1. /\ UNCHANGED <<client, viewerDone, pinger, airing, aired, watches, processed, currentAd,
                     counted, adsWatched, met, endings>>
      /\ reader = "read" /\ reader' \in {"poll", "returned"}
      /\ link' \in {"none", "open", "closed"}
      BY DEF ReceiveOther, ReceiveReconnect, ReceivePing, Received, SocketInv, SocketTypeOK
<1>2. viewerDone' \in BOOLEAN /\ pinger' \in BOOLEAN /\ asked' \in BOOLEAN
      BY <1>1 DEF ReceiveOther, ReceiveReconnect, ReceivePing, SocketInv, SocketTypeOK
<1>3. Messages' = Messages
      BY <1>1 DEF Messages
<1>4. /\ client' \in {"pubsub", "chat"} /\ inbox' \in Seq(Messages') /\ Len(inbox') <= MaxInbox
      /\ airing' \in aired' \cup {NoAd} /\ aired' \subseteq Ads
      BY <1>0, <1>1, <1>3, ReceivedOne DEF SocketInv, SocketTypeOK
<1>5. SocketTypeOK'
      BY <1>1, <1>2, <1>4, WatchTypeUntouched DEF SocketInv, SocketTypeOK
<1>6. DialHasNoLink' /\ OnlyReconnectLeaks'
      BY <1>1 DEF ReceiveOther, ReceiveReconnect, ReceivePing, SocketInv, SocketSafe,
                  DialHasNoLink, OnlyReconnectLeaks
<1>7. WatchesFit'
      BY <1>0, <1>1, ReceivedOne DEF SocketInv, WatchesFit
<1>8. WatcherCounts' /\ AdsCounted'
      BY <1>1, WatcherUntouched
<1> QED
  BY <1>5, <1>6, <1>7, <1>8 DEF SocketInv, SocketSafe

\* A new watcher has met nothing and counts from zero.
LEMMA ReceiveAdStep ==
  ASSUME SocketInv, ReceiveAd
  PROVE  SocketInv'
<1> USE DEF ReceiveAd
<1>1. /\ UNCHANGED <<client, viewerDone, pinger, airing, aired, adsWatched, met, endings, link, asked>>
      /\ reader = "read" /\ reader' = "watch" /\ watches' = watches + 1
      BY DEF Received
<1>2. /\ inbox' \in Seq(Messages) /\ Len(inbox') <= MaxInbox
      /\ Cardinality(AdPositions(inbox)) \in Nat
      /\ Cardinality(AdPositions(inbox')) = Cardinality(AdPositions(inbox)) - 1
      BY ReceivedOne
<1>3. Cardinality(AdPositions(inbox')) \in Nat
      BY <1>2, AdPositionsFinite
<1>4. watches \in Nat /\ MaxWatches \in Nat /\ watches + Cardinality(AdPositions(inbox)) <= MaxWatches
      BY SocketAssumption DEF SocketAssumption, SocketInv, SocketTypeOK, WatchesFit
<1>5. watches' \in 0..MaxWatches /\ WatchesFit'
      BY <1>1, <1>2, <1>3, <1>4 DEF WatchesFit
<1>6. endings \subseteq 1..watches /\ met \subseteq (1..watches) \X Ads
      BY DEF SocketInv, SocketTypeOK
<1>7. 1..watches \subseteq 1..watches' /\ watches' \notin 1..watches /\ watches' > 0
      BY <1>1, <1>4
<1>8. SocketTypeOK'
  <2>1. Messages' = Messages
        BY <1>1 DEF Messages
  <2>2. viewerDone' \in BOOLEAN /\ pinger' \in BOOLEAN /\ asked' \in BOOLEAN
        BY <1>1 DEF SocketInv, SocketTypeOK
  <2>3. counted' \in 0..Cardinality(Ads)
        BY SocketAssumption, FS_CardinalityType DEF SocketAssumption
  <2>4. processed' \subseteq Ads /\ currentAd' \in processed' \cup {NoAd}
        OBVIOUS
  <2>5. endings' \subseteq 1..watches' /\ met' \subseteq (1..watches') \X Ads
        BY <1>1, <1>6, <1>7
  <2>6. /\ client' \in {"pubsub", "chat"} /\ inbox' \in Seq(Messages')
        /\ airing' \in aired' \cup {NoAd} /\ aired' \subseteq Ads
        /\ reader' \in {"dial", "greet", "poll", "read", "watch", "returned"}
        /\ link' \in {"none", "open", "closed"} /\ adsWatched' \in Nat
        BY <1>1, <1>2, <2>1 DEF SocketInv, SocketTypeOK
  <2> QED
    BY <1>2, <1>5, <2>2, <2>3, <2>4, <2>5, <2>6 DEF SocketTypeOK
<1>9. WatcherCounts'
  <2>1. \A a \in Ads : <<watches', a>> \notin met'
        BY <1>1, <1>6, <1>7
  <2>2. watches' \notin endings'
        BY <1>1, <1>6, <1>7
  <2>3. counted' = Cardinality(processed')
        BY FS_EmptySet
  <2> QED
    BY <1>7, <2>1, <2>2, <2>3 DEF WatcherCounts
<1>10. AdsCounted'
  <2>1. Reported' = Reported
    <3>1. \A p \in met : p[1] # watches'
          BY <1>6, <1>7
    <3> QED
      BY <1>1, <3>1 DEF Reported
  <2> QED
    BY <1>1, <2>1, AdsCountedIs, AdsCountedNext DEF SocketInv, SocketSafe
<1> QED
  BY <1>1, <1>5, <1>8, <1>9, <1>10 DEF SocketInv, SocketSafe, DialHasNoLink, OnlyReconnectLeaks

\* A watcher meets an ad once: then the ad is among those it has processed.
LEMMA WatchSeesStep ==
  ASSUME SocketInv, WatchSees
  PROVE  SocketInv'
<1> USE DEF WatchSees
<1>1. /\ airing \in Ads /\ airing \notin processed
      /\ watches \in 1..MaxWatches /\ watches \in 1..watches
      BY SocketAssumption DEF SocketAssumption, SocketInv, SocketTypeOK, WatcherCounts
<1>2. processed' \subseteq Ads /\ met' \subseteq (1..watches) \X Ads /\ watches' = watches
      BY <1>1 DEF SocketInv, SocketTypeOK
<1>3. counted' = Cardinality(processed')
  <2>1. IsFiniteSet(processed)
        BY WatchesFinite DEF SocketInv
  <2> QED
    BY <1>1, <2>1, FS_AddElement DEF SocketInv, WatcherCounts
<1>4. SocketTypeOK'
  <2>1. Messages' = Messages
        BY DEF Messages
  <2>2. counted' \in 0..Cardinality(Ads)
    <3>1. IsFiniteSet(Ads) /\ processed' \in SUBSET Ads
          BY <1>2, SocketAssumption DEF SocketAssumption
    <3>2. IsFiniteSet(processed') /\ Cardinality(processed') <= Cardinality(Ads)
          BY <3>1, FS_Subset
    <3>3. Cardinality(processed') \in Nat /\ Cardinality(Ads) \in Nat
          BY <3>1, <3>2, FS_CardinalityType
    <3> QED
      BY <1>3, <3>2, <3>3
  <2>3. viewerDone' \in BOOLEAN /\ pinger' \in BOOLEAN /\ asked' \in BOOLEAN
        BY DEF SocketInv, SocketTypeOK
  <2>4. /\ client' \in {"pubsub", "chat"} /\ inbox' \in Seq(Messages') /\ Len(inbox') <= MaxInbox
        /\ airing' \in aired' \cup {NoAd} /\ aired' \subseteq Ads
        /\ reader' \in {"dial", "greet", "poll", "read", "watch", "returned"}
        /\ link' \in {"none", "open", "closed"} /\ adsWatched' \in Nat
        /\ watches' \in 0..MaxWatches /\ endings' \subseteq 1..watches'
        BY <1>2, <2>1 DEF SocketInv, SocketTypeOK
  <2> QED
    BY <1>2, <2>2, <2>3, <2>4 DEF SocketTypeOK
<1>5. WatcherCounts'
  <2>1. \A a \in Ads : a \in processed' <=> <<watches', a>> \in met'
        BY <1>1 DEF SocketInv, WatcherCounts
  <2> QED
    BY <1>3, <2>1 DEF SocketInv, WatcherCounts
<1>6. AdsCounted'
  <2>1. Reported' = Reported
        BY DEF Reported
  <2> QED
    BY <2>1, AdsCountedIs, AdsCountedNext DEF SocketInv, SocketSafe
<1> QED
  BY <1>4, <1>5, <1>6
  DEF SocketInv, SocketSafe, DialHasNoLink, OnlyReconnectLeaks, WatchesFit

\* What a watcher returns is what it met, and the end if it saw one.
LEMMA WatchReturnsStep ==
  ASSUME SocketInv, WatchSeesEnd \/ WatchGivesUp
  PROVE  SocketInv'
<1> USE DEF WatchReturns
<1>1. /\ UNCHANGED <<client, viewerDone, pinger, link, inbox, asked, airing, aired, watches,
                     processed, currentAd, counted, met>>
      /\ reader = "watch" /\ reader' = "poll"
      BY DEF WatchSeesEnd, WatchGivesUp
<1>2. \/ adsWatched' = adsWatched + counted + 1 /\ endings' = endings \cup {watches}
      \/ adsWatched' = adsWatched + counted /\ endings' = endings
  <2>1. adsWatched \in Nat /\ counted \in Nat
        BY DEF SocketInv, SocketTypeOK
  <2> QED
    BY <2>1 DEF WatchSeesEnd, WatchGivesUp
<1>3. watches \in 1..watches /\ watches \notin endings
      BY <1>1 DEF SocketInv, SocketTypeOK, WatcherCounts
<1>4. SocketTypeOK'
  <2>1. Messages' = Messages
        BY <1>1 DEF Messages
  <2>2. adsWatched' \in Nat /\ endings' \subseteq 1..watches'
    <3>1. adsWatched \in Nat /\ counted \in Nat /\ endings \subseteq 1..watches
          BY DEF SocketInv, SocketTypeOK
    <3>2. adsWatched' \in Nat
          BY <1>2, <3>1
    <3>3. endings' \subseteq 1..watches
          BY <1>2, <1>3, <3>1
    <3> QED
      BY <1>1, <3>2, <3>3
  <2>3. viewerDone' \in BOOLEAN /\ pinger' \in BOOLEAN /\ asked' \in BOOLEAN
        BY <1>1 DEF SocketInv, SocketTypeOK
  <2>4. /\ client' \in {"pubsub", "chat"} /\ inbox' \in Seq(Messages') /\ Len(inbox') <= MaxInbox
        /\ airing' \in aired' \cup {NoAd} /\ aired' \subseteq Ads
        /\ reader' \in {"dial", "greet", "poll", "read", "watch", "returned"}
        /\ link' \in {"none", "open", "closed"}
        BY <1>1, <2>1 DEF SocketInv, SocketTypeOK
  <2>5. /\ watches' \in 0..MaxWatches
        /\ processed' \subseteq Ads /\ currentAd' \in processed' \cup {NoAd}
        /\ counted' \in 0..Cardinality(Ads)
        /\ met' \subseteq (1..watches') \X Ads
        BY <1>1 DEF SocketInv, SocketTypeOK
  <2> QED
    BY <2>2, <2>3, <2>4, <2>5 DEF SocketTypeOK
<1>5. AdsCounted'
  <2> DEFINE own == {watches} \X processed
  <2>1. /\ IsFiniteSet(Reported) /\ IsFiniteSet(processed) /\ IsFiniteSet(endings)
        BY WatchesFinite DEF SocketInv
  <2>2. IsFiniteSet(own) /\ Cardinality(own) = counted
    <3>1. IsFiniteSet({watches}) /\ Cardinality({watches}) = 1
          BY FS_Singleton
    <3>2. IsFiniteSet(own) /\ Cardinality(own) = 1 * Cardinality(processed)
          BY <2>1, <3>1, FS_Product
    <3> QED
      BY <3>2 DEF SocketInv, SocketTypeOK, WatcherCounts
  <2>3. Reported' = Reported \cup own
    <3>1. Reported' = met
          BY <1>1 DEF Reported
    <3>2. \A p \in met : p[1] = watches => p \in own
          BY <1>1 DEF SocketInv, SocketTypeOK, WatcherCounts
    <3>3. own \subseteq met
          BY <1>1 DEF SocketInv, SocketTypeOK, WatcherCounts
    <3> QED
      BY <3>1, <3>2, <3>3 DEF Reported
  <2>4. Reported \cap own = {}
        BY <1>1 DEF Reported
  <2>5. /\ Cardinality(Reported) \in Nat /\ Cardinality(endings) \in Nat /\ Cardinality(own) \in Nat
        /\ Cardinality(Reported') = Cardinality(Reported) + Cardinality(own)
    <3>1. Cardinality(Reported') = Cardinality(Reported) + Cardinality(own) - Cardinality({})
          BY <2>1, <2>2, <2>3, <2>4, FS_Union
    <3>2. Cardinality({}) = 0
          BY FS_EmptySet
    <3> QED
      BY <2>1, <2>2, <3>1, <3>2, FS_CardinalityType
  <2>6. Cardinality(endings \cup {watches}) = Cardinality(endings) + 1
        BY <1>3, <2>1, FS_AddElement
  <2>7. adsWatched = Cardinality(Reported) + Cardinality(endings)
        BY AdsCountedIs DEF SocketInv, SocketSafe
  <2>8. adsWatched' = Cardinality(Reported') + Cardinality(endings')
        BY <1>2, <2>2, <2>5, <2>6, <2>7
  <2> QED
    BY <2>8, AdsCountedNext
<1>6. WatcherCounts'
      BY <1>1 DEF SocketInv, WatcherCounts
<1> QED
  BY <1>1, <1>4, <1>5, <1>6
  DEF SocketInv, SocketSafe, DialHasNoLink, OnlyReconnectLeaks, WatchesFit

\* The server and the playlist.
LEMMA ServerSteps ==
  ASSUME SocketInv, (\E m \in Messages : Send(m)) \/ PlaylistChanges
  PROVE  SocketInv'
<1> USE DEF watchVars
<1>1. ASSUME NEW m \in Messages, Send(m) PROVE SocketInv'
  <2> USE <1>1 DEF Send
  <2>1. /\ UNCHANGED <<client, viewerDone, reader, pinger, link, asked, airing, aired, watches,
                       processed, currentAd, counted, adsWatched, met, endings>>
        /\ inbox' = Append(inbox, m)
        OBVIOUS
  <2>2. inbox \in Seq(Messages) /\ Len(inbox) < MaxInbox
        BY DEF SocketInv, SocketTypeOK
  <2>3. inbox' \in Seq(Messages) /\ Len(inbox') <= MaxInbox
        BY <2>1, <2>2, AppendProperties, SocketAssumption DEF SocketAssumption
  <2>4. Messages' = Messages
        BY <2>1 DEF Messages
  <2>5. viewerDone' \in BOOLEAN /\ pinger' \in BOOLEAN /\ asked' \in BOOLEAN
        BY <2>1 DEF SocketInv, SocketTypeOK
  <2>6. /\ client' \in {"pubsub", "chat"} /\ inbox' \in Seq(Messages')
        /\ airing' \in aired' \cup {NoAd} /\ aired' \subseteq Ads
        /\ reader' \in {"dial", "greet", "poll", "read", "watch", "returned"}
        /\ link' \in {"none", "open", "closed"}
        BY <2>1, <2>3, <2>4 DEF SocketInv, SocketTypeOK
  <2>7. SocketTypeOK'
        BY <2>1, <2>3, <2>5, <2>6, WatchTypeUntouched DEF SocketInv, SocketTypeOK
  <2>8. WatchesFit'
    <3>1. Cardinality(AdPositions(inbox')) =
            IF m = "ad" THEN Cardinality(AdPositions(inbox)) + 1 ELSE Cardinality(AdPositions(inbox))
          BY <2>1, <2>2, AdsOfAppend
    <3>2. Cardinality(AdPositions(inbox)) \in Nat /\ watches \in Nat /\ MaxWatches \in Nat
          BY <2>2, AdPositionsFinite, SocketAssumption
          DEF SocketAssumption, SocketInv, SocketTypeOK
    <3>3. m = "ad" => watches + Cardinality(AdPositions(inbox)) < MaxWatches
          BY DEF AdPositions
    <3> QED
      BY <2>1, <3>1, <3>2, <3>3 DEF SocketInv, WatchesFit
  <2>9. WatcherCounts' /\ AdsCounted'
        BY <2>1, WatcherUntouched
  <2> QED
    BY <2>1, <2>7, <2>8, <2>9 DEF SocketInv, SocketSafe, DialHasNoLink, OnlyReconnectLeaks
<1>2. CASE PlaylistChanges
  <2> USE <1>2 DEF PlaylistChanges
  <2>1. UNCHANGED <<client, viewerDone, reader, pinger, link, inbox, asked, watches,
                    processed, currentAd, counted, adsWatched, met, endings>>
        OBVIOUS
  <2>2. airing' \in aired' \cup {NoAd} /\ aired' \subseteq Ads
        BY DEF SocketInv, SocketTypeOK
  <2>3. Messages' = Messages
        BY <2>1 DEF Messages
  <2>4. viewerDone' \in BOOLEAN /\ pinger' \in BOOLEAN /\ asked' \in BOOLEAN
        BY <2>1 DEF SocketInv, SocketTypeOK
  <2>5. /\ client' \in {"pubsub", "chat"} /\ inbox' \in Seq(Messages') /\ Len(inbox') <= MaxInbox
        /\ reader' \in {"dial", "greet", "poll", "read", "watch", "returned"}
        /\ link' \in {"none", "open", "closed"}
        BY <2>1, <2>3 DEF SocketInv, SocketTypeOK
  <2>6. SocketTypeOK'
        BY <2>1, <2>2, <2>4, <2>5, WatchTypeUntouched DEF SocketInv, SocketTypeOK
  <2>7. WatcherCounts' /\ AdsCounted'
        BY <2>1, WatcherUntouched
  <2> QED
    BY <2>1, <2>6, <2>7
    DEF SocketInv, SocketSafe, DialHasNoLink, OnlyReconnectLeaks, WatchesFit
<1> QED
  BY <1>1, <1>2

LEMMA NextSocket == SocketInv /\ [SocketNext]_socketVars => SocketInv'
<1> SUFFICES ASSUME SocketInv, [SocketNext]_socketVars PROVE SocketInv'
    OBVIOUS
<1>1. CASE UNCHANGED socketVars
  <2>1. UNCHANGED <<client, viewerDone, reader, pinger, link, inbox, asked, airing, aired, watches,
                    processed, currentAd, counted, adsWatched, met, endings>>
        BY <1>1 DEF socketVars, watchVars
  <2>2. Messages' = Messages
        BY <2>1 DEF Messages
  <2>3. viewerDone' \in BOOLEAN /\ pinger' \in BOOLEAN /\ asked' \in BOOLEAN
        BY <2>1 DEF SocketInv, SocketTypeOK
  <2>4. /\ client' \in {"pubsub", "chat"} /\ inbox' \in Seq(Messages') /\ Len(inbox') <= MaxInbox
        /\ airing' \in aired' \cup {NoAd} /\ aired' \subseteq Ads
        /\ reader' \in {"dial", "greet", "poll", "read", "watch", "returned"}
        /\ link' \in {"none", "open", "closed"}
        BY <2>1, <2>2 DEF SocketInv, SocketTypeOK
  <2>5. SocketTypeOK'
        BY <2>1, <2>3, <2>4, WatchTypeUntouched DEF SocketInv, SocketTypeOK
  <2>6. WatcherCounts' /\ AdsCounted'
        BY <2>1, WatcherUntouched
  <2> QED
    BY <2>1, <2>5, <2>6
    DEF SocketInv, SocketSafe, DialHasNoLink, OnlyReconnectLeaks, WatchesFit
<1> QED
  BY <1>1, LinkSteps, ReceiveSteps, ReceiveAdStep, WatchSeesStep, WatchReturnsStep, ServerSteps
  DEF SocketNext, Reader, Watching

\* Every reachable state of a WebSocket client and its ad watchers has its type.
THEOREM SocketTypeCorrect == SocketInit /\ [][SocketNext]_socketVars => []SocketTypeOK
<1>1. SocketInv => SocketTypeOK
      BY DEF SocketInv
<1> QED
  BY <1>1, InitSocket, NextSocket, PTL

\* For every finite set of ads: a connection is left open behind its reader only when the
\* server asked for a reconnect, and the viewer's count is exactly the ads its watchers met
\* and the ends they saw, in whatever order playlists, messages and the end of the context come.
THEOREM SocketsAreSafe == SocketInit /\ [][SocketNext]_socketVars => []SocketSafe
<1>1. SocketInv => SocketSafe
      BY DEF SocketInv
<1> QED
  BY <1>1, InitSocket, NextSocket, PTL
=============================================================================
