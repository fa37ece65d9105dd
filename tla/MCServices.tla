----------------------------- MODULE MCServices -----------------------------
(***************************************************************************)
(* Services of the program that share no state, checked in one run: each   *)
(* behaviour runs one of them, chosen at the start, and the others stay as *)
(* they are.                                                               *)
(***************************************************************************)
EXTENDS Tokens, Restream, LogBroadcast, CircuitBreaker, RateLimiter,
        TwitchSocket, KickViewer, TwitchSession

VARIABLE service

Services == {"tokens", "stream", "logs", "breaker", "limiter", "socket", "kick", "twitch"}

vars == <<service, tokenVars, streamVars, logVars, breakerVars, rateVars,
          socketVars, kickVars, twitchVars>>

\* The services that do not run take no step.
OthersStay ==
  /\ UNCHANGED service
  /\ IF service = "tokens" THEN TRUE ELSE UNCHANGED tokenVars
  /\ IF service = "stream" THEN TRUE ELSE UNCHANGED streamVars
  /\ IF service = "logs" THEN TRUE ELSE UNCHANGED logVars
  /\ IF service = "breaker" THEN TRUE ELSE UNCHANGED breakerVars
  /\ IF service = "limiter" THEN TRUE ELSE UNCHANGED rateVars
  /\ IF service = "socket" THEN TRUE ELSE UNCHANGED socketVars
  /\ IF service = "kick" THEN TRUE ELSE UNCHANGED kickVars
  /\ IF service = "twitch" THEN TRUE ELSE UNCHANGED twitchVars

\* Service s takes the step A; the others take none.
Of(s, A) == service = s /\ A /\ OthersStay

\* What a service may begin with is free for the one that runs.
Init ==
  /\ service \in Services
  /\ TokensInit /\ StreamInit /\ LogBroadcastInit /\ BreakerInit /\ RateInit
  /\ SocketInit /\ KickInit /\ TwitchInit
  /\ service # "tokens" => file = {} /\ known = {}
  /\ service # "socket" => client = "chat"
  /\ service # "kick" => kickOnAir
  /\ service # "twitch" => onAir = OffAir

Next ==
  \/ Of("tokens", TokensNext)
  \/ Of("stream", StreamNext)
  \/ Of("logs", LogBroadcastNext)
  \/ Of("breaker", BreakerNext)
  \/ Of("limiter", RateNext)
  \/ Of("socket", SocketNext)
  \/ Of("kick", KickNext)
  \/ Of("twitch", TwitchNext)

\* Strong fairness, for a writer of the lock of the clients' map, which serves its
\* waiters in turn; for a select that is offered the end of its context, and a
\* request that is made, again and again.  Of two services only one runs, and the
\* ends of a viewer's loops and the claims of bonuses happen once each, so one
\* condition can stand for those of several.
Served(c) == Of("logs", EnterOrLeave(c)) \/ Of("twitch", AvailableBonus /\ claimer' = "claim")
EndsOnce ==
  \/ Of("kick", LivenessEnds)
  \/ Of("twitch", LookStep /\ liveness' = "off")
  \/ Of("twitch", HeartEnds \/ ClaimOver)
  \/ Of("twitch", ClaimBonus /\ offered' # offered)

\* Goroutines that can run do, and requests, processes and timeouts come to an end;
\* callers of the breaker go on calling.
Fairness ==
  /\ \A b \in Batches : WF_vars(Of("tokens", \E t \in Toks : CheckStep(b, t)))
  /\ \A r \in Runs : WF_vars(Of("stream", StreamGoroutine(r)))
  /\ \A p \in Pushers : WF_vars(Of("logs", Offer(p)))
  /\ \A b \in Casters : WF_vars(Of("logs", CastStep(b)))
  /\ WF_vars(Of("breaker", BreakerTick))
  /\ \A c \in Calls : WF_vars(Of("breaker", AllowRequest(c))) /\ WF_vars(Of("breaker", Return(c)))
  /\ WF_vars(Of("socket", Reader)) /\ WF_vars(Of("socket", PingerEnds))
  /\ WF_vars(Of("kick", KickStart)) /\ WF_vars(Of("kick", SegmentStep))
  /\ WF_vars(Of("kick", LivenessStep))
  /\ WF_vars(Of("twitch", StartStep)) /\ WF_vars(Of("twitch", HeartStep))
  /\ WF_vars(Of("twitch", LookStep)) /\ WF_vars(Of("twitch", ClaimStep))
  /\ (\A c \in Conns : SF_vars(Served(c))) /\ SF_vars(EndsOnce)

Spec == Init /\ [][Next]_vars /\ Fairness

-----------------------------------------------------------------------------
ServicesTypeOK ==
  /\ TokensTypeOK /\ StreamTypeOK /\ LogTypeOK /\ BreakerTypeOK /\ RateTypeOK
  /\ SocketTypeOK /\ KickTypeOK /\ TwitchTypeOK

\* What a restream, a circuit or a bucket shows fits what runs, what failed and what
\* was let through.
OutcomesFit == StreamSafe /\ CountsFitCircuit /\ NeverOverRate

\* The viewers' connections, loops and reports are what the platform and the
\* viewer's life have them be.
ViewersSafe == SocketSafe /\ OneLoopLeft /\ BroadcastMatches

\* A service is what another module, simpler, takes it for.
ServicesImplement == ImplementsLog /\ ImplementsViewer

\* What a service has begun it brings to an end.
ServicesProceed ==
  /\ ValidationsEnd /\ StreamEnds /\ NobodyHangs /\ BreakerRecovers
  /\ SocketEnds /\ KickEnds /\ SessionProceeds
=============================================================================
