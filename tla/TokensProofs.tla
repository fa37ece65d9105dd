---------------------------- MODULE TokensProofs ----------------------------
(***************************************************************************)
(* Theorems about module Tokens, for every number of tokens, proxies,      *)
(* validations and slots, and every threshold of errors.                   *)
(***************************************************************************)
EXTENDS Tokens, FiniteSetTheorems, TLAPS

-----------------------------------------------------------------------------
(* The inductive invariant.                                                  *)

\* What is not in the pool has no errors: it starts with none when it is added.
AbsentHasNoErrors == \A t \in Toks : status[t] = "absent" => errors[t] = 0

\* Every check is about a token of the pool, which stays there until the process ends:
\* an answer never brings a token into the pool.
ChecksAreLoaded == \A b \in Batches, t \in Toks : jobs[b][t] # "idle" => t \in Loaded

\* A proxy is held between the request and the deferred Release only.
HeldWhileAsking ==
  \A b \in Batches, t \in Toks : via[b][t] # NoProxy => jobs[b][t] \in {"asked", "written"}

TokensInv ==
  /\ TokensTypeOK
  /\ TokensSafe
  /\ AbsentHasNoErrors
  /\ ChecksAreLoaded
  /\ HeldWhileAsking

-----------------------------------------------------------------------------
(* Operators.                                                                *)

\* At most one token is asked about when none or a given one is.
LEMMA AtMostOneToken ==
  /\ Cardinality({}) <= 1
  /\ \A t : Cardinality({t}) <= 1
BY FS_EmptySet, FS_Singleton

\* A count of errors below the threshold is kept as it is, and no other is reached.
LEMMA Saturated ==
  ASSUME NEW n \in 0..MaxErrors
  PROVE  Saturate(n + 1) \in 0..MaxErrors
BY TokensAssumption DEF TokensAssumption, Saturate

\* A proxy is held when some check has it.
LEMMA HeldBySome ==
  ASSUME NEW p
  PROVE  p \in Held <=> p # NoProxy /\ \E b \in Batches, t \in Toks : via[b][t] = p
BY DEF Held

\* The same, after a step.
LEMMA HeldBySomeNext ==
  ASSUME NEW p
  PROVE  p \in Held' <=> p # NoProxy /\ \E b \in Batches, t \in Toks : via'[b][t] = p
BY DEF Held

\* A step that leaves the checks, their proxies and the pool alone, keeps the tokens of
\* the pool there and breaks nothing about the errors and the file keeps the invariant.
LEMMA ChecksUntouched ==
  ASSUME TokensInv, UNCHANGED <<jobVars, poolVars>>,
         Loaded \subseteq Loaded',
         status' \in [Toks -> TokenStates \cup {"absent"}],
         errors' \in [Toks -> 0..MaxErrors],
         file' \subseteq Toks, lost' \subseteq Toks, appends' \subseteq Toks,
         recheck' \subseteq Loaded', Cardinality(recheck') <= 1,
         UsableHasFewErrors', PoolIsBacked', AbsentHasNoErrors'
  PROVE  TokensInv'
<1>1. TokensTypeOK'
      BY DEF TokensInv, TokensTypeOK, jobVars, poolVars, PoolTypeOK
<1>2. ProxiesHeldByChecks'
      BY DEF TokensInv, TokensSafe, ProxiesHeldByChecks, Held, jobVars, poolVars
<1>3. ChecksAreLoaded' /\ HeldWhileAsking'
      BY DEF TokensInv, ChecksAreLoaded, HeldWhileAsking, jobVars
<1> QED
  BY <1>1, <1>2, <1>3 DEF TokensInv, TokensSafe

-----------------------------------------------------------------------------
(* The invariant holds at the start and is kept by every step.               *)

LEMMA InitTokens == TokensInit => TokensInv
<1> SUFFICES ASSUME TokensInit PROVE TokensInv
    OBVIOUS
<1> USE DEF TokensInit
<1>1. TokensTypeOK
      BY AtMostOneToken, TokensAssumption
      DEF TokensAssumption, TokensTypeOK, PoolInit, PoolTypeOK, TokenStates, NoJobs, NoVia, Phases
<1>2. UsableHasFewErrors /\ AbsentHasNoErrors
      BY TokensAssumption DEF TokensAssumption, UsableHasFewErrors, AbsentHasNoErrors
<1>3. PoolIsBacked
      BY DEF PoolIsBacked, Loaded
<1>4. HeldWhileAsking /\ ChecksAreLoaded
      BY DEF HeldWhileAsking, ChecksAreLoaded, NoVia, NoJobs
<1>5. ProxiesHeldByChecks
  <2>1. \A b \in Batches, t \in Toks : via[b][t] = NoProxy
        BY DEF NoVia
  <2>2. Held = {}
        BY <2>1 DEF Held
  <2> QED
    BY <2>1, <2>2 DEF ProxiesHeldByChecks, PoolInit
<1> QED
  BY <1>1, <1>2, <1>3, <1>4, <1>5 DEF TokensInv, TokensSafe

\* AddBulk, the writing of a line and its failure.
LEMMA StoreSteps ==
  ASSUME TokensInv,
         \/ \E vals \in SUBSET Toks : AddTokens(vals)
         \/ Appending
  PROVE  TokensInv'
<1>1. ASSUME NEW vals \in SUBSET Toks, AddTokens(vals) PROVE TokensInv'
  <2> USE <1>1 DEF AddTokens
  <2>1. /\ status' \in [Toks -> TokenStates \cup {"absent"}]
        /\ Loaded' = Loaded \cup vals
        BY DEF TokensInv, TokensTypeOK, TokenStates, Loaded
  <2>2. UsableHasFewErrors' /\ AbsentHasNoErrors'
        BY TokensAssumption
        DEF TokensAssumption, TokensInv, TokensSafe, UsableHasFewErrors, AbsentHasNoErrors, Loaded
  <2>3. PoolIsBacked'
        BY <2>1 DEF TokensInv, TokensSafe, PoolIsBacked
  <2> QED
    BY <2>1, <2>2, <2>3, ChecksUntouched DEF TokensInv, TokensTypeOK
<1>2. ASSUME NEW t \in Toks, AppendLine(t) \/ AppendFails(t) PROVE TokensInv'
  <2> USE <1>2 DEF AppendLine, AppendFails
  <2>1. Loaded' = Loaded
        BY DEF Loaded
  <2>2. UsableHasFewErrors' /\ AbsentHasNoErrors'
        BY DEF TokensInv, TokensSafe, UsableHasFewErrors, AbsentHasNoErrors
  <2>3. PoolIsBacked'
        BY <2>1 DEF TokensInv, TokensSafe, PoolIsBacked
  <2>4. UNCHANGED <<jobVars, poolVars, status, errors, recheck>>
        OBVIOUS
  <2> QED
    BY <2>1, <2>2, <2>3, <2>4, ChecksUntouched DEF TokensInv, TokensTypeOK
<1> QED
  BY <1>1, <1>2 DEF Appending

LEMMA RestartStep ==
  ASSUME TokensInv, Restart
  PROVE  TokensInv'
<1> USE DEF Restart
<1>1. Loaded' = file /\ file \subseteq Toks
      BY DEF Loaded, TokensInv, TokensTypeOK
<1>2. TokensTypeOK'
      BY AtMostOneToken, TokensAssumption
      DEF TokensAssumption, TokensInv, TokensTypeOK, PoolTypeOK, TokenStates, NoJobs, NoVia, Phases
<1>3. UsableHasFewErrors' /\ AbsentHasNoErrors' /\ PoolIsBacked'
      BY <1>1, TokensAssumption
      DEF TokensAssumption, UsableHasFewErrors, AbsentHasNoErrors, PoolIsBacked
<1>4. HeldWhileAsking' /\ ChecksAreLoaded'
      BY DEF HeldWhileAsking, ChecksAreLoaded, NoVia, NoJobs
<1>5. ProxiesHeldByChecks'
  <2>1. \A b \in Batches, t \in Toks : via'[b][t] = NoProxy
        BY DEF NoVia
  <2>2. Held' = {}
        BY <2>1 DEF Held
  <2> QED
    BY <2>1, <2>2 DEF ProxiesHeldByChecks
<1> QED
  BY <1>1, <1>2, <1>3, <1>4, <1>5 DEF TokensInv, TokensSafe

\* The reports and Manager.ValidateAll change what is known of one token.
LEMMA ReportSteps ==
  ASSUME TokensInv, NEW t \in Toks,
         \/ Quarantine(t) \/ ReportError(t) \/ RecheckAsk(t)
         \/ \E good \in BOOLEAN : RecheckAnswer(t, good)
  PROVE  TokensInv'
<1> USE DEF storeVars
<1>0. /\ status \in [Toks -> TokenStates \cup {"absent"}]
      /\ errors \in [Toks -> 0..MaxErrors]
      /\ recheck \subseteq Loaded /\ Cardinality(recheck) <= 1
      /\ file \subseteq Toks /\ lost \subseteq Toks /\ appends \subseteq Toks
      /\ UsableHasFewErrors /\ AbsentHasNoErrors /\ PoolIsBacked
      BY DEF TokensInv, TokensTypeOK, TokensSafe
<1>1. CASE Quarantine(t)
  <2> USE <1>1 DEF Quarantine
  <2>1. status' \in [Toks -> TokenStates \cup {"absent"}] /\ Loaded' = Loaded
        BY <1>0 DEF TokenStates, Loaded
  <2>2. errors' \in [Toks -> 0..MaxErrors]
        BY <1>0, Saturated
  <2>3. UsableHasFewErrors' /\ AbsentHasNoErrors' /\ PoolIsBacked'
        BY <1>0, <2>1 DEF UsableHasFewErrors, AbsentHasNoErrors, PoolIsBacked
  <2> QED
    BY <1>0, <2>1, <2>2, <2>3, ChecksUntouched
<1>2. CASE ReportError(t)
  <2> USE <1>2 DEF ReportError
  <2>1. errors' \in [Toks -> 0..MaxErrors]
        BY <1>0, Saturated
  <2>2. status' \in [Toks -> TokenStates \cup {"absent"}] /\ Loaded' = Loaded
        BY <1>0 DEF TokenStates, Loaded
  <2>3. UsableHasFewErrors' /\ AbsentHasNoErrors' /\ PoolIsBacked'
    <3>1. errors'[t] < MaxErrors \/ status'[t] = "quarantined"
          BY <1>0, <2>1, TokensAssumption DEF TokensAssumption
    <3>2. \A u \in Toks : u # t => errors'[u] = errors[u] /\ status'[u] = status[u]
          BY <1>0
    <3> QED
      BY <1>0, <2>1, <2>2, <3>1, <3>2
      DEF UsableHasFewErrors, AbsentHasNoErrors, PoolIsBacked, Loaded
  <2> QED
    BY <1>0, <2>1, <2>2, <2>3, ChecksUntouched
<1>3. CASE RecheckAsk(t)
  <2> USE <1>3 DEF RecheckAsk
  <2>1. Loaded' = Loaded /\ recheck' \subseteq Loaded' /\ Cardinality(recheck') <= 1
        BY AtMostOneToken DEF Loaded
  <2>2. UsableHasFewErrors' /\ AbsentHasNoErrors' /\ PoolIsBacked'
        BY <1>0, <2>1 DEF UsableHasFewErrors, AbsentHasNoErrors, PoolIsBacked
  <2> QED
    BY <1>0, <2>1, <2>2, ChecksUntouched
<1>4. ASSUME NEW good \in BOOLEAN, RecheckAnswer(t, good) PROVE TokensInv'
  <2> USE <1>4 DEF RecheckAnswer
  <2>1. status' \in [Toks -> TokenStates \cup {"absent"}] /\ Loaded' = Loaded
        BY <1>0 DEF TokenStates, Loaded
  <2>2. errors' \in [Toks -> 0..MaxErrors]
        BY <1>0, TokensAssumption DEF TokensAssumption
  <2>3. UsableHasFewErrors' /\ AbsentHasNoErrors' /\ PoolIsBacked'
        BY <1>0, <2>1, TokensAssumption
        DEF TokensAssumption, UsableHasFewErrors, AbsentHasNoErrors, PoolIsBacked
  <2> QED
    BY <1>0, <2>1, <2>2, <2>3, AtMostOneToken, ChecksUntouched
<1> QED
  BY <1>1, <1>2, <1>3, <1>4

\* The start of a validation and the wait for a slot.
LEMMA SpawnSteps ==
  ASSUME TokensInv, NEW b \in Batches,
         Validate(b) \/ \E t \in Toks : SpawnCheck(b, t)
  PROVE  TokensInv'
<1> USE DEF storeVars
<1>1. /\ UNCHANGED <<status, errors, storeVars, via, recheck, poolVars>>
      /\ jobs' \in [Batches -> [Toks -> Phases]]
      /\ slots' \in [Batches -> 0..Concurrency]
      /\ \A c \in Batches, u \in Toks :
           /\ jobs'[c][u] # "idle" => jobs[c][u] # "idle" \/ u \in Loaded
           /\ jobs[c][u] \in {"asked", "written"} => jobs'[c][u] = jobs[c][u]
  <2>1. CASE Validate(b)
    <3> USE <2>1 DEF Validate
    <3>1. \A u \in Toks : jobs[b][u] = "idle"
          BY DEF NoJobs
    <3> QED
      BY <3>1 DEF TokensInv, TokensTypeOK, Phases
  <2>2. ASSUME NEW t \in Toks, SpawnCheck(b, t)
        PROVE  <1>1!:
    BY <2>2, TokensAssumption DEF TokensAssumption, SpawnCheck, TokensInv, TokensTypeOK, Phases
  <2> QED
    BY <2>1, <2>2
<1>2. TokensTypeOK'
      BY <1>1 DEF TokensInv, TokensTypeOK, poolVars, PoolTypeOK, Loaded
<1>3. TokensSafe' /\ AbsentHasNoErrors'
      BY <1>1 DEF TokensInv, TokensSafe, UsableHasFewErrors, PoolIsBacked, ProxiesHeldByChecks,
                  AbsentHasNoErrors, Held, Loaded, poolVars
<1>4. ChecksAreLoaded' /\ HeldWhileAsking'
      BY <1>1 DEF TokensInv, ChecksAreLoaded, HeldWhileAsking, Loaded
<1> QED
  BY <1>2, <1>3, <1>4 DEF TokensInv

LEMMA CheckViaStep ==
  ASSUME TokensInv, NEW b \in Batches, NEW t \in Toks, NEW p \in Proxies, CheckVia(b, t, p)
  PROVE  TokensInv'
<1> USE DEF CheckVia, storeVars
<1>1. /\ jobs' \in [Batches -> [Toks -> Phases]]
      /\ \A c \in Batches, u \in Toks :
           jobs'[c][u] = IF c = b /\ u = t THEN "asked" ELSE jobs[c][u]
      BY DEF TokensInv, TokensTypeOK, Phases
<1>2. UsableHasFewErrors' /\ PoolIsBacked' /\ AbsentHasNoErrors' /\ Loaded' = Loaded
      BY DEF TokensInv, TokensSafe, UsableHasFewErrors, PoolIsBacked, AbsentHasNoErrors, Loaded
<1>3. ChecksAreLoaded'
      BY <1>1, <1>2 DEF TokensInv, ChecksAreLoaded
<1>4. via[b][t] = NoProxy
      BY DEF TokensInv, HeldWhileAsking
<1>5. CASE UNCHANGED <<via, poolVars>>
  <2>1. TokensTypeOK'
        BY <1>1, <1>2, <1>5 DEF TokensInv, TokensTypeOK, poolVars, PoolTypeOK
  <2>2. ProxiesHeldByChecks'
        BY <1>5 DEF TokensInv, TokensSafe, ProxiesHeldByChecks, Held, poolVars
  <2>3. HeldWhileAsking'
        BY <1>1, <1>5 DEF TokensInv, HeldWhileAsking
  <2> QED
    BY <1>2, <1>3, <2>1, <2>2, <2>3 DEF TokensInv, TokensSafe
<1>6. CASE Acquire(p) /\ via' = [via EXCEPT ![b][t] = p]
  <2> USE <1>6 DEF Acquire, Available
  <2>1. /\ via' \in [Batches -> [Toks -> Proxies \cup {NoProxy}]]
        /\ \A c \in Batches, u \in Toks :
             via'[c][u] = IF c = b /\ u = t THEN p ELSE via[c][u]
        BY DEF TokensInv, TokensTypeOK
  <2>2. TokensTypeOK'
        BY <1>1, <1>2, <2>1 DEF TokensInv, TokensTypeOK, PoolTypeOK
  <2>3. p # NoProxy /\ \A c \in Batches, u \in Toks : via[c][u] # p
    <3>1. p \notin Held /\ p # NoProxy
          BY TokensAssumption
          DEF TokensAssumption, TokensInv, TokensSafe, ProxiesHeldByChecks
    <3> QED
      BY <3>1, HeldBySome
  <2>4. Held' = Held \cup {p}
    <3> SUFFICES ASSUME NEW q PROVE q \in Held' <=> q \in Held \/ q = p
        OBVIOUS
    <3>1. q \in Held' <=> q # NoProxy /\ \E c \in Batches, u \in Toks : via'[c][u] = q
          BY HeldBySomeNext
    <3>2. q \in Held <=> q # NoProxy /\ \E c \in Batches, u \in Toks : via[c][u] = q
          BY HeldBySome
    <3> QED
      BY <1>4, <2>1, <2>3, <3>1, <3>2
  <2>5. ProxiesHeldByChecks'
    <3>1. inUse' = Held'
          BY <2>4 DEF TokensInv, TokensSafe, ProxiesHeldByChecks
    <3>2. \A b1, b2 \in Batches, t1, t2 \in Toks :
            via'[b1][t1] = via'[b2][t2] /\ via'[b1][t1] # NoProxy => b1 = b2 /\ t1 = t2
          BY <2>1, <2>3 DEF TokensInv, TokensSafe, ProxiesHeldByChecks
    <3> QED
      BY <3>1, <3>2 DEF ProxiesHeldByChecks
  <2>6. HeldWhileAsking'
        BY <1>1, <2>1 DEF TokensInv, HeldWhileAsking
  <2> QED
    BY <1>2, <1>3, <2>2, <2>5, <2>6 DEF TokensInv, TokensSafe
<1> QED
  BY <1>5, <1>6

\* An answer is about a token of the pool: it changes what is known of it, no more.
LEMMA CheckAnswerStep ==
  ASSUME TokensInv, NEW b \in Batches, NEW t \in Toks,
         NEW answer \in {"valid", "expired", "rate_limited", "invalid"},
         CheckAnswer(b, t, answer)
  PROVE  TokensInv'
<1> USE DEF CheckAnswer, storeVars
<1>0. t \in Loaded
      BY DEF TokensInv, ChecksAreLoaded
<1>1. /\ jobs' \in [Batches -> [Toks -> Phases]]
      /\ \A c \in Batches, u \in Toks :
           jobs'[c][u] = IF c = b /\ u = t THEN "written" ELSE jobs[c][u]
      BY DEF TokensInv, TokensTypeOK, Phases
<1>2. /\ status' \in [Toks -> TokenStates \cup {"absent"}]
      /\ errors' \in [Toks -> 0..MaxErrors]
      /\ status'[t] = "valid" => errors'[t] = 0 \/ (status[t] = "valid" /\ errors'[t] = errors[t])
      /\ status'[t] # "absent"
      /\ \A u \in Toks : u # t => status'[u] = status[u] /\ errors'[u] = errors[u]
      BY <1>0, TokensAssumption
      DEF TokensAssumption, TokensInv, TokensTypeOK, TokenStates, Loaded
<1>3. Loaded' = Loaded
      BY <1>0, <1>2 DEF Loaded
<1>4. UsableHasFewErrors' /\ PoolIsBacked' /\ AbsentHasNoErrors'
      BY <1>2, <1>3, TokensAssumption
      DEF TokensAssumption, TokensInv, TokensSafe, UsableHasFewErrors, PoolIsBacked, AbsentHasNoErrors
<1>5. TokensTypeOK'
      BY <1>1, <1>2, <1>3 DEF TokensInv, TokensTypeOK, poolVars, PoolTypeOK
<1>6. ProxiesHeldByChecks'
      BY DEF TokensInv, TokensSafe, ProxiesHeldByChecks, Held, poolVars
<1>7. ChecksAreLoaded' /\ HeldWhileAsking'
      BY <1>1, <1>3 DEF TokensInv, ChecksAreLoaded, HeldWhileAsking
<1> QED
  BY <1>4, <1>5, <1>6, <1>7 DEF TokensInv, TokensSafe

LEMMA CheckEndStep ==
  ASSUME TokensInv, NEW b \in Batches, NEW t \in Toks, CheckEnd(b, t)
  PROVE  TokensInv'
<1> USE DEF CheckEnd, storeVars
<1>1. /\ jobs' \in [Batches -> [Toks -> Phases]]
      /\ \A c \in Batches, u \in Toks :
           jobs'[c][u] = IF c = b /\ u = t THEN "idle" ELSE jobs[c][u]
      BY DEF TokensInv, TokensTypeOK, Phases
<1>2. /\ via' \in [Batches -> [Toks -> Proxies \cup {NoProxy}]]
      /\ \A c \in Batches, u \in Toks :
           via'[c][u] = IF c = b /\ u = t THEN NoProxy ELSE via[c][u]
      BY DEF TokensInv, TokensTypeOK
<1>3. UsableHasFewErrors' /\ PoolIsBacked' /\ AbsentHasNoErrors' /\ Loaded' = Loaded
      BY DEF TokensInv, TokensSafe, UsableHasFewErrors, PoolIsBacked, AbsentHasNoErrors, Loaded
<1>4. slots' \in [Batches -> 0..Concurrency]
      BY TokensAssumption DEF TokensAssumption, TokensInv, TokensTypeOK
<1>5. TokensTypeOK'
      BY <1>1, <1>2, <1>3, <1>4 DEF TokensInv, TokensTypeOK, Release, PoolTypeOK
<1>6. ChecksAreLoaded' /\ HeldWhileAsking'
      BY <1>1, <1>2, <1>3 DEF TokensInv, ChecksAreLoaded, HeldWhileAsking
<1>7. Held' = Held \ {via[b][t]}
  <2> SUFFICES ASSUME NEW q PROVE q \in Held' <=> q \in Held /\ q # via[b][t]
      OBVIOUS
  <2>1. q \in Held' <=> q # NoProxy /\ \E c \in Batches, u \in Toks : via'[c][u] = q
        BY HeldBySomeNext
  <2>2. q \in Held <=> q # NoProxy /\ \E c \in Batches, u \in Toks : via[c][u] = q
        BY HeldBySome
  <2>3. \A c \in Batches, u \in Toks :
          via[c][u] = via[b][t] /\ via[c][u] # NoProxy => c = b /\ u = t
        BY DEF TokensInv, TokensSafe, ProxiesHeldByChecks
  <2> QED
    BY <1>2, <2>1, <2>2, <2>3
<1>8. ProxiesHeldByChecks'
  <2>1. inUse' = Held'
        BY <1>7 DEF TokensInv, TokensSafe, ProxiesHeldByChecks, Release
  <2>2. \A b1, b2 \in Batches, t1, t2 \in Toks :
          via'[b1][t1] = via'[b2][t2] /\ via'[b1][t1] # NoProxy => b1 = b2 /\ t1 = t2
        BY <1>2 DEF TokensInv, TokensSafe, ProxiesHeldByChecks
  <2> QED
    BY <2>1, <2>2 DEF ProxiesHeldByChecks
<1> QED
  BY <1>3, <1>5, <1>6, <1>8 DEF TokensInv, TokensSafe

LEMMA NextTokens == TokensInv /\ [TokensNext]_tokenVars => TokensInv'
<1> SUFFICES ASSUME TokensInv, [TokensNext]_tokenVars PROVE TokensInv'
    OBVIOUS
<1>1. ASSUME NEW b \in Batches, NEW t \in Toks, CheckStep(b, t) PROVE TokensInv'
  <2>1. \A code \in DOMAIN ValidateToken :
          ValidateToken[code] \in {"valid", "expired", "rate_limited", "invalid"}
        BY DEF ValidateToken
  <2> QED
    BY <1>1, <2>1, SpawnSteps, CheckViaStep, CheckAnswerStep, CheckEndStep DEF CheckStep
<1>2. CASE UNCHANGED tokenVars
  <2>1. UNCHANGED <<jobVars, poolVars, status, errors, file, appends, lost, recheck>>
        BY <1>2 DEF tokenVars, storeVars
  <2>2. Loaded' = Loaded
        BY <2>1 DEF Loaded
  <2>3. UsableHasFewErrors' /\ PoolIsBacked' /\ AbsentHasNoErrors'
        BY <2>1, <2>2
        DEF TokensInv, TokensSafe, UsableHasFewErrors, PoolIsBacked, AbsentHasNoErrors
  <2> QED
    BY <2>1, <2>2, <2>3, ChecksUntouched DEF TokensInv, TokensTypeOK
<1> QED
  BY <1>1, <1>2, StoreSteps, RestartStep, ReportSteps, SpawnSteps DEF TokensNext

-----------------------------------------------------------------------------
(* The theorems.                                                             *)

\* Every reachable state of the pool, its file and the validations has its type.
THEOREM TokensTypeCorrect == TokensInit /\ [][TokensNext]_tokenVars => []TokensTypeOK
<1>1. TokensInv => TokensTypeOK
      BY DEF TokensInv
<1> QED
  BY <1>1, InitTokens, NextTokens, PTL

\* For every number of tokens, validations and proxies: a usable token has fewer errors
\* than the threshold, whatever order reports and answers come in; what the pool offers
\* is in the file, still to be written or was refused by the file system; and every
\* proxy in use is held by exactly one running check.
THEOREM TokensAreSafe == TokensInit /\ [][TokensNext]_tokenVars => []TokensSafe
<1>1. TokensInv => TokensSafe
      BY DEF TokensInv
<1> QED
  BY <1>1, InitTokens, NextTokens, PTL
=============================================================================
