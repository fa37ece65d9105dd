--------------------------- MODULE ServicesProofs ---------------------------
(***************************************************************************)
(* Theorems about the services that MCServices puts together: the restream *)
(* (Restream), the circuit breaker (CircuitBreaker), the token buckets     *)
(* (RateLimiter) and the log buffer (LogBroadcast), each for every value   *)
(* of its constants; then, with those of TokensProofs and ViewersProofs,   *)
(* about the composition that is model-checked.                            *)
(***************************************************************************)
EXTENDS MCServices, TokensProofs, ViewersProofs

-----------------------------------------------------------------------------
(* Restream: the inductive invariant.                                        *)

\* A goroutine has a command exactly while it waits for its process.
RunsWhileRunning == \A r \in Runs : phase[r] = "running" <=> ran[r] # NoRun

\* Every process has a goroutine that waits for it.
ProcessIsAwaited == \A q \in process : \E r \in Runs : phase[r] = "running" /\ ran[r] = q

\* Without a hasty Stop only the goroutine of the latest run is active, and only while
\* the stream is live.
OnlyCurrentActive ==
  ~hasty => Active \subseteq {current} /\ (state # "live" => Active = {})

\* Before the first Start there is no goroutine.
FirstStartFirst == current = NoRun => Active = {}

StreamInv ==
  /\ StreamTypeOK
  /\ FirstStartFirst
  /\ RunsWhileRunning
  /\ ProcessIsAwaited
  /\ OnlyCurrentActive
  /\ StreamSafe

\* The next run is one that nothing refers to.
LEMMA NextRunUnused ==
  ASSUME Unused # {}
  PROVE  /\ NextRun \in Runs /\ phase[NextRun] = "free" /\ NextRun # current
         /\ NextRun \notin process
         /\ \A q \in Runs : ran[q] # NextRun
BY DEF NextRun, Unused

LEMMA InitStream == StreamInit => StreamInv
<1> SUFFICES ASSUME StreamInit PROVE StreamInv
    OBVIOUS
<1> USE DEF StreamInit
<1>1. owner \in [Runs -> StreamClients]
      OBVIOUS
<1>2. StreamTypeOK
      BY <1>1 DEF StreamTypeOK, RunPhases
<1>3. Active = {}
      BY DEF Active
<1>4. RunsWhileRunning /\ ProcessIsAwaited
      BY DEF RunsWhileRunning, ProcessIsAwaited
<1>5. OnlyCurrentActive /\ LiveIsBacked /\ StopReachesProcess /\ FirstStartFirst
      BY <1>3 DEF OnlyCurrentActive, LiveIsBacked, StopReachesProcess, FirstStartFirst
<1> QED
  BY <1>2, <1>4, <1>5 DEF StreamInv, StreamSafe

\* Nothing runs when nothing is active.
LEMMA InactiveRunsNothing ==
  ASSUME StreamInv, Active = {}
  PROVE  process = {} /\ \A r \in Runs : ran[r] = NoRun
<1>1. \A r \in Runs : phase[r] # "running"
      BY DEF Active
<1> QED
  BY <1>1 DEF StreamInv, RunsWhileRunning, ProcessIsAwaited

\* A new run, asked for by a client or by a loop whose goroutine is then free: the only
\* active one, if no Stop was hasty.
LEMMA BeginStep ==
  ASSUME StreamInv, state # "live", Unused # {},
         NEW c \in StreamClients, NEW done \in BOOLEAN, NEW loop \in BOOLEAN,
         Begin(NextRun, c, done, loop),
         phase' \in [Runs -> RunPhases],
         phase'[NextRun] = "launched",
         \A r \in Runs : r # NextRun =>
           phase'[r] = phase[r] \/ (phase[r] = "again" /\ phase'[r] = "free"),
         UNCHANGED <<ran, failed, process, hasty>>
  PROVE  StreamInv'
<1> USE NextRunUnused
<1>1. StreamTypeOK'
  <2>1. started' \subseteq Runs /\ ended' \subseteq Runs /\ loops' \subseteq Runs
        BY DEF StreamInv, StreamTypeOK, Begin
  <2>2. process' \subseteq started'
        BY DEF StreamInv, StreamTypeOK, Begin, Unused
  <2>3. owner' \in [Runs -> StreamClients] /\ hasty' \in BOOLEAN
        BY DEF StreamInv, StreamTypeOK, Begin
  <2> QED
    BY <2>1, <2>2, <2>3 DEF StreamInv, StreamTypeOK, Begin
<1>2. RunsWhileRunning' /\ ProcessIsAwaited'
      BY DEF StreamInv, RunsWhileRunning, ProcessIsAwaited
<1>6. FirstStartFirst'
      BY RestreamAssumption DEF RestreamAssumption, FirstStartFirst, Begin
<1>3. Active' = Active \cup {NextRun}
      BY DEF Active
<1>4. LiveIsBacked'
      BY <1>3 DEF LiveIsBacked
<1>5. ASSUME ~hasty' PROVE OnlyCurrentActive' /\ StopReachesProcess'
  <2>1. Active = {}
        BY <1>5 DEF StreamInv, OnlyCurrentActive
  <2>2. process = {} /\ \A r \in Runs : ran[r] = NoRun
        BY <2>1, InactiveRunsNothing
  <2> QED
    BY <1>3, <2>1, <2>2 DEF OnlyCurrentActive, StopReachesProcess, Begin
<1> QED
  BY <1>1, <1>2, <1>4, <1>5, <1>6 DEF StreamInv, StreamSafe, OnlyCurrentActive, StopReachesProcess

LEMMA StreamStartSteps ==
  ASSUME StreamInv,
         \/ \E c \in StreamClients, loop \in BOOLEAN : StreamStart(c, loop)
         \/ \E r \in Runs : StartAgain(r)
  PROVE  StreamInv'
<1>1. ASSUME NEW c \in StreamClients, NEW loop \in BOOLEAN, StreamStart(c, loop)
      PROVE  StreamInv'
  <2>1. /\ phase' \in [Runs -> RunPhases] /\ phase'[NextRun] = "launched"
        /\ \A r \in Runs : r # NextRun => phase'[r] = phase[r]
        BY <1>1, NextRunUnused DEF StreamStart, StreamInv, StreamTypeOK, RunPhases
  <2> QED
    BY <1>1, <2>1, BeginStep DEF StreamStart
<1>2. ASSUME NEW r \in Runs, StartAgain(r), state = "live" PROVE StreamInv'
  <2>1. /\ UNCHANGED <<state, current, ran, failed, process, started, ended, owner, loops, hasty>>
        /\ phase[r] = "again" /\ phase' = [phase EXCEPT ![r] = "free"]
        BY <1>2 DEF StartAgain
  <2>2. phase' \in [Runs -> RunPhases] /\ Active' = Active
        BY <2>1 DEF StreamInv, StreamTypeOK, RunPhases, Active
  <2>3. hasty' \in BOOLEAN
        BY <2>1 DEF StreamInv, StreamTypeOK
  <2>4. StreamTypeOK'
        BY <2>1, <2>2, <2>3 DEF StreamInv, StreamTypeOK
  <2>5. RunsWhileRunning' /\ ProcessIsAwaited'
        BY <2>1 DEF StreamInv, StreamTypeOK, RunsWhileRunning, ProcessIsAwaited
  <2> QED
    BY <2>1, <2>2, <2>4, <2>5
    DEF StreamInv, StreamSafe, OnlyCurrentActive, LiveIsBacked, StopReachesProcess, FirstStartFirst
<1>3. ASSUME NEW r \in Runs, StartAgain(r), state # "live" PROVE StreamInv'
  <2>1. /\ phase[r] = "again" /\ Unused # {}
        /\ Begin(NextRun, owner[r], r \in ended, TRUE)
        /\ phase' = [phase EXCEPT ![r] = "free", ![NextRun] = "launched"]
        /\ UNCHANGED <<ran, failed, process, hasty>>
        BY <1>3 DEF StartAgain
  <2>2. NextRun \in Runs /\ NextRun # r
        BY <2>1, NextRunUnused
  <2>3. /\ phase' \in [Runs -> RunPhases] /\ phase'[NextRun] = "launched"
        /\ \A q \in Runs : q # NextRun =>
             phase'[q] = phase[q] \/ (phase[q] = "again" /\ phase'[q] = "free")
        BY <2>1, <2>2 DEF StreamInv, StreamTypeOK, RunPhases
  <2>4. owner[r] \in StreamClients /\ (r \in ended) \in BOOLEAN
        BY DEF StreamInv, StreamTypeOK
  <2> QED
    BY <1>3, <2>1, <2>3, <2>4, BeginStep
<1> QED
  BY <1>1, <1>2, <1>3

\* A goroutine starts its process, or fails to, or its process ends: it is as active as before.
LEMMA StreamRunSteps ==
  ASSUME StreamInv, NEW r \in Runs,
         Launch(r) \/ (\E ok \in BOOLEAN : ProcessEnd(r, ok))
  PROVE  StreamInv'
<1> USE DEF StreamInv, StreamSafe
<1>1. UNCHANGED <<state, current, ended, owner, loops, hasty>> /\ hasty' \in BOOLEAN
      BY DEF Launch, ProcessEnd, StreamTypeOK
<1>2. phase[r] \in {"launched", "running"} /\ r \in Active /\ current \in Runs
      BY DEF Launch, ProcessEnd, Active, FirstStartFirst, StreamTypeOK
<1>3. ASSUME NEW now \in {"running", "exited"}, phase' = [phase EXCEPT ![r] = now]
      PROVE  /\ Active' = Active /\ phase' \in [Runs -> RunPhases]
             /\ FirstStartFirst' /\ OnlyCurrentActive' /\ LiveIsBacked'
  <2>1. Active' = Active /\ phase' \in [Runs -> RunPhases]
        BY <1>2, <1>3 DEF StreamTypeOK, RunPhases, Active
  <2> QED
    BY <1>1, <2>1 DEF FirstStartFirst, OnlyCurrentActive, LiveIsBacked
<1>4. ASSUME phase[r] = "launched", phase' = [phase EXCEPT ![r] = "running"],
             ran' = [ran EXCEPT ![r] = current],
             process' = process \cup {current}, started' = started \cup {current},
             failed' = failed
      PROVE  StreamInv'
  <2> USE <1>4
  <2>1. StreamTypeOK'
        BY <1>1, <1>2, <1>3 DEF StreamTypeOK
  <2>2. RunsWhileRunning'
        BY <1>2, RestreamAssumption DEF RestreamAssumption, RunsWhileRunning, StreamTypeOK
  <2>3. ProcessIsAwaited'
        BY DEF ProcessIsAwaited, StreamTypeOK
  <2>4. StopReachesProcess'
        BY <1>1, <1>2 DEF StopReachesProcess, OnlyCurrentActive, StreamTypeOK
  <2> QED
    BY <1>3, <2>1, <2>2, <2>3, <2>4
<1>5. ASSUME phase[r] = "launched", phase' = [phase EXCEPT ![r] = "exited"],
             failed' = failed \cup {r}, UNCHANGED <<ran, process, started>>
      PROVE  StreamInv'
  <2> USE <1>5
  <2>1. StreamTypeOK'
        BY <1>1, <1>3 DEF StreamTypeOK
  <2>2. RunsWhileRunning' /\ ProcessIsAwaited'
        BY DEF RunsWhileRunning, ProcessIsAwaited, StreamTypeOK
  <2>3. StopReachesProcess'
        BY <1>1 DEF StopReachesProcess
  <2> QED
    BY <1>3, <2>1, <2>2, <2>3
<1>6. ASSUME NEW ok \in BOOLEAN, ProcessEnd(r, ok) PROVE StreamInv'
  <2> USE <1>6 DEF ProcessEnd
  <2>1. StreamTypeOK'
    <3>1. failed' \subseteq Runs /\ ran' \in [Runs -> Runs \cup {NoRun}] /\ process' \subseteq started
          BY DEF StreamTypeOK
    <3> QED
      BY <1>1, <1>3, <3>1 DEF StreamTypeOK
  <2>2. RunsWhileRunning'
        BY DEF RunsWhileRunning, StreamTypeOK
  <2>3. ProcessIsAwaited'
        BY DEF ProcessIsAwaited, StreamTypeOK
  <2>4. StopReachesProcess'
        BY <1>1 DEF StopReachesProcess, StreamTypeOK
  <2> QED
    BY <1>3, <2>1, <2>2, <2>3, <2>4
<1> QED
  BY <1>4, <1>5, <1>6 DEF Launch

\* The outcome is written: a goroutine less is active, and the stream is not live.
LEMMA OutcomeStep ==
  ASSUME StreamInv, NEW r \in Runs, Outcome(r)
  PROVE  StreamInv'
<1> USE DEF StreamInv, StreamSafe, Outcome
<1>1. PICK now \in {"free", "again"} : phase' = [phase EXCEPT ![r] = now]
      OBVIOUS
<1>2. Active' = Active \ {r} /\ phase' \in [Runs -> RunPhases]
      BY <1>1 DEF Active, StreamTypeOK, RunPhases
<1>3. state' \in {"stopped", "error"}
      OBVIOUS
<1>4. hasty' \in BOOLEAN
      BY DEF StreamTypeOK
<1>5. StreamTypeOK'
      BY <1>2, <1>3, <1>4 DEF StreamTypeOK
<1>6. RunsWhileRunning' /\ ProcessIsAwaited'
      BY <1>1 DEF RunsWhileRunning, ProcessIsAwaited, StreamTypeOK
<1>7. FirstStartFirst' /\ LiveIsBacked'
      BY <1>2, <1>3 DEF FirstStartFirst, LiveIsBacked
<1>8. ASSUME ~hasty' PROVE OnlyCurrentActive' /\ StopReachesProcess'
  <2>1. Active' = {}
        BY <1>2, <1>8 DEF OnlyCurrentActive, Active
  <2>2. \A q \in Runs : phase'[q] # "running"
        BY <2>1, <1>2 DEF Active
  <2>3. process' = {} /\ \A q \in Runs : ran'[q] = NoRun
        BY <1>6, <2>2 DEF RunsWhileRunning, ProcessIsAwaited
  <2> QED
    BY <2>1, <2>3 DEF OnlyCurrentActive, StopReachesProcess
<1> QED
  BY <1>5, <1>6, <1>7, <1>8 DEF OnlyCurrentActive, StopReachesProcess

LEMMA StopSteps ==
  ASSUME StreamInv, StreamStop \/ (\E c \in StreamClients : ClientLeaves(c))
  PROVE  StreamInv'
<1> USE DEF StreamInv, StreamSafe, StreamStop, ClientLeaves
<1>1. UNCHANGED <<current, phase, ran, failed, process, started, owner, loops>>
      OBVIOUS
<1>2. Active' = Active
      BY <1>1 DEF Active
<1>3. ended' \subseteq Runs
      BY DEF StreamTypeOK
<1>4. hasty' \in BOOLEAN /\ state' \in {"stopped", "live", "error"}
      BY DEF StreamTypeOK
<1>5. StreamTypeOK'
      BY <1>1, <1>3, <1>4 DEF StreamTypeOK
<1>6. RunsWhileRunning' /\ ProcessIsAwaited' /\ FirstStartFirst'
      BY <1>1, <1>2 DEF RunsWhileRunning, ProcessIsAwaited, FirstStartFirst
<1>7. LiveIsBacked' /\ OnlyCurrentActive' /\ StopReachesProcess'
      BY <1>1, <1>2 DEF LiveIsBacked, OnlyCurrentActive, StopReachesProcess
<1> QED
  BY <1>5, <1>6, <1>7

LEMMA NextStream == StreamInv /\ [StreamNext]_streamVars => StreamInv'
<1> SUFFICES ASSUME StreamInv, [StreamNext]_streamVars PROVE StreamInv'
    OBVIOUS
<1>1. CASE UNCHANGED streamVars
  <2> USE <1>1 DEF streamVars, StreamInv, StreamSafe
  <2>1. Active' = Active
        BY DEF Active
  <2>2. hasty' \in BOOLEAN
        BY DEF StreamTypeOK
  <2>3. StreamTypeOK'
        BY <2>2 DEF StreamTypeOK
  <2> QED
    BY <2>1, <2>3 DEF RunsWhileRunning, ProcessIsAwaited, FirstStartFirst, LiveIsBacked,
                      OnlyCurrentActive, StopReachesProcess
<1> QED
  BY <1>1, StreamStartSteps, StreamRunSteps, OutcomeStep, StopSteps
  DEF StreamNext, StreamGoroutine, ProcessKilled

\* For every number of runs and connections: a stream shown as live has a goroutine that
\* is to write its end, and unless a Stop was followed by a Start before the goroutines of
\* that time were done, the next Stop reaches the one process there is.
THEOREM StreamsAreSafe == StreamInit /\ [][StreamNext]_streamVars => [](StreamTypeOK /\ StreamSafe)
<1>1. StreamInv => StreamTypeOK /\ StreamSafe
      BY DEF StreamInv
<1> QED
  BY <1>1, InitStream, NextStream, PTL

-----------------------------------------------------------------------------
(* CircuitBreaker: the property is inductive with the types.                 *)

BreakerInv == BreakerTypeOK /\ CountsFitCircuit

LEMMA InitBreaker == BreakerInit => BreakerInv
<1> SUFFICES ASSUME BreakerInit PROVE BreakerInv
    OBVIOUS
<1> USE BreakerAssumption DEF BreakerAssumption, BreakerInit
<1>1. /\ failureCount \in 0..Threshold /\ failureCount < Threshold
      /\ successCount \in 0..HalfOpenMax /\ age \in 0..(ResetTimeout + 1)
      OBVIOUS
<1>2. BreakerTypeOK
      BY <1>1 DEF BreakerTypeOK
<1> QED
  BY <1>1, <1>2 DEF BreakerInv, CountsFitCircuit

LEMMA NextBreaker == BreakerInv /\ [BreakerNext]_breakerVars => BreakerInv'
<1> SUFFICES ASSUME BreakerInv, [BreakerNext]_breakerVars PROVE BreakerInv'
    OBVIOUS
<1>0. /\ circuit \in {"closed", "open", "half-open"}
      /\ failureCount \in Nat /\ failureCount <= Threshold
      /\ successCount \in Nat /\ successCount <= HalfOpenMax
      /\ age \in Nat /\ age <= ResetTimeout + 1
      /\ doomed \subseteq calling /\ calling \subseteq Calls /\ healthy \in BOOLEAN
      /\ Threshold \in Nat \ {0} /\ HalfOpenMax \in Nat \ {0} /\ ResetTimeout \in Nat \ {0}
      /\ circuit = "closed" => failureCount < Threshold
      /\ circuit = "half-open" => successCount < HalfOpenMax
      BY BreakerAssumption DEF BreakerAssumption, BreakerInv, BreakerTypeOK, CountsFitCircuit
<1>1. ASSUME NEW c \in Calls, AllowRequest(c) PROVE BreakerInv'
  <2> USE <1>0, <1>1 DEF AllowRequest
  <2>1. doomed' \subseteq calling' /\ calling' \subseteq Calls /\ healthy' \in BOOLEAN
        OBVIOUS
  <2>2. CountsFitCircuit'
        BY DEF CountsFitCircuit
  <2>3. /\ circuit' \in {"closed", "open", "half-open"} /\ successCount' \in 0..HalfOpenMax
        /\ UNCHANGED <<failureCount, age>>
        OBVIOUS
  <2> QED
    BY <2>1, <2>2, <2>3 DEF BreakerInv, BreakerTypeOK
<1>2. ASSUME NEW c \in Calls, RecordSuccess(c) PROVE BreakerInv'
  <2> USE <1>0, <1>2 DEF RecordSuccess
  <2>1. doomed' \subseteq calling' /\ calling' \subseteq Calls /\ healthy' \in BOOLEAN
        OBVIOUS
  <2>2. CountsFitCircuit'
        BY DEF CountsFitCircuit
  <2>3. /\ circuit' \in {"closed", "open", "half-open"} /\ successCount' \in 0..HalfOpenMax
        /\ failureCount' \in 0..Threshold /\ UNCHANGED age
        OBVIOUS
  <2> QED
    BY <2>1, <2>2, <2>3 DEF BreakerInv, BreakerTypeOK
<1>3. ASSUME NEW c \in Calls, RecordFailure(c) PROVE BreakerInv'
  <2> USE <1>0, <1>3 DEF RecordFailure
  <2>1. doomed' \subseteq calling' /\ calling' \subseteq Calls /\ healthy' \in BOOLEAN
        OBVIOUS
  <2>2. CountsFitCircuit'
        BY DEF CountsFitCircuit
  <2>3. /\ circuit' \in {"closed", "open", "half-open"} /\ age' \in 0..(ResetTimeout + 1)
        /\ failureCount' \in 0..Threshold /\ UNCHANGED successCount
        OBVIOUS
  <2> QED
    BY <2>1, <2>2, <2>3 DEF BreakerInv, BreakerTypeOK
<1>4. ASSUME BreakerReset \/ BreakerTick \/ ServiceTurns \/ UNCHANGED breakerVars PROVE BreakerInv'
  <2> USE <1>0, <1>4 DEF BreakerReset, BreakerTick, ServiceTurns, breakerVars
  <2>1. doomed' \subseteq calling' /\ calling' \subseteq Calls
        OBVIOUS
  <2>2. healthy' \in BOOLEAN
        OBVIOUS
  <2>3. CountsFitCircuit'
        BY DEF CountsFitCircuit
  <2>4. /\ circuit' \in {"closed", "open", "half-open"} /\ age' \in 0..(ResetTimeout + 1)
        /\ failureCount' \in 0..Threshold /\ successCount' \in 0..HalfOpenMax
        OBVIOUS
  <2> QED
    BY <2>1, <2>2, <2>3, <2>4 DEF BreakerInv, BreakerTypeOK
<1> QED
  BY <1>1, <1>2, <1>3, <1>4 DEF BreakerNext, Return

\* For every threshold and every number of callers: a closed circuit has had fewer failures
\* in a row than open it, a half-open one fewer successes than close it, whatever old
\* results come in late.
THEOREM BreakerIsSafe == BreakerInit /\ [][BreakerNext]_breakerVars => [](BreakerTypeOK /\ CountsFitCircuit)
<1>1. BreakerInv => BreakerTypeOK /\ CountsFitCircuit
      BY DEF BreakerInv
<1> QED
  BY <1>1, InitBreaker, NextBreaker, PTL

-----------------------------------------------------------------------------
(* RateLimiter: what a bucket holds never exceeds the credit.                *)

\* The credit is at most a full bucket's.  Without a bucket it is that; with one, unless it
\* is that, the tokens and the time since the last call are paid for.
Paid ==
  \A k \in Keys :
    /\ credit[k] <= Burst * Interval
    /\ tokens[k] = -1 => credit[k] = Burst * Interval
    /\ tokens[k] # -1 =>
         \/ credit[k] = Burst * Interval
         \/ credit[k] >= tokens[k] * Interval + elapsed[k] * Rate

RateInv == RateTypeOK /\ Paid

\* The products of the constants.
LEMMA FullBucket ==
  /\ Burst * Interval \in Nat
  /\ \A n \in Nat : n * Interval \in Nat /\ n * Rate \in Nat
  /\ \A n \in Nat : (n + 1) * Rate = n * Rate + Rate
  /\ \A n \in Nat : n > 0 => (n - 1) * Interval = n * Interval - Interval
  /\ \A m, n \in Nat : m <= n => m * Interval <= n * Interval /\ m * Rate <= n * Rate
BY RateAssumption DEF RateAssumption

\* Whole intervals, rounded down, are no more than the time.
LEMMA WholeIntervals ==
  ASSUME NEW e \in Nat
  PROVE  e \div Interval \in Nat /\ (e \div Interval) * Interval <= e
BY RateAssumption DEF RateAssumption

\* What a call finds in the bucket is paid for.
LEMMA RefilledIsPaid ==
  ASSUME RateInv, NEW k \in Keys
  PROVE  Refilled(k) \in 0..Burst /\ Refilled(k) * Interval <= credit[k]
<1> DEFINE q == elapsed[k] \div Interval
<1>1. /\ tokens[k] \in -1..Burst /\ elapsed[k] \in Nat /\ credit[k] \in Int
      /\ Burst \in Nat /\ Rate \in Nat /\ Interval \in Nat /\ Interval > 0
      BY RateAssumption DEF RateAssumption, RateInv, RateTypeOK
<1>2. CASE tokens[k] = -1
  BY <1>1, <1>2 DEF Refilled, RateInv, Paid
<1>3. CASE tokens[k] # -1
  <2>1. tokens[k] \in Nat
        BY <1>1, <1>3
  <2>2. q \in Nat /\ q * Interval <= elapsed[k]
        BY <1>1, WholeIntervals
  <2> HIDE DEF q
  <2>3. Refilled(k) = IF tokens[k] + q * Rate < Burst THEN tokens[k] + q * Rate ELSE Burst
        BY <1>3 DEF Refilled, q
  <2>4. q * Rate \in Nat
        BY <2>2, FullBucket
  <2>5. Refilled(k) \in 0..Burst /\ Refilled(k) <= tokens[k] + q * Rate
        BY <1>1, <2>1, <2>3, <2>4
  <2>6. CASE credit[k] = Burst * Interval
    BY <2>5, <2>6, <1>1, FullBucket
  <2>7. CASE credit[k] >= tokens[k] * Interval + elapsed[k] * Rate
    <3>1. (q * Interval) * Rate <= elapsed[k] * Rate
      <4>1. q * Interval \in Nat
            BY <2>2, FullBucket
      <4> QED
        BY <4>1, <2>2, <1>1, FullBucket
    <3>2. (q * Interval) * Rate = (q * Rate) * Interval
          BY <1>1, <2>2
    <3>3. (tokens[k] + q * Rate) * Interval = tokens[k] * Interval + (q * Rate) * Interval
          BY <1>1, <2>1, <2>4
    <3>4. Refilled(k) * Interval <= (tokens[k] + q * Rate) * Interval
      <4>1. Refilled(k) \in Nat /\ tokens[k] + q * Rate \in Nat
            BY <2>1, <2>4, <2>5
      <4> QED
        BY <4>1, <2>5, FullBucket
    <3>5. /\ Refilled(k) * Interval \in Int /\ (q * Rate) * Interval \in Int
          /\ (q * Interval) * Rate \in Int /\ tokens[k] * Interval \in Int
          /\ (tokens[k] + q * Rate) * Interval \in Int /\ elapsed[k] * Rate \in Int
          BY <1>1, <2>1, <2>2, <2>4, <2>5
    <3> QED
      BY <1>1, <2>5, <2>7, <3>1, <3>2, <3>3, <3>4, <3>5
  <2> QED
    BY <1>3, <2>6, <2>7 DEF RateInv, Paid
<1> QED
  BY <1>2, <1>3

\* So no credit is negative.
LEMMA PaidIsEnough == RateInv => NeverOverRate
<1> SUFFICES ASSUME RateInv, NEW k \in Keys PROVE credit[k] >= 0
    BY DEF NeverOverRate
<1>1. Refilled(k) \in Nat /\ Refilled(k) * Interval <= credit[k] /\ credit[k] \in Int
      BY RefilledIsPaid, RateAssumption DEF RateAssumption, RateInv, RateTypeOK
<1>2. Refilled(k) * Interval \in Nat
      BY <1>1, FullBucket
<1> QED
  BY <1>1, <1>2

LEMMA InitRate == RateInit => RateInv
<1> SUFFICES ASSUME RateInit PROVE RateInv
    OBVIOUS
<1>1. RateTypeOK
      BY RateAssumption, FullBucket DEF RateAssumption, RateInit, RateTypeOK
<1>2. Paid
      BY FullBucket DEF RateInit, Paid
<1> QED
  BY <1>1, <1>2 DEF RateInv

LEMMA AllowStep ==
  ASSUME RateInv, NEW k \in Keys, Allow(k)
  PROVE  RateInv'
<1> DEFINE r == Refilled(k)
<1>1. r \in 0..Burst /\ r * Interval <= credit[k]
      BY RefilledIsPaid
<1> HIDE DEF r
<1>2. /\ tokens' = [tokens EXCEPT ![k] = IF r > 0 THEN r - 1 ELSE 0]
      /\ elapsed' = [elapsed EXCEPT ![k] = 0]
      /\ credit' = IF r > 0 THEN [credit EXCEPT ![k] = @ - Interval] ELSE credit
      BY DEF Allow, r
<1>3. /\ tokens \in [Keys -> -1..Burst] /\ elapsed \in [Keys -> 0..(Stale + 1)]
      /\ credit \in [Keys -> Int]
      /\ Burst \in Nat /\ Rate \in Nat /\ Interval \in Nat /\ Interval > 0 /\ Stale \in Nat
      BY RateAssumption DEF RateAssumption, RateInv, RateTypeOK
<1>4. RateTypeOK'
  <2>1. (IF r > 0 THEN r - 1 ELSE 0) \in -1..Burst
        BY <1>1, <1>3
  <2>2. 0 \in 0..(Stale + 1)
        BY <1>3
  <2>3. credit' \in [Keys -> Int]
        BY <1>2, <1>3
  <2> QED
    BY <1>2, <1>3, <2>1, <2>2, <2>3 DEF RateTypeOK
<1>5. ASSUME NEW j \in Keys, j # k
      PROVE  tokens'[j] = tokens[j] /\ elapsed'[j] = elapsed[j] /\ credit'[j] = credit[j]
      BY <1>2, <1>3, <1>5
<1>6. /\ tokens'[k] # -1 /\ elapsed'[k] * Rate = 0
      /\ credit'[k] >= tokens'[k] * Interval + elapsed'[k] * Rate
      /\ credit'[k] <= Burst * Interval
  <2>1. /\ tokens'[k] = (IF r > 0 THEN r - 1 ELSE 0) /\ elapsed'[k] = 0
        /\ credit'[k] = (IF r > 0 THEN credit[k] - Interval ELSE credit[k])
        BY <1>2, <1>3
  <2>2. credit[k] \in Int /\ credit[k] <= Burst * Interval /\ Burst * Interval \in Nat
        BY <1>3, FullBucket DEF RateInv, Paid
  <2>3. CASE r > 0
    <3>1. (r - 1) * Interval = r * Interval - Interval /\ r * Interval \in Nat
          BY <1>1, <2>3, FullBucket
    <3> QED
      BY <1>1, <1>3, <2>1, <2>2, <2>3, <3>1
  <2>4. CASE r = 0
    BY <1>1, <1>3, <2>1, <2>2, <2>4
  <2> QED
    BY <1>1, <2>3, <2>4
<1>7. Paid'
      BY <1>5, <1>6 DEF RateInv, Paid
<1> QED
  BY <1>4, <1>7 DEF RateInv

\* A bucket is forgotten when its time pays for a full one.
LEMMA CleanupStep ==
  ASSUME RateInv, NEW k \in Keys, Cleanup(k)
  PROVE  RateInv'
<1>1. /\ tokens \in [Keys -> -1..Burst] /\ elapsed \in [Keys -> 0..(Stale + 1)]
      /\ credit \in [Keys -> Int] /\ credit' = credit
      /\ tokens' = [tokens EXCEPT ![k] = -1] /\ elapsed' = [elapsed EXCEPT ![k] = 0]
      /\ Stale \in Nat /\ Burst \in Nat /\ Rate \in Nat /\ Rate * Stale >= Burst * Interval
      BY RateAssumption DEF RateAssumption, RateInv, RateTypeOK, Cleanup
<1>2. RateTypeOK'
  <2>1. -1 \in -1..Burst /\ 0 \in 0..(Stale + 1)
        BY <1>1
  <2> QED
    BY <1>1, <2>1 DEF RateTypeOK
<1>3. credit[k] = Burst * Interval
  <2>1. tokens[k] \in Nat /\ elapsed[k] \in Nat /\ Stale <= elapsed[k] /\ credit[k] \in Int
        BY <1>1 DEF Cleanup
  <2>2. /\ Stale * Rate <= elapsed[k] * Rate /\ tokens[k] * Interval \in Nat
        /\ elapsed[k] * Rate \in Nat /\ Burst * Interval \in Nat
        BY <1>1, <2>1, FullBucket
  <2>3. Stale * Rate = Rate * Stale
        BY <1>1
  <2> QED
    BY <1>1, <2>1, <2>2, <2>3 DEF RateInv, Paid, Cleanup
<1>4. Paid'
      BY <1>1, <1>3 DEF RateInv, Paid
<1> QED
  BY <1>2, <1>4 DEF RateInv

LEMMA TickStep ==
  ASSUME RateInv, RateTick
  PROVE  RateInv'
<1>1. /\ tokens \in [Keys -> -1..Burst] /\ elapsed \in [Keys -> 0..(Stale + 1)]
      /\ credit \in [Keys -> Int] /\ tokens' = tokens
      /\ Stale \in Nat /\ Burst \in Nat /\ Rate \in Nat /\ Rate * Stale >= Burst * Interval
      /\ Burst * Interval \in Nat
      BY RateAssumption, FullBucket DEF RateAssumption, RateInv, RateTypeOK, RateTick
<1>2. RateTypeOK'
  <2>1. \A k \in Keys : (IF tokens[k] = -1 \/ elapsed[k] > Stale
                         THEN elapsed[k] ELSE elapsed[k] + 1) \in 0..(Stale + 1)
        BY <1>1
  <2>2. \A k \in Keys : (IF credit[k] + Rate < Burst * Interval
                         THEN credit[k] + Rate ELSE Burst * Interval) \in Int
        BY <1>1
  <2> QED
    BY <1>1, <2>1, <2>2 DEF RateTick, RateTypeOK
<1>3. ASSUME NEW k \in Keys
      PROVE  /\ credit'[k] <= Burst * Interval
             /\ tokens'[k] = -1 => credit'[k] = Burst * Interval
             /\ tokens'[k] # -1 =>
                  \/ credit'[k] = Burst * Interval
                  \/ credit'[k] >= tokens'[k] * Interval + elapsed'[k] * Rate
  <2>1. /\ elapsed'[k] = (IF tokens[k] = -1 \/ elapsed[k] > Stale THEN elapsed[k] ELSE elapsed[k] + 1)
        /\ credit'[k] = (IF credit[k] + Rate < Burst * Interval
                         THEN credit[k] + Rate ELSE Burst * Interval)
        /\ tokens'[k] = tokens[k]
        BY <1>1 DEF RateTick
  <2>2. /\ credit[k] <= Burst * Interval /\ credit[k] \in Int /\ elapsed[k] \in Nat
        /\ tokens[k] \in -1..Burst
        BY <1>1 DEF RateInv, Paid
  <2>3. CASE credit[k] = Burst * Interval
    BY <1>1, <2>1, <2>2, <2>3
  <2>4. CASE credit[k] # Burst * Interval
    <3>1. tokens[k] \in Nat /\ credit[k] >= tokens[k] * Interval + elapsed[k] * Rate
          BY <2>2, <2>4 DEF RateInv, Paid
    <3>2. /\ tokens[k] * Interval \in Nat /\ elapsed[k] * Rate \in Nat
          /\ (elapsed[k] + 1) * Rate = elapsed[k] * Rate + Rate
          BY <2>2, <3>1, FullBucket
    <3>3. elapsed'[k] * Rate <= elapsed[k] * Rate + Rate /\ elapsed'[k] * Rate \in Nat
      <4>1. CASE elapsed'[k] = elapsed[k]
        BY <1>1, <3>2, <4>1
      <4>2. CASE elapsed'[k] = elapsed[k] + 1
        BY <1>1, <3>2, <4>2
      <4> QED
        BY <2>1, <4>1, <4>2
    <3> QED
      BY <1>1, <2>1, <2>2, <3>1, <3>2, <3>3
  <2> QED
    BY <2>3, <2>4
<1> QED
  BY <1>2, <1>3 DEF RateInv, Paid

LEMMA NextRate == RateInv /\ [RateNext]_rateVars => RateInv'
<1> SUFFICES ASSUME RateInv, [RateNext]_rateVars PROVE RateInv'
    OBVIOUS
<1>1. CASE UNCHANGED rateVars
  BY <1>1 DEF rateVars, RateInv, RateTypeOK, Paid
<1> QED
  BY <1>1, AllowStep, CleanupStep, TickStep DEF RateNext

\* For every rate, interval and size of a bucket: nobody gets more than a full bucket and
\* the advertised rate after it, however the calls, the roundings and the cleanups fall in time.
THEOREM RateIsKept == RateInit /\ [][RateNext]_rateVars => [](RateTypeOK /\ NeverOverRate)
<1>1. RateInv => RateTypeOK /\ NeverOverRate
      BY PaidIsEnough DEF RateInv
<1> QED
  BY <1>1, InitRate, NextRate, PTL

-----------------------------------------------------------------------------
(* LogBroadcast: the types, and the circular buffer as a log.                *)

\* Going around the buffer once.
LEMMA AroundOnce ==
  ASSUME NEW a \in 0..(2 * Cap - 1)
  PROVE  a % Cap = (IF a < Cap THEN a ELSE a - Cap) /\ a % Cap \in 0..(Cap - 1)
BY LogAssumption DEF LogAssumption

\* As long as there is room, head is behind the entries, which begin at zero.
FilledFromStart == size < Cap => head = size

LogInv == LogTypeOK /\ FilledFromStart

RingTypeOK ==
  /\ entries \in [0..(Cap - 1) -> Entries \cup {NoEntry}]
  /\ head \in 0..(Cap - 1) /\ size \in 0..Cap

LEMMA InitLog == LogBroadcastInit => LogInv
<1> SUFFICES ASSUME LogBroadcastInit PROVE LogInv
    OBVIOUS
<1> USE LogAssumption DEF LogAssumption, LogBroadcastInit
<1>1. head \in 0..(Cap - 1) /\ size \in 0..Cap /\ feed \in 0..FeedCap
      OBVIOUS
<1>2. serving \in BOOLEAN
      OBVIOUS
<1>3. /\ entries \in [0..(Cap - 1) -> Entries \cup {NoEntry}]
      /\ conn \in [Conns -> {"out", "joining", "in", "leaving"}]
      /\ caster \in [Casters -> {"idle", "ready", "reading", "ended"}]
      /\ unsent \in [Casters -> SUBSET Conns]
      OBVIOUS
<1>4. LogTypeOK
      BY <1>1, <1>2, <1>3 DEF LogTypeOK
<1> QED
  BY <1>4 DEF LogInv, FilledFromStart

LEMMA StoreStep ==
  ASSUME LogInv, NEW p \in Pushers, NEW e \in Entries, Store(p, e)
  PROVE  LogInv'
<1> USE DEF Store, castVars
<1>1. /\ entries \in [0..(Cap - 1) -> Entries \cup {NoEntry}]
      /\ head \in 0..(Cap - 1) /\ size \in 0..Cap /\ Cap \in Nat \ {0}
      /\ size < Cap => head = size
      BY LogAssumption DEF LogAssumption, LogInv, LogTypeOK, FilledFromStart
<1>2. head' = (IF head + 1 < Cap THEN head + 1 ELSE 0) /\ head' \in 0..(Cap - 1)
  <2>1. head + 1 \in 0..(2 * Cap - 1)
        BY <1>1
  <2>2. (head + 1) % Cap = (IF head + 1 < Cap THEN head + 1 ELSE (head + 1) - Cap)
        BY <2>1, AroundOnce
  <2> QED
    BY <1>1, <2>2
<1>3. size' \in 0..Cap /\ (size' < Cap => head' = size')
      BY <1>1, <1>2
<1>4. entries' \in [0..(Cap - 1) -> Entries \cup {NoEntry}]
      BY <1>1
<1>5. offering' \subseteq Pushers /\ serving' \in BOOLEAN
      BY DEF LogInv, LogTypeOK
<1>6. LogTypeOK'
      BY <1>2, <1>3, <1>4, <1>5 DEF LogInv, LogTypeOK
<1> QED
  BY <1>3, <1>6 DEF LogInv, FilledFromStart

\* The other steps leave the buffer alone.
LEMMA OtherLogSteps ==
  ASSUME LogInv,
         \/ \E p \in Pushers : Offer(p)
         \/ \E b \in Casters : CastBegin(b) \/ CastStep(b)
         \/ CastEnd \/ ServerDone
         \/ \E c \in Conns : Arrive(c) \/ Depart(c) \/ EnterOrLeave(c) \/ GetStuck(c)
         \/ UNCHANGED logVars
  PROVE  LogInv' /\ UNCHANGED ringVars
<1> USE DEF castVars
<1>1. UNCHANGED ringVars
      BY DEF Offer, CastBegin, CastStep, CastLock, CastUnlock, CastWrite, CastEnd, ServerDone,
             Arrive, Depart, EnterOrLeave, GetStuck, logVars
<1>2. /\ offering' \subseteq Pushers /\ feed' \in 0..FeedCap
      BY LogAssumption
      DEF LogAssumption, LogInv, LogTypeOK, Offer, CastBegin, CastStep, CastLock, CastUnlock,
          CastWrite, CastEnd, ServerDone, Arrive, Depart, EnterOrLeave, GetStuck, logVars
<1>3. serving' \in BOOLEAN
      BY DEF LogInv, LogTypeOK, Offer, CastBegin, CastStep, CastLock, CastUnlock,
             CastWrite, CastEnd, ServerDone, Arrive, Depart, EnterOrLeave, GetStuck, logVars
<1>4. conn' \in [Conns -> {"out", "joining", "in", "leaving"}] /\ stuck' \subseteq Conns
      BY DEF LogInv, LogTypeOK, Offer, CastBegin, CastStep, CastLock, CastUnlock,
             CastWrite, CastEnd, ServerDone, Arrive, Depart, EnterOrLeave, GetStuck, logVars
<1>5. /\ caster' \in [Casters -> {"idle", "ready", "reading", "ended"}]
      /\ unsent' \in [Casters -> SUBSET Conns]
  <2>1. CASE \E c \in Conns : EnterOrLeave(c)
    <3>1. InMap' \subseteq Conns
          BY DEF InMap
    <3> QED
      BY <2>1, <3>1 DEF LogInv, LogTypeOK, EnterOrLeave
  <2>2. CASE \E b \in Casters : CastBegin(b) \/ CastStep(b)
    <3>1. InMap \subseteq Conns
          BY DEF InMap
    <3> QED
      BY <2>2, <3>1 DEF LogInv, LogTypeOK, CastBegin, CastStep, CastLock, CastUnlock, CastWrite
  <2>3. CASE CastEnd
    BY <2>3 DEF LogInv, LogTypeOK, CastEnd, Casters
  <2>4. CASE \/ \E p \in Pushers : Offer(p)
             \/ ServerDone
             \/ \E c \in Conns : Arrive(c) \/ Depart(c) \/ GetStuck(c)
             \/ UNCHANGED logVars
    BY <2>4 DEF LogInv, LogTypeOK, Offer, ServerDone, Arrive, Depart, GetStuck, logVars
  <2> QED
    BY <2>1, <2>2, <2>3, <2>4
<1>6. /\ entries' \in [0..(Cap - 1) -> Entries \cup {NoEntry}]
      /\ head' \in 0..(Cap - 1) /\ size' \in 0..Cap
      BY <1>1 DEF ringVars, LogInv, LogTypeOK
<1>7. LogTypeOK'
      BY <1>2, <1>3, <1>4, <1>5, <1>6 DEF LogTypeOK
<1> QED
  BY <1>1, <1>7 DEF ringVars, LogInv, FilledFromStart

LEMMA NextLog == LogInv /\ [LogBroadcastNext]_logVars => LogInv'
BY StoreStep, OtherLogSteps DEF LogBroadcastNext

\* Every reachable state of the log buffer, its feed and the broadcasts has its type.
THEOREM LogTypeCorrect == LogBroadcastInit /\ [][LogBroadcastNext]_logVars => []LogTypeOK
<1>1. LogInv => LogTypeOK
      BY DEF LogInv
<1> QED
  BY <1>1, InitLog, NextLog, PTL

\* What the buffer holds, entry by entry.
EntriesInOrder ==
  /\ All \in Seq(Entries \cup {NoEntry}) /\ Len(All) = size
  /\ \A i \in 1..size :
       All[i] = entries[IF size < Cap THEN i - 1
                        ELSE IF head + i - 1 < Cap THEN head + i - 1 ELSE head + i - 1 - Cap]

LEMMA AllEntries == LogInv => EntriesInOrder
<1> SUFFICES ASSUME LogInv PROVE EntriesInOrder
    OBVIOUS
<1>1. /\ entries \in [0..(Cap - 1) -> Entries \cup {NoEntry}]
      /\ head \in 0..(Cap - 1) /\ size \in 0..Cap /\ Cap \in Nat \ {0}
      BY LogAssumption DEF LogAssumption, LogInv, LogTypeOK
<1>2. ASSUME NEW i \in 1..size
      PROVE  /\ (head + i - 1) % Cap =
                  (IF head + i - 1 < Cap THEN head + i - 1 ELSE head + i - 1 - Cap)
             /\ (IF head + i - 1 < Cap THEN head + i - 1 ELSE head + i - 1 - Cap) \in 0..(Cap - 1)
             /\ size < Cap => i - 1 \in 0..(Cap - 1)
  <2>1. head + i - 1 \in 0..(2 * Cap - 1)
        BY <1>1
  <2>2. (head + i - 1) % Cap = (IF head + i - 1 < Cap THEN head + i - 1 ELSE head + i - 1 - Cap)
    <3>1. PICK a \in 0..(2 * Cap - 1) : a = head + i - 1
          BY <2>1
    <3>2. (a % Cap) = (IF a < Cap THEN a ELSE a - Cap)
          BY AroundOnce
    <3> QED
      BY <1>1, <3>1, <3>2
  <2>3. /\ (IF head + i - 1 < Cap THEN head + i - 1 ELSE head + i - 1 - Cap) \in 0..(Cap - 1)
        /\ size < Cap => i - 1 \in 0..(Cap - 1)
        BY <1>1, <2>1
  <2> QED
    BY <2>2, <2>3
<1>3. /\ DOMAIN All = 1..size
      /\ \A i \in 1..size : All[i] = entries[IF size < Cap THEN i - 1 ELSE (head + i - 1) % Cap]
      BY DEF All
<1>4. \A i \in 1..size : All[i] \in Entries \cup {NoEntry}
      BY <1>1, <1>2, <1>3
<1>5. All \in [1..size -> Entries \cup {NoEntry}]
      BY <1>3, <1>4 DEF All
<1>6. All \in Seq(Entries \cup {NoEntry}) /\ Len(All) = size
      BY <1>1, <1>5
<1>7. ASSUME NEW i \in 1..size
      PROVE  All[i] = entries[IF size < Cap THEN i - 1
                              ELSE IF head + i - 1 < Cap THEN head + i - 1 ELSE head + i - 1 - Cap]
      BY <1>2, <1>3
<1> QED
  BY <1>6, <1>7 DEF EntriesInOrder

\* A push appends the entry, and drops the oldest one when the buffer is full.
LEMMA StoreIsPush ==
  ASSUME LogInv, NEW p \in Pushers, NEW e \in Entries, Store(p, e)
  PROVE  LogHistory!LogPush(e)
<1> DEFINE longer == Append(All, e)
           next == IF Len(longer) > Cap THEN Tail(longer) ELSE longer
<1>1. /\ entries \in [0..(Cap - 1) -> Entries \cup {NoEntry}]
      /\ head \in 0..(Cap - 1) /\ size \in 0..Cap /\ Cap \in Nat \ {0}
      /\ size < Cap => head = size
      BY LogAssumption DEF LogAssumption, LogInv, LogTypeOK, FilledFromStart
<1>2. /\ entries' = [entries EXCEPT ![head] = e]
      /\ head' = (IF head + 1 < Cap THEN head + 1 ELSE 0)
      /\ size' = (IF size < Cap THEN size + 1 ELSE size)
  <2>1. head + 1 \in 0..(2 * Cap - 1)
        BY <1>1
  <2>2. (head + 1) % Cap = (IF head + 1 < Cap THEN head + 1 ELSE (head + 1) - Cap)
        BY <2>1, AroundOnce
  <2> QED
    BY <1>1, <2>2 DEF Store
<1>3. /\ All \in Seq(Entries \cup {NoEntry}) /\ Len(All) = size
      /\ \A i \in 1..size :
           All[i] = entries[IF size < Cap THEN i - 1
                            ELSE IF head + i - 1 < Cap THEN head + i - 1 ELSE head + i - 1 - Cap]
      BY AllEntries DEF EntriesInOrder
<1>4. LogInv'
      BY StoreStep
<1>5. EntriesInOrder'
      BY <1>4, AllEntries, PTL
<1>6. /\ All' \in Seq(Entries \cup {NoEntry}) /\ Len(All') = size'
      /\ \A i \in 1..size' :
           All'[i] = entries'[IF size' < Cap THEN i - 1
                              ELSE IF head' + i - 1 < Cap THEN head' + i - 1 ELSE head' + i - 1 - Cap]
      BY <1>5 DEF EntriesInOrder
<1>7. /\ longer \in Seq(Entries \cup {NoEntry}) /\ Len(longer) = size + 1
      /\ \A i \in 1..size : longer[i] = All[i]
      /\ longer[size + 1] = e
      BY <1>3, AppendProperties
<1> HIDE DEF longer
<1>8. next \in Seq(Entries \cup {NoEntry}) /\ Len(next) = size'
      BY <1>1, <1>2, <1>7, HeadTailProperties
<1>9. ASSUME NEW i \in 1..size' PROVE All'[i] = next[i]
  <2>1. CASE size < Cap
    <3>1. next = longer /\ size' = size + 1 /\ head = size
          BY <1>1, <1>2, <1>7, <2>1
    <3>2. All'[i] = entries'[i - 1]
          BY <1>1, <1>2, <1>6, <2>1, <3>1
    <3>3. CASE i = size + 1
      BY <1>1, <1>2, <1>7, <3>1, <3>2, <3>3
    <3>4. CASE i # size + 1
      <4>1. i \in 1..size /\ i - 1 # head /\ i - 1 \in 0..(Cap - 1)
            BY <1>1, <2>1, <3>1, <3>4
      <4>2. entries'[i - 1] = entries[i - 1] /\ All[i] = entries[i - 1]
            BY <1>1, <1>2, <1>3, <2>1, <4>1
      <4> QED
        BY <1>7, <3>1, <3>2, <4>1, <4>2
    <3> QED
      BY <3>3, <3>4
  <2>2. CASE size = Cap
    <3>1. size' = Cap /\ Len(longer) > Cap /\ next = Tail(longer)
          BY <1>1, <1>2, <1>7, <2>2
    <3>2. next[i] = longer[i + 1]
          BY <1>1, <1>7, <3>1, <2>2, HeadTailProperties
    <3>3. CASE i = Cap
      <4>1. All'[i] = entries'[head]
            BY <1>1, <1>2, <1>6, <3>1, <3>3
      <4> QED
        BY <1>1, <1>2, <1>7, <2>2, <3>2, <3>3, <4>1
    <3>4. CASE i # Cap
      <4> DEFINE at == IF head + i < Cap THEN head + i ELSE head + i - Cap
      <4>1. i \in 1..(Cap - 1) /\ i + 1 \in 1..size
            BY <1>1, <2>2, <3>1, <3>4
      <4>2. at \in 0..(Cap - 1) /\ at # head
            BY <1>1, <4>1
      <4>3. All[i + 1] = entries[at]
            BY <1>1, <1>3, <2>2, <4>1
      <4>4. All'[i] = entries'[at]
            BY <1>1, <1>2, <1>6, <3>1, <4>1
      <4>5. entries'[at] = entries[at]
            BY <1>1, <1>2, <4>2
      <4> QED
        BY <1>7, <3>2, <4>1, <4>3, <4>4, <4>5
    <3> QED
      BY <3>3, <3>4
  <2> QED
    BY <1>1, <2>1, <2>2
<1>10. All' = next
      BY <1>2, <1>6, <1>8, <1>9
<1> QED
  BY <1>10 DEF LogHistory!LogPush, longer

\* The circular buffer implements the bounded log: whoever pushes, logs.history shows the
\* last Cap entries, whole and in order.
THEOREM BufferIsLog == LogBroadcastInit /\ [][LogBroadcastNext]_logVars => ImplementsLog
<1>1. LogBroadcastInit => LogHistory!LogInit
  <2> SUFFICES ASSUME LogBroadcastInit PROVE All = <<>>
      BY DEF LogHistory!LogInit
  <2> QED
    BY DEF LogBroadcastInit, All
<1>2. LogInv /\ [LogBroadcastNext]_logVars => [LogHistory!LogNext]_All
  <2> SUFFICES ASSUME LogInv, [LogBroadcastNext]_logVars
               PROVE  LogHistory!LogNext \/ All' = All
      OBVIOUS
  <2>1. ASSUME NEW p \in Pushers, NEW e \in Entries, Store(p, e) PROVE LogHistory!LogNext
        BY <2>1, StoreIsPush DEF LogHistory!LogNext
  <2>2. ASSUME UNCHANGED ringVars PROVE All' = All
        BY <2>2 DEF ringVars, All
  <2> QED
    BY <2>1, <2>2, OtherLogSteps DEF LogBroadcastNext
<1> QED
  BY <1>1, <1>2, InitLog, NextLog, PTL DEF ImplementsLog, LogHistory!LogSpec

-----------------------------------------------------------------------------
(* The composition: whichever service runs, each one begins as its module    *)
(* says and takes steps of its module, or none.                              *)

LEMMA ServicesBegin ==
  Init => /\ TokensInit /\ StreamInit /\ LogBroadcastInit /\ BreakerInit /\ RateInit
          /\ SocketInit /\ KickInit /\ TwitchInit
BY Zenon DEF Init

LEMMA OneServiceSteps ==
  ASSUME [Next]_vars
  PROVE  /\ [TokensNext]_tokenVars /\ [StreamNext]_streamVars
         /\ [LogBroadcastNext]_logVars /\ [BreakerNext]_breakerVars /\ [RateNext]_rateVars
         /\ [SocketNext]_socketVars /\ [KickNext]_kickVars /\ [TwitchNext]_twitchVars
<1>1. CASE Of("tokens", TokensNext)
      BY <1>1, Zenon DEF Of, OthersStay
<1>2. CASE Of("stream", StreamNext)
      BY <1>2 DEF Of, OthersStay
<1>3. CASE Of("logs", LogBroadcastNext)
      BY <1>3 DEF Of, OthersStay
<1>4. CASE Of("breaker", BreakerNext)
      BY <1>4 DEF Of, OthersStay
<1>5. CASE Of("limiter", RateNext)
      BY <1>5 DEF Of, OthersStay
<1>6. CASE Of("socket", SocketNext)
      BY <1>6 DEF Of, OthersStay
<1>7. CASE Of("kick", KickNext)
      BY <1>7 DEF Of, OthersStay
<1>8. CASE Of("twitch", TwitchNext)
      BY <1>8 DEF Of, OthersStay
<1>9. CASE UNCHANGED vars
      BY <1>9 DEF vars
<1> QED
  BY <1>1, <1>2, <1>3, <1>4, <1>5, <1>6, <1>7, <1>8, <1>9 DEF Next

LEMMA EachService ==
  Spec => /\ TokensInit /\ [][TokensNext]_tokenVars
          /\ StreamInit /\ [][StreamNext]_streamVars
          /\ LogBroadcastInit /\ [][LogBroadcastNext]_logVars
          /\ BreakerInit /\ [][BreakerNext]_breakerVars
          /\ RateInit /\ [][RateNext]_rateVars
          /\ SocketInit /\ [][SocketNext]_socketVars
          /\ KickInit /\ [][KickNext]_kickVars
          /\ TwitchInit /\ [][TwitchNext]_twitchVars
BY ServicesBegin, OneServiceSteps, PTL DEF Spec

\* Every reachable state of every service has its type.
THEOREM ServicesTypeCorrect == Spec => []ServicesTypeOK
<1>1. /\ TokensTypeOK /\ StreamTypeOK /\ LogTypeOK /\ BreakerTypeOK /\ RateTypeOK
      /\ SocketTypeOK /\ KickTypeOK /\ TwitchTypeOK
      => ServicesTypeOK
      BY DEF ServicesTypeOK
<1> QED
  BY <1>1, EachService, TokensTypeCorrect, StreamsAreSafe, LogTypeCorrect, BreakerIsSafe,
     RateIsKept, SocketTypeCorrect, KickTypeCorrect, TwitchTypeCorrect, PTL

\* In the composition, a valid token has few errors, a restart loses only tokens whose
\* append failed, and every proxy in use is held by exactly one running validation.
THEOREM TokensStaySafe == Spec => []TokensSafe
BY EachService, TokensAreSafe, PTL

\* In the composition, what a restream, a circuit or a bucket shows fits what runs, what
\* failed and what was let through.
THEOREM OutcomesAlwaysFit == Spec => []OutcomesFit
<1>1. StreamSafe /\ CountsFitCircuit /\ NeverOverRate => OutcomesFit
      BY DEF OutcomesFit
<1> QED
  BY <1>1, EachService, StreamsAreSafe, BreakerIsSafe, RateIsKept, PTL

\* In the composition, the viewers' connections, loops and reports are what the platform
\* and the viewer's life have them be.
THEOREM ViewersStaySafe == Spec => []ViewersSafe
<1>1. SocketSafe /\ OneLoopLeft /\ BroadcastMatches => ViewersSafe
      BY DEF ViewersSafe
<1> QED
  BY <1>1, EachService, SocketsAreSafe, KickLeavesOneLoop, HeartbeatsMatch, PTL

\* In the composition, the circular buffer implements the bounded log and a Kick viewer the
\* life that the reconnecting viewer takes an inner viewer to have.
THEOREM ServicesAreImplemented == Spec => ServicesImplement
BY EachService, BufferIsLog, KickIsViewer, PTL DEF ServicesImplement
=============================================================================
