------------------------------- MODULE Tokens -------------------------------
(***************************************************************************)
(* The token pool (internal/token/manager.go), its file, and the           *)
(* validator that the API starts in the background                         *)
(* (internal/token/validator.go), on top of ProxyPool.  Every method of    *)
(* Manager holds its mutex for the whole body; ValidateAll asks the        *)
(* platform between two critical sections.  The file is appended to by a   *)
(* goroutine that AddBulk starts and nobody waits for.  Left out: labels,  *)
(* counters of use, Acquire and Release (which have no caller), progress   *)
(* reports.  StateRateLimited is never assigned by the code.               *)
(***************************************************************************)
EXTENDS Naturals, FiniteSets, ProxyPool

CONSTANTS
  Toks,         \* token values
  Batches,      \* validations that may run at once, one per tokens.validate
  Concurrency,  \* Validator.concurrency (5)
  MaxErrors,    \* ReportError's threshold (3); larger counts are as good as it
  NoProxy

ASSUME TokensAssumption == /\ Concurrency \in Nat \ {0}
                           /\ MaxErrors \in Nat \ {0}
                           /\ NoProxy \notin Proxies

VARIABLES
  status,       \* ManagedToken.State, or "absent"
  errors,       \* ManagedToken.ErrorCount
  file,         \* tokens in data/tokens.txt
  appends,      \* what the goroutines of AddBulk have yet to write
  lost,         \* tokens whose append failed (logged, never tried again)
  jobs,         \* jobs[b][t]: where validation b is with token t
  slots,        \* len(sem) of each validation
  via,          \* via[b][t]: the proxy that goroutine holds
  recheck       \* Manager.ValidateAll: the token it asks about, if any

storeVars == <<file, appends, lost>>
jobVars == <<jobs, slots, via>>
tokenVars == <<status, errors, storeVars, jobVars, recheck, poolVars>>

TokenStates == {"valid", "expired", "quarantined"}
Phases == {"idle", "todo", "slot", "asked", "written"}
NoJobs == [b \in Batches |-> [t \in Toks |-> "idle"]]
NoVia == [b \in Batches |-> [t \in Toks |-> NoProxy]]

Loaded == {t \in Toks : status[t] # "absent"}
Held == {via[b][t] : b \in Batches, t \in Toks} \ {NoProxy}
Saturate(n) == IF n < MaxErrors THEN n ELSE MaxErrors

TokensTypeOK ==
  /\ PoolTypeOK
  /\ status \in [Toks -> TokenStates \cup {"absent"}]
  /\ errors \in [Toks -> 0..MaxErrors]
  /\ file \subseteq Toks /\ lost \subseteq Toks /\ appends \subseteq Toks
  /\ jobs \in [Batches -> [Toks -> Phases]]
  /\ slots \in [Batches -> 0..Concurrency]
  /\ via \in [Batches -> [Toks -> Proxies \cup {NoProxy}]]
  /\ recheck \subseteq Loaded /\ Cardinality(recheck) <= 1

\* Mutant: only the tokens of the first batch of the process are appended.
AddTokens_MemoryOnly(vals) ==
  LET new == vals \ Loaded IN
  /\ status' = [t \in Toks |-> IF t \in new THEN "valid" ELSE status[t]]
  /\ appends' = appends \cup (IF Loaded = {} THEN new ELSE {})
  /\ UNCHANGED <<errors, file, lost, jobVars, recheck, poolVars>>

\* Manager.AddBulk, called by tokens.import: known values are skipped, and one
\* goroutine is to append the others to the file.
AddTokens(vals) ==
  LET new == vals \ Loaded IN
  /\ status' = [t \in Toks |-> IF t \in new THEN "valid" ELSE status[t]]
  /\ appends' = appends \cup new
  /\ UNCHANGED <<errors, file, lost, jobVars, recheck, poolVars>>

\* That goroutine writes one line after the other ...
AppendLine(t) ==
  /\ t \in appends
  /\ file' = file \cup {t}
  /\ appends' = appends \ {t}
  /\ UNCHANGED <<status, errors, lost, jobVars, recheck, poolVars>>

\* ... or could not open the file, or not write the line: logged at most.
AppendFails(t) ==
  /\ t \in appends
  /\ lost' = lost \cup {t}
  /\ appends' = appends \ {t}
  /\ UNCHANGED <<status, errors, file, jobVars, recheck, poolVars>>

\* The process ends at any moment and is started again: loadTokensFromFile
\* reads the lines that were written, and AddBulk appends them once more.
Restart ==
  /\ status' = [t \in Toks |-> IF t \in file THEN "valid" ELSE "absent"]
  /\ errors' = [t \in Toks |-> 0]
  /\ appends' = file
  /\ lost' = {} /\ recheck' = {}
  /\ jobs' = NoJobs /\ slots' = [b \in Batches |-> 0] /\ via' = NoVia
  /\ inUse' = {} /\ dead' = {}
  /\ UNCHANGED <<file, known>>

-----------------------------------------------------------------------------
\* Whoever has a token may report on it at any time (All hands the pointers
\* out).  No code of the program calls these two or Manager.ValidateAll yet:
\* they are the package's interface.
Quarantine(t) ==
  /\ t \in Loaded
  /\ status' = [status EXCEPT ![t] = "quarantined"]
  /\ errors' = [errors EXCEPT ![t] = Saturate(@ + 1)]
  /\ UNCHANGED <<storeVars, jobVars, recheck, poolVars>>

ReportError(t) ==
  /\ t \in Loaded
  /\ errors' = [errors EXCEPT ![t] = Saturate(@ + 1)]
  /\ status' = IF errors'[t] >= MaxErrors
               THEN [status EXCEPT ![t] = "quarantined"] ELSE status
  /\ UNCHANGED <<storeVars, jobVars, recheck, poolVars>>

-----------------------------------------------------------------------------
\* Manager.ValidateAll (one at a time here) copies the list and asks about one
\* token after the other, in between without the lock; it may be cancelled.
RecheckAsk(t) ==
  /\ recheck = {} /\ t \in Loaded
  /\ recheck' = {t}
  /\ UNCHANGED <<status, errors, storeVars, jobVars, poolVars>>

\* Mutant: a valid answer does not forgive the errors.
RecheckAnswer_KeepsErrors(t, good) ==
  /\ t \in recheck
  /\ recheck' = {}
  /\ status' = [status EXCEPT ![t] = IF good THEN "valid" ELSE "expired"]
  /\ UNCHANGED <<errors, storeVars, jobVars, poolVars>>

\* The answer is written over whatever the token became in the meantime.
RecheckAnswer(t, good) ==
  /\ t \in recheck
  /\ recheck' = {}
  /\ status' = [status EXCEPT ![t] = IF good THEN "valid" ELSE "expired"]
  /\ errors' = IF good THEN [errors EXCEPT ![t] = 0] ELSE errors
  /\ UNCHANGED <<storeVars, jobVars, poolVars>>

-----------------------------------------------------------------------------
\* tokens.validate: a goroutine starts Validator.ValidateAll with
\* context.Background(), whose Done never comes; nothing stops two of them.
Validate(b) ==
  /\ jobs[b] = NoJobs[b]
  /\ jobs' = [jobs EXCEPT ![b] = [t \in Toks |-> IF t \in Loaded THEN "todo" ELSE "idle"]]
  /\ UNCHANGED <<status, errors, storeVars, slots, via, recheck, poolVars>>

\* The loop waits for a free slot and starts the goroutine of one token.
SpawnCheck(b, t) ==
  /\ jobs[b][t] = "todo" /\ slots[b] < Concurrency
  /\ jobs' = [jobs EXCEPT ![b][t] = "slot"]
  /\ slots' = [slots EXCEPT ![b] = @ + 1]
  /\ UNCHANGED <<status, errors, storeVars, via, recheck, poolVars>>

\* proxyMgr.Acquire: without a free proxy the request goes out directly.
CheckVia(b, t, p) ==
  /\ jobs[b][t] = "slot"
  /\ jobs' = [jobs EXCEPT ![b][t] = "asked"]
  /\ \/ Acquire(p) /\ via' = [via EXCEPT ![b][t] = p]
     \/ Available = {} /\ UNCHANGED <<via, poolVars>>
  /\ UNCHANGED <<status, errors, storeVars, slots, recheck>>

\* twitch Provider.ValidateToken: what it makes of the answer to its request.
ValidateToken == [code \in {"failed", "200", "401", "429", "other"} |->
  CASE code = "200" -> "valid" [] code = "401" -> "expired"
    [] code = "429" -> "rate_limited" [] OTHER -> "invalid"]

\* validateOne writes the answer, over whatever the token became meanwhile.
CheckAnswer(b, t, answer) ==
  /\ jobs[b][t] = "asked"
  /\ jobs' = [jobs EXCEPT ![b][t] = "written"]
  /\ status' = [status EXCEPT ![t] =
       CASE answer = "invalid" -> "quarantined" [] answer = "rate_limited" -> @
         [] OTHER -> answer]
  /\ errors' = IF answer = "valid" THEN [errors EXCEPT ![t] = 0] ELSE errors
  /\ UNCHANGED <<storeVars, slots, via, recheck, poolVars>>

\* Mutant: only the goroutines of valid tokens give their proxy back.
CheckEnd_KeepsProxy(b, t) ==
  /\ jobs[b][t] = "written" /\ slots[b] > 0
  /\ jobs' = [jobs EXCEPT ![b][t] = "idle"]
  /\ slots' = [slots EXCEPT ![b] = @ - 1]
  /\ via' = [via EXCEPT ![b][t] = NoProxy]
  /\ IF status[t] = "valid" THEN Release(via[b][t]) ELSE UNCHANGED poolVars
  /\ UNCHANGED <<status, errors, storeVars, recheck>>

\* The deferred calls: Release, then the slot (the receive blocks when there is
\* none to take back), then wg.Done; ValidateAll returns after the last one.
CheckEnd(b, t) ==
  /\ jobs[b][t] = "written" /\ slots[b] > 0
  /\ jobs' = [jobs EXCEPT ![b][t] = "idle"]
  /\ slots' = [slots EXCEPT ![b] = @ - 1]
  /\ via' = [via EXCEPT ![b][t] = NoProxy]
  /\ Release(via[b][t])
  /\ UNCHANGED <<status, errors, storeVars, recheck>>

-----------------------------------------------------------------------------
TokensInit ==
  /\ PoolInit
  /\ file \in SUBSET Toks
  /\ status = [t \in Toks |-> IF t \in file THEN "valid" ELSE "absent"]
  /\ errors = [t \in Toks |-> 0]
  /\ lost = {} /\ recheck = {}
  /\ appends = file
  /\ jobs = NoJobs /\ via = NoVia /\ slots = [b \in Batches |-> 0]

CheckStep(b, t) ==
  \/ SpawnCheck(b, t)
  \/ \E p \in Proxies : CheckVia(b, t, p)
  \/ \E code \in DOMAIN ValidateToken : CheckAnswer(b, t, ValidateToken[code])
  \/ CheckEnd(b, t)

Appending == \E t \in Toks : AppendLine(t) \/ AppendFails(t)

TokensNext ==
  \/ \E vals \in SUBSET Toks : AddTokens(vals)
  \/ Appending \/ Restart
  \/ \E t \in Toks : Quarantine(t) \/ ReportError(t)
  \/ \E t \in Toks : RecheckAsk(t) \/ \E good \in BOOLEAN : RecheckAnswer(t, good)
  \/ \E b \in Batches : Validate(b) \/ \E t \in Toks : CheckStep(b, t)

-----------------------------------------------------------------------------
\* A token that GetValidValues hands to the engines has fewer errors than the threshold,
\* whatever order reports, quarantines and late answers come in.
UsableHasFewErrors == \A t \in Toks : status[t] = "valid" => errors[t] < MaxErrors

\* What the pool offers is in the file or still to be written there, unless the
\* append failed: a restart loses nothing else.
PoolIsBacked == Loaded \subseteq file \cup appends \cup lost

\* Every proxy in use is held by exactly one running check: validations leak none.
ProxiesHeldByChecks ==
  /\ inUse = Held
  /\ \A b1, b2 \in Batches, t1, t2 \in Toks :
       via[b1][t1] = via[b2][t2] /\ via[b1][t1] # NoProxy => b1 = b2 /\ t1 = t2

TokensSafe == UsableHasFewErrors /\ PoolIsBacked /\ ProxiesHeldByChecks

\* A validation comes to an end, for every token it began with.
ValidationsEnd == \A b \in Batches : []<>(jobs[b] = NoJobs[b])
=============================================================================
