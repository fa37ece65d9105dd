---------------------------- MODULE RateLimiter ----------------------------
(***************************************************************************)
(* The API's token buckets (RateLimiter, internal/api/middleware.go), one  *)
(* per client key; nothing installs them yet.  Time is counted in ticks,   *)
(* Interval of which are the refill interval: Allow rounds the time since  *)
(* the last call down to whole intervals and forgets the rest.             *)
(***************************************************************************)
EXTENDS Integers

CONSTANTS
  Keys,         \* client keys
  Rate,         \* tokens per interval
  Interval,     \* ticks per interval
  Burst,        \* size of a bucket
  Stale         \* ticks after which cleanup forgets a bucket (five minutes)

\* A bucket that is forgotten would have been full again (NewRateLimiter does not check it).
ASSUME RateAssumption ==
  /\ Rate \in Nat \ {0} /\ Interval \in Nat \ {0} /\ Burst \in Nat \ {0}
  /\ Stale \in Nat /\ Rate * Stale >= Burst * Interval

VARIABLES
  tokens,       \* bucket.tokens, or -1 without a bucket
  elapsed,      \* ticks since bucket.lastCheck; beyond Stale all the same
  credit        \* what the advertised rate leaves, in tokens times Interval

rateVars == <<tokens, elapsed, credit>>

RateTypeOK ==
  /\ tokens \in [Keys -> -1..Burst]
  /\ elapsed \in [Keys -> 0..(Stale + 1)]
  /\ credit \in [Keys -> Int]

RateInit ==
  /\ tokens = [k \in Keys |-> -1] /\ elapsed = [k \in Keys |-> 0]
  /\ credit = [k \in Keys |-> Burst * Interval]

\* Mutant: a new bucket is full, the first request not taken from it.
Refilled_FirstFree(k) ==
  IF tokens[k] = -1 THEN Burst + 1
  ELSE LET t == tokens[k] + (elapsed[k] \div Interval) * Rate IN
       IF t < Burst THEN t ELSE Burst

\* What is in the bucket when a call comes: a new one is full.
Refilled(k) ==
  IF tokens[k] = -1 THEN Burst
  ELSE LET t == tokens[k] + (elapsed[k] \div Interval) * Rate IN
       IF t < Burst THEN t ELSE Burst

\* Allow: a refused call sets lastCheck too.
Allow(k) ==
  /\ tokens' = [tokens EXCEPT ![k] = IF Refilled(k) > 0 THEN Refilled(k) - 1 ELSE 0]
  /\ elapsed' = [elapsed EXCEPT ![k] = 0]
  /\ credit' = IF Refilled(k) > 0 THEN [credit EXCEPT ![k] = @ - Interval] ELSE credit

\* The cleanup of a stale bucket.
Cleanup(k) ==
  /\ tokens[k] # -1 /\ elapsed[k] > Stale
  /\ tokens' = [tokens EXCEPT ![k] = -1] /\ elapsed' = [elapsed EXCEPT ![k] = 0]
  /\ UNCHANGED credit

\* Time passes, and the advertised rate gives each key its share of a token.
RateTick ==
  /\ elapsed' = [k \in Keys |-> IF tokens[k] = -1 \/ elapsed[k] > Stale
                                THEN elapsed[k] ELSE elapsed[k] + 1]
  /\ credit' = [k \in Keys |-> IF credit[k] + Rate < Burst * Interval
                               THEN credit[k] + Rate ELSE Burst * Interval]
  /\ UNCHANGED tokens

RateNext == RateTick \/ \E k \in Keys : Allow(k) \/ Cleanup(k)

-----------------------------------------------------------------------------
\* Nobody gets more than Burst requests and Rate per interval after them,
\* however the calls, the roundings and the cleanups fall in time.
NeverOverRate == \A k \in Keys : credit[k] >= 0
=============================================================================
