--------------------------- MODULE CircuitBreaker ---------------------------
(***************************************************************************)
(* The circuit breaker (pkg/netutil/circuitbreaker.go), with the calls     *)
(* that several goroutines make through Execute.  Each method holds the    *)
(* mutex; the guarded function runs between two of them, so a result may   *)
(* come when the circuit has opened, closed or been reset meanwhile.       *)
(* Nothing in the program uses it yet.  Time is the age of lastFailure, in *)
(* a unit of which the reset timeout has ResetTimeout.                     *)
(***************************************************************************)
EXTENDS Naturals

CONSTANTS
  Calls,        \* goroutines that call Execute, over and over
  Threshold,    \* failures before opening (5)
  HalfOpenMax,  \* successes that close a half-open circuit (2)
  ResetTimeout

\* NewCircuitBreaker replaces what is not positive by its default.
ASSUME BreakerAssumption == /\ Threshold \in Nat \ {0}
                            /\ HalfOpenMax \in Nat \ {0}
                            /\ ResetTimeout \in Nat \ {0}

VARIABLES
  circuit,      \* CircuitBreaker.state
  failureCount,
  successCount,
  age,          \* time since lastFailure; beyond the timeout it is all the same
  calling,      \* calls whose function runs
  doomed,       \* those that began while the service was down, and may fail
  healthy       \* the service works

breakerVars == <<circuit, failureCount, successCount, age, calling, doomed,
                 healthy>>

BreakerTypeOK ==
  /\ circuit \in {"closed", "open", "half-open"}
  /\ failureCount \in 0..Threshold
  /\ successCount \in 0..HalfOpenMax
  /\ age \in 0..(ResetTimeout + 1)
  /\ doomed \subseteq calling /\ calling \subseteq Calls /\ healthy \in BOOLEAN

\* lastFailure is the zero time: long ago.
BreakerInit ==
  /\ circuit = "closed" /\ failureCount = 0 /\ successCount = 0
  /\ age = ResetTimeout + 1 /\ calling = {} /\ doomed = {} /\ healthy = TRUE

\* Mutant: the successes of an earlier trial are kept.
AllowRequest_KeepsCount(c) ==
  /\ c \notin calling /\ calling' = calling \cup {c}
  /\ doomed' = IF healthy THEN doomed ELSE doomed \cup {c}
  /\ \/ circuit # "open" /\ UNCHANGED <<circuit, successCount>>
     \/ /\ circuit = "open" /\ age > ResetTimeout
        /\ circuit' = "half-open" /\ UNCHANGED successCount
  /\ UNCHANGED <<failureCount, age, healthy>>

\* An open circuit lets a request through when the timeout is over, as the
\* first of a trial; half-open, it lets all through.  Else Execute fails at
\* once and nothing changes.
AllowRequest(c) ==
  /\ c \notin calling /\ calling' = calling \cup {c}
  /\ doomed' = IF healthy THEN doomed ELSE doomed \cup {c}
  /\ \/ circuit # "open" /\ UNCHANGED <<circuit, successCount>>
     \/ /\ circuit = "open" /\ age > ResetTimeout
        /\ circuit' = "half-open" /\ successCount' = 0
  /\ UNCHANGED <<failureCount, age, healthy>>

RecordSuccess(c) ==
  /\ c \in calling /\ calling' = calling \ {c} /\ doomed' = doomed \ {c}
  /\ failureCount' = 0
  /\ successCount' = IF circuit = "half-open" THEN successCount + 1 ELSE successCount
  /\ circuit' = IF circuit = "half-open" /\ successCount' >= HalfOpenMax
                THEN "closed" ELSE circuit
  /\ UNCHANGED <<age, healthy>>

\* The count is capped here at the threshold: no comparison tells larger values from it.
RecordFailure(c) ==
  /\ c \in doomed /\ calling' = calling \ {c} /\ doomed' = doomed \ {c}
  /\ failureCount' = IF failureCount < Threshold THEN failureCount + 1 ELSE failureCount
  /\ age' = 0
  /\ circuit' = IF circuit = "half-open" \/ failureCount' >= Threshold
                THEN "open" ELSE circuit
  /\ UNCHANGED <<successCount, healthy>>

BreakerReset ==
  /\ circuit' = "closed" /\ failureCount' = 0 /\ successCount' = 0
  /\ UNCHANGED <<age, calling, doomed, healthy>>

\* Time passes.
BreakerTick ==
  /\ age <= ResetTimeout /\ age' = age + 1
  /\ UNCHANGED <<circuit, failureCount, successCount, calling, doomed, healthy>>

\* The service breaks down or recovers.
ServiceTurns ==
  /\ healthy' = ~healthy
  /\ UNCHANGED <<circuit, failureCount, successCount, age, calling, doomed>>

Return(c) == RecordSuccess(c) \/ RecordFailure(c)

BreakerNext ==
  \/ \E c \in Calls : AllowRequest(c) \/ Return(c)
  \/ BreakerReset \/ BreakerTick \/ ServiceTurns

-----------------------------------------------------------------------------
\* A closed circuit has not had Threshold failures in a row, a half-open one not
\* the successes that close it, whatever old results come in late.
CountsFitCircuit ==
  /\ circuit = "closed" => failureCount < Threshold
  /\ circuit = "half-open" => successCount < HalfOpenMax

\* When the service works again for good and callers go on, the circuit closes
\* for good, though calls of the bad time still fail and open it again.
BreakerRecovers == <>[]healthy => <>[](circuit = "closed")
=============================================================================
