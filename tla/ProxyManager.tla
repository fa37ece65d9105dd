--------------------------- MODULE ProxyManager ---------------------------
(***************************************************************************)
(* internal/proxy/manager.go in detail: the list of Proxy objects, the     *)
(* inUse map keyed by Raw(), the four rotation strategies and the round-   *)
(* robin counter.  Two objects may share a Raw(): LoadFromFile appends     *)
(* every line of the file (AddBulk skips what is already there), and Raw() *)
(* drops the scheme.  Users of the pool release what they acquired once.   *)
(***************************************************************************)
EXTENDS Integers, FiniteSets, Sequences, SequencesExt

CONSTANTS
  Proxies,                      \* values of Raw()
  MaxObjects,                   \* bound: length of the list
  MaxUse,                       \* bound: UseCount and rrIndex
  MaxLease                      \* bound: proxies out at a time, one per worker

ASSUME ManagerConstants ==
  /\ MaxObjects \in Nat \ {0}
  /\ MaxUse \in Nat \ {0}
  /\ MaxLease \in Nat

Strategies == {"round-robin", "random", "least-used", "fastest"}
\* Of HealthStatus the manager only asks whether it is HealthDead.
Health == {"usable", "dead"}
Latency == {"low", "high"}

VARIABLES
  proxies,                      \* m.proxies: sequence of Proxy objects
  inUse,                        \* m.inUse: set of Raw values
  strategy,                     \* m.strategy
  rrIndex,                      \* m.rrIndex
  lent                          \* objects the callers of Acquire still hold

vars == <<proxies, inUse, strategy, rrIndex, lent>>

Object == [raw : Proxies, health : Health, latency : Latency, useCount : 0..MaxUse]
NewObject(r) == [raw |-> r, health |-> "usable", latency |-> "low", useCount |-> 0]

Raws == {proxies[i].raw : i \in DOMAIN proxies}

\* Mutants: dead proxies pass; proxies in use pass; use is tracked by object.
GetAvailable_Dead == {i \in DOMAIN proxies : proxies[i].raw \notin inUse}
GetAvailable_InUse == {i \in DOMAIN proxies : proxies[i].health # "dead"}
GetAvailable_ByObject == {i \in DOMAIN proxies : proxies[i].health # "dead" /\ i \notin lent}

\* getAvailable: the indices of the usable objects.
GetAvailable ==
  {i \in DOMAIN proxies : proxies[i].health # "dead" /\ proxies[i].raw \notin inUse}

TypeOK ==
  /\ proxies \in Seq(Object) /\ Len(proxies) <= MaxObjects
  /\ inUse \subseteq Proxies
  /\ strategy \in Strategies
  /\ rrIndex \in 0..MaxUse
  /\ lent \subseteq DOMAIN proxies

-----------------------------------------------------------------------------
\* main: NewManager then LoadFromFile, which keeps duplicate lines.
Init ==
  /\ \E n \in 0..MaxObjects, f \in [1..MaxObjects -> Proxies] :
       proxies = [i \in 1..n |-> NewObject(f[i])]
  /\ inUse = {}
  /\ strategy \in Strategies
  /\ rrIndex = 0
  /\ lent = {}

\* Mutant: an import takes the place of the list, as a reload would.
AddBulk_Replaces(news) ==
  /\ IsInjective(news) /\ \A k \in DOMAIN news : news[k] \notin Raws
  /\ proxies' = [k \in DOMAIN news |-> NewObject(news[k])]
  /\ UNCHANGED <<inUse, strategy, rrIndex, lent>>

\* AddBulk: news is what is left of the batch when everything present, and every
\* second mention, has been skipped.
AddBulk(news) ==
  /\ IsInjective(news) /\ \A k \in DOMAIN news : news[k] \notin Raws
  /\ Len(proxies) + Len(news) <= MaxObjects                  \* bound
  /\ proxies' = proxies \o [k \in DOMAIN news |-> NewObject(news[k])]
  /\ UNCHANGED <<inUse, strategy, rrIndex, lent>>

\* The objects the strategy may select.  sort.Slice is not stable: any of the
\* least used (fastest) objects can come first.  Round-robin counts in list order.
Selected(avail) ==
  CASE strategy = "random"     -> avail
    [] strategy = "least-used" ->
         {i \in avail : \A j \in avail : proxies[i].useCount <= proxies[j].useCount}
    [] strategy = "fastest"    ->
         {i \in avail : \A j \in avail :
            proxies[i].latency = "low" \/ proxies[j].latency = "high"}
    [] OTHER                   ->
         {i \in avail : Cardinality({j \in avail : j < i}) = rrIndex % Cardinality(avail)}

Acquire ==
  /\ Cardinality(lent) < MaxLease                            \* bound
  /\ \E i \in Selected(GetAvailable) :          \* with none available, nil is returned
       /\ proxies[i].useCount < MaxUse                       \* bound
       /\ proxies' = [proxies EXCEPT ![i].useCount = @ + 1]
       /\ inUse' = inUse \cup {proxies[i].raw}
       /\ lent' = lent \cup {i}
  /\ IF strategy = "round-robin"
     THEN rrIndex < MaxUse /\ rrIndex' = rrIndex + 1
     ELSE UNCHANGED rrIndex
  /\ UNCHANGED strategy

Release(i) ==
  /\ i \in lent
  /\ inUse' = inUse \ {proxies[i].raw}
  /\ lent' = lent \ {i}
  /\ UNCHANGED <<proxies, strategy, rrIndex>>

\* UpdateHealth, from a checker that works on a copy of the list (All).
UpdateHealth(i, h, l) ==
  /\ proxies' = [proxies EXCEPT ![i].health = h, ![i].latency = l]
  /\ UNCHANGED <<inUse, strategy, rrIndex, lent>>

SetStrategy(s) ==
  /\ strategy' = s
  /\ UNCHANGED <<proxies, inUse, rrIndex, lent>>

Next ==
  \/ \E news \in SeqOf(Proxies, 2) : AddBulk(news)      \* bound: batches of two
  \/ Acquire
  \/ \E i \in DOMAIN proxies : Release(i)
  \/ \E i \in DOMAIN proxies, h \in Health, l \in Latency : UpdateHealth(i, h, l)
  \/ \E s \in Strategies : SetStrategy(s)

Spec == Init /\ [][Next]_vars

-----------------------------------------------------------------------------
\* Manager.Count.
Count ==
  [total     |-> Len(proxies),
   available |-> Cardinality(GetAvailable),
   inUse     |-> Cardinality(inUse)]

\* The three counters the API and the Prometheus exporter show never add up to
\* more proxies than the list holds, although one counts Raw values and two
\* count objects.
CountsAddUp == Count.available + Count.inUse <= Count.total

\* Two leases never use the same endpoint, even when the file named it twice:
\* inUse is exactly the endpoints of the lent objects.
OneLeasePerEndpoint ==
  /\ \A i, j \in lent : proxies[i].raw = proxies[j].raw => i = j
  /\ inUse = {proxies[i].raw : i \in lent}

\* An endpoint is dead for the pool when every object that names it is.
Pool == INSTANCE ProxyPool WITH
  known <- Raws,
  dead  <- {r \in Raws : \A i \in DOMAIN proxies : proxies[i].raw = r => proxies[i].health = "dead"},
  inUse <- inUse

\* The manager implements the pool the engine is built on, whatever the
\* strategy, duplicates in the list and health changes.
ImplementsPool == Pool!PoolSpec
=============================================================================
