----------------------------- MODULE ProxyPool -----------------------------
(***************************************************************************)
(* The promise of the proxy pool (internal/proxy/manager.go), whatever the *)
(* rotation strategy: a proxy is handed out only while it is known, not    *)
(* dead and not in use, and Release makes it free again.  Every method     *)
(* takes the manager's mutex for its whole body, so each is one action.    *)
(* A proxy is identified by what Raw() prints (host, port, credentials),   *)
(* the key of the inUse map.  ProxyManager implements this specification;  *)
(* Engine is built on its operations.                                      *)
(***************************************************************************)
CONSTANT Proxies                \* the values Raw() can take

VARIABLES
  known,                        \* proxies loaded into the manager
  dead,                         \* known proxies whose Health is HealthDead
  inUse                         \* Manager.inUse: proxies handed out

poolVars == <<known, dead, inUse>>

PoolTypeOK ==
  /\ known \subseteq Proxies
  /\ dead \subseteq known
  /\ inUse \subseteq known

\* Manager.getAvailable: neither dead nor in use.
Available == known \ (dead \cup inUse)

\* A file is loaded before anything else runs (main calls LoadFromFile first).
PoolInit ==
  /\ known \in SUBSET Proxies
  /\ dead = {}
  /\ inUse = {}

\* Manager.AddBulk: new proxies start with unknown, hence usable, health.
AddBulk(S) ==
  /\ known' = known \cup S
  /\ UNCHANGED <<dead, inUse>>

\* Manager.Acquire hands out p; the strategy decides which p of Available.
Acquire(p) ==
  /\ p \in Available
  /\ inUse' = inUse \cup {p}
  /\ UNCHANGED <<known, dead>>

\* Manager.Release: no check of who holds p, or that anybody does.
Release(p) ==
  /\ inUse' = inUse \ {p}
  /\ UNCHANGED <<known, dead>>

\* Manager.UpdateHealth, called by the checker while the proxy may be in use.
UpdateHealth(p, isDead) ==
  /\ p \in known
  /\ dead' = IF isDead THEN dead \cup {p} ELSE dead \ {p}
  /\ UNCHANGED <<known, inUse>>

PoolNext ==
  \/ \E S \in SUBSET Proxies : AddBulk(S)
  \/ \E p \in Proxies : Acquire(p) \/ Release(p)
  \/ \E p \in Proxies, isDead \in BOOLEAN : UpdateHealth(p, isDead)

PoolSpec == PoolInit /\ [][PoolNext]_poolVars
=============================================================================
