------------------------------ MODULE MCEngine ------------------------------
(* main (Stop on a signal) and API clients.                                  *)
EXTENDS Engine, TLC

CONSTANTS main, client

\* A sidecar: a client starts and scales, main stops on a signal meanwhile.
SidecarOps == main :> {"stop"} @@ client :> {"start", "scale"}

\* One caller that starts and ends the engine in both ways.
SequentialOps == client :> {"start", "stop", "graceful"}

\* The same caller, scaling as well.
ScalingOps == client :> {"start", "scale", "stop"}

Symmetry == Permutations(Proxies) \cup Permutations(Workers)
=============================================================================
