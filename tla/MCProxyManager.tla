--------------------------- MODULE MCProxyManager ---------------------------
(* Two endpoints and a list of up to three entries, so that one endpoint can  *)
(* be listed twice; two workers.                                              *)
EXTENDS ProxyManager

Symmetry == Permutations(Proxies)
=============================================================================
