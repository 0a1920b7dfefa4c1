--------------------------- MODULE MCProxyService ---------------------------
(* Small instances of ProxyService for TLC. *)
EXTENDS ProxyService, TLC

CONSTANTS p1, p2, p3, h1, h2, x, a, b

Symmetry == Permutations(Handlers) \cup Permutations(ProxyIDs) \cup Permutations(Hosts)
============================================================================
