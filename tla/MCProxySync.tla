---------------------------- MODULE MCProxySync ----------------------------
(* Small instances of ProxySync for TLC. *)
EXTENDS ProxySync, TLC

CONSTANTS p1, p2, h1, h2, good, bad, s0, s1, a, b

Symmetry == Permutations(Handlers) \cup Permutations(ProxyIDs) \cup Permutations(Hosts)
============================================================================
