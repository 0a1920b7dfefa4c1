--------------------------- MODULE MCSyncService ---------------------------
(* Small instances of SyncService for TLC. *)
EXTENDS SyncService, TLC

CONSTANTS p1, h1, good, bad, none, s0, s1, a, b, t

Symmetry == Permutations(Handlers)
============================================================================
