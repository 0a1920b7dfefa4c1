---------------------------- MODULE MCAclService ----------------------------
(* Small instances of AclService for TLC. *)
EXTENDS AclService, TLC

CONSTANTS h1, h2

Everything == AllKinds
AdminSymmetry == Permutations({h1, h2})
============================================================================
