--------------------------- MODULE MCUserService ---------------------------
(* Small instances of UserService for TLC. *)
EXTENDS UserService, TLC

CONSTANTS u1, u2, u3, a, b
============================================================================
