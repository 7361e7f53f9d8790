---------------------------- MODULE MCObjectCache ----------------------------
(* An instance of ObjectCache for TLC. *)
EXTENDS ObjectCache

CONSTANTS p1, p2, c1, c2, main, v1

=============================================================================
