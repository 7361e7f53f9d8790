--------------------------- MODULE MCTargetBuild ---------------------------
(* Instances of TargetBuild for TLC. *)
EXTENDS TargetBuild, TLC

CONSTANTS s1, s2, h1, l1, v1, v2

(* s1 includes h1 until it is edited to v2; s2 always includes h1. *)
MCIncludes ==
  [s \in {s1, s2} |-> [v \in {v1, v2, Gone} |->
     IF v = Gone \/ (s = s1 /\ v = v2) THEN {} ELSE {h1}]]

=============================================================================
