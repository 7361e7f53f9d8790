---------------------------- MODULE MCBuildReport ----------------------------
(* Instances of BuildReport for TLC: a library that only "--install-type   *)
(* sdk" installs, a file that its package installs elsewhere, and a test.  *)
EXTENDS BuildReport, TLC

MCOrder == <<"lib", "doc", "check">>
MCKind == [lib |-> "static", doc |-> "extra", check |-> "test"]
=============================================================================
