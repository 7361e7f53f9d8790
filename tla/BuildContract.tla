---------------------------- MODULE BuildContract ----------------------------
(***************************************************************************)
(* What a build promises, without the calls it consists of: the script of  *)
(* a package and the tools of a target each run once, in an order that the *)
(* dependencies allow, and no two targets run at the same time.            *)
(* BuildSession implements it (BuildSession!SessionKeepsContract).         *)
(***************************************************************************)
CONSTANTS
  Packages, Targets,
  PkgOf,       \* [Targets -> Packages]
  Requires,    \* [Packages -> SUBSET Packages]
  DependsOn,   \* [Targets -> SUBSET Targets]
  Wanted       \* the targets that a build makes

VARIABLES
  package,     \* what became of the script of a package
  target,      \* what became of a target
  outcome

contract == <<package, target, outcome>>

Init ==
  /\ package = [p \in Packages |-> "no"]
  /\ target = [t \in Targets |-> "none"]
  /\ outcome = "none"

(* The build goes on, and no target runs. *)
Quiescent == outcome = "none" /\ \A t \in Targets : target[t] # "running"

(* A script may begin while others wait for the subgraph they asked for.   *)
BeginScript(p) ==
  /\ Quiescent /\ package[p] = "no"
  /\ \A d \in Requires[p] : package[d] = "declared"
  /\ package' = [package EXCEPT ![p] = "running"]
  /\ UNCHANGED <<target, outcome>>

EndScript(p, value) ==
  /\ Quiescent /\ package[p] = "running"
  /\ \A d \in Requires[p] : package[d] = "declared"
  /\ package' = [package EXCEPT ![p] = value]
  /\ UNCHANGED <<target, outcome>>

Start(t) ==
  /\ Quiescent /\ target[t] = "none"
  /\ package[PkgOf[t]] = "declared"
  /\ \A d \in DependsOn[t] : target[d] = "ok"
  /\ target' = [target EXCEPT ![t] = "running"]
  /\ UNCHANGED <<package, outcome>>

Finish(t, value) ==
  /\ outcome = "none" /\ target[t] = "running"
  /\ target' = [target EXCEPT ![t] = value]
  /\ UNCHANGED <<package, outcome>>

(* Every script has come to an end then, and success is claimed only of a  *)
(* build that is complete.                                                 *)
End(value) ==
  /\ Quiescent /\ \A p \in Packages : package[p] # "running"
  /\ value = "ok" => /\ \A p \in Packages : package[p] = "declared"
                     /\ \A t \in Wanted : target[t] = "ok"
  /\ outcome' = value
  /\ UNCHANGED <<package, target>>

Next ==
  \/ \E p \in Packages : BeginScript(p) \/ EndScript(p, "declared") \/ EndScript(p, "failed")
  \/ \E t \in Wanted : Start(t)
  \/ \E t \in Wanted : Finish(t, "ok") \/ Finish(t, "err")
  \/ End("ok") \/ End("err")

Spec == Init /\ [][Next]_contract

=============================================================================
