--------------------------- MODULE MCDependencyLock ---------------------------
(* Instances of DependencyLock for TLC: a native and a registry package. *)
EXTENDS DependencyLock, TLC

CONSTANTS p1, p2, n, g, c1, c2, h1, h2

(* At h1 the registry declares version 1 of g only. *)
MCDeclares == (h1 :> (g :> {1})) @@ (h2 :> (g :> {1, 2}))
MCFirstTags == [p \in {n, g} |-> <<c1, NoCommit>>]

Both == {1, 2}
Require(p, allows) == [pkg |-> p, allows |-> allows]

(* The second script requires n only, the second time just version 2.      *)
MCScripts ==
  {<<Require(g, Both), Require(n, Both)>>, <<Require(n, Both), Require(n, {2})>>}
===============================================================================
