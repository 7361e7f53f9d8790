--------------------------- MODULE DependencyOrder ---------------------------
(* The order internal/toposort gives to what is built: as a function of the *)
(* graph and the order of the names, for the modules that use the order.    *)
(* Module TopoSort is the algorithm, and has the function as its result.    *)
EXTENDS Naturals, Sequences, FiniteSets

(* Of a set, those that depend on none of the rest; and the least of them.  *)
Ready(rest, D) == {x \in rest : D[x] \cap rest = {}}
Least(S, rank) == CHOOSE x \in S : \A y \in S : rank[x] <= rank[y]

(* Always the least one that depends on none of the rest.  Shorter than the *)
(* set when there is a cycle.                                               *)
TopologicalOrder(S, D, rank) ==
  LET order[rest \in SUBSET S] ==
        LET ready == Ready(rest, D)
        IN IF ready = {} THEN <<>>
           ELSE <<Least(ready, rank)>> \o order[rest \ {Least(ready, rank)}]
  IN order[S]
=============================================================================
