------------------------------ MODULE TopoSort ------------------------------
(***************************************************************************)
(* toposort.TopologicalSort: Kahn's algorithm with in-degrees, which       *)
(* orders packages for the resolver and targets for the build graph.       *)
(* A dependency may be listed twice, and may name what is not a node.      *)
(***************************************************************************)
EXTENDS DependencyOrder

CONSTANTS
  Nodes,        \* what is sorted
  Unknown,      \* names that may be listed but are not nodes
  NodeRank,     \* [Nodes -> Nat]: the order of the names
  MaxListed     \* bound: how often one dependency is listed; an unknown one once

ASSUME TopoAssumption ==
  /\ IsFiniteSet(Nodes) /\ Nodes \cap Unknown = {} /\ MaxListed \in Nat
  /\ NodeRank \in [Nodes -> Nat]
  /\ \A x, y \in Nodes : NodeRank[x] = NodeRank[y] => x = y

VARIABLES
  listed,       \* [Nodes -> [Nodes \cup Unknown -> 0..MaxListed]]: getDeps
  inDegree,     \* [Nodes -> Nat]
  queue,        \* the free nodes; the code keeps them sorted
  sorted,       \* result
  sortDone

sortVars == <<listed, inDegree, queue, sorted, sortDone>>

(* One for each time a node of S is listed; other names do not count.      *)
DegreeAmong(n, S) == Cardinality({e \in S \X (1..MaxListed) : e[2] <= listed[n][e[1]]})
Degree(n) == DegreeAmong(n, Nodes)

SortInit ==
  /\ listed \in [Nodes -> {times \in [Nodes \cup Unknown -> 0..MaxListed] : \A m \in Unknown : times[m] <= 1}]
  /\ inDegree = [n \in Nodes |-> Degree(n)]
  /\ queue = {n \in Nodes : Degree(n) = 0}
  /\ sorted = <<>>
  /\ sortDone = FALSE

IsFirst(n) == n \in queue /\ \A m \in queue : NodeRank[n] <= NodeRank[m]

(* Mutant: one only, however often it is listed.                           *)
LoweredOnce(n) == [m \in Nodes |-> inDegree[m] - (IF listed[m][n] > 0 THEN 1 ELSE 0)]
(* One per listing. *)
Lowered(n) == [m \in Nodes |-> inDegree[m] - listed[m][n]]

TakeNode(n) ==
  /\ ~sortDone /\ IsFirst(n)
  /\ sorted' = Append(sorted, n)
  /\ inDegree' = Lowered(n)
  /\ queue' = (queue \ {n}) \cup {m \in Nodes : listed[m][n] > 0 /\ Lowered(n)[m] = 0}
  /\ UNCHANGED <<listed, sortDone>>

FinishSort ==
  /\ ~sortDone /\ queue = {}
  /\ sortDone' = TRUE
  /\ UNCHANGED <<listed, inDegree, queue, sorted>>

SortFailed == Len(sorted) # Cardinality(Nodes)
Remaining == {n \in Nodes : inDegree[n] > 0}

SortNext == (\E n \in Nodes : TakeNode(n)) \/ FinishSort
SortSpec == SortInit /\ [][SortNext]_sortVars

-----------------------------------------------------------------------------
(* Properties *)

(* The dependencies of a node, as the caller means them. *)
Deps == [n \in Nodes |-> {d \in Nodes : listed[n][d] > 0}]

(* Whatever is listed, no node comes twice, and each comes after all nodes *)
(* it depends on (TopologicalSort).                                        *)
OrderRespectsDeps ==
  /\ \A i, j \in DOMAIN sorted : sorted[i] = sorted[j] => i = j
  /\ \A i \in DOMAIN sorted : Deps[sorted[i]] \subseteq {sorted[j] : j \in 1..(i - 1)}

Cyclic(S) == S # {} /\ \A n \in S : Deps[n] \cap S # {}

(* The sort fails exactly when there is a cycle, duplicates and unknown    *)
(* names notwithstanding, and each name it reports depends on another      *)
(* ("circular dependency detected involving").                             *)
FailsOnCyclesOnly ==
  sortDone =>
    /\ SortFailed <=> \E S \in SUBSET Nodes : Cyclic(S)
    /\ SortFailed => Cyclic(Remaining)

(* The order is a function of the graph and the names, whatever the order  *)
(* in which the map of the nodes is walked.                                *)
OrderIsDetermined == sortDone => sorted = TopologicalOrder(Nodes, Deps, NodeRank)

(* The three, of every caller of TopologicalSort (UpdateOrder,             *)
(* NewBuildGraph).                                                         *)
SortIsRight == OrderRespectsDeps /\ FailsOnCyclesOnly /\ OrderIsDetermined
=============================================================================
