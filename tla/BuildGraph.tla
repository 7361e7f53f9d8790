----------------------------- MODULE BuildGraph -----------------------------
(***************************************************************************)
(* The graphs of packages and targets (pkg/build/graph.go, subgraph.go)    *)
(* and the order they are built in, as functions.                          *)
(***************************************************************************)
EXTENDS DependencyOrder

CONSTANTS
  Packages,
  Targets,
  PkgOf,          \* [Targets -> Packages]
  PkgDeps,        \* [Packages -> SUBSET Packages]: PkgBuildMeta.Deps
  Explicit,       \* [Targets -> SUBSET Targets]: Target.Deps, resolved
  UsesRequires,   \* the targets that depend on all their package requires
  Rank            \* [Packages \cup Targets -> Nat]: the order of the names

ASSUME GraphAssumption ==
  /\ IsFiniteSet(Packages) /\ IsFiniteSet(Targets)
  /\ PkgOf \in [Targets -> Packages]
  /\ PkgDeps \in [Packages -> SUBSET Packages]
  /\ Explicit \in [Targets -> SUBSET Targets]
  /\ UsesRequires \subseteq Targets
  /\ Rank \in [Packages \cup Targets -> Nat]
  /\ \A x, y \in Packages \cup Targets : Rank[x] = Rank[y] => x = y

(* All that S leads to along the edges of E: the least set with S that no  *)
(* edge leaves.                                                            *)
EdgesStayIn(R, E) == \A x \in R \cap DOMAIN E : E[x] \subseteq R
Reachable(S, E) ==
  LET all == S \cup DOMAIN E \cup UNION {E[x] : x \in DOMAIN E}
  IN {y \in all : \A R \in SUBSET all : S \subseteq R /\ EdgesStayIn(R, E) => y \in R}

TargetsOf(P) == {t \in Targets : PkgOf[t] \in P}

(* "package:*" of each required package, with what it requires in turn     *)
Required(t) == TargetsOf(Reachable(PkgDeps[PkgOf[t]], PkgDeps))

(* BuildNode.Deps *)
NodeDeps(t) == Explicit[t] \cup IF t \in UsesRequires THEN Required(t) ELSE {}

(* CollectSubGraphPackages: packages root needs by its requirements, and   *)
(* by the targets of the packages declared so far.                         *)
SubGraphPackages(root, declared) ==
  Reachable({root},
    [p \in Packages |->
       PkgDeps[p] \cup IF p \in declared
                       THEN {PkgOf[d] : d \in UNION {Explicit[t] : t \in TargetsOf({p})}}
                       ELSE {}])

(* The order of the targets of the packages P: BuildGraph.order *)
TargetOrder ==
  [P \in SUBSET Packages |->
     TopologicalOrder(TargetsOf(P), [t \in TargetsOf(P) |-> NodeDeps(t)], Rank)]

=============================================================================
