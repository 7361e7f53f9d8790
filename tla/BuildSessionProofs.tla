------------------------- MODULE BuildSessionProofs -------------------------
(***************************************************************************)
(* Proofs about BuildSession, for any packages, targets and dependencies,  *)
(* whatever subgraphs the scripts ask for.                                 *)
(*                                                                         *)
(* What a call relies on is said frame by frame of the call stack          *)
(* (FrameInv), with what the frame on top knows of the call that has just  *)
(* returned to it (TopInv).  What a build has finished stays as it is      *)
(* (Grows), so the frames below keep what they rely on.                    *)
(*                                                                         *)
(* At the end: the sort of the packages (TopoSort) and the choice of their *)
(* versions (VersionChoice), for any graph, versions and constraints.      *)
(***************************************************************************)
EXTENDS BuildSession, TopoSort, VersionChoice, FiniteSetTheorems, SequenceTheorems, WellFoundedInduction, TLAPS

-----------------------------------------------------------------------------
(* The operators of BuildGraph, for any packages and targets.              *)

(* Reachable is the least set with S that no edge leaves.                  *)
LEMMA ReachableCloses ==
  ASSUME NEW S, NEW E
  PROVE  S \subseteq Reachable(S, E) /\ EdgesStayIn(Reachable(S, E), E)
BY DEF Reachable, EdgesStayIn

LEMMA ReachableLeast ==
  ASSUME NEW S, NEW E, NEW R, S \subseteq R, EdgesStayIn(R, E)
  PROVE  Reachable(S, E) \subseteq R
<1> DEFINE all == S \cup DOMAIN E \cup UNION {E[x] : x \in DOMAIN E}
           inner == R \cap all
<1>1. inner \in SUBSET all /\ S \subseteq inner
  OBVIOUS
<1>2. EdgesStayIn(inner, E)
  BY DEF EdgesStayIn
<1>3. QED
  BY <1>1, <1>2 DEF Reachable

LEMMA ReachableWithin ==
  ASSUME NEW U, NEW S, S \subseteq U, NEW E, DOMAIN E \subseteq U,
         \A x \in DOMAIN E : E[x] \subseteq U
  PROVE  Reachable(S, E) \subseteq U
BY ReachableLeast DEF EdgesStayIn

LEMMA ReachableGoesOn ==
  ASSUME NEW E, NEW x \in DOMAIN E, NEW y \in E[x]
  PROVE  Reachable({y}, E) \subseteq Reachable({x}, E)
BY ReachableCloses, ReachableLeast DEF EdgesStayIn

-----------------------------------------------------------------------------
(* The recursion of TopologicalOrder.  The prover cannot instantiate the   *)
(* library's induction theorems, which take operators; what it needs of    *)
(* them is that a set of numbers has a least one.                          *)
LEMMA LeastNumber ==
  ASSUME NEW B, B \subseteq Nat, B # {}
  PROVE  \E n \in B : \A m \in B : n <= m
<1> DEFINE Less == OpToRel(<, Nat)
<1>1. IsWellFoundedOn(Less, Nat)
  BY NatLessThanWellFounded
<1>2. \A x, y \in Nat : y < x => <<y, x>> \in Less
  BY DEF OpToRel
<1> HIDE DEF Less
<1>3. PICK n \in B : \A m \in B : <<m, n>> \notin Less
  BY <1>1, WFMin
<1>4. \A m \in B : ~(m < n)
  BY <1>2, <1>3, Zenon
<1>5. QED
  BY <1>4

(* The step of the recursion, and what it makes a sequence of.             *)
OrderStep(f, rest, D, rank) ==
  LET ready == Ready(rest, D)
  IN IF ready = {} THEN <<>>
     ELSE <<Least(ready, rank)>> \o f[rest \ {Least(ready, rank)}]
OrdersSubsets(f, S, D, rank) == f = [rest \in SUBSET S |-> OrderStep(f, rest, D, rank)]
Ranked(S, rank) == \A x \in S : rank[x] \in Nat

(* Members of S, each once and after those of S that it depends on.        *)
DepsFirst(s, S, D) ==
  /\ s \in Seq(S)
  /\ \A i, j \in DOMAIN s : s[i] = s[j] => i = j
  /\ \A i \in DOMAIN s : \A d \in D[s[i]] \cap S : \E j \in 1..(i - 1) : s[j] = d

LEMMA LeastIsThere ==
  ASSUME NEW S, NEW rank, Ranked(S, rank), S # {}
  PROVE  Least(S, rank) \in S /\ \A y \in S : rank[Least(S, rank)] <= rank[y]
<1> DEFINE ranks == {rank[x] : x \in S}
<1>1. ranks \subseteq Nat /\ ranks # {}
  BY DEF Ranked
<1>2. PICK n \in ranks : \A m \in ranks : n <= m
  BY <1>1, LeastNumber
<1>3. \E x \in S : \A y \in S : rank[x] <= rank[y]
  BY <1>2
<1>4. QED
  BY <1>3 DEF Least

LEMMA ReadyIsThere ==
  ASSUME NEW S, NEW rank, Ranked(S, rank), NEW D,
         Ready(S, D) # {}
  PROVE  Least(Ready(S, D), rank) \in S /\ D[Least(Ready(S, D), rank)] \cap S = {}
<1>1. Ranked(Ready(S, D), rank)
  BY DEF Ready, Ranked
<1>2. Least(Ready(S, D), rank) \in Ready(S, D)
  BY <1>1, LeastIsThere
<1>3. QED
  BY <1>2 DEF Ready

(* There is a function with this recursion: on the sets of at most n       *)
(* members, for every n.                                                   *)
LEMMA OrderExists ==
  ASSUME NEW S, NEW rank, Ranked(S, rank), IsFiniteSet(S), NEW D
  PROVE  \E f : OrdersSubsets(f, S, D, rank)
<1> DEFINE Small(n) == {R \in SUBSET S : Cardinality(R) <= n}
           Solves(f, n) == f = [R \in Small(n) |-> OrderStep(f, R, D, rank)]
           bad == {n \in Nat : ~ \E f : Solves(f, n)}
<1> HIDE DEF Small, Solves
<1>1. \A R \in SUBSET S : IsFiniteSet(R) /\ Cardinality(R) \in Nat
  BY FS_Subset, FS_CardinalityType
<1>2. \A R \in SUBSET S : Ready(R, D) # {} =>
        /\ R \ {Least(Ready(R, D), rank)} \in SUBSET S
        /\ Cardinality(R) > 0
        /\ Cardinality(R \ {Least(Ready(R, D), rank)}) = Cardinality(R) - 1
  <2>1. TAKE R \in SUBSET S
  <2>2. HAVE Ready(R, D) # {}
  <2>3. Least(Ready(R, D), rank) \in R
    BY <2>2, ReadyIsThere DEF Ranked
  <2>4. Cardinality(R \ {Least(Ready(R, D), rank)}) = Cardinality(R) - 1
    BY <1>1, <2>3, FS_RemoveElement
  <2>5. QED
    BY <1>1, <2>4
<1>3. \E f : Solves(f, 0)
  <2>1. ASSUME NEW R \in Small(0), Ready(R, D) # {} PROVE FALSE
    <3>1. R \in SUBSET S /\ Cardinality(R) <= 0
      BY DEF Small
    <3>2. Cardinality(R) > 0 /\ Cardinality(R) \in Nat
      BY <1>1, <1>2, <2>1, <3>1
    <3>3. QED
      BY <3>1, <3>2
  <2>2. Solves([R \in Small(0) |-> <<>>], 0)
    BY <2>1 DEF OrderStep, Solves
  <2>3. QED
    BY <2>2
<1>4. ASSUME NEW n \in Nat, \E f : Solves(f, n)
      PROVE  \E f : Solves(f, n + 1)
  <2>1. PICK f : Solves(f, n)
    BY <1>4
  <2> DEFINE g == [R \in Small(n + 1) |-> OrderStep(f, R, D, rank)]
  <2>2. \A R \in Small(n) : R \in Small(n + 1) /\ g[R] = f[R]
    BY <1>1, <2>1 DEF Small, Solves
  <2>3. ASSUME NEW R \in Small(n + 1) PROVE OrderStep(g, R, D, rank) = OrderStep(f, R, D, rank)
    <3>1. CASE Ready(R, D) = {}
      BY <3>1 DEF OrderStep
    <3>2. CASE Ready(R, D) # {}
      <4>1. R \ {Least(Ready(R, D), rank)} \in Small(n)
        BY <1>1, <1>2, <3>2 DEF Small
      <4>2. g[R \ {Least(Ready(R, D), rank)}] = f[R \ {Least(Ready(R, D), rank)}]
        BY <2>2, <4>1
      <4> HIDE DEF g
      <4>3. QED
        BY <4>2 DEF OrderStep
    <3>3. QED
      BY <3>1, <3>2
  <2>4. Solves(g, n + 1)
    BY <2>3 DEF Solves
  <2>5. QED
    BY <2>4
<1>5. bad = {}
  <2>1. SUFFICES ASSUME bad # {} PROVE FALSE
    OBVIOUS
  <2>2. PICK n \in bad : \A m \in bad : n <= m
    <3>1. bad \subseteq Nat
      OBVIOUS
    <3> HIDE DEF bad
    <3>2. QED
      BY <2>1, <3>1, LeastNumber
  <2>3. n # 0
    BY <1>3
  <2>4. n - 1 \in Nat /\ n - 1 \notin bad /\ (n - 1) + 1 = n
    BY <2>2, <2>3
  <2>5. QED
    BY <1>4, <2>4
<1>6. PICK f : Solves(f, Cardinality(S))
  BY <1>1, <1>5
<1>7. Small(Cardinality(S)) = SUBSET S
  BY FS_Subset DEF Small
<1>8. QED
  BY <1>6, <1>7 DEF OrdersSubsets, Solves

(* One step puts a member that depends on none of the others before them.  *)
LEMMA OrderGrows ==
  ASSUME NEW R, NEW D, NEW x \in R, D[x] \cap R = {},
         NEW s, DepsFirst(s, R \ {x}, D)
  PROVE  DepsFirst(<<x>> \o s, R, D)
<1> DEFINE all == <<x>> \o s
<1>1. s \in Seq(R) /\ s \in Seq(R \ {x})
  <2>1. s \in Seq(R \ {x})
    BY DEF DepsFirst
  <2>2. QED
    BY <2>1
<1>2. /\ all \in Seq(R) /\ Len(all) = Len(s) + 1
      /\ all[1] = x
      /\ \A i \in 2..Len(all) : all[i] = s[i - 1] /\ i - 1 \in 1..Len(s) /\ all[i] # x
      /\ \A i \in 1..Len(s) : all[i + 1] = s[i]
  <2>1. all \in Seq(R) /\ Len(all) = Len(s) + 1 /\ all[1] = x
    BY <1>1
  <2>2. \A i \in 2..Len(all) : all[i] = s[i - 1] /\ i - 1 \in 1..Len(s)
    BY <1>1, <2>1
  <2>3. \A i \in 1..Len(s) : s[i] # x
    BY <1>1
  <2>4. \A i \in 1..Len(s) : all[i + 1] = s[i]
    BY <1>1, <2>1
  <2> HIDE DEF all
  <2>5. QED
    BY <2>1, <2>2, <2>3, <2>4
<1> HIDE DEF all
<1>3. DOMAIN all = 1..Len(all) /\ DOMAIN s = 1..Len(s) /\ Len(s) \in Nat
  BY <1>1, <1>2
<1>4. ASSUME NEW i \in DOMAIN all, NEW j \in DOMAIN all, all[i] = all[j] PROVE i = j
  <2>1. CASE i = 1 \/ j = 1
    BY <1>2, <1>3, <1>4, <2>1
  <2>2. CASE i # 1 /\ j # 1
    <3>1. i \in 2..Len(all) /\ j \in 2..Len(all) /\ i \in Int /\ j \in Int
      BY <1>3, <2>2
    <3>2. s[i - 1] = s[j - 1] /\ i - 1 \in DOMAIN s /\ j - 1 \in DOMAIN s
      BY <1>2, <1>3, <1>4, <3>1
    <3>3. i - 1 = j - 1
      BY <3>2 DEF DepsFirst
    <3>4. QED
      BY <3>1, <3>3
  <2>3. QED
    BY <2>1, <2>2
<1>5. ASSUME NEW i \in DOMAIN all, NEW d \in D[all[i]] \cap R
      PROVE  \E j \in 1..(i - 1) : all[j] = d
  <2>1. i # 1
    BY <1>2, <1>5
  <2>2. i \in 2..Len(all) /\ i \in Int /\ 1 \in 1..(i - 1)
    BY <1>3, <2>1
  <2>3. all[i] = s[i - 1] /\ i - 1 \in DOMAIN s
    BY <1>2, <1>3, <2>2
  <2>4. CASE d = x
    BY <1>2, <2>2, <2>4
  <2>5. CASE d # x
    <3>1. PICK j \in 1..((i - 1) - 1) : s[j] = d
      BY <1>5, <2>3, <2>5 DEF DepsFirst
    <3>2. j + 1 \in 1..(i - 1) /\ j \in 1..Len(s)
      BY <1>3, <2>2, <2>3, <3>1
    <3>3. all[j + 1] = d
      BY <1>2, <3>1, <3>2
    <3>4. QED
      BY <3>2, <3>3
  <2>6. QED
    BY <2>4, <2>5
<1>6. QED
  BY <1>2, <1>4, <1>5 DEF DepsFirst, all

LEMMA OrderIsRight ==
  ASSUME NEW S, NEW rank, Ranked(S, rank), IsFiniteSet(S), NEW D,
         NEW f, OrdersSubsets(f, S, D, rank)
  PROVE  \A R \in SUBSET S : DepsFirst(f[R], R, D)
<1> DEFINE bad == {Cardinality(R) : R \in {Q \in SUBSET S : ~DepsFirst(f[Q], Q, D)}}
<1>1. \A R \in SUBSET S : IsFiniteSet(R) /\ Cardinality(R) \in Nat
  BY FS_Subset, FS_CardinalityType
<1>2. bad \subseteq Nat
  BY <1>1
<1>3. SUFFICES ASSUME bad # {} PROVE FALSE
  OBVIOUS
<1>4. PICK n \in bad : \A m \in bad : n <= m
  <2> HIDE DEF bad
  <2> QED
    BY <1>2, <1>3, LeastNumber
<1>5. PICK R \in SUBSET S : ~DepsFirst(f[R], R, D) /\ n = Cardinality(R)
  BY <1>4
<1>6. f[R] = OrderStep(f, R, D, rank)
  BY DEF OrdersSubsets
<1>7. CASE Ready(R, D) = {}
  <2>1. f[R] = <<>>
    BY <1>6, <1>7 DEF OrderStep
  <2>2. DepsFirst(<<>>, R, D)
    BY DEF DepsFirst
  <2>3. QED
    BY <1>5, <2>1, <2>2
<1>8. CASE Ready(R, D) # {}
  <2> DEFINE x == Least(Ready(R, D), rank)
  <2>1. x \in R /\ D[x] \cap R = {}
    BY <1>8, ReadyIsThere DEF Ranked
  <2>2. f[R] = <<x>> \o f[R \ {x}]
    BY <1>6, <1>8 DEF OrderStep
  <2> HIDE DEF x
  <2>3. R \ {x} \in SUBSET S /\ Cardinality(R \ {x}) = Cardinality(R) - 1
    BY <1>1, <2>1, FS_RemoveElement
  <2>4. DepsFirst(f[R \ {x}], R \ {x}, D)
    <3>1. Cardinality(R \ {x}) \notin bad
      <4>1. ~(Cardinality(R) <= Cardinality(R) - 1)
        BY <1>1
      <4> HIDE DEF bad
      <4>2. QED
        BY <1>4, <1>5, <2>3, <4>1
    <3>2. QED
      BY <2>3, <3>1
  <2>5. DepsFirst(<<x>> \o f[R \ {x}], R, D)
    BY <2>1, <2>4, OrderGrows
  <2>6. QED
    BY <1>5, <2>2, <2>5
<1>9. QED
  BY <1>7, <1>8

(* The order toposort gives: each name once, after its dependencies, and   *)
(* if it has as many as there are, all of them.                            *)
THEOREM TopologicalOrderIsRight ==
  ASSUME NEW S, NEW rank, Ranked(S, rank), IsFiniteSet(S), NEW D
  PROVE  /\ DepsFirst(TopologicalOrder(S, D, rank), S, D)
         /\ Len(TopologicalOrder(S, D, rank)) = Cardinality(S) =>
              \A x \in S : \E i \in DOMAIN TopologicalOrder(S, D, rank) : TopologicalOrder(S, D, rank)[i] = x
<1> DEFINE f == CHOOSE g : OrdersSubsets(g, S, D, rank)
           s == TopologicalOrder(S, D, rank)
<1>1. OrdersSubsets(f, S, D, rank)
  BY OrderExists
<1>2. s = f[S]
  BY DEF TopologicalOrder, OrdersSubsets, OrderStep
<1> HIDE DEF f, s
<1>3. DepsFirst(s, S, D)
  BY <1>1, <1>2, OrderIsRight
<1>4. ASSUME Len(s) = Cardinality(S) PROVE \A x \in S : \E i \in DOMAIN s : s[i] = x
  <2>1. s \in Seq(S) /\ DOMAIN s = 1..Len(s) /\ Len(s) \in Nat
    BY <1>3 DEF DepsFirst
  <2> DEFINE g == [i \in 1..Len(s) |-> s[i]]
  <2>2. g \in Injection(1..Len(s), S)
    BY <1>3, <2>1 DEF Injection, IsInjective, DepsFirst
  <2>3. Cardinality(1..Len(s)) = Cardinality(S)
    BY <1>4, <2>1, FS_Interval
  <2> HIDE DEF g
  <2>4. g \in Surjection(1..Len(s), S)
    BY <2>2, <2>3, FS_Injection
  <2>5. QED
    BY <2>1, <2>4 DEF Surjection, g
<1>5. QED
  BY <1>3, <1>4 DEF s

-----------------------------------------------------------------------------
(* The graphs of a build. *)
LEMMA NodeDepsType ==
  ASSUME GraphAssumption, NEW t \in Targets
  PROVE  NodeDeps(t) \in SUBSET Targets
BY DEF GraphAssumption, NodeDeps, Required, TargetsOf

LEMMA RankedAll == GraphAssumption => Ranked(Packages \cup Targets, Rank)
BY DEF GraphAssumption, Ranked

LEMMA TargetOrderIsRight ==
  ASSUME GraphAssumption, NEW P \in SUBSET Packages
  PROVE  /\ TargetOrder[P] \in Seq(Targets) /\ TargetOrder[P] \in Seq(TargetsOf(P))
         /\ \A i \in 1..Len(TargetOrder[P]) : \A d \in NodeDeps(TargetOrder[P][i]) \cap TargetsOf(P) :
              \E j \in 1..(i - 1) : TargetOrder[P][j] = d
         /\ Len(TargetOrder[P]) = Cardinality(TargetsOf(P)) =>
              \A t \in TargetsOf(P) : \E i \in 1..Len(TargetOrder[P]) : TargetOrder[P][i] = t
<1> DEFINE S == TargetsOf(P)
           D == [t \in S |-> NodeDeps(t)]
           s == TopologicalOrder(S, D, Rank)
<1>1. S \in SUBSET (Packages \cup Targets) /\ S \in SUBSET Targets /\ IsFiniteSet(S)
  <2>1. S \in SUBSET Targets /\ S \in SUBSET (Packages \cup Targets)
    BY DEF TargetsOf
  <2> HIDE DEF S
  <2>2. QED
    BY <2>1, FS_Subset DEF GraphAssumption
<1>2. TargetOrder[P] = s
  BY DEF TargetOrder
<1>3. \A t \in S : D[t] = NodeDeps(t)
  OBVIOUS
<1> HIDE DEF S, D
<1>4. /\ DepsFirst(s, S, D)
      /\ Len(s) = Cardinality(S) => \A t \in S : \E i \in DOMAIN s : s[i] = t
  BY <1>1, RankedAll, TopologicalOrderIsRight DEF Ranked
<1> HIDE DEF s
<1>5. s \in Seq(S) /\ s \in Seq(Targets) /\ DOMAIN s = 1..Len(s)
  <2>1. s \in Seq(S)
    BY <1>4 DEF DepsFirst
  <2>2. QED
    BY <1>1, <2>1
<1>6. \A i \in 1..Len(s) : \A d \in NodeDeps(s[i]) \cap S : \E j \in 1..(i - 1) : s[j] = d
  <2>1. TAKE i \in 1..Len(s)
  <2>2. i \in DOMAIN s /\ s[i] \in S
    BY <1>5
  <2>3. D[s[i]] = NodeDeps(s[i])
    BY <1>3, <2>2
  <2>4. QED
    BY <1>4, <2>2, <2>3 DEF DepsFirst
<1>7. Len(s) = Cardinality(S) => \A t \in S : \E i \in 1..Len(s) : s[i] = t
  BY <1>4, <1>5
<1>8. S = TargetsOf(P)
  BY DEF S
<1>9. QED
  BY <1>2, <1>5, <1>6, <1>7, <1>8

LEMMA SubGraphIsClosed ==
  ASSUME GraphAssumption, NEW root \in Packages, NEW declared
  PROVE  /\ SubGraphPackages(root, declared) \in SUBSET Packages
         /\ root \in SubGraphPackages(root, declared)
         /\ \A p \in SubGraphPackages(root, declared) :
              PkgDeps[p] \subseteq SubGraphPackages(root, declared)
<1> DEFINE E == [p \in Packages |->
                   PkgDeps[p] \cup IF p \in declared
                                   THEN {PkgOf[d] : d \in UNION {Explicit[t] : t \in TargetsOf({p})}}
                                   ELSE {}]
<1>1. SubGraphPackages(root, declared) = Reachable({root}, E)
  BY DEF SubGraphPackages
<1>2. DOMAIN E = Packages /\ \A p \in Packages : E[p] \subseteq Packages /\ PkgDeps[p] \subseteq E[p]
  BY DEF GraphAssumption, TargetsOf
<1> HIDE DEF E
<1>3. Reachable({root}, E) \subseteq Packages
  BY <1>2, ReachableWithin
<1>4. \A p \in Reachable({root}, E) : p \in DOMAIN E /\ E[p] \subseteq Reachable({root}, E)
  BY <1>2, <1>3, ReachableCloses DEF EdgesStayIn
<1>5. root \in Reachable({root}, E)
  BY ReachableCloses
<1>6. QED
  BY <1>1, <1>2, <1>3, <1>4, <1>5

(* Once all its packages are declared, a subgraph stays what it is.        *)
LEMMA SubGraphStays ==
  ASSUME GraphAssumption, NEW root \in Packages,
         NEW declared, NEW more, declared \subseteq more,
         SubGraphPackages(root, declared) \subseteq declared
  PROVE  SubGraphPackages(root, more) = SubGraphPackages(root, declared)
<1> DEFINE Edges(D) ==
             [p \in Packages |->
                PkgDeps[p] \cup IF p \in D
                                THEN {PkgOf[d] : d \in UNION {Explicit[t] : t \in TargetsOf({p})}}
                                ELSE {}]
           E == Edges(declared)
           F == Edges(more)
<1>1. /\ SubGraphPackages(root, declared) = Reachable({root}, E)
      /\ SubGraphPackages(root, more) = Reachable({root}, F)
  BY DEF SubGraphPackages
<1>2. /\ DOMAIN E = Packages /\ DOMAIN F = Packages
      /\ \A p \in Packages : E[p] \subseteq F[p]
      /\ \A p \in Packages \cap declared : E[p] = F[p]
  OBVIOUS
<1> HIDE DEF E, F
<1>3. Reachable({root}, E) \subseteq Reachable({root}, F)
  <2>1. EdgesStayIn(Reachable({root}, F), E) /\ {root} \subseteq Reachable({root}, F)
    BY <1>2, ReachableCloses DEF EdgesStayIn
  <2>2. QED
    BY <2>1, ReachableLeast
<1>4. Reachable({root}, F) \subseteq Reachable({root}, E)
  <2>1. EdgesStayIn(Reachable({root}, E), F) /\ {root} \subseteq Reachable({root}, E)
    BY <1>1, <1>2, ReachableCloses DEF EdgesStayIn
  <2>2. QED
    BY <2>1, ReachableLeast
<1>5. Reachable({root}, E) = Reachable({root}, F)
  BY <1>3, <1>4
<1>6. QED
  BY <1>1, <1>5, Zenon

-----------------------------------------------------------------------------
(* The session.                                                            *)

(* g may be called by f. *)
OnTop(g, f) ==
  \/ g.at = "loop" /\ f.at = "plan" /\ g.filter = Packages
  \/ g.at = "loop" /\ f.at = "sub" /\ g.filter = f.pkgs /\ f.pkgs # {}
  \/ /\ g.at = "script" /\ f.at = "loop" /\ f.next <= Len(PackageOrder)
     /\ g.pkg = PackageOrder[f.next] /\ g.pkg \in f.filter
  \/ g.at = "sub" /\ f.at = "script"
  \/ g.at = "build" /\ f.at = "sub" /\ f.pkgs = {}
  \/ /\ g.at = "target" /\ f.at = "build" /\ f.next <= Len(f.order)
     /\ g.target = f.order[f.next]

StackInv ==
  /\ stack # <<>> => stack[1].at \in {"plan", "build"}
  /\ \A i \in 2..Len(stack) : OnTop(stack[i], stack[i - 1])

(* A package that a loop called by f is done with. *)
ScopeOf(f) == IF f.at = "sub" THEN requests[f.root] ELSE MainScope
Bound(p, f) == f.at = "sub" => bindings[p] = ValueIn(p, requests[f.root])
Settled(p, f) == decl[p] = "declared" /\ Bound(p, f)

LoopInv(g, f) ==
  /\ g.next \in 1..(Len(PackageOrder) + 1)
  /\ \A p \in g.filter : PkgDeps[p] \subseteq g.filter
  /\ \A k \in 1..(g.next - 1) : PackageOrder[k] \in g.filter => Settled(PackageOrder[k], f)

(* The targets that a build of the packages P is done with. *)
Fails(t) == \E d \in Reachable({t}, [x \in Targets |-> NodeDeps(x) \ NonDefault]) : memo[d] = "err"
BuildInv(g, P) ==
  /\ P \subseteq Declared /\ GraphIsSound(P) /\ g.order = TargetOrder[P]
  /\ g.next \in 1..(Len(g.order) + 1)
  /\ \A k \in 1..(g.next - 1) :
       g.order[k] \in NonDefault \cup g.failed \/ memo[g.order[k]] = "ok"
  /\ \A t \in g.failed : t \notin NonDefault /\ Fails(t)
  /\ g.failed # {} => g.errs

TargetInv(g) ==
  /\ active = g.target /\ memo[g.target] = "running" /\ g.target \notin NonDefault
  /\ \A d \in NodeDeps(g.target) \ NonDefault : memo[d] = "ok"

SubInv(g) == g.root \in built /\ subErr[g.root] = "none" /\ requests[g.root] \in Toolchains
SubGraphOf(f) == SubGraphPackages(f.root, Declared)

FrameInv(i) ==
  LET g == stack[i] IN
  /\ g.at = "loop" => LoopInv(g, stack[i - 1])
  /\ g.at = "script" => decl[g.pkg] = "running" /\ Bound(g.pkg, stack[i - 2])
  /\ g.at = "sub" => SubInv(g) /\ g.prev = ScopeOf(stack[i - 3])
  /\ g.at = "build" =>
       IF i = 1 THEN BuildInv(g, Packages)
       ELSE /\ BuildInv(g, SubGraphOf(stack[i - 1]))
            /\ \A p \in SubGraphOf(stack[i - 1]) : Bound(p, stack[i - 1])
  /\ g.at = "target" => TargetInv(g)

(* The subgraph of root is declared, built, and bound as it asked.         *)
Whole(root) ==
  LET pkgs == SubGraphPackages(root, Declared) IN
    /\ pkgs \subseteq Declared
    /\ \A t \in TargetsOf(pkgs) \ NonDefault : memo[t] = "ok"
    /\ \A p \in pkgs : bindings[p] = ValueIn(p, requests[root])

(* What the frame g at the place i knows when it is on top.                *)
TopInv(i) ==
  LET g == stack[i] IN
  /\ g.at = "plan" =>
       /\ ret # "none"
       /\ ret = "ok" => Declared = Packages
       /\ ret = "err" => cancelled \/ Declared # Packages
  /\ g.at = "loop" =>
       /\ scope = ScopeOf(stack[i - 1])
       /\ ret # "none" =>
            /\ g.next <= Len(PackageOrder) /\ PackageOrder[g.next] \in g.filter
            /\ ret = "ok" => Settled(PackageOrder[g.next], stack[i - 1])
            /\ ret = "err" => decl[PackageOrder[g.next]] = "failed"
  /\ g.at = "script" => scope = ScopeOf(stack[i - 2])
  /\ g.at = "sub" =>
       /\ ret # "none"
       /\ g.pkgs # {} => scope = ScopeOf(g)
       /\ ret = "ok" /\ g.pkgs # {} => \A p \in g.pkgs : Settled(p, g)
       /\ ret = "ok" /\ g.pkgs = {} => Whole(g.root)
  /\ g.at = "build" /\ ret # "none" =>
       g.next <= Len(g.order) /\ memo[g.order[g.next]] = ret /\ g.order[g.next] \notin NonDefault
  /\ active # NoTarget => g.at = "target"

(* One call for each root and package. *)
Distinct ==
  \A i, j \in 1..Len(stack) :
    \/ stack[i].at = "sub" /\ stack[j].at = "sub" /\ stack[i].root = stack[j].root
    \/ stack[i].at = "script" /\ stack[j].at = "script" /\ stack[i].pkg = stack[j].pkg
    => i = j

DeclInv ==
  \A p \in Packages :
    decl[p] \in {"running", "declared"} => \A d \in PkgDeps[p] : decl[d] = "declared"

ResultInv ==
  \A t \in Targets :
    /\ runs[t] <= 1 /\ (memo[t] = "none" => runs[t] = 0)
    /\ memo[t] = "running" => active = t

EndInv ==
  /\ outcome = "none" <=> stack # <<>>
  /\ stack = <<>> => active = NoTarget
  /\ SuccessIsComplete

IInv ==
  /\ TypeOK
  /\ StackInv
  /\ \A i \in 1..Len(stack) : FrameInv(i)
  /\ stack # <<>> => TopInv(Len(stack))
  /\ Distinct
  /\ DeclInv
  /\ ResultInv
  /\ SubGraphsAreWhole
  /\ EndInv

-----------------------------------------------------------------------------
(* The call stack. *)
LEMMA ReturnEffect ==
  ASSUME NEW F, NEW s \in Seq(F), s # <<>>, NEW t, t = Front(s)
  PROVE  /\ t \in Seq(F) /\ Len(t) = Len(s) - 1 /\ Len(s) \in Nat \ {0}
         /\ \A i \in 1..(Len(s) - 1) : t[i] = s[i]
<1>1. Len(s) \in Nat \ {0}
  BY EmptySeq
<1>2. PICK n \in Nat : n = Len(s) - 1
  BY <1>1
<1>3. t = SubSeq(s, 1, n) /\ \A i \in 1..n : s[i] \in F
  BY <1>1, <1>2 DEF Front
<1>4. t \in Seq(F) /\ Len(t) = n /\ \A i \in 1..(n - 1 + 1) : t[i] = s[1 + i - 1]
  BY <1>3, SubSeqProperties
<1>5. \A i \in 1..n : t[i] = s[i]
  BY <1>4
<1>6. QED
  BY <1>1, <1>2, <1>4, <1>5

LEMMA StayEffect ==
  ASSUME NEW F, NEW s \in Seq(F), s # <<>>, NEW f \in F
  PROVE  LET t == Append(Front(s), f) IN
         /\ t \in Seq(F) /\ Len(t) = Len(s) /\ t[Len(s)] = f
         /\ \A i \in 1..(Len(s) - 1) : t[i] = s[i]
<1>1. PICK u : u = Front(s)
  OBVIOUS
<1>2. /\ u \in Seq(F) /\ Len(u) = Len(s) - 1 /\ Len(s) \in Nat \ {0}
      /\ \A i \in 1..(Len(s) - 1) : u[i] = s[i]
  BY <1>1, ReturnEffect
<1>3. PICK t : t = Append(u, f)
  OBVIOUS
<1>4. t \in Seq(F) /\ Len(t) = Len(s) /\ t[Len(s)] = f
  BY <1>2, <1>3
<1>5. \A i \in 1..(Len(s) - 1) : t[i] = s[i]
  BY <1>2, <1>3
<1>6. Append(Front(s), f) = t
  BY <1>1, <1>3
<1>7. QED
  BY <1>4, <1>5, <1>6

LEMMA PushEffect ==
  ASSUME NEW F, NEW s \in Seq(F), NEW f \in F, NEW g \in F, NEW t, t = s \o <<f, g>>
  PROVE  /\ t \in Seq(F) /\ Len(t) = Len(s) + 2
         /\ t[Len(s) + 1] = f /\ t[Len(s) + 2] = g
         /\ \A i \in 1..Len(s) : t[i] = s[i]
OBVIOUS

LEMMA CallEffect ==
  ASSUME NEW F, NEW s \in Seq(F), s # <<>>, NEW f \in F, NEW g \in F
  PROVE  LET t == Front(s) \o <<f, g>> IN
         /\ t \in Seq(F) /\ Len(t) = Len(s) + 1
         /\ t[Len(s)] = f /\ t[Len(s) + 1] = g
         /\ \A i \in 1..(Len(s) - 1) : t[i] = s[i]
<1>1. PICK u : u = Front(s)
  OBVIOUS
<1>2. /\ u \in Seq(F) /\ Len(u) = Len(s) - 1 /\ Len(s) \in Nat \ {0}
      /\ \A i \in 1..(Len(s) - 1) : u[i] = s[i]
  BY <1>1, ReturnEffect
<1>3. PICK t : t = u \o <<f, g>>
  OBVIOUS
<1>4. /\ t \in Seq(F) /\ Len(t) = Len(u) + 2
      /\ t[Len(u) + 1] = f /\ t[Len(u) + 2] = g
      /\ \A i \in 1..Len(u) : t[i] = u[i]
  <2>1. u \in Seq(F)
    BY <1>2
  <2>2. QED
    BY <1>3, <2>1, PushEffect
<1>5. Len(t) = Len(s) + 1 /\ t[Len(s)] = f /\ t[Len(s) + 1] = g
  BY <1>2, <1>4
<1>6. \A i \in 1..(Len(s) - 1) : t[i] = s[i]
  BY <1>2, <1>4
<1>7. Front(s) \o <<f, g>> = t
  BY <1>1, <1>3
<1>8. QED
  BY <1>4, <1>5, <1>6, <1>7

Kinds == {"plan", "script", "target", "loop", "sub", "build"}

LEMMA FrameType ==
  ASSUME NEW f \in Frames
  PROVE  /\ f.at \in Kinds
         /\ f.at = "script" => f.pkg \in Packages
         /\ f.at = "target" => f.target \in Targets
         /\ f.at = "loop" => f.filter \in SUBSET Packages /\ f.next \in Nat
         /\ f.at = "sub" => /\ f.root \in Packages /\ f.pkgs \in SUBSET Packages
                           /\ f.prev \in Toolchains \cup {MainScope}
         /\ f.at = "build" => /\ f.order \in Seq(Targets) /\ f.next \in Nat
                             /\ f.failed \in SUBSET Targets /\ f.errs \in BOOLEAN
BY DEF Frames, Kinds

LEMMA NextLoop ==
  ASSUME NEW f \in Frames, f.at = "loop", NEW g, g = [f EXCEPT !.next = @ + 1]
  PROVE  g \in Frames /\ g.at = "loop" /\ g.filter = f.filter /\ g.next = f.next + 1
BY DEF Frames

NextTarget(f, failed, errs) == [f EXCEPT !.next = @ + 1, !.failed = failed, !.errs = errs]

LEMMA NextBuild ==
  ASSUME NEW f \in Frames, f.at = "build", NEW failed \in SUBSET Targets, NEW errs \in BOOLEAN,
         NEW g, g = NextTarget(f, failed, errs)
  PROVE  /\ g \in Frames /\ g.at = "build" /\ g.order = f.order /\ g.next = f.next + 1
         /\ g.failed = failed /\ g.errs = errs
<1>1. f \in [at : {"build"}, order : Seq(Targets), next : Nat, failed : SUBSET Targets, errs : BOOLEAN]
  BY DEF Frames
<1>2. /\ g.at = "build" /\ g.order = f.order /\ g.next = f.next + 1
      /\ g.failed = failed /\ g.errs = errs
  BY <1>1 DEF NextTarget
<1>3. g = [at |-> "build", order |-> f.order, next |-> f.next + 1, failed |-> failed, errs |-> errs]
  BY <1>1 DEF NextTarget
<1>4. g \in Frames
  BY <1>1, <1>3 DEF Frames
<1>5. QED
  BY <1>2, <1>4

-----------------------------------------------------------------------------
(* What stays. *)
Grows ==
  /\ \A p \in Packages : decl[p] = "declared" => decl'[p] = "declared"
  /\ \A p \in Packages : decl[p] # "no" => bindings'[p] = bindings[p]
  /\ built \subseteq built'
  /\ \A t \in Targets : memo[t] \in {"ok", "err"} => memo'[t] = memo[t]
Kept(f) ==
  /\ f.at # "target"
  /\ f.at = "script" => decl'[f.pkg] = "running"
  /\ f.at = "sub" => requests'[f.root] = requests[f.root] /\ subErr'[f.root] = "none"

LEMMA LoopStays ==
  ASSUME IInv, Grows, NEW g \in Frames, g.at = "loop", NEW f \in Frames, Kept(f), LoopInv(g, f),
         PackageOrder \in Seq(Packages)
  PROVE  LoopInv(g, f)'
<1>1. \A k \in 1..(g.next - 1) : k \in 1..Len(PackageOrder) /\ PackageOrder[k] \in Packages
  BY DEF LoopInv
<1>2. ASSUME NEW p \in Packages, Settled(p, f) PROVE Settled(p, f)'
  BY <1>2 DEF Settled, Bound, Grows, Kept, ValueIn
<1>3. QED
  BY <1>1, <1>2 DEF LoopInv

LEMMA BuildStays ==
  ASSUME GraphAssumption, Grows, NEW g \in Frames, g.at = "build", NEW P \in SUBSET Packages,
         BuildInv(g, P)
  PROVE  BuildInv(g, P)'
<1>1. P \subseteq Declared'
  BY DEF BuildInv, Declared, Grows
<1>2. g.order \in Seq(Targets) /\ g.failed \in SUBSET Targets
  BY FrameType
<1>3. \A t \in g.failed : Fails(t)'
  <2>1. TAKE t \in g.failed
  <2> DEFINE E == [x \in Targets |-> NodeDeps(x) \ NonDefault]
  <2>2. Reachable({t}, E) \subseteq Targets
    <3>1. /\ DOMAIN E = Targets /\ \A x \in DOMAIN E : E[x] \subseteq Targets
          /\ {t} \subseteq Targets
      BY <1>2, NodeDepsType
    <3> HIDE DEF E
    <3>2. QED
      BY <1>2, <3>1, ReachableWithin
  <2>3. PICK d \in Reachable({t}, E) : memo[d] = "err"
    BY DEF BuildInv, Fails
  <2>4. memo'[d] = "err"
    BY <2>2, <2>3 DEF Grows
  <2>5. QED
    BY <2>4 DEF Fails
<1>4. \A k \in 1..(g.next - 1) :
        g.order[k] \in NonDefault \cup g.failed \/ memo'[g.order[k]] = "ok"
  <2>1. \A k \in 1..(g.next - 1) : k \in 1..Len(g.order) /\ g.order[k] \in Targets
    BY <1>2 DEF BuildInv
  <2>2. QED
    BY <2>1 DEF BuildInv, Grows
<1>5. QED
  BY <1>1, <1>3, <1>4 DEF BuildInv, GraphIsSound

LEMMA PackageOrderIsRight ==
  ASSUME GraphAssumption, SessionAssumption
  PROVE  /\ PackageOrder \in Seq(Packages)
         /\ \A i \in 1..Len(PackageOrder) : \A d \in PkgDeps[PackageOrder[i]] :
              \E j \in 1..(i - 1) : PackageOrder[j] = d
         /\ \A p \in Packages : \E i \in 1..Len(PackageOrder) : PackageOrder[i] = p
<1>1. /\ IsFiniteSet(Packages) /\ Packages \in SUBSET (Packages \cup Targets)
      /\ Len(TopologicalOrder(Packages, PkgDeps, Rank)) = Cardinality(Packages)
  BY DEF GraphAssumption, SessionAssumption, PackageOrder
<1>2. /\ DepsFirst(PackageOrder, Packages, PkgDeps)
      /\ \A p \in Packages : \E i \in DOMAIN PackageOrder : PackageOrder[i] = p
  <2>1. /\ DepsFirst(TopologicalOrder(Packages, PkgDeps, Rank), Packages, PkgDeps)
        /\ \A p \in Packages : \E i \in DOMAIN TopologicalOrder(Packages, PkgDeps, Rank) :
             TopologicalOrder(Packages, PkgDeps, Rank)[i] = p
    <3>1. Ranked(Packages, Rank)
      BY RankedAll DEF Ranked
    <3>2. IsFiniteSet(Packages) BY <1>1
    <3> DEFINE s == TopologicalOrder(Packages, PkgDeps, Rank)
    <3>3. /\ DepsFirst(s, Packages, PkgDeps)
          /\ Len(s) = Cardinality(Packages) => \A x \in Packages : \E i \in DOMAIN s : s[i] = x
      BY <3>1, <3>2, TopologicalOrderIsRight
    <3>4. QED
      BY <1>1, <3>3
  <2>2. QED
    BY <2>1 DEF PackageOrder
<1>3. PackageOrder \in Seq(Packages) /\ DOMAIN PackageOrder = 1..Len(PackageOrder)
  BY <1>2 DEF DepsFirst
<1>4. \A i \in 1..Len(PackageOrder) : \A d \in PkgDeps[PackageOrder[i]] :
        \E j \in 1..(i - 1) : PackageOrder[j] = d
  <2>1. TAKE i \in 1..Len(PackageOrder)
  <2>2. PackageOrder[i] \in Packages /\ i \in DOMAIN PackageOrder
    BY <1>3
  <2>3. PkgDeps[PackageOrder[i]] \subseteq Packages
    BY <2>2 DEF GraphAssumption
  <2>4. QED
    BY <1>2, <2>2, <2>3 DEF DepsFirst
<1>5. QED
  BY <1>2, <1>3, <1>4

(* What lies below a frame. *)
LEMMA Chain ==
  ASSUME TypeOK, StackInv, NEW i \in 1..Len(stack)
  PROVE  /\ i \in Nat /\ Len(stack) \in Nat /\ stack # <<>>
         /\ stack[i] \in Frames /\ stack[i].at \in Kinds
         /\ i = 1 => stack[i].at \in {"plan", "build"}
         /\ i > 1 => i - 1 \in 1..Len(stack) /\ stack[i - 1] \in Frames /\ OnTop(stack[i], stack[i - 1])
         /\ stack[i].at = "plan" => i = 1
         /\ stack[i].at = "loop" => i > 1 /\ stack[i - 1].at \in {"plan", "sub"}
         /\ stack[i].at = "script" =>
              /\ i > 2 /\ i - 2 \in 1..Len(stack) /\ stack[i - 2] \in Frames
              /\ stack[i - 1].at = "loop" /\ stack[i - 2].at \in {"plan", "sub"}
         /\ stack[i].at = "sub" =>
              /\ i > 3 /\ i - 2 \in 1..Len(stack) /\ i - 3 \in 1..Len(stack) /\ stack[i - 3] \in Frames
              /\ stack[i - 1].at = "script" /\ stack[i - 2].at = "loop"
              /\ stack[i - 3].at \in {"plan", "sub"}
         /\ stack[i].at = "build" => i = 1 \/ (i > 1 /\ stack[i - 1].at = "sub")
         /\ stack[i].at = "target" => i > 1 /\ stack[i - 1].at = "build"
         /\ i < Len(stack) => stack[i].at # "target"
<1>1. /\ i \in Nat /\ Len(stack) \in Nat /\ stack # <<>>
      /\ \A j \in 1..Len(stack) : stack[j] \in Frames /\ stack[j].at \in Kinds
  BY FrameType DEF TypeOK
<1>2. stack[1].at \in {"plan", "build"}
  BY <1>1 DEF StackInv
<1>3. \A j \in 1..Len(stack) : j > 1 =>
        j \in 2..Len(stack) /\ j - 1 \in 1..Len(stack) /\ OnTop(stack[j], stack[j - 1])
  BY <1>1 DEF StackInv
<1>4. \A j \in 1..Len(stack) :
        /\ stack[j].at = "plan" => j = 1
        /\ stack[j].at = "loop" => j > 1 /\ stack[j - 1].at \in {"plan", "sub"}
        /\ stack[j].at = "script" => j > 1 /\ stack[j - 1].at = "loop"
        /\ stack[j].at = "sub" => j > 1 /\ stack[j - 1].at = "script"
        /\ stack[j].at = "build" => j = 1 \/ (j > 1 /\ stack[j - 1].at = "sub")
        /\ stack[j].at = "target" => j > 1 /\ stack[j - 1].at = "build"
  <2>1. TAKE j \in 1..Len(stack)
  <2>2. CASE j = 1
    BY <1>2, <2>2
  <2>3. CASE j > 1
    BY <1>3, <2>3 DEF OnTop
  <2>4. QED
    BY <1>1, <2>2, <2>3
<1>5. stack[i].at = "script" => i > 2 /\ i - 2 \in 1..Len(stack) /\ stack[i - 2].at \in {"plan", "sub"}
  BY <1>1, <1>3, <1>4
<1>6. stack[i].at = "sub" =>
        /\ i > 3 /\ i - 2 \in 1..Len(stack) /\ i - 3 \in 1..Len(stack)
        /\ stack[i - 2].at = "loop" /\ stack[i - 3].at \in {"plan", "sub"}
  <2>1. SUFFICES ASSUME stack[i].at = "sub"
                 PROVE  /\ i > 3 /\ i - 2 \in 1..Len(stack) /\ i - 3 \in 1..Len(stack)
                        /\ stack[i - 2].at = "loop" /\ stack[i - 3].at \in {"plan", "sub"}
    OBVIOUS
  <2>2. i > 1 /\ stack[i - 1].at = "script" /\ i - 1 \in 1..Len(stack)
    BY <1>3, <1>4, <2>1
  <2>3. i - 1 > 1 /\ stack[(i - 1) - 1].at = "loop" /\ (i - 1) - 1 \in 1..Len(stack)
    BY <1>3, <1>4, <2>2
  <2>4. i - 2 > 1 /\ stack[i - 2].at = "loop" /\ i - 2 \in 1..Len(stack)
    BY <1>1, <1>4, <2>3
  <2>5. stack[(i - 2) - 1].at \in {"plan", "sub"} /\ (i - 2) - 1 \in 1..Len(stack)
    BY <1>3, <1>4, <2>4
  <2>6. QED
    BY <1>1, <2>4, <2>5
<1>7. i < Len(stack) => stack[i].at # "target"
  <2>1. SUFFICES ASSUME i < Len(stack) PROVE stack[i].at # "target"
    OBVIOUS
  <2>2. i + 1 \in 1..Len(stack) /\ i + 1 > 1 /\ (i + 1) - 1 = i
    BY <1>1, <2>1
  <2>3. OnTop(stack[i + 1], stack[i])
    BY <1>3, <2>2
  <2>4. QED
    BY <2>3 DEF OnTop
<1>8. QED
  BY <1>1, <1>2, <1>3, <1>4, <1>5, <1>6, <1>7

LEMMA FrameStays ==
  ASSUME GraphAssumption, SessionAssumption, IInv, Grows, NEW m \in 0..Len(stack),
         \A j \in 1..m : stack'[j] = stack[j] /\ Kept(stack[j])
  PROVE  \A i \in 1..m : FrameInv(i)'
<1>1. TAKE i \in 1..m
<1>2. i \in 1..Len(stack) /\ stack'[i] = stack[i] /\ Kept(stack[i])
  BY DEF IInv, TypeOK
<1>3. FrameInv(i)
  BY <1>2 DEF IInv
<1>4. \A j \in Int : 0 < j /\ j < i => stack'[j] = stack[j] /\ Kept(stack[j])
  BY DEF IInv, TypeOK
<1>5. CASE stack[i].at = "loop"
  <2>1. stack[i] \in Frames /\ i > 1 /\ stack[i - 1] \in Frames /\ i \in Nat
    BY <1>2, <1>5, Chain DEF IInv
  <2>2. LoopInv(stack[i], stack[i - 1])
    BY <1>3, <1>5 DEF FrameInv
  <2>3. stack'[i - 1] = stack[i - 1] /\ Kept(stack[i - 1])
    BY <1>4, <2>1
  <2>4. PICK g \in Frames, f \in Frames : g = stack[i] /\ f = stack[i - 1]
    BY <2>1
  <2>5. LoopInv(g, f)'
    BY <1>5, <2>2, <2>3, <2>4, LoopStays, PackageOrderIsRight
  <2>6. g = stack'[i] /\ f = stack'[i - 1]
    BY <1>2, <2>3, <2>4
  <2>7. QED
    BY <1>5, <2>4, <2>5, <2>6 DEF FrameInv
<1>6. CASE stack[i].at = "script"
  <2>1. /\ stack[i] \in Frames /\ i > 2 /\ i \in Nat
        /\ stack[i - 2] \in Frames
    BY <1>2, <1>6, Chain DEF IInv
  <2>2. stack'[i - 2] = stack[i - 2] /\ Kept(stack[i - 2])
    <3>1. i - 2 \in Int /\ 0 < i - 2 /\ i - 2 < i
      BY <2>1
    <3>2. QED
      BY <1>4, <3>1
  <2>3. stack[i].pkg \in Packages /\ decl[stack[i].pkg] = "running" /\ Bound(stack[i].pkg, stack[i - 2])
    BY <1>3, <1>6, <2>1, FrameType DEF FrameInv
  <2>4. decl'[stack[i].pkg] = "running"
    BY <1>2, <1>6 DEF Kept
  <2>5. bindings'[stack[i].pkg] = bindings[stack[i].pkg]
    BY <2>3 DEF Grows
  <2>6. stack[i - 2].at = "sub" => bindings'[stack[i].pkg] = ValueIn(stack[i].pkg, requests'[stack[i - 2].root])
    BY <2>2, <2>3, <2>5 DEF Bound, Kept
  <2>7. Bound(stack[i].pkg, stack[i - 2])'
    BY <1>2, <2>2, <2>6 DEF Bound, ValueIn
  <2>8. QED
    BY <1>2, <1>6, <2>4, <2>7 DEF FrameInv
<1>7. CASE stack[i].at = "sub"
  <2>1. /\ stack[i] \in Frames /\ i > 3 /\ i \in Nat
        /\ stack[i - 3] \in Frames
    BY <1>2, <1>7, Chain DEF IInv
  <2>2. stack'[i - 3] = stack[i - 3] /\ Kept(stack[i - 3])
    <3>1. i - 3 \in Int /\ 0 < i - 3 /\ i - 3 < i
      BY <2>1
    <3>2. QED
      BY <1>4, <3>1
  <2>3. QED
    BY <1>2, <1>3, <1>7, <2>2 DEF FrameInv, SubInv, ScopeOf, Grows, Kept
<1>8. CASE stack[i].at = "build"
  <2>0. stack[i] \in Frames /\ i \in Nat
    BY <1>2, Chain DEF IInv
  <2>1. CASE i = 1
    <3>1. BuildInv(stack[i], Packages)
      BY <1>3, <1>8, <2>1 DEF FrameInv
    <3>2. PICK g \in Frames : g = stack[i]
      BY <2>0
    <3>3. BuildInv(g, Packages)'
      BY <1>8, <3>1, <3>2, BuildStays
    <3>4. QED
      BY <1>2, <1>8, <2>1, <3>2, <3>3 DEF FrameInv
  <2>2. CASE i # 1
    <3>1. stack[i - 1] \in Frames /\ stack[i - 1].at = "sub" /\ i > 1
      BY <1>2, <1>8, <2>2, Chain DEF IInv
    <3>2. PICK g \in Frames, f \in Frames : g = stack[i] /\ f = stack[i - 1]
      BY <2>0, <3>1
    <3>3. stack'[i - 1] = stack[i - 1] /\ Kept(f)
      BY <1>4, <2>0, <3>1, <3>2
    <3>4. f.root \in Packages
      BY <3>1, <3>2, FrameType
    <3>5. BuildInv(g, SubGraphOf(f)) /\ \A p \in SubGraphOf(f) : Bound(p, f)
      BY <1>3, <1>8, <2>2, <3>2 DEF FrameInv
    <3>6. /\ SubGraphOf(f) \in SUBSET Packages /\ SubGraphOf(f) \subseteq Declared
          /\ Declared \subseteq Declared'
      BY <3>4, <3>5, SubGraphIsClosed DEF SubGraphOf, BuildInv, Declared, Grows
    <3>7. SubGraphOf(f)' = SubGraphOf(f)
      BY <3>4, <3>6, SubGraphStays DEF SubGraphOf
    <3>8. PICK P \in SUBSET Packages : P = SubGraphOf(f)
      BY <3>6
    <3>9. BuildInv(g, P)'
      BY <1>8, <3>2, <3>5, <3>8, BuildStays
    <3>10. \A p \in P : Bound(p, f)'
      <4>1. TAKE p \in P
      <4>2. decl[p] = "declared" /\ p \in Packages
        BY <3>6, <3>8 DEF Declared
      <4>3. QED
        BY <3>3, <3>5, <3>8, <4>2 DEF Bound, Grows, Kept, ValueIn
    <3>11. g = stack'[i] /\ f = stack'[i - 1]
      BY <1>2, <3>2, <3>3
    <3>12. QED
      BY <1>8, <2>2, <3>2, <3>7, <3>8, <3>9, <3>10, <3>11 DEF FrameInv
  <2>3. QED
    BY <2>1, <2>2
<1>9. stack[i].at \in Kinds /\ stack[i].at # "target"
  BY <1>2, Chain DEF IInv, Kept
<1>10. QED
  BY <1>2, <1>5, <1>6, <1>7, <1>8, <1>9 DEF FrameInv, Kinds

-----------------------------------------------------------------------------
(* Putting a step together: the frames up to m are as they were, and the   *)
(* ones above are shown to be right.                                       *)
RightlyPlaced(i) ==
  /\ i = 1 => stack[i].at \in {"plan", "build"}
  /\ i > 1 => OnTop(stack[i], stack[i - 1])

LEMMA Rebuild ==
  ASSUME GraphAssumption, SessionAssumption, IInv, Grows, TypeOK', NEW m \in 0..Len(stack),
         \A j \in 1..m : stack'[j] = stack[j] /\ Kept(stack[j]),
         \A i \in 1..Len(stack') : i > m => RightlyPlaced(i)' /\ FrameInv(i)',
         stack' # <<>> => TopInv(Len(stack))',
         Distinct', DeclInv', ResultInv', SubGraphsAreWhole', EndInv'
  PROVE  IInv'
<1>1. m \in Nat /\ Len(stack) \in Nat /\ Len(stack') \in Nat /\ (stack' # <<>> => 1 \in 1..Len(stack'))
  BY DEF IInv, TypeOK
<1>2. \A i \in 1..Len(stack') : RightlyPlaced(i)'
  <2>1. SUFFICES ASSUME NEW i \in 1..Len(stack'), i <= m PROVE RightlyPlaced(i)'
    BY <1>1
  <2>2. i \in 1..m /\ i \in 1..Len(stack) /\ i \in Nat
    BY <1>1, <2>1
  <2>3. RightlyPlaced(i)
    BY <2>2, Chain DEF IInv, RightlyPlaced
  <2>4. i > 1 => i - 1 \in 1..m
    BY <1>1, <2>2
  <2>5. QED
    BY <2>2, <2>3, <2>4 DEF RightlyPlaced
<1>3. StackInv'
  <2>1. \A i \in 2..Len(stack') : i \in 1..Len(stack') /\ i > 1
    BY <1>1
  <2>2. QED
    BY <1>1, <1>2, <2>1 DEF StackInv, RightlyPlaced
<1>4. \A i \in 1..Len(stack') : FrameInv(i)'
  <2>1. \A i \in 1..m : FrameInv(i)'
    BY FrameStays
  <2>2. \A i \in 1..Len(stack') : i <= m => i \in 1..m
    BY <1>1
  <2>3. QED
    BY <1>1, <2>1, <2>2
<1>5. QED
  BY <1>3, <1>4 DEF IInv

LEMMA AtTop ==
  ASSUME IInv, stack # <<>>
  PROVE  /\ Len(stack) \in Nat \ {0} /\ Len(stack) \in 1..Len(stack) /\ Top = stack[Len(stack)]
         /\ Top \in Frames /\ stack \in Seq(Frames)
         /\ FrameInv(Len(stack)) /\ TopInv(Len(stack)) /\ RightlyPlaced(Len(stack))
         /\ outcome = "none"
<1>1. stack \in Seq(Frames) /\ Len(stack) \in Nat \ {0} /\ Len(stack) \in 1..Len(stack)
  <2>1. stack \in Seq(Frames)
    BY DEF IInv, TypeOK
  <2>2. Len(stack) \in Nat \ {0}
    BY <2>1, EmptySeq
  <2>3. QED
    BY <2>1, <2>2
<1>2. Top = stack[Len(stack)]
  BY DEF Top, Last
<1>3. RightlyPlaced(Len(stack))
  BY <1>1, Chain DEF RightlyPlaced, IInv
<1>4. QED
  BY <1>1, <1>2, <1>3 DEF IInv, EndInv

LEMMA StayStack ==
  ASSUME IInv, stack # <<>>, NEW f \in Frames, Stay(f)
  PROVE  /\ stack' \in Seq(Frames) /\ Len(stack') = Len(stack) /\ stack'[Len(stack)] = f
         /\ \A i \in 1..(Len(stack) - 1) : stack'[i] = stack[i]
<1>1. stack' = Append(Front(stack), f)
  BY DEF Stay
<1>2. stack \in Seq(Frames)
  BY AtTop
<1>3. QED
  BY <1>1, <1>2, StayEffect

LEMMA ReturnStack ==
  ASSUME IInv, stack # <<>>, NEW value, Return(value)
  PROVE  /\ stack' \in Seq(Frames) /\ Len(stack') = Len(stack) - 1
         /\ \A i \in 1..(Len(stack) - 1) : stack'[i] = stack[i]
<1>1. stack' = Front(stack)
  BY DEF Return
<1>2. stack \in Seq(Frames)
  BY AtTop
<1>3. QED
  BY <1>1, <1>2, ReturnEffect

LEMMA CallStack ==
  ASSUME IInv, stack # <<>>, NEW f \in Frames, NEW g \in Frames, Call(f, g)
  PROVE  /\ stack' \in Seq(Frames) /\ Len(stack') = Len(stack) + 1
         /\ stack'[Len(stack)] = f /\ stack'[Len(stack) + 1] = g
         /\ \A i \in 1..(Len(stack) - 1) : stack'[i] = stack[i]
<1>1. stack' = Front(stack) \o <<f, g>>
  BY DEF Call
<1>2. stack \in Seq(Frames)
  BY AtTop
<1>3. QED
  BY <1>1, <1>2, CallEffect

(* A frame of another kind below, at every lower place of the stack.       *)
LEMMA LowerKept ==
  ASSUME IInv, NEW m \in 0..(Len(stack) - 1),
         \A j \in 1..m : stack[j].at = "script" => decl'[stack[j].pkg] = decl[stack[j].pkg],
         \A j \in 1..m : stack[j].at = "sub" =>
            /\ requests'[stack[j].root] = requests[stack[j].root]
            /\ subErr'[stack[j].root] = subErr[stack[j].root]
  PROVE  \A j \in 1..m : Kept(stack[j])
<1>1. TAKE j \in 1..m
<1>2. j \in 1..Len(stack) /\ j < Len(stack)
  BY DEF IInv, TypeOK
<1>3. FrameInv(j) /\ stack[j].at # "target"
  BY <1>2, Chain DEF IInv
<1>4. QED
  BY <1>3 DEF Kept, FrameInv, SubInv

(* The scopes of the constants that nothing below the top depends on.      *)
LEMMA QuietGrows ==
  ASSUME IInv, UNCHANGED <<declaration, session>>
  PROVE  /\ Grows
         /\ \A m \in 0..(Len(stack) - 1) : \A j \in 1..m : Kept(stack[j])
         /\ ResultInv' /\ SubGraphsAreWhole'
<1>1. UNCHANGED <<decl, bindings, scope, requests, built, subErr, memo, active, runs>>
  BY DEF declaration, session
<1>2. Grows
  BY <1>1 DEF Grows
<1>3. \A m \in 0..(Len(stack) - 1) : \A j \in 1..m : Kept(stack[j])
  BY <1>1, LowerKept
<1>4. ResultInv'
  BY <1>1 DEF IInv, ResultInv
<1>5. SubGraphsAreWhole'
  BY <1>1 DEF IInv, SubGraphsAreWhole, Declared, ValueIn
<1>6. QED
  BY <1>2, <1>3, <1>4, <1>5

(* The steps that only move the loops: nothing is declared or built.       *)
Quiet == UNCHANGED <<keepGoing, cancelled, declaration, session, calls>>
Plain(f) == f.at \in {"plan", "loop", "build"}

LEMMA PlainStack ==
  ASSUME IInv, stack # <<>>, Quiet, Plain(Top),
         stack' \in Seq(Frames), Len(stack') >= Len(stack) - 1,
         \A i \in 1..(Len(stack) - 1) : stack'[i] = stack[i],
         \A i \in 1..Len(stack') : i >= Len(stack) => Plain(stack'[i])
  PROVE  Distinct' /\ DeclInv'
<1>1. /\ Len(stack) \in Nat \ {0} /\ Top = stack[Len(stack)] /\ Len(stack') \in Nat
      /\ UNCHANGED decl
  BY AtTop DEF Quiet, declaration
<1>2. \A i \in 1..Len(stack') : stack'[i].at \in {"sub", "script"} =>
        i \in 1..Len(stack) /\ stack'[i] = stack[i]
  <2>1. TAKE i \in 1..Len(stack')
  <2>2. CASE i >= Len(stack)
    BY <2>2 DEF Plain
  <2>3. CASE i < Len(stack)
    BY <1>1, <2>3
  <2>4. QED
    BY <1>1, <2>2, <2>3
<1>3. Distinct'
  BY <1>2 DEF IInv, Distinct
<1>4. DeclInv'
  BY <1>1 DEF IInv, DeclInv
<1>5. QED
  BY <1>3, <1>4

LEMMA QuietStay ==
  ASSUME GraphAssumption, SessionAssumption, IInv, stack # <<>>, Quiet, UNCHANGED outcome,
         NEW f \in Frames, Stay(f), Plain(Top), Plain(f),
         stack' \in Seq(Frames) /\ Len(stack') = Len(stack) /\ stack'[Len(stack)] = f
         /\ (\A i \in 1..(Len(stack) - 1) : stack'[i] = stack[i])
           => RightlyPlaced(Len(stack))' /\ FrameInv(Len(stack))' /\ TopInv(Len(stack))'
  PROVE  IInv'
<1>1. Len(stack) \in Nat \ {0} /\ stack \in Seq(Frames) /\ Top = stack[Len(stack)] /\ outcome = "none"
  BY AtTop
<1>2. /\ stack' \in Seq(Frames) /\ Len(stack') = Len(stack) /\ stack'[Len(stack)] = f
      /\ \A i \in 1..(Len(stack) - 1) : stack'[i] = stack[i]
  BY StayStack
<1>3. RightlyPlaced(Len(stack))' /\ FrameInv(Len(stack))' /\ TopInv(Len(stack))'
  BY <1>2
<1>4. \A i \in 1..Len(stack') : i >= Len(stack) => i = Len(stack') /\ Plain(stack'[i])
  BY <1>1, <1>2
<1>5. Distinct' /\ DeclInv'
  BY <1>1, <1>2, <1>4, PlainStack
<1>6. /\ Grows /\ \A j \in 1..(Len(stack) - 1) : Kept(stack[j])
      /\ ResultInv' /\ SubGraphsAreWhole'
  BY <1>1, QuietGrows DEF Quiet
<1>7. TypeOK'
  BY <1>2 DEF IInv, TypeOK, Quiet, Stay, declaration, session
<1>8. stack' # <<>> /\ EndInv'
  BY <1>1, <1>2 DEF EndInv, SuccessIsComplete
<1>9. Len(stack) - 1 \in 0..Len(stack)
  BY <1>1
<1>10. \A i \in 1..Len(stack') : i > Len(stack) - 1 => RightlyPlaced(i)' /\ FrameInv(i)'
  BY <1>1, <1>3, <1>4
<1>11. QED
  BY <1>2, <1>3, <1>5, <1>6, <1>7, <1>8, <1>9, <1>10, Rebuild

LEMMA QuietReturn ==
  ASSUME GraphAssumption, SessionAssumption, IInv, stack # <<>>, Quiet,
         NEW value \in {"ok", "err"}, Return(value), Plain(Top),
         Len(stack) > 1 => TopInv(Len(stack))',
         Len(stack) = 1 => SuccessIsComplete'
  PROVE  IInv'
<1>1. Len(stack) \in Nat \ {0} /\ stack \in Seq(Frames) /\ Top = stack[Len(stack)] /\ outcome = "none"
      /\ TopInv(Len(stack))
  BY AtTop
<1>2. /\ stack' \in Seq(Frames) /\ Len(stack') = Len(stack) - 1
      /\ \A i \in 1..(Len(stack) - 1) : stack'[i] = stack[i]
  BY ReturnStack
<1>4. \A i \in 1..Len(stack') : ~(i > Len(stack) - 1)
  BY <1>1, <1>2
<1>5. Distinct' /\ DeclInv'
  BY <1>1, <1>2, PlainStack
<1>6. /\ Grows /\ \A j \in 1..(Len(stack) - 1) : Kept(stack[j])
      /\ ResultInv' /\ SubGraphsAreWhole'
  BY <1>1, QuietGrows DEF Quiet
<1>7. TypeOK'
  BY <1>2 DEF IInv, TypeOK, Quiet, Return, declaration, session
<1>8. EndInv'
  <2>1. active = NoTarget /\ UNCHANGED active
    BY <1>1 DEF TopInv, Plain, Quiet, session
  <2>2. CASE Len(stack) = 1
    BY <1>2, <2>1, <2>2 DEF EndInv, Return
  <2>3. CASE Len(stack) # 1
    BY <1>1, <1>2, <2>1, <2>3 DEF EndInv, Return, SuccessIsComplete
  <2>4. QED
    BY <2>2, <2>3
<1>9. Len(stack) - 1 \in 0..Len(stack)
  BY <1>1
<1>10. stack' # <<>> => Len(stack) > 1 /\ TopInv(Len(stack))'
  BY <1>1, <1>2
<1>11. QED
  BY <1>2, <1>4, <1>5, <1>6, <1>7, <1>8, <1>9, <1>10, Rebuild

-----------------------------------------------------------------------------
(* executeMainPackages *)
Below == stack[Len(stack) - 1]

LEMMA BelowLoop ==
  ASSUME IInv, stack # <<>>, Top.at = "loop"
  PROVE  /\ Len(stack) > 1 /\ Len(stack) # 1 /\ Len(stack) \in Nat
         /\ Len(stack) - 1 \in 1..Len(stack)
         /\ Len(stack) - 1 \in 1..(Len(stack) - 1)
         /\ Top = stack[Len(stack)] /\ Top \in Frames /\ Below \in Frames
         /\ Below.at \in {"plan", "sub"} /\ OnTop(Top, Below) /\ LoopInv(Top, Below)
         /\ Top.filter \in SUBSET Packages
<1>1. /\ Len(stack) \in Nat \ {0} /\ Len(stack) \in 1..Len(stack) /\ Top = stack[Len(stack)]
      /\ Top \in Frames /\ FrameInv(Len(stack))
  BY AtTop
<1>2. /\ Len(stack) > 1 /\ Len(stack) - 1 \in 1..Len(stack) /\ Below \in Frames
      /\ Below.at \in {"plan", "sub"} /\ OnTop(Top, Below)
  BY <1>1, Chain DEF IInv, Below
<1>3. LoopInv(Top, Below)
  BY <1>1 DEF FrameInv, Below
<1>4. Top.filter \in SUBSET Packages
  BY <1>1, FrameType
<1>5. Len(stack) - 1 \in 1..(Len(stack) - 1) /\ Len(stack) # 1
  BY <1>1, <1>2
<1>6. QED
  BY <1>1, <1>2, <1>3, <1>4, <1>5

LEMMA LoopOnStep ==
  ASSUME GraphAssumption, SessionAssumption, IInv, stack # <<>>, Top.at = "loop",
         Quiet, UNCHANGED outcome, LoopOn, Top.next <= Len(PackageOrder),
         LoopPackage \in Top.filter => Settled(LoopPackage, Below)
  PROVE  IInv'
<1>1. /\ Len(stack) > 1 /\ Len(stack) \in Nat /\ Len(stack) - 1 \in 1..(Len(stack) - 1)
      /\ Top = stack[Len(stack)] /\ Top \in Frames /\ Below \in Frames
      /\ OnTop(Top, Below) /\ LoopInv(Top, Below)
  BY BelowLoop
<1>2. PICK f : f = [Top EXCEPT !.next = @ + 1]
  OBVIOUS
<1>3. f \in Frames /\ f.at = "loop" /\ f.filter = Top.filter /\ f.next = Top.next + 1
  BY <1>1, <1>2, NextLoop
<1>4. Stay(f)
  BY <1>2 DEF LoopOn
<1>5. LoopInv(f, Below)
  <2>1. Len(PackageOrder) \in Nat
    BY PackageOrderIsRight
  <2>2. f.next \in 1..(Len(PackageOrder) + 1)
    BY <1>1, <1>3, <2>1 DEF LoopInv
  <2>3. ASSUME NEW k \in 1..(f.next - 1), PackageOrder[k] \in f.filter
        PROVE  Settled(PackageOrder[k], Below)
    <3>1. CASE k = Top.next
      BY <1>3, <2>3, <3>1 DEF LoopPackage
    <3>2. CASE k # Top.next
      <4>1. k \in 1..(Top.next - 1)
        BY <1>1, <1>3, <3>2 DEF LoopInv
      <4>2. QED
        BY <1>1, <1>3, <2>3, <4>1 DEF LoopInv
    <3>3. QED
      BY <3>1, <3>2
  <2>4. QED
    BY <1>1, <1>3, <2>2, <2>3 DEF LoopInv
<1>6. Grows /\ \A j \in 1..(Len(stack) - 1) : Kept(stack[j])
  BY <1>1, QuietGrows DEF Quiet
<1>7. PICK g \in Frames : g = Below
  BY <1>1
<1>8. LoopInv(f, g)'
  BY <1>1, <1>3, <1>5, <1>6, <1>7, LoopStays, PackageOrderIsRight DEF Below
<1>9. ASSUME stack' \in Seq(Frames) /\ Len(stack') = Len(stack) /\ stack'[Len(stack)] = f,
             \A i \in 1..(Len(stack) - 1) : stack'[i] = stack[i]
      PROVE  RightlyPlaced(Len(stack))' /\ FrameInv(Len(stack))' /\ TopInv(Len(stack))'
  <2>1. stack'[Len(stack) - 1] = g /\ stack'[Len(stack')] = f /\ stack'[Len(stack') - 1] = g
    BY <1>1, <1>7, <1>9 DEF Below
  <2>2. OnTop(f, g)
    BY <1>1, <1>3, <1>7 DEF OnTop
  <2>3. RightlyPlaced(Len(stack))'
    <3>1. Len(stack') # 1 /\ OnTop(stack'[Len(stack')], stack'[Len(stack') - 1])
      BY <1>1, <1>9, <2>1, <2>2
    <3>2. QED
      BY <3>1 DEF RightlyPlaced
  <2>4. FrameInv(Len(stack))'
    BY <1>3, <1>8, <2>1 DEF FrameInv
  <2>5. ret' = "none" /\ UNCHANGED <<scope, requests, active>>
    BY <1>4 DEF Stay, Quiet, declaration, session
  <2>6. scope = ScopeOf(g) /\ active = NoTarget
    BY <1>1, <1>7, AtTop DEF TopInv, Below
  <2>7. TopInv(Len(stack))'
    BY <1>3, <2>1, <2>5, <2>6 DEF TopInv, ScopeOf
  <2>8. QED
    BY <2>3, <2>4, <2>7
<1>10. QED
  BY <1>3, <1>4, <1>9, QuietStay DEF Plain

LEMMA LoopReturnStep ==
  ASSUME GraphAssumption, SessionAssumption, IInv, stack # <<>>, Top.at = "loop",
         Quiet, NEW value \in {"ok", "err"}, Return(value),
         value = "ok" => \A p \in Top.filter : Settled(p, Below),
         value = "err" /\ Below.at = "plan" => cancelled \/ Declared # Packages
  PROVE  IInv'
<1>1. /\ Len(stack) > 1 /\ Len(stack) \in Nat /\ Len(stack) - 1 \in 1..(Len(stack) - 1)
      /\ Below \in Frames /\ Below.at \in {"plan", "sub"} /\ OnTop(Top, Below) /\ Top \in Frames
  BY BelowLoop
<1>2. /\ stack' \in Seq(Frames) /\ Len(stack') = Len(stack) - 1
      /\ \A i \in 1..(Len(stack) - 1) : stack'[i] = stack[i]
  BY ReturnStack
<1>3. PICK g \in Frames : g = Below
  BY <1>1
<1>4. stack'[Len(stack')] = g
  BY <1>1, <1>2, <1>3 DEF Below
<1>5. /\ ret' = value /\ active = NoTarget
      /\ UNCHANGED <<cancelled, decl, bindings, requests, active>>
  BY AtTop DEF Return, Quiet, declaration, session, TopInv
<1>6. CASE g.at = "plan"
  <2>1. value = "ok" => Declared = Packages
    BY <1>1, <1>3, <1>6 DEF OnTop, Settled, Declared
  <2>2. TopInv(Len(stack))'
    BY <1>3, <1>4, <1>5, <1>6, <2>1 DEF TopInv, Declared
  <2>3. Len(stack) # 1
    BY BelowLoop
  <2>4. Plain(Top)
    BY DEF Plain
  <2>5. QED
    BY <2>2, <2>3, <2>4, QuietReturn
<1>7. CASE g.at = "sub"
  <2>1. g.pkgs = Top.filter /\ g.pkgs # {} /\ g.pkgs \in SUBSET Packages
    BY <1>1, <1>3, <1>7, FrameType DEF OnTop
  <2>0. scope' = ScopeOf(g)
    BY <1>3, AtTop DEF TopInv, Below, Quiet, declaration
  <2>2. TopInv(Len(stack))'
    BY <1>3, <1>4, <1>5, <1>7, <2>0, <2>1 DEF TopInv, Settled, Bound, ValueIn, ScopeOf
  <2>3. Len(stack) # 1
    BY BelowLoop
  <2>4. Plain(Top)
    BY DEF Plain
  <2>5. QED
    BY <2>2, <2>3, <2>4, QuietReturn
<1>8. QED
  BY <1>1, <1>3, <1>6, <1>7

LEMMA EndLoopStep ==
  ASSUME GraphAssumption, SessionAssumption, IInv, EndLoop
  PROVE  IInv'
<1>1. stack # <<>> /\ Top.at = "loop" /\ Quiet
  BY DEF EndLoop, Called, At, Quiet
<1>2. CASE Top.next > Len(PackageOrder) /\ Return("ok")
  <2>1. Top.filter \in SUBSET Packages /\ LoopInv(Top, Below)
    BY <1>1, BelowLoop
  <2>2. ASSUME NEW p \in Top.filter PROVE Settled(p, Below)
    <3>1. PICK i \in 1..Len(PackageOrder) : PackageOrder[i] = p
      BY <2>1, PackageOrderIsRight
    <3>2. Len(PackageOrder) \in Nat
      BY PackageOrderIsRight
    <3>3. i \in 1..(Top.next - 1)
      BY <1>2, <2>1, <3>2 DEF LoopInv
    <3>4. QED
      BY <2>1, <3>1, <3>3 DEF LoopInv
  <2>3. QED
    BY <1>1, <1>2, <2>2, LoopReturnStep
<1>3. CASE cancelled /\ Return("err")
  BY <1>1, <1>3, LoopReturnStep
<1>4. QED
  BY <1>2, <1>3 DEF EndLoop

LEMMA SkipPackageStep ==
  ASSUME GraphAssumption, SessionAssumption, IInv, SkipPackage
  PROVE  IInv'
BY LoopOnStep DEF SkipPackage, Called, At, Quiet

LEMMA RevisitPackageStep ==
  ASSUME GraphAssumption, SessionAssumption, IInv, RevisitPackage
  PROVE  IInv'
<1>1. stack # <<>> /\ Top.at = "loop" /\ Quiet /\ LoopPackage \in Top.filter /\ Top.next <= Len(PackageOrder)
  BY DEF RevisitPackage, Called, At, Quiet
<1>2. /\ Top.filter \in SUBSET Packages /\ Below.at \in {"plan", "sub"}
      /\ Len(stack) - 1 \in 1..Len(stack)
  BY <1>1, BelowLoop
<1>3. scope = ScopeOf(Below)
  BY <1>1, AtTop DEF TopInv, Below
<1>4. Below.at = "sub" => requests[Below.root] \in Toolchains
  BY <1>2 DEF IInv, FrameInv, SubInv, Below
<1>5. CASE /\ decl[LoopPackage] = "declared"
           /\ scope = MainScope \/ bindings[LoopPackage] = ValueIn(LoopPackage, scope)
           /\ LoopOn /\ UNCHANGED outcome
  <2>1. Settled(LoopPackage, Below)
    BY <1>3, <1>4, <1>5 DEF Settled, Bound, ScopeOf, SessionAssumption
  <2>2. QED
    BY <1>1, <1>5, <2>1, LoopOnStep
<1>6. CASE /\ ~(/\ decl[LoopPackage] = "declared"
                /\ scope = MainScope \/ bindings[LoopPackage] = ValueIn(LoopPackage, scope))
           /\ Return("err")
  <2>1. Below.at = "plan" => Declared # Packages
    BY <1>1, <1>2, <1>3, <1>6 DEF ScopeOf, Declared
  <2>2. QED
    BY <1>1, <1>6, <2>1, LoopReturnStep
<1>7. QED
  BY <1>5, <1>6 DEF RevisitPackage

LEMMA AfterPackageStep ==
  ASSUME GraphAssumption, SessionAssumption, IInv, AfterPackage
  PROVE  IInv'
<1>1. stack # <<>> /\ Top.at = "loop" /\ Quiet /\ ret # "none"
  BY DEF AfterPackage, Returned, At, Quiet
<1>2. /\ LoopPackage \in Top.filter /\ Top.next <= Len(PackageOrder)
      /\ ret = "ok" => Settled(LoopPackage, Below)
      /\ ret = "err" => decl[LoopPackage] = "failed"
  BY <1>1, AtTop DEF TopInv, Below, LoopPackage
<1>3. Top.filter \in SUBSET Packages
  BY <1>1, BelowLoop
<1>4. CASE ret = "ok"
  BY <1>1, <1>2, <1>4, LoopOnStep DEF AfterPackage
<1>5. CASE ret # "ok"
  <2>1. Declared # Packages
    BY <1>1, <1>2, <1>3, <1>5 DEF Declared, IInv, TypeOK
  <2>2. QED
    BY <1>1, <1>5, <2>1, LoopReturnStep DEF AfterPackage
<1>6. QED
  BY <1>4, <1>5

-----------------------------------------------------------------------------
(* Scripts *)
LEMMA WholeStays ==
  ASSUME GraphAssumption, Grows, NEW root \in Packages, Whole(root),
         requests'[root] = requests[root]
  PROVE  Whole(root)'
<1>1. PICK pkgs \in SUBSET Packages : pkgs = SubGraphPackages(root, Declared)
  BY SubGraphIsClosed
<1>2. /\ pkgs \subseteq Declared
      /\ \A t \in TargetsOf(pkgs) \ NonDefault : memo[t] = "ok"
      /\ \A p \in pkgs : bindings[p] = ValueIn(p, requests[root])
  BY <1>1 DEF Whole
<1>3. Declared \subseteq Declared'
  BY DEF Declared, Grows
<1>4. SubGraphPackages(root, Declared') = pkgs
  BY <1>1, <1>2, <1>3, SubGraphStays
<1>5. \A t \in TargetsOf(pkgs) \ NonDefault : memo'[t] = "ok"
  BY <1>2 DEF TargetsOf, Grows
<1>6. \A p \in pkgs : bindings'[p] = ValueIn(p, requests'[root])
  <2>1. TAKE p \in pkgs
  <2>2. decl[p] = "declared" /\ p \in Packages
    BY <1>2 DEF Declared
  <2>3. QED
    BY <1>2, <2>2 DEF Grows
<1>7. SubGraphPackages(root, Declared)' = pkgs
  BY <1>4
<1>8. QED
  BY <1>2, <1>3, <1>5, <1>6, <1>7 DEF Whole, ValueIn

LEMMA WholesStay ==
  ASSUME GraphAssumption, IInv, Grows,
         \A root \in Packages : subErr'[root] = "ok" =>
           \/ subErr[root] = "ok" /\ requests'[root] = requests[root]
           \/ Whole(root)'
  PROVE  SubGraphsAreWhole'
<1>1. \A root \in Packages : subErr[root] = "ok" => Whole(root)
  BY DEF IInv, SubGraphsAreWhole, Whole
<1>2. \A root \in Packages : subErr'[root] = "ok" => Whole(root)'
  BY <1>1, WholeStays
<1>3. QED
  BY <1>2 DEF SubGraphsAreWhole, Whole

LEMMA DeclarePackageStep ==
  ASSUME GraphAssumption, SessionAssumption, IInv, DeclarePackage
  PROVE  IInv'
<1>0. PICK p \in Packages : p = LoopPackage
  <2>1. stack # <<>> /\ Top.at = "loop" /\ LoopPackage \in Top.filter
    BY DEF DeclarePackage, Called, At
  <2>2. QED
    BY <2>1, BelowLoop
<1>1. /\ stack # <<>> /\ Top.at = "loop" /\ p \in Top.filter /\ decl[p] = "no"
      /\ Top.next <= Len(PackageOrder) /\ p = PackageOrder[Top.next]
      /\ decl' = [decl EXCEPT ![p] = "running"]
      /\ bindings' = [bindings EXCEPT ![p] = ValueIn(p, Base)]
      /\ Call(Top, [at |-> "script", pkg |-> p])
      /\ UNCHANGED <<keepGoing, cancelled, scope, requests, built, subErr, memo, active, runs, outcome, calls>>
  BY <1>0 DEF DeclarePackage, Called, At, LoopPackage, session
<1>2. /\ Len(stack) > 1 /\ Len(stack) \in Nat /\ Len(stack) - 1 \in 1..(Len(stack) - 1)
      /\ Top = stack[Len(stack)] /\ Top \in Frames /\ Below \in Frames
      /\ Below.at \in {"plan", "sub"} /\ LoopInv(Top, Below)
      /\ Len(stack) \in 1..Len(stack) /\ Len(stack) - 1 \in 1..Len(stack)
  BY <1>1, BelowLoop, AtTop
<1>3. PICK f \in Frames : f = [at |-> "script", pkg |-> p]
  BY DEF Frames
<1>4. f.at = "script" /\ f.pkg = p
  BY <1>3
<1>5. /\ stack' \in Seq(Frames) /\ Len(stack') = Len(stack) + 1
      /\ stack'[Len(stack)] = Top /\ stack'[Len(stack) + 1] = f
      /\ \A i \in 1..(Len(stack) - 1) : stack'[i] = stack[i]
  BY <1>1, <1>2, <1>3, CallStack
<1>6. \A i \in 1..Len(stack) : stack'[i] = stack[i]
  BY <1>2, <1>5
<1>7. /\ decl \in [Packages -> {"no", "running", "declared", "failed"}]
      /\ bindings \in [Packages -> Toolchains \cup {Unbound}]
      /\ scope = ScopeOf(Below) /\ active = NoTarget /\ outcome = "none"
  BY <1>1, AtTop DEF IInv, TypeOK, TopInv, Below
<1>8. /\ decl'[p] = "running" /\ bindings'[p] = ValueIn(p, Base)
      /\ \A q \in Packages \ {p} : decl'[q] = decl[q] /\ bindings'[q] = bindings[q]
  BY <1>1, <1>7
<1>9. Below.at = "sub" => requests[Below.root] \in Toolchains
  BY <1>2 DEF IInv, FrameInv, SubInv, Below
<1>10. Grows
  BY <1>1, <1>8 DEF Grows
<1>11. ret' = "none"
  BY <1>1 DEF Call
<1>12. TypeOK'
  <2>1. Base \in Toolchains /\ ValueIn(p, Base) \in Toolchains
    BY DEF IInv, TypeOK, Base, ValueIn, SessionAssumption
  <2>2. QED
    BY <1>1, <1>5, <1>11, <2>1 DEF IInv, TypeOK
<1>13. \A j \in 1..Len(stack) : Kept(stack[j])
  <2>1. \A j \in 1..(Len(stack) - 1) : stack[j].at = "script" => decl[stack[j].pkg] = "running" /\ stack[j].pkg \in Packages
    <3>1. TAKE j \in 1..(Len(stack) - 1)
    <3>2. j \in 1..Len(stack)
      BY <1>2
    <3>3. FrameInv(j) /\ stack[j] \in Frames
      BY <3>2, Chain DEF IInv
    <3>4. QED
      BY <3>3, FrameType DEF FrameInv
  <2>2. \A j \in 1..(Len(stack) - 1) :
          stack[j].at = "script" => decl'[stack[j].pkg] = decl[stack[j].pkg]
    BY <1>1, <1>8, <2>1
  <2>5. Len(stack) - 1 \in 0..(Len(stack) - 1) /\ UNCHANGED <<requests, subErr>>
    BY <1>1, <1>2
  <2>6. \A j \in 1..(Len(stack) - 1) : Kept(stack[j])
    BY <2>2, <2>5, LowerKept
  <2>3. Kept(stack[Len(stack)])
    BY <1>1, <1>2 DEF Kept
  <2>4. QED
    BY <1>2, <2>6, <2>3
<1>14. \A i \in 1..Len(stack') : i > Len(stack) => RightlyPlaced(i)' /\ FrameInv(i)'
  <2>1. TAKE i \in 1..Len(stack')
  <2>2. HAVE i > Len(stack)
  <2>3. i = Len(stack) + 1 /\ i # 1 /\ i - 1 = Len(stack) /\ i - 2 = Len(stack) - 1
    BY <1>2, <1>5, <2>2
  <2>4. stack'[i] = f /\ stack'[i - 1] = Top /\ stack'[i - 2] = Below
    BY <1>2, <1>5, <2>3 DEF Below
  <2>5. OnTop(f, Top)
    BY <1>1, <1>4 DEF OnTop
  <2>6. RightlyPlaced(i)'
    BY <2>3, <2>4, <2>5 DEF RightlyPlaced
  <2>7. bindings'[p] = IF Below.at = "sub" THEN ValueIn(p, requests[Below.root]) ELSE bindings'[p]
    BY <1>7, <1>8, <1>9 DEF ScopeOf, Base, SessionAssumption
  <2>8. FrameInv(i)'
    BY <1>1, <1>4, <1>8, <2>4, <2>7 DEF FrameInv, Bound, ValueIn
  <2>9. QED
    BY <2>6, <2>8
<1>15. TopInv(Len(stack))'
  <2>1. stack'[Len(stack')] = f /\ stack'[Len(stack') - 2] = Below
    <3>1. Len(stack') - 2 = Len(stack) - 1
      BY <1>2, <1>5
    <3>2. QED
      BY <1>2, <1>5, <3>1 DEF Below
  <2>2. QED
    BY <1>1, <1>4, <1>7, <2>1 DEF TopInv, ScopeOf
<1>16. Distinct'
  <2>1. SUFFICES ASSUME NEW i \in 1..Len(stack'), NEW j \in 1..Len(stack'),
                        \/ stack'[i].at = "sub" /\ stack'[j].at = "sub" /\ stack'[i].root = stack'[j].root
                        \/ stack'[i].at = "script" /\ stack'[j].at = "script" /\ stack'[i].pkg = stack'[j].pkg
                 PROVE  i = j
    BY DEF Distinct
  <2>2. ASSUME NEW k \in 1..Len(stack), stack[k].at = "script" PROVE stack[k].pkg # p
    BY <1>1, <2>2 DEF IInv, FrameInv
  <2>3. \A k \in 1..Len(stack') : k \in 1..Len(stack) \/ k = Len(stack) + 1
    BY <1>2, <1>5
  <2>4. CASE i \in 1..Len(stack) /\ j \in 1..Len(stack)
    BY <1>6, <2>1, <2>4 DEF IInv, Distinct
  <2>5. CASE i = Len(stack) + 1 /\ j \in 1..Len(stack)
    BY <1>4, <1>5, <1>6, <2>1, <2>2, <2>5
  <2>6. CASE j = Len(stack) + 1 /\ i \in 1..Len(stack)
    BY <1>4, <1>5, <1>6, <2>1, <2>2, <2>6
  <2>7. QED
    BY <2>3, <2>4, <2>5, <2>6
<1>17. DeclInv'
  <2>1. ASSUME NEW d \in PkgDeps[p] PROVE decl[d] = "declared" /\ d # p /\ d \in Packages
    <3>1. d \in Top.filter /\ d \in Packages
      BY <1>1, <1>2 DEF LoopInv, GraphAssumption
    <3>2. Top.next \in 1..Len(PackageOrder) /\ PkgDeps[PackageOrder[Top.next]] = PkgDeps[p]
      <4>1. Len(PackageOrder) \in Nat
        BY PackageOrderIsRight
      <4>2. QED
        BY <1>1, <1>2, <4>1 DEF LoopInv
    <3>3. PICK k \in 1..(Top.next - 1) : PackageOrder[k] = d
      BY <3>2, PackageOrderIsRight
    <3>4. decl[d] = "declared"
      BY <1>2, <3>1, <3>3 DEF LoopInv, Settled
    <3>5. QED
      BY <1>1, <3>1, <3>4
  <2>2. ASSUME NEW q \in Packages, decl'[q] \in {"running", "declared"}, NEW d \in PkgDeps[q]
        PROVE  decl'[d] = "declared"
    <3>1. CASE q = p
      BY <1>8, <2>1, <2>2, <3>1
    <3>2. CASE q # p
      <4>1. decl[d] = "declared" /\ d \in Packages
        BY <1>8, <2>2, <3>2 DEF IInv, DeclInv, GraphAssumption
      <4>2. QED
        BY <1>10, <4>1 DEF Grows
    <3>3. QED
      BY <3>1, <3>2
  <2>3. QED
    BY <2>2 DEF DeclInv
<1>18. ResultInv' /\ SubGraphsAreWhole'
  <2>1. ResultInv'
    BY <1>1 DEF IInv, ResultInv
  <2>2. QED
    BY <1>1, <1>10, <2>1, WholesStay
<1>19. EndInv'
  <2>1. stack' # <<>>
    BY <1>2, <1>5
  <2>2. QED
    BY <1>1, <1>7, <2>1 DEF EndInv, SuccessIsComplete
<1>20. Len(stack) \in 0..Len(stack)
  BY <1>2
<1>21. QED
  BY <1>6, <1>10, <1>12, <1>13, <1>14, <1>15, <1>16, <1>17, <1>18, <1>19, <1>20, Rebuild

LEMMA BelowScript ==
  ASSUME IInv, stack # <<>>, Top.at = "script"
  PROVE  /\ Len(stack) > 2 /\ Len(stack) \in Nat /\ Len(stack) \in 1..Len(stack)
         /\ Len(stack) - 1 \in 1..(Len(stack) - 1) /\ Len(stack) - 2 \in 1..(Len(stack) - 1)
         /\ Top = stack[Len(stack)] /\ Top \in Frames /\ Top.pkg \in Packages
         /\ Below \in Frames /\ Below.at = "loop" /\ OnTop(Top, Below)
         /\ stack[Len(stack) - 2] \in Frames /\ stack[Len(stack) - 2].at \in {"plan", "sub"}
         /\ decl[Top.pkg] = "running" /\ Bound(Top.pkg, stack[Len(stack) - 2])
         /\ scope = ScopeOf(stack[Len(stack) - 2]) /\ active = NoTarget
<1>1. /\ Len(stack) \in Nat \ {0} /\ Len(stack) \in 1..Len(stack) /\ Top = stack[Len(stack)]
      /\ Top \in Frames /\ FrameInv(Len(stack)) /\ TopInv(Len(stack))
  BY AtTop
<1>2. /\ Len(stack) > 2 /\ Below \in Frames /\ OnTop(Top, Below) /\ Below.at = "loop"
      /\ stack[Len(stack) - 2] \in Frames /\ stack[Len(stack) - 2].at \in {"plan", "sub"}
  BY <1>1, Chain DEF IInv, Below
<1>3. Top.pkg \in Packages
  BY <1>1, FrameType
<1>4. decl[Top.pkg] = "running" /\ Bound(Top.pkg, stack[Len(stack) - 2])
  BY <1>1 DEF FrameInv
<1>5. scope = ScopeOf(stack[Len(stack) - 2]) /\ active = NoTarget
  BY <1>1 DEF TopInv
<1>6. Len(stack) - 1 \in 1..(Len(stack) - 1) /\ Len(stack) - 2 \in 1..(Len(stack) - 1)
  BY <1>1, <1>2
<1>7. QED
  BY <1>1, <1>2, <1>3, <1>4, <1>5, <1>6

(* A step after which fewer subgraphs and scripts are on the stack.        *)
LEMMA FewerDistinct ==
  ASSUME IInv, stack' \in Seq(Frames),
         \A i \in 1..Len(stack') : stack'[i].at \in {"sub", "script"} =>
           /\ i \in 1..Len(stack) /\ stack'[i].at = stack[i].at
           /\ stack'[i].at = "sub" => stack'[i].root = stack[i].root
           /\ stack'[i].at = "script" => stack'[i].pkg = stack[i].pkg
  PROVE  Distinct'
BY DEF IInv, Distinct

LEMMA ScriptEndsStep ==
  ASSUME GraphAssumption, SessionAssumption, IInv, NEW result \in {"ok", "err"}, ScriptEnds(result)
  PROVE  IInv'
<1>1. stack # <<>> /\ Top.at = "script"
  BY DEF ScriptEnds, At
<1>2. PICK n \in Nat, p \in Packages : n = Len(stack) /\ p = Top.pkg
  BY <1>1, BelowScript
<1>3. /\ decl' = [decl EXCEPT ![p] = IF result = "ok" THEN "declared" ELSE "failed"]
      /\ Return(result)
      /\ UNCHANGED <<keepGoing, cancelled, bindings, scope, requests, built, subErr, memo, active, runs, calls>>
  BY <1>2 DEF ScriptEnds, session
<1>4. PICK g \in Frames, f \in Frames :
        /\ n > 2 /\ n \in 1..n /\ n - 1 \in 1..(n - 1) /\ n - 2 \in 1..(n - 1)
        /\ g = stack[n - 1] /\ f = stack[n - 2] /\ g.at = "loop" /\ f.at \in {"plan", "sub"}
        /\ OnTop(stack[n], g) /\ stack[n].at = "script" /\ stack[n].pkg = p
        /\ decl[p] = "running" /\ Bound(p, f) /\ scope = ScopeOf(f) /\ active = NoTarget
  BY <1>1, <1>2, BelowScript DEF Below
<1>5. /\ stack' \in Seq(Frames) /\ Len(stack') = n - 1
      /\ \A i \in 1..(n - 1) : stack'[i] = stack[i]
  BY <1>1, <1>2, <1>3, ReturnStack
<1>6. /\ decl \in [Packages -> {"no", "running", "declared", "failed"}]
      /\ \A q \in Packages \ {p} : decl'[q] = decl[q]
      /\ decl'[p] = IF result = "ok" THEN "declared" ELSE "failed"
  BY <1>3 DEF IInv, TypeOK
<1>7. Grows
  BY <1>3, <1>4, <1>6 DEF Grows
<1>8. TypeOK'
  BY <1>3, <1>5 DEF IInv, TypeOK, Return
<1>9. \A j \in 1..(n - 1) : Kept(stack[j])
  <2>1. ASSUME NEW j \in 1..(n - 1), stack[j].at = "script"
        PROVE  decl'[stack[j].pkg] = decl[stack[j].pkg]
    <3>1. j \in 1..Len(stack) /\ n \in 1..Len(stack) /\ j # n
      BY <1>2
    <3>2. stack[j].pkg # p
      BY <1>4, <2>1, <3>1 DEF IInv, Distinct
    <3>3. stack[j].pkg \in Packages
      BY <2>1, <3>1, FrameType DEF IInv, TypeOK
    <3>4. QED
      BY <1>6, <3>2, <3>3
  <2>2. n - 1 \in 0..(Len(stack) - 1)
    BY <1>2, <1>4
  <2>3. QED
    BY <1>3, <2>1, <2>2, LowerKept
<1>10. stack'[Len(stack')] = g /\ stack'[Len(stack') - 1] = f
  BY <1>4, <1>5
<1>11. TopInv(Len(stack))'
  <2>1. g.next <= Len(PackageOrder) /\ p = PackageOrder[g.next] /\ p \in g.filter
    BY <1>4 DEF OnTop
  <2>2. ret' = result /\ UNCHANGED <<scope, requests, bindings, active>>
    BY <1>3 DEF Return
  <2>3. QED
    BY <1>4, <1>6, <1>10, <2>1, <2>2 DEF TopInv, ScopeOf, Settled, Bound, ValueIn
<1>12. Distinct'
  <2>1. \A i \in 1..Len(stack') : i \in 1..Len(stack) /\ stack'[i] = stack[i]
    BY <1>2, <1>5
  <2>2. QED
    BY <1>5, <2>1, FewerDistinct
<1>13. DeclInv'
  <2>1. ASSUME NEW q \in Packages, decl'[q] \in {"running", "declared"}, NEW d \in PkgDeps[q]
        PROVE  decl'[d] = "declared"
    <3>1. decl[q] \in {"running", "declared"}
      BY <1>4, <1>6, <2>1
    <3>2. decl[d] = "declared" /\ d \in Packages
      BY <2>1, <3>1 DEF IInv, DeclInv, GraphAssumption
    <3>3. QED
      BY <1>7, <3>2 DEF Grows
  <2>2. QED
    BY <2>1 DEF DeclInv
<1>14. ResultInv' /\ SubGraphsAreWhole'
  <2>1. ResultInv'
    BY <1>3 DEF IInv, ResultInv
  <2>2. QED
    BY <1>3, <1>7, <2>1, WholesStay
<1>15. EndInv'
  <2>1. stack' # <<>>
    BY <1>4, <1>5
  <2>2. outcome' = outcome /\ outcome = "none"
    BY <1>1, <1>2, <1>3, <1>4, AtTop DEF Return
  <2>3. QED
    BY <2>1, <2>2 DEF EndInv, SuccessIsComplete
<1>16. n - 1 \in 0..Len(stack) /\ \A i \in 1..Len(stack') : ~(i > n - 1)
  BY <1>2, <1>4, <1>5
<1>17. QED
  BY <1>5, <1>7, <1>8, <1>9, <1>11, <1>12, <1>13, <1>14, <1>15, <1>16, Rebuild

(* BuildSubGraph refuses, or remembers that it failed or succeeded.        *)
LEMMA AnswerStep ==
  ASSUME GraphAssumption, SessionAssumption, IInv, stack # <<>>, Top.at \in {"script", "target"},
         UNCHANGED <<stack, keepGoing, cancelled, declaration, session, outcome>>,
         calls' \in 0..MaxCalls, ret' \in {"ok", "err"}
  PROVE  IInv'
<1>1. PICK n \in Nat \ {0} : n = Len(stack)
  BY AtTop
<1>2. n \in 1..n /\ Top = stack[n] /\ FrameInv(n) /\ TopInv(n) /\ RightlyPlaced(n) /\ outcome = "none"
  BY <1>1, AtTop
<1>3. UNCHANGED <<decl, bindings, scope, requests, built, subErr, memo, active, runs>>
  BY DEF declaration, session
<1>4. TypeOK'
  BY <1>3 DEF IInv, TypeOK
<1>5. /\ Grows /\ \A j \in 1..(n - 1) : Kept(stack[j])
      /\ ResultInv' /\ SubGraphsAreWhole'
  <2>1. n - 1 \in 0..(Len(stack) - 1)
    BY <1>1
  <2>2. QED
    BY <2>1, QuietGrows
<1>6. RightlyPlaced(n)'
  BY <1>2 DEF RightlyPlaced
<1>7. FrameInv(n)'
  BY <1>2, <1>3 DEF FrameInv, Bound, ValueIn, TargetInv
<1>8. TopInv(Len(stack))'
  BY <1>1, <1>2, <1>3 DEF TopInv, ScopeOf
<1>9. Distinct' /\ DeclInv'
  BY <1>3 DEF IInv, Distinct, DeclInv
<1>10. EndInv'
  BY <1>2, <1>3 DEF IInv, EndInv, SuccessIsComplete
<1>11. n - 1 \in 0..Len(stack) /\ \A i \in 1..Len(stack') : i > n - 1 => i = n
  BY <1>1
<1>12. \A i \in 1..Len(stack') : i > n - 1 => RightlyPlaced(i)' /\ FrameInv(i)'
  BY <1>6, <1>7, <1>11
<1>13. \A j \in 1..(n - 1) : stack'[j] = stack[j] /\ Kept(stack[j])
  BY <1>5
<1>14. QED
  BY <1>4, <1>5, <1>8, <1>9, <1>10, <1>11, <1>12, <1>13, Rebuild

LEMMA EnterSubGraphStep ==
  ASSUME GraphAssumption, SessionAssumption, IInv, stack # <<>>, Top.at = "script",
         NEW root \in Packages, root \notin built, subErr[root] = "none", active = NoTarget,
         requests' = [requests EXCEPT ![root] = SubScope(root)],
         built' = built \cup {root}, scope' = SubScope(root), ret' = "none",
         NEW pkgs, pkgs = SubGraphPackages(root, Declared),
         stack' = stack \o <<[at |-> "sub", root |-> root, pkgs |-> pkgs, prev |-> scope],
                             PackageLoop(pkgs)>>,
         UNCHANGED <<keepGoing, cancelled, decl, bindings, subErr, memo, active, runs, outcome>>,
         calls' \in 0..MaxCalls
  PROVE  IInv'
<1>1. PICK n \in Nat, h \in Frames :
        /\ n = Len(stack) /\ n > 2 /\ n \in 1..n /\ n - 2 \in 1..(n - 1)
        /\ stack[n].at = "script" /\ h = stack[n - 2] /\ h.at \in {"plan", "sub"} /\ scope = ScopeOf(h)
        /\ decl[stack[n].pkg] = "running"
  BY BelowScript
<1>2. pkgs \in SUBSET Packages /\ root \in pkgs /\ \A p \in pkgs : PkgDeps[p] \subseteq pkgs
  BY SubGraphIsClosed
<1>3. scope \in Toolchains \cup {MainScope} /\ SubScope(root) \in Toolchains
  BY DEF IInv, TypeOK, SubScope, Base, ValueIn, SessionAssumption
<1>4. PICK f \in Frames : f = [at |-> "sub", root |-> root, pkgs |-> pkgs, prev |-> scope]
  BY <1>2, <1>3 DEF Frames
<1>5. f.at = "sub" /\ f.root = root /\ f.pkgs = pkgs /\ f.prev = scope
  BY <1>4
<1>6. PICK g \in Frames : g = PackageLoop(pkgs)
  BY <1>2 DEF Frames, PackageLoop
<1>7. g.at = "loop" /\ g.filter = pkgs /\ g.next = 1
  BY <1>6 DEF PackageLoop
<1>8. /\ stack' \in Seq(Frames) /\ Len(stack') = n + 2
      /\ stack'[n + 1] = f /\ stack'[n + 2] = g
      /\ \A i \in 1..n : stack'[i] = stack[i]
  <2>1. stack \in Seq(Frames)
    BY AtTop
  <2>2. stack' = stack \o <<f, g>>
    BY <1>4, <1>6
  <2>3. QED
    BY <1>1, <2>1, <2>2, PushEffect
<1>9. /\ requests'[root] = SubScope(root) /\ requests'[root] \in Toolchains
      /\ \A r \in Packages \ {root} : requests'[r] = requests[r]
  BY <1>3 DEF IInv, TypeOK
<1>10. \A j \in 1..n : stack[j].at = "sub" => /\ stack[j].root \in Packages /\ stack[j].root # root
                                           /\ requests'[stack[j].root] = requests[stack[j].root]
  <2>1. TAKE j \in 1..n
  <2>2. j \in 1..Len(stack) /\ FrameInv(j) /\ stack[j] \in Frames
    BY <1>1, Chain DEF IInv
  <2>3. HAVE stack[j].at = "sub"
  <2>4. stack[j].root \in built /\ stack[j].root \in Packages
    BY <2>2, <2>3, FrameType DEF FrameInv, SubInv
  <2>5. QED
    BY <1>9, <2>4
<1>11. Grows
  BY DEF Grows
<1>12. TypeOK'
  BY <1>3, <1>8 DEF IInv, TypeOK
<1>13. \A j \in 1..n : Kept(stack[j])
  <2>1. \A j \in 1..(n - 1) : Kept(stack[j])
    <3>1. n - 1 \in 0..(Len(stack) - 1) /\ 1..(n - 1) \subseteq 1..n
      BY <1>1
    <3>2. \A j \in 1..(n - 1) : stack[j].at = "sub" =>
            /\ requests'[stack[j].root] = requests[stack[j].root]
            /\ subErr'[stack[j].root] = subErr[stack[j].root]
      BY <1>10, <3>1
    <3>3. QED
      BY <3>1, <3>2, LowerKept
  <2>2. Kept(stack[n])
    BY <1>1 DEF Kept
  <2>3. QED
    BY <1>1, <2>1, <2>2
<1>14. RightlyPlaced(n + 1)' /\ FrameInv(n + 1)'
  <2>1. n + 1 # 1 /\ (n + 1) - 1 = n /\ (n + 1) - 3 = n - 2
    BY <1>1
  <2>2. stack'[n + 1] = f /\ stack'[(n + 1) - 1] = stack[n] /\ stack'[(n + 1) - 3] = h
    BY <1>1, <1>8, <2>1
  <2>3. RightlyPlaced(n + 1)'
    BY <1>1, <1>5, <2>1, <2>2 DEF RightlyPlaced, OnTop
  <2>4. h.at = "sub" => requests'[h.root] = requests[h.root]
    <3>1. n - 2 \in 1..n
      BY <1>1
    <3>2. QED
      BY <1>1, <1>10, <3>1
  <2>5. FrameInv(n + 1)'
    BY <1>1, <1>5, <1>9, <2>2, <2>4 DEF FrameInv, SubInv, ScopeOf
  <2>6. QED
    BY <2>3, <2>5
<1>15. RightlyPlaced(n + 2)' /\ FrameInv(n + 2)' /\ TopInv(Len(stack))'
  <2>1. /\ n + 2 # 1 /\ (n + 2) - 1 = n + 1 /\ Len(stack') = n + 2
        /\ Len(PackageOrder) \in Nat /\ \A k \in 1..(g.next - 1) : FALSE
    BY <1>1, <1>7, <1>8, PackageOrderIsRight
  <2>2. stack'[n + 2] = g /\ stack'[(n + 2) - 1] = f
    BY <1>8, <2>1
  <2>3. OnTop(g, f)
    BY <1>2, <1>5, <1>7 DEF OnTop
  <2>4. RightlyPlaced(n + 2)'
    BY <2>1, <2>2, <2>3 DEF RightlyPlaced
  <2>5. LoopInv(g, f)'
    BY <1>2, <1>7, <2>1 DEF LoopInv
  <2>6. FrameInv(n + 2)'
    BY <1>7, <2>2, <2>5 DEF FrameInv
  <2>7. TopInv(n + 2)'
    BY <1>5, <1>7, <1>9, <2>2 DEF TopInv, ScopeOf
  <2>8. QED
    BY <2>1, <2>4, <2>6, <2>7
<1>16. Distinct'
  <2>1. SUFFICES ASSUME NEW i \in 1..Len(stack'), NEW j \in 1..Len(stack'),
                        \/ stack'[i].at = "sub" /\ stack'[j].at = "sub" /\ stack'[i].root = stack'[j].root
                        \/ stack'[i].at = "script" /\ stack'[j].at = "script" /\ stack'[i].pkg = stack'[j].pkg
                 PROVE  i = j
    BY DEF Distinct
  <2>2. \A k \in 1..Len(stack') : k \in 1..n \/ k = n + 1 \/ k = n + 2
    BY <1>1, <1>8
  <2>3. i # n + 2 /\ j # n + 2
    BY <1>7, <1>8, <2>1
  <2>4. CASE i \in 1..n /\ j \in 1..n
    BY <1>1, <1>8, <2>1, <2>4 DEF IInv, Distinct
  <2>5. CASE i = n + 1 /\ j \in 1..n
    BY <1>5, <1>8, <1>10, <2>1, <2>5
  <2>6. CASE j = n + 1 /\ i \in 1..n
    BY <1>5, <1>8, <1>10, <2>1, <2>6
  <2>7. QED
    BY <2>2, <2>3, <2>4, <2>5, <2>6
<1>17. DeclInv' /\ ResultInv'
  BY DEF IInv, DeclInv, ResultInv
<1>18. SubGraphsAreWhole'
  <2>1. ASSUME NEW r \in Packages, subErr'[r] = "ok"
        PROVE  subErr[r] = "ok" /\ requests'[r] = requests[r]
    BY <1>9, <2>1
  <2>2. QED
    BY <1>11, <2>1, WholesStay
<1>19. EndInv'
  <2>1. stack' # <<>> /\ outcome = "none"
    BY <1>1, <1>8, AtTop
  <2>2. QED
    BY <2>1 DEF EndInv, SuccessIsComplete
<1>20. n \in 0..Len(stack) /\ \A i \in 1..Len(stack') : i > n => i = n + 1 \/ i = n + 2
  BY <1>1, <1>8
<1>21. QED
  BY <1>8, <1>11, <1>12, <1>13, <1>14, <1>15, <1>16, <1>17, <1>18, <1>19, <1>20, Rebuild

LEMMA CallSubGraphStep ==
  ASSUME GraphAssumption, SessionAssumption, IInv, NEW root \in Packages, CallSubGraph(root)
  PROVE  IInv'
<1>1. /\ stack # <<>> /\ Top.at \in {"script", "target"} /\ calls' \in 0..MaxCalls
      /\ UNCHANGED <<keepGoing, cancelled, decl, bindings, subErr, memo, active, runs, outcome>>
  BY DEF CallSubGraph, At, IInv, TypeOK, SessionAssumption, session
<1>2. CASE Refused(root) \/ subErr[root] # "none"
  <2>1. UNCHANGED <<stack, scope, requests, built>> /\ ret' \in {"ok", "err"}
    BY <1>2 DEF CallSubGraph, IInv, TypeOK
  <2>2. QED
    BY <1>1, <2>1, AnswerStep DEF declaration, session
<1>3. CASE ~Refused(root) /\ subErr[root] = "none"
  <2>1. active = NoTarget /\ root \notin built
    BY <1>3 DEF Refused
  <2>2. Top.at = "script"
    <3>1. SUFFICES ASSUME Top.at = "target" PROVE FALSE
      BY <1>1
    <3>2. active = Top.target /\ Top.target \in Targets
      BY <1>1, <3>1, AtTop, FrameType DEF FrameInv, TargetInv
    <3>3. QED
      BY <2>1, <3>2 DEF SessionAssumption
  <2>3. PICK pkgs : pkgs = SubGraphPackages(root, Declared)
    OBVIOUS
  <2>4. /\ requests' = [requests EXCEPT ![root] = SubScope(root)]
        /\ built' = built \cup {root} /\ scope' = SubScope(root) /\ ret' = "none"
        /\ stack' = stack \o <<[at |-> "sub", root |-> root, pkgs |-> pkgs, prev |-> scope],
                               PackageLoop(pkgs)>>
    BY <1>3, <2>3 DEF CallSubGraph
  <2>5. QED
    BY <1>1, <1>3, <2>1, <2>2, <2>3, <2>4, EnterSubGraphStep
<1>4. QED
  BY <1>2, <1>3

LEMMA BelowSub ==
  ASSUME IInv, stack # <<>>, Top.at = "sub"
  PROVE  /\ Len(stack) > 3 /\ Len(stack) # 1 /\ Len(stack) \in Nat /\ Len(stack) \in 1..Len(stack)
         /\ Len(stack) - 1 \in 1..(Len(stack) - 1) /\ Len(stack) - 3 \in 1..(Len(stack) - 1)
         /\ Top = stack[Len(stack)] /\ Top \in Frames
         /\ Top.root \in Packages /\ Top.pkgs \in SUBSET Packages
         /\ Below \in Frames /\ Below.at = "script" /\ OnTop(Top, Below)
         /\ stack[Len(stack) - 3] \in Frames /\ stack[Len(stack) - 3].at \in {"plan", "sub"}
         /\ SubInv(Top) /\ Top.prev = ScopeOf(stack[Len(stack) - 3])
         /\ ret \in {"ok", "err"} /\ active = NoTarget /\ outcome = "none"
         /\ Top.pkgs # {} => scope = requests[Top.root]
         /\ ret = "ok" /\ Top.pkgs # {} => \A p \in Top.pkgs : Settled(p, Top)
         /\ ret = "ok" /\ Top.pkgs = {} => Whole(Top.root)
<1>1. /\ Len(stack) \in Nat \ {0} /\ Len(stack) \in 1..Len(stack) /\ Top = stack[Len(stack)]
      /\ Top \in Frames /\ FrameInv(Len(stack)) /\ TopInv(Len(stack)) /\ outcome = "none"
  BY AtTop
<1>2. /\ Len(stack) > 3 /\ Below \in Frames /\ OnTop(Top, Below) /\ Below.at = "script"
      /\ stack[Len(stack) - 3] \in Frames /\ stack[Len(stack) - 3].at \in {"plan", "sub"}
  BY <1>1, Chain DEF IInv, Below
<1>3. Top.root \in Packages /\ Top.pkgs \in SUBSET Packages
  BY <1>1, FrameType
<1>4. SubInv(Top) /\ Top.prev = ScopeOf(stack[Len(stack) - 3])
  BY <1>1 DEF FrameInv
<1>5. /\ ret \in {"ok", "err"} /\ active = NoTarget
      /\ Top.pkgs # {} => scope = requests[Top.root]
      /\ ret = "ok" /\ Top.pkgs # {} => \A p \in Top.pkgs : Settled(p, Top)
      /\ ret = "ok" /\ Top.pkgs = {} => Whole(Top.root)
  BY <1>1 DEF TopInv, IInv, TypeOK, ScopeOf
<1>6. Len(stack) - 1 \in 1..(Len(stack) - 1) /\ Len(stack) - 3 \in 1..(Len(stack) - 1) /\ Len(stack) # 1
  BY <1>1, <1>2
<1>7. QED
  BY <1>1, <1>2, <1>3, <1>4, <1>5, <1>6

LEMMA EndSubGraphStep ==
  ASSUME GraphAssumption, SessionAssumption, IInv, EndSubGraph
  PROVE  IInv'
<1>1. stack # <<>> /\ Top.at = "sub" /\ (ret = "err" \/ Top.pkgs = {})
  BY DEF EndSubGraph, Returned, At
<1>0. PICK n \in Nat, root \in Packages, g \in Frames, h \in Frames :
        n = Len(stack) /\ root = Top.root /\ g = Below /\ h = stack[Len(stack) - 3]
  BY <1>1, BelowSub
<1>2.   /\ n = Len(stack) /\ root = Top.root /\ n > 3 /\ n \in 1..n
        /\ n - 1 \in 1..(n - 1) /\ n - 3 \in 1..(n - 1) /\ Top = stack[n]
        /\ g = stack[n - 1] /\ h = stack[n - 3] /\ g.at = "script" /\ h.at \in {"plan", "sub"}
        /\ Top.prev = ScopeOf(h) /\ SubInv(Top)
        /\ ret \in {"ok", "err"} /\ active = NoTarget /\ outcome = "none"
        /\ ret = "ok" => Whole(root)
  BY <1>0, <1>1, BelowSub DEF Below
<1>3. /\ subErr' = [subErr EXCEPT ![root] = ret] /\ scope' = Top.prev /\ Return(ret)
      /\ UNCHANGED <<keepGoing, cancelled, decl, bindings, requests, built, memo, active, runs, calls>>
  BY <1>2 DEF EndSubGraph, session
<1>4. /\ stack' \in Seq(Frames) /\ Len(stack') = n - 1
      /\ \A i \in 1..(n - 1) : stack'[i] = stack[i]
  BY <1>1, <1>2, <1>3, ReturnStack
<1>5. /\ subErr'[root] = ret /\ subErr[root] = "none"
      /\ \A r \in Packages \ {root} : subErr'[r] = subErr[r]
  BY <1>2, <1>3 DEF IInv, TypeOK, SubInv
<1>6. Grows
  BY <1>3 DEF Grows
<1>7. TypeOK'
  <2>1. scope' \in Toolchains \cup {MainScope}
    BY <1>1, <1>3, BelowSub, FrameType
  <2>2. subErr' \in [Packages -> {"none", "ok", "err"}] /\ outcome' \in {"none", "ok", "err"} /\ ret' = ret
    BY <1>2, <1>3 DEF IInv, TypeOK, Return
  <2>3. QED
    BY <1>2, <1>3, <1>4, <2>1, <2>2 DEF IInv, TypeOK
<1>8. \A j \in 1..(n - 1) : Kept(stack[j])
  <2>1. ASSUME NEW j \in 1..(n - 1), stack[j].at = "sub"
        PROVE  subErr'[stack[j].root] = subErr[stack[j].root]
    <3>1. j \in 1..Len(stack) /\ n \in 1..Len(stack) /\ j # n
      BY <1>2
    <3>2. stack[j].root # root
      BY <1>1, <1>2, <2>1, <3>1 DEF IInv, Distinct
    <3>3. stack[j].root \in Packages
      BY <2>1, <3>1, FrameType DEF IInv, TypeOK
    <3>4. QED
      BY <1>5, <3>2, <3>3
  <2>2. n - 1 \in 0..(Len(stack) - 1)
    BY <1>2
  <2>3. QED
    BY <1>2, <1>3, <2>1, <2>2, LowerKept
<1>9. TopInv(Len(stack))'
  <2>1. Len(stack') - 2 = n - 3 /\ Len(stack') = n - 1
    BY <1>2, <1>4
  <2>2. stack'[Len(stack')] = g /\ stack'[Len(stack') - 2] = h
    BY <1>2, <1>4, <2>1
  <2>3. QED
    BY <1>2, <1>3, <2>2 DEF TopInv, ScopeOf
<1>10. Distinct'
  <2>1. \A i \in 1..Len(stack') : i \in 1..Len(stack) /\ stack'[i] = stack[i]
    BY <1>2, <1>4
  <2>2. QED
    BY <1>4, <2>1, FewerDistinct
<1>11. DeclInv' /\ ResultInv'
  BY <1>3 DEF IInv, DeclInv, ResultInv
<1>12. SubGraphsAreWhole'
  <2>1. ASSUME NEW r \in Packages, subErr'[r] = "ok"
        PROVE  (subErr[r] = "ok" /\ requests'[r] = requests[r]) \/ Whole(r)'
    <3>1. CASE r = root
      BY <1>2, <1>3, <1>5, <1>6, <2>1, <3>1, WholeStays
    <3>2. CASE r # root
      BY <1>3, <1>5, <2>1, <3>2
    <3>3. QED
      BY <3>1, <3>2
  <2>2. QED
    BY <1>6, <2>1, WholesStay
<1>13. EndInv'
  <2>1. stack' # <<>> /\ outcome' = "none"
    BY <1>2, <1>3, <1>4 DEF Return
  <2>2. QED
    BY <2>1 DEF EndInv, SuccessIsComplete
<1>14. n - 1 \in 0..Len(stack) /\ \A i \in 1..Len(stack') : ~(i > n - 1)
  BY <1>2, <1>4
<1>15. QED
  BY <1>4, <1>6, <1>7, <1>8, <1>9, <1>10, <1>11, <1>12, <1>13, <1>14, Rebuild

(* The subgraph goes on: what its frame is replaced by, and called.        *)
LEMMA SubGoesOn ==
  ASSUME GraphAssumption, SessionAssumption, IInv, stack # <<>>, Top.at = "sub", Quiet,
         UNCHANGED outcome, stack' \in Seq(Frames), Len(stack') >= Len(stack),
         ret' \in {"none", "err"},
         \A i \in 1..(Len(stack) - 1) : stack'[i] = stack[i],
         NEW f \in Frames, f.at = "sub", f.root = Top.root, f.prev = Top.prev, stack'[Len(stack)] = f,
         \A i \in 1..Len(stack') : i > Len(stack) =>
           Plain(stack'[i]) /\ RightlyPlaced(i)' /\ FrameInv(i)',
         TopInv(Len(stack))'
  PROVE  IInv'
<1>1. PICK n \in Nat, root \in Packages, h \in Frames :
        n = Len(stack) /\ root = Top.root /\ h = stack[Len(stack) - 3]
  BY BelowSub
<1>2. /\ n > 3 /\ n \in 1..n /\ n - 1 \in 1..(n - 1) /\ n - 3 \in 1..(n - 1) /\ Top = stack[n]
      /\ Below = stack[n - 1] /\ Below.at = "script"
      /\ Top.prev = ScopeOf(h) /\ SubInv(Top) /\ outcome = "none"
  BY <1>1, BelowSub DEF Below
<1>3. UNCHANGED <<keepGoing, cancelled, decl, bindings, scope, requests, built, subErr, memo, active, runs, calls>>
  BY DEF Quiet, declaration, session
<1>4. /\ Grows /\ \A j \in 1..(n - 1) : Kept(stack[j])
      /\ ResultInv' /\ SubGraphsAreWhole'
  <2>1. n - 1 \in 0..(Len(stack) - 1)
    BY <1>1, <1>2
  <2>2. QED
    BY <1>1, <2>1, QuietGrows DEF Quiet
<1>5. TypeOK'
  BY <1>3 DEF IInv, TypeOK
<1>6. RightlyPlaced(n)'
  <2>1. stack'[n - 1] = Below /\ stack'[n] = f /\ n # 1
    <3>1. n # 1 /\ \A i \in 1..(n - 1) : stack'[i] = stack[i]
      BY <1>1, <1>2
    <3>2. stack'[n - 1] = stack[n - 1]
      BY <1>2, <3>1
    <3>3. QED
      BY <1>1, <1>2, <3>1, <3>2
  <2>2. OnTop(f, Below)
    BY <1>2 DEF OnTop
  <2>3. QED
    BY <2>1, <2>2 DEF RightlyPlaced
<1>7. FrameInv(n)'
  <2>1. stack'[n - 3] = h /\ stack'[n] = f
    BY <1>1, <1>2
  <2>2. QED
    BY <1>2, <1>3, <2>1 DEF FrameInv, SubInv, ScopeOf
<1>8. Distinct'
  <2>1. ASSUME NEW i \in 1..Len(stack'), stack'[i].at \in {"sub", "script"}
        PROVE  /\ i \in 1..Len(stack) /\ stack'[i].at = stack[i].at
               /\ stack'[i].at = "sub" => stack'[i].root = stack[i].root
               /\ stack'[i].at = "script" => stack'[i].pkg = stack[i].pkg
    <3>1. ~(i > n)
      BY <1>1, <2>1 DEF Plain
    <3>2. CASE i = n
      BY <1>1, <1>2, <3>2
    <3>3. CASE i # n
      <4>1. i \in 1..(n - 1) /\ i \in 1..n
        BY <1>2, <3>1, <3>3
      <4>2. QED
        BY <1>1, <4>1
    <3>4. QED
      BY <3>2, <3>3
  <2>2. QED
    BY <2>1, FewerDistinct
<1>9. DeclInv'
  BY <1>3 DEF IInv, DeclInv
<1>10. EndInv'
  <2>1. stack' # <<>>
    BY <1>1, <1>2
  <2>2. QED
    BY <1>2, <2>1 DEF EndInv, SuccessIsComplete
<1>11. /\ n - 1 \in 0..Len(stack)
       /\ \A i \in 1..Len(stack') : i > n - 1 => i = n \/ i > n
  BY <1>1, <1>2
<1>12. /\ \A i \in 1..Len(stack') : i > n - 1 => RightlyPlaced(i)' /\ FrameInv(i)'
       /\ \A j \in 1..(n - 1) : stack'[j] = stack[j] /\ Kept(stack[j])
  BY <1>1, <1>4, <1>6, <1>7, <1>11
<1>13. QED
  BY <1>4, <1>5, <1>8, <1>9, <1>10, <1>11, <1>12, Rebuild

LEMMA ExpandSubGraphStep ==
  ASSUME GraphAssumption, SessionAssumption, IInv, ExpandSubGraph
  PROVE  IInv'
<1>1. /\ stack # <<>> /\ Top.at = "sub" /\ Quiet /\ Top.pkgs # {} /\ ret = "ok" /\ UNCHANGED outcome
      /\ UNCHANGED <<scope, requests, bindings, decl, memo, active>>
  BY DEF ExpandSubGraph, Returned, At, Quiet, declaration, session
<1>2. PICK n \in Nat, root \in Packages, pkgs \in SUBSET Packages :
        n = Len(stack) /\ root = Top.root /\ pkgs = SubGraphPackages(Top.root, Declared)
  BY <1>1, BelowSub, SubGraphIsClosed
<1>3. /\ n > 3 /\ n + 1 # 1 /\ (n + 1) - 1 = n /\ Top \in Frames /\ scope = requests[root]
      /\ active = NoTarget /\ \A p \in Top.pkgs : Settled(p, Top)
  BY <1>1, <1>2, BelowSub
<1>4. pkgs = SubGraphPackages(root, Declared)
  BY <1>2
<1>5. root \in pkgs /\ \A p \in pkgs : PkgDeps[p] \subseteq pkgs
  BY <1>4, SubGraphIsClosed
<1>6. CASE pkgs # Top.pkgs
  <2>1. PICK f : f = [Top EXCEPT !.pkgs = pkgs]
    OBVIOUS
  <2>2. f \in Frames /\ f.at = "sub" /\ f.root = root /\ f.prev = Top.prev /\ f.pkgs = pkgs
    <3>1. Top \in Frames /\ Top.at = "sub" /\ pkgs \in SUBSET Packages /\ root = Top.root
      BY <1>1, <1>2, <1>3
    <3>2. QED
      BY <2>1, <3>1 DEF Frames
  <2>3. PICK g \in Frames : g = PackageLoop(pkgs)
    BY DEF Frames, PackageLoop
  <2>4. g.at = "loop" /\ g.filter = pkgs /\ g.next = 1
    BY <2>3 DEF PackageLoop
  <2>5. Call(f, g)
    BY <1>2, <1>6, <2>1, <2>3 DEF ExpandSubGraph
  <2>6. /\ stack' \in Seq(Frames) /\ Len(stack') = n + 1 /\ ret' = "none"
        /\ stack'[n] = f /\ stack'[n + 1] = g
        /\ \A i \in 1..(n - 1) : stack'[i] = stack[i]
    BY <1>1, <1>2, <2>2, <2>5, CallStack DEF Call
  <2>7. OnTop(g, f) /\ Plain(g)
    BY <1>5, <2>2, <2>4 DEF OnTop, Plain
  <2>8. RightlyPlaced(n + 1)'
    BY <1>3, <2>6, <2>7 DEF RightlyPlaced
  <2>9. FrameInv(n + 1)'
    <3>1. Len(PackageOrder) \in Nat /\ \A k \in 1..(g.next - 1) : FALSE
      BY <2>4, PackageOrderIsRight
    <3>2. LoopInv(g, f)'
      BY <1>5, <2>4, <3>1 DEF LoopInv
    <3>3. QED
      BY <1>3, <2>4, <2>6, <3>2 DEF FrameInv
  <2>10. TopInv(n + 1)'
    BY <1>1, <1>3, <2>2, <2>4, <2>6 DEF TopInv, ScopeOf
  <2>11. \A i \in 1..Len(stack') : i > n => i = n + 1
    BY <2>6
  <2>12. \A i \in 1..Len(stack') : i > n => Plain(stack'[i]) /\ RightlyPlaced(i)' /\ FrameInv(i)'
    BY <2>6, <2>7, <2>8, <2>9, <2>11
  <2>13. Len(stack') >= n /\ TopInv(Len(stack))'
    BY <2>6, <2>10
  <2>14. QED
    BY <1>1, <1>2, <2>2, <2>6, <2>12, <2>13, SubGoesOn
<1>7. CASE pkgs = Top.pkgs /\ GraphIsSound(pkgs)
  <2>1. PICK f : f = [Top EXCEPT !.pkgs = {}]
    OBVIOUS
  <2>2. f \in Frames /\ f.at = "sub" /\ f.root = root /\ f.prev = Top.prev /\ f.pkgs = {}
    <3>1. Top \in Frames /\ Top.at = "sub" /\ {} \in SUBSET Packages /\ root = Top.root
      BY <1>1, <1>2, <1>3
    <3>2. QED
      BY <2>1, <3>1 DEF Frames
  <2>3. PICK g \in Frames : g = TargetLoop(pkgs)
    BY TargetOrderIsRight DEF Frames, TargetLoop
  <2>4. g.at = "build" /\ g.order = TargetOrder[pkgs] /\ g.next = 1 /\ g.failed = {} /\ g.errs = FALSE
    BY <2>3 DEF TargetLoop
  <2>5. Call(f, g)
    BY <1>2, <1>7, <2>1, <2>3 DEF ExpandSubGraph
  <2>6. /\ stack' \in Seq(Frames) /\ Len(stack') = n + 1 /\ ret' = "none"
        /\ stack'[n] = f /\ stack'[n + 1] = g
        /\ \A i \in 1..(n - 1) : stack'[i] = stack[i]
    BY <1>1, <1>2, <2>2, <2>5, CallStack DEF Call
  <2>7. OnTop(g, f) /\ Plain(g)
    BY <2>2, <2>4 DEF OnTop, Plain
  <2>8. RightlyPlaced(n + 1)'
    BY <1>3, <2>6, <2>7 DEF RightlyPlaced
  <2>9. FrameInv(n + 1)'
    <3>1. pkgs \subseteq Declared /\ \A p \in pkgs : Bound(p, Top)
      BY <1>3, <1>7 DEF Settled, Declared
    <3>2. Declared' = Declared /\ SubGraphOf(f)' = pkgs
      BY <1>1, <1>4, <2>2 DEF Declared, SubGraphOf
    <3>3. \A p \in pkgs : Bound(p, f)'
      BY <1>1, <1>2, <2>2, <3>1 DEF Bound, ValueIn
    <3>4. BuildInv(g, pkgs)'
      <4>1. g.order \in Seq(Targets) /\ \A k \in 1..(g.next - 1) : FALSE
        BY <2>4, FrameType
      <4>2. Len(g.order) \in Nat
        BY <4>1
      <4>3. QED
        BY <1>7, <2>4, <3>1, <3>2, <4>1, <4>2 DEF BuildInv, GraphIsSound
    <3>5. QED
      BY <1>3, <2>4, <2>6, <3>2, <3>3, <3>4 DEF FrameInv
  <2>10. TopInv(n + 1)'
    BY <1>1, <1>3, <2>4, <2>6 DEF TopInv
  <2>11. \A i \in 1..Len(stack') : i > n => i = n + 1
    BY <2>6
  <2>12. \A i \in 1..Len(stack') : i > n => Plain(stack'[i]) /\ RightlyPlaced(i)' /\ FrameInv(i)'
    BY <2>6, <2>7, <2>8, <2>9, <2>11
  <2>13. Len(stack') >= n /\ TopInv(Len(stack))'
    BY <2>6, <2>10
  <2>14. QED
    BY <1>1, <1>2, <2>2, <2>6, <2>12, <2>13, SubGoesOn
<1>8. CASE pkgs = Top.pkgs /\ ~GraphIsSound(pkgs)
  <2>1. PICK f : f = [Top EXCEPT !.pkgs = {}]
    OBVIOUS
  <2>2. f \in Frames /\ f.at = "sub" /\ f.root = root /\ f.prev = Top.prev /\ f.pkgs = {}
    <3>1. Top \in Frames /\ Top.at = "sub" /\ {} \in SUBSET Packages /\ root = Top.root
      BY <1>1, <1>2, <1>3
    <3>2. QED
      BY <2>1, <3>1 DEF Frames
  <2>3. stack' = Append(Front(stack), f) /\ ret' = "err"
    BY <1>2, <1>8, <2>1 DEF ExpandSubGraph
  <2>4. /\ stack' \in Seq(Frames) /\ Len(stack') = n /\ stack'[n] = f
        /\ \A i \in 1..(n - 1) : stack'[i] = stack[i]
    <3>1. stack \in Seq(Frames)
      BY <1>1, AtTop
    <3>2. QED
      BY <1>1, <1>2, <2>2, <2>3, <3>1, StayEffect
  <2>5. TopInv(Len(stack))'
    BY <1>1, <1>3, <2>2, <2>3, <2>4 DEF TopInv
  <2>6. Len(stack') >= n /\ \A i \in 1..Len(stack') : ~(i > n)
    BY <2>4
  <2>7. QED
    BY <1>1, <1>2, <2>2, <2>3, <2>4, <2>5, <2>6, SubGoesOn
<1>9. QED
  BY <1>6, <1>7, <1>8

-----------------------------------------------------------------------------
(* planBuild, BuildAll, Session.Execute *)
LEMMA PlanBuildStep ==
  ASSUME GraphAssumption, SessionAssumption, IInv, PlanBuild
  PROVE  IInv'
<1>1. stack # <<>> /\ Top.at = "plan" /\ Quiet /\ ret # "none" /\ Plain(Top)
  BY DEF PlanBuild, Returned, At, Quiet, Plain
<1>2. /\ Len(stack) = 1 /\ Top = stack[1] /\ active = NoTarget
      /\ ret = "ok" => Declared = Packages
      /\ ret = "err" => cancelled \/ Declared # Packages
  <2>1. Len(stack) \in 1..Len(stack) /\ Top = stack[Len(stack)] /\ TopInv(Len(stack))
    BY <1>1, AtTop
  <2>2. Len(stack) = 1
    BY <1>1, <2>1, Chain DEF IInv
  <2>3. QED
    BY <1>1, <2>1, <2>2 DEF TopInv
<1>3. UNCHANGED <<decl, cancelled, memo, active>>
  BY <1>1 DEF Quiet, declaration, session
<1>4. CASE ret = "ok" /\ GraphIsSound(Declared) /\ Stay(TargetLoop(Declared)) /\ UNCHANGED outcome
  <2>1. Declared = Packages
    BY <1>2, <1>4
  <2>2. PICK g \in Frames : g = TargetLoop(Packages)
    BY TargetOrderIsRight DEF Frames, TargetLoop
  <2>3. g.at = "build" /\ g.order = TargetOrder[Packages] /\ g.next = 1 /\ g.failed = {} /\ g.errs = FALSE
    BY <2>2 DEF TargetLoop
  <2>4. Stay(g) /\ Plain(g) /\ ret' = "none"
    BY <1>4, <2>1, <2>2, <2>3 DEF Plain, Stay
  <2>5. BuildInv(g, Packages)'
    <3>1. g.order \in Seq(Targets) /\ \A k \in 1..(g.next - 1) : FALSE
      BY <2>3, FrameType
    <3>2. Len(g.order) \in Nat /\ Declared' = Packages
      BY <1>3, <2>1, <3>1 DEF Declared
    <3>3. QED
      BY <1>4, <2>1, <2>3, <3>1, <3>2 DEF BuildInv, GraphIsSound
  <2>6. ASSUME stack'[1] = g
        PROVE  RightlyPlaced(1)' /\ FrameInv(1)' /\ TopInv(1)'
    <3>1. RightlyPlaced(1)'
      BY <2>3, <2>6 DEF RightlyPlaced
    <3>2. FrameInv(1)'
      BY <2>3, <2>5, <2>6 DEF FrameInv
    <3>3. TopInv(1)'
      BY <1>2, <1>3, <2>3, <2>4, <2>6 DEF TopInv
    <3>4. QED
      BY <3>1, <3>2, <3>3
  <2>7. stack' \in Seq(Frames) /\ Len(stack') = Len(stack) /\ stack'[Len(stack)] = g
        /\ (\A i \in 1..(Len(stack) - 1) : stack'[i] = stack[i])
          => RightlyPlaced(Len(stack))' /\ FrameInv(Len(stack))' /\ TopInv(Len(stack))'
    BY <1>2, <2>6
  <2>8. QED
    BY <1>1, <1>4, <2>4, <2>7, QuietStay
<1>5. CASE ~(ret = "ok" /\ GraphIsSound(Declared)) /\ Return("err")
  <2>1. outcome' = "err"
    BY <1>2, <1>5 DEF Return
  <2>2. ret \in {"ok", "err"}
    BY <1>1 DEF IInv, TypeOK
  <2>3. SuccessIsComplete'
    BY <1>2, <1>3, <1>5, <2>1, <2>2 DEF SuccessIsComplete, Declared, GraphIsSound
  <2>4. QED
    BY <1>1, <1>2, <1>5, <2>3, QuietReturn
<1>6. QED
  BY <1>4, <1>5 DEF PlanBuild

(* The packages whose targets a loop builds. *)
LEMMA Building ==
  ASSUME GraphAssumption, IInv, stack # <<>>, Top.at = "build"
  PROVE  /\ Len(stack) \in Nat \ {0} /\ Len(stack) \in 1..Len(stack)
         /\ Top = stack[Len(stack)] /\ Top \in Frames
         /\ Top.order \in Seq(Targets) /\ Top.next \in Nat /\ Top.next >= 1 /\ Top.failed \in SUBSET Targets
         /\ active = NoTarget /\ outcome = "none" /\ RightlyPlaced(Len(stack))
         /\ ret # "none" => /\ Top.next <= Len(Top.order) /\ memo[LoopTarget] = ret
                            /\ LoopTarget \notin NonDefault
         /\ \E P \in SUBSET Packages :
              /\ BuildInv(Top, P)
              /\ Len(stack) = 1 => P = Packages
              /\ Len(stack) # 1 =>
                   /\ Len(stack) > 1 /\ Len(stack) - 1 \in 1..(Len(stack) - 1)
                   /\ Below \in Frames /\ Below.at = "sub" /\ Below.pkgs = {} /\ Below.root \in Packages
                   /\ P = SubGraphOf(Below) /\ \A p \in P : Bound(p, Below)
<1>1. /\ Len(stack) \in Nat \ {0} /\ Len(stack) \in 1..Len(stack) /\ Top = stack[Len(stack)]
      /\ Top \in Frames /\ FrameInv(Len(stack)) /\ TopInv(Len(stack)) /\ RightlyPlaced(Len(stack))
      /\ outcome = "none"
  BY AtTop
<1>2. Top.order \in Seq(Targets) /\ Top.next \in Nat /\ Top.failed \in SUBSET Targets
  BY <1>1, FrameType
<1>3. /\ active = NoTarget
      /\ ret # "none" => Top.next <= Len(Top.order) /\ memo[LoopTarget] = ret /\ LoopTarget \notin NonDefault
  BY <1>1 DEF TopInv, LoopTarget
<1>4. CASE Len(stack) = 1
  <2>1. BuildInv(Top, Packages)
    BY <1>1, <1>4 DEF FrameInv
  <2>2. Top.next >= 1
    BY <1>2, <2>1 DEF BuildInv
  <2>3. QED
    BY <1>1, <1>2, <1>3, <1>4, <2>1, <2>2
<1>5. CASE Len(stack) # 1
  <2>1. Len(stack) > 1 /\ Below \in Frames /\ OnTop(Top, Below) /\ Len(stack) - 1 \in 1..(Len(stack) - 1)
    <3>1. Len(stack) > 1 /\ Len(stack) - 1 \in 1..(Len(stack) - 1)
      <4>1. PICK n \in Nat \ {0} : n = Len(stack)
        BY <1>1
      <4>2. n > 1 /\ n - 1 \in 1..(n - 1)
        BY <1>5, <4>1
      <4>3. QED
        BY <4>1, <4>2
    <3>2. stack[Len(stack) - 1] \in Frames /\ OnTop(stack[Len(stack)], stack[Len(stack) - 1])
      BY <1>1, <3>1, Chain DEF IInv
    <3>3. QED
      BY <1>1, <3>1, <3>2 DEF Below
  <2>2. Below.at = "sub" /\ Below.pkgs = {}
    BY <2>1 DEF OnTop
  <2>3. Below.root \in Packages
    BY <2>1, <2>2, FrameType
  <2>4. BuildInv(Top, SubGraphOf(Below)) /\ \A p \in SubGraphOf(Below) : Bound(p, Below)
    BY <1>1, <1>5 DEF FrameInv, Below
  <2>5. SubGraphOf(Below) \in SUBSET Packages
    BY <2>3, SubGraphIsClosed DEF SubGraphOf
  <2>6. PICK P \in SUBSET Packages : P = SubGraphOf(Below)
    BY <2>5
  <2>7. Top.next >= 1
    BY <1>2, <2>4 DEF BuildInv
  <2>8. BuildInv(Top, P) /\ \A p \in P : Bound(p, Below)
    BY <2>4, <2>6
  <2>9. QED
    BY <1>1, <1>2, <1>3, <1>5, <2>1, <2>2, <2>3, <2>6, <2>7, <2>8
<1>6. QED
  BY <1>4, <1>5

LEMMA FailsWithDeps ==
  ASSUME GraphAssumption, NEW t \in Targets,
         memo[t] = "err" \/ \E d \in NodeDeps(t) \ NonDefault : Fails(d)
  PROVE  Fails(t)
<1> DEFINE E == [x \in Targets |-> NodeDeps(x) \ NonDefault]
<1>1. CASE memo[t] = "err"
  <2>1. t \in Reachable({t}, E)
    <3> HIDE DEF E
    <3>1. QED
      BY ReachableCloses
  <2>2. QED
    BY <1>1, <2>1 DEF Fails
<1>2. CASE \E d \in NodeDeps(t) \ NonDefault : Fails(d)
  <2>1. PICK d \in NodeDeps(t) \ NonDefault : Fails(d)
    BY <1>2
  <2>2. PICK e \in Reachable({d}, E) : memo[e] = "err"
    BY <2>1 DEF Fails
  <2>3. e \in Reachable({t}, E)
    <3>1. t \in DOMAIN E /\ d \in E[t]
      BY <2>1
    <3> HIDE DEF E
    <3>2. QED
      BY <2>2, <3>1, ReachableGoesOn
  <2>4. QED
    BY <2>2, <2>3 DEF Fails
<1>3. QED
  BY <1>1, <1>2

LEMMA BuildGoesOn ==
  ASSUME GraphAssumption, SessionAssumption, IInv, stack # <<>>, Top.at = "build",
         Quiet, UNCHANGED outcome, Top.next <= Len(Top.order),
         NEW f \in Frames, Stay(f), f.at = "build", f.order = Top.order, f.next = Top.next + 1,
         Top.failed \subseteq f.failed, f.failed \subseteq Top.failed \cup {LoopTarget},
         LoopTarget \in f.failed \ Top.failed => LoopTarget \notin NonDefault /\ Fails(LoopTarget),
         f.failed # {} => f.errs,
         LoopTarget \in NonDefault \cup f.failed \/ memo[LoopTarget] = "ok"
  PROVE  IInv'
<1>1. PICK n \in Nat \ {0} : n = Len(stack) /\ (n > 1 => n # 1)
  <2>1. PICK n \in Nat \ {0} : n = Len(stack)
    BY AtTop
  <2>2. \A k \in Nat : k > 1 => k # 1
    OBVIOUS
  <2>3. QED
    BY <2>1, <2>2, Zenon
<1>2. /\ Top = stack[n] /\ Top \in Frames /\ Top.order \in Seq(Targets) /\ Top.next \in Nat /\ Top.next >= 1
      /\ active = NoTarget /\ RightlyPlaced(n)
  BY <1>1, Building
<1>3. PICK P \in SUBSET Packages :
        /\ BuildInv(Top, P)
        /\ n = 1 => P = Packages
        /\ n # 1 => /\ n > 1 /\ n - 1 \in 1..(n - 1) /\ Below \in Frames /\ Below.at = "sub"
                    /\ Below.pkgs = {} /\ Below.root \in Packages
                    /\ P = SubGraphOf(Below) /\ \A p \in P : Bound(p, Below)
  BY <1>1, Building
<1>4. UNCHANGED <<decl, bindings, requests, memo, active>>
  BY DEF Quiet, declaration, session
<1>5. BuildInv(f, P)
  <2>1. f.next \in 1..(Len(f.order) + 1)
    BY <1>2, <1>3 DEF BuildInv
  <2>2. ASSUME NEW k \in 1..(f.next - 1)
        PROVE  f.order[k] \in NonDefault \cup f.failed \/ memo[f.order[k]] = "ok"
    <3>1. CASE k = Top.next
      BY <3>1 DEF LoopTarget
    <3>2. CASE k # Top.next
      <4>1. k \in 1..(Top.next - 1)
        BY <1>2, <3>2
      <4>2. QED
        BY <1>3, <4>1 DEF BuildInv
    <3>3. QED
      BY <3>1, <3>2
  <2>3. \A t \in f.failed : t \notin NonDefault /\ Fails(t)
    BY <1>3 DEF BuildInv
  <2>4. QED
    BY <1>3, <2>1, <2>2, <2>3 DEF BuildInv
<1>6. BuildInv(f, P)'
  <2>1. Grows
    BY QuietGrows DEF Quiet
  <2>2. QED
    BY <1>5, <2>1, BuildStays
<1>7. ASSUME stack' \in Seq(Frames) /\ Len(stack') = n /\ stack'[n] = f,
             \A i \in 1..(n - 1) : stack'[i] = stack[i]
      PROVE  RightlyPlaced(n)' /\ FrameInv(n)' /\ TopInv(n)'
  <2>1. n # 1 => stack'[n - 1] = Below
    BY <1>1, <1>3, <1>7 DEF Below
  <2>2. RightlyPlaced(n)'
    <3>1. n # 1 => OnTop(f, Below)
      BY <1>3 DEF OnTop
    <3>2. n > 1 => n # 1
      BY <1>1, Zenon
    <3>3. n > 1 => OnTop(f, Below) /\ stack'[n - 1] = Below
      BY <2>1, <3>1, <3>2
    <3>4. stack'[n] = f
      BY <1>7
    <3>5. QED
      BY <3>3, <3>4 DEF RightlyPlaced
  <2>3. FrameInv(n)'
    <3>1. n # 1 => SubGraphOf(Below)' = P
      BY <1>3, <1>4, <1>7, <2>1 DEF SubGraphOf, Declared, Below
    <3>2. CASE n = 1
      BY <1>3, <1>6, <1>7, <3>2 DEF FrameInv
    <3>3. CASE n # 1
      <4>1. PICK g \in Frames : g = Below
        BY <1>3, <3>3
      <4>2. SubGraphOf(g)' = P
        BY <1>3, <1>4, <3>3, <4>1 DEF SubGraphOf, Declared
      <4>3. \A p \in P : Bound(p, g)'
        BY <1>3, <1>4, <3>3, <4>1 DEF Bound, ValueIn
      <4>4. stack'[n - 1] = g
        BY <2>1, <3>3, <4>1
      <4>5. QED
        BY <1>6, <1>7, <3>3, <4>2, <4>3, <4>4 DEF FrameInv
    <3>4. QED
      BY <3>2, <3>3
  <2>4. ret' = "none"
    BY DEF Stay
  <2>5. TopInv(n)'
    BY <1>2, <1>4, <1>7, <2>4 DEF TopInv
  <2>6. QED
    BY <2>2, <2>3, <2>5
<1>8. Plain(Top) /\ Plain(f)
  BY DEF Plain
<1>9. QED
  BY <1>1, <1>7, <1>8, QuietStay

LEMMA BuildReturns ==
  ASSUME GraphAssumption, SessionAssumption, IInv, stack # <<>>, Top.at = "build", Quiet,
         NEW value \in {"ok", "err"}, Return(value),
         value = "ok" => Top.next > Len(Top.order) /\ ~Top.errs,
         value = "err" => Top.next > Len(Top.order) \/ ~keepGoing \/ cancelled
  PROVE  IInv'
<1>1. PICK n \in Nat \ {0} : n = Len(stack)
  BY AtTop
<1>2. /\ Top.order \in Seq(Targets) /\ Top.next \in Nat /\ Top.next >= 1
      /\ active = NoTarget /\ outcome = "none"
  BY Building
<1>3. PICK P \in SUBSET Packages :
        /\ BuildInv(Top, P)
        /\ n = 1 => P = Packages
        /\ n # 1 => /\ n > 1 /\ n - 1 \in 1..(n - 1) /\ Below \in Frames /\ Below.at = "sub"
                    /\ Below.pkgs = {} /\ Below.root \in Packages
                    /\ P = SubGraphOf(Below) /\ \A p \in P : Bound(p, Below)
  BY <1>1, Building
<1>4. UNCHANGED <<keepGoing, cancelled, decl, bindings, requests, memo, active>> /\ ret' = value
  BY DEF Quiet, Return, declaration, session
<1>5. ASSUME Top.next > Len(Top.order), NEW t \in TargetsOf(P) \ NonDefault
      PROVE  t \in Top.failed \/ memo[t] = "ok"
  <2>1. \E i \in 1..Len(TargetOrder[P]) : TargetOrder[P][i] = t
    BY <1>3, TargetOrderIsRight DEF BuildInv, GraphIsSound
  <2>2. PICK i \in 1..Len(Top.order) : Top.order[i] = t
    BY <1>3, <2>1 DEF BuildInv
  <2>3. i \in 1..(Top.next - 1)
    BY <1>2, <1>5
  <2>4. QED
    BY <1>3, <1>5, <2>2, <2>3 DEF BuildInv
<1>6. value = "ok" => Top.failed = {}
  BY <1>3 DEF BuildInv
<1>7. value = "ok" => \A t \in TargetsOf(P) \ NonDefault : memo[t] = "ok"
  BY <1>5, <1>6
<1>8. ASSUME n = 1 PROVE SuccessIsComplete'
  <2>1. P = Packages /\ Declared = Packages /\ TargetsOf(P) = Targets
    BY <1>3, <1>8 DEF BuildInv, Declared, TargetsOf, GraphAssumption
  <2>2. outcome' = value
    BY <1>1, <1>8 DEF Return
  <2>3. outcome' = "ok" => Declared' = Packages /\ \A t \in Targets \ NonDefault : memo'[t] = "ok"
    BY <1>4, <1>7, <2>1, <2>2 DEF Declared
  <2>4. ASSUME keepGoing', ~cancelled', NEW t \in Targets \ NonDefault, memo'[t] = "none"
        PROVE  Fails(t)
    <3>1. Top.next > Len(Top.order)
      BY <1>4, <2>4
    <3>2. t \in Top.failed
      BY <1>4, <1>5, <2>1, <2>4, <3>1
    <3>3. QED
      BY <1>3, <3>2 DEF BuildInv
  <2>5. \A t \in Targets : Fails(t) =>
          \E d \in Reachable({t}, [x \in Targets |-> NodeDeps(x) \ NonDefault]) : memo'[d] = "err"
    BY <1>4 DEF Fails
  <2>6. QED
    BY <2>3, <2>4, <2>5 DEF SuccessIsComplete
<1>9. ASSUME n # 1 PROVE TopInv(Len(stack))'
  <2>1. /\ stack' \in Seq(Frames) /\ Len(stack') = n - 1
        /\ \A i \in 1..(n - 1) : stack'[i] = stack[i]
    BY <1>1, ReturnStack
  <2>2. PICK g \in Frames : g = Below
    BY <1>3, <1>9
  <2>3. g.at = "sub" /\ g.pkgs = {} /\ g.root \in Packages /\ P = SubGraphOf(g) /\ \A p \in P : Bound(p, g)
    BY <1>3, <1>9, <2>2
  <2>4. stack'[Len(stack')] = g
    BY <1>1, <1>3, <1>9, <2>1, <2>2 DEF Below
  <2>5. value = "ok" => Whole(g.root)
    <3>1. P = SubGraphPackages(g.root, Declared) /\ P \subseteq Declared
      BY <1>3, <2>3 DEF SubGraphOf, BuildInv
    <3>2. \A p \in P : bindings[p] = ValueIn(p, requests[g.root])
      BY <2>3 DEF Bound
    <3>3. QED
      BY <1>7, <3>1, <3>2 DEF Whole
  <2>6. value = "ok" => Whole(g.root)'
    BY <1>4, <2>5 DEF Whole, Declared, ValueIn
  <2>7. QED
    BY <1>2, <1>4, <2>3, <2>4, <2>6 DEF TopInv
<1>10. Plain(Top)
  BY DEF Plain
<1>11. CASE n = 1
  <2>1. ~(Len(stack) > 1) /\ SuccessIsComplete'
    BY <1>1, <1>8, <1>11
  <2>2. QED
    BY <1>10, <2>1, QuietReturn
<1>12. CASE n # 1
  <2>1. TopInv(Len(stack))'
    BY <1>9, <1>12
  <2>2. Len(stack) # 1
    BY <1>1, <1>12
  <2>3. QED
    BY <1>10, <2>1, <2>2, QuietReturn
<1>13. QED
  BY <1>11, <1>12

LEMMA EndBuildAllStep ==
  ASSUME GraphAssumption, SessionAssumption, IInv, EndBuildAll
  PROVE  IInv'
<1>1. stack # <<>> /\ Top.at = "build" /\ Quiet
  BY DEF EndBuildAll, Called, At, Quiet
<1>2. CASE Top.next > Len(Top.order) /\ Return(IF Top.errs THEN "err" ELSE "ok")
  BY <1>1, <1>2, BuildReturns
<1>3. CASE cancelled /\ Return("err")
  BY <1>1, <1>3, BuildReturns
<1>4. QED
  BY <1>2, <1>3 DEF EndBuildAll

LEMMA SkipTargetStep ==
  ASSUME GraphAssumption, SessionAssumption, IInv, SkipTarget
  PROVE  IInv'
<1>1. stack # <<>> /\ Top.at = "build" /\ Quiet /\ UNCHANGED outcome /\ Top.next <= Len(Top.order)
  BY DEF SkipTarget, Called, At, Quiet
<1>2. /\ Top \in Frames /\ Top.order \in Seq(Targets) /\ Top.next \in Nat /\ Top.next >= 1
      /\ Top.failed \in SUBSET Targets /\ Top.errs \in BOOLEAN
  BY <1>1, Building, FrameType
<1>3. \A t \in Top.failed : t \notin NonDefault /\ Fails(t)
  BY <1>1, Building DEF BuildInv
<1>4. Top.failed # {} => Top.errs
  BY <1>1, Building DEF BuildInv
<1>5. LoopTarget \in Targets
  BY <1>1, <1>2 DEF LoopTarget
<1>6. CASE LoopTarget \in NonDefault /\ Stay([Top EXCEPT !.next = @ + 1])
  <2>1. PICK f : f = NextTarget(Top, Top.failed, Top.errs)
    OBVIOUS
  <2>2. /\ f \in Frames /\ f.at = "build" /\ f.order = Top.order /\ f.next = Top.next + 1
        /\ f.failed = Top.failed /\ f.errs = Top.errs
    BY <1>1, <1>2, <2>1, NextBuild
  <2>3. f = [Top EXCEPT !.next = @ + 1]
    BY <1>1, <1>2, <2>1 DEF Frames, NextTarget
  <2>4. Stay(f)
    BY <1>6, <2>3
  <2>5. QED
    BY <1>1, <1>4, <1>6, <2>2, <2>4, BuildGoesOn
<1>7. CASE /\ LoopTarget \notin NonDefault /\ DepsFailed(Top, LoopTarget)
           /\ Stay([Top EXCEPT !.next = @ + 1, !.failed = @ \cup {LoopTarget}])
  <2>1. PICK f : f = NextTarget(Top, Top.failed \cup {LoopTarget}, Top.errs)
    OBVIOUS
  <2>2. /\ f \in Frames /\ f.at = "build" /\ f.order = Top.order /\ f.next = Top.next + 1
        /\ f.failed = Top.failed \cup {LoopTarget} /\ f.errs = Top.errs
    <3>1. PICK more \in SUBSET Targets : more = Top.failed \cup {LoopTarget}
      BY <1>2, <1>5
    <3>2. PICK errs \in BOOLEAN : errs = Top.errs
      BY <1>2
    <3>3. f = NextTarget(Top, more, errs)
      BY <2>1, <3>1, <3>2
    <3>4. /\ f \in Frames /\ f.at = "build" /\ f.order = Top.order /\ f.next = Top.next + 1
          /\ f.failed = more /\ f.errs = errs
      BY <1>1, <1>2, <3>3, NextBuild
    <3>5. QED
      BY <3>1, <3>2, <3>4
  <2>3. f = [Top EXCEPT !.next = @ + 1, !.failed = @ \cup {LoopTarget}]
    BY <1>1, <1>2, <2>1 DEF Frames, NextTarget
  <2>4. Stay(f)
    BY <1>7, <2>3
  <2>5. Fails(LoopTarget) /\ Top.errs
    <3>1. PICK d \in NodeDeps(LoopTarget) : d \in Top.failed
      BY <1>7 DEF DepsFailed
    <3>2. QED
      BY <1>3, <1>4, <1>5, <3>1, FailsWithDeps
  <2>6. QED
    BY <1>1, <1>7, <2>2, <2>4, <2>5, BuildGoesOn
<1>8. QED
  BY <1>6, <1>7 DEF SkipTarget

LEMMA CountStep ==
  ASSUME GraphAssumption, SessionAssumption, IInv, stack # <<>>, Top.at = "build", Quiet,
         Top.next <= Len(Top.order), LoopTarget \notin NonDefault,
         NEW result \in {"ok", "err"}, Count(result), memo[LoopTarget] = result
  PROVE  IInv'
<1>1. /\ Top \in Frames /\ Top.order \in Seq(Targets) /\ Top.next \in Nat /\ Top.next >= 1
      /\ Top.failed \in SUBSET Targets /\ Top.errs \in BOOLEAN
  BY Building, FrameType
<1>2. Top.failed # {} => Top.errs
  BY Building DEF BuildInv
<1>3. LoopTarget \in Targets
  BY <1>1 DEF LoopTarget
<1>4. CASE result = "err" /\ (~keepGoing \/ cancelled)
  <2>1. Return("err")
    BY <1>4 DEF Count
  <2>2. QED
    BY <1>4, <2>1, BuildReturns
<1>5. CASE ~(result = "err" /\ (~keepGoing \/ cancelled))
  <2> DEFINE failed == IF result = "err" THEN Top.failed \cup {LoopTarget} ELSE Top.failed
             errs == Top.errs \/ result = "err"
  <2>1. PICK f : f = NextTarget(Top, failed, errs)
    OBVIOUS
  <2>2. failed \in SUBSET Targets /\ errs \in BOOLEAN
    BY <1>1, <1>3
  <2>3. Stay(f) /\ UNCHANGED outcome
    BY <1>5, <2>1 DEF Count, NextTarget
  <2>4. /\ Top.failed \subseteq failed /\ failed \subseteq Top.failed \cup {LoopTarget}
        /\ LoopTarget \in failed \ Top.failed => memo[LoopTarget] = "err"
        /\ failed # {} => errs
        /\ LoopTarget \in failed \/ memo[LoopTarget] = "ok"
    BY <1>2
  <2> HIDE DEF failed, errs
  <2>5. /\ f \in Frames /\ f.at = "build" /\ f.order = Top.order /\ f.next = Top.next + 1
        /\ f.failed = failed /\ f.errs = errs
    BY <1>1, <2>1, <2>2, NextBuild
  <2>6. LoopTarget \in f.failed \ Top.failed => LoopTarget \notin NonDefault /\ Fails(LoopTarget)
    BY <1>3, <2>4, <2>5, FailsWithDeps
  <2>7. QED
    BY <2>3, <2>4, <2>5, <2>6, BuildGoesOn
<1>6. QED
  BY <1>4, <1>5

LEMMA RecallTargetStep ==
  ASSUME GraphAssumption, SessionAssumption, IInv, RecallTarget
  PROVE  IInv'
<1>1. /\ stack # <<>> /\ Top.at = "build" /\ Quiet /\ Top.next <= Len(Top.order)
      /\ LoopTarget \notin NonDefault
  BY DEF RecallTarget, CanBuild, Called, At, Quiet
<1>2. active = NoTarget /\ LoopTarget \in Targets
  BY <1>1, Building DEF LoopTarget
<1>3. memo[LoopTarget] \in {"ok", "err"}
  <2>1. memo[LoopTarget] # "none"
    BY <1>2 DEF RecallTarget, Remembered
  <2>2. memo[LoopTarget] # "running"
    BY <1>2 DEF IInv, ResultInv, SessionAssumption
  <2>3. QED
    BY <1>2, <2>1, <2>2 DEF IInv, TypeOK
<1>4. PICK result \in {"ok", "err"} : memo[LoopTarget] = result
  BY <1>3
<1>5. Count(result)
  BY <1>2, <1>4 DEF RecallTarget
<1>6. QED
  BY <1>1, <1>4, <1>5, CountStep

LEMMA AfterTargetStep ==
  ASSUME GraphAssumption, SessionAssumption, IInv, AfterTarget
  PROVE  IInv'
<1>1. /\ stack # <<>> /\ Top.at = "build" /\ Quiet /\ ret # "none" /\ Count(ret)
  BY DEF AfterTarget, Returned, At, Quiet
<1>2. ret \in {"ok", "err"}
  BY <1>1 DEF IInv, TypeOK
<1>3. Top.next <= Len(Top.order) /\ memo[LoopTarget] = ret /\ LoopTarget \notin NonDefault
  BY <1>1, Building
<1>4. QED
  BY <1>1, <1>2, <1>3, CountStep

(* All that a target depends on is built when its turn comes.              *)
LEMMA DepsAreBuilt ==
  ASSUME GraphAssumption, IInv, stack # <<>>, Top.at = "build", Top.next <= Len(Top.order),
         ~DepsFailed(Top, LoopTarget)
  PROVE  LoopTarget \in Targets /\ \A d \in NodeDeps(LoopTarget) \ NonDefault : memo[d] = "ok"
<1>1. Top.order \in Seq(Targets) /\ Top.next \in Nat /\ Top.next >= 1
  BY Building
<1>2. PICK P \in SUBSET Packages : BuildInv(Top, P)
  BY Building
<1>3. Top.next \in 1..Len(Top.order)
  BY <1>1
<1>4. LoopTarget \in Targets
  BY <1>1, <1>3 DEF LoopTarget
<1>5. LoopTarget \in TargetsOf(P)
  <2>1. Top.order \in Seq(TargetsOf(P))
    BY <1>2, TargetOrderIsRight DEF BuildInv
  <2>2. QED
    BY <1>3, <2>1 DEF LoopTarget
<1>6. ASSUME NEW d \in NodeDeps(LoopTarget) \ NonDefault PROVE memo[d] = "ok"
  <2>1. d \in NodeDeps(LoopTarget) \cap TargetsOf(P)
    BY <1>2, <1>5, <1>6 DEF BuildInv, GraphIsSound
  <2>2. \E j \in 1..(Top.next - 1) : TargetOrder[P][j] = d
    <3>1. PICK t, k : t = LoopTarget /\ k = Top.next
      OBVIOUS
    <3>2. k \in 1..Len(TargetOrder[P]) /\ t = TargetOrder[P][k]
      BY <1>2, <1>3, <3>1 DEF BuildInv, LoopTarget
    <3>3. d \in NodeDeps(t) \cap TargetsOf(P)
      BY <2>1, <3>1
    <3>4. \A i \in 1..Len(TargetOrder[P]) : \A e \in NodeDeps(TargetOrder[P][i]) \cap TargetsOf(P) :
            \E j \in 1..(i - 1) : TargetOrder[P][j] = e
      BY TargetOrderIsRight
    <3>5. d \in NodeDeps(TargetOrder[P][k]) \cap TargetsOf(P)
      BY <3>2, <3>3
    <3>6. \E j \in 1..(k - 1) : TargetOrder[P][j] = d
      BY <3>2, <3>4, <3>5
    <3>7. QED
      BY <3>1, <3>6
  <2>3. PICK j \in 1..(Top.next - 1) : Top.order[j] = d
    BY <1>2, <2>2 DEF BuildInv
  <2>4. d \notin Top.failed
    BY <2>1 DEF DepsFailed
  <2>5. QED
    BY <1>2, <1>6, <2>3, <2>4 DEF BuildInv
<1>7. QED
  BY <1>4, <1>6

LEMMA ExecuteTargetStep ==
  ASSUME GraphAssumption, SessionAssumption, IInv, ExecuteTarget
  PROVE  IInv'
<1>0. /\ stack # <<>> /\ Top.at = "build" /\ Top.next <= Len(Top.order)
      /\ LoopTarget \notin NonDefault /\ ~DepsFailed(Top, LoopTarget)
      /\ active = NoTarget /\ memo[LoopTarget] = "none"
  BY DEF ExecuteTarget, CanBuild, Called, At, Remembered
<1>1. /\ LoopTarget \in Targets
      /\ \A d \in NodeDeps(LoopTarget) \ NonDefault : memo[d] = "ok"
  BY <1>0, DepsAreBuilt
<1>2. PICK n \in Nat, t \in Targets : n = Len(stack) /\ t = LoopTarget
  BY <1>0, <1>1, AtTop
<1>3. /\ n \in 1..n /\ n + 1 # 1 /\ (n + 1) - 1 = n /\ Top = stack[n] /\ Top \in Frames
      /\ t = Top.order[Top.next] /\ outcome = "none"
  BY <1>0, <1>2, AtTop DEF LoopTarget
<1>4. /\ memo' = [memo EXCEPT ![t] = "running"] /\ active' = t /\ runs' = [runs EXCEPT ![t] = @ + 1]
      /\ Call(Top, [at |-> "target", target |-> t])
      /\ UNCHANGED <<keepGoing, cancelled, decl, bindings, scope, requests, built, subErr, outcome, calls>>
  BY <1>2 DEF ExecuteTarget, declaration
<1>5. PICK g \in Frames : g = [at |-> "target", target |-> t]
  BY DEF Frames
<1>6. g.at = "target" /\ g.target = t
  BY <1>5
<1>7. /\ stack' \in Seq(Frames) /\ Len(stack') = n + 1 /\ ret' = "none"
      /\ stack'[n] = Top /\ stack'[n + 1] = g
      /\ \A i \in 1..(n - 1) : stack'[i] = stack[i]
  BY <1>0, <1>2, <1>3, <1>4, <1>5, CallStack DEF Call
<1>8. \A i \in 1..n : stack'[i] = stack[i]
  <2>1. \A i \in 1..n : i = n \/ i \in 1..(n - 1)
    BY <1>2
  <2>2. QED
    BY <1>3, <1>7, <2>1, Zenon
<1>9. /\ memo \in [Targets -> {"none", "running", "ok", "err"}] /\ runs \in [Targets -> Nat]
      /\ memo'[t] = "running" /\ \A x \in Targets \ {t} : memo'[x] = memo[x] /\ runs'[x] = runs[x]
      /\ runs'[t] = runs[t] + 1 /\ memo[t] = "none"
  BY <1>0, <1>2, <1>4 DEF IInv, TypeOK
<1>10. Grows
  BY <1>4, <1>9 DEF Grows
<1>11. TypeOK'
  BY <1>4, <1>7 DEF IInv, TypeOK
<1>12. \A j \in 1..n : Kept(stack[j])
  <2>1. \A j \in 1..(n - 1) : Kept(stack[j])
    <3>1. n - 1 \in 0..(Len(stack) - 1)
      BY <1>2, <1>3
    <3>2. QED
      BY <1>4, <3>1, LowerKept
  <2>2. Kept(stack[n])
    BY <1>0, <1>3 DEF Kept
  <2>3. QED
    BY <1>3, <2>1, <2>2
<1>13. RightlyPlaced(n + 1)'
  BY <1>0, <1>3, <1>6, <1>7 DEF RightlyPlaced, OnTop
<1>14. FrameInv(n + 1)'
  <2>1. \A d \in NodeDeps(t) \ NonDefault : memo'[d] = "ok"
    BY <1>1, <1>2, <1>9, NodeDepsType
  <2>2. t \notin NonDefault
    BY <1>0, <1>2
  <2>3. QED
    BY <1>4, <1>6, <1>7, <1>9, <2>1, <2>2 DEF FrameInv, TargetInv
<1>15. TopInv(Len(stack))'
  BY <1>6, <1>7 DEF TopInv
<1>16. Distinct'
  <2>1. \A i \in 1..Len(stack') : i \in 1..n \/ i = n + 1
    BY <1>3, <1>7
  <2>2. \A i \in 1..Len(stack') : stack'[i].at \in {"sub", "script"} =>
          i \in 1..Len(stack) /\ stack'[i] = stack[i]
    BY <1>2, <1>6, <1>7, <1>8, <2>1
  <2>3. QED
    BY <1>7, <2>2, FewerDistinct
<1>17. DeclInv'
  BY <1>4 DEF IInv, DeclInv
<1>18. ResultInv'
  <2>1. ASSUME NEW x \in Targets
        PROVE  runs'[x] <= 1 /\ (memo'[x] = "none" => runs'[x] = 0) /\ (memo'[x] = "running" => active' = x)
    <3>1. CASE x = t
      BY <1>4, <1>9, <3>1 DEF IInv, ResultInv
    <3>2. CASE x # t
      BY <1>0, <1>9, <3>2 DEF IInv, ResultInv, SessionAssumption
    <3>3. QED
      BY <3>1, <3>2
  <2>2. QED
    BY <2>1 DEF ResultInv
<1>19. SubGraphsAreWhole'
  BY <1>4, <1>10, WholesStay
<1>20. EndInv'
  <2>1. stack' # <<>>
    BY <1>7
  <2>2. QED
    BY <1>3, <1>4, <2>1 DEF EndInv, SuccessIsComplete
<1>21. n \in 0..Len(stack) /\ \A i \in 1..Len(stack') : i > n => i = n + 1
  BY <1>2, <1>3, <1>7
<1>22. QED
  BY <1>8, <1>10, <1>11, <1>12, <1>13, <1>14, <1>15, <1>16, <1>17, <1>18, <1>19, <1>20, <1>21, Rebuild

LEMMA TargetEndsStep ==
  ASSUME GraphAssumption, SessionAssumption, IInv, NEW result \in {"ok", "err"}, TargetEnds(result)
  PROVE  IInv'
<1>0. stack # <<>> /\ Top.at = "target"
  BY DEF TargetEnds, At
<1>1. PICK n \in Nat \ {0} : n = Len(stack)
  BY <1>0, AtTop
<1>2. n \in 1..n /\ Top = stack[n] /\ Top \in Frames /\ TargetInv(Top) /\ outcome = "none"
  BY <1>0, <1>1, AtTop DEF FrameInv
<1>3. n > 1 /\ stack[n - 1] \in Frames /\ stack[n - 1].at = "build" /\ OnTop(stack[n], stack[n - 1])
  BY <1>0, <1>1, <1>2, Chain DEF IInv
<1>4. PICK t \in Targets, g \in Frames : t = Top.target /\ g = stack[n - 1]
  BY <1>0, <1>2, <1>3, FrameType
<1>5. /\ g.at = "build" /\ g.next <= Len(g.order) /\ t = g.order[g.next]
      /\ active = t /\ memo[t] = "running" /\ t \notin NonDefault
  BY <1>0, <1>2, <1>3, <1>4 DEF OnTop, TargetInv
<1>6. PICK value \in {"ok", "err"} : value = IF cancelled THEN "err" ELSE result
  OBVIOUS
<1>7. /\ memo' = [memo EXCEPT ![t] = value] /\ Return(value) /\ active' = NoTarget
      /\ UNCHANGED <<keepGoing, cancelled, decl, bindings, scope, requests, built, subErr, runs, calls>>
  BY <1>4, <1>6 DEF TargetEnds, declaration
<1>8. /\ stack' \in Seq(Frames) /\ Len(stack') = n - 1
      /\ \A i \in 1..(n - 1) : stack'[i] = stack[i]
  BY <1>0, <1>1, <1>7, ReturnStack
<1>9. /\ memo'[t] = value /\ \A x \in Targets \ {t} : memo'[x] = memo[x]
  BY <1>7 DEF IInv, TypeOK
<1>10. Grows
  BY <1>5, <1>7, <1>9 DEF Grows
<1>11. TypeOK'
  <2>1. outcome' \in {"none", "ok", "err"} /\ ret' = value
    BY <1>2, <1>7 DEF Return
  <2>2. QED
    BY <1>7, <1>8, <2>1 DEF IInv, TypeOK
<1>12. \A j \in 1..(n - 1) : Kept(stack[j])
  <2>1. n - 1 \in 0..(Len(stack) - 1)
    BY <1>1
  <2>2. QED
    BY <1>7, <2>1, LowerKept
<1>13. TopInv(Len(stack))'
  <2>1. stack'[Len(stack')] = g /\ ret' = value
    BY <1>3, <1>4, <1>7, <1>8 DEF Return
  <2>2. QED
    BY <1>5, <1>7, <1>9, <2>1 DEF TopInv
<1>14. Distinct'
  <2>1. \A i \in 1..Len(stack') : i \in 1..Len(stack) /\ stack'[i] = stack[i]
    BY <1>1, <1>8
  <2>2. QED
    BY <1>8, <2>1, FewerDistinct
<1>15. DeclInv'
  BY <1>7 DEF IInv, DeclInv
<1>16. ResultInv'
  <2>1. ASSUME NEW x \in Targets
        PROVE  runs'[x] <= 1 /\ (memo'[x] = "none" => runs'[x] = 0) /\ memo'[x] # "running"
    <3>1. CASE x = t
      BY <1>7, <1>9, <3>1 DEF IInv, ResultInv
    <3>2. CASE x # t
      BY <1>5, <1>7, <1>9, <3>2 DEF IInv, ResultInv
    <3>3. QED
      BY <3>1, <3>2
  <2>2. QED
    BY <2>1 DEF ResultInv
<1>17. SubGraphsAreWhole'
  BY <1>7, <1>10, WholesStay
<1>18. EndInv'
  <2>1. stack' # <<>>
    BY <1>1, <1>3, <1>8
  <2>2. outcome' = "none"
    BY <1>1, <1>2, <1>3, <1>7 DEF Return
  <2>3. QED
    BY <2>1, <2>2 DEF EndInv, SuccessIsComplete
<1>19. n - 1 \in 0..Len(stack) /\ \A i \in 1..Len(stack') : ~(i > n - 1)
  BY <1>1, <1>8
<1>20. QED
  BY <1>8, <1>10, <1>11, <1>12, <1>13, <1>14, <1>15, <1>16, <1>17, <1>18, <1>19, Rebuild

-----------------------------------------------------------------------------
(* The invariant *)
LEMMA SameFrame ==
  ASSUME UNCHANGED <<stack, decl, bindings, requests, built, subErr, memo, active>>,
         NEW i \in 1..Len(stack), FrameInv(i)
  PROVE  FrameInv(i)'
<1>1. CASE stack[i].at = "loop"
  BY <1>1 DEF FrameInv, LoopInv, Settled, Bound, ValueIn
<1>2. CASE stack[i].at = "script"
  BY <1>2 DEF FrameInv, Bound, ValueIn
<1>3. CASE stack[i].at = "sub"
  BY <1>3 DEF FrameInv, SubInv, ScopeOf
<1>4. CASE stack[i].at = "build"
  <2>1. CASE i = 1
    BY <1>4, <2>1 DEF FrameInv, BuildInv, Fails, GraphIsSound, Declared
  <2>2. CASE i # 1
    <3>1. PICK f, g, P : f = stack[i - 1] /\ g = stack[i] /\ P = SubGraphOf(f)
      OBVIOUS
    <3>2. BuildInv(g, P) /\ \A p \in P : Bound(p, f)
      BY <1>4, <2>2, <3>1 DEF FrameInv
    <3>3. BuildInv(g, P)' /\ \A p \in P : Bound(p, f)'
      BY <3>2 DEF BuildInv, Fails, GraphIsSound, Declared, Bound, ValueIn
    <3>4. SubGraphOf(f)' = P
      BY <3>1 DEF SubGraphOf, Declared
    <3>5. f = stack'[i - 1] /\ g = stack'[i]
      BY <3>1
    <3>6. QED
      BY <1>4, <2>2, <3>1, <3>3, <3>4, <3>5 DEF FrameInv
  <2>3. QED
    BY <2>1, <2>2
<1>5. CASE stack[i].at = "target"
  BY <1>5 DEF FrameInv, TargetInv
<1>6. QED
  BY <1>1, <1>2, <1>3, <1>4, <1>5 DEF FrameInv

LEMMA CancelStep ==
  ASSUME IInv, Cancel
  PROVE  IInv'
<1>1. /\ outcome = "none" /\ cancelled' = TRUE
      /\ UNCHANGED <<keepGoing, stack, ret, decl, bindings, scope, requests, built, subErr,
                     memo, active, runs, outcome, calls>>
  BY DEF Cancel, declaration, session
<1>2. TypeOK'
  BY <1>1 DEF IInv, TypeOK
<1>3. StackInv' /\ Distinct' /\ DeclInv' /\ ResultInv' /\ SubGraphsAreWhole'
  BY <1>1 DEF IInv, StackInv, Distinct, DeclInv, ResultInv, SubGraphsAreWhole, Declared, ValueIn
<1>4. \A i \in 1..Len(stack') : FrameInv(i)'
  <2>1. TAKE i \in 1..Len(stack')
  <2>2. i \in 1..Len(stack) /\ FrameInv(i)
    BY <1>1 DEF IInv
  <2>3. QED
    BY <1>1, <2>2, SameFrame
<1>5. stack' # <<>> => TopInv(Len(stack))'
  BY <1>1 DEF IInv, TopInv, Settled, Bound, ValueIn, ScopeOf, Declared, Whole
<1>6. EndInv'
  BY <1>1 DEF IInv, EndInv, SuccessIsComplete
<1>7. QED
  BY <1>2, <1>3, <1>4, <1>5, <1>6 DEF IInv

LEMMA RestStep ==
  ASSUME IInv, UNCHANGED vars
  PROVE  IInv'
<1>1. UNCHANGED <<keepGoing, cancelled, stack, ret, decl, bindings, scope, requests, built, subErr,
                  memo, active, runs, outcome, calls>>
  BY DEF vars, declaration, session
<1>2. TypeOK'
  BY <1>1 DEF IInv, TypeOK
<1>3. StackInv' /\ Distinct' /\ DeclInv' /\ ResultInv' /\ SubGraphsAreWhole'
  BY <1>1 DEF IInv, StackInv, Distinct, DeclInv, ResultInv, SubGraphsAreWhole, Declared, ValueIn
<1>4. \A i \in 1..Len(stack') : FrameInv(i)'
  <2>1. TAKE i \in 1..Len(stack')
  <2>2. i \in 1..Len(stack) /\ FrameInv(i)
    BY <1>1 DEF IInv
  <2>3. QED
    BY <1>1, <2>2, SameFrame
<1>5. stack' # <<>> => TopInv(Len(stack))'
  BY <1>1 DEF IInv, TopInv, Settled, Bound, ValueIn, ScopeOf, Declared, Whole
<1>6. EndInv'
  BY <1>1 DEF IInv, EndInv, SuccessIsComplete, Declared, GraphIsSound
<1>7. QED
  BY <1>2, <1>3, <1>4, <1>5, <1>6 DEF IInv

LEMMA Starts ==
  ASSUME GraphAssumption, SessionAssumption, Init
  PROVE  IInv
<1>1. PICK f \in Frames, g \in Frames : f = [at |-> "plan"] /\ g = PackageLoop(Packages)
  BY DEF Frames, PackageLoop
<1>2. f.at = "plan" /\ g.at = "loop" /\ g.filter = Packages /\ g.next = 1
  BY <1>1 DEF PackageLoop
<1>3. stack = <<f, g>> /\ stack \in Seq(Frames) /\ Len(stack) = 2 /\ stack[1] = f /\ stack[2] = g /\ stack # <<>>
  BY <1>1 DEF Init
<1>4. \A i \in 1..2 : i = 1 \/ i = 2
  OBVIOUS
<1>5. TypeOK
  <2>1. active = NoTarget /\ calls \in 0..MaxCalls
    BY DEF Init, SessionAssumption
  <2>2. /\ decl \in [Packages -> {"no", "running", "declared", "failed"}]
        /\ bindings \in [Packages -> Toolchains \cup {Unbound}]
        /\ requests \in [Packages -> Toolchains \cup {Unbound}]
        /\ subErr \in [Packages -> {"none", "ok", "err"}]
        /\ memo \in [Targets -> {"none", "running", "ok", "err"}]
        /\ runs \in [Targets -> Nat]
    BY DEF Init
  <2>3. QED
    BY <1>3, <2>1, <2>2 DEF Init, TypeOK
<1>6. StackInv
  <2>1. \A i \in 2..Len(stack) : i = 2 /\ i - 1 = 1
    BY <1>3
  <2>2. OnTop(g, f)
    BY <1>2 DEF OnTop
  <2>3. QED
    BY <1>2, <1>3, <2>1, <2>2 DEF StackInv
<1>7. \A i \in 1..Len(stack) : FrameInv(i)
  <2>1. FrameInv(1)
    BY <1>2, <1>3 DEF FrameInv
  <2>2. LoopInv(g, f)
    <3>1. Len(PackageOrder) \in Nat /\ \A k \in 1..(g.next - 1) : FALSE
      BY <1>2, PackageOrderIsRight
    <3>2. \A p \in Packages : PkgDeps[p] \subseteq Packages
      BY DEF GraphAssumption
    <3>3. QED
      BY <1>2, <3>1, <3>2 DEF LoopInv
  <2>3. FrameInv(2)
    BY <1>2, <1>3, <2>2 DEF FrameInv
  <2>4. QED
    BY <1>3, <1>4, <2>1, <2>3
<1>8. TopInv(Len(stack))
  BY <1>2, <1>3 DEF TopInv, ScopeOf, Init
<1>9. Distinct
  BY <1>2, <1>3, <1>4 DEF Distinct
<1>10. DeclInv /\ ResultInv /\ SubGraphsAreWhole
  BY DEF Init, DeclInv, ResultInv, SubGraphsAreWhole
<1>11. EndInv
  BY <1>3 DEF Init, EndInv, SuccessIsComplete
<1>12. QED
  BY <1>3, <1>5, <1>6, <1>7, <1>8, <1>9, <1>10, <1>11 DEF IInv

LEMMA Steps ==
  ASSUME GraphAssumption, SessionAssumption, IInv, [Next]_vars
  PROVE  IInv'
<1>1. CASE Cancel
  BY <1>1, CancelStep
<1>2. CASE DeclareStep
  BY <1>2, EndLoopStep, SkipPackageStep, RevisitPackageStep, DeclarePackageStep, AfterPackageStep,
     ExpandSubGraphStep, EndSubGraphStep DEF DeclareStep
<1>3. CASE ScriptStep
  BY <1>3, ScriptEndsStep, TargetEndsStep, CallSubGraphStep DEF ScriptStep
<1>4. CASE BuildStep
  BY <1>4, PlanBuildStep, EndBuildAllStep, SkipTargetStep, RecallTargetStep, ExecuteTargetStep,
     AfterTargetStep DEF BuildStep
<1>5. CASE Rest \/ UNCHANGED vars
  BY <1>5, RestStep DEF Rest
<1>6. QED
  BY <1>1, <1>2, <1>3, <1>4, <1>5 DEF Next

(* What every call on the stack relies on holds in every state of a build. *)
THEOREM Invariant == Spec => []IInv
<1>1. Init => IInv
  BY GraphAssumption, SessionAssumption, Starts
<1>2. IInv /\ [Next]_vars => IInv'
  BY GraphAssumption, SessionAssumption, Steps
<1>3. QED
  BY <1>1, <1>2, PTL DEF Spec

(* Every variable holds a value of its kind. *)
THEOREM TypeHolds == Spec => []TypeOK
<1>1. IInv => TypeOK
  BY DEF IInv
<1>2. QED
  BY <1>1, Invariant, PTL

(* A target is executed once per session, in however many subgraphs it     *)
(* appears, and never while another one runs (Session.Execute).            *)
THEOREM ExecutedOnce == Spec => []OncePerSession
<1>1. ASSUME IInv PROVE OncePerSession
  <2>1. \A t \in Targets : runs[t] <= 1
    BY <1>1 DEF IInv, ResultInv
  <2>2. ASSUME NEW i \in 1..Len(stack), stack[i].at = "target" PROVE i = Len(stack)
    <3>1. ~(i < Len(stack)) /\ i \in Nat /\ Len(stack) \in Nat
      BY <1>1, <2>2, Chain DEF IInv
    <3>2. QED
      BY <3>1
  <2>3. DOMAIN stack = 1..Len(stack)
    BY <1>1 DEF IInv, TypeOK
  <2>4. \A f, g \in OnStack("target") : f = g
    BY <2>2, <2>3 DEF OnStack
  <2>5. QED
    BY <2>1, <2>4 DEF OncePerSession
<1>2. QED
  BY <1>1, Invariant, PTL

(* A target runs when all it depends on is built, in whichever graph it    *)
(* was reached, and a script when all its package requires is declared.    *)
THEOREM DepsComeFirst == Spec => []RunsOnBuiltDeps
<1>1. ASSUME IInv PROVE RunsOnBuiltDeps
  <2>1. DOMAIN stack = 1..Len(stack)
    BY <1>1 DEF IInv, TypeOK
  <2>2. \A f \in OnStack("target") : TargetInv(f)
    BY <1>1, <2>1 DEF OnStack, IInv, FrameInv
  <2>3. QED
    BY <1>1, <2>2 DEF RunsOnBuiltDeps, TargetInv, IInv, DeclInv
<1>2. QED
  BY <1>1, Invariant, PTL

(* A subgraph that succeeded is declared, built and bound as it was asked  *)
(* for, whatever is declared and built afterwards (buildSubGraph).         *)
THEOREM SubGraphsHold == Spec => []SubGraphsAreWhole
<1>1. IInv => SubGraphsAreWhole
  BY DEF IInv
<1>2. QED
  BY <1>1, Invariant, PTL

(* A build that succeeds has declared and built everything; one that keeps *)
(* going leaves out only what depends on a failure (planBuild, BuildAll).  *)
THEOREM SuccessHolds == Spec => []SuccessIsComplete
<1>1. IInv => SuccessIsComplete
  BY DEF IInv, EndInv
<1>2. QED
  BY <1>1, Invariant, PTL

-----------------------------------------------------------------------------
(* BuildSession implements BuildContract.                                  *)

(* A script that has begun is on the stack until it ends. *)
RunningInv ==
  \A p \in Packages : decl[p] = "running" =>
    \E i \in 1..Len(stack) : stack[i].at = "script" /\ stack[i].pkg = p

(* The steps that leave all below the frame on top alone. *)
TopOnly ==
  \/ stack' = Front(stack)
  \/ \E f : stack' = Append(Front(stack), f)
  \/ \E f, g : stack' = Front(stack) \o <<f, g>>

LEMMA RunningKept ==
  ASSUME RunningInv, decl' = decl,
         \A i \in 1..Len(stack) : stack[i].at = "script" =>
           i \in 1..Len(stack') /\ stack'[i] = stack[i]
  PROVE  RunningInv'
BY DEF RunningInv

LEMMA FrontKept ==
  ASSUME IInv, stack # <<>>, TopOnly
  PROVE  \A i \in 1..(Len(stack) - 1) : i \in 1..Len(stack') /\ stack'[i] = stack[i]
<1>1. PICK u \in Seq(Frames) : u = Front(stack)
  BY AtTop, ReturnEffect
<1>2. Len(u) = Len(stack) - 1 /\ \A i \in 1..(Len(stack) - 1) : u[i] = stack[i]
  BY <1>1, AtTop, ReturnEffect
<1>3. SUFFICES \A i \in 1..Len(u) : i \in 1..Len(stack') /\ stack'[i] = u[i]
  BY <1>2
<1>4. CASE stack' = u
  BY <1>4
<1>5. ASSUME NEW f, stack' = Append(u, f)
      PROVE  \A i \in 1..Len(u) : i \in 1..Len(stack') /\ stack'[i] = u[i]
  <2>1. PICK F : F = Frames \cup {f}
    OBVIOUS
  <2>2. u \in Seq(F) /\ f \in F
    BY <2>1
  <2>3. QED
    BY <1>5, <2>2
<1>6. ASSUME NEW f, NEW g, stack' = u \o <<f, g>>
      PROVE  \A i \in 1..Len(u) : i \in 1..Len(stack') /\ stack'[i] = u[i]
  <2>1. PICK F : F = Frames \cup {f, g}
    OBVIOUS
  <2>2. u \in Seq(F) /\ f \in F /\ g \in F
    BY <2>1
  <2>3. Len(stack') = Len(u) + 2 /\ \A i \in 1..Len(u) : stack'[i] = u[i]
    BY <1>6, <2>2, PushEffect
  <2>4. QED
    BY <2>2, <2>3
<1>7. QED
  BY <1>1, <1>4, <1>5, <1>6 DEF TopOnly

LEMMA TopStep ==
  ASSUME IInv, RunningInv, decl' = decl, stack # <<>>, Top.at # "script", TopOnly
  PROVE  RunningInv'
<1>1. Len(stack) \in Nat \ {0} /\ Top = stack[Len(stack)]
  BY AtTop
<1>2. \A i \in 1..Len(stack) : i \in 1..(Len(stack) - 1) \/ i = Len(stack)
  BY <1>1
<1>3. \A i \in 1..(Len(stack) - 1) : i \in 1..Len(stack') /\ stack'[i] = stack[i]
  BY FrontKept
<1>4. QED
  BY <1>1, <1>2, <1>3, RunningKept

(* What becomes of the stack, of the scripts and of the targets in a step. *)
QuietActions ==
  \/ EndLoop \/ SkipPackage \/ RevisitPackage \/ AfterPackage \/ ExpandSubGraph \/ EndSubGraph
  \/ PlanBuild \/ EndBuildAll \/ SkipTarget \/ RecallTarget \/ AfterTarget

LEMMA QuietEffect ==
  ASSUME QuietActions
  PROVE  stack # <<>> /\ Top.at # "script" /\ TopOnly /\ UNCHANGED <<decl, memo>>
<1> USE DEF Called, Returned, At, Return, Stay, Call, TopOnly, declaration, session
<1>1. CASE EndLoop
  BY <1>1 DEF EndLoop
<1>2. CASE SkipPackage
  BY <1>2 DEF SkipPackage, LoopOn
<1>3. CASE RevisitPackage
  BY <1>3 DEF RevisitPackage, LoopOn
<1>4. CASE AfterPackage
  BY <1>4 DEF AfterPackage, LoopOn
<1>5. CASE ExpandSubGraph
  BY <1>5 DEF ExpandSubGraph
<1>6. CASE EndSubGraph
  BY <1>6 DEF EndSubGraph
<1>7. CASE PlanBuild
  BY <1>7 DEF PlanBuild
<1>8. CASE EndBuildAll
  BY <1>8 DEF EndBuildAll
<1>9. CASE SkipTarget
  BY <1>9 DEF SkipTarget
<1>10. CASE RecallTarget
  BY <1>10 DEF RecallTarget, CanBuild, Count
<1>11. CASE AfterTarget
  BY <1>11 DEF AfterTarget, Count
<1>12. QED
  BY <1>1, <1>2, <1>3, <1>4, <1>5, <1>6, <1>7, <1>8, <1>9, <1>10, <1>11 DEF QuietActions

LEMMA CallSubGraphEffect ==
  ASSUME IInv, NEW root \in Packages, CallSubGraph(root)
  PROVE  /\ stack # <<>> /\ UNCHANGED <<decl, memo>>
         /\ \A i \in 1..Len(stack) : i \in 1..Len(stack') /\ stack'[i] = stack[i]
<1>1. stack # <<>> /\ UNCHANGED <<decl, memo>>
  BY DEF CallSubGraph, At, session
<1>2. stack' = stack \/ \E f, g : stack' = stack \o <<f, g>>
  BY DEF CallSubGraph
<1>3. stack \in Seq(Frames)
  BY DEF IInv, TypeOK
<1>4. ASSUME NEW f, NEW g, stack' = stack \o <<f, g>>
      PROVE  \A i \in 1..Len(stack) : i \in 1..Len(stack') /\ stack'[i] = stack[i]
  <2>1. PICK F : F = Frames \cup {f, g}
    OBVIOUS
  <2>2. stack \in Seq(F) /\ f \in F /\ g \in F
    BY <1>3, <2>1
  <2>3. Len(stack') = Len(stack) + 2 /\ \A i \in 1..Len(stack) : stack'[i] = stack[i]
    BY <1>4, <2>2, PushEffect
  <2>4. QED
    BY <2>2, <2>3
<1>5. QED
  BY <1>1, <1>2, <1>4

(* A script begins on top of its loop. *)
LEMMA ScriptBegins ==
  ASSUME GraphAssumption, SessionAssumption, IInv, DeclarePackage
  PROVE  \E p \in Packages :
           /\ stack # <<>> /\ Top.at = "loop" /\ decl[p] = "no"
           /\ decl' = [decl EXCEPT ![p] = "running"] /\ UNCHANGED <<memo, active, outcome>>
           /\ \A i \in 1..Len(stack) : i \in 1..Len(stack') /\ stack'[i] = stack[i]
           /\ \E i \in 1..Len(stack') : stack'[i].at = "script" /\ stack'[i].pkg = p
<1>0. PICK p \in Packages : p = LoopPackage
  <2>1. stack # <<>> /\ Top.at = "loop" /\ LoopPackage \in Top.filter
    BY DEF DeclarePackage, Called, At
  <2>2. QED
    BY <2>1, BelowLoop
<1>1. /\ stack # <<>> /\ Top.at = "loop" /\ decl[p] = "no"
      /\ decl' = [decl EXCEPT ![p] = "running"]
      /\ Call(Top, [at |-> "script", pkg |-> p])
      /\ UNCHANGED <<memo, active, outcome>>
  BY <1>0 DEF DeclarePackage, Called, At, session
<1>2. PICK n \in Nat \ {0} : n = Len(stack) /\ Top = stack[n] /\ Top \in Frames
  BY <1>1, AtTop
<1>3. PICK f \in Frames : f = [at |-> "script", pkg |-> p]
  BY DEF Frames
<1>4. /\ Len(stack') = n + 1 /\ stack'[n] = stack[n] /\ stack'[n + 1] = f
      /\ \A i \in 1..(n - 1) : stack'[i] = stack[i]
  BY <1>1, <1>2, <1>3, CallStack
<1>5. \A i \in 1..n : i \in 1..(n + 1) /\ (i = n \/ i \in 1..(n - 1))
  BY <1>2
<1>6. \A i \in 1..Len(stack) : i \in 1..Len(stack') /\ stack'[i] = stack[i]
  BY <1>2, <1>4, <1>5
<1>7. n + 1 \in 1..Len(stack') /\ f.at = "script" /\ f.pkg = p
  BY <1>2, <1>3, <1>4
<1>8. QED
  BY <1>1, <1>4, <1>6, <1>7

(* A script ends, and the others on the stack stay. *)
LEMMA ScriptReturns ==
  ASSUME IInv, NEW result \in {"ok", "err"}, ScriptEnds(result)
  PROVE  \E p \in Packages :
           /\ stack # <<>> /\ active = NoTarget /\ decl[p] = "running"
           /\ decl' = [decl EXCEPT ![p] = IF result = "ok" THEN "declared" ELSE "failed"]
           /\ UNCHANGED <<memo, active, outcome>>
           /\ \A i \in 1..Len(stack) :
                (i \in 1..Len(stack') /\ stack'[i] = stack[i]) \/ stack[i].pkg = p
<1>1. stack # <<>> /\ Top.at = "script"
  BY DEF ScriptEnds, At
<1>2. PICK n \in Nat, p \in Packages :
        /\ n = Len(stack) /\ p = Top.pkg /\ n > 2 /\ Top = stack[n]
        /\ decl[p] = "running" /\ active = NoTarget
  BY <1>1, BelowScript
<1>3. /\ decl' = [decl EXCEPT ![p] = IF result = "ok" THEN "declared" ELSE "failed"]
      /\ Return(result) /\ UNCHANGED <<memo, active>>
  BY <1>2 DEF ScriptEnds, session
<1>4. outcome' = outcome
  BY <1>2, <1>3 DEF Return
<1>5. Len(stack') = n - 1 /\ \A i \in 1..(n - 1) : stack'[i] = stack[i]
  BY <1>1, <1>2, <1>3, ReturnStack
<1>6. \A i \in 1..n : i \in 1..(n - 1) \/ i = n
  BY <1>2
<1>7. \A i \in 1..Len(stack) : (i \in 1..Len(stack') /\ stack'[i] = stack[i]) \/ stack[i].pkg = p
  BY <1>2, <1>5, <1>6
<1>8. QED
  BY <1>1, <1>2, <1>3, <1>4, <1>7

LEMMA RunningStep ==
  ASSUME GraphAssumption, SessionAssumption, IInv, RunningInv, [Next]_vars
  PROVE  RunningInv'
<1>0. decl \in [Packages -> {"no", "running", "declared", "failed"}]
  BY DEF IInv, TypeOK
<1>1. CASE QuietActions
  BY <1>1, QuietEffect, TopStep
<1>2. CASE DeclarePackage
  <2>1. PICK p \in Packages :
          /\ decl' = [decl EXCEPT ![p] = "running"]
          /\ \A i \in 1..Len(stack) : i \in 1..Len(stack') /\ stack'[i] = stack[i]
          /\ \E i \in 1..Len(stack') : stack'[i].at = "script" /\ stack'[i].pkg = p
    BY <1>2, ScriptBegins
  <2>2. ASSUME NEW q \in Packages, decl'[q] = "running"
        PROVE  \E i \in 1..Len(stack') : stack'[i].at = "script" /\ stack'[i].pkg = q
    <3>1. CASE q = p
      BY <2>1, <3>1
    <3>2. CASE q # p
      <4>1. decl[q] = "running"
        BY <1>0, <2>1, <2>2, <3>2
      <4>2. PICK i \in 1..Len(stack) : stack[i].at = "script" /\ stack[i].pkg = q
        BY <4>1 DEF RunningInv
      <4>3. QED
        BY <2>1, <4>2
    <3>3. QED
      BY <3>1, <3>2
  <2>3. QED
    BY <2>2 DEF RunningInv
<1>3. ASSUME NEW result \in {"ok", "err"}, ScriptEnds(result) PROVE RunningInv'
  <2>1. PICK p \in Packages :
          /\ decl' = [decl EXCEPT ![p] = IF result = "ok" THEN "declared" ELSE "failed"]
          /\ \A i \in 1..Len(stack) :
               (i \in 1..Len(stack') /\ stack'[i] = stack[i]) \/ stack[i].pkg = p
    BY <1>3, ScriptReturns
  <2>2. ASSUME NEW q \in Packages, decl'[q] = "running"
        PROVE  \E i \in 1..Len(stack') : stack'[i].at = "script" /\ stack'[i].pkg = q
    <3>1. q # p /\ decl[q] = "running"
      BY <1>0, <2>1, <2>2
    <3>2. PICK i \in 1..Len(stack) : stack[i].at = "script" /\ stack[i].pkg = q
      BY <3>1 DEF RunningInv
    <3>3. QED
      BY <2>1, <3>1, <3>2
  <2>3. QED
    BY <2>2 DEF RunningInv
<1>4. ASSUME NEW result \in {"ok", "err"}, TargetEnds(result) PROVE RunningInv'
  <2>1. stack # <<>> /\ Top.at = "target" /\ decl' = decl /\ TopOnly
    BY <1>4 DEF TargetEnds, At, Return, TopOnly, declaration
  <2>2. QED
    BY <2>1, TopStep
<1>5. ASSUME NEW root \in Packages, CallSubGraph(root) PROVE RunningInv'
  BY <1>5, CallSubGraphEffect, RunningKept
<1>6. CASE ExecuteTarget
  <2>1. stack # <<>> /\ Top.at = "build" /\ decl' = decl /\ TopOnly
    BY <1>6 DEF ExecuteTarget, CanBuild, Called, At, Call, TopOnly, declaration
  <2>2. QED
    BY <2>1, TopStep
<1>7. CASE Cancel \/ Rest \/ UNCHANGED vars
  BY <1>7 DEF Cancel, Rest, vars, declaration, RunningInv
<1>8. QED
  BY <1>1, <1>2, <1>3, <1>4, <1>5, <1>6, <1>7
  DEF Next, DeclareStep, ScriptStep, BuildStep, QuietActions

(* While the build goes on and none is active, no target runs.             *)
LEMMA ContractQuiet ==
  ASSUME SessionAssumption, IInv, stack # <<>>, active = NoTarget
  PROVE  Contract!Quiescent
<1>1. outcome = "none"
  BY AtTop
<1>2. \A t \in Targets : memo[t] # "running"
  BY DEF IInv, ResultInv, SessionAssumption
<1>3. QED
  BY <1>1, <1>2 DEF Contract!Quiescent

(* A step that changes neither scripts nor targets is none of the          *)
(* contract's, or ends the build.                                          *)
LEMMA QuietMaps ==
  ASSUME SessionAssumption, IInv, IInv', RunningInv', stack # <<>>, UNCHANGED <<decl, memo>>
  PROVE  [Contract!Next]_Contract!contract
<1>1. CASE outcome' = outcome
  BY <1>1 DEF Contract!contract
<1>2. CASE outcome' # outcome
  <2>1. outcome = "none"
    BY AtTop
  <2>2. outcome' \in {"ok", "err"} /\ stack' = <<>> /\ active' = NoTarget
    BY <1>2, <2>1 DEF IInv, EndInv, TypeOK
  <2>3. \A t \in Targets : memo[t] # "running"
    BY <2>2 DEF IInv, ResultInv, SessionAssumption
  <2>4. \A p \in Packages : decl[p] # "running"
    BY <2>2 DEF RunningInv
  <2>5. outcome' = "ok" => /\ \A p \in Packages : decl[p] = "declared"
                           /\ \A t \in Targets \ NonDefault : memo[t] = "ok"
    BY DEF IInv, EndInv, SuccessIsComplete, Declared
  <2>6. Contract!End(outcome')
    BY <2>1, <2>3, <2>4, <2>5 DEF Contract!End, Contract!Quiescent
  <2>7. QED
    BY <2>2, <2>6 DEF Contract!Next
<1>3. QED
  BY <1>1, <1>2

LEMMA DeclareMaps ==
  ASSUME GraphAssumption, SessionAssumption, IInv, IInv', DeclarePackage
  PROVE  Contract!Next
<1>1. PICK p \in Packages :
        /\ stack # <<>> /\ Top.at = "loop" /\ decl[p] = "no"
        /\ decl' = [decl EXCEPT ![p] = "running"] /\ UNCHANGED <<memo, active, outcome>>
  BY ScriptBegins
<1>2. Contract!Quiescent
  BY <1>1, AtTop, ContractQuiet DEF TopInv
<1>3. \A d \in PkgDeps[p] : decl[d] = "declared"
  <2>1. decl \in [Packages -> {"no", "running", "declared", "failed"}]
    BY DEF IInv, TypeOK
  <2>2. decl'[p] = "running" /\ PkgDeps[p] \subseteq Packages
    BY <1>1, <2>1 DEF GraphAssumption
  <2>3. \A d \in PkgDeps[p] : decl'[d] = "declared"
    BY <2>2 DEF IInv, DeclInv
  <2>4. QED
    BY <1>1, <2>1, <2>2, <2>3
<1>4. Contract!BeginScript(p)
  BY <1>1, <1>2, <1>3 DEF Contract!BeginScript
<1>5. QED
  BY <1>4 DEF Contract!Next

LEMMA ScriptMaps ==
  ASSUME SessionAssumption, IInv, NEW result \in {"ok", "err"}, ScriptEnds(result)
  PROVE  Contract!Next
<1>1. PICK p \in Packages :
        /\ stack # <<>> /\ active = NoTarget /\ decl[p] = "running"
        /\ decl' = [decl EXCEPT ![p] = IF result = "ok" THEN "declared" ELSE "failed"]
        /\ UNCHANGED <<memo, outcome>>
  BY ScriptReturns
<1>2. Contract!Quiescent
  BY <1>1, ContractQuiet
<1>3. \A d \in PkgDeps[p] : decl[d] = "declared"
  BY <1>1 DEF IInv, DeclInv
<1>4. Contract!EndScript(p, IF result = "ok" THEN "declared" ELSE "failed")
  BY <1>1, <1>2, <1>3 DEF Contract!EndScript
<1>5. QED
  BY <1>4 DEF Contract!Next

LEMMA ExecuteMaps ==
  ASSUME GraphAssumption, SessionAssumption, IInv, ExecuteTarget
  PROVE  Contract!Next
<1>1. /\ stack # <<>> /\ Top.at = "build" /\ Top.next <= Len(Top.order) /\ active = NoTarget
      /\ LoopTarget \notin NonDefault /\ ~DepsFailed(Top, LoopTarget) /\ memo[LoopTarget] = "none"
      /\ memo' = [memo EXCEPT ![LoopTarget] = "running"] /\ UNCHANGED <<decl, outcome>>
  BY DEF ExecuteTarget, CanBuild, Called, At, Remembered, declaration
<1>2. PICK t \in Targets : t = LoopTarget /\ \A d \in NodeDeps(t) \ NonDefault : memo[d] = "ok"
  BY <1>1, DepsAreBuilt
<1>3. decl[PkgOf[t]] = "declared"
  <2>1. PICK P \in SUBSET Packages : BuildInv(Top, P)
    BY <1>1, Building
  <2>2. Top.next \in 1..Len(Top.order)
    BY <1>1, Building
  <2>3. TargetOrder[P] \in Seq(TargetsOf(P)) /\ Top.order = TargetOrder[P] /\ P \subseteq Declared
    BY <2>1, TargetOrderIsRight DEF BuildInv
  <2>4. t \in TargetsOf(P)
    BY <1>2, <2>2, <2>3 DEF LoopTarget
  <2>5. QED
    BY <2>3, <2>4 DEF TargetsOf, Declared
<1>4. Contract!Quiescent
  BY <1>1, ContractQuiet
<1>5. Contract!Start(t)
  BY <1>1, <1>2, <1>3, <1>4 DEF Contract!Start
<1>6. t \in Targets \ NonDefault
  BY <1>1, <1>2
<1>7. QED
  BY <1>5, <1>6 DEF Contract!Next

LEMMA TargetMaps ==
  ASSUME IInv, NEW result \in {"ok", "err"}, TargetEnds(result)
  PROVE  Contract!Next
<1>1. stack # <<>> /\ Top.at = "target"
  BY DEF TargetEnds, At
<1>2. PICK t \in Targets \ NonDefault : t = Top.target /\ memo[t] = "running"
  <2>1. Top \in Frames /\ TargetInv(Top)
    BY <1>1, AtTop DEF FrameInv
  <2>2. QED
    BY <1>1, <2>1, FrameType DEF TargetInv
<1>3. PICK value \in {"ok", "err"} : value = IF cancelled THEN "err" ELSE result
  OBVIOUS
<1>4. memo' = [memo EXCEPT ![t] = value] /\ decl' = decl /\ Return(value)
  BY <1>2, <1>3 DEF TargetEnds, declaration
<1>5. outcome' = outcome /\ outcome = "none"
  <2>1. Len(stack) # 1
    BY <1>1, AtTop, Chain DEF IInv
  <2>2. QED
    BY <1>1, <1>4, <2>1, AtTop DEF Return
<1>6. Contract!Finish(t, value)
  BY <1>2, <1>4, <1>5 DEF Contract!Finish
<1>7. QED
  BY <1>3, <1>6 DEF Contract!Next

LEMMA ContractStep ==
  ASSUME GraphAssumption, SessionAssumption, IInv, IInv', RunningInv', [Next]_vars
  PROVE  [Contract!Next]_Contract!contract
<1>1. CASE QuietActions
  BY <1>1, QuietEffect, QuietMaps
<1>2. CASE DeclarePackage
  BY <1>2, DeclareMaps
<1>3. ASSUME NEW result \in {"ok", "err"}, ScriptEnds(result) PROVE Contract!Next
  BY <1>3, ScriptMaps
<1>4. ASSUME NEW result \in {"ok", "err"}, TargetEnds(result) PROVE Contract!Next
  BY <1>4, TargetMaps
<1>5. ASSUME NEW root \in Packages, CallSubGraph(root) PROVE [Contract!Next]_Contract!contract
  BY <1>5, CallSubGraphEffect, QuietMaps
<1>6. CASE ExecuteTarget
  BY <1>6, ExecuteMaps
<1>7. CASE Cancel \/ Rest \/ UNCHANGED vars
  BY <1>7 DEF Cancel, Rest, vars, declaration, session, Contract!contract
<1>8. QED
  BY <1>1, <1>2, <1>3, <1>4, <1>5, <1>6, <1>7
  DEF Next, DeclareStep, ScriptStep, BuildStep, QuietActions

(* BuildSession implements BuildContract: through all the subgraphs that   *)
(* scripts ask for, every script and every target runs once, on what it    *)
(* needs, never two targets at once, and success means that all is there   *)
(* (stage_declare.go, session.go, scheduler.go).                           *)
THEOREM ContractKept == Spec => SessionKeepsContract
<1>1. Init => Contract!Init
  BY DEF Init, Contract!Init
<1>2. Init => RunningInv
  BY DEF Init, RunningInv
<1>3. IInv /\ RunningInv /\ [Next]_vars => RunningInv'
  BY GraphAssumption, SessionAssumption, RunningStep
<1>4. IInv /\ IInv' /\ RunningInv' /\ [Next]_vars => [Contract!Next]_Contract!contract
  BY GraphAssumption, SessionAssumption, ContractStep
<1>5. QED
  BY <1>1, <1>2, <1>3, <1>4, Invariant, PTL DEF Spec, SessionKeepsContract, Contract!Spec

-----------------------------------------------------------------------------
(* TopoSort.  What is sorted, and what is not; the in-degrees count what is *)
(* not.                                                                     *)
Placed == {sorted[i] : i \in DOMAIN sorted}
Unsorted == Nodes \ Placed

SortType ==
  /\ listed \in [Nodes -> [Nodes \cup Unknown -> 0..MaxListed]]
  /\ sorted \in Seq(Nodes) /\ sortDone \in BOOLEAN
DegreeInv == inDegree = [n \in Nodes |-> DegreeAmong(n, Unsorted)]
QueueInv == queue = Ready(Unsorted, Deps)

(* What is sorted is a prefix of the order, and the rest has the order of  *)
(* what is not.                                                            *)
PrefixInv ==
  \A f : OrdersSubsets(f, Nodes, Deps, NodeRank) => f[Nodes] = sorted \o f[Unsorted]

SortInv ==
  /\ SortType /\ DegreeInv /\ QueueInv /\ PrefixInv /\ OrderRespectsDeps
  /\ sortDone => queue = {}

LEMMA Counted == ASSUME NEW k \in Nat PROVE IsFiniteSet(1..k) /\ Cardinality(1..k) = k
<1>1. IsFiniteSet(1..k) /\ Cardinality(1..k) = IF 1 > k THEN 0 ELSE k - 1 + 1 BY FS_Interval
<1>2. CASE k = 0 BY <1>1, <1>2
<1>3. CASE k # 0 BY <1>1, <1>3
<1> QED BY <1>2, <1>3

LEMMA DegreeFacts ==
  ASSUME TopoAssumption, SortType, NEW n \in Nodes, NEW S \in SUBSET Nodes
  PROVE  /\ DegreeAmong(n, S) \in Nat
         /\ DegreeAmong(n, S) = 0 <=> Deps[n] \cap S = {}
         /\ \A d \in S : DegreeAmong(n, S \ {d}) = DegreeAmong(n, S) - listed[n][d]
<1> DEFINE Pairs(T) == {e \in T \X (1..MaxListed) : e[2] <= listed[n][e[1]]}
<1>1. \A d \in Nodes : listed[n][d] \in 0..MaxListed BY DEF SortType
<1>2. \A T \in SUBSET Nodes : IsFiniteSet(Pairs(T)) /\ Cardinality(Pairs(T)) \in Nat
  <2> SUFFICES ASSUME NEW T \in SUBSET Nodes PROVE IsFiniteSet(Pairs(T)) /\ Cardinality(Pairs(T)) \in Nat
    OBVIOUS
  <2>1. IsFiniteSet(T) BY FS_Subset DEF TopoAssumption
  <2>2. IsFiniteSet(1..MaxListed) BY FS_Interval DEF TopoAssumption
  <2>3. IsFiniteSet(T \X (1..MaxListed)) BY <2>1, <2>2, FS_Product
  <2>4. Pairs(T) \in SUBSET (T \X (1..MaxListed)) OBVIOUS
  <2> HIDE DEF Pairs
  <2> QED BY <2>3, <2>4, FS_Subset, FS_CardinalityType
<1>3. \A T : DegreeAmong(n, T) = Cardinality(Pairs(T)) BY DEF DegreeAmong
<1>4. Pairs(S) = {} <=> Deps[n] \cap S = {}
  <2>1. \A d \in Nodes : d \in Deps[n] <=> listed[n][d] > 0 BY DEF Deps
  <2>2. ASSUME NEW e \in Pairs(S) PROVE Deps[n] \cap S # {}
    <3>1. e[1] \in S /\ e[2] \in 1..MaxListed /\ e[2] <= listed[n][e[1]] OBVIOUS
    <3>2. listed[n][e[1]] > 0 BY <3>1, <1>1
    <3> QED BY <3>1, <3>2, <2>1
  <2>3. ASSUME NEW d \in Deps[n] \cap S PROVE <<d, 1>> \in Pairs(S)
    <3>1. listed[n][d] > 0 /\ listed[n][d] \in 0..MaxListed /\ MaxListed \in Nat BY <2>1, <1>1 DEF TopoAssumption
    <3>2. 1 \in 1..MaxListed /\ 1 <= listed[n][d] BY <3>1
    <3> QED BY <3>2
  <2> HIDE DEF Pairs
  <2> QED BY <2>2, <2>3
<1>5. ASSUME NEW d \in S PROVE Cardinality(Pairs(S \ {d})) = Cardinality(Pairs(S)) - listed[n][d]
  <2> DEFINE k == listed[n][d]
             f == [i \in 1..k |-> <<d, i>>]
  <2>1. k \in 0..MaxListed /\ k \in Nat /\ MaxListed \in Nat BY <1>1 DEF TopoAssumption
  <2>2. /\ Pairs(S) = Pairs(S \ {d}) \cup Pairs({d})
        /\ Pairs(S \ {d}) \cap Pairs({d}) = {}
    OBVIOUS
  <2>3. Pairs({d}) = {<<d, i>> : i \in 1..k}
    <3>1. \A i \in 1..k : i \in 1..MaxListed BY <2>1
    <3>2. \A i \in 1..MaxListed : i <= k => i \in 1..k BY <2>1
    <3> QED BY <3>1, <3>2
  <2>4. f \in Bijection(1..k, Pairs({d}))
    <3>1. f \in [1..k -> Pairs({d})] BY <2>3
    <3>2. \A i, j \in 1..k : f[i] = f[j] => i = j OBVIOUS
    <3>3. \A e \in Pairs({d}) : \E i \in 1..k : f[i] = e BY <2>3
    <3> HIDE DEF f, Pairs
    <3>4. f \in Injection(1..k, Pairs({d})) BY <3>1, <3>2 DEF Injection, IsInjective
    <3>5. f \in Surjection(1..k, Pairs({d})) BY <3>1, <3>3 DEF Surjection
    <3> QED BY <3>4, <3>5 DEF Bijection
  <2>5. Cardinality(1..k) = k /\ IsFiniteSet(1..k)
    <3> HIDE DEF k, Pairs, f
    <3> QED BY <2>1, Counted
  <2>6. IsFiniteSet(Pairs(S)) /\ IsFiniteSet(Pairs(S \ {d})) BY <1>2
  <2> HIDE DEF Pairs, f, k
  <2>7. IsFiniteSet(Pairs({d})) /\ Cardinality(Pairs({d})) = k
    <3>1. ExistsBijection(1..k, Pairs({d})) BY <2>4 DEF ExistsBijection
    <3> QED BY <3>1, <2>5, FS_Bijection
  <2>8. Cardinality(Pairs(S)) = Cardinality(Pairs(S \ {d})) + Cardinality(Pairs({d})) - Cardinality({})
    <3> DEFINE A == Pairs(S \ {d})
               B == Pairs({d})
    <3>1. IsFiniteSet(A) /\ IsFiniteSet(B) BY <2>6, <2>7
    <3>2. Pairs(S) = A \cup B /\ A \cap B = {} BY <2>2
    <3> HIDE DEF A, B
    <3>3. Cardinality(A \cup B) = Cardinality(A) + Cardinality(B) - Cardinality(A \cap B) BY <3>1, FS_Union
    <3> QED BY <3>2, <3>3 DEF A, B
  <2>9. Cardinality({}) = 0 BY FS_EmptySet
  <2>10. Cardinality(Pairs(S \ {d})) \in Nat BY <2>6, FS_CardinalityType
  <2> QED BY <2>1, <2>7, <2>8, <2>9, <2>10 DEF k
<1>6. Cardinality(Pairs(S)) = 0 <=> Pairs(S) = {}
  <2>1. IsFiniteSet(Pairs(S)) BY <1>2
  <2> HIDE DEF Pairs
  <2> QED BY <2>1, FS_EmptySet
<1>7. Cardinality(Pairs(S)) \in Nat BY <1>2
<1> HIDE DEF Pairs
<1> QED BY <1>3, <1>4, <1>5, <1>6, <1>7

LEMMA SortInitHolds == ASSUME TopoAssumption, SortInit PROVE SortInv
<1>1. SortType /\ Placed = {} /\ Unsorted = Nodes
  <2>1. listed \in [Nodes -> [Nodes \cup Unknown -> 0..MaxListed]] BY DEF SortInit
  <2>2. sorted = <<>> /\ sortDone = FALSE BY DEF SortInit
  <2>3. DOMAIN sorted = {} BY <2>2
  <2>4. Placed = {} BY <2>3 DEF Placed
  <2>5. sorted \in Seq(Nodes) BY <2>2
  <2>6. SortType BY <2>1, <2>2, <2>5 DEF SortType
  <2> QED BY <2>4, <2>6 DEF Unsorted
<1>2. DegreeInv BY <1>1 DEF SortInit, DegreeInv, Degree
<1>3. QueueInv
  <2>1. \A n \in Nodes : Degree(n) = 0 <=> Deps[n] \cap Nodes = {} BY <1>1, DegreeFacts DEF Degree
  <2>2. queue = {n \in Nodes : Degree(n) = 0} BY DEF SortInit
  <2> QED BY <1>1, <2>1, <2>2 DEF QueueInv, Ready
<1>4. PrefixInv
  <2> SUFFICES ASSUME NEW f, OrdersSubsets(f, Nodes, Deps, NodeRank) PROVE f[Nodes] = sorted \o f[Unsorted]
    BY DEF PrefixInv
  <2>1. DepsFirst(f[Nodes], Nodes, Deps) BY OrderIsRight DEF TopoAssumption, Ranked
  <2>2. f[Nodes] \in Seq(Nodes) BY <2>1 DEF DepsFirst
  <2>3. sorted = <<>> BY DEF SortInit
  <2> QED BY <1>1, <2>2, <2>3, ConcatEmptySeq
<1>5. OrderRespectsDeps BY DEF SortInit, OrderRespectsDeps
<1>6. ~sortDone BY DEF SortInit
<1> QED BY <1>1, <1>2, <1>3, <1>4, <1>5, <1>6 DEF SortInv

(* The dependencies of what is sorted are sorted.                          *)
LEMMA PlacedCloses ==
  ASSUME SortType, OrderRespectsDeps, NEW n \in Placed PROVE Deps[n] \subseteq Placed
<1>1. PICK i \in DOMAIN sorted : sorted[i] = n BY DEF Placed
<1>2. sorted \in Seq(Nodes) /\ DOMAIN sorted = 1..Len(sorted) /\ Len(sorted) \in Nat BY DEF SortType
<1>3. Deps[n] \subseteq {sorted[j] : j \in 1..(i - 1)} BY <1>1 DEF OrderRespectsDeps
<1>4. 1..(i - 1) \subseteq DOMAIN sorted BY <1>1, <1>2
<1> QED BY <1>3, <1>4 DEF Placed

LEMMA TakeStep == ASSUME TopoAssumption, SortInv, NEW n \in Nodes, TakeNode(n) PROVE SortInv'
<1> USE DEF SortInv
<1>1. /\ n \in queue /\ \A m \in queue : NodeRank[n] <= NodeRank[m]
      /\ sorted' = Append(sorted, n) /\ inDegree' = Lowered(n)
      /\ queue' = (queue \ {n}) \cup {m \in Nodes : listed[m][n] > 0 /\ Lowered(n)[m] = 0}
      /\ listed' = listed /\ sortDone' = sortDone /\ ~sortDone
  BY DEF TakeNode, IsFirst
<1>2. n \in Unsorted /\ Deps[n] \cap Unsorted = {} BY <1>1 DEF QueueInv, Ready
<1>3. /\ sorted \in Seq(Nodes) /\ Len(sorted) \in Nat /\ DOMAIN sorted = 1..Len(sorted)
      /\ sorted' \in Seq(Nodes) /\ DOMAIN sorted' = 1..(Len(sorted) + 1)
      /\ \A i \in 1..Len(sorted) : sorted'[i] = sorted[i]
      /\ sorted'[Len(sorted) + 1] = n
  <2>1. sorted \in Seq(Nodes) BY DEF SortType
  <2> QED BY <1>1, <2>1
<1>4. Placed' = Placed \cup {n} /\ Unsorted' = Unsorted \ {n} /\ Unsorted \in SUBSET Nodes
  <2>1. Placed' = Placed \cup {n}
    <3>1. \A x : x \in Placed <=> \E i \in 1..Len(sorted) : sorted[i] = x BY <1>3 DEF Placed
    <3>2. \A x : x \in Placed' <=> \E i \in 1..(Len(sorted) + 1) : sorted'[i] = x BY <1>3 DEF Placed
    <3>3. \A i : i \in 1..(Len(sorted) + 1) <=> i \in 1..Len(sorted) \/ i = Len(sorted) + 1 BY <1>3
    <3> QED BY <3>1, <3>2, <3>3, <1>3
  <2> QED BY <2>1 DEF Unsorted
<1>5. Deps' = Deps BY <1>1 DEF Deps
<1>6. SortType' BY <1>1, <1>3 DEF SortType
<1>7. \A m \in Nodes : Lowered(n)[m] = DegreeAmong(m, Unsorted \ {n})
  <2> SUFFICES ASSUME NEW m \in Nodes PROVE Lowered(n)[m] = DegreeAmong(m, Unsorted \ {n}) OBVIOUS
  <2>1. Lowered(n)[m] = inDegree[m] - listed[m][n] BY DEF Lowered
  <2>2. inDegree[m] = DegreeAmong(m, Unsorted) BY DEF DegreeInv
  <2>3. DegreeAmong(m, Unsorted \ {n}) = DegreeAmong(m, Unsorted) - listed[m][n] BY <1>2, <1>4, DegreeFacts
  <2> QED BY <2>1, <2>2, <2>3
<1>8. DegreeInv'
  <2>1. \A m, S : DegreeAmong(m, S)' = DegreeAmong(m, S') BY <1>1 DEF DegreeAmong
  <2>2. inDegree' = [m \in Nodes |-> inDegree[m] - listed[m][n]] BY <1>1 DEF Lowered
  <2>3. \A m \in Nodes : DegreeAmong(m, Unsorted)' = DegreeAmong(m, Unsorted \ {n}) BY <1>1, <1>4 DEF DegreeAmong
  <2>4. \A m \in Nodes : inDegree[m] - listed[m][n] = DegreeAmong(m, Unsorted)' BY <2>3, <1>7 DEF Lowered
  <2> QED BY <2>2, <2>4 DEF DegreeInv
<1>9. QueueInv'
  <2>1. \A m \in Nodes : Lowered(n)[m] = 0 <=> Deps[m] \cap (Unsorted \ {n}) = {}
    <3>1. Unsorted \ {n} \in SUBSET Nodes BY <1>4
    <3> QED BY <3>1, <1>7, DegreeFacts
  <2>2. \A m \in Nodes : listed[m][n] > 0 <=> n \in Deps[m] BY DEF Deps
  <2>3. \A x : x \in queue <=> x \in Unsorted /\ Deps[x] \cap Unsorted = {} BY DEF QueueInv, Ready
  <2>4. \A m \in Nodes : n \in Deps[m] => m \in Unsorted \ {n}
    <3> SUFFICES ASSUME NEW m \in Nodes, n \in Deps[m] PROVE m \in Unsorted \ {n} OBVIOUS
    <3>1. m # n BY <1>2
    <3>2. m \notin Placed BY <1>2, PlacedCloses DEF Unsorted
    <3> QED BY <3>1, <3>2 DEF Unsorted
  <2>5. \A x : x \in queue' <=> x \in Unsorted \ {n} /\ Deps[x] \cap (Unsorted \ {n}) = {}
    <3> SUFFICES ASSUME NEW x PROVE x \in queue' <=> x \in Unsorted \ {n} /\ Deps[x] \cap (Unsorted \ {n}) = {}
      OBVIOUS
    <3>1. x \in queue' <=> (x \in queue /\ x # n) \/ (x \in Nodes /\ n \in Deps[x] /\ Deps[x] \cap (Unsorted \ {n}) = {})
      BY <1>1, <2>1, <2>2
    <3> QED BY <3>1, <2>3, <2>4, <1>4
  <2> QED BY <2>5, <1>4, <1>5 DEF QueueInv, Ready
<1>10. PrefixInv'
  <2> SUFFICES ASSUME NEW f, OrdersSubsets(f, Nodes, Deps, NodeRank) PROVE f[Nodes] = sorted' \o f[Unsorted \ {n}]
    <3>1. ASSUME NEW f PROVE OrdersSubsets(f, Nodes, Deps, NodeRank)' <=> OrdersSubsets(f, Nodes, Deps, NodeRank)
      BY <1>5 DEF OrdersSubsets, OrderStep, Ready, Least
    <3>2. ASSUME NEW f PROVE (f[Nodes] = sorted \o f[Unsorted])' <=> f[Nodes] = sorted' \o f[Unsorted \ {n}]
      BY <1>4
    <3> QED BY <3>1, <3>2 DEF PrefixInv
  <2>1. f[Nodes] = sorted \o f[Unsorted] BY DEF PrefixInv
  <2>2. Ready(Unsorted, Deps) = queue /\ queue # {} BY <1>1 DEF QueueInv
  <2>3. Least(queue, NodeRank) = n
    <3>1. queue \subseteq Nodes BY <2>2, <1>4 DEF Ready
    <3>2. Least(queue, NodeRank) \in queue /\ \A y \in queue : NodeRank[Least(queue, NodeRank)] <= NodeRank[y]
      <4>1. Ranked(queue, NodeRank) BY <3>1 DEF Ranked, TopoAssumption
      <4> QED BY <4>1, <2>2, LeastIsThere
    <3>3. NodeRank[Least(queue, NodeRank)] = NodeRank[n]
      <4>1. NodeRank[Least(queue, NodeRank)] \in Nat /\ NodeRank[n] \in Nat BY <3>1, <3>2 DEF TopoAssumption
      <4> QED BY <4>1, <3>2, <1>1
    <3> QED BY <3>1, <3>2, <3>3 DEF TopoAssumption
  <2>4. f[Unsorted] = <<n>> \o f[Unsorted \ {n}]
    <3>1. f[Unsorted] = OrderStep(f, Unsorted, Deps, NodeRank) BY <1>4 DEF OrdersSubsets
    <3> QED BY <3>1, <2>2, <2>3 DEF OrderStep
  <2>5. f[Unsorted \ {n}] \in Seq(Nodes)
    <3>1. Unsorted \ {n} \in SUBSET Nodes BY <1>4
    <3>2. DepsFirst(f[Unsorted \ {n}], Unsorted \ {n}, Deps) BY <3>1, OrderIsRight DEF TopoAssumption, Ranked
    <3>3. f[Unsorted \ {n}] \in Seq(Unsorted \ {n}) BY <3>2 DEF DepsFirst
    <3> HIDE DEF Unsorted
    <3> QED BY <3>1, <3>3
  <2>6. sorted' = sorted \o <<n>> BY <1>1, <1>3, AppendIsConcat
  <2>7. <<n>> \in Seq(Nodes) OBVIOUS
  <2> DEFINE t == f[Unsorted \ {n}]
  <2>8. t \in Seq(Nodes) BY <2>5
  <2>9. f[Nodes] = sorted \o (<<n>> \o t) BY <2>1, <2>4
  <2> HIDE DEF t
  <2>10. (sorted \o <<n>>) \o t = sorted \o (<<n>> \o t) BY <1>3, <2>7, <2>8, ConcatAssociative
  <2>11. f[Nodes] = sorted' \o t BY <2>6, <2>9, <2>10
  <2> QED BY <2>11 DEF t
<1>11. OrderRespectsDeps'
  <2>1. n \notin Placed /\ Deps[n] \subseteq Placed
    <3>1. Deps[n] \subseteq Nodes BY DEF Deps
    <3> QED BY <3>1, <1>2 DEF Unsorted
  <2>2. \A i \in 1..Len(sorted) : sorted[i] \in Placed BY <1>3 DEF Placed
  <2>3. \A i, j \in 1..(Len(sorted) + 1) : sorted'[i] = sorted'[j] => i = j
    <3> SUFFICES ASSUME NEW i \in 1..(Len(sorted) + 1), NEW j \in 1..(Len(sorted) + 1), sorted'[i] = sorted'[j]
                 PROVE  i = j
      OBVIOUS
    <3>1. CASE i \in 1..Len(sorted) /\ j \in 1..Len(sorted)
      BY <3>1, <1>3 DEF OrderRespectsDeps
    <3>2. CASE i = Len(sorted) + 1 \/ j = Len(sorted) + 1
      <4>1. ~(i = Len(sorted) + 1 /\ j \in 1..Len(sorted)) BY <1>3, <2>1, <2>2
      <4>2. ~(j = Len(sorted) + 1 /\ i \in 1..Len(sorted)) BY <1>3, <2>1, <2>2
      <4> QED BY <3>2, <4>1, <4>2, <1>3
    <3> QED BY <3>1, <3>2, <1>3
  <2>4. ASSUME NEW i \in 1..(Len(sorted) + 1) PROVE Deps[sorted'[i]] \subseteq {sorted'[j] : j \in 1..(i - 1)}
    <3>1. CASE i \in 1..Len(sorted)
      <4>1. sorted'[i] = sorted[i] /\ Deps[sorted[i]] \subseteq {sorted[j] : j \in 1..(i - 1)}
        BY <3>1, <1>3 DEF OrderRespectsDeps
      <4>2. \A j \in 1..(i - 1) : sorted'[j] = sorted[j] BY <3>1, <1>3
      <4> QED BY <4>1, <4>2
    <3>2. CASE i = Len(sorted) + 1
      <4>1. sorted'[i] = n /\ 1..(i - 1) = 1..Len(sorted) BY <3>2, <1>3
      <4>2. \A x \in Placed : \E j \in 1..Len(sorted) : sorted[j] = x BY <1>3 DEF Placed
      <4>3. \A j \in 1..Len(sorted) : sorted'[j] = sorted[j] BY <1>3
      <4> QED BY <4>1, <4>2, <4>3, <2>1
    <3> QED BY <3>1, <3>2, <1>3
  <2> QED BY <1>3, <1>5, <2>3, <2>4 DEF OrderRespectsDeps
<1> QED BY <1>1, <1>6, <1>8, <1>9, <1>10, <1>11

LEMMA SortStep == TopoAssumption /\ SortInv /\ [SortNext]_sortVars => SortInv'
<1> SUFFICES ASSUME TopoAssumption, SortInv, [SortNext]_sortVars PROVE SortInv' OBVIOUS
<1>1. ASSUME NEW n \in Nodes, TakeNode(n) PROVE SortInv' BY <1>1, TakeStep
<1>2. CASE FinishSort \/ UNCHANGED sortVars
  <2>1. /\ UNCHANGED <<listed, inDegree, queue, sorted>>
        /\ sortDone' = sortDone \/ (sortDone' = TRUE /\ queue = {})
    BY <1>2 DEF FinishSort, sortVars
  <2>2. Placed' = Placed /\ Unsorted' = Unsorted /\ Deps' = Deps BY <2>1 DEF Placed, Unsorted, Deps
  <2>3. SortType' BY <2>1 DEF SortInv, SortType
  <2>4. DegreeInv' BY <2>1, <2>2 DEF SortInv, DegreeInv, DegreeAmong
  <2>5. QueueInv' BY <2>1, <2>2 DEF SortInv, QueueInv, Ready
  <2>6. PrefixInv' BY <2>1, <2>2 DEF SortInv, PrefixInv, OrdersSubsets, OrderStep
  <2>7. OrderRespectsDeps' BY <2>1, <2>2 DEF SortInv, OrderRespectsDeps
  <2> QED BY <2>1, <2>3, <2>4, <2>5, <2>6, <2>7 DEF SortInv
<1> QED BY <1>1, <1>2 DEF SortNext

LEMMA SortGoal == TopoAssumption /\ SortInv => SortIsRight
<1> SUFFICES ASSUME TopoAssumption, SortInv PROVE SortIsRight OBVIOUS
<1> USE DEF SortInv
<1>1. /\ sorted \in Seq(Nodes) /\ Len(sorted) \in Nat /\ DOMAIN sorted = 1..Len(sorted)
      /\ Placed \in SUBSET Nodes
  <2>1. sorted \in Seq(Nodes) BY DEF SortType
  <2> QED BY <2>1 DEF Placed
<1>2. Len(sorted) = Cardinality(Placed)
  <2> DEFINE g == [i \in 1..Len(sorted) |-> sorted[i]]
  <2>1. g \in Surjection(1..Len(sorted), Placed) BY <1>1 DEF Surjection, Placed
  <2>2. g \in Injection(1..Len(sorted), Placed)
    <3>1. g \in [1..Len(sorted) -> Placed] BY <1>1 DEF Placed
    <3>2. \A i, j \in 1..Len(sorted) : g[i] = g[j] => i = j BY <1>1 DEF OrderRespectsDeps
    <3> HIDE DEF g
    <3> QED BY <3>1, <3>2 DEF Injection, IsInjective
  <2>3. IsFiniteSet(1..Len(sorted)) /\ Cardinality(1..Len(sorted)) = Len(sorted) BY <1>1, Counted
  <2> HIDE DEF g
  <2> QED BY <2>1, <2>2, <2>3, FS_Surjection
<1>3. SortFailed <=> Unsorted # {}
  <2>1. Cardinality(Placed) = Cardinality(Nodes) <=> Placed = Nodes
    BY <1>1, FS_Subset DEF TopoAssumption
  <2>2. Unsorted = {} <=> Placed = Nodes BY <1>1 DEF Unsorted
  <2> QED BY <1>2, <2>1, <2>2 DEF SortFailed
<1>4. ASSUME sortDone PROVE FailsOnCyclesOnly
  <2>1. Ready(Unsorted, Deps) = {} BY <1>4 DEF QueueInv
  <2>2. \A n \in Unsorted : Deps[n] \cap Unsorted # {} BY <2>1 DEF Ready
  <2>3. Unsorted \in SUBSET Nodes BY DEF Unsorted
  <2>4. Remaining = Unsorted
    <3>1. \A n \in Nodes : inDegree[n] > 0 <=> Deps[n] \cap Unsorted # {}
      <4> SUFFICES ASSUME NEW n \in Nodes PROVE inDegree[n] > 0 <=> Deps[n] \cap Unsorted # {} OBVIOUS
      <4>1. inDegree[n] = DegreeAmong(n, Unsorted) BY DEF DegreeInv
      <4>2. DegreeAmong(n, Unsorted) \in Nat /\ (DegreeAmong(n, Unsorted) = 0 <=> Deps[n] \cap Unsorted = {})
        BY <2>3, DegreeFacts
      <4> QED BY <4>1, <4>2
    <3>2. \A n \in Placed : Deps[n] \cap Unsorted = {} BY PlacedCloses DEF Unsorted
    <3> QED BY <3>1, <3>2, <2>2, <1>1 DEF Remaining, Unsorted
  <2>5. Unsorted # {} => Cyclic(Unsorted) BY <2>2 DEF Cyclic
  <2>6. ASSUME NEW S \in SUBSET Nodes, Cyclic(S), Unsorted = {} PROVE FALSE
    <3> DEFINE places == {i \in 1..Len(sorted) : sorted[i] \in S}
    <3>1. Placed = Nodes BY <2>6, <1>1 DEF Unsorted
    <3>2. places # {} /\ places \subseteq Nat BY <2>6, <3>1, <1>1 DEF Cyclic, Placed
    <3> HIDE DEF places
    <3>3. PICK i \in places : \A j \in places : i <= j BY <3>2, LeastNumber
    <3>4. i \in 1..Len(sorted) /\ sorted[i] \in S BY <3>3 DEF places
    <3>5. PICK d \in Deps[sorted[i]] \cap S : TRUE BY <2>6, <3>4 DEF Cyclic
    <3>6. PICK j \in 1..(i - 1) : sorted[j] = d BY <3>4, <3>5, <1>1 DEF OrderRespectsDeps
    <3>7. j \in places /\ ~(i <= j) BY <3>4, <3>5, <3>6, <1>1 DEF places
    <3> QED BY <3>3, <3>7
  <2> QED BY <1>3, <2>3, <2>4, <2>5, <2>6 DEF FailsOnCyclesOnly
<1>5. ASSUME sortDone PROVE sorted = TopologicalOrder(Nodes, Deps, NodeRank)
  <2> DEFINE f == CHOOSE g : OrdersSubsets(g, Nodes, Deps, NodeRank)
  <2>1. OrdersSubsets(f, Nodes, Deps, NodeRank) BY OrderExists DEF TopoAssumption, Ranked
  <2>2. TopologicalOrder(Nodes, Deps, NodeRank) = f[Nodes] BY DEF TopologicalOrder, OrdersSubsets, OrderStep
  <2> HIDE DEF f
  <2>3. f[Nodes] = sorted \o f[Unsorted] BY <2>1 DEF PrefixInv
  <2>4. Ready(Unsorted, Deps) = {} /\ Unsorted \in SUBSET Nodes BY <1>5 DEF QueueInv, Unsorted
  <2>5. f[Unsorted] = <<>> BY <2>1, <2>4 DEF OrdersSubsets, OrderStep
  <2> QED BY <1>1, <2>2, <2>3, <2>5, ConcatEmptySeq
<1>6. FailsOnCyclesOnly BY <1>4 DEF FailsOnCyclesOnly
<1> QED BY <1>5, <1>6 DEF SortIsRight, OrderIsDetermined

(* For any nodes, names and dependencies, listed any number of times: each *)
(* node is sorted once and after those it depends on, the order is that of *)
(* the graph and the names, and there is none for a cycle only             *)
(* (toposort.TopologicalSort).                                             *)
THEOREM SortHolds == SortSpec => []SortIsRight
<1>1. SortInit => SortInv BY SortInitHolds, TopoAssumption
<1>2. SortInv /\ [SortNext]_sortVars => SortInv' BY SortStep, TopoAssumption
<1>3. SortInv => SortIsRight BY SortGoal, TopoAssumption
<1> QED BY <1>1, <1>2, <1>3, PTL DEF SortSpec


-----------------------------------------------------------------------------
(* VersionChoice.  The order of versions: that of the words they spell, in *)
(* which the lesser has a lesser letter first, or none.                    *)
LexLess(a, b) ==
  \E i \in 1..Len(b) :
    /\ \A j \in 1..(i - 1) : j <= Len(a) /\ a[j] = b[j]
    /\ i = Len(a) + 1 \/ (i <= Len(a) /\ a[i] < b[i])

LEMMA LexOrder ==
  ASSUME NEW a \in Seq(Int), NEW b \in Seq(Int), LexLess(a, b)
  PROVE  /\ ~LexLess(b, a)
         /\ \A c \in Seq(Int) : LexLess(b, c) => LexLess(a, c)
<1> DEFINE Decides(x, y, i) ==
             /\ \A j \in 1..(i - 1) : j <= Len(x) /\ x[j] = y[j]
             /\ i = Len(x) + 1 \/ (i <= Len(x) /\ x[i] < y[i])
<1>1. \A x, y : LexLess(x, y) <=> \E i \in 1..Len(y) : Decides(x, y, i)
  BY DEF LexLess
<1>2. PICK i \in 1..Len(b) : Decides(a, b, i)
  BY <1>1
<1>3. Len(a) \in Nat /\ Len(b) \in Nat /\ (\A k \in 1..Len(a) : a[k] \in Int) /\ (\A k \in 1..Len(b) : b[k] \in Int)
  OBVIOUS
<1>4. ASSUME NEW j \in 1..Len(a), Decides(b, a, j) PROVE FALSE
  <2>1. CASE i < j BY <1>2, <1>3, <1>4, <2>1
  <2>2. CASE j < i BY <1>2, <1>3, <1>4, <2>2
  <2>3. CASE i = j BY <1>2, <1>3, <1>4, <2>3
  <2> QED BY <2>1, <2>2, <2>3
<1>5. ASSUME NEW c \in Seq(Int), NEW j \in 1..Len(c), Decides(b, c, j) PROVE LexLess(a, c)
  <2>1. Len(c) \in Nat /\ \A k \in 1..Len(c) : c[k] \in Int OBVIOUS
  <2>2. CASE i < j
    <3>1. i \in 1..Len(c) /\ Decides(a, c, i) BY <1>2, <1>3, <1>5, <2>1, <2>2
    <3> QED BY <3>1, <1>1
  <2>3. CASE ~(i < j)
    <3>1. Decides(a, c, j) BY <1>2, <1>3, <1>5, <2>1, <2>3
    <3> QED BY <3>1, <1>1
  <2> QED BY <2>2, <2>3
<1> QED BY <1>1, <1>4, <1>5

(* Of finitely many, some one has no greater.                              *)
LEMMA GreatestExists ==
  ASSUME NEW S, IsFiniteSet(S), S # {}, NEW Less,
         \A x \in S : <<x, x>> \notin Less,
         \A x, y, z \in S : <<x, y>> \in Less /\ <<y, z>> \in Less => <<x, z>> \in Less
  PROVE  \E x \in S : \A y \in S : <<x, y>> \notin Less
<1> DEFINE above[x \in S] == {y \in S : <<x, y>> \in Less}
           sizes == {Cardinality(above[x]) : x \in S}
<1>1. \A x \in S : above[x] \in SUBSET S /\ IsFiniteSet(above[x]) /\ Cardinality(above[x]) \in Nat
  <2> SUFFICES ASSUME NEW x \in S
               PROVE  above[x] \in SUBSET S /\ IsFiniteSet(above[x]) /\ Cardinality(above[x]) \in Nat
    OBVIOUS
  <2>1. above[x] \in SUBSET S OBVIOUS
  <2> HIDE DEF above
  <2> QED BY <2>1, FS_Subset, FS_CardinalityType
<1>2. \A x, y \in S : y \in above[x] <=> <<x, y>> \in Less OBVIOUS
<1>3. \A x, y \in S : <<x, y>> \in Less => above[y] \in SUBSET above[x] OBVIOUS
<1> HIDE DEF above
<1>4. sizes # {} /\ sizes \subseteq Nat BY <1>1
<1>5. PICK n \in sizes : \A m \in sizes : n <= m
  <2> HIDE DEF sizes
  <2> QED BY <1>4, LeastNumber
<1>6. PICK x \in S : n = Cardinality(above[x]) OBVIOUS
<1>7. ASSUME NEW y \in S, <<x, y>> \in Less PROVE FALSE
  <2>1. above[y] \in SUBSET above[x] BY <1>3, <1>7
  <2>2. y \in above[x] /\ y \notin above[y] BY <1>2, <1>7
  <2>3. Cardinality(above[y]) < Cardinality(above[x])
    <3>1. Cardinality(above[y]) <= Cardinality(above[x])
          /\ (Cardinality(above[y]) = Cardinality(above[x]) => above[y] = above[x])
      BY <1>1, <2>1, FS_Subset
    <3> QED BY <3>1, <2>2, <1>1
  <2>4. Cardinality(above[x]) <= Cardinality(above[y]) BY <1>5, <1>6
  <2> QED BY <1>1, <2>3, <2>4
<1> QED BY <1>7

(* What a text of a version or of a constraint is parsed to, and the bounds *)
(* of what a constraint means.                                              *)
Letters == [word : BOOLEAN, value : Int]
Versions == [nums : [1..3 -> Nat], pre : Seq(Letters)]

LEMMA IsSequence ==
  ASSUME NEW n \in Nat, NEW S, NEW s \in [1..n -> S] PROVE s \in Seq(S) /\ Len(s) = n /\ (n > 0 => s # <<>>)
OBVIOUS

LEMMA Joined ==
  ASSUME NEW a \in Seq(Int), NEW b \in Seq(Int)
  PROVE  /\ a \o b \in Seq(Int) /\ Len(a \o b) = Len(a) + Len(b)
         /\ \A i \in 1..Len(a) : (a \o b)[i] = a[i]
         /\ \A i \in 1..Len(b) : (a \o b)[Len(a) + i] = b[i]
OBVIOUS

LEMMA WordOf ==
  ASSUME NEW v \in Versions
  PROVE  /\ Word(v) \in Seq(Int)
         /\ Len(Word(v)) = IF v.pre = <<>> THEN 4 ELSE 4 + 2 * Len(v.pre)
         /\ \A i \in 1..3 : Word(v)[i] = v.nums[i]
         /\ Word(v)[4] = IF v.pre = <<>> THEN 1 ELSE 0
         /\ \A i \in 1..Len(v.pre) :
              /\ Word(v)[3 + 2 * i] = IF v.pre[i].word THEN 1 ELSE 0
              /\ Word(v)[4 + 2 * i] = v.pre[i].value
<1> DEFINE n == Len(v.pre)
           Letter(i) == LET id == v.pre[(i + 1) \div 2]
                        IN  IF i % 2 = 1 THEN (IF id.word THEN 1 ELSE 0) ELSE id.value
           ids == [i \in 1..2 * n |-> Letter(i)]
           tail == IF v.pre = <<>> THEN <<1>> ELSE <<0>> \o ids
<1>1. v.nums \in [1..3 -> Nat] /\ v.pre \in Seq(Letters) BY DEF Versions
<1>2. n \in Nat /\ \A i \in 1..n : v.pre[i] \in Letters BY <1>1
<1>3. v.nums \in Seq(Int) /\ Len(v.nums) = 3
  <2>1. v.nums \in [1..3 -> Int] BY <1>1
  <2>2. 3 \in Nat OBVIOUS
  <2> QED BY <2>1, <2>2, IsSequence
<1>4. \A i \in 1..2 * n : (i + 1) \div 2 \in 1..n BY <1>2
<1>5. \A i \in 1..n : /\ 2 * i - 1 \in 1..2 * n /\ 2 * i \in 1..2 * n
                      /\ (2 * i - 1) % 2 = 1 /\ (2 * i - 1 + 1) \div 2 = i
                      /\ (2 * i) % 2 = 0 /\ (2 * i + 1) \div 2 = i
  BY <1>2
<1>6. \A i \in 1..2 * n : Letter(i) \in Int BY <1>2, <1>4 DEF Letters
<1>7. ids \in Seq(Int) /\ Len(ids) = 2 * n
  <2>1. ids \in [1..2 * n -> Int] BY <1>6
  <2>2. 2 * n \in Nat BY <1>2
  <2> HIDE DEF ids
  <2> QED BY <2>1, <2>2
<1>8. \A i \in 1..n : /\ ids[2 * i - 1] = IF v.pre[i].word THEN 1 ELSE 0
                      /\ ids[2 * i] = v.pre[i].value
  <2> SUFFICES ASSUME NEW i \in 1..n
               PROVE  ids[2 * i - 1] = (IF v.pre[i].word THEN 1 ELSE 0) /\ ids[2 * i] = v.pre[i].value
    OBVIOUS
  <2>1. \A j \in 1..2 * n : ids[j] = Letter(j) OBVIOUS
  <2>2. Letter(2 * i - 1) = IF v.pre[i].word THEN 1 ELSE 0 BY <1>5
  <2>3. Letter(2 * i) = v.pre[i].value
    <3>1. (2 * i) % 2 # 1 /\ (2 * i + 1) \div 2 = i BY <1>5
    <3> QED BY <3>1
  <2> HIDE DEF ids, Letter
  <2> QED BY <1>5, <2>1, <2>2, <2>3
<1>9. Word(v) = v.nums \o tail BY DEF Word
<1> HIDE DEF ids, Letter
<1>10. CASE v.pre = <<>>
  <2>1. tail = <<1>> /\ n = 0 BY <1>10
  <2> QED BY <1>3, <1>9, <1>10, <2>1
<1>11. CASE v.pre # <<>>
  <2>1. tail = <<0>> \o ids BY <1>11
  <2>2. tail \in Seq(Int) /\ Len(tail) = 1 + 2 * n /\ tail[1] = 0 /\ \A i \in 1..2 * n : tail[1 + i] = ids[i]
    <3>1. <<0>> \in Seq(Int) /\ Len(<<0>>) = 1 /\ <<0>>[1] = 0 OBVIOUS
    <3> HIDE DEF tail
    <3> QED BY <1>7, <2>1, <3>1, Joined
  <2> HIDE DEF tail, n
  <2>3. /\ Word(v) \in Seq(Int) /\ Len(Word(v)) = 4 + 2 * n
        /\ \A i \in 1..3 : Word(v)[i] = v.nums[i]
        /\ \A i \in 1..(1 + 2 * n) : Word(v)[3 + i] = tail[i]
    <3>1. /\ v.nums \o tail \in Seq(Int) /\ Len(v.nums \o tail) = 3 + Len(tail)
          /\ \A i \in 1..3 : (v.nums \o tail)[i] = v.nums[i]
          /\ \A i \in 1..Len(tail) : (v.nums \o tail)[3 + i] = tail[i]
      <4> DEFINE a == v.nums
      <4>1. a \in Seq(Int) /\ Len(a) = 3 BY <1>3
      <4>2. tail \in Seq(Int) BY <2>2
      <4> HIDE DEF a
      <4>3. /\ a \o tail \in Seq(Int) /\ Len(a \o tail) = Len(a) + Len(tail)
            /\ \A i \in 1..Len(a) : (a \o tail)[i] = a[i]
            /\ \A i \in 1..Len(tail) : (a \o tail)[Len(a) + i] = tail[i]
        BY <4>1, <4>2, Joined, Zenon
      <4>4. Len(a) = 3 BY <4>1
      <4> QED BY <4>3, <4>4 DEF a
    <3>2. 3 + Len(tail) = 4 + 2 * n BY <1>2, <2>2
    <3> QED BY <1>9, <2>2, <3>1, <3>2
  <2>4. Word(v)[4] = 0 BY <2>2, <2>3, <1>2
  <2>5. ASSUME NEW i \in 1..n
        PROVE  Word(v)[3 + 2 * i] = ids[2 * i - 1] /\ Word(v)[4 + 2 * i] = ids[2 * i]
    <3>1. 2 * i - 1 \in 1..2 * n /\ 2 * i \in 1..2 * n BY <1>5
    <3>2. 2 * i \in 1..(1 + 2 * n) /\ 1 + 2 * i \in 1..(1 + 2 * n) BY <3>1, <1>2
    <3>3. Word(v)[3 + 2 * i] = tail[2 * i] /\ Word(v)[3 + (1 + 2 * i)] = tail[1 + 2 * i] BY <2>3, <3>2
    <3>4. tail[1 + (2 * i - 1)] = ids[2 * i - 1] /\ tail[1 + 2 * i] = ids[2 * i] BY <2>2, <3>1
    <3>5. 1 + (2 * i - 1) = 2 * i /\ 3 + (1 + 2 * i) = 4 + 2 * i BY <1>2
    <3> QED BY <3>3, <3>4, <3>5
  <2> QED BY <1>8, <1>11, <2>3, <2>4, <2>5 DEF n
<1> QED BY <1>10, <1>11

(* Three numbers are compared by the first that differs.                   *)
LEMMA LeastIndex ==
  ASSUME NEW differ, differ \subseteq Nat, differ # {}
  PROVE  LET i == CHOOSE i \in differ : \A j \in differ : i <= j IN i \in differ /\ \A j \in differ : i <= j
BY LeastNumber

LEMMA CompareCases ==
  ASSUME NEW v \in Versions, NEW w \in Versions
  PROVE  /\ v.nums[1] # w.nums[1] => Compare(v, w) = Sign(v.nums[1], w.nums[1])
         /\ v.nums[1] = w.nums[1] /\ v.nums[2] # w.nums[2] => Compare(v, w) = Sign(v.nums[2], w.nums[2])
         /\ v.nums[1] = w.nums[1] /\ v.nums[2] = w.nums[2] /\ v.nums[3] # w.nums[3] =>
              Compare(v, w) = Sign(v.nums[3], w.nums[3])
         /\ v.nums = w.nums =>
              Compare(v, w) = IF v.pre # <<>> /\ w.pre = <<>> THEN -1
                              ELSE IF v.pre = <<>> /\ w.pre # <<>> THEN 1
                              ELSE ComparePreIdentifiers(v.pre, w.pre)
         /\ v.nums[1] = w.nums[1] /\ v.nums[2] = w.nums[2] /\ v.nums[3] = w.nums[3] => v.nums = w.nums
<1> DEFINE differ == {i \in 1..3 : v.nums[i] # w.nums[i]}
           least == CHOOSE i \in differ : \A j \in differ : i <= j
<1>1. Compare(v, w) = IF differ # {} THEN Sign(v.nums[least], w.nums[least])
                      ELSE IF v.pre # <<>> /\ w.pre = <<>> THEN -1
                      ELSE IF v.pre = <<>> /\ w.pre # <<>> THEN 1
                      ELSE ComparePreIdentifiers(v.pre, w.pre)
  BY DEF Compare
<1>2. differ # {} => least \in differ /\ \A j \in differ : least <= j
  <2>1. differ \subseteq Nat OBVIOUS
  <2> HIDE DEF differ
  <2> QED BY <2>1, LeastIndex
<1>3. v.nums \in [1..3 -> Nat] /\ w.nums \in [1..3 -> Nat] BY DEF Versions
<1> HIDE DEF least
<1>4. v.nums[1] # w.nums[1] => differ # {} /\ least = 1 BY <1>2
<1>5. v.nums[1] = w.nums[1] /\ v.nums[2] # w.nums[2] => differ # {} /\ least = 2 BY <1>2
<1>6. v.nums[1] = w.nums[1] /\ v.nums[2] = w.nums[2] /\ v.nums[3] # w.nums[3] => differ # {} /\ least = 3 BY <1>2
<1>7. v.nums = w.nums => differ = {} OBVIOUS
<1>8. v.nums[1] = w.nums[1] /\ v.nums[2] = w.nums[2] /\ v.nums[3] = w.nums[3] => v.nums = w.nums
  <2>1. \A i \in 1..3 : i = 1 \/ i = 2 \/ i = 3 OBVIOUS
  <2> QED BY <1>3, <2>1
<1> HIDE DEF differ
<1> QED BY <1>1, <1>4, <1>5, <1>6, <1>7, <1>8

(* Identifiers of pre-releases, by the first that differs, or the shorter. *)
LetterLess(x, y) == (~x.word /\ y.word) \/ (x.word = y.word /\ x.value < y.value)
PreLess(a, b) ==
  \E i \in 1..Len(b) :
    /\ \A j \in 1..(i - 1) : j <= Len(a) /\ a[j] = b[j]
    /\ i = Len(a) + 1 \/ (i <= Len(a) /\ LetterLess(a[i], b[i]))

LEMMA PreCompare ==
  ASSUME NEW a \in Seq(Letters), NEW b \in Seq(Letters)
  PROVE  \/ ComparePreIdentifiers(a, b) = 0 /\ a = b
         \/ ComparePreIdentifiers(a, b) = -1 /\ PreLess(a, b)
         \/ ComparePreIdentifiers(a, b) = 1 /\ PreLess(b, a)
<1> DEFINE common == IF Len(a) < Len(b) THEN Len(a) ELSE Len(b)
           Order(i) == IF a[i].word = b[i].word THEN Sign(a[i].value, b[i].value)
                    ELSE IF a[i].word THEN 1 ELSE -1
           differ == {i \in 1..common : Order(i) # 0}
           least == CHOOSE i \in differ : \A j \in differ : i <= j
<1>1. ComparePreIdentifiers(a, b) = IF differ = {} THEN Sign(Len(a), Len(b)) ELSE Order(least)
  BY DEF ComparePreIdentifiers
<1>2. Len(a) \in Nat /\ Len(b) \in Nat /\ common \in Nat /\ common <= Len(a) /\ common <= Len(b)
  OBVIOUS
<1>3. \A i \in 1..common : a[i] \in Letters /\ b[i] \in Letters BY <1>2
<1>4. ASSUME NEW i \in 1..common
      PROVE  \/ Order(i) = 0 /\ a[i] = b[i]
             \/ Order(i) = -1 /\ LetterLess(a[i], b[i])
             \/ Order(i) = 1 /\ LetterLess(b[i], a[i])
  <2>1. a[i] \in Letters /\ b[i] \in Letters BY <1>3
  <2> DEFINE x == a[i]
             y == b[i]
  <2>2. x \in [word : BOOLEAN, value : Int] /\ y \in [word : BOOLEAN, value : Int] BY <2>1 DEF Letters
  <2>3. Order(i) = IF x.word = y.word THEN Sign(x.value, y.value) ELSE IF x.word THEN 1 ELSE -1 OBVIOUS
  <2> HIDE DEF x, y, Order
  <2>4. x.word = y.word /\ x.value = y.value => x = y BY <2>2
  <2>5. \/ Order(i) = 0 /\ x = y
        \/ Order(i) = -1 /\ LetterLess(x, y)
        \/ Order(i) = 1 /\ LetterLess(y, x)
    BY <2>2, <2>3, <2>4 DEF LetterLess, Sign
  <2> QED BY <2>5 DEF x, y
<1> HIDE DEF Order
<1>5. CASE differ = {}
  <2>1. \A i \in 1..common : a[i] = b[i]
    <3>1. \A i \in 1..common : Order(i) = 0 BY <1>5
    <3> QED BY <3>1, <1>4
  <2> HIDE DEF differ
  <2>2. CASE Len(a) < Len(b)
    <3>1. Len(a) + 1 \in 1..Len(b) /\ \A j \in 1..Len(a) : j <= Len(a) /\ a[j] = b[j] BY <1>2, <2>1, <2>2
    <3>2. (Len(a) + 1) - 1 = Len(a) BY <1>2
    <3> QED BY <1>1, <1>2, <1>5, <2>2, <3>1, <3>2 DEF PreLess, Sign
  <2>3. CASE Len(b) < Len(a)
    <3>1. Len(b) + 1 \in 1..Len(a) /\ \A j \in 1..Len(b) : j <= Len(b) /\ b[j] = a[j] BY <1>2, <2>1, <2>3
    <3>2. (Len(b) + 1) - 1 = Len(b) BY <1>2
    <3> QED BY <1>1, <1>2, <1>5, <2>3, <3>1, <3>2 DEF PreLess, Sign
  <2>4. CASE Len(a) = Len(b)
    <3>1. a = b BY <2>1, <2>4
    <3> QED BY <1>1, <1>2, <1>5, <2>4, <3>1 DEF Sign
  <2> QED BY <1>2, <2>2, <2>3, <2>4
<1>6. CASE differ # {}
  <2>1. least \in differ /\ \A j \in differ : least <= j
    <3>1. differ \subseteq Nat BY <1>2
    <3> HIDE DEF differ
    <3> QED BY <1>6, <3>1, LeastIndex
  <2>2. ComparePreIdentifiers(a, b) = Order(least) BY <1>1, <1>6
  <2> HIDE DEF least
  <2>3. least \in 1..common /\ Order(least) # 0 BY <2>1
  <2>4. \A j \in 1..(least - 1) : j \in 1..common /\ a[j] = b[j]
    <3> SUFFICES ASSUME NEW j \in 1..(least - 1) PROVE j \in 1..common /\ a[j] = b[j] OBVIOUS
    <3>1. j \in 1..common /\ ~(least <= j) BY <1>2, <2>3
    <3>2. j \notin differ BY <2>1, <3>1
    <3>3. Order(j) = 0 BY <3>1, <3>2
    <3> QED BY <3>1, <3>3, <1>4
  <2> HIDE DEF differ
  <2>5. least \in 1..Len(a) /\ least \in 1..Len(b) BY <1>2, <2>3
  <2>6. \A j \in 1..(least - 1) : j <= Len(a) /\ j <= Len(b) BY <1>2, <2>4
  <2>7. CASE Order(least) = -1
    <3>1. LetterLess(a[least], b[least]) BY <1>4, <2>3, <2>7
    <3>2. PreLess(a, b) BY <2>4, <2>5, <2>6, <3>1 DEF PreLess
    <3> QED BY <2>2, <2>7, <3>2
  <2>8. CASE Order(least) = 1
    <3>1. LetterLess(b[least], a[least]) BY <1>4, <2>3, <2>8
    <3>2. PreLess(b, a) BY <2>4, <2>5, <2>6, <3>1 DEF PreLess
    <3> QED BY <2>2, <2>8, <3>2
  <2> QED BY <1>4, <2>3, <2>7, <2>8
<1> QED BY <1>5, <1>6

(* Words differ where numbers do, and where identifiers do.                *)
LEMMA NumbersPrecede ==
  ASSUME NEW v \in Versions, NEW w \in Versions, NEW i \in 1..3,
         \A j \in 1..(i - 1) : v.nums[j] = w.nums[j], v.nums[i] < w.nums[i]
  PROVE  Precedes(v, w)
<1>1. \A j \in 1..3 : Word(v)[j] = v.nums[j] /\ Word(w)[j] = w.nums[j] BY WordOf
<1>2. Len(Word(v)) \in Nat /\ Len(Word(v)) >= 4
  <2>1. Len(v.pre) \in Nat BY DEF Versions
  <2> QED BY <2>1, WordOf
<1>3. Len(Word(w)) \in Nat /\ Len(Word(w)) >= 4
  <2>1. Len(w.pre) \in Nat BY DEF Versions
  <2> QED BY <2>1, WordOf
<1>4. i \in 1..Len(Word(w)) /\ i <= Len(Word(v)) BY <1>2, <1>3
<1>5. \A j \in 1..(i - 1) : j <= Len(Word(v)) /\ Word(v)[j] = Word(w)[j] BY <1>1, <1>2
<1>6. Word(v)[i] < Word(w)[i] BY <1>1
<1> QED BY <1>4, <1>5, <1>6 DEF Precedes

LEMMA StagesPrecede ==
  ASSUME NEW v \in Versions, NEW w \in Versions, v.nums = w.nums, v.pre # <<>>, w.pre = <<>>
  PROVE  Precedes(v, w)
<1>1. \A j \in 1..3 : Word(v)[j] = Word(w)[j] BY WordOf
<1>2. Word(v)[4] = 0 /\ Word(w)[4] = 1 BY WordOf
<1>3. Len(v.pre) \in Nat BY DEF Versions
<1>4. Len(Word(w)) = 4 /\ Len(Word(v)) = 4 + 2 * Len(v.pre) BY WordOf
<1>5. 4 \in 1..Len(Word(w)) /\ 4 <= Len(Word(v)) BY <1>3, <1>4
<1>6. \A j \in 1..(4 - 1) : j <= Len(Word(v)) /\ Word(v)[j] = Word(w)[j] BY <1>1, <1>3, <1>4
<1> QED BY <1>2, <1>5, <1>6 DEF Precedes

LEMMA LettersPrecede ==
  ASSUME NEW v \in Versions, NEW w \in Versions, v.nums = w.nums, v.pre # <<>>, w.pre # <<>>,
         PreLess(v.pre, w.pre)
  PROVE  Precedes(v, w)
<1> DEFINE m == Len(v.pre)
           n == Len(w.pre)
<1>1. v.pre \in Seq(Letters) /\ w.pre \in Seq(Letters) /\ m \in Nat /\ n \in Nat BY DEF Versions
<1>2. /\ Len(Word(v)) = 4 + 2 * m /\ Len(Word(w)) = 4 + 2 * n
      /\ \A j \in 1..4 : Word(v)[j] = Word(w)[j]
  <2>1. Len(Word(v)) = 4 + 2 * m /\ Len(Word(w)) = 4 + 2 * n BY WordOf
  <2>2. \A j \in 1..3 : Word(v)[j] = Word(w)[j] BY WordOf
  <2>3. Word(v)[4] = Word(w)[4] BY WordOf
  <2>4. \A j \in 1..4 : j \in 1..3 \/ j = 4 OBVIOUS
  <2> QED BY <2>1, <2>2, <2>3, <2>4
<1>3. \A j \in 1..m : Word(v)[3 + 2 * j] = (IF v.pre[j].word THEN 1 ELSE 0) /\ Word(v)[4 + 2 * j] = v.pre[j].value
  BY WordOf
<1>4. \A j \in 1..n : Word(w)[3 + 2 * j] = (IF w.pre[j].word THEN 1 ELSE 0) /\ Word(w)[4 + 2 * j] = w.pre[j].value
  BY WordOf
<1>5. PICK i \in 1..n : /\ \A j \in 1..(i - 1) : j <= m /\ v.pre[j] = w.pre[j]
                        /\ i = m + 1 \/ (i <= m /\ LetterLess(v.pre[i], w.pre[i]))
  BY DEF PreLess
<1>6. ASSUME NEW k \in 1..(2 + 2 * i) PROVE k <= Len(Word(v)) /\ Word(v)[k] = Word(w)[k]
  <2>1. CASE k <= 4
    <3>1. k \in 1..4 BY <2>1
    <3> QED BY <3>1, <1>1, <1>2
  <2>2. CASE k > 4
    <3>1. PICK j \in 1..(i - 1) : k = 3 + 2 * j \/ k = 4 + 2 * j
      <4>1. (k - 3) \div 2 \in 1..(i - 1) /\ (k = 3 + 2 * ((k - 3) \div 2) \/ k = 4 + 2 * ((k - 3) \div 2))
        BY <2>2
      <4> QED BY <4>1
    <3>2. j \in 1..m /\ j \in 1..n /\ v.pre[j] = w.pre[j] BY <1>1, <1>5
    <3>3. Word(v)[3 + 2 * j] = Word(w)[3 + 2 * j] /\ Word(v)[4 + 2 * j] = Word(w)[4 + 2 * j]
      BY <1>3, <1>4, <3>2
    <3>4. k <= 4 + 2 * m BY <1>1, <3>1, <3>2
    <3>5. Word(v)[k] = Word(w)[k] BY <3>1, <3>3
    <3> QED BY <1>2, <3>4, <3>5
  <2> QED BY <2>1, <2>2
<1>7. CASE i = m + 1
  <2>1. 3 + 2 * i = Len(Word(v)) + 1 /\ 3 + 2 * i \in 1..Len(Word(w)) BY <1>1, <1>2, <1>7
  <2>2. \A k \in 1..((3 + 2 * i) - 1) : k \in 1..(2 + 2 * i) BY <1>1
  <2> DEFINE p == 3 + 2 * i
  <2>3. p \in 1..Len(Word(w)) /\ p = Len(Word(v)) + 1
        /\ \A k \in 1..(p - 1) : k <= Len(Word(v)) /\ Word(v)[k] = Word(w)[k]
    BY <1>6, <2>1, <2>2
  <2> HIDE DEF p
  <2> QED BY <2>3 DEF Precedes
<1>8. CASE i <= m /\ LetterLess(v.pre[i], w.pre[i])
  <2>1. i \in 1..m BY <1>8
  <2>2. v.pre[i] \in Letters /\ w.pre[i] \in Letters BY <1>1, <2>1
  <2>3. CASE v.pre[i].word = w.pre[i].word /\ v.pre[i].value < w.pre[i].value
    <3> DEFINE p == 4 + 2 * i
    <3>1. p \in 1..Len(Word(w)) /\ p <= Len(Word(v)) BY <1>1, <1>2, <2>1
    <3>2. Word(v)[p] < Word(w)[p]
      <4>1. Word(v)[p] = v.pre[i].value BY <1>3, <2>1
      <4>2. Word(w)[p] = w.pre[i].value BY <1>4
      <4> QED BY <2>3, <4>1, <4>2
    <3>3. Word(v)[3 + 2 * i] = Word(w)[3 + 2 * i] /\ 3 + 2 * i <= Len(Word(v))
      <4>1. Word(v)[3 + 2 * i] = IF v.pre[i].word THEN 1 ELSE 0 BY <1>3, <2>1
      <4>2. Word(w)[3 + 2 * i] = IF w.pre[i].word THEN 1 ELSE 0 BY <1>4
      <4>3. 3 + 2 * i <= 4 + 2 * m BY <1>1, <2>1
      <4> QED BY <1>2, <2>3, <4>1, <4>2, <4>3
    <3>4. \A k \in 1..(p - 1) : k \in 1..(2 + 2 * i) \/ k = 3 + 2 * i BY <1>1
    <3>5. \A k \in 1..(p - 1) : k <= Len(Word(v)) /\ Word(v)[k] = Word(w)[k] BY <1>6, <3>3, <3>4
    <3> HIDE DEF p
    <3> QED BY <3>1, <3>2, <3>5 DEF Precedes
  <2>4. CASE ~v.pre[i].word /\ w.pre[i].word
    <3> DEFINE p == 3 + 2 * i
    <3>1. p \in 1..Len(Word(w)) /\ p <= Len(Word(v)) BY <1>1, <1>2, <2>1
    <3>2. Word(v)[p] < Word(w)[p]
      <4>1. Word(v)[p] = 0 BY <1>3, <2>1, <2>4
      <4>2. Word(w)[p] = 1 BY <1>4, <2>4
      <4> QED BY <4>1, <4>2
    <3>3. \A k \in 1..(p - 1) : k \in 1..(2 + 2 * i) BY <1>1
    <3>4. \A k \in 1..(p - 1) : k <= Len(Word(v)) /\ Word(v)[k] = Word(w)[k] BY <1>6, <3>3
    <3> HIDE DEF p
    <3> QED BY <3>1, <3>2, <3>4 DEF Precedes
  <2> QED BY <1>8, <2>3, <2>4 DEF LetterLess
<1> QED BY <1>5, <1>7, <1>8

LEMMA PrecedesOrder ==
  ASSUME NEW v \in Versions, NEW w \in Versions, Precedes(v, w)
  PROVE  ~Precedes(w, v) /\ \A u \in Versions : Precedes(w, u) => Precedes(v, u)
<1>1. \A x, y : Precedes(x, y) <=> LexLess(Word(x), Word(y)) BY DEF Precedes, LexLess
<1>2. \A x \in Versions : Word(x) \in Seq(Int) BY WordOf
<1>3. LexLess(Word(v), Word(w)) BY <1>1
<1>4. ~LexLess(Word(w), Word(v)) BY <1>2, <1>3, LexOrder
<1>5. \A c \in Seq(Int) : LexLess(Word(w), c) => LexLess(Word(v), c) BY <1>2, <1>3, LexOrder
<1> QED BY <1>1, <1>2, <1>4, <1>5

(* Version.Compare is the order of precedence, and the order is total.     *)
LEMMA CompareIsPrecedence ==
  ASSUME NEW v \in Versions, NEW w \in Versions
  PROVE  \/ Compare(v, w) = 0 /\ v = w /\ ~Precedes(v, w) /\ ~Precedes(w, v)
         \/ Compare(v, w) = -1 /\ Precedes(v, w) /\ ~Precedes(w, v)
         \/ Compare(v, w) = 1 /\ Precedes(w, v) /\ ~Precedes(v, w)
<1>1. /\ v.nums = w.nums /\ v.pre = w.pre => v = w
      /\ v.nums \in [1..3 -> Nat] /\ w.nums \in [1..3 -> Nat]
      /\ v.pre \in Seq(Letters) /\ w.pre \in Seq(Letters)
  BY DEF Versions
<1> DEFINE Agree == \/ Compare(v, w) = 0 /\ v = w
                    \/ Compare(v, w) = -1 /\ Precedes(v, w)
                    \/ Compare(v, w) = 1 /\ Precedes(w, v)
<1>2. ASSUME NEW i \in 1..3, \A j \in 1..(i - 1) : v.nums[j] = w.nums[j], v.nums[i] # w.nums[i],
             Compare(v, w) = Sign(v.nums[i], w.nums[i])
      PROVE  Agree
  <2>1. CASE v.nums[i] < w.nums[i]
    <3>1. Precedes(v, w) BY <1>2, <2>1, NumbersPrecede
    <3> QED BY <1>2, <2>1, <3>1 DEF Sign
  <2>2. CASE w.nums[i] < v.nums[i]
    <3>1. \A j \in 1..(i - 1) : w.nums[j] = v.nums[j] BY <1>2
    <3>2. Precedes(w, v) BY <2>2, <3>1, NumbersPrecede
    <3>3. ~(v.nums[i] < w.nums[i]) /\ v.nums[i] # w.nums[i] BY <1>1, <2>2
    <3> QED BY <1>2, <3>2, <3>3 DEF Sign
  <2>3. v.nums[i] \in Nat /\ w.nums[i] \in Nat BY <1>1
  <2> QED BY <1>2, <2>1, <2>2, <2>3
<1>3. ASSUME v.nums = w.nums PROVE Agree
  <2>1. CASE v.pre # <<>> /\ w.pre = <<>>
    <3>1. Compare(v, w) = -1 BY <1>3, <2>1, CompareCases
    <3>2. Precedes(v, w) BY <1>3, <2>1, StagesPrecede
    <3> QED BY <3>1, <3>2
  <2>2. CASE v.pre = <<>> /\ w.pre # <<>>
    <3>1. Compare(v, w) = 1 BY <1>3, <2>2, CompareCases
    <3>2. Precedes(w, v) BY <1>3, <2>2, StagesPrecede
    <3> QED BY <3>1, <3>2
  <2>3. CASE (v.pre = <<>>) = (w.pre = <<>>)
    <3>1. Compare(v, w) = ComparePreIdentifiers(v.pre, w.pre) BY <1>3, <2>3, CompareCases
    <3>2. CASE v.pre = <<>>
      <4>1. ~PreLess(v.pre, w.pre) /\ ~PreLess(w.pre, v.pre) BY <2>3, <3>2 DEF PreLess
      <4>2. ComparePreIdentifiers(v.pre, w.pre) = 0 BY <1>1, <4>1, PreCompare
      <4> QED BY <1>1, <1>3, <2>3, <3>1, <3>2, <4>2
    <3>3. CASE v.pre # <<>>
      <4>1. PreLess(v.pre, w.pre) => Precedes(v, w) BY <1>3, <2>3, <3>3, LettersPrecede
      <4>2. PreLess(w.pre, v.pre) => Precedes(w, v) BY <1>3, <2>3, <3>3, LettersPrecede
      <4> QED BY <1>1, <1>3, <3>1, <4>1, <4>2, PreCompare
    <3> QED BY <3>2, <3>3
  <2> QED BY <2>1, <2>2, <2>3
<1>4. ASSUME v.nums[1] # w.nums[1] PROVE Agree
  <2>1. \A j \in 1..(1 - 1) : v.nums[j] = w.nums[j] OBVIOUS
  <2>2. Compare(v, w) = Sign(v.nums[1], w.nums[1]) BY <1>4, CompareCases
  <2> HIDE DEF Agree
  <2> QED BY <1>2, <1>4, <2>1, <2>2
<1>5. ASSUME v.nums[1] = w.nums[1] /\ v.nums[2] # w.nums[2] PROVE Agree
  <2>1. \A j \in 1..(2 - 1) : v.nums[j] = w.nums[j] BY <1>5
  <2>2. Compare(v, w) = Sign(v.nums[2], w.nums[2]) BY <1>5, CompareCases
  <2> HIDE DEF Agree
  <2> QED BY <1>2, <1>5, <2>1, <2>2
<1>6. ASSUME v.nums[1] = w.nums[1] /\ v.nums[2] = w.nums[2] /\ v.nums[3] # w.nums[3] PROVE Agree
  <2>1. \A j \in 1..(3 - 1) : v.nums[j] = w.nums[j]
    <3>1. \A j \in 1..(3 - 1) : j = 1 \/ j = 2 OBVIOUS
    <3> QED BY <1>6, <3>1
  <2>2. Compare(v, w) = Sign(v.nums[3], w.nums[3]) BY <1>6, CompareCases
  <2> HIDE DEF Agree
  <2> QED BY <1>2, <1>6, <2>1, <2>2
<1>7. Agree
  <2> HIDE DEF Agree
  <2> QED BY <1>3, <1>4, <1>5, <1>6, CompareCases
<1>8. ~Precedes(v, v)
  <2> SUFFICES ASSUME Precedes(v, v) PROVE FALSE OBVIOUS
  <2> QED BY PrecedesOrder
<1>9. ~(Precedes(v, w) /\ Precedes(w, v))
  <2> SUFFICES ASSUME Precedes(v, w), Precedes(w, v) PROVE FALSE OBVIOUS
  <2> QED BY PrecedesOrder
<1> QED BY <1>7, <1>8, <1>9

LEMMA HigherPrecedes ==
  ASSUME NEW v \in Versions, NEW w \in Versions
  PROVE  Compare(w, v) <= 0 <=> ~Precedes(v, w)
<1>1. \/ Compare(w, v) = 0 /\ ~Precedes(v, w)
      \/ Compare(w, v) = -1 /\ ~Precedes(v, w)
      \/ Compare(w, v) = 1 /\ Precedes(v, w)
  BY CompareIsPrecedence
<1> QED BY <1>1

(* Constraint.Match is what the constraint means: an interval.             *)
ParsedVersions == [nums : [1..3 -> Nat], pre : Seq(Identifiers)]
Operators == {">=", ">", "<=", "<", "=", "~"}

LEMMA PlainIsVersion == ParsedVersions \subseteq Versions
<1>1. Identifiers \subseteq Letters BY DEF Identifiers, Letters
<1>2. Seq(Identifiers) \subseteq Seq(Letters) BY <1>1
<1> QED BY <1>2 DEF ParsedVersions, Versions

(* No version comes between what precedes a number and its pre-releases.   *)
LEMMA FirstIsLeast ==
  ASSUME NEW v \in ParsedVersions, NEW x \in Nat, NEW y \in Nat, NEW z \in Nat
  PROVE  Precedes(v, First(<<x, y, z>>)) <=>
           \/ v.nums[1] < x
           \/ v.nums[1] = x /\ v.nums[2] < y
           \/ v.nums[1] = x /\ v.nums[2] = y /\ v.nums[3] < z
<1> DEFINE f == First(<<x, y, z>>)
           least == <<[word |-> FALSE, value |-> -1]>>
<1>1. v \in Versions /\ v.nums \in [1..3 -> Nat] /\ v.pre \in Seq(Identifiers) BY PlainIsVersion DEF ParsedVersions
<1>2. f.nums = <<x, y, z>> /\ f.pre = least BY DEF First
<1>3. f \in Versions
  <2>1. <<x, y, z>> \in [1..3 -> Nat]
    <3>1. \A i \in 1..3 : i = 1 \/ i = 2 \/ i = 3 OBVIOUS
    <3> QED BY <3>1
  <2>2. [word |-> FALSE, value |-> -1] \in Letters BY DEF Letters
  <2>3. least \in Seq(Letters) BY <2>2
  <2> HIDE DEF least
  <2>4. f = [nums |-> <<x, y, z>>, pre |-> least] BY DEF First, least
  <2> QED BY <2>1, <2>3, <2>4 DEF Versions
<1>4. f.nums[1] = x /\ f.nums[2] = y /\ f.nums[3] = z
      /\ f.pre # <<>> /\ Len(f.pre) = 1 /\ f.pre[1].word = FALSE /\ f.pre[1].value = -1
  <2>1. least # <<>> /\ Len(least) = 1 /\ least[1].word = FALSE /\ least[1].value = -1 OBVIOUS
  <2> HIDE DEF f, least
  <2> QED BY <1>2, <2>1
<1> HIDE DEF f
<1>5. v.nums = f.nums => ~Precedes(v, f)
  <2> SUFFICES ASSUME v.nums = f.nums PROVE ~Precedes(v, f) OBVIOUS
  <2>1. f.pre # <<>> BY <1>4
  <2>2. CASE v.pre = <<>>
    <3>1. Precedes(f, v) BY <1>1, <1>3, <2>1, <2>2, StagesPrecede
    <3> QED BY <1>1, <1>3, <3>1, PrecedesOrder
  <2>3. CASE v.pre # <<>>
    <3>1. v.pre[1] \in Identifiers /\ 1 \in 1..Len(v.pre) BY <1>1, <2>3
    <3>2. LetterLess(f.pre[1], v.pre[1])
      <4>1. f.pre[1].word = FALSE /\ f.pre[1].value = -1 BY <1>4
      <4>2. v.pre[1].word \in BOOLEAN /\ v.pre[1].value \in Nat BY <3>1 DEF Identifiers
      <4>3. -1 < v.pre[1].value BY <4>2
      <4> QED BY <4>1, <4>2, <4>3 DEF LetterLess
    <3>3. 1 <= Len(f.pre) BY <1>4
    <3>4. \A j \in 1..(1 - 1) : j <= Len(f.pre) /\ f.pre[j] = v.pre[j] OBVIOUS
    <3>5. PreLess(f.pre, v.pre) BY <3>1, <3>2, <3>3, <3>4 DEF PreLess
    <3>6. Precedes(f, v) BY <1>1, <1>3, <2>1, <2>3, <3>5, LettersPrecede
    <3> QED BY <1>1, <1>3, <3>6, PrecedesOrder
  <2> QED BY <2>2, <2>3
<1>6. /\ Precedes(v, f) <=> Compare(v, f) = -1
      /\ Compare(v, f) \in {-1, 0, 1}
  BY <1>1, <1>3, CompareIsPrecedence
<1>7. v.nums[1] \in Nat /\ v.nums[2] \in Nat /\ v.nums[3] \in Nat BY <1>1
<1>8. CASE v.nums[1] # x
  <2>1. Compare(v, f) = Sign(v.nums[1], x) BY <1>1, <1>3, <1>4, <1>8, CompareCases
  <2> QED BY <1>6, <1>7, <1>8, <2>1 DEF Sign, f
<1>9. CASE v.nums[1] = x /\ v.nums[2] # y
  <2>1. Compare(v, f) = Sign(v.nums[2], y) BY <1>1, <1>3, <1>4, <1>9, CompareCases
  <2> QED BY <1>6, <1>7, <1>9, <2>1 DEF Sign, f
<1>10. CASE v.nums[1] = x /\ v.nums[2] = y /\ v.nums[3] # z
  <2>1. Compare(v, f) = Sign(v.nums[3], z) BY <1>1, <1>3, <1>4, <1>10, CompareCases
  <2> QED BY <1>6, <1>7, <1>10, <2>1 DEF Sign, f
<1>11. CASE v.nums[1] = x /\ v.nums[2] = y /\ v.nums[3] = z
  <2>1. v.nums = f.nums BY <1>1, <1>3, <1>4, <1>11, CompareCases
  <2> QED BY <1>5, <1>7, <1>11, <2>1 DEF f
<1> QED BY <1>8, <1>9, <1>10, <1>11

LEMMA MatchIsMeaning ==
  ASSUME NEW c, c.op \in Operators, c.version \in ParsedVersions, NEW v \in ParsedVersions
  PROVE  Match(c, v) <=> Means(c, v)
<1> DEFINE w == c.version
           cmp == Compare(v, w)
<1>1. v \in Versions /\ w \in Versions BY PlainIsVersion
<1>2. /\ v.nums[1] \in Nat /\ v.nums[2] \in Nat /\ v.nums[3] \in Nat
      /\ w.nums[1] \in Nat /\ w.nums[2] \in Nat /\ w.nums[3] \in Nat
  BY DEF ParsedVersions
<1> HIDE DEF w, cmp
<1>3. /\ cmp \in {-1, 0, 1}
      /\ cmp = -1 <=> Precedes(v, w)
      /\ cmp = 1 <=> Precedes(w, v)
  BY <1>1, CompareIsPrecedence DEF cmp
<1>4. /\ v.nums[1] # w.nums[1] => cmp = Sign(v.nums[1], w.nums[1])
      /\ v.nums[1] = w.nums[1] /\ v.nums[2] # w.nums[2] => cmp = Sign(v.nums[2], w.nums[2])
  BY <1>1, CompareCases DEF cmp
<1>5. /\ v.nums[1] < w.nums[1] => cmp = -1
      /\ v.nums[1] = w.nums[1] /\ v.nums[2] < w.nums[2] => cmp = -1
  BY <1>2, <1>4 DEF Sign
<1>6. Precedes(v, First(<<w.nums[1] + 1, 0, 0>>)) <=> v.nums[1] <= w.nums[1]
  <2>1. w.nums[1] + 1 \in Nat BY <1>2
  <2> QED BY <1>2, <2>1, FirstIsLeast
<1>7. Precedes(v, First(<<w.nums[1], w.nums[2] + 1, 0>>)) <=>
        v.nums[1] < w.nums[1] \/ (v.nums[1] = w.nums[1] /\ v.nums[2] <= w.nums[2])
  <2>1. w.nums[2] + 1 \in Nat BY <1>2
  <2> QED BY <1>2, <2>1, FirstIsLeast
<1>8. c.version = w BY DEF w
<1>9. Compare(v, c.version) = cmp BY DEF cmp, w
<1>10. CASE c.op = ">=" \/ c.op = ">"
  <2>1. cmp >= 0 => (MajorLocked(c, v) <=> (w.nums[1] = 0 \/ v.nums[1] <= w.nums[1]))
    BY <1>2, <1>3, <1>5, <1>8 DEF MajorLocked
  <2>2. Match(c, v) <=> (IF c.op = ">=" THEN cmp >= 0 ELSE cmp > 0) /\ MajorLocked(c, v)
    BY <1>9, <1>10 DEF Match
  <2>3. Means(c, v) <=> /\ IF c.op = ">=" THEN ~Precedes(v, w) ELSE Precedes(w, v)
                        /\ w.nums[1] = 0 \/ Precedes(v, First(<<w.nums[1] + 1, 0, 0>>))
    BY <1>8, <1>10 DEF Means
  <2> QED BY <1>3, <1>6, <2>1, <2>2, <2>3
<1>11. CASE c.op = "~"
  <2>1. cmp >= 0 => (v.nums[1] = w.nums[1] /\ v.nums[2] = w.nums[2] <=>
                      v.nums[1] < w.nums[1] \/ (v.nums[1] = w.nums[1] /\ v.nums[2] <= w.nums[2]))
    BY <1>2, <1>3, <1>5
  <2> QED BY <1>3, <1>7, <1>8, <1>9, <1>11, <2>1 DEF Match, Means
<1>12. CASE c.op \in {"<", "<=", "="}
  <2>1. Match(c, v) <=> CASE c.op = "<" -> cmp < 0 [] c.op = "<=" -> cmp <= 0 [] c.op = "=" -> cmp = 0
    BY <1>9, <1>12 DEF Match
  <2>2. Means(c, v) <=> CASE c.op = "<" -> Precedes(v, w) [] c.op = "<=" -> ~Precedes(w, v)
                          [] c.op = "=" -> ~Precedes(v, w) /\ ~Precedes(w, v)
    BY <1>8, <1>12 DEF Means
  <2>3. CASE c.op = "<" BY <1>3, <2>1, <2>2, <2>3
  <2>4. CASE c.op = "<=" BY <1>3, <2>1, <2>2, <2>4
  <2>5. CASE c.op = "=" BY <1>3, <2>1, <2>2, <2>5
  <2> QED BY <1>12, <2>3, <2>4, <2>5
<1> QED BY <1>10, <1>11, <1>12 DEF Operators

(* What is chosen of finitely many texts.                                  *)

LEMMA ParsedIsPlain ==
  ASSUME NEW t, t.nums \in Seq(Nat), t.pre \in Seq(Identifiers)
  PROVE  /\ ParseVersion(t) \in ParsedVersions /\ ParseVersion(t) \in VersionTexts
         /\ IsVersion(ParseVersion(t))
         /\ ParseVersion(ParseVersion(t)) = ParseVersion(t)
<1> DEFINE p == ParseVersion(t)
           number(i) == IF i <= Len(t.nums) THEN t.nums[i] ELSE 0
           n == [i \in 1..3 |-> number(i)]
<1>1. p = [nums |-> n, pre |-> t.pre] BY DEF ParseVersion
<1>2. \A i \in 1..3 : number(i) \in Nat OBVIOUS
<1>3. n \in [1..3 -> Nat] BY <1>2
<1> HIDE DEF n, number
<1>4. p \in ParsedVersions BY <1>1, <1>3 DEF ParsedVersions
<1>5. n \in Seq(Nat) /\ Len(n) = 3
  <2>1. 3 \in Nat OBVIOUS
  <2> QED BY <1>3, <2>1, IsSequence
<1>6. p \in VersionTexts BY <1>1, <1>5 DEF VersionTexts
<1>7. n # <<>>
  <2>1. 3 \in Nat /\ 3 > 0 OBVIOUS
  <2> QED BY <1>3, <2>1, IsSequence
<1>8. IsVersion(p) BY <1>1, <1>7 DEF IsVersion
<1>9. [i \in 1..3 |-> IF i <= Len(n) THEN n[i] ELSE 0] = n BY <1>3, <1>5
<1>10. p.nums = n /\ p.pre = t.pre BY <1>1
<1> HIDE DEF p
<1>11. ParseVersion(p) = [nums |-> n, pre |-> t.pre] BY <1>9, <1>10 DEF ParseVersion
<1>12. ParseVersion(p) = p BY <1>1, <1>11
<1> QED BY <1>4, <1>6, <1>8, <1>12 DEF p

LEMMA AskedIsPlain ==
  ASSUME NEW c \in ConstraintTexts
  PROVE  /\ ParseConstraint(c).op \in Operators /\ ParseConstraint(c).version = ParseVersion(c)
         /\ ParseVersion(c) \in ParsedVersions /\ ParseVersion(c).pre = c.pre
<1>2. c.op \in {"none", ">=", ">", "<=", "<", "=", "~"} /\ c.nums \in Seq(Nat) /\ c.pre \in Seq(Identifiers)
  BY DEF ConstraintTexts
<1>3. ParseVersion(c) \in ParsedVersions BY <1>2, ParsedIsPlain
<1>4. ParseVersion(c).pre = c.pre BY DEF ParseVersion
<1> QED BY <1>2, <1>3, <1>4 DEF ParseConstraint, Operators

LEMMA ConstraintIsMeant ==
  ASSUME NEW c \in ConstraintTexts, NEW t \in VersionTexts
  PROVE  CheckConstraint(t, c) <=> IsVersion(c) /\ IsVersion(t) /\ Means(ParseConstraint(c), ParseVersion(t))
<1>1. t.nums \in Seq(Nat) /\ t.pre \in Seq(Identifiers) BY DEF VersionTexts
<1>2. ParseVersion(t) \in ParsedVersions BY <1>1, ParsedIsPlain
<1>3. ParseConstraint(c).op \in Operators /\ ParseConstraint(c).version \in ParsedVersions BY AskedIsPlain
<1>4. Match(ParseConstraint(c), ParseVersion(t)) <=> Means(ParseConstraint(c), ParseVersion(t))
  BY <1>2, <1>3, MatchIsMeaning
<1> QED BY <1>4 DEF CheckConstraint

LEMMA CandidateIsChoosable ==
  ASSUME NEW S \in SUBSET VersionTexts, NEW C \in SUBSET ConstraintTexts, \A c \in C : IsVersion(c), NEW t \in S
  PROVE  t \in Candidates(S, C) <=> Choosable(t, C)
<1>1. t \in VersionTexts /\ t.nums \in Seq(Nat) /\ t.pre \in Seq(Identifiers) BY DEF VersionTexts
<1>2. ParseVersion(t) \in ParsedVersions BY <1>1, ParsedIsPlain
<1>3. \A c \in C : Match(ParseConstraint(c), ParseVersion(t)) <=> Means(ParseConstraint(c), ParseVersion(t))
  BY <1>2, AskedIsPlain, MatchIsMeaning
<1> DEFINE parsed == {ParseConstraint(c) : c \in C}
           anchors == {c.version : c \in parsed}
<1>4. t \in Candidates(S, C) <=> /\ IsVersion(t)
                                 /\ \A c \in parsed : Match(c, ParseVersion(t))
                                 /\ PrereleaseAllowed(ParseVersion(t), anchors)
  BY DEF Candidates
<1>5. (\A c \in parsed : Match(c, ParseVersion(t))) <=> \A c \in C : Means(ParseConstraint(c), ParseVersion(t))
  BY <1>3
<1>6. PrereleaseAllowed(ParseVersion(t), anchors) <=>
        t.pre = <<>> \/ \E c \in C : c.pre # <<>> /\ ParseVersion(c).nums = ParseVersion(t).nums
  <2>1. ParseVersion(t).pre = t.pre BY DEF ParseVersion
  <2>2. \A a : a \in anchors <=> \E c \in C : a = ParseConstraint(c).version OBVIOUS
  <2>3. \A c \in C : ParseConstraint(c).version = ParseVersion(c) /\ ParseVersion(c).pre = c.pre BY AskedIsPlain
  <2> HIDE DEF anchors
  <2>4. (\E a \in anchors : a.pre # <<>> /\ a.nums = ParseVersion(t).nums) <=>
        \E c \in C : c.pre # <<>> /\ ParseVersion(c).nums = ParseVersion(t).nums
    <3>1. ASSUME NEW a \in anchors, a.pre # <<>>, a.nums = ParseVersion(t).nums
          PROVE  \E c \in C : c.pre # <<>> /\ ParseVersion(c).nums = ParseVersion(t).nums
      <4>1. PICK c \in C : a = ParseConstraint(c).version BY <2>2
      <4>2. a = ParseVersion(c) /\ ParseVersion(c).pre = c.pre BY <2>3, <4>1
      <4> QED BY <3>1, <4>2
    <3>2. ASSUME NEW c \in C, c.pre # <<>>, ParseVersion(c).nums = ParseVersion(t).nums
          PROVE  \E a \in anchors : a.pre # <<>> /\ a.nums = ParseVersion(t).nums
      <4>1. ParseVersion(c) \in anchors BY <2>2, <2>3
      <4> QED BY <2>3, <3>2, <4>1
    <3> QED BY <3>1, <3>2
  <2> QED BY <2>1, <2>4 DEF PrereleaseAllowed
<1> HIDE DEF parsed, anchors
<1> QED BY <1>4, <1>5, <1>6 DEF Choosable

LEMMA SelectionIsHighest ==
  ASSUME NEW S \in SUBSET VersionTexts, IsFiniteSet(S), NEW C \in SUBSET ConstraintTexts
  PROVE  /\ SelectVersionMulti(S, C) = {} => \A t \in S : ~Choosable(t, C)
         /\ \A t \in SelectVersionMulti(S, C) :
              /\ t \in S /\ Choosable(t, C) /\ \A c \in C : CheckConstraint(t, c)
              /\ \A o \in S : Choosable(o, C) => ~Precedes(ParseVersion(t), ParseVersion(o))
<1>1. \A t \in S : Choosable(t, C) => \A c \in C : IsVersion(c) BY DEF Choosable
<1>2. CASE ~\A c \in C : IsVersion(c) BY <1>1, <1>2 DEF SelectVersionMulti
<1>3. CASE \A c \in C : IsVersion(c)
  <2> DEFINE good == Candidates(S, C)
             Less == {e \in good \X good : Precedes(ParseVersion(e[1]), ParseVersion(e[2]))}
  <2>1. \A t \in S : t \in good <=> Choosable(t, C) BY <1>3, CandidateIsChoosable
  <2>2. good \in SUBSET S BY DEF Candidates
  <2>3. \A t \in S : ParseVersion(t) \in Versions
    <3>1. \A t \in S : t.nums \in Seq(Nat) /\ t.pre \in Seq(Identifiers) BY DEF VersionTexts
    <3> QED BY <3>1, ParsedIsPlain, PlainIsVersion
  <2>4. SelectVersionMulti(S, C) = {t \in good : \A o \in good : Compare(ParseVersion(o), ParseVersion(t)) <= 0}
    BY <1>3 DEF SelectVersionMulti, PickHighest
  <2>5. \A x, y \in good : Compare(ParseVersion(y), ParseVersion(x)) <= 0 <=> ~Precedes(ParseVersion(x), ParseVersion(y))
    <3> SUFFICES ASSUME NEW x \in good, NEW y \in good
                 PROVE  Compare(ParseVersion(y), ParseVersion(x)) <= 0 <=> ~Precedes(ParseVersion(x), ParseVersion(y))
      OBVIOUS
    <3>1. ParseVersion(x) \in Versions /\ ParseVersion(y) \in Versions BY <2>2, <2>3
    <3> QED BY <3>1, HigherPrecedes
  <2>6. \A x, y \in good : <<x, y>> \in Less <=> Precedes(ParseVersion(x), ParseVersion(y)) OBVIOUS
  <2>7. good # {} => \E x \in good : \A y \in good : <<x, y>> \notin Less
    <3> HIDE DEF good, Less
    <3>1. IsFiniteSet(good) BY <2>2, FS_Subset
    <3>2. \A x \in good : <<x, x>> \notin Less
      <4> SUFFICES ASSUME NEW x \in good, Precedes(ParseVersion(x), ParseVersion(x)) PROVE FALSE BY <2>6
      <4>1. ParseVersion(x) \in Versions BY <2>2, <2>3
      <4> QED BY <4>1, PrecedesOrder
    <3>3. \A x, y, z \in good : <<x, y>> \in Less /\ <<y, z>> \in Less => <<x, z>> \in Less
      <4> SUFFICES ASSUME NEW x \in good, NEW y \in good, NEW z \in good,
                          Precedes(ParseVersion(x), ParseVersion(y)), Precedes(ParseVersion(y), ParseVersion(z))
                   PROVE  Precedes(ParseVersion(x), ParseVersion(z))
        BY <2>6
      <4>1. ParseVersion(x) \in Versions /\ ParseVersion(y) \in Versions /\ ParseVersion(z) \in Versions BY <2>2, <2>3
      <4> QED BY <4>1, PrecedesOrder
    <3> QED BY <3>1, <3>2, <3>3, GreatestExists
  <2> HIDE DEF good, Less
  <2>8. SelectVersionMulti(S, C) = {} => good = {} BY <2>4, <2>5, <2>6, <2>7
  <2>9. \A t \in SelectVersionMulti(S, C) : t \in good /\ \A o \in good : ~Precedes(ParseVersion(t), ParseVersion(o))
    BY <2>4, <2>5
  <2>10. \A t \in good : \A c \in C : CheckConstraint(t, c)
    <3>1. \A t \in S, c \in C : CheckConstraint(t, c) <=>
            IsVersion(c) /\ IsVersion(t) /\ Means(ParseConstraint(c), ParseVersion(t))
      BY ConstraintIsMeant
    <3> QED BY <1>3, <2>1, <2>2, <3>1 DEF Choosable
  <2> QED BY <2>1, <2>2, <2>8, <2>9, <2>10
<1> QED BY <1>2, <1>3

(* A native package keeps its tags parsed; that is no other choice.        *)
LEMMA TagsAreParsed ==
  ASSUME NEW S \in SUBSET VersionTexts, IsFiniteSet(S)
  PROVE  /\ FilterValidVersions(S) \in SUBSET VersionTexts /\ IsFiniteSet(FilterValidVersions(S))
         /\ \A v \in FilterValidVersions(S) : IsVersion(v) /\ \E t \in S : ParseVersion(t) = ParseVersion(v)
         /\ \A t \in S : \A C : Choosable(t, C) =>
              ParseVersion(t) \in FilterValidVersions(S) /\ Choosable(ParseVersion(t), C)
<1> DEFINE valid == {t \in S : IsVersion(t)}
           V == FilterValidVersions(S)
           f == [t \in valid |-> ParseVersion(t)]
<1>1. V = {ParseVersion(t) : t \in valid} BY DEF FilterValidVersions
<1>2. \A t \in S : /\ ParseVersion(t) \in VersionTexts /\ IsVersion(ParseVersion(t))
                   /\ ParseVersion(ParseVersion(t)) = ParseVersion(t) /\ ParseVersion(t).pre = t.pre
  <2>1. \A t \in S : t.nums \in Seq(Nat) /\ t.pre \in Seq(Identifiers) BY DEF VersionTexts
  <2>2. \A t \in S : ParseVersion(t).pre = t.pre BY DEF ParseVersion
  <2> QED BY <2>1, <2>2, ParsedIsPlain
<1>3. IsFiniteSet(V)
  <2>1. f \in Surjection(valid, V) BY <1>1 DEF Surjection
  <2>2. valid \in SUBSET S OBVIOUS
  <2> HIDE DEF valid, V, f
  <2>3. IsFiniteSet(valid) BY <2>2, FS_Subset
  <2> QED BY <2>1, <2>3, FS_Surjection
<1>4. \A t \in S : \A C : Choosable(t, C) => IsVersion(t) /\ Choosable(ParseVersion(t), C)
  BY <1>2 DEF Choosable
<1> QED BY <1>1, <1>2, <1>3, <1>4

(* The state.                                                              *)
MetFirst(s, k) == {s[i] : i \in 1..k}
Picked == SelectVersionMulti(published, IF required = <<>> THEN {Anything} ELSE Met(required))

ChoiceType ==
  /\ source \in {"registry", "native", "program"} /\ choice \in {"open", "made", "refused"}
  /\ published \in SUBSET VersionTexts /\ IsFiniteSet(published)
  /\ wanted \in VersionTexts /\ chosen \in VersionTexts
  /\ left \in SUBSET ConstraintTexts /\ required \in Seq(ConstraintTexts)
  /\ source = "program" => wanted = NoVersion /\ left = {} /\ required = <<>>

(* A resolution of which the lock file says nothing: the requirements met, *)
(* one after another, always left a version; a native package is chosen by *)
(* the first and allowed by the others.                                    *)
RegistryInv ==
  source = "registry" =>
    /\ \A k \in 1..Len(required) : SelectVersionMulti(published, MetFirst(required, k)) # {}
    /\ IF choice = "made" THEN chosen \in Picked ELSE chosen = NoVersion
NativeInv ==
  source = "native" =>
    /\ required = <<>> <=> chosen = NoVersion
    /\ choice = "made" => required # <<>>
    /\ required # <<>> =>
         /\ chosen \in SelectVersionMulti(FilterValidVersions(published), {required[1]})
         /\ \A c \in Met(required) : CheckConstraint(chosen, c)
UpdateInv ==
  source = "program" =>
    /\ choice # "made" => chosen = NoVersion
    /\ choice = "made" =>
         chosen \in SelectVersionMulti({t \in published : IsVersion(t) /\ t.pre = <<>>}, {[Anything EXCEPT !.op = ">="]})
RefusedInv ==
  choice = "refused" =>
    \/ source = "program" /\ \A text \in published : IsVersion(text) => text.pre # <<>>
    \/ \E c \in left \cup {Anything} :
         LET tried == IF required = <<>> THEN {c} ELSE Met(required) \cup ({c} \cap left)
             chooses == IF chosen = NoVersion THEN published ELSE {chosen}
         IN  \A text \in chooses :
               IF chosen = NoVersion THEN ~Choosable(text, tried)
               ELSE ~IsVersion(c) \/ ~Means(ParseConstraint(c), ParseVersion(text))
OwnInv == wanted = NoVersion => RegistryInv /\ NativeInv /\ UpdateInv /\ RefusedInv

(* The next one meets the same requirements in the same order, and what    *)
(* the lock file names is allowed by all of them.                          *)
AgainInv ==
  before.done =>
    /\ source \in {"registry", "native"} /\ wanted # NoVersion /\ choice # "refused"
    /\ before.order \in Seq(ConstraintTexts)
    /\ Len(required) <= Len(before.order) /\ \A i \in 1..Len(required) : required[i] = before.order[i]
    /\ left = Met(before.order) \ Met(required)
    /\ \A c \in Met(before.order) : CheckConstraint(wanted, c)
    /\ source = "registry" =>
         /\ wanted \in published
         /\ \A k \in 1..Len(before.order) : SelectVersionMulti(published, MetFirst(before.order, k)) # {}
    /\ source = "native" =>
         /\ wanted \in FilterValidVersions(published)
         /\ chosen = IF required = <<>> THEN NoVersion ELSE wanted
    /\ choice = "made" => chosen = wanted

ChoiceInv == ChoiceType /\ OwnInv /\ AgainInv

LEMMA MetAll ==
  ASSUME NEW s \in Seq(ConstraintTexts)
  PROVE  /\ Met(s) = MetFirst(s, Len(s)) /\ Met(s) \in SUBSET ConstraintTexts
         /\ (s = <<>> <=> Met(s) = {}) /\ (s # <<>> => s[1] \in Met(s))
         /\ \A k \in 1..Len(s) : MetFirst(s, k) \in SUBSET ConstraintTexts
<1>1. DOMAIN s = 1..Len(s) /\ Len(s) \in Nat /\ \A i \in 1..Len(s) : s[i] \in ConstraintTexts OBVIOUS
<1>2. Met(s) = MetFirst(s, Len(s)) BY <1>1 DEF Met, MetFirst
<1>3. \A k \in 1..Len(s) : MetFirst(s, k) \in SUBSET ConstraintTexts BY <1>1 DEF MetFirst
<1>4. s # <<>> => 1 \in DOMAIN s BY <1>1
<1>5. s = <<>> => DOMAIN s = {} BY <1>1
<1>6. Met(s) \in SUBSET ConstraintTexts BY <1>1 DEF Met
<1>7. s # <<>> => s[1] \in Met(s) BY <1>4 DEF Met
<1>8. s = <<>> => Met(s) = {} BY <1>5 DEF Met
<1> QED BY <1>2, <1>3, <1>6, <1>7, <1>8

LEMMA MetMore ==
  ASSUME NEW s \in Seq(ConstraintTexts), NEW c \in ConstraintTexts
  PROVE  /\ Append(s, c) \in Seq(ConstraintTexts) /\ Len(Append(s, c)) = Len(s) + 1 /\ Append(s, c) # <<>>
         /\ \A i \in 1..Len(s) : Append(s, c)[i] = s[i]
         /\ Append(s, c)[Len(s) + 1] = c
         /\ Met(Append(s, c)) = Met(s) \cup {c}
         /\ MetFirst(Append(s, c), Len(s) + 1) = Met(s) \cup {c}
         /\ \A k \in 1..Len(s) : MetFirst(Append(s, c), k) = MetFirst(s, k)
         /\ Append(s, c)[1] = IF s = <<>> THEN c ELSE s[1]
<1> DEFINE t == Append(s, c)
<1>1. /\ t \in Seq(ConstraintTexts) /\ Len(t) = Len(s) + 1 /\ t # <<>> /\ Len(s) \in Nat
      /\ \A i \in 1..Len(s) : t[i] = s[i]
      /\ t[Len(s) + 1] = c
      /\ DOMAIN s = 1..Len(s) /\ DOMAIN t = 1..(Len(s) + 1)
  OBVIOUS
<1> HIDE DEF t
<1>2. \A i : i \in 1..(Len(s) + 1) <=> i \in 1..Len(s) \/ i = Len(s) + 1 BY <1>1
<1>3. Met(t) = Met(s) \cup {c} BY <1>1, <1>2 DEF Met
<1>4. MetFirst(t, Len(s) + 1) = Met(t) BY <1>1 DEF Met, MetFirst
<1>5. \A k \in 1..Len(s) : MetFirst(t, k) = MetFirst(s, k)
  <2> SUFFICES ASSUME NEW k \in 1..Len(s) PROVE MetFirst(t, k) = MetFirst(s, k) OBVIOUS
  <2>1. \A i \in 1..k : t[i] = s[i] BY <1>1
  <2> QED BY <2>1 DEF MetFirst
<1>6. t[1] = IF s = <<>> THEN c ELSE s[1]
  <2>1. CASE s = <<>> BY <1>1, <2>1
  <2>2. CASE s # <<>> BY <1>1, <2>2
  <2> QED BY <2>1, <2>2
<1> QED BY <1>1, <1>3, <1>4, <1>5, <1>6 DEF t

LEMMA AnythingIsAsked ==
  Anything \in ConstraintTexts /\ [Anything EXCEPT !.op = ">="] \in ConstraintTexts
<1>1. <<0>> \in Seq(Nat) /\ <<>> \in Seq(Identifiers) OBVIOUS
<1> QED BY <1>1 DEF Anything, ConstraintTexts

(* Every text without a pre-release is at least 0.                         *)
LEMMA AnythingMatches ==
  ASSUME NEW t \in VersionTexts, IsVersion(t), t.pre = <<>>, NEW a \in {Anything, [Anything EXCEPT !.op = ">="]}
  PROVE  Choosable(t, {a})
<1> DEFINE z == ParseVersion(a)
           p == ParseVersion(t)
<1>1. a.nums = <<0>> /\ a.pre = <<>> /\ a.op \in {"none", ">="} BY DEF Anything
<1>2. IsVersion(a) /\ ParseConstraint(a) = [op |-> ">=", version |-> z] BY <1>1 DEF IsVersion, ParseConstraint
<1>3. z \in ParsedVersions
  <2>1. a.nums \in Seq(Nat) /\ a.pre \in Seq(Identifiers) BY <1>1
  <2> QED BY <2>1, ParsedIsPlain
<1>4. z.nums[1] = 0 /\ z.nums[2] = 0 /\ z.nums[3] = 0 /\ z.pre = <<>> BY <1>1 DEF ParseVersion
<1>5. p \in ParsedVersions /\ p.pre = <<>>
  <2>1. t.nums \in Seq(Nat) /\ t.pre \in Seq(Identifiers) BY DEF VersionTexts
  <2>2. p.pre = t.pre BY DEF ParseVersion
  <2> QED BY <2>1, <2>2, ParsedIsPlain
<1> HIDE DEF z, p
<1>6. ~Precedes(p, z)
  <2> SUFFICES ASSUME Precedes(p, z) PROVE FALSE OBVIOUS
  <2>1. p \in Versions /\ z \in Versions BY <1>3, <1>5, PlainIsVersion
  <2>2. Compare(p, z) = -1 BY <2>1, CompareIsPrecedence
  <2>3. p.nums[1] \in Nat /\ p.nums[2] \in Nat /\ p.nums[3] \in Nat BY <1>5 DEF ParsedVersions
  <2>4. p.nums = z.nums BY <1>4, <2>1, <2>2, <2>3, CompareCases DEF Sign
  <2>5. p = z BY <1>3, <1>4, <1>5, <2>4 DEF ParsedVersions
  <2> QED BY <2>1, <2>2, <2>5, CompareIsPrecedence
<1>7. Means(ParseConstraint(a), ParseVersion(t)) BY <1>2, <1>4, <1>6 DEF Means, p
<1> QED BY <1>2, <1>7 DEF Choosable

LEMMA ChoiceInitHolds == ASSUME ChoiceAssumption, ChoiceInit PROVE ChoiceInv
<1>1. NoVersion \in VersionTexts BY DEF NoVersion, VersionTexts
<1>2. Written \subseteq VersionTexts /\ Asked \subseteq ConstraintTexts BY DEF ChoiceAssumption
<1>3. ChoiceType
  <2>1. published \in SUBSET VersionTexts /\ IsFiniteSet(published) BY <1>2 DEF ChoiceInit
  <2>2. wanted \in VersionTexts /\ chosen \in VersionTexts BY <1>1, <2>1 DEF ChoiceInit
  <2>3. required = <<>> /\ required \in Seq(ConstraintTexts) BY DEF ChoiceInit
  <2>4. left \in SUBSET ConstraintTexts BY <1>2 DEF ChoiceInit
  <2> QED BY <2>1, <2>2, <2>3, <2>4 DEF ChoiceInit, ChoiceType
<1>4. required = <<>> /\ Len(required) = 0 BY DEF ChoiceInit
<1>5. OwnInv BY <1>4 DEF ChoiceInit, OwnInv, RegistryInv, NativeInv, UpdateInv, RefusedInv
<1>6. AgainInv BY DEF ChoiceInit, AgainInv, NoResolution
<1> QED BY <1>3, <1>5, <1>6 DEF ChoiceInv

(* A refusal changes nothing else.                                         *)
LEMMA RefuseStep ==
  ASSUME ChoiceInv, Refuse, choice = "open", ~before.done, wanted = NoVersion => RefusedInv'
  PROVE  ChoiceInv'
<1>1. /\ choice' = "refused" /\ source' = source /\ published' = published /\ wanted' = wanted /\ left' = left
      /\ required' = required /\ chosen' = chosen /\ before' = before
  BY DEF Refuse
<1>2. ChoiceType' BY <1>1 DEF ChoiceInv, ChoiceType
<1>3. wanted = NoVersion => RegistryInv' /\ NativeInv' /\ UpdateInv'
  BY <1>1 DEF ChoiceInv, OwnInv, RegistryInv, NativeInv, UpdateInv
<1>4. AgainInv' BY <1>1 DEF AgainInv
<1>5. OwnInv' BY <1>1, <1>3 DEF OwnInv
<1> QED BY <1>2, <1>4, <1>5 DEF ChoiceInv

(* The next requirement of a later resolution is that of the first one.    *)
LEMMA NextOfOrder ==
  ASSUME ChoiceInv, before.done, NEW c \in left, IsNext(c)
  PROVE  /\ Len(required) + 1 \in 1..Len(before.order)
         /\ Met(required) \cup {c} = MetFirst(before.order, Len(required) + 1)
         /\ Met(required) \cup {c} \subseteq Met(before.order)
         /\ Len(Append(required, c)) <= Len(before.order)
         /\ \A i \in 1..Len(Append(required, c)) : Append(required, c)[i] = before.order[i]
         /\ left \ {c} = Met(before.order) \ Met(Append(required, c))
<1>1. c = before.order[Len(required) + 1] BY DEF IsNext
<1>2. /\ before.order \in Seq(ConstraintTexts) /\ Len(required) <= Len(before.order)
      /\ \A i \in 1..Len(required) : required[i] = before.order[i]
      /\ left = Met(before.order) \ Met(required)
  BY DEF ChoiceInv, AgainInv
<1>3. required \in Seq(ConstraintTexts) /\ c \in ConstraintTexts BY DEF ChoiceInv, ChoiceType
<1>4. Len(required) \in Nat /\ Len(before.order) \in Nat BY <1>2, <1>3
<1>5. Len(required) + 1 \in 1..Len(before.order)
  <2> SUFFICES ASSUME Len(required) = Len(before.order) PROVE FALSE BY <1>2, <1>4
  <2>1. MetFirst(before.order, Len(before.order)) = MetFirst(required, Len(required)) BY <1>2 DEF MetFirst
  <2>2. Met(before.order) = Met(required) BY <1>2, <1>3, <2>1, MetAll
  <2> QED BY <1>2, <2>2
<1>6. \A i : i \in 1..(Len(required) + 1) <=> i \in 1..Len(required) \/ i = Len(required) + 1 BY <1>4
<1>7. Met(required) \cup {c} = MetFirst(before.order, Len(required) + 1)
  <2>1. Met(required) = MetFirst(required, Len(required)) BY <1>3, MetAll
  <2> QED BY <1>1, <1>2, <1>6, <2>1 DEF MetFirst
<1>8. Met(required) \cup {c} \subseteq Met(before.order)
  <2>1. \A i \in 1..Len(required) : i \in 1..Len(before.order) BY <1>2, <1>4
  <2>2. Met(required) = MetFirst(required, Len(required)) /\ Met(before.order) = MetFirst(before.order, Len(before.order))
    BY <1>2, <1>3, MetAll
  <2>3. Met(required) \subseteq Met(before.order) BY <1>2, <2>1, <2>2 DEF MetFirst
  <2>4. c \in Met(before.order) BY <1>2
  <2> QED BY <2>3, <2>4
<1> DEFINE t == Append(required, c)
<1>9. /\ Len(t) = Len(required) + 1 /\ t[Len(required) + 1] = c /\ Met(t) = Met(required) \cup {c}
      /\ \A i \in 1..Len(required) : t[i] = required[i]
  BY <1>3, MetMore
<1> HIDE DEF t
<1>10. Len(t) <= Len(before.order) BY <1>4, <1>5, <1>9
<1>11. ASSUME NEW i \in 1..Len(t) PROVE t[i] = before.order[i]
  <2>1. i \in 1..Len(required) \/ i = Len(required) + 1 BY <1>6, <1>9
  <2>2. CASE i \in 1..Len(required) BY <1>2, <1>9, <2>2
  <2>3. CASE i = Len(required) + 1 BY <1>1, <1>9, <2>3
  <2> QED BY <2>1, <2>2, <2>3
<1>12. left \ {c} = Met(before.order) \ Met(t) BY <1>2, <1>9
<1> QED BY <1>5, <1>7, <1>8, <1>10, <1>11, <1>12 DEF t

LEMMA RegistryStep ==
  ASSUME ChoiceInv, NEW c \in left, RequireRegistry(c)
  PROVE  ChoiceInv'
<1> USE DEF ChoiceInv
<1>1. source = "registry" /\ choice = "open" /\ IsNext(c) BY DEF RequireRegistry
<1>2. required \in Seq(ConstraintTexts) /\ c \in ConstraintTexts /\ published \in SUBSET VersionTexts /\ IsFiniteSet(published)
  BY DEF ChoiceType
<1> DEFINE tried == Met(required) \cup {c}
<1>3. tried \in SUBSET ConstraintTexts BY <1>2, MetAll
<1>4. ASSUME before.done PROVE Allowed(tried)
  <2>1. /\ Len(required) + 1 \in 1..Len(before.order) /\ tried = MetFirst(before.order, Len(required) + 1)
        /\ tried \subseteq Met(before.order)
    BY <1>1, <1>4, NextOfOrder
  <2>2. SelectVersionMulti(published, tried) # {} BY <1>1, <1>4, <2>1 DEF AgainInv
  <2>3. wanted \in published /\ \A d \in tried : CheckConstraint(wanted, d) BY <1>1, <1>4, <2>1 DEF AgainInv
  <2> QED BY <2>2, <2>3 DEF Allowed
<1>5. CASE ~Allowed(tried)
  <2>1. Refuse /\ ~before.done BY <1>1, <1>4, <1>5 DEF RequireRegistry
  <2>2. ASSUME wanted = NoVersion PROVE RefusedInv'
    <3>1. chosen = NoVersion BY <1>1, <2>2 DEF OwnInv, RegistryInv
    <3>2. SelectVersionMulti(published, tried) = {} BY <1>5, <2>2 DEF Allowed
    <3>3. \A t \in published : ~Choosable(t, tried) BY <1>2, <1>3, <3>2, SelectionIsHighest
    <3>4. tried = IF required = <<>> THEN {c} ELSE Met(required) \cup ({c} \cap left)
      <4>1. required = <<>> => Met(required) = {} BY <1>2, MetAll
      <4> QED BY <4>1
    <3> HIDE DEF tried
    <3> QED BY <2>1, <3>1, <3>3, <3>4 DEF Refuse, RefusedInv
  <2> QED BY <1>1, <2>1, <2>2, RefuseStep
<1>6. CASE Allowed(tried)
  <2>1. /\ left' = left \ {c} /\ required' = Append(required, c)
        /\ source' = source /\ published' = published /\ wanted' = wanted /\ choice' = choice /\ before' = before
        /\ chosen' = chosen
    BY <1>1, <1>6 DEF RequireRegistry, Meet
  <2>2. /\ required' \in Seq(ConstraintTexts) /\ Len(required') = Len(required) + 1 /\ required' # <<>>
        /\ \A i \in 1..Len(required) : required'[i] = required[i]
        /\ required'[Len(required) + 1] = c
        /\ Met(required') = tried /\ MetFirst(required', Len(required) + 1) = tried
        /\ \A k \in 1..Len(required) : MetFirst(required', k) = MetFirst(required, k)
        /\ Len(required) \in Nat
    <3>1. /\ Append(required, c) \in Seq(ConstraintTexts) /\ Len(Append(required, c)) = Len(required) + 1 /\ Append(required, c) # <<>>
          /\ \A i \in 1..Len(required) : Append(required, c)[i] = required[i]
          /\ Append(required, c)[Len(required) + 1] = c
          /\ Met(Append(required, c)) = tried /\ MetFirst(Append(required, c), Len(required) + 1) = tried
          /\ \A k \in 1..Len(required) : MetFirst(Append(required, c), k) = MetFirst(required, k)
      BY <1>2, MetMore
    <3>2. required' = Append(required, c) /\ Len(required) \in Nat BY <1>2, <2>1
    <3> HIDE DEF tried
    <3> QED BY <3>1, <3>2
  <2>3. ChoiceType' BY <1>1, <2>1, <2>2 DEF ChoiceType
  <2>4. \A i : i \in 1..(Len(required) + 1) <=> i \in 1..Len(required) \/ i = Len(required) + 1 BY <2>2
  <2>5. OwnInv'
    <3> SUFFICES ASSUME wanted = NoVersion PROVE RegistryInv' /\ NativeInv' /\ UpdateInv' /\ RefusedInv'
      BY <2>1 DEF OwnInv
    <3>1. SelectVersionMulti(published, tried) # {} BY <1>6 DEF Allowed
    <3>2. \A k \in 1..Len(required') : SelectVersionMulti(published, MetFirst(required', k)) # {}
      BY <1>1, <2>2, <2>4, <3>1 DEF OwnInv, RegistryInv
    <3>3. chosen = NoVersion BY <1>1 DEF OwnInv, RegistryInv
    <3>4. RegistryInv' BY <1>1, <2>1, <3>2, <3>3 DEF RegistryInv
    <3> QED BY <1>1, <2>1, <3>4 DEF NativeInv, UpdateInv, RefusedInv
  <2>6. AgainInv'
    <3> SUFFICES ASSUME before.done PROVE AgainInv' BY <2>1 DEF AgainInv
    <3>2. /\ Len(required') <= Len(before.order) /\ \A i \in 1..Len(required') : required'[i] = before.order[i]
          /\ left' = Met(before.order) \ Met(required')
      BY <1>1, <2>1, NextOfOrder
    <3> QED BY <1>1, <2>1, <3>2 DEF AgainInv
  <2> QED BY <2>3, <2>5, <2>6
<1> QED BY <1>5, <1>6


LEMMA ChooseRegistryStep == ASSUME ChoiceInv, ChooseRegistry PROVE ChoiceInv'
<1> DEFINE constraints == IF required = <<>> THEN {Anything} ELSE Met(required)
           best == IF wanted # NoVersion THEN {wanted} ELSE SelectVersionMulti(published, constraints)
<1>1. /\ source = "registry" /\ choice = "open" /\ required \in Seq(ConstraintTexts)
      /\ published \in SUBSET VersionTexts /\ IsFiniteSet(published)
  BY DEF ChooseRegistry, ChoiceInv, ChoiceType
<1>2. constraints \in SUBSET ConstraintTexts BY <1>1, MetAll, AnythingIsAsked
<1>3. CASE best = {}
  <2>1. Refuse /\ wanted = NoVersion /\ SelectVersionMulti(published, constraints) = {} BY <1>3 DEF ChooseRegistry
  <2>2. ~before.done BY <2>1 DEF ChoiceInv, AgainInv
  <2>3. /\ chosen = NoVersion
        /\ \A k \in 1..Len(required) : SelectVersionMulti(published, MetFirst(required, k)) # {}
    BY <1>1, <2>1 DEF ChoiceInv, OwnInv, RegistryInv
  <2>4. required = <<>>
    <3> SUFFICES ASSUME required # <<>> PROVE FALSE OBVIOUS
    <3>1. Len(required) \in 1..Len(required) BY <1>1
    <3>2. SelectVersionMulti(published, Met(required)) # {} BY <1>1, <2>3, <3>1, MetAll
    <3> QED BY <2>1, <3>2
  <2>5. \A t \in published : ~Choosable(t, {Anything}) BY <1>1, <1>2, <2>1, <2>4, SelectionIsHighest
  <2>6. RefusedInv' BY <2>1, <2>3, <2>4, <2>5 DEF Refuse, RefusedInv
  <2> QED BY <1>1, <2>1, <2>2, <2>6, RefuseStep
<1>4. CASE best # {}
  <2>1. /\ chosen' \in best /\ choice' = "made" /\ source' = source /\ published' = published
        /\ wanted' = wanted /\ left' = left /\ required' = required /\ before' = before
    BY <1>4 DEF ChooseRegistry
  <2>2. chosen' \in VersionTexts
    <3>1. CASE wanted # NoVersion BY <2>1, <3>1 DEF ChoiceInv, ChoiceType
    <3>2. CASE wanted = NoVersion
      <4>1. chosen' \in SelectVersionMulti(published, constraints) BY <2>1, <3>2
      <4>2. chosen' \in published BY <1>1, <1>2, <4>1, SelectionIsHighest
      <4> QED BY <1>1, <4>2
    <3> QED BY <3>1, <3>2
  <2>3. ChoiceType' BY <2>1, <2>2 DEF ChoiceInv, ChoiceType
  <2>4. OwnInv'
    <3> SUFFICES ASSUME wanted = NoVersion PROVE RegistryInv' /\ NativeInv' /\ UpdateInv' /\ RefusedInv'
      BY <2>1 DEF OwnInv
    <3>1. chosen' \in Picked' BY <2>1 DEF Picked
    <3> QED BY <1>1, <2>1, <3>1 DEF ChoiceInv, OwnInv, RegistryInv, NativeInv, UpdateInv, RefusedInv
  <2>5. AgainInv' BY <1>1, <2>1 DEF ChoiceInv, AgainInv
  <2> QED BY <2>3, <2>4, <2>5 DEF ChoiceInv
<1> QED BY <1>3, <1>4

LEMMA NativeStep ==
  ASSUME ChoiceInv, NEW c \in left, RequireNative(c)
  PROVE  ChoiceInv'
<1> DEFINE V == FilterValidVersions(published)
<1>1. source = "native" /\ choice = "open" /\ IsNext(c) BY DEF RequireNative
<1>2. /\ required \in Seq(ConstraintTexts) /\ c \in ConstraintTexts
      /\ published \in SUBSET VersionTexts /\ IsFiniteSet(published) /\ chosen \in VersionTexts /\ wanted \in VersionTexts
  BY DEF ChoiceInv, ChoiceType
<1>3. V \in SUBSET VersionTexts /\ IsFiniteSet(V) BY <1>2, TagsAreParsed
<1>4. {c} \in SUBSET ConstraintTexts BY <1>2
<1>5. ASSUME before.done
      PROVE  /\ wanted \in V /\ CheckConstraint(wanted, c) /\ wanted # NoVersion
             /\ chosen # NoVersion => chosen = wanted
  <2>1. c \in Met(before.order) BY <1>1, <1>5, NextOfOrder
  <2> QED BY <1>1, <1>5, <2>1 DEF ChoiceInv, AgainInv
<1>6. ASSUME wanted = NoVersion
      PROVE  /\ required = <<>> <=> chosen = NoVersion
             /\ required # <<>> => /\ chosen \in SelectVersionMulti(V, {required[1]})
                                   /\ \A d \in Met(required) : CheckConstraint(chosen, d)
  BY <1>1, <1>6 DEF ChoiceInv, OwnInv, NativeInv
<1> HIDE DEF V
<1>7. CASE Refuse
  <2>1. CASE chosen = NoVersion
    <3>1. CASE SelectNativeVersion(c) = {}
      <4>1. ~before.done BY <1>5, <3>1 DEF SelectNativeVersion, V
      <4>2. ASSUME wanted = NoVersion PROVE RefusedInv'
        <5>1. SelectVersionMulti(V, {c}) = {} BY <3>1, <4>2 DEF SelectNativeVersion, MatchVersion, V
        <5>2. \A v \in V : ~Choosable(v, {c}) BY <1>3, <1>4, <5>1, SelectionIsHighest
        <5>3. \A t \in published : Choosable(t, {c}) => ParseVersion(t) \in V /\ Choosable(ParseVersion(t), {c})
          BY <1>2, TagsAreParsed DEF V
        <5>4. \A t \in published : ~Choosable(t, {c}) BY <5>2, <5>3
        <5>5. required = <<>> BY <1>6, <2>1, <4>2
        <5> QED BY <1>7, <2>1, <5>4, <5>5 DEF Refuse, RefusedInv
      <4> QED BY <1>1, <1>7, <4>1, <4>2, RefuseStep
    <3>2. CASE SelectNativeVersion(c) # {}
      <4>1. Meet(c) BY <2>1, <3>2 DEF RequireNative
      <4> QED BY <1>1, <1>7, <4>1 DEF Refuse, Meet
    <3> QED BY <3>1, <3>2
  <2>2. CASE chosen # NoVersion
    <3>1. CASE ~CheckConstraint(chosen, c)
      <4>1. ~before.done BY <1>5, <2>2, <3>1
      <4>2. ASSUME wanted = NoVersion PROVE RefusedInv'
        <5>1. required # <<>> /\ chosen \in SelectVersionMulti(V, {required[1]}) BY <1>6, <2>2, <4>2
        <5>2. {required[1]} \in SUBSET ConstraintTexts BY <1>2, <5>1, MetAll
        <5>3. IsVersion(chosen) BY <1>3, <5>1, <5>2, SelectionIsHighest DEF Choosable
        <5>4. ~IsVersion(c) \/ ~Means(ParseConstraint(c), ParseVersion(chosen))
          BY <1>2, <3>1, <5>3, ConstraintIsMeant
        <5> QED BY <1>7, <2>2, <5>4 DEF Refuse, RefusedInv
      <4> QED BY <1>1, <1>7, <4>1, <4>2, RefuseStep
    <3>2. CASE CheckConstraint(chosen, c)
      <4>1. Meet(c) BY <2>2, <3>2 DEF RequireNative
      <4> QED BY <1>1, <1>7, <4>1 DEF Refuse, Meet
    <3> QED BY <3>1, <3>2
  <2> QED BY <2>1, <2>2
<1>8. CASE Meet(c)
  <2>1. /\ left' = left \ {c} /\ required' = Append(required, c)
        /\ source' = source /\ published' = published /\ wanted' = wanted /\ choice' = choice /\ before' = before
    BY <1>8 DEF Meet
  <2>2. choice' = "open" BY <1>1, <2>1
  <2>3. IF chosen = NoVersion THEN chosen' \in SelectNativeVersion(c)
        ELSE chosen' = chosen /\ CheckConstraint(chosen, c)
    BY <2>1, <2>2 DEF RequireNative, Refuse
  <2>4. chosen' \in V \/ chosen' = chosen
    <3>1. CASE chosen # NoVersion BY <2>3, <3>1
    <3>2. CASE chosen = NoVersion /\ wanted # NoVersion BY <2>3, <3>2 DEF SelectNativeVersion, V
    <3>3. CASE chosen = NoVersion /\ wanted = NoVersion
      <4>1. chosen' \in SelectVersionMulti(V, {c}) BY <2>3, <3>3 DEF SelectNativeVersion, MatchVersion, V
      <4> QED BY <1>3, <1>4, <4>1, SelectionIsHighest
    <3> QED BY <3>1, <3>2, <3>3
  <2>5. /\ required' \in Seq(ConstraintTexts) /\ required' # <<>> /\ Met(required') = Met(required) \cup {c}
        /\ required'[1] = IF required = <<>> THEN c ELSE required[1]
    BY <1>2, <2>1, MetMore
  <2>6. ChoiceType' BY <1>1, <1>2, <1>3, <2>1, <2>2, <2>4, <2>5 DEF ChoiceInv, ChoiceType
  <2>7. OwnInv'
    <3> SUFFICES ASSUME wanted = NoVersion PROVE RegistryInv' /\ NativeInv' /\ UpdateInv' /\ RefusedInv'
      BY <2>1 DEF OwnInv
    <3>1. /\ chosen' # NoVersion /\ chosen' \in SelectVersionMulti(V, {required'[1]})
          /\ \A d \in Met(required') : CheckConstraint(chosen', d)
      <4>1. CASE chosen = NoVersion
        <5>1. chosen' \in SelectVersionMulti(V, {c}) BY <2>3, <4>1 DEF SelectNativeVersion, MatchVersion, V
        <5>2. Choosable(chosen', {c}) /\ CheckConstraint(chosen', c) BY <1>3, <1>4, <5>1, SelectionIsHighest
        <5>3. chosen' # NoVersion BY <5>2 DEF Choosable, IsVersion, NoVersion
        <5>4. required = <<>> BY <1>6, <4>1
        <5>5. Met(required) = {} BY <5>4 DEF Met
        <5> QED BY <2>5, <5>1, <5>2, <5>3, <5>4, <5>5
      <4>2. CASE chosen # NoVersion BY <1>6, <2>3, <2>5, <4>2
      <4> QED BY <4>1, <4>2
    <3>2. NativeInv' BY <2>1, <2>2, <2>5, <3>1 DEF NativeInv, V
    <3> QED BY <1>1, <2>1, <2>2, <3>2 DEF RegistryInv, UpdateInv, RefusedInv
  <2>8. AgainInv'
    <3> SUFFICES ASSUME before.done PROVE AgainInv' BY <2>1 DEF AgainInv
    <3>1. /\ Len(required') <= Len(before.order) /\ \A i \in 1..Len(required') : required'[i] = before.order[i]
          /\ left' = Met(before.order) \ Met(required')
      BY <1>1, <2>1, NextOfOrder
    <3>2. chosen' = wanted
      <4>1. wanted # NoVersion BY <1>5
      <4>2. CASE chosen = NoVersion BY <2>3, <4>1, <4>2 DEF SelectNativeVersion
      <4>3. CASE chosen # NoVersion BY <1>5, <2>3, <4>3
      <4> QED BY <4>2, <4>3
    <3> QED BY <1>1, <2>1, <2>2, <2>5, <3>1, <3>2 DEF ChoiceInv, AgainInv
  <2> QED BY <2>6, <2>7, <2>8 DEF ChoiceInv
<1> QED BY <1>7, <1>8 DEF RequireNative

LEMMA ChooseNativeStep == ASSUME ChoiceInv, ChooseNative PROVE ChoiceInv'
<1>1. /\ source = "native" /\ choice' = "made" /\ required # <<>> /\ source' = source /\ published' = published
      /\ wanted' = wanted /\ left' = left /\ required' = required /\ chosen' = chosen /\ before' = before
  BY DEF ChooseNative
<1>2. ChoiceType' BY <1>1 DEF ChoiceInv, ChoiceType
<1>3. OwnInv' BY <1>1 DEF ChoiceInv, OwnInv, RegistryInv, NativeInv, UpdateInv, RefusedInv
<1>4. AgainInv' BY <1>1 DEF ChoiceInv, AgainInv
<1> QED BY <1>2, <1>3, <1>4 DEF ChoiceInv

(* The lock file names what a resolution has chosen, and its order is kept. *)
LEMMA AgainStep == ASSUME ChoiceInv, ResolveAgain PROVE ChoiceInv'
<1>1. /\ source \in {"registry", "native"} /\ choice = "made" /\ wanted = NoVersion
      /\ wanted' = chosen /\ left' = Met(required) /\ required' = <<>>
      /\ chosen' = NoVersion /\ choice' = "open" /\ before' = [done |-> TRUE, order |-> required]
      /\ source' = source /\ published' = published
  BY DEF ResolveAgain, ChoiceInv, ChoiceType
<1>2. /\ required \in Seq(ConstraintTexts) /\ chosen \in VersionTexts
      /\ published \in SUBSET VersionTexts /\ IsFiniteSet(published)
  BY DEF ChoiceInv, ChoiceType
<1>3. Met(required) \in SUBSET ConstraintTexts BY <1>2, MetAll
<1>4. /\ IsVersion(chosen) /\ \A c \in Met(required) : CheckConstraint(chosen, c)
      /\ source = "registry" => chosen \in published
      /\ source = "native" => chosen \in FilterValidVersions(published)
  <2>1. CASE source = "registry"
    <3>1. chosen \in SelectVersionMulti(published, IF required = <<>> THEN {Anything} ELSE Met(required))
      BY <1>1, <2>1 DEF ChoiceInv, OwnInv, RegistryInv, Picked
    <3>2. (IF required = <<>> THEN {Anything} ELSE Met(required)) \in SUBSET ConstraintTexts
      BY <1>3, AnythingIsAsked
    <3>3. /\ chosen \in published /\ IsVersion(chosen)
          /\ \A c \in IF required = <<>> THEN {Anything} ELSE Met(required) : CheckConstraint(chosen, c)
      BY <1>2, <3>1, <3>2, SelectionIsHighest DEF Choosable
    <3>4. required = <<>> => Met(required) = {} BY <1>2, MetAll
    <3> QED BY <2>1, <3>3, <3>4
  <2>2. CASE source = "native"
    <3>1. /\ required # <<>> /\ chosen \in SelectVersionMulti(FilterValidVersions(published), {required[1]})
          /\ \A c \in Met(required) : CheckConstraint(chosen, c)
      BY <1>1, <2>2 DEF ChoiceInv, OwnInv, NativeInv
    <3>2. {required[1]} \in SUBSET ConstraintTexts BY <1>2, <3>1, MetAll
    <3>3. FilterValidVersions(published) \in SUBSET VersionTexts /\ IsFiniteSet(FilterValidVersions(published))
      BY <1>2, TagsAreParsed
    <3>4. chosen \in FilterValidVersions(published) /\ IsVersion(chosen)
      BY <3>1, <3>2, <3>3, SelectionIsHighest DEF Choosable
    <3> QED BY <2>2, <3>1, <3>4
  <2> QED BY <1>1, <2>1, <2>2
<1>5. chosen # NoVersion BY <1>4 DEF IsVersion, NoVersion
<1>6. required' \in Seq(ConstraintTexts) /\ Len(required') = 0 /\ Met(required') = {} BY <1>1 DEF Met
<1>7. NoVersion \in VersionTexts BY DEF NoVersion, VersionTexts
<1>8. ChoiceType' BY <1>1, <1>2, <1>3, <1>6, <1>7 DEF ChoiceInv, ChoiceType
<1>9. OwnInv' BY <1>1, <1>5 DEF OwnInv
<1>10. before'.order = required BY <1>1
<1>11. source = "registry" => \A k \in 1..Len(required) : SelectVersionMulti(published, MetFirst(required, k)) # {}
  BY <1>1 DEF ChoiceInv, OwnInv, RegistryInv
<1>12. Len(required) \in Nat BY <1>2
<1>13. AgainInv' BY <1>1, <1>2, <1>4, <1>5, <1>6, <1>10, <1>11, <1>12 DEF AgainInv
<1> QED BY <1>8, <1>9, <1>13 DEF ChoiceInv

LEMMA UpdateStep == ASSUME ChoiceInv, PickLatestStable PROVE ChoiceInv'
<1> DEFINE stable == {t \in published : IsVersion(t) /\ t.pre = <<>>}
           a == [Anything EXCEPT !.op = ">="]
<1>1. /\ source = "program" /\ choice = "open" /\ wanted = NoVersion /\ ~before.done
      /\ published \in SUBSET VersionTexts /\ IsFiniteSet(published)
  BY DEF PickLatestStable, ChoiceInv, ChoiceType, AgainInv
<1>2. stable \in SUBSET VersionTexts /\ stable \in SUBSET published BY <1>1
<1>3. {a} \in SUBSET ConstraintTexts BY AnythingIsAsked
<1>4. \A t \in stable : Choosable(t, {a}) BY <1>1, AnythingMatches
<1> HIDE DEF a
<1>5. IsFiniteSet(stable)
  <2> HIDE DEF stable
  <2> QED BY <1>1, <1>2, FS_Subset
<1>6. CASE SelectVersionMulti(stable, {a}) = {}
  <2>1. Refuse BY <1>6 DEF PickLatestStable, MatchVersion, a
  <2>2. \A t \in stable : ~Choosable(t, {a})
    <3> HIDE DEF stable
    <3> QED BY <1>2, <1>3, <1>5, <1>6, SelectionIsHighest
  <2>3. \A t \in published : IsVersion(t) => t.pre # <<>> BY <1>4, <2>2
  <2>4. RefusedInv' BY <1>1, <2>1, <2>3 DEF Refuse, RefusedInv
  <2> QED BY <1>1, <2>1, <2>4, RefuseStep
<1>7. CASE SelectVersionMulti(stable, {a}) # {}
  <2>1. /\ chosen' \in SelectVersionMulti(stable, {a}) /\ choice' = "made" /\ source' = source /\ published' = published
        /\ wanted' = wanted /\ left' = left /\ required' = required /\ before' = before
    BY <1>7 DEF PickLatestStable, MatchVersion, a
  <2>2. chosen' \in stable
    <3> HIDE DEF stable
    <3> QED BY <1>2, <1>3, <1>5, <2>1, SelectionIsHighest
  <2>3. ChoiceType' BY <1>2, <2>1, <2>2 DEF ChoiceInv, ChoiceType
  <2>4. UpdateInv' BY <2>1 DEF UpdateInv, a
  <2>5. OwnInv' BY <1>1, <2>1, <2>4 DEF OwnInv, RegistryInv, NativeInv, RefusedInv
  <2>6. AgainInv' BY <1>1, <2>1 DEF AgainInv
  <2> QED BY <2>3, <2>5, <2>6 DEF ChoiceInv
<1> QED BY <1>6, <1>7

LEMMA ChoiceStep == ASSUME ChoiceInv, [ChoiceNext]_choiceVars PROVE ChoiceInv'
<1>1. CASE UNCHANGED choiceVars
  <2>1. /\ source' = source /\ published' = published /\ wanted' = wanted /\ left' = left
        /\ required' = required /\ chosen' = chosen /\ choice' = choice /\ before' = before
    BY <1>1 DEF choiceVars
  <2>2. ChoiceType' BY <2>1 DEF ChoiceInv, ChoiceType
  <2>3. OwnInv' BY <2>1 DEF ChoiceInv, OwnInv, RegistryInv, NativeInv, UpdateInv, RefusedInv, Picked
  <2>4. AgainInv' BY <2>1 DEF ChoiceInv, AgainInv
  <2> QED BY <2>2, <2>3, <2>4 DEF ChoiceInv
<1>2. ASSUME NEW c \in left, RequireRegistry(c) PROVE ChoiceInv' BY <1>2, RegistryStep
<1>3. ASSUME NEW c \in left, RequireNative(c) PROVE ChoiceInv' BY <1>3, NativeStep
<1>4. CASE ChooseRegistry BY <1>4, ChooseRegistryStep
<1>5. CASE ChooseNative BY <1>5, ChooseNativeStep
<1>6. CASE ResolveAgain BY <1>6, AgainStep
<1>7. CASE PickLatestStable BY <1>7, UpdateStep
<1> QED BY <1>1, <1>2, <1>3, <1>4, <1>5, <1>6, <1>7 DEF ChoiceNext

(* What the invariant says of a choice is what the constraints mean.       *)
LEMMA ChoiceGoal == ASSUME ChoiceInv PROVE VersionsAreRight
<1>1. ChosenIsTakenAgain BY DEF ChoiceInv, AgainInv, ChosenIsTakenAgain
<1>2. choice = "refused" /\ wanted = NoVersion => RefusedInv BY DEF ChoiceInv, OwnInv
<1>3. /\ required \in Seq(ConstraintTexts) /\ chosen \in VersionTexts
      /\ published \in SUBSET VersionTexts /\ IsFiniteSet(published)
      /\ source \in {"registry", "native", "program"}
  BY DEF ChoiceInv, ChoiceType
<1> DEFINE all == IF required = <<>> THEN {Anything} ELSE Met(required)
           by == IF source = "native" THEN {required[1]} ELSE all
<1>4. ASSUME choice = "made", wanted = NoVersion
      PROVE  /\ Choosable(chosen, by) /\ Highest(chosen, by)
             /\ \A c \in all : Means(ParseConstraint(c), ParseVersion(chosen))
             /\ source = "program" => chosen.pre = <<>>
             /\ \E text \in published : ParseVersion(text) = ParseVersion(chosen)
  <2>1. CASE source = "registry"
    <3>1. chosen \in SelectVersionMulti(published, all) BY <1>4, <2>1 DEF ChoiceInv, OwnInv, RegistryInv, Picked
    <3>2. all \in SUBSET ConstraintTexts BY <1>3, MetAll, AnythingIsAsked
    <3> HIDE DEF all
    <3>3. /\ chosen \in published /\ Choosable(chosen, all)
          /\ \A o \in published : Choosable(o, all) => ~Precedes(ParseVersion(chosen), ParseVersion(o))
      BY <1>3, <3>1, <3>2, SelectionIsHighest
    <3> QED BY <2>1, <3>3 DEF Choosable, Highest
  <2>2. CASE source = "native"
    <3> DEFINE V == FilterValidVersions(published)
    <3>1. /\ required # <<>> /\ chosen \in SelectVersionMulti(V, {required[1]})
          /\ \A c \in Met(required) : CheckConstraint(chosen, c)
      BY <1>4, <2>2 DEF ChoiceInv, OwnInv, NativeInv
    <3>2. {required[1]} \in SUBSET ConstraintTexts /\ Met(required) \in SUBSET ConstraintTexts BY <1>3, <3>1, MetAll
    <3>3. V \in SUBSET VersionTexts /\ IsFiniteSet(V) BY <1>3, TagsAreParsed
    <3>4. \E t \in published : ParseVersion(t) = ParseVersion(chosen)
      <4>1. chosen \in V
        <5> HIDE DEF V
        <5> QED BY <3>1, <3>2, <3>3, SelectionIsHighest
      <4> QED BY <1>3, <4>1, TagsAreParsed
    <3>5. \A t \in published : Choosable(t, {required[1]}) => ParseVersion(t) \in V /\ Choosable(ParseVersion(t), {required[1]})
      BY <1>3, TagsAreParsed
    <3> HIDE DEF V
    <3>6. /\ Choosable(chosen, {required[1]})
          /\ \A v \in V : Choosable(v, {required[1]}) => ~Precedes(ParseVersion(chosen), ParseVersion(v))
      BY <3>1, <3>2, <3>3, SelectionIsHighest
    <3>7. \A t \in published : ParseVersion(ParseVersion(t)) = ParseVersion(t)
      <4>1. \A t \in published : t.nums \in Seq(Nat) /\ t.pre \in Seq(Identifiers) BY <1>3 DEF VersionTexts
      <4> QED BY <4>1, ParsedIsPlain
    <3>8. Highest(chosen, {required[1]}) BY <3>5, <3>6, <3>7 DEF Highest
    <3>9. \A c \in Met(required) : Means(ParseConstraint(c), ParseVersion(chosen))
      BY <1>3, <3>1, <3>2, ConstraintIsMeant
    <3> QED BY <2>2, <3>1, <3>4, <3>6, <3>8, <3>9
  <2>3. CASE source = "program"
    <3> DEFINE stable == {t \in published : IsVersion(t) /\ t.pre = <<>>}
               a == [Anything EXCEPT !.op = ">="]
    <3>1. chosen \in SelectVersionMulti(stable, {a}) BY <1>4, <2>3 DEF ChoiceInv, OwnInv, UpdateInv
    <3>2. required = <<>> BY <2>3 DEF ChoiceInv, ChoiceType
    <3>3. {a} \in SUBSET ConstraintTexts BY AnythingIsAsked
    <3>4. stable \in SUBSET VersionTexts /\ stable \in SUBSET published BY <1>3
    <3>5. \A t \in stable : Choosable(t, {a}) /\ Choosable(t, {Anything}) BY <1>3, AnythingMatches
    <3>6. \A t \in published : Choosable(t, {Anything}) => t \in stable
      <4>1. Anything.pre = <<>> BY DEF Anything
      <4> QED BY <4>1 DEF Choosable
    <3> HIDE DEF stable, a
    <3>7. IsFiniteSet(stable) BY <1>3, <3>4, FS_Subset
    <3>8. /\ chosen \in stable
          /\ \A o \in stable : Choosable(o, {a}) => ~Precedes(ParseVersion(chosen), ParseVersion(o))
      BY <3>1, <3>3, <3>4, <3>7, SelectionIsHighest
    <3>9. Choosable(chosen, {Anything}) /\ Highest(chosen, {Anything}) BY <3>5, <3>6, <3>8 DEF Highest
    <3>10. \A c \in {Anything} : Means(ParseConstraint(c), ParseVersion(chosen)) BY <3>9 DEF Choosable
    <3>11. chosen \in published /\ chosen.pre = <<>> BY <3>4, <3>8 DEF stable
    <3> QED BY <2>3, <3>2, <3>9, <3>10, <3>11
  <2> QED BY <1>3, <2>1, <2>2, <2>3
<1>5. ChoiceIsRight BY <1>2, <1>4 DEF ChoiceIsRight, RefusedInv
<1> QED BY <1>1, <1>5 DEF VersionsAreRight

(* Every choice of a version is the highest that the requirements mean to  *)
(* allow, a refusal is always justified, and the version that the lock     *)
(* file names is taken again: for all versions and constraints.            *)
THEOREM VersionsHold == ChoiceSpec => []VersionsAreRight
<1>1. ChoiceInit => ChoiceInv BY ChoiceAssumption, ChoiceInitHolds
<1>2. ChoiceInv /\ [ChoiceNext]_choiceVars => ChoiceInv' BY ChoiceStep
<1>3. ChoiceInv => VersionsAreRight BY ChoiceGoal
<1> QED BY <1>1, <1>2, <1>3, PTL DEF ChoiceSpec
=============================================================================
