------------------------------ MODULE EditorTree ------------------------------
(***************************************************************************)
(* The tree of packages that "vmake config" shows (buildDepTree in         *)
(* pkg/tui/model.go): the nodes in the order of their rows when all are    *)
(* expanded.                                                               *)
(*                                                                         *)
(* A node is its path of names: below a local package that no other one    *)
(* requires, what it requires; below Remote, the remote packages.          *)
(***************************************************************************)
EXTENDS Naturals, Sequences, FiniteSets, SequencesExt

CONSTANTS
  Locals,     \* the local packages, in order, and what each lists as dependencies
  DepsOf,
  Remotes,    \* the remote packages, as sequences of names
  NameRank    \* the order of the names

Global == <<"Global">>
Remote == <<"Remote">>

(* A package comes once below a root: where it is met first.               *)
RECURSIVE Subtree(_, _)
Subtree(path, met) ==
  FoldLeft(LAMBDA nodes, d :
             IF d \in met \cup {Last(nodes[i]) : i \in DOMAIN nodes} THEN nodes
             ELSE nodes \o Subtree(Append(path, d),
                                   met \cup {Last(nodes[i]) : i \in DOMAIN nodes}),
           <<path>>, DepsOf[Last(path)])

Roots == SelectSeq(Locals, LAMBDA p : \A q \in ToSet(Locals) : p \notin ToSet(DepsOf[q]))

Before(x, y) ==
  \/ \E i \in DOMAIN x \cap DOMAIN y :
       NameRank[x[i]] < NameRank[y[i]] /\ \A j \in 1..i-1 : x[j] = y[j]
  \/ Len(x) < Len(y) /\ \A i \in DOMAIN x : x[i] = y[i]

(* The first two names of a remote package are one node.                   *)
RemoteNodes ==
  LET prefixes == UNION {{SubSeq(p, 1, i) : i \in DOMAIN p} : p \in Remotes}
  IN  IF Remotes = {} THEN <<>>
      ELSE <<Remote>> \o [i \in DOMAIN SetToSortSeq(prefixes, Before) |->
                            Remote \o SetToSortSeq(prefixes, Before)[i]]

DepTree ==
  <<Global>> \o FoldLeft(LAMBDA nodes, r : nodes \o Subtree(<<r>>, {}), <<>>, Roots) \o RemoteNodes

=============================================================================
