---------------------------- MODULE MemberTrees ----------------------------
(* The working trees of the packages of one build (sourceStage, package    *)
(* pipeline): of a native package, which is resolved before, of its members*)
(* and of local packages with a repository (SetGit).  A member without a   *)
(* repository is a directory of the tree of its owner; that of a member    *)
(* with one is made inside the tree of the owner, or beside it when the    *)
(* owner is linked to a directory of the user's.                           *)
(*                                                                         *)
(* How one tree is made, and what a command killed while it is leaves, is  *)
(* module SourceTree's; here it is made at once, and what matters is what  *)
(* that does to the other trees.                                           *)
EXTENDS Naturals

CONSTANTS
  Owner,        \* the native package
  Sharers,      \* its members without a repository
  Nested,       \* its members with one
  Locals,       \* local packages with one
  Patched,      \* the packages that declare patches
  Heads, NoHead,
  NoRecord,
  Needs,        \* bound: the sets of packages a configuration needs
  MaxBuilds,    \* bound
  MaxHeadMoves, \* bound: upstream heads moved
  MaxBuildKills \* bound

Packages == {Owner} \cup Sharers \cup Nested \cup Locals

ASSUME MemberAssumption ==
  /\ Patched \subseteq Packages
  /\ \A needed \in Needs :
       needed \subseteq Packages /\ (needed \cap (Sharers \cup Nested) # {} => Owner \in needed)
  /\ Owner \notin Sharers \cup Nested \cup Locals
  /\ Sharers \cap Nested = {} /\ Sharers \cap Locals = {} /\ Nested \cap Locals = {}
  /\ NoHead \notin Heads
  /\ \A c \in Heads, hash \in SUBSET Packages : NoRecord # [commit |-> c, hash |-> hash]
  /\ MaxBuilds \in Nat /\ MaxHeadMoves \in Nat /\ MaxBuildKills \in Nat

VARIABLES
  heads,      \* the head of every repository
  sources,    \* the working trees
  records,    \* their state files
  linked,     \* the owner is linked to a directory of the user's
  dir,        \* what src is in the directory of a local package
  spoiled,    \* user directories VMake has written in
  at, asked, todo, got, \* the command: what it asks for, has to do, and has got
  builds, headMoves, buildKills

treesOnDisk == <<sources, records, linked, dir, spoiled>>
command == <<at, asked, todo, got>>
buildBounds == <<builds, headMoves, buildKills>>
memberVars == <<heads, treesOnDisk, command, buildBounds>>

(* The roots of the trees: below .vmake_deps, in the owner's working tree, *)
(* or in third_party.                                                      *)
Root(p) == <<p, "tree">>
Apart(p) == <<p, "third_party">>
Roots == {Root(p) : p \in Packages \ Sharers} \cup {Apart(p) : p \in Nested}
Inside == {Root(p) : p \in Nested}

(* whole, part: the packages whose patches are in the tree, or some of     *)
(* them; failed: one did not apply since the tree was made.                *)
SourceAt(c) == [head |-> c, whole |-> {}, part |-> {}, failed |-> FALSE]
NoSource == SourceAt(NoHead)

NoCommand == [needed |-> {}, commit |-> [p \in Packages |-> NoHead], refresh |-> FALSE]

MembersInit ==
  /\ \E c \in Heads : heads = [p \in Nested \cup Locals |-> c]
  /\ sources = [r \in Roots |-> NoSource] /\ records = [r \in Roots |-> NoRecord]
  /\ linked = FALSE /\ spoiled = {}
  /\ dir \in [Locals -> {"none", "users"}]
  /\ at = "idle" /\ asked = NoCommand /\ todo = {}
  /\ got = [p \in Packages |-> NoHead]
  /\ builds = 0 /\ headMoves = 0 /\ buildKills = 0

-----------------------------------------------------------------------------
(* Where a package's sources are, and whose state file speaks of them.     *)
TreeRootFor(p) ==
  IF p \in Sharers THEN Root(Owner) ELSE IF p \in Nested /\ linked THEN Apart(p) ELSE Root(p)

(* The sources are files of the user's.                                    *)
IsUsers(p) == (linked /\ p \in {Owner} \cup Sharers) \/ (p \in Locals /\ dir[p] = "users")

(* Mutant: the identity of a shared tree has the patches of its owner only.*)
TreePatchHashOfOne(p) == IF p \in Patched THEN {p} ELSE {}

(* treePatchHash of an owner, patchHashForNode of the others: a hash is    *)
(* that of the patches of these packages.                                  *)
TreePatchHash(p) ==
  LET names == {Owner} \cup (Sharers \cap asked.needed) IN
  IF p = Owner /\ (names \ {Owner}) \cap Patched # {} THEN names
  ELSE IF p \in Patched THEN {p} ELSE {}

(* prepareAllPackages and applyPatchesToNeeded: what there is to do, and   *)
(* what goes before what.  The owner is resolved first; members are made   *)
(* after it, and patches applied when all trees are there.                 *)
Phase(task) ==
  CASE task[1] = "resolve" -> 1
    [] task[1] = "ensure" /\ task[2] \in Locals -> 2
    [] task[1] = "ensure" /\ task[2] = Owner -> 3
    [] task[1] = "ensure" /\ task[2] \notin Locals \cup {Owner} -> 4
    [] task[1] = "link" -> 5
    [] OTHER -> 6

Plan(needed) ==
  LET own == IF linked THEN {} ELSE {Owner} IN
  ({"resolve"} \X own) \cup ({"ensure"} \X (needed \cap (Locals \cup own \cup Nested)))
    \cup ({"link"} \X (needed \cap Locals)) \cup ({"patch"} \X (needed \cap Patched))

BuildMembers ==
  /\ at = "idle" /\ builds < MaxBuilds /\ builds' = builds + 1
  /\ \E needed \in Needs, commit \in Heads, locked \in Heads \cup {NoHead}, refresh \in BOOLEAN :
       /\ refresh \/ needed \cap Locals = {} => locked = NoHead
       /\ asked' = [needed |-> needed, refresh |-> refresh,
                  commit |-> [p \in Packages |-> CASE p = Owner -> commit [] p \in Locals -> locked
                                                   [] OTHER -> NoHead]]
       /\ todo' = Plan(needed)
  /\ at' = "run" /\ UNCHANGED <<heads, treesOnDisk, got, headMoves, buildKills>>

End ==
  /\ at' = "idle" /\ asked' = NoCommand /\ todo' = {} /\ got' = [p \in Packages |-> NoHead]
AtStep(step, p) ==
  at = "run" /\ <<step, p>> \in todo /\ \A task \in todo : Phase(<<step, p>>) <= Phase(task)
Done(step, p) == todo' = todo \ {<<step, p>>} /\ UNCHANGED <<at, asked>>

-----------------------------------------------------------------------------
(* EnsureSource                                                            *)

IsReusable(r, hash, resolving) ==
  /\ records[r] # NoRecord /\ sources[r].head = records[r].commit
  /\ resolving \/ records[r].hash = hash

(* Without a commit the head of the repository is asked for: what is there *)
(* will do, unless the lock is to be ignored.                              *)
Suffices(r, c) == IF c = NoHead THEN ~asked.refresh ELSE records[r].commit = c

(* The head is asked for upstream; the tree that is there will do when that*)
(* fails, as it does offline.                                              *)
Resolved(r, c) ==
  IF c # NoHead THEN {c}
  ELSE {heads[r[1]]} \cup (IF records[r] # NoRecord /\ sources[r].head = records[r].commit THEN {records[r].commit} ELSE {})

(* What is made in r has state s.  git clean removes files git does not    *)
(* know, the state files of the trees inside among them.                   *)
Records(r, s) ==
  [q \in Roots |-> IF q = r THEN s ELSE IF r = Root(Owner) /\ q \in Inside THEN NoRecord ELSE records[q]]

(* The commit is checked out again, and repositories inside stay; or src is*)
(* removed, with all that is inside, and replaced by a clone.              *)
Sources(r, c) ==
  [q \in Roots |->
     IF q = r THEN SourceAt(c)
     ELSE IF r = Root(Owner) /\ q \in Inside /\ sources[r].head # c THEN NoSource ELSE sources[q]]

EnsureSource(p, r, c, hash, resolving) ==
  LET step == IF resolving THEN "resolve" ELSE "ensure" IN
  \/ /\ IsReusable(r, hash, resolving) /\ Suffices(r, c)
     /\ got' = [got EXCEPT ![p] = records[r].commit]
     /\ Done(step, p) /\ UNCHANGED <<sources, records>>
  \/ /\ ~(IsReusable(r, hash, resolving) /\ Suffices(r, c))
     /\ \E f \in Resolved(r, c) :
          /\ got' = [got EXCEPT ![p] = f]
          /\ IF IsReusable(r, hash, resolving) /\ records[r].commit = f
             THEN UNCHANGED <<sources, records>>
             ELSE /\ sources' = Sources(r, f)
                  /\ records' = Records(r, [commit |-> f, hash |-> IF resolving THEN {} ELSE hash])
     /\ Done(step, p)
  \/ /\ ~(IsReusable(r, hash, resolving) /\ Suffices(r, c))
     /\ End /\ UNCHANGED <<sources, records>>

(* findNative: build.go is read from the tree, whatever patches it has.    *)
FindNative ==
  /\ AtStep("resolve", Owner)
  /\ EnsureSource(Owner, Root(Owner), asked.commit[Owner], {}, TRUE)
  /\ UNCHANGED <<heads, linked, dir, spoiled, buildBounds>>

(* A managed source needs the place of its link.                           *)
HasUnmanagedSourceDir(p) == p \in Locals /\ dir[p] = "users"

SelectPackageSourceRoot(p) ==
  /\ AtStep("ensure", p)
  /\ IF HasUnmanagedSourceDir(p) THEN End /\ UNCHANGED <<sources, records>>
     ELSE EnsureSource(p, TreeRootFor(p), asked.commit[p], TreePatchHash(p), FALSE)
  /\ UNCHANGED <<heads, linked, dir, spoiled, buildBounds>>

(* preparePackageWorkspace: src in the package is a link to the tree.      *)
LinkSource(p) ==
  /\ AtStep("link", p)
  /\ IF dir[p] = "users" THEN End /\ UNCHANGED dir
     ELSE dir' = [dir EXCEPT ![p] = "link"] /\ Done("link", p) /\ UNCHANGED got
  /\ UNCHANGED <<heads, sources, records, linked, spoiled, buildBounds>>

-----------------------------------------------------------------------------
(* applyPatchesFor: any command of git may fail, and a patch that has      *)
(* failed half way does not apply.                                         *)

Refused(p) == linked /\ p \in {Owner} \cup Sharers

RefusePatches(p) ==
  /\ AtStep("patch", p) /\ Refused(p)
  /\ End
  /\ UNCHANGED <<heads, treesOnDisk, buildBounds>>

(* Patches that are in the files are skipped.                              *)
ApplyPatches(p) ==
  /\ AtStep("patch", p) /\ ~Refused(p) /\ p \notin sources[TreeRootFor(p)].part
  /\ IF IsUsers(p)
     THEN spoiled' = spoiled \cup {p} /\ UNCHANGED sources
     ELSE sources' = [sources EXCEPT ![TreeRootFor(p)].whole = @ \cup {p}] /\ UNCHANGED spoiled
  /\ Done("patch", p)
  /\ UNCHANGED <<heads, records, linked, dir, got, buildBounds>>

(* clearPatchState: the state file speaks of no patches any more.          *)
FailPatches(p) ==
  /\ AtStep("patch", p) /\ ~Refused(p)
  /\ LET r == TreeRootFor(p) IN
       /\ sources' = [sources EXCEPT ![r].part = @ \cup {p}, ![r].whole = @ \ {p}, ![r].failed = TRUE]
       /\ records' = IF records[r] = NoRecord THEN records ELSE [records EXCEPT ![r].hash = {}]
  /\ End
  /\ UNCHANGED <<heads, linked, dir, spoiled, buildBounds>>

CompileMembers ==
  /\ at = "run" /\ todo = {}
  /\ at' = "built" /\ UNCHANGED <<heads, treesOnDisk, asked, todo, got, buildBounds>>

Return == at = "built" /\ End /\ UNCHANGED <<heads, treesOnDisk, buildBounds>>

-----------------------------------------------------------------------------
(* Other commands, the user, and kills                                     *)

(* pkg link saves the link, then removes the working tree and its state    *)
(* file.                                                                   *)
PkgLink ==
  /\ at = "idle" /\ ~linked /\ builds < MaxBuilds /\ builds' = builds + 1
  /\ linked' = TRUE
  /\ sources' = Sources(Root(Owner), NoHead) /\ records' = Records(Root(Owner), NoRecord)
  /\ UNCHANGED <<heads, dir, spoiled, command, headMoves, buildKills>>

KillLink ==
  /\ at = "idle" /\ ~linked /\ buildKills < MaxBuildKills /\ buildKills' = buildKills + 1
  /\ linked' = TRUE
  /\ UNCHANGED <<heads, sources, records, dir, spoiled, command, builds, headMoves>>

PkgUnlink ==
  /\ at = "idle" /\ linked /\ builds < MaxBuilds /\ builds' = builds + 1
  /\ linked' = FALSE
  /\ UNCHANGED <<heads, sources, records, dir, spoiled, command, headMoves, buildKills>>

(* The user makes a directory where the link is to go, and clears the place*)
(* while no command runs.                                                  *)
UserChanges(p) ==
  /\ \/ dir[p] = "none" /\ at # "built" /\ dir' = [dir EXCEPT ![p] = "users"]
     \/ dir[p] # "none" /\ at = "idle" /\ dir' = [dir EXCEPT ![p] = "none"]
  /\ UNCHANGED <<heads, sources, records, linked, spoiled, command, buildBounds>>

MoveHead ==
  /\ headMoves < MaxHeadMoves /\ headMoves' = headMoves + 1
  /\ \E p \in Nested \cup Locals, c \in Heads :
       c # heads[p] /\ heads' = [heads EXCEPT ![p] = c]
  /\ UNCHANGED <<treesOnDisk, command, builds, buildKills>>

BuildKilled ==
  /\ at = "run" /\ buildKills < MaxBuildKills /\ buildKills' = buildKills + 1
  /\ End
  /\ UNCHANGED <<heads, linked, dir, spoiled, builds, headMoves>>

KillMembers == BuildKilled /\ UNCHANGED <<sources, records>>

(* The state file goes first; then the tree is restored, or removed.       *)
KillEnsure ==
  /\ \E step \in {"resolve", "ensure"}, p \in Packages :
       LET r == TreeRootFor(p) IN
       /\ AtStep(step, p) /\ ~HasUnmanagedSourceDir(p)
       /\ ~(IsReusable(r, TreePatchHash(p), step = "resolve") /\ Suffices(r, asked.commit[p]))
       /\ \/ sources' = sources /\ records' = [records EXCEPT ![r] = NoRecord]
          \/ \E c \in {NoHead, sources[r].head} :
               sources' = Sources(r, c) /\ records' = Records(r, NoRecord)
  /\ BuildKilled

MembersNext ==
  \/ BuildMembers \/ FindNative \/ CompileMembers \/ Return
  \/ \E p \in Packages :
       \/ SelectPackageSourceRoot(p) \/ RefusePatches(p) \/ ApplyPatches(p) \/ FailPatches(p)
  \/ \E p \in Locals : LinkSource(p) \/ UserChanges(p)
  \/ PkgLink \/ PkgUnlink \/ MoveHead \/ KillMembers \/ KillLink \/ KillEnsure

MembersSpec == MembersInit /\ [][MembersNext]_memberVars

-----------------------------------------------------------------------------
(* What is compiled has the commit the build reports (the locked one, if   *)
(* there is one) and the patches of every package the build needs; a tree  *)
(* has no others unless one has failed there since it was made             *)
(* (treePatchHash, treeRootFor and selectPackageSourceRoot, whatever other *)
(* packages earlier builds needed, and wherever they failed).              *)
NeededIsRight ==
  at = "built" => \A p \in asked.needed : ~IsUsers(p) =>
    LET t == sources[TreeRootFor(p)] IN
    /\ t.head = got[IF p \in Sharers THEN Owner ELSE p] /\ t.head # NoHead
    /\ asked.commit[p] # NoHead => t.head = asked.commit[p]
    /\ p \in t.whole <=> p \in Patched
    /\ p \notin t.part
    /\ t.failed \/ t.whole \subseteq asked.needed

(* What was built is built again without making a tree anew: each state    *)
(* file says what the next build asks for (EnsureSource: trees of members  *)
(* are made after the one they are inside of).                             *)
BuiltIsReusable ==
  at = "built" => \A p \in asked.needed \ Sharers : ~IsUsers(p) =>
    LET r == TreeRootFor(p) IN
    /\ IsReusable(r, TreePatchHash(p), FALSE)
    /\ asked.refresh \/ Suffices(r, asked.commit[p])

(* A tree in which patches have failed is not taken for one that has them  *)
(* (applyPatchesFor: "the next invocation recreates a clean tree").        *)
FailedIsRemade ==
  \A r \in Roots : records[r] # NoRecord => sources[r].part \cap records[r].hash = {}

(* No patch is applied to files of the user's (applyPatchesFor:            *)
(* "user-managed"; hasUnmanagedSourceDir).                                 *)
UsersFilesStay == spoiled = {}

(* The four: what is compiled has the commits and patches of all that is   *)
(* needed, is built again as it is, and is no file of the user's (package  *)
(* pipeline, EnsureSource).                                                *)
MembersAreRight == NeededIsRight /\ BuiltIsReusable /\ FailedIsRemade /\ UsersFilesStay
=============================================================================
