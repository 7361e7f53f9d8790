------------------------------ MODULE MCStorage ------------------------------
(* What commands keep of sources: the working tree of a package and those   *)
(* of all packages of a build, below .vmake_deps, and the cache of git      *)
(* objects.  These share no state; a behaviour is one of one part.  The     *)
(* working tree comes with two sets of bounds: deep in kills, as the        *)
(* constants say, and with refs that move.                                  *)
EXTENDS SourceTree, MemberTrees, ObjectCache, TLC

CONSTANTS
  c1, c2, r1, u1, u2, a, b, bad, p1, p2, k1, k2, main, tag,
  Parts         \* those a run looks at

VARIABLE part

(* None, one, two that overlap, and a series that fails in its second.     *)
PatchedSets == {<<>>, <<b>>, <<a, b>>, <<a, bad>>}
PatchedMasks == {<<a, b>>}

Moving == INSTANCE SourceTree WITH
  Refs <- {r1}, PatchSets <- {<<b>>, <<a, bad>>}, MaxKills <- 1, MaxMoves <- 1

(* An owner without patches, two members that share its tree, one with a   *)
(* repository inside it, and a local package, all with patches.            *)
Members == {"m1", "m2"}
Owned == {"own"}
Local == {"local"}
PatchedPackages == {"m1", "m2", "own", "local"}
NeededSets == {{"local"}, {"owner"}, {"owner", "m1"}, {"owner", "m1", "m2", "own"}}

ASSUME CacheAssumption

treeVars == vars

NoTrees ==
  /\ upstream = 0 /\ src = NoTree /\ state = NoState /\ wreck = "none" /\ pc = "none" /\ cmd = 0
  /\ commands = 0 /\ kills = 0 /\ moves = 0
NoMembers ==
  /\ heads = 0 /\ sources = [r \in Roots |-> NoSource] /\ records = [r \in Roots |-> NoRecord]
  /\ linked = FALSE /\ dir = 0 /\ spoiled = {} /\ at = "idle" /\ asked = 0 /\ todo = 0 /\ got = 0
  /\ builds = 0 /\ headMoves = 0 /\ buildKills = 0
NoCache ==
  /\ remote = 0 /\ kind = "absent" /\ parts = {} /\ refs = 0 /\ anchors = {} /\ commits = {}
  /\ objects = {} /\ recorded = 0 /\ lock = Free /\ task = 0 /\ cachePc = [p \in Procs |-> "idle"]
  /\ clones = 0 /\ cacheMoves = 0 /\ cacheKills = 0

(* Two projects, a branch and a tag.  The two differ until one is moved; no *)
(* definition tells a commit or a project from another, so which is which   *)
(* does not matter.                                                         *)
TwoTips == remote = [r \in CacheRefs |-> IF r = main THEN k1 ELSE k2]
FirstIsP1 == clones = 0 => cachePc'[p2] = "idle"

StorageInit ==
  /\ part \in Parts
  /\ \/ part = "killed" /\ Init /\ NoMembers /\ NoCache
     \/ part = "moving" /\ Moving!Init /\ NoMembers /\ NoCache
     \/ part = "members" /\ MembersInit /\ NoTrees /\ NoCache
     \/ part = "cache" /\ CacheInit /\ TwoTips /\ NoTrees /\ NoMembers

StorageNext ==
  /\ UNCHANGED part
  /\ \/ part = "killed" /\ Next /\ UNCHANGED <<memberVars, cacheVars>>
     \/ part = "moving" /\ Moving!Next /\ UNCHANGED <<memberVars, cacheVars>>
     \/ part = "members" /\ MembersNext /\ UNCHANGED <<treeVars, cacheVars>>
     \/ part = "cache" /\ CacheNext /\ FirstIsP1 /\ UNCHANGED <<treeVars, memberVars>>

StorageSpec == StorageInit /\ [][StorageNext]_<<part, treeVars, memberVars, cacheVars>>

(* No definition tells one commit from another, or one URL.                 *)
Alike == Permutations({c1, c2}) \cup Permutations({u1, u2})
=============================================================================
