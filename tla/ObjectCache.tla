----------------------------- MODULE ObjectCache -----------------------------
(***************************************************************************)
(* The shared git object cache (pkg/repo/objectcache.go) and the clones    *)
(* that go through it (SourceManager.cloneTreeAt and below,                *)
(* pkg/repo/source.go), for one upstream repository used by several        *)
(* projects at once.                                                       *)
(*                                                                         *)
(* A clone makes sure that the cache has what it wants, under the lock of  *)
(* the cache entry; releases the lock; takes it again to fetch from the    *)
(* cache; and falls back on the upstream.  Between the two, and at every   *)
(* read that takes no lock, other projects go on.  A process may be killed *)
(* anywhere, also in the middle of a removal, which leaves any part of the *)
(* entry; every use of the network and every removal may fail.             *)
(***************************************************************************)
EXTENDS Naturals, FiniteSets

CONSTANTS
  Procs,
  Shas, NoSha, \* commits
  CacheRefs, NoCacheRef,
  Tags,        \* those of CacheRefs that are tags
  HeadRef,     \* the branch the upstream's HEAD names
  Free,
  MaxClones,      \* bound: clones and removals
  MaxCacheMoves,  \* bound: refs moved upstream
  MaxCacheKills,  \* bound: processes killed, and removals that fail
  FirstKinds   \* what may be in place of the entry at first

Kinds == {"absent", "users", "whole", "torn"}

(* vmake-cache.json; HEAD, config and objects/; refs/                      *)
AllParts == {"marker", "core", "refs"}
NoRefs == [r \in CacheRefs |-> NoSha]

CacheAssumption ==
  /\ NoSha \notin Shas /\ NoCacheRef \notin CacheRefs
  /\ Tags \subseteq CacheRefs /\ HeadRef \in CacheRefs \ Tags
  /\ Free \notin Procs
  /\ MaxClones \in Nat /\ MaxCacheMoves \in Nat /\ MaxCacheKills \in Nat
  /\ FirstKinds \subseteq Kinds

VARIABLES
  remote,      \* the commits of the refs upstream
  kind,        \* what is in place of the entry; "users": not vmake's; "torn": vmake's, but
               \* damaged, or a removal has begun
  parts,       \* which parts of a repository of vmake's are there
  refs,        \* refs of the bare repository
  anchors,     \* refs/vmake/<commit>
  commits,     \* commits whose own object it has
  objects,     \* those of them it has all objects of
  recorded,    \* refCommits of vmake-cache.json
  lock,        \* cache_<hash>.lock
  cachePc, task,
  clones, cacheMoves, cacheKills

repo == <<kind, parts, refs, anchors, commits, objects, recorded>>
cacheBounds == <<clones, cacheMoves, cacheKills>>
cacheVars == <<remote, repo, lock, cachePc, task, cacheBounds>>

NoTask ==
  [ref |-> NoCacheRef, commit |-> NoSha, pinned |-> FALSE, offline |-> FALSE,
   local |-> NoCacheRef, goal |-> "commit", nested |-> FALSE, seen |-> FALSE,
   created |-> FALSE, meta |-> [r \in CacheRefs |-> NoSha], got |-> NoSha]

CacheInit ==
  /\ remote \in [CacheRefs -> Shas]
  /\ kind \in FirstKinds
  /\ parts = (CASE kind = "whole" -> AllParts [] kind = "torn" -> {"marker"} [] OTHER -> {})
  /\ refs = IF kind = "whole" THEN remote ELSE NoRefs
  /\ recorded = refs
  /\ anchors = {refs[r] : r \in CacheRefs} \ {NoSha}
  /\ commits = anchors /\ objects = anchors
  /\ lock = Free
  /\ cachePc = [p \in Procs |-> "idle"] /\ task = [p \in Procs |-> NoTask]
  /\ clones = 0 /\ cacheMoves = 0 /\ cacheKills = 0

-----------------------------------------------------------------------------
CacheGoto(p, place) == cachePc' = [cachePc EXCEPT ![p] = place]
Keep(p, place) == CacheGoto(p, place) /\ UNCHANGED task
CacheGo(p, place, t) == CacheGoto(p, place) /\ task' = [task EXCEPT ![p] = t]
T(p) == task[p]

(* The metadata loads (entry); ensureRepo takes the entry as it is; it is  *)
(* there, but without the mark that it is vmake's.                         *)
Loads == "marker" \in parts
Usable == Loads /\ "core" \in parts
Foreign == kind = "users" \/ (kind = "torn" /\ ~Loads /\ parts # {})

(* What can be read of the entry, with the lock or without: git resolves   *)
(* an anchor whose commit is there; the metadata are just read.            *)
Anchored(c) == c \in anchors \cap commits
Has(c) == Loads /\ Anchored(c)
CachedRef(r, c) == Loads /\ recorded[r] = c

MoveUpstream ==
  /\ cacheMoves < MaxCacheMoves /\ cacheMoves' = cacheMoves + 1
  /\ \E r \in CacheRefs, c \in Shas : c # remote[r] /\ remote' = [remote EXCEPT ![r] = c]
  /\ UNCHANGED <<repo, lock, cachePc, task, clones, cacheKills>>

-----------------------------------------------------------------------------
(* EnsureSource calls cloneTreeAt.  Builds share the lifecycle lock, and   *)
(* "cache remove" has it alone.                                            *)

Removing == \E p \in Procs : cachePc[p] \in {"remove", "removing"}

Begin(p, place, t) ==
  /\ cachePc[p] = "idle" /\ clones < MaxClones /\ ~Removing
  /\ clones' = clones + 1
  /\ CacheGo(p, place, t)
  /\ UNCHANGED <<remote, repo, lock, cacheMoves, cacheKills>>

(* The lock file, or a config, wants a commit, of a ref or just so.        *)
ClonePinned(p) ==
  \E r \in CacheRefs \cup {NoCacheRef}, c \in Shas, offline \in BOOLEAN :
    Begin(p, "plan", [NoTask EXCEPT !.ref = r, !.commit = c, !.pinned = TRUE, !.offline = offline])

(* A ref, resolved upstream, or by the cache when that cannot be reached   *)
CloneResolved(p) ==
  \E r \in CacheRefs, c \in Shas, offline \in BOOLEAN :
    /\ (~offline /\ c = remote[r]) \/ CachedRef(r, c)
    /\ Begin(p, "plan", [NoTask EXCEPT !.ref = r, !.commit = c, !.local = r, !.offline = offline])

(* cloneHeadTree *)
CloneHead(p) == Begin(p, "head", [NoTask EXCEPT !.goal = "best"])

RecordHead(p) ==
  /\ cachePc[p] = "head"
  /\ \/ Keep(p, "failed")
     \/ CacheGo(p, "ensure", [T(p) EXCEPT !.commit = remote[HeadRef], !.got = remote[HeadRef]])
  /\ UNCHANGED <<remote, repo, lock, cacheBounds>>

(* cloneTreeAt and the reads cloneRefTree begins with *)
PlanClone(p) ==
  /\ cachePc[p] = "plan"
  /\ IF T(p).offline
     THEN IF Has(T(p).commit)
          THEN CacheGo(p, "checkout", [T(p) EXCEPT !.goal = "commit", !.seen = TRUE])
          ELSE Keep(p, "failed")
     ELSE IF T(p).ref = NoCacheRef THEN Keep(p, "ensure")
     ELSE IF T(p).local # NoCacheRef \/ CachedRef(T(p).ref, T(p).commit)
     THEN CacheGo(p, "ensure", [T(p) EXCEPT !.goal = "ref", !.local = T(p).ref])
     ELSE Keep(p, "probe")
  /\ UNCHANGED <<remote, repo, lock, cacheBounds>>

Probe(p) ==
  /\ cachePc[p] = "probe"
  /\ \/ Keep(p, "ensure")
     \/ ~Has(T(p).commit) /\ CacheGo(p, "ensure", [T(p) EXCEPT !.goal = "ref", !.local = T(p).ref])
  /\ UNCHANGED <<remote, repo, lock, cacheBounds>>

-----------------------------------------------------------------------------
(* ensureCacheEntry *)

LockEntry(p) ==
  /\ cachePc[p] = "ensure" /\ lock = Free
  /\ lock' = p
  /\ Keep(p, "repo")
  /\ UNCHANGED <<remote, repo, cacheBounds>>

(* Where a clone goes with the result of an ensure *)
After(p, ok) ==
  IF T(p).goal = "best" THEN "done"
  ELSE IF ok THEN "checkout"
  ELSE IF T(p).goal = "ref" THEN "again" ELSE "upstream"

(* The ensure returns, and with it its metadata and its lock are gone.     *)
Leave(p, ok, t) ==
  /\ CacheGo(p, After(p, ok), [t EXCEPT !.meta = NoRefs, !.created = FALSE])
  /\ lock' = Free

(* ensureRepo, when the entry is usable; otherwise it is made anew, unless *)
(* it does not carry vmake's marker.                                       *)
UseRepo(p) ==
  /\ cachePc[p] = "repo" /\ Usable
  /\ CacheGo(p, "want", [T(p) EXCEPT !.meta = recorded, !.created = FALSE])
  /\ UNCHANGED <<remote, repo, lock, cacheBounds>>

RefuseRepo(p) ==
  /\ cachePc[p] = "repo" /\ Foreign
  /\ Leave(p, FALSE, T(p))
  /\ UNCHANGED <<remote, repo, cacheBounds>>

(* RemoveAll has begun on the live entry.                                  *)
BeginRemoval == kind' = "torn" /\ UNCHANGED <<parts, refs, anchors, commits, objects, recorded>>

(* Mutant: whatever is there is cleared away. *)
ClearRepoAlways(p) ==
  /\ cachePc[p] = "repo" /\ ~Usable /\ kind # "absent"
  /\ BeginRemoval
  /\ Keep(p, "clearing")
  /\ UNCHANGED <<remote, lock, cacheBounds>>

ClearRepo(p) ==
  /\ cachePc[p] = "repo" /\ ~Usable /\ ~Foreign /\ kind # "absent"
  /\ BeginRemoval
  /\ Keep(p, "clearing")
  /\ UNCHANGED <<remote, lock, cacheBounds>>

Removals == {"clearing", "undoing", "removing"}

(* It takes the files one by one, in no order one can rely on.  Without    *)
(* refs/ there is no repository for git, and what else is left of it       *)
(* counts as gone; so it may, file by file, when one of "core" is gone.    *)
RemovePart(x) ==
  /\ parts' = parts \ {x}
  /\ recorded' = IF x = "marker" THEN NoRefs ELSE recorded
  /\ IF x = "refs"
     THEN refs' = NoRefs /\ anchors' = {} /\ commits' = {} /\ objects' = {}
     ELSE UNCHANGED <<refs, anchors, commits, objects>>

RemoveRef ==
  /\ \/ UNCHANGED anchors /\ \E r \in CacheRefs : refs' = [refs EXCEPT ![r] = NoSha]
     \/ UNCHANGED refs /\ \E c \in anchors : anchors' = anchors \ {c}
  /\ UNCHANGED <<parts, recorded, commits, objects>>

RemoveObject(c) ==
  /\ commits' \in {commits, commits \ {c}} /\ objects' = objects \ {c}
  /\ UNCHANGED <<parts, recorded, refs, anchors>>

RemoveMore(p) ==
  /\ cachePc[p] \in Removals
  /\ (\E x \in parts : RemovePart(x)) \/ RemoveRef \/ (\E c \in commits : RemoveObject(c))
  /\ UNCHANGED <<remote, kind, lock, cachePc, task, cacheBounds>>

(* It gives up on an error, and leaves the rest.                           *)
RemovalFails(p) ==
  /\ cachePc[p] \in Removals
  /\ cacheKills < MaxCacheKills /\ cacheKills' = cacheKills + 1
  /\ IF cachePc[p] = "removing" THEN Keep(p, "failed") /\ lock' = Free ELSE Leave(p, FALSE, T(p))
  /\ UNCHANGED <<remote, repo, clones, cacheMoves>>

Emptied ==
  refs' = NoRefs /\ recorded' = NoRefs /\ anchors' = {} /\ commits' = {} /\ objects' = {}

(* A staging directory with the marker, git init, rename *)
MakeRepo(p) ==
  /\ cachePc[p] = "clearing" \/ (cachePc[p] = "repo" /\ kind = "absent")
  /\ \/ /\ kind' = "whole" /\ parts' = AllParts
        /\ CacheGo(p, "want", [T(p) EXCEPT !.meta = NoRefs, !.created = TRUE])
        /\ UNCHANGED lock
     \/ kind' = "absent" /\ parts' = {} /\ Leave(p, FALSE, T(p))
  /\ Emptied
  /\ UNCHANGED <<remote, cacheBounds>>

(* ensureCommitLocked, ensureRefLocked: there already, or to be fetched    *)
Present(p) ==
  IF T(p).goal = "ref" THEN refs[T(p).local] = T(p).commit /\ T(p).commit \in commits
  ELSE Anchored(T(p).commit)

FindPresent(p) ==
  /\ cachePc[p] = "want"
  /\ Keep(p, IF Present(p) THEN "anchor" ELSE "fetch")
  /\ UNCHANGED <<remote, repo, lock, cacheBounds>>

(* A fetch gets what git finds missing.  It takes the objects of a commit  *)
(* it has for granted, so where there are holes it may leave some.         *)
GetObjects(fetched) ==
  /\ commits' = commits \cup fetched
  /\ \E filled \in SUBSET fetched :
       (commits \subseteq objects => filled = fetched) /\ objects' = objects \cup filled

FetchedRef(p) == refs'[T(p).local] = T(p).commit

FetchRef(p) ==
  /\ cachePc[p] = "fetch" /\ T(p).goal = "ref" /\ "refs" \in parts
  /\ refs' = [refs EXCEPT ![T(p).local] = remote[T(p).local]]
  /\ GetObjects({remote[T(p).local]})
  /\ Keep(p, IF FetchedRef(p) THEN "anchor" ELSE "undo")
  /\ UNCHANGED <<remote, kind, parts, anchors, recorded, lock, cacheBounds>>

(* fetchCommitObjects: by its id, if the upstream allows that, or all tips *)
FetchCommit(p) ==
  /\ cachePc[p] = "fetch" /\ T(p).goal # "ref" /\ "refs" \in parts
  /\ \/ GetObjects({T(p).commit}) /\ UNCHANGED refs
     \/ /\ T(p).goal = "commit"
        /\ GetObjects({remote[r] : r \in CacheRefs})
        /\ refs' = [r \in CacheRefs |-> IF r \in Tags THEN remote[r] ELSE refs[r]]
  /\ Keep(p, IF T(p).commit \in commits' THEN "anchor" ELSE "undo")
  /\ UNCHANGED <<remote, kind, parts, anchors, recorded, lock, cacheBounds>>

FetchFails(p) ==
  /\ cachePc[p] = "fetch"
  /\ Keep(p, "undo")
  /\ UNCHANGED <<remote, repo, lock, cacheBounds>>

Anchor(p) ==
  /\ cachePc[p] = "anchor"
  /\ anchors' = anchors \cup {T(p).commit}
  /\ CacheGo(p, "save",
        IF T(p).goal = "ref" THEN [T(p) EXCEPT !.meta[T(p).local] = T(p).commit] ELSE T(p))
  /\ UNCHANGED <<remote, kind, parts, refs, commits, objects, recorded, lock, cacheBounds>>

SaveMeta(p) ==
  /\ cachePc[p] = "save"
  /\ recorded' = T(p).meta
  /\ Leave(p, TRUE, [T(p) EXCEPT !.seen = TRUE])
  /\ UNCHANGED <<remote, kind, parts, refs, anchors, commits, objects, cacheBounds>>

(* The first fetch failed: the repository goes. *)
Undo(p) ==
  /\ cachePc[p] = "undo"
  /\ IF T(p).created
     THEN BeginRemoval /\ Keep(p, "undoing") /\ UNCHANGED lock
     ELSE UNCHANGED repo /\ Leave(p, FALSE, T(p))
  /\ UNCHANGED <<remote, cacheBounds>>

Undone(p) ==
  /\ cachePc[p] = "undoing"
  /\ kind' = "absent" /\ parts' = {} /\ Emptied
  /\ Leave(p, FALSE, T(p))
  /\ UNCHANGED <<remote, cacheBounds>>

-----------------------------------------------------------------------------
(* checkoutCachedTree: a fetch of depth 1, in which the commit has to be.  *)
(* git does not serve a commit that it has not all objects of.             *)
CanCheckout(p) ==
  /\ T(p).commit \in objects
  /\ IF T(p).goal = "ref" THEN refs[T(p).local] = T(p).commit ELSE T(p).commit \in anchors

Checkout(p) ==
  /\ cachePc[p] = "checkout" /\ lock = Free
  /\ IF CanCheckout(p) THEN CacheGo(p, "done", [T(p) EXCEPT !.got = T(p).commit])
     ELSE Keep(p, IF T(p).offline THEN "failed" ELSE "upstream")
  /\ UNCHANGED <<remote, repo, lock, cacheBounds>>

(* cloneRefTree: the ref cannot be had, but its commit is in the cache.    *)
TryCommit(p) ==
  /\ cachePc[p] = "again"
  /\ IF Has(T(p).commit)
     THEN CacheGo(p, "ensure", [T(p) EXCEPT !.goal = "commit", !.nested = TRUE, !.seen = TRUE])
     ELSE Keep(p, "upstream")
  /\ UNCHANGED <<remote, repo, lock, cacheBounds>>

(* cloneCommitTree: from the upstream, by its id or with all history       *)
UpstreamCommit(p) ==
  /\ cachePc[p] = "upstream" /\ T(p).goal = "commit"
  /\ \/ CacheGo(p, "done", [T(p) EXCEPT !.got = T(p).commit])
     \/ CacheGo(p, IF T(p).nested THEN "upstream" ELSE "failed",
           [T(p) EXCEPT !.goal = IF T(p).nested THEN "ref" ELSE @])
  /\ UNCHANGED <<remote, repo, lock, cacheBounds>>

(* Mutant: the lock's commit is not compared. *)
NoMismatch(p) == FALSE
Mismatch(p) == T(p).pinned /\ remote[T(p).local] # T(p).commit

(* cloneRefTree: from the upstream; a pinned ref must not have moved.      *)
UpstreamRef(p) ==
  /\ cachePc[p] = "upstream" /\ T(p).goal = "ref"
  /\ \/ Keep(p, "failed")
     \/ ~Mismatch(p) /\ CacheGo(p, "done", [T(p) EXCEPT !.got = remote[T(p).local]])
  /\ UNCHANGED <<remote, repo, lock, cacheBounds>>

-----------------------------------------------------------------------------
(* ObjectCache.Remove, by "vmake cache remove" *)

BeginRemove(p) ==
  /\ \A q \in Procs : cachePc[q] \in {"idle", "done", "failed"}
  /\ Begin(p, "remove", NoTask)

RemoveEntry(p) ==
  /\ cachePc[p] = "remove" /\ lock = Free
  /\ IF Loads
     THEN BeginRemoval /\ Keep(p, "removing") /\ lock' = p
     ELSE UNCHANGED <<repo, lock>> /\ Keep(p, "failed")
  /\ UNCHANGED <<remote, cacheBounds>>

Removed(p) ==
  /\ cachePc[p] = "removing"
  /\ kind' = "absent" /\ parts' = {} /\ Emptied
  /\ Keep(p, "done") /\ lock' = Free
  /\ UNCHANGED <<remote, cacheBounds>>

(* The command goes on, or the next one begins.                            *)
Finish(p) ==
  /\ cachePc[p] \in {"done", "failed"}
  /\ CacheGo(p, "idle", NoTask)
  /\ UNCHANGED <<remote, repo, lock, cacheBounds>>

KillClone(p) ==
  /\ cacheKills < MaxCacheKills /\ cacheKills' = cacheKills + 1
  /\ cachePc[p] \notin {"idle", "done", "failed"}
  /\ CacheGo(p, "idle", NoTask)
  /\ lock' = IF lock = p THEN Free ELSE lock
  /\ UNCHANGED <<remote, repo, clones, cacheMoves>>

-----------------------------------------------------------------------------
EnsureEntry(p) ==
  \/ LockEntry(p) \/ UseRepo(p) \/ RefuseRepo(p) \/ ClearRepo(p) \/ MakeRepo(p)
  \/ FindPresent(p) \/ FetchRef(p) \/ FetchCommit(p) \/ FetchFails(p)
  \/ Anchor(p) \/ SaveMeta(p) \/ Undo(p) \/ Undone(p)

CloneStep(p) ==
  \/ RecordHead(p) \/ PlanClone(p) \/ Probe(p) \/ EnsureEntry(p) \/ Checkout(p) \/ TryCommit(p)
  \/ UpstreamCommit(p) \/ UpstreamRef(p) \/ RemoveEntry(p) \/ Removed(p)
  \/ RemoveMore(p) \/ RemovalFails(p)

Start(p) ==
  ClonePinned(p) \/ CloneResolved(p) \/ CloneHead(p) \/ BeginRemove(p) \/ Finish(p)

CacheNext == MoveUpstream \/ \E p \in Procs : CloneStep(p) \/ Start(p) \/ KillClone(p)

CacheSpec == CacheInit /\ [][CacheNext]_cacheVars

(* A command goes on with its clone. *)
FairCacheSpec == CacheSpec /\ \A p \in Procs : WF_cacheVars(CloneStep(p))

-----------------------------------------------------------------------------
(* Properties *)

Places ==
  {"idle", "head", "plan", "probe", "ensure", "repo", "clearing", "want", "fetch", "anchor",
   "save", "undo", "undoing", "checkout", "again", "upstream", "remove", "removing", "done",
   "failed"}
Critical == {"repo", "clearing", "want", "fetch", "anchor", "save", "undo", "undoing", "removing"}

(* Every variable holds a value of its kind. *)
CacheTypeOK ==
  /\ remote \in [CacheRefs -> Shas]
  /\ kind \in Kinds /\ parts \subseteq AllParts /\ (parts # {} => kind \in {"whole", "torn"})
  /\ refs \in [CacheRefs -> Shas \cup {NoSha}] /\ recorded \in [CacheRefs -> Shas \cup {NoSha}]
  /\ anchors \subseteq Shas /\ commits \subseteq Shas /\ objects \subseteq commits
  /\ lock \in Procs \cup {Free}
  /\ cachePc \in [Procs -> Places]
  /\ \A p \in Procs :
       /\ T(p).ref \in CacheRefs \cup {NoCacheRef} /\ T(p).local \in CacheRefs \cup {NoCacheRef}
       /\ T(p).commit \in Shas \cup {NoSha} /\ T(p).got \in Shas \cup {NoSha}
       /\ T(p).goal \in {"commit", "ref", "best"}
       /\ T(p).meta \in [CacheRefs -> Shas \cup {NoSha}]
  /\ clones \in 0..MaxClones /\ cacheMoves \in 0..MaxCacheMoves /\ cacheKills \in 0..MaxCacheKills

(* What the metadata says of a ref can be had without the network: the     *)
(* commit is anchored, and there, whoever was killed and wherever the refs *)
(* have moved ("recorded" decides that a clone does not ask upstream); but *)
(* where a removal was cut short, ensureRepo may take what it has left.    *)
RecordedIsAnchored ==
  kind = "whole" =>
    /\ \A r \in CacheRefs : recorded[r] # NoSha => recorded[r] \in anchors
    /\ anchors \subseteq objects

(* A clone for a locked commit yields that commit, from the cache or from  *)
(* upstream, though the ref moves in both while it runs.                   *)
PinnedIsExact ==
  \A p \in Procs : cachePc[p] = "done" /\ T(p).pinned => T(p).got = T(p).commit

(* What the clones of all projects rely on.                                *)
CacheIsSound == RecordedIsAnchored /\ PinnedIsExact

(* A directory that is not vmake's is left as it is (TestObjectCache-      *)
(* RefusesForeignDirectory), by a rebuild, an undo or a removal; so is one *)
(* that a removal cut short has left without the marker.                   *)
UsersDirectoryStays ==
  [][Foreign /\ (kind = "torn" => \A p \in Procs : cachePc[p] \notin Removals) => repo' = repo]_repo

(* "so a later commit-only checkout stays offline-capable even when the    *)
(* ref has moved upstream" (EnsureRef): the clone of a locked commit that  *)
(* it saw anchored does not fail.                                          *)
CachedPinsSucceed ==
  \A p \in Procs : cachePc[p] = "failed" /\ T(p).pinned => ~T(p).seen

(* A clone ends, also when it waits for the entry of other projects.       *)
ClonesEnd == \A p \in Procs : cachePc[p] = "plan" ~> cachePc[p] \in {"done", "failed", "idle"}

=============================================================================
