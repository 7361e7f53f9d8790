---------------------------- MODULE DependencyLock ----------------------------
(***************************************************************************)
(* How the versions of remote packages are selected and locked: the        *)
(* resolver (pkg/resolver), the download of the sources                    *)
(* (pkg/pipeline/stage_source.go), "deps sync", "update", "pin", "fetch"   *)
(* and "status" (pkg/pipeline/deps.go, cmd/vmake/deps_cmd.go) and the     *)
(* file .vmake/vmake.lock (pkg/lockfile).                                  *)
(*                                                                         *)
(* A command resolves the requirements of the build scripts one by one,    *)
(* drops what the configuration does not need, makes the working trees of  *)
(* the rest, and only then checks or writes the lock file; a pin is        *)
(* written after that.  It holds the project lock from where it loads its  *)
(* inputs to its end.  Between two commands, and while one of them runs,   *)
(* upstream tags move; any step may fail or be the last before a kill.     *)
(***************************************************************************)
EXTENDS Integers, FiniteSets, Sequences, FiniteSetsExt

CONSTANTS
  Procs, Free,
  Native,        \* packages whose repository has the build script, too
  Registry,      \* packages with a wrapper script in the registry
  MaxVersion,
  Commits, NoCommit,
  Heads, NoHead, \* commits of the registry
  Declares,      \* the versions the wrappers at a head declare
  Scripts,       \* the build scripts: their requirements, as visited
  Configs,       \* the packages each configuration needs
  Targets,       \* what "update" and "pin" are given, and pins name
  FirstTags,
  MaxCommands,   \* bound: commands
  MaxChanges     \* bound: changes by the user and upstream

Packages == Native \cup Registry
Versions == 1..MaxVersion
None == 0

LockAssumption ==
  /\ Native \cap Registry = {} /\ Free \notin Procs
  /\ MaxVersion \in Nat /\ MaxCommands \in Nat /\ MaxChanges \in Nat
  /\ NoCommit \notin Commits /\ NoHead \notin Heads
  /\ Commits \cap 0..MaxVersion = {} /\ Targets \subseteq Versions \cup Commits
  /\ Declares \in [Heads -> [Registry -> SUBSET Versions]]
  /\ Configs \subseteq SUBSET Packages
  /\ FirstTags \in [Packages -> [Versions -> Commits \cup {NoCommit}]]
  /\ \A s \in Scripts : s \in Seq([pkg : Packages, allows : SUBSET Versions])

VARIABLES
  tags,          \* upstream: the commits of the versions
  head,          \* the registry, as checked out
  script, lock, pins, links,   \* files of the project
  tree,          \* what each working tree was made for
  holder,        \* of the project lock
  pc, cmd,
  node, got,     \* graph and sources of the command that holds the lock
  synced,        \* the configuration the lock file was last made for
  commands, changes

files == <<script, pins, links>>
world == <<tags, head>>
bounds == <<commands, changes>>
vars == <<world, files, lock, tree, holder, pc, cmd, node, got, synced, bounds>>

NoEntry == [version |-> None, commit |-> NoCommit, wrapper |-> NoHead]
Nothing == [version |-> None, commit |-> NoCommit]
NoNode ==
  [in |-> FALSE, linked |-> FALSE, allows |-> Versions, version |-> None, commit |-> NoCommit]

NoTargets == [p \in Packages |-> None]
NoCommand ==
  [kind |-> "none", locked |-> FALSE, all |-> FALSE, float |-> {}, target |-> NoTargets,
   pins |-> NoTargets, lock |-> [p \in Packages |-> NoEntry], config |-> {}, needed |-> {},
   visit |-> 1, named |-> {}]

Init ==
  /\ tags = FirstTags /\ head \in Heads
  /\ script \in Scripts
  /\ lock = [p \in Packages |-> NoEntry] /\ pins = [p \in Packages |-> None] /\ links = {}
  /\ tree = [p \in Packages |-> Nothing]
  /\ holder = Free
  /\ pc = [p \in Procs |-> "idle"] /\ cmd = [p \in Procs |-> NoCommand]
  /\ node = [p \in Packages |-> NoNode] /\ got = [p \in Packages |-> Nothing]
  /\ synced = {}
  /\ commands = 0 /\ changes = 0

-----------------------------------------------------------------------------
(* Upstream, and the user between two commands *)

Change(free) == changes < MaxChanges /\ changes' = changes + 1 /\ (free => holder = Free)

MoveTag ==
  /\ Change(FALSE)
  /\ \E p \in Packages, v \in Versions, c \in Commits : tags' = [tags EXCEPT ![p][v] = c]
  /\ UNCHANGED <<head, files, lock, tree, holder, pc, cmd, node, got, synced, commands>>

(* "repo update": excluded while a command has read from the registry      *)
MoveHead ==
  /\ Change(TRUE)
  /\ head' \in Heads \ {head}
  /\ synced' = {}
  /\ UNCHANGED <<tags, files, lock, tree, holder, pc, cmd, node, got, commands>>

EditScript ==
  /\ Change(TRUE)
  /\ script' \in Scripts \ {script}
  /\ synced' = {}
  /\ UNCHANGED <<world, pins, links, lock, tree, holder, pc, cmd, node, got, commands>>

(* project.json by hand or from the team, and "deps unpin"                 *)
EditPin ==
  /\ Change(TRUE)
  /\ \E p \in Packages, t \in Targets \cup {None} : pins' = [pins EXCEPT ![p] = t]
  /\ synced' = {}
  /\ UNCHANGED <<world, script, links, lock, tree, holder, pc, cmd, node, got, commands>>

(* "pkg link", which removes the tree, and "pkg unlink"                    *)
EditLink ==
  /\ Change(TRUE)
  /\ \E p \in Packages :
       \/ p \notin links /\ links' = links \cup {p} /\ tree' = [tree EXCEPT ![p] = Nothing]
       \/ p \in links /\ links' = links \ {p} /\ UNCHANGED tree
  /\ synced' = {}
  /\ UNCHANGED <<world, script, pins, lock, holder, pc, cmd, node, got, commands>>

-----------------------------------------------------------------------------
(* Commands; what "update" and "pin" do with links and pins precedes the   *)
(* project lock.                                                           *)

Ask(p, c) ==
  /\ pc[p] = "idle" /\ commands < MaxCommands
  /\ commands' = commands + 1
  /\ pc' = [pc EXCEPT ![p] = "waiting"] /\ cmd' = [cmd EXCEPT ![p] = c]
  /\ UNCHANGED <<world, files, lock, tree, holder, node, got, synced, changes>>

Build(p) ==
  \E locked \in BOOLEAN : Ask(p, [NoCommand EXCEPT !.kind = "build", !.locked = locked])

Sync(p) == Ask(p, [NoCommand EXCEPT !.kind = "sync"])

UpdateAll(p) == Ask(p, [NoCommand EXCEPT !.kind = "update", !.all = TRUE])

Update(p) ==
  \E q \in Packages \ links :
    /\ pins[q] = None
    /\ \/ Ask(p, [NoCommand EXCEPT !.kind = "update", !.float = {q}])
       \/ \E t \in Targets : Ask(p, [NoCommand EXCEPT !.kind = "update", !.target[q] = t])

Pin(p) ==
  \E q \in Packages \ links, t \in Targets :
    Ask(p, [NoCommand EXCEPT !.kind = "pin", !.target[q] = t, !.pins = [pins EXCEPT ![q] = t]])

(* "deps fetch" of what the configuration needs, of everything, or of the  *)
(* packages that are named                                                 *)
Fetch(p) ==
  \E named \in {{}, Packages} \cup {{q} : q \in Packages} :
    Ask(p, [NoCommand EXCEPT !.kind = "fetch", !.locked = TRUE, !.named = named])

(* loadResolveInputs, under the project lock; "pin" keeps the pins it read *)
Load(p) ==
  /\ pc[p] = "waiting" /\ holder = Free
  /\ holder' = p
  /\ pc' = [pc EXCEPT ![p] = "resolve"]
  /\ \E config \in Configs :
       cmd' = [cmd EXCEPT ![p].lock = lock, ![p].config = config,
                          ![p].pins = IF cmd[p].kind = "pin" THEN @ ELSE pins]
  /\ UNCHANGED <<world, files, lock, tree, node, got, synced, bounds>>

C == cmd[holder]
At(place) == holder # Free /\ pc[holder] = place
Goto(place) == pc' = [pc EXCEPT ![holder] = place]

-----------------------------------------------------------------------------
(* What the lock file and the pins ask for *)

(* targetOrPin, packagePin *)
Target(q) ==
  IF C.target[q] # None THEN C.target[q] ELSE IF q \in C.float THEN None ELSE C.pins[q]

(* isLockIgnoredFor *)
Ignored(q) == C.all \/ q \in C.float \/ C.target[q] # None

(* lockfileEntry, lockedEntry *)
Locked(q) == IF Ignored(q) THEN NoEntry ELSE C.lock[q]

(* pinnedVersion *)
Pinned(q) ==
  LET t == Target(q)
      entry == C.lock[q]
  IN  CASE t \in Commits -> [version |-> None, commit |-> t]
        [] t \in Versions /\ C.target[q] = None /\ entry.version = t ->
             [version |-> t, commit |-> entry.commit]
        [] t \in Versions /\ (C.target[q] # None \/ entry.version # t) ->
             [version |-> t, commit |-> NoCommit]
        [] t = None -> [version |-> Locked(q).version, commit |-> Locked(q).commit]

PinDiffers(q) ==
  LET pin == C.pins[q]
  IN  pin # None /\ pin # (IF pin \in Commits THEN C.lock[q].commit ELSE C.lock[q].version)

(* checkLockedEntry, verifyLockBeforePrepare; checkWrapperCommit           *)
NotLocked(q) == C.locked /\ (C.lock[q].commit = NoCommit \/ PinDiffers(q))
Drifted(q) ==
  C.locked /\ q \in Registry /\ C.lock[q].wrapper \notin {NoHead, head}

(* EnsureSource: the tree is reused if it is what is asked for, and if not,*)
(* or if its state is gone, made of the commit or of what the tag names.   *)
Ensure(q, version, commit, refresh, result) ==
  \/ /\ tree[q] # Nothing /\ result = tree[q].commit
     /\ IF commit # NoCommit THEN result = commit ELSE tree[q].version = version /\ ~refresh
     /\ UNCHANGED tree
  \/ /\ result = IF commit # NoCommit THEN commit ELSE tags[q][version]
     /\ result # NoCommit
     /\ tree' = [tree EXCEPT ![q] = [version |-> version, commit |-> result]]

-----------------------------------------------------------------------------
(* ResolveAll: the requirements one after the other *)

Visiting == At("resolve") /\ C.visit <= Len(script)
Wanted == script[C.visit]
Visited(n) ==
  /\ node' = [node EXCEPT ![Wanted.pkg] = n]
  /\ cmd' = [cmd EXCEPT ![holder].visit = @ + 1]
  /\ UNCHANGED <<world, files, lock, holder, pc, got, synced, bounds>>

ResolveLink ==
  /\ Visiting /\ ~node[Wanted.pkg].in /\ Wanted.pkg \in links
  /\ Visited([NoNode EXCEPT !.in = TRUE, !.linked = TRUE])
  /\ UNCHANGED tree

(* SelectVersionMulti finds a version, and validatePinnedNodeConstraints   *)
(* accepts the one that is asked for.                                      *)
Fits(q, allows) ==
  LET offered == Declares[head][q] \cap allows
      asked == IF Target(q) # None THEN Target(q) ELSE Locked(q).version
  IN  offered # {} /\ (asked \in Versions => asked \in offered)

ResolveRegistry ==
  LET q == Wanted.pkg
  IN  /\ Visiting /\ ~node[q].in /\ q \in Registry \ links
      /\ ~Drifted(q) /\ Fits(q, Wanted.allows)
      /\ Visited([NoNode EXCEPT !.in = TRUE, !.allows = Wanted.allows])
      /\ UNCHANGED tree

NativeNode(version, commit) ==
  [NoNode EXCEPT !.in = TRUE, !.allows = Wanted.allows, !.version = version, !.commit = commit]

(* findNativeSource: the commit is known, and here or not named by a version*)
ResolvePinned ==
  LET q == Wanted.pkg
      pinned == Pinned(q)
  IN  /\ Visiting /\ ~node[q].in /\ q \in Native \ links /\ ~NotLocked(q)
      /\ pinned.commit # NoCommit
      /\ pinned.version # None => pinned.version \in Wanted.allows
      /\ Ensure(q, pinned.version, pinned.commit, FALSE, pinned.commit)
      /\ Visited(NativeNode(pinned.version, pinned.commit))

(* The tags are listed; selectNativeVersion: what is asked for, else the   *)
(* highest that the requirement at hand allows                             *)
Selected(q, allowed) ==
  IF Pinned(q).version # None THEN Pinned(q).version ELSE Max(allowed)

ResolveListed ==
  LET q == Wanted.pkg
      allowed == {v \in Wanted.allows : tags[q][v] # NoCommit}
      version == Selected(q, allowed)
      expected == IF version = Pinned(q).version THEN Pinned(q).commit ELSE NoCommit
  IN  /\ Visiting /\ ~node[q].in /\ q \in Native \ links /\ ~NotLocked(q)
      /\ Pinned(q).version # None \/ Pinned(q).commit = NoCommit
      /\ allowed # {} /\ version \in allowed
      /\ \E commit \in Commits :
           /\ Ensure(q, version, expected, FALSE, commit)
           /\ Visited(NativeNode(version, commit))

(* Mutant: a further requirement is not held against the selected version. *)
RevisitUnchecked ==
  LET q == Wanted.pkg
      allows == node[q].allows \cap Wanted.allows
  IN  /\ Visiting /\ node[q].in
      /\ q \in Registry \ links => Fits(q, allows)
      /\ Visited([node[q] EXCEPT !.allows = allows])
      /\ UNCHANGED tree

(* validateNodeConstraints: a further requirement of the package           *)
Revisit ==
  LET q == Wanted.pkg
      allows == node[q].allows \cap Wanted.allows
  IN  /\ Visiting /\ node[q].in
      /\ q \in Native \ links /\ node[q].version # None => node[q].version \in Wanted.allows
      /\ q \in Registry \ links => Fits(q, allows)
      /\ Visited([node[q] EXCEPT !.allows = allows])
      /\ UNCHANGED tree

RefuseToResolve ==
  LET q == Wanted.pkg
  IN  /\ Visiting /\ ~node[q].in /\ q \notin links
      /\ (q \in Native /\ NotLocked(q)) \/ Drifted(q)
      /\ Goto("refused")
      /\ UNCHANGED <<world, files, lock, tree, holder, cmd, node, got, synced, bounds>>

-----------------------------------------------------------------------------
(* FilterDeps and computeReachable; SyncOrUpdateDeps adds what it is about.*)

InGraph == {q \in Packages : node[q].in}
Requested == C.float \cup {q \in Packages : C.target[q] # None}

Extra == IF C.kind = "build" THEN {} ELSE Requested \cup {q \in InGraph : PinDiffers(q)}

FetchNeeded ==
  IF C.named = {} THEN C.config \cap InGraph ELSE C.named \cap InGraph

Filter ==
  /\ At("resolve") /\ C.visit > Len(script)
  /\ Requested \subseteq InGraph
  /\ C.named \in {{}, Packages} \/ C.named \subseteq InGraph
  /\ cmd' = [cmd EXCEPT ![holder].needed =
               IF C.kind = "fetch" THEN FetchNeeded ELSE (C.config \cap InGraph) \cup Extra]
  /\ Goto("verify")
  /\ UNCHANGED <<world, files, lock, tree, holder, node, got, synced, bounds>>

VerifyLockBeforePrepare ==
  /\ At("verify")
  /\ Goto(IF \E q \in C.needed \ links : NotLocked(q) \/ Drifted(q) THEN "refused" ELSE "download")
  /\ UNCHANGED <<world, files, lock, tree, holder, cmd, node, got, synced, bounds>>

(* downloadRemoteSources: the version of q, and the commit it must be      *)
Version(q) ==
  LET t == Target(q)
  IN  CASE t \in Versions -> t
        [] t \in Commits -> None
        [] t = None /\ q \in Native -> node[q].version
        [] t = None /\ q \in Registry ->
             IF Locked(q) # NoEntry THEN Locked(q).version
             ELSE Max(Declares[head][q] \cap node[q].allows)

Expected(q) ==
  LET t == Target(q)
  IN  CASE t \in Commits -> t
        [] t \notin Commits /\ q \in Native -> node[q].commit
        [] t \notin Commits /\ q \in Registry ->
             IF Locked(q).version = Version(q) THEN Locked(q).commit ELSE NoCommit

Download ==
  /\ At("download")
  /\ \E q \in C.needed \ links, commit \in Commits :
       /\ got[q] = Nothing
       /\ Ensure(q, Version(q), Expected(q), Ignored(q), commit)
       /\ got' = [got EXCEPT ![q] = [version |-> Version(q), commit |-> commit]]
  /\ UNCHANGED <<world, files, lock, holder, pc, cmd, node, synced, bounds>>

-----------------------------------------------------------------------------
(* buildLockfile *)
Entry(q) ==
  CASE q \in links -> C.lock[q]
    [] q \notin links /\ got[q] # Nothing ->
         [version |-> got[q].version, commit |-> got[q].commit,
          wrapper |-> IF q \in Registry THEN head ELSE NoHead]
    [] q \notin links /\ got[q] = Nothing /\ node[q].in ->
         IF Locked(q) # NoEntry THEN Locked(q)
         ELSE [NoEntry EXCEPT !.version = node[q].version, !.commit = node[q].commit]
    [] q \notin links /\ ~node[q].in -> NoEntry

Updated == [q \in Packages |-> Entry(q)]
Downloaded == At("download") /\ \A q \in C.needed \ links : got[q] # Nothing

(* FetchDeps has made the trees, and compares or writes nothing.           *)
Fetched ==
  /\ Downloaded /\ C.kind = "fetch"
  /\ Goto("done")
  /\ UNCHANGED <<world, files, lock, tree, holder, cmd, node, got, synced, bounds>>

VerifyLocked ==
  /\ Downloaded /\ C.locked /\ C.kind = "build"
  /\ Goto(IF C.lock = Updated THEN "done" ELSE "refused")
  /\ UNCHANGED <<world, files, lock, tree, holder, cmd, node, got, synced, bounds>>

(* "update" was given a package that another command or the user has       *)
(* pinned since it looked at the pins.                                     *)
Overtaken == C.kind = "update" /\ \E q \in Requested : C.pins[q] # None

WriteLockfile ==
  /\ Downloaded /\ ~C.locked
  /\ lock' = Updated
  /\ Goto(IF C.kind = "pin" THEN "pins" ELSE "done")
  /\ synced' = CASE C.kind = "build" -> synced
                 [] C.kind = "pin" \/ Overtaken -> {}
                 [] C.kind \in {"sync", "update"} /\ ~Overtaken -> {C.config}
  /\ UNCHANGED <<world, files, tree, holder, cmd, node, got, bounds>>

SaveProjectPins ==
  /\ At("pins")
  /\ pins' = C.pins
  /\ synced' = {C.config}
  /\ Goto("done")
  /\ UNCHANGED <<world, script, links, lock, tree, holder, cmd, node, got, bounds>>

(* The command ends: it is done or refused, its scripts, patches or network*)
(* have failed, its requirements conflict, or it is killed.                *)
End ==
  /\ holder # Free
  /\ pc' = [pc EXCEPT ![holder] = "idle"] /\ cmd' = [cmd EXCEPT ![holder] = NoCommand]
  /\ holder' = Free
  /\ node' = [p \in Packages |-> NoNode] /\ got' = [p \in Packages |-> Nothing]
  /\ UNCHANGED <<world, files, lock, tree, synced, bounds>>

User == MoveTag \/ MoveHead \/ EditScript \/ EditPin \/ EditLink
Start(p) == Build(p) \/ Sync(p) \/ UpdateAll(p) \/ Update(p) \/ Pin(p) \/ Fetch(p) \/ Load(p)
Resolve ==
  ResolveLink \/ ResolveRegistry \/ ResolvePinned \/ ResolveListed \/ Revisit \/ RefuseToResolve
Prepare == Filter \/ VerifyLockBeforePrepare \/ Download
Record == Fetched \/ VerifyLocked \/ WriteLockfile \/ SaveProjectPins

Next == User \/ (\E p \in Procs : Start(p)) \/ Resolve \/ Prepare \/ Record \/ End
Spec == Init /\ [][Next]_vars

-----------------------------------------------------------------------------
(* A build with --locked, and "deps fetch", leave the lock file as it is,  *)
(* and what they make is exactly what the file names; the commit alone for *)
(* a fetched package whose pin names the commit of the locked version.     *)
LockedIsExact ==
  At("done") /\ C.locked =>
    /\ lock = C.lock
    /\ \A q \in C.needed \ links :
         /\ got[q].commit = lock[q].commit
         /\ got[q].version = lock[q].version \/ (C.kind = "fetch" /\ C.pins[q] = lock[q].commit)

(* Builds, "deps sync", and "deps update" and "deps pin" of other packages *)
(* keep the commit a package is locked to, unless its pin names another (a *)
(* bare "deps update" may change every commit); no command changes the     *)
(* entry of a linked package, and none drops one that a configuration does *)
(* not need.                                                               *)
EntriesStay ==
  At("done") =>
    \A q \in Packages :
      \/ C.lock[q] = NoEntry
      \/ IF q \in links THEN lock[q] = C.lock[q]
         ELSE \/ C.all \/ q \in Requested \/ PinDiffers(q) \/ ~node[q].in
              \/ lock[q].commit = C.lock[q].commit

(* What is built has a version that every requirement of it allows, and is *)
(* what the command, or else the pin, names.                               *)
SelectionIsAllowed ==
  At("done") =>
    \A q \in C.needed \ links :
      /\ got[q].version # None => got[q].version \in node[q].allows
      /\ Target(q) # None => Target(q) \in {got[q].version, got[q].commit}

(* "Run 'vmake deps sync' or 'vmake deps update'": after either, or "pin", *)
(* --locked does not refuse the configuration it was run for, as long as   *)
(* only tags change; the entry of a package that "sync" had no need of may *)
(* be older than the registry, and "fetch --all" may need one that has none.*)
SyncedIsLocked ==
  At("refused") /\ C.config \in synced /\ C.named = {} =>
    \E q \in Registry : lock[q].wrapper \notin {NoHead, head}

(***************************************************************************)
(* "deps status", from the same inputs as the command that runs.  A commit *)
(* that nothing names is the one of the tree, when no version is asked for.*)
(***************************************************************************)
Materialized(q) ==
  LET commit == IF C.pins[q] \in Commits THEN C.pins[q]
                ELSE IF PinDiffers(q) THEN NoCommit ELSE C.lock[q].commit
  IN  tree[q] # Nothing /\ commit = tree[q].commit

StatusOf(q) ==
  CASE q \in links -> "linked"
    [] q \notin links /\ C.lock[q] = NoEntry -> "unlocked"
    [] q \notin links /\ C.lock[q] # NoEntry /\ PinDiffers(q) -> "pin_mismatch"
    [] OTHER -> IF q \in Registry /\ C.lock[q].wrapper \notin {NoHead, head} THEN "wrapper_outdated"
                ELSE IF ~Materialized(q) THEN "missing"
                ELSE IF C.pins[q] # None THEN "pinned" ELSE "locked"

(* What "deps status" shows is what a build does then: it refuses --locked *)
(* only for packages that are unlocked or differ, and makes no tree of one *)
(* that is shown as locked or pinned.                                      *)
StatusIsTrue ==
  /\ At("verify") /\ C.locked =>
       ((\E q \in C.needed \ links : NotLocked(q) \/ Drifted(q)) <=>
        (\E q \in C.needed : StatusOf(q) \in {"unlocked", "pin_mismatch", "wrapper_outdated"}))
  /\ At("download") /\ C.kind \in {"build", "fetch", "sync"} =>
       \A q \in C.needed :
         StatusOf(q) \in {"locked", "pinned"} => Expected(q) = tree[q].commit

(* What the lock file is for: what --locked builds is what it names, after *)
(* a sync it is not refused, an entry changes by commands about its        *)
(* package only, "deps status" tells what a build then does, and what is   *)
(* built is what all requirements allow.                                   *)
LockIsKept ==
  LockedIsExact /\ SyncedIsLocked /\ EntriesStay /\ StatusIsTrue /\ SelectionIsAllowed

(* A command changes the pin of one package.                               *)
PinsAreKept == [][Cardinality({q \in Packages : pins'[q] # pins[q]}) <= 1]_pins

===============================================================================
