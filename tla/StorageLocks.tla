---------------------------- MODULE StorageLocks ----------------------------
(***************************************************************************)
(* The file locks of concurrent vmake processes on one user directory      *)
(* (internal/flock, internal/storage/session.go and their users).          *)
(*                                                                         *)
(* A command opens a session: it locks its project, always exclusively,    *)
(* then the lifecycle of the user directory, shared to build and exclusive *)
(* to clean up.  While it resolves, it takes the package repositories it   *)
(* meets in shared mode and keeps them; then it takes all package owners   *)
(* at once, in the order of their names, and seals the session.  A source  *)
(* tree is locked while it is ensured, and the object cache it is filled   *)
(* from inside that.  Repository updates take one repository exclusively.  *)
(* A process may be cancelled in any wait and killed at any moment; the    *)
(* operating system then drops its locks.                                  *)
(***************************************************************************)
EXTENDS Naturals, FiniteSets

CONSTANTS
  Procs,        \* vmake processes
  Projects,     \* a project stands for its .vmake/_locks/project.lock
  Owners,       \* an owner stands for _locks/owner_<hash>.lock
  Repos,        \* a repository stands for _locks/repo_<hash>.lock
  Trees,        \* a tree key stands for _locks/tree_<hash>.lock
  Caches,       \* a remote stands for _locks/cache_<hash>.lock
  Lifecycle,    \* _locks/lifecycle.lock
  NoLock,       \* "waits for nothing"
  NoProject,    \* a command outside of any project
  Rank,         \* [Owners -> Nat]: the order of the owners' names
  MaxSteps      \* bound: operations all processes together start

Locks == Projects \cup Owners \cup Repos \cup Trees \cup Caches \cup {Lifecycle}
Modes == {"none", "shared", "exclusive"}

ASSUME LocksAssumption ==
  /\ IsFiniteSet(Procs)
  /\ Rank \in [Owners -> Nat]
  /\ \A o1, o2 \in Owners : Rank[o1] = Rank[o2] => o1 = o2
  /\ Projects \cap (Owners \cup Repos \cup Trees \cup Caches) = {}
  /\ Owners \cap (Repos \cup Trees \cup Caches) = {}
  /\ Repos \cap (Trees \cup Caches) = {} /\ Trees \cap Caches = {}
  /\ Lifecycle \notin Projects \cup Owners \cup Repos \cup Trees \cup Caches
  /\ NoProject \notin Projects /\ NoLock \notin Locks
  /\ MaxSteps \in Nat

VARIABLES
  pc,           \* [Procs -> where the process stands]
  held,         \* [Procs -> [Locks -> mode]]: what the operating system granted
  project,      \* [Procs -> Projects \cup {NoProject}]
  exclusive,    \* Session.exclusive
  owners,       \* Session.owners
  sealed,       \* Session.sealed
  todo,         \* owners AcquireOwnersContext has still to lock
  want,         \* the repository, tree or cache a process waits for
  steps

session == <<project, exclusive, owners, sealed, todo>>
vars == <<pc, held, session, want, steps>>

-----------------------------------------------------------------------------
Held(p) == {l \in Locks : held[p][l] # "none"}

(* flock(2): shared excludes exclusive, exclusive excludes all. *)
Grantable(p, l, mode) ==
  \A q \in Procs \ {p} :
    held[q][l] = "none" \/ (held[q][l] = "shared" /\ mode = "shared")

Grant(p, l, mode) == held' = [held EXCEPT ![p][l] = mode]
Drop(p, l) == held' = [held EXCEPT ![p][l] = "none"]
Goto(p, place) == pc' = [pc EXCEPT ![p] = place]

LifecycleMode(p) == IF exclusive[p] THEN "exclusive" ELSE "shared"

(* Mutant: the owners are not sorted. *)
NextOwnerUnsorted(p, o) == o \in todo[p]

(* The next owner AcquireOwnersContext locks. *)
NextOwner(p, o) == o \in todo[p] /\ \A r \in todo[p] : Rank[o] <= Rank[r]

(* Session.Close releases in the opposite order; the resolver has dropped  *)
(* its repositories, and scoped locks are dropped as the calls return.     *)
NextRelease(p, l) ==
  /\ l \in Held(p)
  /\ Held(p) \cap Caches # {} => l \in Caches
  /\ Held(p) \cap (Caches \cup Trees) # {} => l \in Caches \cup Trees
  /\ l \notin Caches \cup Trees \cup Repos =>
       /\ Held(p) \cap Repos = {}
       /\ l \in Owners => \A o \in Owners \cap Held(p) : Rank[o] <= Rank[l]
       /\ l = Lifecycle => Held(p) \cap Owners = {}
       /\ l \in Projects => Held(p) \cap (Owners \cup {Lifecycle}) = {}

Step == steps < MaxSteps /\ steps' = steps + 1

-----------------------------------------------------------------------------
Init ==
  /\ pc = [p \in Procs |-> "idle"]
  /\ held = [p \in Procs |-> [l \in Locks |-> "none"]]
  /\ project = [p \in Procs |-> NoProject]
  /\ exclusive = [p \in Procs |-> FALSE]
  /\ owners = [p \in Procs |-> {}]
  /\ sealed = [p \in Procs |-> FALSE]
  /\ todo = [p \in Procs |-> {}]
  /\ want = [p \in Procs |-> NoLock]
  /\ steps = 0

(* AcquireContext: a fresh session *)
Open(p, proj, excl) ==
  /\ pc[p] = "idle" /\ Step
  /\ project' = [project EXCEPT ![p] = proj]
  /\ exclusive' = [exclusive EXCEPT ![p] = excl]
  /\ owners' = [owners EXCEPT ![p] = {}]
  /\ sealed' = [sealed EXCEPT ![p] = FALSE]
  /\ Goto(p, IF proj = NoProject THEN "lifecycle" ELSE "project")
  /\ UNCHANGED <<held, todo, want>>

LockProject(p) ==
  /\ pc[p] = "project"
  /\ Grantable(p, project[p], "exclusive")
  /\ Grant(p, project[p], "exclusive")
  /\ Goto(p, "lifecycle")
  /\ UNCHANGED <<session, want, steps>>

LockLifecycle(p) ==
  /\ pc[p] = "lifecycle"
  /\ Grantable(p, Lifecycle, LifecycleMode(p))
  /\ Grant(p, Lifecycle, LifecycleMode(p))
  /\ Goto(p, "open")
  /\ UNCHANGED <<session, want, steps>>

(* Mutant: a failed acquisition ends the command without Session.Close. *)
AcquireFailsUnclosed(p) ==
  /\ pc[p] \in {"project", "lifecycle", "repo", "tree", "cache"}
  /\ Goto(p, "idle")
  /\ want' = [want EXCEPT ![p] = NoLock]
  /\ UNCHANGED <<held, session, steps>>

(* acquire returns an error: the context is done before the try, after a   *)
(* successful one, or in the wait between two.  The command gives up.      *)
AcquireFails(p) ==
  /\ pc[p] \in {"project", "lifecycle", "repo", "tree", "cache"}
  /\ Goto(p, "closing")
  /\ want' = [want EXCEPT ![p] = NoLock]
  /\ UNCHANGED <<held, session, steps>>

(* AcquireOwnersContext: a sealed session only checks.                     *)
CallOwners(p, names) ==
  /\ pc[p] = "open" /\ Step
  /\ IF sealed[p]
     THEN /\ Goto(p, IF names \subseteq owners[p] THEN "open" ELSE "closing")
          /\ UNCHANGED todo
     ELSE /\ Goto(p, "owners")
          /\ todo' = [todo EXCEPT ![p] = names]
  /\ UNCHANGED <<held, project, exclusive, owners, sealed, want>>

LockOwner(p, o) ==
  /\ pc[p] = "owners" /\ NextOwner(p, o)
  /\ Grantable(p, o, "exclusive")
  /\ Grant(p, o, "exclusive")
  /\ owners' = [owners EXCEPT ![p] = @ \cup {o}]
  /\ todo' = [todo EXCEPT ![p] = @ \ {o}]
  /\ UNCHANGED <<pc, project, exclusive, sealed, want, steps>>

SealOwners(p) ==
  /\ pc[p] = "owners" /\ todo[p] = {}
  /\ sealed' = [sealed EXCEPT ![p] = TRUE]
  /\ Goto(p, "open")
  /\ UNCHANGED <<held, project, exclusive, owners, todo, want, steps>>

(* One owner cannot be locked: those locked before it are released again,  *)
(* last first, and forgotten.                                              *)
OwnersFail(p) ==
  /\ pc[p] = "owners" /\ todo[p] # {}
  /\ todo' = [todo EXCEPT ![p] = {}]
  /\ Goto(p, "undo")
  /\ UNCHANGED <<held, project, exclusive, owners, sealed, want, steps>>

UndoOwner(p, o) ==
  /\ pc[p] = "undo" /\ o \in Owners \cap Held(p)
  /\ \A r \in Owners \cap Held(p) : Rank[r] <= Rank[o]
  /\ Drop(p, o)
  /\ UNCHANGED <<pc, session, want, steps>>

(* Mutant: the released owners stay in the map. *)
UndoneKeepingOwners(p) ==
  /\ pc[p] = "undo" /\ Owners \cap Held(p) = {}
  /\ Goto(p, "open")
  /\ UNCHANGED <<owners, held, project, exclusive, sealed, todo, want, steps>>

Undone(p) ==
  /\ pc[p] = "undo" /\ Owners \cap Held(p) = {}
  /\ owners' = [owners EXCEPT ![p] = {}]
  /\ Goto(p, "open")
  /\ UNCHANGED <<held, project, exclusive, sealed, todo, want, steps>>

(* Resolver.findSource: the first package of a repository locks it, shared,*)
(* until the resolver is closed.  Resolution is over when owners are taken.*)
CallRepo(p, r) ==
  /\ pc[p] = "open" /\ ~sealed[p] /\ held[p][r] = "none" /\ Step
  /\ want' = [want EXCEPT ![p] = r]
  /\ Goto(p, "repo")
  /\ UNCHANGED <<held, session>>

LockRepo(p) ==
  /\ pc[p] = "repo"
  /\ Grantable(p, want[p], "shared")
  /\ Grant(p, want[p], "shared")
  /\ want' = [want EXCEPT ![p] = NoLock]
  /\ Goto(p, "open")
  /\ UNCHANGED <<session, steps>>

(* EnsureSource: the tree, and the cache inside it.                        *)
CallTree(p, t) ==
  /\ pc[p] = "open" /\ Step
  /\ want' = [want EXCEPT ![p] = t]
  /\ Goto(p, "tree")
  /\ UNCHANGED <<held, session>>

LockTree(p) ==
  /\ pc[p] = "tree"
  /\ Grantable(p, want[p], "exclusive")
  /\ Grant(p, want[p], "exclusive")
  /\ want' = [want EXCEPT ![p] = NoLock]
  /\ Goto(p, "inTree")
  /\ UNCHANGED <<session, steps>>

(* ObjectCache.withLock, from EnsureSource or from cache remove.           *)
CallCache(p, c) ==
  /\ pc[p] \in {"inTree", "open"} /\ Step
  /\ want' = [want EXCEPT ![p] = c]
  /\ Goto(p, "cache")
  /\ UNCHANGED <<held, session>>

LockCache(p) ==
  /\ pc[p] = "cache"
  /\ Grantable(p, want[p], "exclusive")
  /\ Grant(p, want[p], "exclusive")
  /\ want' = [want EXCEPT ![p] = NoLock]
  /\ Goto(p, "inCache")
  /\ UNCHANGED <<session, steps>>

LeaveCache(p, c) ==
  /\ pc[p] = "inCache" /\ c \in Caches \cap Held(p)
  /\ Drop(p, c)
  /\ Goto(p, IF Held(p) \cap Trees # {} THEN "inTree" ELSE "open")
  /\ UNCHANGED <<session, want, steps>>

LeaveTree(p, t) ==
  /\ pc[p] = "inTree" /\ t \in Trees \cap Held(p)
  /\ Drop(p, t)
  /\ Goto(p, "open")
  /\ UNCHANGED <<session, want, steps>>

(* Resolver.Close, Session.Close *)
Close(p) ==
  /\ pc[p] = "open"
  /\ Goto(p, "closing")
  /\ UNCHANGED <<held, session, want, steps>>

Release(p, l) ==
  /\ pc[p] = "closing" /\ NextRelease(p, l)
  /\ Drop(p, l)
  /\ UNCHANGED <<pc, session, want, steps>>

Closed(p) ==
  /\ pc[p] = "closing" /\ Held(p) = {}
  /\ Goto(p, "idle")
  /\ UNCHANGED <<held, session, want, steps>>

(* RepoManager.Lock(name, true): update, trust or removal of a repository. *)
CallUpdate(p, r) ==
  /\ pc[p] = "idle" /\ Step
  /\ want' = [want EXCEPT ![p] = r]
  /\ Goto(p, "update")
  /\ UNCHANGED <<held, session>>

(* Mutant: an update locks like a read. *)
LockUpdateShared(p) ==
  /\ pc[p] = "update"
  /\ Grantable(p, want[p], "shared")
  /\ Grant(p, want[p], "shared")
  /\ Goto(p, "inUpdate")
  /\ UNCHANGED <<session, want, steps>>

LockUpdate(p) ==
  /\ pc[p] = "update"
  /\ Grantable(p, want[p], "exclusive")
  /\ Grant(p, want[p], "exclusive")
  /\ Goto(p, "inUpdate")
  /\ UNCHANGED <<session, want, steps>>

(* Mutant: the lock of an update is not released. *)
LeaveUpdateLocked(p) ==
  /\ pc[p] = "inUpdate"
  /\ want' = [want EXCEPT ![p] = NoLock]
  /\ Goto(p, "idle")
  /\ UNCHANGED <<held, session, steps>>

LeaveUpdate(p) ==
  /\ pc[p] = "inUpdate"
  /\ Drop(p, want[p])
  /\ want' = [want EXCEPT ![p] = NoLock]
  /\ Goto(p, "idle")
  /\ UNCHANGED <<session, steps>>

(* The process is killed. *)
Kill(p) ==
  /\ pc[p] # "idle"
  /\ held' = [held EXCEPT ![p] = [l \in Locks |-> "none"]]
  /\ todo' = [todo EXCEPT ![p] = {}]
  /\ want' = [want EXCEPT ![p] = NoLock]
  /\ Goto(p, "idle")
  /\ UNCHANGED <<project, exclusive, owners, sealed, steps>>

Rest ==
  /\ steps = MaxSteps /\ \A p \in Procs : pc[p] = "idle"
  /\ UNCHANGED vars

-----------------------------------------------------------------------------
(* What a command chooses to do next *)
CallStep(p) ==
  \/ \E proj \in Projects \cup {NoProject}, excl \in BOOLEAN : Open(p, proj, excl)
  \/ \E names \in SUBSET Owners : CallOwners(p, names)
  \/ \E r \in Repos : CallRepo(p, r) \/ CallUpdate(p, r)
  \/ \E t \in Trees : CallTree(p, t)
  \/ \E c \in Caches : CallCache(p, c)

(* How a call goes on *)
LockStep(p) ==
  \/ LockProject(p) \/ LockLifecycle(p)
  \/ \E o \in Owners : LockOwner(p, o)
  \/ SealOwners(p)
  \/ LockRepo(p) \/ LockTree(p) \/ LockCache(p) \/ LockUpdate(p)

ReturnStep(p) ==
  \/ \E o \in Owners : UndoOwner(p, o)
  \/ Undone(p)
  \/ \E c \in Caches : LeaveCache(p, c)
  \/ \E t \in Trees : LeaveTree(p, t)
  \/ LeaveUpdate(p)
  \/ Close(p)
  \/ \E l \in Locks : Release(p, l)
  \/ Closed(p)

FailStep(p) == AcquireFails(p) \/ OwnersFail(p) \/ Kill(p)

ProcStep(p) == CallStep(p) \/ LockStep(p) \/ ReturnStep(p) \/ FailStep(p)
Next == (\E p \in Procs : ProcStep(p)) \/ Rest

Spec == Init /\ [][Next]_vars

(* A lock that stays free is taken (the retry every 25 ms), and a command  *)
(* that has what it needs goes on and ends.                                *)
FairSpec ==
  /\ Spec
  /\ \A p \in Procs : WF_vars(LockStep(p)) /\ WF_vars(ReturnStep(p))

-----------------------------------------------------------------------------
(* Properties *)

Places ==
  {"idle", "project", "lifecycle", "open", "owners", "undo", "repo", "tree", "inTree",
   "cache", "inCache", "closing", "update", "inUpdate"}

(* Every variable holds a value of its kind. *)
TypeOK ==
  /\ pc \in [Procs -> Places]
  /\ held \in [Procs -> [Locks -> Modes]]
  /\ project \in [Procs -> Projects \cup {NoProject}]
  /\ exclusive \in [Procs -> BOOLEAN]
  /\ owners \in [Procs -> SUBSET Owners]
  /\ sealed \in [Procs -> BOOLEAN]
  /\ todo \in [Procs -> SUBSET Owners]
  /\ want \in [Procs -> Repos \cup Trees \cup Caches \cup {NoLock}]
  /\ steps \in 0..MaxSteps

(* The places where a command works under its session. *)
InSession(p) == pc[p] \in {"open", "owners", "undo", "repo", "tree", "inTree", "cache", "inCache"}

(* Two commands never work in one project; while an exclusive command      *)
(* works (clean, update, sync, cache removal), no other command works in   *)
(* the user directory at all (DD: project lock, lifecycle lock).           *)
CommandsExclude ==
  \A p, q \in Procs : p # q /\ InSession(p) /\ InSession(q) =>
    /\ project[p] = project[q] => project[p] = NoProject
    /\ ~exclusive[p] /\ ~exclusive[q]

(* What a sealed session believes it owns is locked by it, exclusively, in *)
(* the face of failed acquisitions and retries: no two sealed sessions own *)
(* the same package (AcquireOwnersContext).                                *)
OwnersAreHeld ==
  /\ \A p \in Procs : InSession(p) /\ sealed[p] => \A o \in owners[p] : held[p][o] = "exclusive"
  /\ \A p, q \in Procs : p # q /\ InSession(p) /\ InSession(q) /\ sealed[p] /\ sealed[q] =>
       owners[p] \cap owners[q] = {}

(* What a session relies on: it is apart from those of other commands, and *)
(* has what it counts as its own (storage.Session).                        *)
SessionsExclude == CommandsExclude /\ OwnersAreHeld

(* The lock p waits for, and q has it. *)
AwaitedLocks(p) ==
  CASE pc[p] = "project" -> {project[p]}
    [] pc[p] = "lifecycle" -> {Lifecycle}
    [] pc[p] = "owners" -> {o \in Owners : NextOwner(p, o)}
    [] pc[p] \in {"repo", "tree", "cache", "update"} -> {want[p]}
    [] OTHER -> {}
AwaitedMode(p) ==
  CASE pc[p] = "lifecycle" -> LifecycleMode(p)
    [] pc[p] = "repo" -> "shared"
    [] OTHER -> "exclusive"
BlockedBy(p, q) ==
  /\ p # q /\ AwaitedLocks(p) # {}
  /\ \A l \in AwaitedLocks(p) :
       ~(held[q][l] = "none" \/ (held[q][l] = "shared" /\ AwaitedMode(p) = "shared"))

(* No set of processes waits for locks held within the set: the order      *)
(* project, lifecycle, repository, owners by name, tree, cache is kept by  *)
(* every command.                                                          *)
NoDeadlock ==
  \A S \in (SUBSET Procs) \ {{}} : \E p \in S : \A q \in S : ~BlockedBy(p, q)

(* A repository is never updated while some resolution has read from it    *)
(* and still works with what it read, nor is it updated twice at a time.   *)
UpdatesExclude ==
  \A p, q \in Procs : p # q /\ pc[p] = "inUpdate" =>
    /\ held[q][want[p]] = "none"
    /\ pc[q] = "inUpdate" => want[q] # want[p]

(* When a session ends, by whatever error, nothing of it stays locked: an  *)
(* idle process holds nothing, and outside the scope of a tree or a cache  *)
(* no such lock is left behind.                                            *)
NothingLeaks ==
  \A p \in Procs :
    /\ pc[p] \in {"idle", "project", "update"} => Held(p) = {}
    /\ pc[p] = "lifecycle" => Held(p) \subseteq Projects
    /\ pc[p] \in {"open", "repo", "tree"} /\ ~sealed[p] => Held(p) \cap Owners = {}
    /\ pc[p] \in {"open", "owners", "undo", "repo"} => Held(p) \cap (Trees \cup Caches) = {}
    /\ pc[p] \in {"inTree", "cache"} => Held(p) \cap Caches = {}

(* Every wait for a lock ends, in the lock or in an error, once the others *)
(* stop coming back for it.                                                *)
WaitsEnd ==
  \A p \in Procs : (AwaitedLocks(p) # {}) ~> (AwaitedLocks(p) = {})

=============================================================================
