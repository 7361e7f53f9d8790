------------------------------ MODULE Extensions ------------------------------
(***************************************************************************)
(* Extension repositories (~/.vmake/extensions), the trust store           *)
(* (internal/truststore) and the toolchains that are installed from them   *)
(* (pkg/toolchain/install.go), used by several commands at once: "ext      *)
(* add|update|trust|untrust|remove|provision", and every other command,    *)
(* which loads the trusted extensions first and may install a toolchain    *)
(* when it needs it (a "build" here).                                      *)
(*                                                                         *)
(* A repository has one toolchain definition, whose archive is a Git LFS   *)
(* file: a pointer until it is pulled.  Package repositories are trusted   *)
(* in the same file under names of their own.  A command may be killed at  *)
(* every step, git, curl and tar may fail.                                 *)
(***************************************************************************)
EXTENDS Naturals, FiniteSets, Sequences

CONSTANTS
  Procs, Free,
  Names,        \* the sequence of names ListRepos gives
  MaxCommit,    \* commits of each upstream are 1..MaxCommit
  Summed,       \* the names whose definitions have a sha256
  MaxCommands,  \* bound: commands
  MaxKills      \* bound: kills

Exts == {Names[i] : i \in DOMAIN Names}
CommitsMade == 1..MaxCommit
None == 0

(* A version of a toolchain is defined by one commit, and its archive is   *)
(* that of the commit.                                                     *)
Defs == Exts \X CommitsMade

ExtensionAssumption ==
  /\ Free \notin Procs /\ Summed \subseteq Exts
  /\ MaxCommit \in Nat \ {0} /\ MaxCommands \in Nat /\ MaxKills \in Nat
  /\ Names \in Seq(Exts) /\ Names # <<>>
  /\ \A i, j \in DOMAIN Names : Names[i] = Names[j] => i = j

VARIABLES
  upstream,   \* the newest commit
  repo,       \* the clones
  trust,      \* trust.json: the records, names with commits
  writer,     \* who holds the lock of the trust store
  ex, sh,     \* who holds the lock of a repository, alone and shared
  installed,  \* the toolchain directories: the archive they were unpacked from
  installer,  \* who holds the lock of a toolchain version
  pc, task,
  commands, kills

store == <<trust, writer>>
clones == <<upstream, repo>>
locks == <<ex, sh>>
tools == <<installed, installer>>
bounds == <<commands, kills>>
extensionVars == <<clones, store, locks, tools, pc, task, bounds>>

NoClone == [there |-> FALSE, head |-> None, clean |-> FALSE, archive |-> None]
Damaged == [NoClone EXCEPT !.there = TRUE]
CloneAt(c) == [there |-> TRUE, head |-> c, clean |-> TRUE, archive |-> None]
NoTask ==
  [kind |-> "none", ext |-> Names[1], listed |-> {}, loaded |-> {}, def |-> None, stage |-> None,
   asks |-> FALSE, removes |-> FALSE, records |-> {}]

ExtensionInit ==
  /\ upstream = [e \in Exts |-> 1]
  /\ repo = [e \in Exts |-> NoClone]
  /\ trust = {} /\ writer = Free
  /\ ex = [e \in Exts |-> Free] /\ sh = [e \in Exts |-> {}]
  /\ installed = [d \in Defs |-> None] /\ installer = [d \in Defs |-> Free]
  /\ pc = [p \in Procs |-> "idle"] /\ task = [p \in Procs |-> NoTask]
  /\ commands = 0 /\ kills = 0

-----------------------------------------------------------------------------
T(p) == task[p]
E(p) == task[p].ext
Exists(e) == repo[e].there
Goto(p, place) == pc' = [pc EXCEPT ![p] = place]
Go(p, place, t) == Goto(p, place) /\ task' = [task EXCEPT ![p] = t]
Keep(p, place) == Goto(p, place) /\ UNCHANGED task

Push ==
  /\ \E e \in Exts : upstream[e] < MaxCommit /\ upstream' = [upstream EXCEPT ![e] = @ + 1]
  /\ UNCHANGED <<repo, store, locks, tools, pc, task, bounds>>

Command(p, place, t) ==
  /\ pc[p] = "idle" /\ commands < MaxCommands /\ commands' = commands + 1
  /\ Go(p, place, t)
  /\ UNCHANGED <<clones, store, locks, tools, kills>>

Build(p) ==
  Command(p, "load", [NoTask EXCEPT !.kind = "build", !.listed = {e \in Exts : Exists(e)}])
Start(p, kind, asks) == \E e \in Exts :
  Command(p, "lock", [NoTask EXCEPT !.kind = kind, !.ext = e, !.asks = asks])
Add(p) == \E trusted \in BOOLEAN : Start(p, "add", trusted)
Update(p) == Start(p, "update", FALSE)
Trust(p) == Start(p, "trust", FALSE)
Untrust(p) == Start(p, "untrust", FALSE)
RemoveExtension(p) == Start(p, "remove", FALSE)
Provision(p) == \E e \in Exts :
  Exists(e) /\ Command(p, "share", [NoTask EXCEPT !.kind = "provision", !.ext = e])

-----------------------------------------------------------------------------
(* Commands that change a repository or its trust hold its lock alone.     *)

LockRepo(p) ==
  /\ pc[p] = "lock" /\ ex[E(p)] = Free /\ sh[E(p)] = {}
  /\ ex' = [ex EXCEPT ![E(p)] = p]
  /\ Keep(p, IF T(p).kind = "untrust" THEN "store" ELSE T(p).kind)
  /\ UNCHANGED <<clones, store, sh, tools, bounds>>

(* A failed clone is removed.                                              *)
Clone(p) ==
  /\ pc[p] = "add" /\ ~Exists(E(p))
  /\ \/ repo' = [repo EXCEPT ![E(p)] = CloneAt(upstream[E(p)])]
        /\ Keep(p, "unlock")
     \/ UNCHANGED repo /\ Go(p, "unlock", [T(p) EXCEPT !.asks = FALSE])
  /\ UNCHANGED <<upstream, store, locks, tools, bounds>>

AlreadyThere(p) ==
  /\ pc[p] = "add" /\ Exists(E(p))
  /\ Go(p, "unlock", [T(p) EXCEPT !.asks = FALSE])
  /\ UNCHANGED <<clones, store, locks, tools, bounds>>

(* git pull: it may fail, having changed nothing or some of the files.  New*)
(* archives come as pointers.  Where no repository is, the command fails,  *)
(* and its trust goes all the same.                                        *)
Pulled(e) ==
  {repo[e], [repo[e] EXCEPT !.clean = FALSE]} \cup
  IF repo[e].head # None /\ repo[e].head # upstream[e]
  THEN {CloneAt(upstream[e])} ELSE {}

UpdateRepoLocked(p) ==
  /\ pc[p] = "update"
  /\ \E r \in Pulled(E(p)) :
       /\ repo' = [repo EXCEPT ![E(p)] = r]
       /\ IF r.head = None \/ r.head # repo[E(p)].head
          THEN Go(p, "store", [T(p) EXCEPT !.removes = TRUE])
          ELSE Keep(p, "unlock")
  /\ UNCHANGED <<upstream, store, locks, tools, bounds>>

RemoveRepo(p) ==
  /\ pc[p] = "remove" /\ Exists(E(p))
  /\ repo' = [repo EXCEPT ![E(p)] = NoClone]
  /\ Go(p, "store", [T(p) EXCEPT !.removes = TRUE])
  /\ UNCHANGED <<upstream, store, locks, tools, bounds>>

(* The repository is gone, or not what can be trusted.                     *)
Refuse(p) ==
  /\ \/ pc[p] = "remove" /\ ~Exists(E(p))
     \/ pc[p] = "trust" /\ ~repo[E(p)].clean
  /\ Keep(p, "unlock")
  /\ UNCHANGED <<clones, store, locks, tools, bounds>>

(* extensionTrustCommit *)
TrustCommit(p) ==
  /\ pc[p] = "trust" /\ repo[E(p)].clean
  /\ Go(p, "store", [T(p) EXCEPT !.def = repo[E(p)].head])
  /\ UNCHANGED <<clones, store, locks, tools, bounds>>

(* Mutant: the store is read and written without its lock.                 *)
LockStoreNot(p) ==
  /\ pc[p] = "store"
  /\ Go(p, "save", [T(p) EXCEPT !.records = trust])
  /\ UNCHANGED <<clones, store, locks, tools, bounds>>

(* Store.update: load, mutate and save, under the lock of the store        *)
LockStore(p) ==
  /\ pc[p] = "store" /\ writer = Free
  /\ writer' = p
  /\ Go(p, "save", [T(p) EXCEPT !.records = trust])
  /\ UNCHANGED <<clones, trust, locks, tools, bounds>>

SaveStore(p) ==
  /\ pc[p] = "save"
  /\ trust' = IF T(p).kind \in {"add", "trust"} THEN T(p).records \cup {<<E(p), T(p).def>>}
              ELSE {r \in T(p).records : r[1] # E(p)}
  /\ writer' = Free
  /\ Keep(p, "unlock")
  /\ UNCHANGED <<clones, locks, tools, bounds>>

(* "ext add" lets go of the lock before it asks and trusts.                *)
UnlockRepo(p) ==
  /\ pc[p] = "unlock"
  /\ ex' = [ex EXCEPT ![E(p)] = Free]
  /\ IF T(p).asks THEN Go(p, "lock", [T(p) EXCEPT !.kind = "trust", !.asks = FALSE])
     ELSE Go(p, "idle", NoTask)
  /\ UNCHANGED <<clones, store, sh, tools, bounds>>

(* The store cannot be read or written: it is reported, and that is all.   *)
StoreFails(p) ==
  /\ pc[p] = "save" /\ writer' = Free
  /\ Keep(p, "unlock")
  /\ UNCHANGED <<clones, trust, locks, tools, bounds>>

-----------------------------------------------------------------------------
(* loadPlugins: one repository after the other, those whose clean HEAD is  *)
(* trusted stay locked to the end of the command.                          *)

(* The order of ListRepos                                                  *)
First(e, listed) ==
  e \in listed /\ \E i \in DOMAIN Names : Names[i] = e /\ \A j \in 1..(i - 1) : Names[j] \notin listed

ShareRepo(p) ==
  /\ \/ \E e \in Exts :
          /\ pc[p] = "load" /\ First(e, T(p).listed) /\ ex[e] = Free
          /\ sh' = [sh EXCEPT ![e] = @ \cup {p}]
          /\ Go(p, "verify", [T(p) EXCEPT !.ext = e, !.listed = @ \ {e}])
     \/ pc[p] = "share" /\ ex[E(p)] = Free
        /\ sh' = [sh EXCEPT ![E(p)] = @ \cup {p}]
        /\ Keep(p, "verify")
  /\ UNCHANGED <<clones, store, ex, tools, bounds>>

(* Mutant: a clean checkout is taken to be trusted.                        *)
TrustedIfClean(e) == repo[e].clean

Trusted(e) == repo[e].clean /\ <<e, repo[e].head>> \in trust
Unshare(p, e) == sh' = [sh EXCEPT ![e] = @ \ {p}]

Verify(p) ==
  /\ pc[p] = "verify" /\ writer = Free /\ T(p).kind = "build"
  /\ IF Trusted(E(p))
     THEN /\ Go(p, "load", [T(p) EXCEPT !.loaded = @ \cup {<<E(p), repo[E(p)].head>>}])
          /\ UNCHANGED sh
     ELSE Keep(p, "load") /\ Unshare(p, E(p))
  /\ UNCHANGED <<clones, store, ex, tools, bounds>>

(* "ext provision" scans the definitions and lets go of the lock.          *)
Scan(p) ==
  /\ pc[p] = "verify" /\ writer = Free /\ T(p).kind = "provision"
  /\ IF Trusted(E(p)) THEN Go(p, "install", [T(p) EXCEPT !.def = repo[E(p)].head])
     ELSE Keep(p, "end")
  /\ Unshare(p, E(p))
  /\ UNCHANGED <<clones, store, ex, tools, bounds>>

(* SelectToolchain: installed already, or OnMissing installs it; or the    *)
(* build needs no toolchain of an extension.                               *)
SelectToolchain(p) ==
  /\ pc[p] = "load" /\ T(p).listed = {}
  /\ \/ Keep(p, "end")
     \/ \E d \in T(p).loaded :
          Go(p, IF installed[d] # None THEN "end" ELSE "install",
             [T(p) EXCEPT !.ext = d[1], !.def = d[2]])
  /\ UNCHANGED <<clones, store, locks, tools, bounds>>

-----------------------------------------------------------------------------
(* toolchain.Install *)

D(p) == <<E(p), T(p).def>>

LockToolchain(p) ==
  /\ pc[p] = "install" /\ installer[D(p)] = Free
  /\ IF installed[D(p)] # None THEN Keep(p, "end") /\ UNCHANGED installer
     ELSE Keep(p, "pull") /\ installer' = [installer EXCEPT ![D(p)] = p]
  /\ UNCHANGED <<clones, store, locks, installed, bounds>>

Unlocked(p) == installer' = [installer EXCEPT ![D(p)] = Free]

(* materializeToolchainAsset: what the checkout names by then.  A damaged  *)
(* or removed repository has no archive.                                   *)
Materialize(p) ==
  /\ pc[p] = "pull" /\ repo[E(p)].head # None
  /\ repo' = [repo EXCEPT ![E(p)].archive = IF @ = None THEN repo[E(p)].head ELSE @]
  /\ Keep(p, "sum")
  /\ UNCHANGED <<upstream, store, locks, tools, bounds>>

VerifyArchive(p) ==
  /\ pc[p] = "sum"
  /\ E(p) \in Summed => repo[E(p)].archive = T(p).def
  /\ Keep(p, "extract")
  /\ UNCHANGED <<clones, store, locks, tools, bounds>>

Extract(p) ==
  /\ pc[p] = "extract" /\ repo[E(p)].archive # None
  /\ Go(p, "publish", [T(p) EXCEPT !.stage = repo[E(p)].archive])
  /\ UNCHANGED <<clones, store, locks, tools, bounds>>

(* A step of the installation fails.  The staging directory is removed.    *)
Fail(p) ==
  /\ pc[p] \in {"pull", "sum", "extract", "publish"}
  /\ Unlocked(p) /\ Keep(p, "end")
  /\ UNCHANGED <<clones, store, locks, installed, bounds>>

Publish(p) ==
  /\ pc[p] = "publish"
  /\ installed' = [installed EXCEPT ![D(p)] = T(p).stage]
  /\ Unlocked(p) /\ Keep(p, "end")
  /\ UNCHANGED <<clones, store, locks, bounds>>

End(p) ==
  /\ pc[p] = "end"
  /\ sh' = [e \in Exts |-> sh[e] \ {p}]
  /\ Go(p, "idle", NoTask)
  /\ UNCHANGED <<clones, store, ex, tools, bounds>>

(* The operating system drops the locks.  git dies with the command that   *)
(* runs it, and RemoveAll may have begun.                                  *)
Kill(p) ==
  /\ pc[p] # "idle" /\ kills < MaxKills /\ kills' = kills + 1
  /\ \/ /\ \/ pc[p] = "add" /\ ~Exists(E(p))
           \/ pc[p] \in {"remove", "update"} /\ Exists(E(p))
        /\ \/ repo' = [repo EXCEPT ![E(p)] = Damaged]
           \/ pc[p] # "add" /\ repo' = [repo EXCEPT ![E(p)].clean = FALSE]
     \/ UNCHANGED repo
  /\ ex' = [e \in Exts |-> IF ex[e] = p THEN Free ELSE ex[e]]
  /\ sh' = [e \in Exts |-> sh[e] \ {p}]
  /\ writer' = IF writer = p THEN Free ELSE writer
  /\ installer' = [d \in Defs |-> IF installer[d] = p THEN Free ELSE installer[d]]
  /\ Go(p, "idle", NoTask)
  /\ UNCHANGED <<upstream, trust, installed, commands>>

Change(p) ==
  \/ LockRepo(p) \/ Clone(p) \/ AlreadyThere(p) \/ UpdateRepoLocked(p) \/ RemoveRepo(p)
  \/ Refuse(p) \/ TrustCommit(p) \/ LockStore(p) \/ SaveStore(p) \/ StoreFails(p)
  \/ UnlockRepo(p)
Load(p) == ShareRepo(p) \/ Verify(p) \/ Scan(p) \/ SelectToolchain(p)
Install(p) ==
  \/ LockToolchain(p) \/ Materialize(p) \/ VerifyArchive(p) \/ Extract(p) \/ Fail(p)
  \/ Publish(p) \/ End(p)
Begin(p) ==
  \/ Build(p) \/ Add(p) \/ Update(p) \/ Trust(p) \/ Untrust(p) \/ RemoveExtension(p)
  \/ Provision(p)

ExtensionNext == Push \/ \E p \in Procs : Begin(p) \/ Change(p) \/ Load(p) \/ Install(p) \/ Kill(p)
ExtensionSpec == ExtensionInit /\ [][ExtensionNext]_extensionVars

-----------------------------------------------------------------------------
(* What a command has loaded stays at the commit whose trust it checked,   *)
(* until it ends (LockRepo: "the checked commit cannot change underneath   *)
(* the loader"), and no "untrust" or update comes in between.              *)
LoadedStays ==
  \A p \in Procs : \A d \in T(p).loaded :
    repo[d[1]].clean /\ repo[d[1]].head = d[2] /\ d \in trust

(* A record appears and goes only by a command about its own name, whoever *)
(* else changes the store at the same time.                                *)
RecordsChangeAlone ==
  [][\A r \in (trust \ trust') \cup (trust' \ trust) :
       \E p \in Procs : pc[p] = "save" /\ pc'[p] # "save" /\ E(p) = r[1]]_trust

(* A directory where toolchains are looked for is whole whatever is killed *)
(* and whoever else installs it, and a build installs the archive of the   *)
(* commit that defines the toolchain, although the archive is pulled,      *)
(* checked and unpacked in separate steps while others update, remove and  *)
(* add the repository.  ("ext provision" has let go of the repository by   *)
(* then, and is left out of the second part.)                              *)
ToolchainIsWhole ==
  /\ \A d \in Defs : installed[d] \in CommitsMade \cup {None}
  /\ \A p \in Procs : pc[p] = "publish" /\ T(p).kind = "build" => T(p).stage = T(p).def

(* What every other command relies on when it loads extensions             *)
(* (loadPlugins, toolchain.Install).                                       *)
ExtensionsAreSound == LoadedStays /\ ToolchainIsWhole
=============================================================================
