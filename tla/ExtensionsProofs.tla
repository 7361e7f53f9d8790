--------------------------- MODULE ExtensionsProofs ---------------------------
(***************************************************************************)
(* Proofs about Extensions, for any processes, repositories and commits,   *)
(* about ToolchainRegistry, for any definitions and plugins, and about     *)
(* LinkInputs, for any scripts and edits (both at the end).                *)
(*                                                                         *)
(* Whoever changes a repository or its trust holds the lock of the         *)
(* repository alone, whoever has loaded from it shares the lock; so what   *)
(* one process holds (HoldsInv) keeps the others off what it has seen      *)
(* (LoadedInv, PulledInv).  An archive is that of the checkout it is in    *)
(* (ClonesInv).  Save writes what it read under the lock of the store,     *)
(* with one name changed (SavesInv).                                       *)
(***************************************************************************)
EXTENDS Extensions, ToolchainRegistry, LinkInputs, TLAPS

Commits == CommitsMade \cup {None}
CallKinds == {"none", "build", "add", "update", "trust", "untrust", "remove", "provision"}
Tasks ==
  [kind : CallKinds, ext : Exts, listed : SUBSET Exts, loaded : SUBSET Defs, def : Commits,
   stage : Commits, asks : BOOLEAN, removes : BOOLEAN, records : SUBSET (Exts \X Commits)]
Changing == {"add", "update", "remove", "trust", "store", "save", "unlock"}
Installing == {"install", "pull", "sum", "extract", "publish"}
Loading == {"load", "verify", "end"} \cup Installing
Places == {"idle", "lock", "share"} \cup Changing \cup Loading

TypeOK ==
  /\ upstream \in [Exts -> CommitsMade]
  /\ repo \in [Exts -> [there : BOOLEAN, head : Commits, clean : BOOLEAN, archive : Commits]]
  /\ trust \subseteq Exts \X Commits /\ writer \in Procs \cup {Free}
  /\ ex \in [Exts -> Procs \cup {Free}] /\ sh \in [Exts -> SUBSET Procs]
  /\ installed \in [Defs -> Commits] /\ installer \in [Defs -> Procs \cup {Free}]
  /\ pc \in [Procs -> Places] /\ task \in [Procs -> Tasks]

(* The archive of a checkout is that of its commit.                        *)
ClonesInv ==
  \A e \in Exts :
    /\ repo[e].clean => repo[e].head # None
    /\ repo[e].archive # None => repo[e].archive = repo[e].head

(* Who changes a repository is alone with it.                              *)
AloneInv == \A e \in Exts : ex[e] # Free => sh[e] = {}

(* What p holds where it is.                                               *)
HoldsInv(p) ==
  /\ pc[p] \in Changing => ex[E(p)] = p
  /\ pc[p] = "lock" => T(p).kind \in {"add", "update", "trust", "untrust", "remove"}
  /\ pc[p] = "verify" => p \in sh[E(p)]

(* The store is as p has read it until p writes it.                        *)
SavesInv(p) == pc[p] = "save" => writer = p /\ T(p).records = trust

(* What p has loaded is locked, and as it was found.                       *)
LoadedInv(p) ==
  /\ T(p).loaded # {} => T(p).kind = "build" /\ pc[p] \in Loading
  /\ \A d \in T(p).loaded :
       /\ p \in sh[d[1]]
       /\ repo[d[1]].clean /\ repo[d[1]].head = d[2] /\ d \in trust

(* What a build installs is of an extension that it has loaded.            *)
PulledInv(p) ==
  /\ pc[p] \in Installing => T(p).def # None
  /\ T(p).kind = "build" =>
       /\ pc[p] \in Installing => D(p) \in T(p).loaded
       /\ pc[p] \in {"sum", "extract"} => repo[E(p)].archive = T(p).def
       /\ pc[p] = "publish" => T(p).stage = T(p).def

PInv(p) == HoldsInv(p) /\ SavesInv(p) /\ LoadedInv(p) /\ PulledInv(p)
IInv == TypeOK /\ ClonesInv /\ AloneInv /\ \A p \in Procs : PInv(p)

-----------------------------------------------------------------------------
(* What a step of p leaves to the others: their places and their locks,    *)
Others(p) == \A q \in Procs \ {p} : pc'[q] = pc[q] /\ task'[q] = task[q]

Untouched(p) ==
  \A q \in Procs \ {p} :
    /\ \A e \in Exts : (ex[e] = q => ex'[e] = q) /\ (q \in sh[e] => q \in sh'[e])
    /\ writer = q => writer' = q /\ trust' = trust

(* and every repository that p has not locked alone.                       *)
Stays(e) ==
  /\ repo'[e].clean = repo[e].clean /\ repo'[e].head = repo[e].head
  /\ repo[e].archive # None => repo'[e].archive = repo[e].archive
  /\ \A c \in Commits : <<e, c>> \in trust => <<e, c>> \in trust'

Guarantee(p) == Others(p) /\ Untouched(p) /\ \A e \in Exts : ex[e] # p => Stays(e)

Moves(p) == TypeOK' /\ ClonesInv' /\ AloneInv' /\ Guarantee(p) /\ PInv(p)'

LEMMA TaskType ==
  ASSUME TypeOK, NEW p \in Procs
  PROVE  T(p) \in Tasks /\ E(p) \in Exts /\ pc[p] \in Places /\ repo[E(p)] \in
           [there : BOOLEAN, head : Commits, clean : BOOLEAN, archive : Commits]
BY DEF TypeOK, T, E, Tasks

(* The part of q survives a step of p.                                     *)
LEMMA OthersKept ==
  ASSUME ExtensionAssumption, IInv, NEW p \in Procs, Guarantee(p), NEW q \in Procs \ {p}
  PROVE  PInv(q)'
<1>0. T(q) \in Tasks /\ E(q) \in Exts /\ PInv(q)
  BY TaskType DEF IInv
<1>1. pc'[q] = pc[q] /\ T(q)' = T(q) /\ E(q)' = E(q) /\ D(q)' = D(q)
  BY DEF Guarantee, Others, T, E, D
<1>2. HoldsInv(q)' /\ SavesInv(q)'
  BY <1>0, <1>1 DEF Guarantee, Untouched, PInv, HoldsInv, SavesInv
<1>3. ASSUME NEW d \in T(q).loaded
      PROVE  /\ d[1] \in Exts /\ d[2] \in Commits /\ d = <<d[1], d[2]>>
             /\ q \in sh'[d[1]] /\ Stays(d[1])
  <2>1. d \in Defs
    BY <1>0 DEF Tasks
  <2>2. d[1] \in Exts /\ d[2] \in Commits /\ d = <<d[1], d[2]>>
    BY <2>1 DEF Defs, Commits
  <2>3. q \in sh[d[1]]
    BY <1>0 DEF PInv, LoadedInv
  <2>4. ex[d[1]] # p
    BY <2>2, <2>3 DEF IInv, AloneInv, ExtensionAssumption
  <2>5. QED
    BY <2>2, <2>3, <2>4 DEF Guarantee, Untouched
<1>4. LoadedInv(q)'
  BY <1>0, <1>1, <1>3 DEF PInv, LoadedInv, Stays
<1>5. PulledInv(q)'
  <2>1. CASE T(q).kind = "build" /\ pc[q] \in {"sum", "extract"}
    <3>1. D(q) \in T(q).loaded /\ T(q).def # None /\ repo[E(q)].archive = T(q).def
      BY <1>0, <2>1 DEF PInv, PulledInv, Installing
    <3>2. Stays(E(q))
      BY <1>3, <3>1 DEF D
    <3>3. QED
      BY <1>0, <1>1, <2>1, <3>1, <3>2 DEF PInv, PulledInv, Stays
  <2>2. CASE ~(T(q).kind = "build" /\ pc[q] \in {"sum", "extract"})
    BY <1>0, <1>1, <2>2 DEF PInv, PulledInv
  <2>3. QED
    BY <2>1, <2>2
<1>6. QED
  BY <1>2, <1>4, <1>5 DEF PInv

LEMMA Combine ==
  ASSUME ExtensionAssumption, IInv, NEW p \in Procs, Moves(p)
  PROVE  IInv'
<1>1. \A q \in Procs : PInv(q)'
  BY OthersKept DEF Moves
<1>2. QED
  BY <1>1 DEF Moves, IInv

-----------------------------------------------------------------------------
(* What the helpers of the actions do.                                     *)
LEMMA GoEffect ==
  ASSUME TypeOK, NEW p \in Procs, NEW place \in Places, NEW t \in Tasks, Go(p, place, t)
  PROVE  /\ pc' \in [Procs -> Places] /\ task' \in [Procs -> Tasks]
         /\ pc'[p] = place /\ T(p)' = t /\ E(p)' = t.ext /\ D(p)' = <<t.ext, t.def>>
         /\ Others(p)
BY DEF Go, Goto, TypeOK, T, E, D, Others

LEMMA KeepEffect ==
  ASSUME TypeOK, NEW p \in Procs, NEW place \in Places, Keep(p, place)
  PROVE  /\ pc' \in [Procs -> Places] /\ task' \in [Procs -> Tasks]
         /\ pc'[p] = place /\ T(p)' = T(p) /\ E(p)' = E(p) /\ D(p)' = D(p)
         /\ Others(p)
BY DEF Keep, Goto, TypeOK, T, E, D, Others

(* A step that moves p alone.                                              *)
LEMMA QuietStep ==
  ASSUME IInv, NEW p \in Procs, UNCHANGED <<clones, store, locks, tools>>,
         pc' \in [Procs -> Places], task' \in [Procs -> Tasks], Others(p), PInv(p)'
  PROVE  Moves(p)
<1>1. UNCHANGED <<upstream, repo, trust, writer, ex, sh, installed, installer>>
  BY DEF clones, store, locks, tools
<1>2. TypeOK' /\ ClonesInv' /\ AloneInv'
  BY <1>1 DEF IInv, TypeOK, ClonesInv, AloneInv
<1>3. Guarantee(p)
  BY <1>1 DEF Guarantee, Untouched, Stays
<1>4. QED
  BY <1>2, <1>3 DEF Moves

LEMMA NoTaskType == ASSUME ExtensionAssumption PROVE NoTask \in Tasks
BY DEF ExtensionAssumption, NoTask, Tasks, CallKinds, Exts, Commits, None

(* A command that begins has loaded nothing and holds nothing.             *)
LEMMA CommandStep ==
  ASSUME ExtensionAssumption, IInv, NEW p \in Procs, NEW place \in {"load", "lock", "share"},
         NEW t \in Tasks, t.loaded = {},
         place = "lock" => t.kind \in {"add", "update", "trust", "untrust", "remove"},
         Command(p, place, t)
  PROVE  Moves(p)
<1>1. place \in Places
  BY DEF Places, Loading
<1>2. /\ pc' \in [Procs -> Places] /\ task' \in [Procs -> Tasks]
      /\ pc'[p] = place /\ T(p)' = t /\ Others(p)
  BY <1>1, GoEffect DEF Command, IInv
<1>3. PInv(p)'
  BY <1>2 DEF PInv, HoldsInv, SavesInv, LoadedInv, PulledInv, Changing, Installing
<1>4. QED
  BY <1>2, <1>3, QuietStep DEF Command

LEMMA BeginStep ==
  ASSUME ExtensionAssumption, IInv, NEW p \in Procs, Begin(p)
  PROVE  Moves(p)
<1>0. NoTask \in Tasks /\ NoTask.loaded = {}
  BY NoTaskType DEF NoTask
<1>1. CASE Build(p)
  <2>1. {e \in Exts : Exists(e)} \subseteq Exts
    OBVIOUS
  <2>2. /\ [NoTask EXCEPT !.kind = "build", !.listed = {e \in Exts : Exists(e)}] \in Tasks
        /\ [NoTask EXCEPT !.kind = "build", !.listed = {e \in Exts : Exists(e)}].loaded = {}
    BY <1>0, <2>1 DEF Tasks, CallKinds
  <2>3. QED
    BY <1>1, <2>2, CommandStep DEF Build
<1>2. ASSUME NEW what \in {"add", "update", "trust", "untrust", "remove"}, NEW asks \in BOOLEAN,
             Start(p, what, asks)
      PROVE  Moves(p)
  <2>1. PICK e \in Exts :
          Command(p, "lock", [NoTask EXCEPT !.kind = what, !.ext = e, !.asks = asks])
    BY <1>2 DEF Start
  <2>2. /\ [NoTask EXCEPT !.kind = what, !.ext = e, !.asks = asks] \in Tasks
        /\ [NoTask EXCEPT !.kind = what, !.ext = e, !.asks = asks].loaded = {}
        /\ [NoTask EXCEPT !.kind = what, !.ext = e, !.asks = asks].kind = what
    BY <1>0 DEF Tasks, CallKinds
  <2>3. QED
    BY <2>1, <2>2, CommandStep
<1>3. CASE Provision(p)
  <2>1. PICK e \in Exts : Command(p, "share", [NoTask EXCEPT !.kind = "provision", !.ext = e])
    BY <1>3 DEF Provision
  <2>2. /\ [NoTask EXCEPT !.kind = "provision", !.ext = e] \in Tasks
        /\ [NoTask EXCEPT !.kind = "provision", !.ext = e].loaded = {}
    BY <1>0 DEF Tasks, CallKinds
  <2>3. QED
    BY <2>1, <2>2, CommandStep
<1>4. QED
  BY <1>1, <1>2, <1>3 DEF Begin, Add, Update, Trust, Untrust, RemoveExtension

-----------------------------------------------------------------------------
(* Commands that change a repository.  They have loaded nothing.           *)
LEMMA Unloaded ==
  ASSUME IInv, NEW p \in Procs, pc[p] \notin Loading
  PROVE  T(p).loaded = {}
BY DEF IInv, PInv, LoadedInv

LEMMA LockRepoStep ==
  ASSUME ExtensionAssumption, IInv, NEW p \in Procs, LockRepo(p)
  PROVE  Moves(p)
<1>0. pc[p] = "lock" /\ ex[E(p)] = Free /\ sh[E(p)] = {} /\ E(p) \in Exts /\ T(p).loaded = {}
  BY TaskType, Unloaded DEF LockRepo, IInv, Loading, Installing
<1>1. PICK place \in {"store", "add", "update", "trust", "remove"} : Keep(p, place)
  BY <1>0 DEF LockRepo, IInv, PInv, HoldsInv
<1>2. /\ pc' \in [Procs -> Places] /\ task' \in [Procs -> Tasks]
      /\ pc'[p] = place /\ T(p)' = T(p) /\ E(p)' = E(p) /\ Others(p)
  BY <1>1, KeepEffect DEF IInv, Places, Changing
<1>3. ex' = [ex EXCEPT ![E(p)] = p] /\ UNCHANGED <<upstream, repo, trust, writer, sh, installed, installer>>
  BY DEF LockRepo, clones, store, tools
<1>4. TypeOK' /\ ClonesInv'
  BY <1>2, <1>3 DEF IInv, TypeOK, ClonesInv
<1>5. AloneInv'
  BY <1>0, <1>3 DEF IInv, AloneInv, TypeOK
<1>6. Guarantee(p)
  BY <1>0, <1>2, <1>3 DEF Guarantee, Untouched, Stays, IInv, TypeOK, ExtensionAssumption
<1>7. PInv(p)'
  BY <1>0, <1>1, <1>2, <1>3
     DEF IInv, TypeOK, PInv, HoldsInv, SavesInv, LoadedInv, PulledInv, Changing, Installing
<1>8. QED
  BY <1>4, <1>5, <1>6, <1>7 DEF Moves

(* The steps that write the clone p has locked alone.                      *)
LEMMA CloneChanges ==
  ASSUME IInv, NEW p \in Procs, pc[p] \in Changing, T(p).loaded = {},
         repo' \in [Exts -> [there : BOOLEAN, head : Commits, clean : BOOLEAN, archive : Commits]],
         \A e \in Exts \ {E(p)} : repo'[e] = repo[e],
         repo'[E(p)].clean => repo'[E(p)].head # None,
         repo'[E(p)].archive # None => repo'[E(p)].archive = repo'[E(p)].head,
         UNCHANGED <<upstream, trust, writer, ex, sh, installed, installer>>,
         NEW place \in {"unlock", "store"}, NEW t \in Tasks, Go(p, place, t),
         t.loaded = {}, t.ext = E(p)
  PROVE  Moves(p)
<1>0. E(p) \in Exts /\ ex[E(p)] = p
  BY TaskType DEF IInv, PInv, HoldsInv
<1>1. /\ pc' \in [Procs -> Places] /\ task' \in [Procs -> Tasks]
      /\ pc'[p] = place /\ T(p)' = t /\ E(p)' = E(p) /\ Others(p)
  BY GoEffect DEF IInv, Places, Changing
<1>2. TypeOK' /\ ClonesInv' /\ AloneInv'
  BY <1>1 DEF IInv, TypeOK, ClonesInv, AloneInv
<1>3. Guarantee(p)
  BY <1>0, <1>1 DEF Guarantee, Untouched, Stays
<1>4. PInv(p)'
  BY <1>0, <1>1 DEF PInv, HoldsInv, SavesInv, LoadedInv, PulledInv, Changing, Installing
<1>5. QED
  BY <1>2, <1>3, <1>4 DEF Moves

LEMMA CloneStep ==
  ASSUME ExtensionAssumption, IInv, NEW p \in Procs, Clone(p) \/ UpdateRepoLocked(p) \/ RemoveRepo(p)
  PROVE  Moves(p)
<1>c. pc[p] \in {"add", "update", "remove"} /\ UNCHANGED <<upstream, store, locks, tools>>
  BY DEF Clone, UpdateRepoLocked, RemoveRepo
<1>u. UNCHANGED <<upstream, trust, writer, ex, sh, installed, installer>>
  BY <1>c DEF store, locks, tools
<1>t. T(p) \in Tasks /\ E(p) \in Exts /\ T(p).ext = E(p) /\ task[p] = T(p)
  BY TaskType DEF IInv, T, E
<1>l. pc[p] \in Changing /\ T(p).loaded = {}
  BY <1>c, Unloaded DEF Changing, Loading, Installing
<1>r. repo \in [Exts -> [there : BOOLEAN, head : Commits, clean : BOOLEAN, archive : Commits]]
  BY DEF IInv, TypeOK
<1>h. upstream[E(p)] \in CommitsMade /\ upstream[E(p)] # None /\ None \in Commits
  BY <1>t DEF IInv, TypeOK, CommitsMade, Commits, None
<1>0. /\ T(p) \in Tasks /\ E(p) \in Exts /\ T(p).loaded = {} /\ T(p).ext = E(p)
      /\ pc[p] \in Changing /\ task[p] = T(p)
      /\ repo \in [Exts -> [there : BOOLEAN, head : Commits, clean : BOOLEAN, archive : Commits]]
      /\ upstream[E(p)] \in CommitsMade /\ upstream[E(p)] # None /\ None \in Commits
      /\ UNCHANGED <<upstream, trust, writer, ex, sh, installed, installer>>
  BY <1>u, <1>t, <1>l, <1>r, <1>h
<1>1. ASSUME NEW place, Keep(p, place)
      PROVE  Go(p, place, T(p))
  BY <1>0, <1>1 DEF Keep, Go, IInv, TypeOK
<1>2. /\ [T(p) EXCEPT !.asks = FALSE] \in Tasks /\ [T(p) EXCEPT !.removes = TRUE] \in Tasks
      /\ [T(p) EXCEPT !.asks = FALSE].loaded = {} /\ [T(p) EXCEPT !.removes = TRUE].loaded = {}
      /\ [T(p) EXCEPT !.asks = FALSE].ext = E(p) /\ [T(p) EXCEPT !.removes = TRUE].ext = E(p)
  BY <1>0 DEF Tasks
<1>3. ASSUME NEW r \in [there : BOOLEAN, head : Commits, clean : BOOLEAN, archive : Commits],
             r.clean => r.head # None, r.archive # None => r.archive = r.head,
             repo' = [repo EXCEPT ![E(p)] = r],
             NEW place \in {"unlock", "store"},
             \/ Keep(p, place) \/ Go(p, place, [T(p) EXCEPT !.asks = FALSE])
             \/ Go(p, place, [T(p) EXCEPT !.removes = TRUE])
      PROVE  Moves(p)
  <2>1. /\ repo' \in [Exts -> [there : BOOLEAN, head : Commits, clean : BOOLEAN, archive : Commits]]
        /\ \A e \in Exts \ {E(p)} : repo'[e] = repo[e]
        /\ repo'[E(p)] = r
    BY <1>0, <1>3
  <2>2. PICK t \in Tasks : Go(p, place, t) /\ t.loaded = {} /\ t.ext = E(p)
    BY <1>0, <1>1, <1>2, <1>3
  <2>3. QED
    BY <1>0, <1>3, <2>1, <2>2, CloneChanges
<1>4. repo[E(p)].clean => repo[E(p)].head # None
  BY <1>0 DEF IInv, ClonesInv
<1>5. repo[E(p)].archive # None => repo[E(p)].archive = repo[E(p)].head
  BY <1>0 DEF IInv, ClonesInv
<1>6. repo = [repo EXCEPT ![E(p)] = repo[E(p)]]
  BY <1>0
<1>7. /\ CloneAt(upstream[E(p)]) \in [there : BOOLEAN, head : Commits, clean : BOOLEAN, archive : Commits]
      /\ CloneAt(upstream[E(p)]).head # None /\ CloneAt(upstream[E(p)]).archive = None
  BY <1>0 DEF CloneAt, Commits
<1>8. CASE Clone(p)
  BY <1>0, <1>3, <1>4, <1>5, <1>6, <1>7, <1>8 DEF Clone
<1>9. CASE UpdateRepoLocked(p)
  <2>1. PICK r \in Pulled(E(p)) :
          /\ repo' = [repo EXCEPT ![E(p)] = r]
          /\ IF r.head = None \/ r.head # repo[E(p)].head
             THEN Go(p, "store", [T(p) EXCEPT !.removes = TRUE])
             ELSE Keep(p, "unlock")
    BY <1>9 DEF UpdateRepoLocked
  <2>2. /\ r \in [there : BOOLEAN, head : Commits, clean : BOOLEAN, archive : Commits]
        /\ r.clean => r.head # None
        /\ r.archive # None => r.archive = r.head
    <3>1. \/ r = repo[E(p)]
          \/ r = [repo[E(p)] EXCEPT !.clean = FALSE]
          \/ r = CloneAt(upstream[E(p)])
      BY DEF Pulled
    <3>2. repo[E(p)] \in [there : BOOLEAN, head : Commits, clean : BOOLEAN, archive : Commits]
      BY <1>0
    <3>3. QED
      BY <1>4, <1>5, <1>7, <3>1, <3>2
  <2>3. QED
    BY <1>3, <2>1, <2>2
<1>10. CASE RemoveRepo(p)
  <2>1. /\ NoClone \in [there : BOOLEAN, head : Commits, clean : BOOLEAN, archive : Commits]
        /\ ~NoClone.clean /\ NoClone.archive = None
    BY <1>0 DEF NoClone
  <2>2. QED
    BY <1>3, <1>10, <2>1 DEF RemoveRepo
<1>11. QED
  BY <1>8, <1>9, <1>10

(* A step from one place to another under the lock of the repository.      *)
LEMMA ChangingStep ==
  ASSUME IInv, NEW p \in Procs, pc[p] \in Changing,
         UNCHANGED <<clones, store, locks, tools>>,
         NEW place \in {"unlock", "store"}, NEW t \in Tasks, Go(p, place, t),
         t.loaded = {}, t.ext = E(p)
  PROVE  Moves(p)
<1>1. /\ pc' \in [Procs -> Places] /\ task' \in [Procs -> Tasks]
      /\ pc'[p] = place /\ T(p)' = t /\ E(p)' = E(p) /\ Others(p)
  BY GoEffect DEF IInv, Places, Changing
<1>2. UNCHANGED ex
  BY DEF locks
<1>3. PInv(p)'
  BY <1>1, <1>2 DEF IInv, PInv, HoldsInv, SavesInv, LoadedInv, PulledInv, Changing, Installing
<1>4. QED
  BY <1>1, <1>3, QuietStep

LEMMA DecideStep ==
  ASSUME IInv, NEW p \in Procs, AlreadyThere(p) \/ Refuse(p) \/ TrustCommit(p)
  PROVE  Moves(p)
<1>1. pc[p] \in Changing /\ T(p).loaded = {} /\ UNCHANGED <<clones, store, locks, tools>>
  BY Unloaded DEF AlreadyThere, Refuse, TrustCommit, Changing, Loading, Installing
<1>2. T(p) \in Tasks /\ T(p).ext = E(p) /\ repo[E(p)].head \in Commits
  BY TaskType DEF IInv, T, E
<1>3. CASE AlreadyThere(p)
  <2>1. PICK t \in Tasks : Go(p, "unlock", t) /\ t.loaded = {} /\ t.ext = E(p)
    <3>1. /\ [T(p) EXCEPT !.asks = FALSE] \in Tasks
          /\ [T(p) EXCEPT !.asks = FALSE].loaded = {} /\ [T(p) EXCEPT !.asks = FALSE].ext = E(p)
      BY <1>1, <1>2 DEF Tasks
    <3>2. QED
      BY <1>3, <3>1 DEF AlreadyThere
  <2>2. QED
    BY <1>1, <2>1, ChangingStep
<1>4. CASE Refuse(p)
  <2>1. Go(p, "unlock", T(p))
    BY <1>4 DEF Refuse, Keep, Go, T, IInv, TypeOK
  <2>2. QED
    BY <1>1, <1>2, <2>1, ChangingStep
<1>5. CASE TrustCommit(p)
  <2>1. PICK t \in Tasks : Go(p, "store", t) /\ t.loaded = {} /\ t.ext = E(p)
    <3>1. /\ [T(p) EXCEPT !.def = repo[E(p)].head] \in Tasks
          /\ [T(p) EXCEPT !.def = repo[E(p)].head].loaded = {}
          /\ [T(p) EXCEPT !.def = repo[E(p)].head].ext = E(p)
      BY <1>1, <1>2 DEF Tasks
    <3>2. QED
      BY <1>5, <3>1 DEF TrustCommit
  <2>2. QED
    BY <1>1, <2>1, ChangingStep
<1>6. QED
  BY <1>3, <1>4, <1>5

LEMMA LockStoreStep ==
  ASSUME ExtensionAssumption, IInv, NEW p \in Procs, LockStore(p)
  PROVE  Moves(p)
<1>1. pc[p] = "store" /\ writer = Free /\ writer' = p /\ T(p).loaded = {} /\ ex[E(p)] = p
  BY Unloaded DEF LockStore, Changing, Loading, Installing, IInv, PInv, HoldsInv
<1>2. UNCHANGED <<upstream, repo, trust, ex, sh, installed, installer>>
  BY DEF LockStore, clones, locks, tools
<1>3. PICK t \in Tasks : Go(p, "save", t) /\ t.loaded = {} /\ t.ext = E(p) /\ t.records = trust
  <2>1. T(p) \in Tasks /\ T(p).ext = E(p) /\ trust \subseteq Exts \X Commits
    BY TaskType DEF IInv, TypeOK, T, E
  <2>2. /\ [T(p) EXCEPT !.records = trust] \in Tasks
        /\ [T(p) EXCEPT !.records = trust].loaded = {} /\ [T(p) EXCEPT !.records = trust].ext = E(p)
        /\ [T(p) EXCEPT !.records = trust].records = trust
    BY <1>1, <2>1 DEF Tasks
  <2>3. QED
    BY <2>2 DEF LockStore
<1>4. /\ pc' \in [Procs -> Places] /\ task' \in [Procs -> Tasks]
      /\ pc'[p] = "save" /\ T(p)' = t /\ E(p)' = E(p) /\ Others(p)
  BY <1>3, GoEffect DEF IInv, Places, Changing
<1>5. TypeOK' /\ ClonesInv' /\ AloneInv'
  BY <1>1, <1>2, <1>4 DEF IInv, TypeOK, ClonesInv, AloneInv
<1>6. Guarantee(p)
  BY <1>1, <1>2, <1>4 DEF Guarantee, Untouched, Stays, ExtensionAssumption
<1>7. PInv(p)'
  BY <1>1, <1>2, <1>3, <1>4
     DEF PInv, HoldsInv, SavesInv, LoadedInv, PulledInv, Changing, Installing
<1>8. QED
  BY <1>5, <1>6, <1>7 DEF Moves

(* p writes what it has read, with its own name changed.                   *)
LEMMA SaveEffect ==
  ASSUME IInv, NEW p \in Procs, SaveStore(p)
  PROVE  /\ writer = p /\ trust' \subseteq Exts \X Commits
         /\ \A r \in Exts \X Commits : r[1] # E(p) => (r \in trust <=> r \in trust')
<1>1. writer = p /\ T(p).records = trust
  BY DEF SaveStore, IInv, PInv, SavesInv
<1>2. E(p) \in Exts /\ T(p).def \in Commits /\ trust \subseteq Exts \X Commits
  BY TaskType DEF IInv, TypeOK, Tasks
<1>3. \/ trust' = trust \cup {<<E(p), T(p).def>>}
      \/ trust' = {r \in trust : r[1] # E(p)}
  BY <1>1 DEF SaveStore
<1>4. QED
  BY <1>1, <1>2, <1>3

LEMMA SaveStep ==
  ASSUME ExtensionAssumption, IInv, NEW p \in Procs, SaveStore(p) \/ StoreFails(p)
  PROVE  Moves(p)
<1>1. pc[p] = "save" /\ writer' = Free /\ T(p).loaded = {} /\ ex[E(p)] = p /\ writer = p
  BY Unloaded DEF SaveStore, StoreFails, Changing, Loading, Installing, IInv, PInv, HoldsInv, SavesInv
<1>2. UNCHANGED <<upstream, repo, ex, sh, installed, installer>>
  BY DEF SaveStore, StoreFails, clones, locks, tools
<1>3. /\ trust' \subseteq Exts \X Commits
      /\ \A e \in Exts \ {E(p)}, c \in Commits : <<e, c>> \in trust => <<e, c>> \in trust'
  <2>1. CASE SaveStore(p)
    BY <2>1, SaveEffect
  <2>2. CASE StoreFails(p)
    BY <2>2 DEF StoreFails, IInv, TypeOK
  <2>3. QED
    BY <2>1, <2>2
<1>4. /\ pc' \in [Procs -> Places] /\ task' \in [Procs -> Tasks]
      /\ pc'[p] = "unlock" /\ T(p)' = T(p) /\ E(p)' = E(p) /\ Others(p)
  BY KeepEffect DEF IInv, Places, Changing, SaveStore, StoreFails
<1>5. TypeOK' /\ ClonesInv' /\ AloneInv'
  BY <1>1, <1>2, <1>3, <1>4 DEF IInv, TypeOK, ClonesInv, AloneInv
<1>6. Guarantee(p)
  BY <1>1, <1>2, <1>3, <1>4 DEF Guarantee, Untouched, Stays, IInv, TypeOK
<1>7. PInv(p)'
  BY <1>1, <1>2, <1>4 DEF PInv, HoldsInv, SavesInv, LoadedInv, PulledInv, Changing, Installing
<1>8. QED
  BY <1>5, <1>6, <1>7 DEF Moves

LEMMA UnlockRepoStep ==
  ASSUME ExtensionAssumption, IInv, NEW p \in Procs, UnlockRepo(p)
  PROVE  Moves(p)
<1>1. pc[p] = "unlock" /\ T(p).loaded = {} /\ ex[E(p)] = p /\ ex' = [ex EXCEPT ![E(p)] = Free]
  BY Unloaded DEF UnlockRepo, Changing, Loading, Installing, IInv, PInv, HoldsInv
<1>2. UNCHANGED <<upstream, repo, trust, writer, sh, installed, installer>>
  BY DEF UnlockRepo, clones, store, tools
<1>3. T(p) \in Tasks /\ NoTask \in Tasks /\ NoTask.loaded = {}
  BY TaskType, NoTaskType DEF IInv, NoTask
<1>4. /\ [T(p) EXCEPT !.kind = "trust", !.asks = FALSE] \in Tasks
      /\ [T(p) EXCEPT !.kind = "trust", !.asks = FALSE].loaded = {}
      /\ [T(p) EXCEPT !.kind = "trust", !.asks = FALSE].kind = "trust"
  BY <1>1, <1>3 DEF Tasks, CallKinds
<1>5. PICK place \in {"lock", "idle"}, t \in Tasks :
        Go(p, place, t) /\ t.loaded = {} /\ (place = "lock" => t.kind = "trust")
  BY <1>3, <1>4 DEF UnlockRepo
<1>6. /\ pc' \in [Procs -> Places] /\ task' \in [Procs -> Tasks]
      /\ pc'[p] = place /\ T(p)' = t /\ Others(p)
  BY <1>5, GoEffect DEF IInv, Places
<1>7. TypeOK' /\ ClonesInv' /\ AloneInv'
  BY <1>1, <1>2, <1>6 DEF IInv, TypeOK, ClonesInv, AloneInv
<1>8. Guarantee(p)
  BY <1>1, <1>2, <1>6 DEF Guarantee, Untouched, Stays, IInv, TypeOK
<1>9. PInv(p)'
  BY <1>5, <1>6 DEF PInv, HoldsInv, SavesInv, LoadedInv, PulledInv, Changing, Installing
<1>10. QED
  BY <1>7, <1>8, <1>9 DEF Moves

LEMMA ChangeStep ==
  ASSUME ExtensionAssumption, IInv, NEW p \in Procs, Change(p)
  PROVE  Moves(p)
BY LockRepoStep, CloneStep, DecideStep, LockStoreStep, SaveStep, UnlockRepoStep DEF Change

-----------------------------------------------------------------------------
(* Commands that load: p shares one more lock, or lets go of one.          *)
LEMMA SharedStep ==
  ASSUME ExtensionAssumption, IInv, NEW p \in Procs, NEW e \in Exts,
         \/ ex[e] = Free /\ sh' = [sh EXCEPT ![e] = @ \cup {p}]
         \/ sh' = [sh EXCEPT ![e] = @ \ {p}],
         UNCHANGED <<clones, store, ex, tools>>,
         pc' \in [Procs -> Places], task' \in [Procs -> Tasks], Others(p), PInv(p)'
  PROVE  Moves(p)
<1>1. UNCHANGED <<upstream, repo, trust, writer, ex, installed, installer>>
  BY DEF clones, store, tools
<1>a. /\ sh' \in [Exts -> SUBSET Procs] /\ sh \in [Exts -> SUBSET Procs]
      /\ \A f \in Exts \ {e} : sh'[f] = sh[f]
      /\ ex[e] = Free \/ sh'[e] = sh[e] \ {p}
  BY DEF IInv, TypeOK
<1>b. AloneInv'
  BY <1>1, <1>a DEF IInv, AloneInv
<1>2. TypeOK' /\ ClonesInv' /\ AloneInv'
  BY <1>1, <1>a, <1>b DEF IInv, TypeOK, ClonesInv
<1>3. Guarantee(p)
  BY <1>1 DEF Guarantee, Untouched, Stays, IInv, TypeOK
<1>4. QED
  BY <1>2, <1>3 DEF Moves

(* The locks that p shares, as a step of its own changes them.             *)
LEMMA LoadedKept ==
  ASSUME IInv, NEW p \in Procs, UNCHANGED <<repo, trust>>, T(p)'.loaded = T(p).loaded,
         T(p)'.kind = T(p).kind, pc'[p] \in Loading,
         \A d \in T(p).loaded : p \in sh'[d[1]]
  PROVE  LoadedInv(p)'
BY DEF IInv, PInv, LoadedInv

LEMMA ShareStep ==
  ASSUME ExtensionAssumption, IInv, NEW p \in Procs, ShareRepo(p)
  PROVE  Moves(p)
<1>0. T(p) \in Tasks /\ T(p).ext = E(p) /\ E(p) \in Exts /\ UNCHANGED <<clones, store, ex, tools>>
  BY TaskType DEF ShareRepo, IInv, T, E
<1>1. PICK e \in Exts, t \in Tasks :
        /\ ex[e] = Free /\ sh' = [sh EXCEPT ![e] = @ \cup {p}] /\ Go(p, "verify", t)
        /\ t.ext = e /\ t.loaded = T(p).loaded /\ t.kind = T(p).kind
  <2>1. CASE pc[p] = "share"
    BY <1>0, <2>1 DEF ShareRepo, Keep, Go, T, IInv, TypeOK
  <2>2. CASE pc[p] # "share"
    <3>1. PICK e \in Exts :
            /\ ex[e] = Free /\ sh' = [sh EXCEPT ![e] = @ \cup {p}]
            /\ Go(p, "verify", [T(p) EXCEPT !.ext = e, !.listed = @ \ {e}])
      BY <2>2 DEF ShareRepo
    <3>2. /\ [T(p) EXCEPT !.ext = e, !.listed = @ \ {e}] \in Tasks
          /\ [T(p) EXCEPT !.ext = e, !.listed = @ \ {e}].ext = e
          /\ [T(p) EXCEPT !.ext = e, !.listed = @ \ {e}].loaded = T(p).loaded
          /\ [T(p) EXCEPT !.ext = e, !.listed = @ \ {e}].kind = T(p).kind
      BY <1>0 DEF Tasks
    <3>3. QED
      BY <3>1, <3>2
  <2>3. QED
    BY <2>1, <2>2
<1>2. /\ pc' \in [Procs -> Places] /\ task' \in [Procs -> Tasks]
      /\ pc'[p] = "verify" /\ T(p)' = t /\ E(p)' = e /\ Others(p)
  BY <1>1, GoEffect DEF IInv, Places, Loading
<1>3. UNCHANGED <<repo, trust>> /\ \A f \in Exts : p \in sh[f] => p \in sh'[f]
  BY <1>0, <1>1 DEF clones, store, IInv, TypeOK
<1>4. \A d \in T(p).loaded : d[1] \in Exts /\ p \in sh[d[1]]
  BY <1>0 DEF IInv, PInv, LoadedInv, Tasks, Defs
<1>5. LoadedInv(p)'
  BY <1>1, <1>2, <1>3, <1>4, LoadedKept DEF Loading
<1>6. p \in sh'[e]
  BY <1>1 DEF IInv, TypeOK
<1>7. PInv(p)'
  BY <1>2, <1>5, <1>6 DEF PInv, HoldsInv, SavesInv, PulledInv, Changing, Installing
<1>8. QED
  BY <1>0, <1>1, <1>2, <1>7, SharedStep

LEMMA VerifyStep ==
  ASSUME ExtensionAssumption, IInv, NEW p \in Procs, Verify(p)
  PROVE  Moves(p)
<1>0. /\ T(p) \in Tasks /\ E(p) \in Exts /\ p \in sh[E(p)] /\ pc[p] = "verify"
      /\ T(p).kind = "build" /\ T(p).ext = E(p)
      /\ repo[E(p)].head \in Commits /\ (repo[E(p)].clean => repo[E(p)].head # None)
      /\ UNCHANGED <<clones, store, ex, tools, repo, trust>>
  BY TaskType DEF Verify, IInv, PInv, HoldsInv, ClonesInv, clones, store, T, E
<1>1. CASE Trusted(E(p))
  <2>1. PICK t \in Tasks :
          /\ Go(p, "load", t) /\ t.loaded = T(p).loaded \cup {<<E(p), repo[E(p)].head>>}
          /\ t.kind = "build"
    <3>1. <<E(p), repo[E(p)].head>> \in Defs
      BY <1>0, <1>1 DEF Trusted, Defs, Commits
    <3>2. /\ [T(p) EXCEPT !.loaded = @ \cup {<<E(p), repo[E(p)].head>>}] \in Tasks
          /\ [T(p) EXCEPT !.loaded = @ \cup {<<E(p), repo[E(p)].head>>}].kind = "build"
          /\ [T(p) EXCEPT !.loaded = @ \cup {<<E(p), repo[E(p)].head>>}].loaded
               = T(p).loaded \cup {<<E(p), repo[E(p)].head>>}
      BY <1>0, <3>1 DEF Tasks
    <3>3. QED
      BY <1>1, <3>2 DEF Verify
  <2>2. /\ pc' \in [Procs -> Places] /\ task' \in [Procs -> Tasks]
        /\ pc'[p] = "load" /\ T(p)' = t /\ Others(p) /\ UNCHANGED sh
    BY <1>1, <2>1, GoEffect DEF Verify, IInv, Places, Loading
  <2>3. LoadedInv(p)'
    BY <1>0, <1>1, <2>1, <2>2 DEF IInv, PInv, LoadedInv, Loading, Trusted
  <2>4. PInv(p)'
    BY <2>2, <2>3 DEF PInv, HoldsInv, SavesInv, PulledInv, Changing, Installing
  <2>5. QED
    BY <1>0, <2>2, <2>4, QuietStep DEF locks
<1>2. CASE ~Trusted(E(p))
  <2>1. sh' = [sh EXCEPT ![E(p)] = @ \ {p}]
    BY <1>2 DEF Verify, Unshare
  <2>2. /\ pc' \in [Procs -> Places] /\ task' \in [Procs -> Tasks]
        /\ pc'[p] = "load" /\ T(p)' = T(p) /\ Others(p)
    BY <1>2, KeepEffect DEF Verify, IInv, Places, Loading
  <2>3. ASSUME NEW d \in T(p).loaded
        PROVE  p \in sh'[d[1]]
    <3>1. d = <<d[1], d[2]>> /\ d[1] \in Exts
      BY <1>0 DEF Tasks, Defs
    <3>2. p \in sh[d[1]] /\ repo[d[1]].clean /\ repo[d[1]].head = d[2] /\ d \in trust
      BY DEF IInv, PInv, LoadedInv
    <3>3. d[1] # E(p)
      BY <1>2, <3>1, <3>2 DEF Trusted
    <3>4. QED
      BY <2>1, <3>1, <3>2, <3>3 DEF IInv, TypeOK
  <2>4. LoadedInv(p)'
    BY <1>0, <2>2, <2>3, LoadedKept DEF Loading
  <2>5. PInv(p)'
    BY <2>2, <2>4 DEF PInv, HoldsInv, SavesInv, PulledInv, Changing, Installing
  <2>6. QED
    BY <1>0, <2>1, <2>2, <2>5, SharedStep
<1>3. QED
  BY <1>1, <1>2

LEMMA ScanStep ==
  ASSUME ExtensionAssumption, IInv, NEW p \in Procs, Scan(p)
  PROVE  Moves(p)
<1>0. /\ T(p) \in Tasks /\ E(p) \in Exts /\ T(p).kind = "provision" /\ T(p).loaded = {}
      /\ repo[E(p)].head \in Commits /\ (repo[E(p)].clean => repo[E(p)].head # None)
      /\ sh' = [sh EXCEPT ![E(p)] = @ \ {p}] /\ UNCHANGED <<clones, store, ex, tools, repo>>
  BY TaskType DEF Scan, Unshare, IInv, PInv, LoadedInv, ClonesInv, clones
<1>1. PICK place \in {"install", "end"}, t \in Tasks :
        /\ Go(p, place, t) /\ t.loaded = {} /\ t.kind = "provision"
        /\ place = "install" => t.def # None
  <2>1. CASE Trusted(E(p))
    <3>1. /\ [T(p) EXCEPT !.def = repo[E(p)].head] \in Tasks
          /\ [T(p) EXCEPT !.def = repo[E(p)].head].loaded = {}
          /\ [T(p) EXCEPT !.def = repo[E(p)].head].kind = "provision"
          /\ [T(p) EXCEPT !.def = repo[E(p)].head].def = repo[E(p)].head
      BY <1>0 DEF Tasks
    <3>2. QED
      BY <1>0, <2>1, <3>1 DEF Scan, Trusted
  <2>2. CASE ~Trusted(E(p))
    <3>1. Go(p, "end", T(p))
      BY <2>2 DEF Scan, Keep, Go, T, IInv, TypeOK
    <3>2. QED
      BY <1>0, <3>1
  <2>3. QED
    BY <2>1, <2>2
<1>2. /\ pc' \in [Procs -> Places] /\ task' \in [Procs -> Tasks]
      /\ pc'[p] = place /\ T(p)' = t /\ Others(p)
  BY <1>1, GoEffect DEF IInv, Places, Loading, Installing
<1>3. PInv(p)'
  BY <1>1, <1>2 DEF PInv, HoldsInv, SavesInv, LoadedInv, PulledInv, Changing, Installing
<1>4. QED
  BY <1>0, <1>2, <1>3, SharedStep

LEMMA SelectStep ==
  ASSUME ExtensionAssumption, IInv, NEW p \in Procs, SelectToolchain(p)
  PROVE  Moves(p)
<1>0. /\ T(p) \in Tasks /\ pc[p] = "load" /\ UNCHANGED <<clones, store, locks, tools>>
      /\ LoadedInv(p) /\ UNCHANGED <<repo, trust, sh>>
  BY TaskType DEF SelectToolchain, IInv, PInv, clones, store, locks
<1>1. PICK place \in {"install", "end"}, t \in Tasks :
        /\ Go(p, place, t) /\ t.loaded = T(p).loaded /\ t.kind = T(p).kind
        /\ place = "install" => t.def # None /\ <<t.ext, t.def>> \in t.loaded
  <2>1. CASE Keep(p, "end")
    <3>1. Go(p, "end", T(p))
      BY <2>1 DEF Keep, Go, T, IInv, TypeOK
    <3>2. QED
      BY <1>0, <3>1
  <2>2. CASE ~Keep(p, "end")
    <3>1. PICK d \in T(p).loaded :
            Go(p, IF installed[d] # None THEN "end" ELSE "install",
               [T(p) EXCEPT !.ext = d[1], !.def = d[2]])
      BY <2>2 DEF SelectToolchain
    <3>2. d[1] \in Exts /\ d[2] \in Commits /\ d[2] # None /\ d = <<d[1], d[2]>>
      BY <1>0 DEF Tasks, Defs, CommitsMade, Commits, None
    <3>3. /\ [T(p) EXCEPT !.ext = d[1], !.def = d[2]] \in Tasks
          /\ [T(p) EXCEPT !.ext = d[1], !.def = d[2]].loaded = T(p).loaded
          /\ [T(p) EXCEPT !.ext = d[1], !.def = d[2]].kind = T(p).kind
          /\ [T(p) EXCEPT !.ext = d[1], !.def = d[2]].ext = d[1]
          /\ [T(p) EXCEPT !.ext = d[1], !.def = d[2]].def = d[2]
      BY <1>0, <3>2 DEF Tasks
    <3>4. QED
      BY <3>1, <3>2, <3>3
  <2>3. QED
    BY <2>1, <2>2
<1>2. /\ pc' \in [Procs -> Places] /\ task' \in [Procs -> Tasks]
      /\ pc'[p] = place /\ T(p)' = t /\ D(p)' = <<t.ext, t.def>> /\ Others(p)
  BY <1>1, GoEffect DEF IInv, Places, Loading, Installing
<1>3. LoadedInv(p)'
  BY <1>0, <1>1, <1>2 DEF LoadedInv, Loading, Installing
<1>4. PInv(p)'
  BY <1>1, <1>2, <1>3 DEF PInv, HoldsInv, SavesInv, PulledInv, Changing, Installing
<1>5. QED
  BY <1>0, <1>2, <1>4, QuietStep

LEMMA LoadStep ==
  ASSUME ExtensionAssumption, IInv, NEW p \in Procs, Load(p)
  PROVE  Moves(p)
BY ShareStep, VerifyStep, ScanStep, SelectStep DEF Load

-----------------------------------------------------------------------------
(* toolchain.Install: steps that keep what p has loaded locked.            *)
LEMMA InstallingStep ==
  ASSUME ExtensionAssumption, IInv, NEW p \in Procs, UNCHANGED <<clones, store, locks>>,
         installed' \in [Defs -> Commits], installer' \in [Defs -> Procs \cup {Free}],
         NEW place \in Loading, NEW t \in Tasks, Go(p, place, t),
         place \notin {"verify", "extract"}, pc[p] \in Loading,
         t.ext = E(p), t.def = T(p).def, t.kind = T(p).kind, t.loaded = T(p).loaded,
         place \in Installing => pc[p] \in Installing,
         place = "sum" => FALSE,
         (place = "publish" /\ T(p).kind = "build") => t.stage = t.def
  PROVE  Moves(p)
<1>1. UNCHANGED <<upstream, repo, trust, writer, ex, sh>>
  BY DEF clones, store, locks
<1>2. /\ pc' \in [Procs -> Places] /\ task' \in [Procs -> Tasks]
      /\ pc'[p] = place /\ T(p)' = t /\ E(p)' = E(p) /\ D(p)' = D(p) /\ Others(p)
  BY GoEffect DEF IInv, Places, D, E, T
<1>3. TypeOK' /\ ClonesInv' /\ AloneInv'
  BY <1>1, <1>2 DEF IInv, TypeOK, ClonesInv, AloneInv
<1>4. Guarantee(p)
  BY <1>1, <1>2 DEF Guarantee, Untouched, Stays
<1>5. PInv(p) /\ LoadedInv(p)'
  BY <1>1, <1>2 DEF IInv, PInv, LoadedInv
<1>6. PulledInv(p)'
  BY <1>2, <1>5 DEF PInv, PulledInv, Installing
<1>7. PInv(p)'
  BY <1>2, <1>5, <1>6 DEF PInv, HoldsInv, SavesInv, Loading, Changing, Installing
<1>8. QED
  BY <1>3, <1>4, <1>7 DEF Moves

LEMMA PulledDef ==
  ASSUME IInv, NEW p \in Procs, pc[p] \in Installing
  PROVE  D(p) \in Defs /\ T(p).def # None /\ T(p) \in Tasks /\ T(p).ext = E(p)
<1>1. T(p) \in Tasks /\ T(p).ext = E(p) /\ T(p).def # None
  BY TaskType DEF IInv, PInv, PulledInv, T, E
<1>2. QED
  BY <1>1 DEF D, Defs, Tasks, Commits

LEMMA KeepIsGo ==
  ASSUME IInv, NEW p \in Procs, NEW place, Keep(p, place)
  PROVE  Go(p, place, T(p))
BY DEF Keep, Go, T, IInv, TypeOK

LEMMA FailOrPublish ==
  ASSUME ExtensionAssumption, IInv, NEW p \in Procs, Fail(p) \/ Publish(p)
  PROVE  Moves(p)
<1>1. pc[p] \in Installing /\ UNCHANGED <<clones, store, locks>> /\ Go(p, "end", T(p))
  BY KeepIsGo DEF Fail, Publish, Installing
<1>2. D(p) \in Defs /\ T(p) \in Tasks /\ T(p).ext = E(p) /\ T(p).stage \in Commits
  BY <1>1, PulledDef DEF Tasks
<1>3. installed' \in [Defs -> Commits] /\ installer' \in [Defs -> Procs \cup {Free}]
  BY <1>2 DEF Fail, Publish, Unlocked, IInv, TypeOK
<1>4. QED
  BY <1>1, <1>2, <1>3, InstallingStep DEF Loading, Installing

LEMMA LockToolchainStep ==
  ASSUME ExtensionAssumption, IInv, NEW p \in Procs, LockToolchain(p)
  PROVE  Moves(p)
<1>1. pc[p] \in Installing /\ UNCHANGED <<clones, store, locks>>
  BY DEF LockToolchain, Installing
<1>2. PICK place \in {"end", "pull"} : Go(p, place, T(p))
  BY KeepIsGo DEF LockToolchain
<1>3. D(p) \in Defs /\ T(p) \in Tasks /\ T(p).ext = E(p)
  BY <1>1, PulledDef
<1>4. installed' \in [Defs -> Commits] /\ installer' \in [Defs -> Procs \cup {Free}]
  BY <1>3 DEF LockToolchain, IInv, TypeOK
<1>5. QED
  BY <1>1, <1>2, <1>3, <1>4, InstallingStep DEF Loading, Installing

(* The archive that is pulled is that of the checkout p has loaded.        *)
LEMMA MaterializeStep ==
  ASSUME ExtensionAssumption, IInv, NEW p \in Procs, Materialize(p)
  PROVE  Moves(p)
<1>1. /\ pc[p] = "pull" /\ repo[E(p)].head # None
      /\ UNCHANGED <<upstream, trust, writer, ex, sh, installed, installer>>
      /\ T(p) \in Tasks /\ E(p) \in Exts /\ T(p).ext = E(p) /\ PInv(p)
  BY TaskType DEF Materialize, store, locks, tools, IInv, T, E
<1>2. /\ pc' \in [Procs -> Places] /\ task' \in [Procs -> Tasks]
      /\ pc'[p] = "sum" /\ T(p)' = T(p) /\ E(p)' = E(p) /\ D(p)' = D(p) /\ Others(p)
  BY KeepEffect DEF IInv, Materialize, Places, Loading, Installing
<1>3. \A e \in Exts :
        /\ repo[e] \in [there : BOOLEAN, head : Commits, clean : BOOLEAN, archive : Commits]
        /\ repo[e].clean => repo[e].head # None
        /\ repo[e].archive # None => repo[e].archive = repo[e].head
  BY DEF IInv, TypeOK, ClonesInv
<1>4. PICK r \in [there : BOOLEAN, head : Commits, clean : BOOLEAN, archive : Commits] :
        /\ repo' = [repo EXCEPT ![E(p)] = r]
        /\ r.clean = repo[E(p)].clean /\ r.head = repo[E(p)].head
        /\ r.archive = IF repo[E(p)].archive = None THEN repo[E(p)].head ELSE repo[E(p)].archive
  <2>1. repo' = [repo EXCEPT ![E(p)] = [repo[E(p)] EXCEPT
                   !.archive = IF @ = None THEN repo[E(p)].head ELSE @]]
    BY DEF Materialize
  <2>2. repo[E(p)] \in [there : BOOLEAN, head : Commits, clean : BOOLEAN, archive : Commits]
    BY <1>1, <1>3
  <2>3. [repo[E(p)] EXCEPT !.archive = IF @ = None THEN repo[E(p)].head ELSE @]
          \in [there : BOOLEAN, head : Commits, clean : BOOLEAN, archive : Commits]
    BY <2>2
  <2>4. /\ [repo[E(p)] EXCEPT !.archive = IF @ = None THEN repo[E(p)].head ELSE @].clean
             = repo[E(p)].clean
        /\ [repo[E(p)] EXCEPT !.archive = IF @ = None THEN repo[E(p)].head ELSE @].head
             = repo[E(p)].head
        /\ [repo[E(p)] EXCEPT !.archive = IF @ = None THEN repo[E(p)].head ELSE @].archive
             = IF repo[E(p)].archive = None THEN repo[E(p)].head ELSE repo[E(p)].archive
    BY <2>2
  <2>5. QED
    BY <2>1, <2>3, <2>4
<1>5. /\ repo' \in [Exts -> [there : BOOLEAN, head : Commits, clean : BOOLEAN, archive : Commits]]
      /\ repo'[E(p)] = r /\ \A e \in Exts \ {E(p)} : repo'[e] = repo[e]
  BY <1>1, <1>4 DEF IInv, TypeOK
<1>6. \A e \in Exts : Stays(e)
  BY <1>1, <1>4, <1>5 DEF Stays
<1>7. ClonesInv'
  BY <1>1, <1>3, <1>4, <1>5 DEF ClonesInv
<1>8. TypeOK' /\ AloneInv'
  BY <1>1, <1>2, <1>5 DEF IInv, TypeOK, AloneInv
<1>9. Guarantee(p)
  BY <1>1, <1>2, <1>6 DEF Guarantee, Untouched
<1>10. LoadedInv(p)'
  <2>1. \A d \in T(p).loaded : d[1] \in Exts
    BY <1>1 DEF Tasks, Defs
  <2>2. QED
    BY <1>1, <1>2, <1>6, <2>1 DEF PInv, LoadedInv, Stays, Loading, Installing
<1>11. PulledInv(p)'
  <2>1. CASE T(p).kind = "build"
    <3>1. D(p) \in T(p).loaded /\ T(p).def # None
      BY <1>1, <2>1 DEF PInv, PulledInv, Installing
    <3>2. repo[E(p)].head = T(p).def
      BY <1>1, <3>1 DEF PInv, LoadedInv, D
    <3>3. r.archive = T(p).def
      BY <1>1, <1>3, <1>4, <3>1, <3>2
    <3>4. QED
      BY <1>2, <1>5, <3>1, <3>3 DEF PulledInv
  <2>2. CASE T(p).kind # "build"
    BY <1>1, <1>2, <2>2 DEF PInv, PulledInv, Installing
  <2>3. QED
    BY <2>1, <2>2
<1>12. QED
  BY <1>2, <1>7, <1>8, <1>9, <1>10, <1>11 DEF Moves, PInv, HoldsInv, SavesInv, Changing

LEMMA VerifyArchiveStep ==
  ASSUME ExtensionAssumption, IInv, NEW p \in Procs, VerifyArchive(p)
  PROVE  Moves(p)
<1>1. pc[p] = "sum" /\ UNCHANGED <<clones, store, locks, tools>> /\ UNCHANGED <<repo, trust, sh>> /\ PInv(p)
  BY DEF VerifyArchive, clones, store, locks, IInv
<1>2. /\ pc' \in [Procs -> Places] /\ task' \in [Procs -> Tasks]
      /\ pc'[p] = "extract" /\ T(p)' = T(p) /\ E(p)' = E(p) /\ D(p)' = D(p) /\ Others(p)
  BY KeepEffect DEF IInv, VerifyArchive, Places, Loading, Installing
<1>3. PInv(p)'
  BY <1>1, <1>2 DEF PInv, HoldsInv, SavesInv, LoadedInv, PulledInv, Changing, Loading, Installing
<1>4. QED
  BY <1>1, <1>2, <1>3, QuietStep

LEMMA ExtractStep ==
  ASSUME ExtensionAssumption, IInv, NEW p \in Procs, Extract(p)
  PROVE  Moves(p)
<1>1. /\ pc[p] = "extract" /\ UNCHANGED <<clones, store, locks, tools>>
      /\ UNCHANGED <<installed, installer>>
      /\ T(p) \in Tasks /\ T(p).ext = E(p) /\ PInv(p) /\ repo[E(p)].archive \in Commits
  BY TaskType DEF Extract, tools, IInv, T, E
<1>2. PICK t \in Tasks :
        /\ Go(p, "publish", t) /\ t.stage = repo[E(p)].archive
        /\ t.ext = E(p) /\ t.def = T(p).def /\ t.kind = T(p).kind /\ t.loaded = T(p).loaded
  <2>1. /\ [T(p) EXCEPT !.stage = repo[E(p)].archive] \in Tasks
        /\ [T(p) EXCEPT !.stage = repo[E(p)].archive].stage = repo[E(p)].archive
        /\ [T(p) EXCEPT !.stage = repo[E(p)].archive].ext = E(p)
        /\ [T(p) EXCEPT !.stage = repo[E(p)].archive].def = T(p).def
        /\ [T(p) EXCEPT !.stage = repo[E(p)].archive].kind = T(p).kind
        /\ [T(p) EXCEPT !.stage = repo[E(p)].archive].loaded = T(p).loaded
    BY <1>1 DEF Tasks
  <2>2. QED
    BY <2>1 DEF Extract
<1>3. T(p).kind = "build" => t.stage = t.def
  BY <1>1, <1>2 DEF PInv, PulledInv
<1>4. installed' \in [Defs -> Commits] /\ installer' \in [Defs -> Procs \cup {Free}]
  BY <1>1 DEF IInv, TypeOK
<1>5. QED
  BY <1>1, <1>2, <1>3, <1>4, InstallingStep DEF Loading, Installing

(* The end of a command and a kill drop all of its shared locks.           *)
LEMMA EndStep ==
  ASSUME ExtensionAssumption, IInv, NEW p \in Procs, End(p)
  PROVE  Moves(p)
<1>1. UNCHANGED <<upstream, repo, trust, writer, ex, installed, installer>>
  BY DEF End, clones, store, tools
<1>2. NoTask \in Tasks /\ NoTask.loaded = {} /\ Go(p, "idle", NoTask)
  BY NoTaskType DEF NoTask, End
<1>3. /\ pc' \in [Procs -> Places] /\ task' \in [Procs -> Tasks]
      /\ pc'[p] = "idle" /\ T(p)' = NoTask /\ Others(p)
  BY <1>2, GoEffect DEF IInv, Places
<1>4. /\ sh' \in [Exts -> SUBSET Procs]
      /\ \A e \in Exts : sh'[e] = sh[e] \ {p}
  BY DEF End, IInv, TypeOK
<1>5. TypeOK' /\ ClonesInv'
  BY <1>1, <1>3, <1>4 DEF IInv, TypeOK, ClonesInv
<1>6. AloneInv'
  BY <1>1, <1>4 DEF IInv, AloneInv
<1>7. Guarantee(p)
  BY <1>1, <1>3, <1>4 DEF Guarantee, Untouched, Stays
<1>8. PInv(p)'
  BY <1>2, <1>3 DEF PInv, HoldsInv, SavesInv, LoadedInv, PulledInv, Changing, Installing, NoTask
<1>9. QED
  BY <1>5, <1>6, <1>7, <1>8 DEF Moves

LEMMA InstallStep ==
  ASSUME ExtensionAssumption, IInv, NEW p \in Procs, Install(p)
  PROVE  Moves(p)
BY LockToolchainStep, MaterializeStep, VerifyArchiveStep, ExtractStep, FailOrPublish, EndStep
   DEF Install

LEMMA KillStep ==
  ASSUME ExtensionAssumption, IInv, NEW p \in Procs, Kill(p)
  PROVE  Moves(p)
<1>1. UNCHANGED <<upstream, trust, installed>> /\ E(p) \in Exts /\ None \in Commits
  BY TaskType DEF Kill, IInv, Commits
<1>2. NoTask \in Tasks /\ NoTask.loaded = {} /\ Go(p, "idle", NoTask)
  BY NoTaskType DEF NoTask, Kill
<1>3. /\ pc' \in [Procs -> Places] /\ task' \in [Procs -> Tasks]
      /\ pc'[p] = "idle" /\ T(p)' = NoTask /\ Others(p)
  BY <1>2, GoEffect DEF IInv, Places
<1>4. /\ sh' \in [Exts -> SUBSET Procs] /\ ex' \in [Exts -> Procs \cup {Free}]
      /\ writer' \in Procs \cup {Free} /\ installer' \in [Defs -> Procs \cup {Free}]
      /\ \A e \in Exts : sh'[e] = sh[e] \ {p} /\ ex'[e] = IF ex[e] = p THEN Free ELSE ex[e]
      /\ writer' = IF writer = p THEN Free ELSE writer
  BY DEF Kill, IInv, TypeOK
<1>5. AloneInv'
  BY <1>4 DEF IInv, AloneInv
<1>6. repo \in [Exts -> [there : BOOLEAN, head : Commits, clean : BOOLEAN, archive : Commits]]
  BY DEF IInv, TypeOK
<1>7. /\ repo' \in [Exts -> [there : BOOLEAN, head : Commits, clean : BOOLEAN, archive : Commits]]
      /\ ClonesInv' /\ \A e \in Exts : ex[e] # p => repo'[e] = repo[e]
  <2>1. CASE UNCHANGED repo
    BY <1>6, <2>1 DEF IInv, ClonesInv
  <2>2. CASE ~UNCHANGED repo
    <3>1. ex[E(p)] = p
      BY <2>2 DEF Kill, IInv, PInv, HoldsInv, Changing
    <3>2. /\ Damaged \in [there : BOOLEAN, head : Commits, clean : BOOLEAN, archive : Commits]
          /\ ~Damaged.clean /\ Damaged.archive = None
      BY <1>1 DEF Damaged, NoClone
    <3>3. PICK r \in [there : BOOLEAN, head : Commits, clean : BOOLEAN, archive : Commits] :
            /\ repo' = [repo EXCEPT ![E(p)] = r] /\ ~r.clean
            /\ r.archive # None => r.archive = r.head
      <4>1. \/ repo' = [repo EXCEPT ![E(p)] = Damaged]
            \/ repo' = [repo EXCEPT ![E(p)] = [repo[E(p)] EXCEPT !.clean = FALSE]]
        BY <2>2 DEF Kill
      <4>2. /\ repo[E(p)] \in [there : BOOLEAN, head : Commits, clean : BOOLEAN, archive : Commits]
            /\ repo[E(p)].archive # None => repo[E(p)].archive = repo[E(p)].head
        BY <1>1, <1>6 DEF IInv, ClonesInv
      <4>3. QED
        BY <3>2, <4>1, <4>2
    <3>4. QED
      BY <1>1, <1>6, <3>1, <3>3 DEF IInv, ClonesInv
  <2>3. QED
    BY <2>1, <2>2
<1>8. TypeOK'
  BY <1>1, <1>3, <1>4, <1>7 DEF IInv, TypeOK
<1>9. Guarantee(p)
  BY <1>1, <1>3, <1>4, <1>7 DEF Guarantee, Untouched, Stays
<1>10. PInv(p)'
  BY <1>2, <1>3 DEF PInv, HoldsInv, SavesInv, LoadedInv, PulledInv, Changing, Installing, NoTask
<1>11. QED
  BY <1>5, <1>7, <1>8, <1>9, <1>10 DEF Moves

-----------------------------------------------------------------------------
LEMMA InitHolds == ASSUME ExtensionAssumption, ExtensionInit PROVE IInv
<1>1. /\ NoTask \in Tasks /\ NoTask.loaded = {} /\ NoTask.kind = "none"
      /\ NoClone \in [there : BOOLEAN, head : Commits, clean : BOOLEAN, archive : Commits]
      /\ ~NoClone.clean /\ NoClone.archive = None /\ None \in Commits
      /\ 1 \in CommitsMade
  BY NoTaskType DEF NoTask, NoClone, Commits, CommitsMade, ExtensionAssumption
<1>2. TypeOK
  BY <1>1 DEF ExtensionInit, TypeOK, Places
<1>3. ClonesInv /\ AloneInv
  BY <1>1 DEF ExtensionInit, ClonesInv, AloneInv
<1>4. ASSUME NEW p \in Procs PROVE PInv(p)
  <2>1. T(p) = NoTask /\ pc[p] = "idle"
    BY DEF ExtensionInit, T
  <2>2. QED
    BY <1>1, <2>1 DEF PInv, HoldsInv, SavesInv, LoadedInv, PulledInv, Changing, Loading, Installing
<1>5. QED
  BY <1>2, <1>3, <1>4 DEF IInv

LEMMA PushStep == ASSUME ExtensionAssumption, IInv, Push PROVE IInv'
<1>1. /\ UNCHANGED <<repo, trust, writer, ex, sh, installed, installer, pc, task>>
      /\ \E e \in Exts : upstream[e] < MaxCommit /\ upstream' = [upstream EXCEPT ![e] = @ + 1]
  BY DEF Push, store, locks, tools
<1>2. upstream' \in [Exts -> CommitsMade]
  BY <1>1 DEF ExtensionAssumption, IInv, TypeOK, CommitsMade
<1>3. TypeOK' /\ ClonesInv' /\ AloneInv'
  BY <1>1, <1>2 DEF IInv, TypeOK, ClonesInv, AloneInv
<1>4. \A p \in Procs : PInv(p)'
  BY <1>1 DEF IInv, PInv, HoldsInv, SavesInv, LoadedInv, PulledInv, T, E, D
<1>5. QED
  BY <1>3, <1>4 DEF IInv

LEMMA IdleStep == ASSUME IInv, UNCHANGED extensionVars PROVE IInv'
BY DEF extensionVars, clones, store, locks, tools, IInv, TypeOK, ClonesInv, AloneInv, PInv, HoldsInv,
       SavesInv, LoadedInv, PulledInv, T, E, D

LEMMA NextHolds == ASSUME ExtensionAssumption, IInv, [ExtensionNext]_extensionVars PROVE IInv'
<1>1. ASSUME NEW p \in Procs, Begin(p) \/ Change(p) \/ Load(p) \/ Install(p) \/ Kill(p)
      PROVE  IInv'
  BY <1>1, BeginStep, ChangeStep, LoadStep, InstallStep, KillStep, Combine
<1>2. QED
  BY <1>1, PushStep, IdleStep DEF ExtensionNext

(* The inductive invariant.                                                *)
THEOREM Invariant == ASSUME ExtensionAssumption PROVE ExtensionSpec => []IInv
<1>1. ExtensionInit => IInv
  BY InitHolds
<1>2. IInv /\ [ExtensionNext]_extensionVars => IInv'
  BY NextHolds
<1>3. QED
  BY <1>1, <1>2, PTL DEF ExtensionSpec

(* What a command has loaded stays as it was trusted until the command     *)
(* ends, and what it installs from it is whole and of that commit, for any *)
(* commands at once, any extensions and any kills (loadPlugins,            *)
(* toolchain.Install).                                                     *)
THEOREM ExtensionsHold == ASSUME ExtensionAssumption PROVE ExtensionSpec => []ExtensionsAreSound
<1>1. IInv => ExtensionsAreSound
  <2>1. IInv => LoadedStays
    BY DEF IInv, PInv, LoadedInv, LoadedStays
  <2>2. IInv => ToolchainIsWhole
    BY DEF IInv, TypeOK, PInv, PulledInv, ToolchainIsWhole, Commits
  <2>3. QED
    BY <2>1, <2>2 DEF ExtensionsAreSound
<1>2. QED
  BY <1>1, Invariant, PTL

(* No record of the trust store is lost or made by a command about another *)
(* name, whoever else writes it at the same time (Store.update).           *)
THEOREM RecordsHold == ASSUME ExtensionAssumption PROVE ExtensionSpec => RecordsChangeAlone
<1>1. ASSUME IInv, [ExtensionNext]_extensionVars, trust' # trust
      PROVE  \A r \in (trust \ trust') \cup (trust' \ trust) :
               \E p \in Procs : pc[p] = "save" /\ pc'[p] # "save" /\ E(p) = r[1]
  <2>1. PICK p \in Procs : SaveStore(p)
    BY <1>1 DEF ExtensionNext, Push, Begin, Build, Add, Update, Trust, Untrust, RemoveExtension, Start, Provision,
                Command, Change, LockRepo, Clone, AlreadyThere, UpdateRepoLocked, RemoveRepo, Refuse,
                TrustCommit, LockStore, StoreFails, UnlockRepo, Load, ShareRepo, Verify, Scan,
                SelectToolchain, Install, LockToolchain, Materialize, VerifyArchive, Extract, Fail,
                Publish, End, Kill, extensionVars, store
  <2>2. pc[p] = "save" /\ pc'[p] = "unlock"
    BY <1>1, <2>1 DEF SaveStore, Keep, Goto, IInv, TypeOK
  <2>3. \A r \in (trust \ trust') \cup (trust' \ trust) : r \in Exts \X Commits /\ r[1] = E(p)
    BY <1>1, <2>1, SaveEffect DEF IInv, TypeOK
  <2>4. QED
    BY <2>2, <2>3
<1>2. IInv /\ [ExtensionNext]_extensionVars =>
        [\A r \in (trust \ trust') \cup (trust' \ trust) :
           \E p \in Procs : pc[p] = "save" /\ pc'[p] # "save" /\ E(p) = r[1]]_trust
  BY <1>1
<1>3. QED
  BY <1>2, Invariant, PTL DEF ExtensionSpec, RecordsChangeAlone

-----------------------------------------------------------------------------
(* The registry of toolchains and plugins *)

Providers == Paths \cup PluginIds \cup {Nobody}
Items == {"toolchain", "flags", "handler"} \X (ToolchainNames \cup {Nameless})
RegistryTypeOK ==
  /\ definition \in [Paths -> [name : ToolchainNames, kind : FileKinds]]
  /\ scanned \in 0..Definitions /\ turn \in Nat
  /\ extensions \in [ToolchainNames -> Providers] /\ onMissing \in [ToolchainNames -> Providers]
  /\ sources \in [ToolchainNames -> Providers]
  /\ errors \subseteq (ToolchainNames \cup {Nameless}) \X Paths
  /\ reg \in [running : BOOLEAN, toolchains : SUBSET ToolchainNames, handlers : SUBSET ToolchainNames,
              flags : BOOLEAN, failed : BOOLEAN]
  /\ loaded \subseteq PluginIds /\ made \in [PluginIds -> SUBSET Items]

(* Plugins come one by one and after the scan; whose turn has not come has *)
(* done nothing.                                                           *)
TurnInv ==
  /\ turn > Definitions /\ \A q \in loaded : q < turn
  /\ scanned < Definitions => turn = Definitions + 1 /\ ~reg.running
  /\ reg.running => turn \in PluginIds
  /\ \A q \in PluginIds : (q > turn \/ (q = turn /\ ~reg.running)) => made[q] = {}

(* What the running main was told is registered is in its registration.    *)
CollectedInv ==
  reg.running => \A n \in ToolchainNames \cup {Nameless} :
    /\ <<"toolchain", n>> \in made[turn] => n \in reg.toolchains
    /\ <<"handler", n>> \in made[turn] => n \in reg.handlers
    /\ <<"flags", n>> \in made[turn] => reg.flags

(* A plugin that is not loaded has left nothing, one that is all it made.  *)
WholeInv ==
  /\ \A q \in PluginIds \ loaded :
       q \notin flags /\ \A n \in ToolchainNames : q # extensions[n] /\ q # onMissing[n]
  /\ \A q \in loaded, n \in ToolchainNames \cup {Nameless} :
       /\ <<"toolchain", n>> \in made[q] => n \in ToolchainNames /\ extensions[n] # Nobody
       /\ <<"handler", n>> \in made[q] => n \in ToolchainNames /\ onMissing[n] \in loaded
       /\ <<"flags", n>> \in made[q] => q \in flags

(* Of every file that was scanned and could be read, the registry has the  *)
(* toolchain or an error; of two with one name, one has an error.          *)
ScanInv ==
  /\ \A path \in 1..scanned :
       LET d == definition[path] IN
       d.kind # "unreadable" =>
         \/ <<d.name, path>> \in errors
         \/ d.kind \notin {"invalid", "elsewhere"} /\ sources[d.name] = path
  /\ selected.by # Nobody => scanned = Definitions /\ selected.name \in ToolchainNames /\ ~Unusable(selected.name)

RegistryInvariant == RegistryTypeOK /\ TurnInv /\ CollectedInv /\ WholeInv /\ ScanInv

LEMMA RegistryInitInvariant == RegistryInit => RegistryInvariant
BY RegistryAssumption DEF RegistryInit, RegistryInvariant, RegistryTypeOK, TurnInv, CollectedInv, WholeInv, ScanInv,
   NoReg, Providers, Items, Paths, PluginIds, Nobody

(* The file that is scanned next *)
LEMMA NextFile ==
  ASSUME RegistryInvariant, scanned < Definitions
  PROVE  /\ scanned + 1 \in Paths /\ scanned \in Nat
         /\ definition[scanned + 1].name \in ToolchainNames /\ definition[scanned + 1].kind \in FileKinds
         /\ loaded = {} /\ scanned + 1 \notin PluginIds /\ scanned + 1 # Nobody
<1> USE RegistryAssumption DEF RegistryInvariant, RegistryTypeOK, TurnInv
<1>1. scanned + 1 \in Paths /\ scanned \in Nat /\ scanned + 1 \notin PluginIds /\ scanned + 1 # Nobody
  BY DEF Paths, PluginIds, Nobody
<1>2. definition[scanned + 1] \in [name : ToolchainNames, kind : FileKinds]
  BY <1>1
<1>3. \A q \in loaded : q \in PluginIds /\ q < Definitions + 1
  OBVIOUS
<1>4. loaded = {}
  BY <1>3 DEF PluginIds
<1> QED
  BY <1>1, <1>2, <1>4

LEMMA RegistryTypeStep ==
  RegistryInvariant /\ [RegistryNext]_registryVars => RegistryTypeOK'
<1> SUFFICES ASSUME RegistryInvariant, [RegistryNext]_registryVars PROVE RegistryTypeOK'
  OBVIOUS
<1> USE RegistryAssumption
<1> USE DEF RegistryInvariant, RegistryTypeOK, TurnInv, Providers, Paths, PluginIds, Nobody
<1>0. /\ <<"flags", Nameless>> \in Items
      /\ \A n \in ToolchainNames : <<"toolchain", n>> \in Items /\ <<"handler", n>> \in Items
  BY DEF Items
<1>1. CASE RegisterBad
  BY <1>1 DEF RegisterBad, Scanning, NoPlugin, RegisterToolchainError
<1>2. CASE RegisterDuplicate
  BY <1>2 DEF RegisterDuplicate, Scanning, NoPlugin, RegisterToolchainError
<1>3. CASE RegisterDefinition
  <2>1. scanned + 1 \in Paths /\ definition[scanned + 1].name \in ToolchainNames
    BY <1>3, NextFile DEF RegisterDefinition, Scanning
  <2>2. extensions' \in [ToolchainNames -> Providers] /\ sources' \in [ToolchainNames -> Providers]
    BY <1>3, <2>1 DEF RegisterDefinition, Scanning
  <2>3. onMissing' \in [ToolchainNames -> Providers]
    BY <1>3, <2>1 DEF RegisterDefinition, Scanning
  <2>4. scanned' \in 0..Definitions
    <3>1. scanned' = scanned + 1
      BY <1>3 DEF RegisterDefinition, Scanning
    <3> QED
      BY <2>1, <3>1
  <2> QED
    BY <1>3, <2>2, <2>3, <2>4 DEF RegisterDefinition, NoPlugin
<1>4. CASE RunMain
  BY <1>4 DEF RunMain, Collects, manager, NoReg, Running
<1>5. CASE AddGlobalFlags
  <2>1. made' \in [PluginIds -> SUBSET Items]
    BY <1>5, <1>0 DEF AddGlobalFlags, Collects, Keeps, Running, manager
  <2> QED
    BY <1>5, <2>1 DEF AddGlobalFlags, Collects, Keeps, Running, manager
<1>6. CASE SetOnMissingInvalid
  BY <1>6 DEF SetOnMissingInvalid, Collects, manager, Running
<1>7. CASE Abort
  BY <1>7 DEF Abort, Running, NoReg, manager
<1>8. CASE Commit
  BY <1>8 DEF Commit, Running, NoReg
<1>9. CASE SkipPlugin
  BY <1>9 DEF SkipPlugin, Running, manager
<1>10. ASSUME NEW n \in ToolchainNames, RegisterToolchain(n) PROVE RegistryTypeOK'
  <2>1. made' \in [PluginIds -> SUBSET Items]
    BY <1>10, <1>0 DEF RegisterToolchain, Collects, Keeps, Running, manager
  <2> QED
    BY <1>10, <2>1 DEF RegisterToolchain, Collects, Keeps, Running, manager
<1>11. ASSUME NEW n \in ToolchainNames, SetOnMissing(n) PROVE RegistryTypeOK'
  <2>1. made' \in [PluginIds -> SUBSET Items]
    BY <1>11, <1>0 DEF SetOnMissing, Collects, Keeps, Running, manager
  <2> QED
    BY <1>11, <2>1 DEF SetOnMissing, Collects, Keeps, Running, manager
<1>12. ASSUME NEW q \in PluginIds, NEW n \in ToolchainNames, RegisterLate(q, n) PROVE RegistryTypeOK'
  <2>1. CASE made' = [made EXCEPT ![q] = @ \cup {<<"toolchain", n>>}]
    <3>1. made' \in [PluginIds -> SUBSET Items]
      BY <1>0, <2>1
    <3> QED
      BY <1>12, <3>1 DEF RegisterLate, Only
  <2>2. CASE made' = [made EXCEPT ![q] = @ \cup {<<"handler", n>>}]
    <3>1. made' \in [PluginIds -> SUBSET Items]
      BY <1>0, <2>2
    <3> QED
      BY <1>12, <3>1 DEF RegisterLate, Only
  <2> QED
    BY <1>12, <2>1, <2>2 DEF RegisterLate
<1>13. ASSUME NEW n \in ToolchainNames, SelectRegistered(n) PROVE RegistryTypeOK'
  BY <1>13 DEF SelectRegistered, Only
<1>14. CASE UNCHANGED registryVars
  BY <1>14 DEF registryVars, manager
<1> QED
  BY <1>1, <1>2, <1>3, <1>4, <1>5, <1>6, <1>7, <1>8, <1>9, <1>10, <1>11, <1>12, <1>13, <1>14 DEF RegistryNext

LEMMA TurnStep ==
  RegistryInvariant /\ [RegistryNext]_registryVars => TurnInv'
<1> SUFFICES ASSUME RegistryInvariant, [RegistryNext]_registryVars PROVE TurnInv'
  OBVIOUS
<1> USE RegistryAssumption
<1> USE DEF RegistryInvariant, RegistryTypeOK, TurnInv, Providers, Paths, PluginIds, Nobody
<1>1. CASE RegisterBad
  BY <1>1 DEF RegisterBad, Scanning, RegisterToolchainError, NoPlugin
<1>2. CASE RegisterDuplicate
  BY <1>2 DEF RegisterDuplicate, Scanning, RegisterToolchainError, NoPlugin
<1>3. CASE RegisterDefinition
  BY <1>3 DEF RegisterDefinition, Scanning, NoPlugin
<1>4. CASE RunMain
  BY <1>4 DEF RunMain, Running, Collects, manager, NoReg
<1>5. CASE AddGlobalFlags
  BY <1>5 DEF AddGlobalFlags, Running, Collects, Keeps, manager
<1>6. CASE SetOnMissingInvalid
  BY <1>6 DEF SetOnMissingInvalid, Running, Collects, manager
<1>7. CASE Abort
  BY <1>7 DEF Abort, Running, NoReg, manager
<1>8. CASE Commit
  BY <1>8 DEF Commit, Running, NoReg
<1>9. CASE SkipPlugin
  BY <1>9 DEF SkipPlugin, Running, manager
<1>10. ASSUME NEW n \in ToolchainNames, RegisterToolchain(n) PROVE TurnInv'
  BY <1>10 DEF RegisterToolchain, Running, Collects, Keeps, manager
<1>11. ASSUME NEW n \in ToolchainNames, SetOnMissing(n) PROVE TurnInv'
  BY <1>11 DEF SetOnMissing, Running, Collects, Keeps, manager
<1>12. ASSUME NEW q \in PluginIds, NEW n \in ToolchainNames, RegisterLate(q, n) PROVE TurnInv'
  BY <1>12 DEF RegisterLate, Loaded, Only
<1>13. ASSUME NEW n \in ToolchainNames, SelectRegistered(n) PROVE TurnInv'
  BY <1>13 DEF SelectRegistered, Loaded, Only
<1>14. CASE UNCHANGED registryVars
  BY <1>14 DEF registryVars, manager
<1> QED
  BY <1>1, <1>2, <1>3, <1>4, <1>5, <1>6, <1>7, <1>8, <1>9, <1>10, <1>11, <1>12, <1>13, <1>14 DEF RegistryNext

LEMMA CollectedStep ==
  RegistryInvariant /\ [RegistryNext]_registryVars => CollectedInv'
<1> SUFFICES ASSUME RegistryInvariant, [RegistryNext]_registryVars PROVE CollectedInv'
  OBVIOUS
<1> USE RegistryAssumption
<1> USE DEF RegistryInvariant, RegistryTypeOK, TurnInv, CollectedInv, Items, Providers, Paths, PluginIds, Nobody
<1>1. CASE RegisterBad
  BY <1>1 DEF RegisterBad, Scanning, RegisterToolchainError, NoPlugin
<1>2. CASE RegisterDuplicate
  BY <1>2 DEF RegisterDuplicate, Scanning, RegisterToolchainError, NoPlugin
<1>3. CASE RegisterDefinition
  BY <1>3 DEF RegisterDefinition, Scanning, NoPlugin
<1>4. CASE RunMain
  BY <1>4 DEF RunMain, Running, Collects, manager, NoReg
<1>5. CASE AddGlobalFlags
  BY <1>5 DEF AddGlobalFlags, Running, Collects, Keeps, manager
<1>6. CASE SetOnMissingInvalid
  BY <1>6 DEF SetOnMissingInvalid, Running, Collects, manager
<1>7. CASE Abort
  BY <1>7 DEF Abort, Running, NoReg, manager
<1>8. CASE Commit
  BY <1>8 DEF Commit, Running, NoReg
<1>9. CASE SkipPlugin
  BY <1>9 DEF SkipPlugin, Running, manager
<1>10. ASSUME NEW n \in ToolchainNames, RegisterToolchain(n) PROVE CollectedInv'
  BY <1>10 DEF RegisterToolchain, Running, Collects, Keeps, manager
<1>11. ASSUME NEW n \in ToolchainNames, SetOnMissing(n) PROVE CollectedInv'
  BY <1>11 DEF SetOnMissing, Running, Collects, Keeps, manager
<1>12. ASSUME NEW q \in PluginIds, NEW n \in ToolchainNames, RegisterLate(q, n) PROVE CollectedInv'
  BY <1>12 DEF RegisterLate, Loaded, Only
<1>13. ASSUME NEW n \in ToolchainNames, SelectRegistered(n) PROVE CollectedInv'
  BY <1>13 DEF SelectRegistered, Loaded, Only
<1>14. CASE UNCHANGED registryVars
  BY <1>14 DEF registryVars, manager
<1> QED
  BY <1>1, <1>2, <1>3, <1>4, <1>5, <1>6, <1>7, <1>8, <1>9, <1>10, <1>11, <1>12, <1>13, <1>14 DEF RegistryNext

LEMMA WholeStep ==
  RegistryInvariant /\ [RegistryNext]_registryVars => WholeInv'
<1> SUFFICES ASSUME RegistryInvariant, [RegistryNext]_registryVars PROVE WholeInv'
  OBVIOUS
<1> USE RegistryAssumption
<1> USE DEF RegistryInvariant, RegistryTypeOK, TurnInv, CollectedInv, WholeInv, Items, Providers, Paths, PluginIds, Nobody
<1>1. CASE RegisterBad
  BY <1>1 DEF RegisterBad, Scanning, RegisterToolchainError, NoPlugin
<1>2. CASE RegisterDuplicate
  BY <1>2 DEF RegisterDuplicate, Scanning, RegisterToolchainError, NoPlugin
<1>3. CASE RegisterDefinition
  <2>1. loaded = {} /\ scanned + 1 \notin PluginIds
    BY <1>3, NextFile DEF RegisterDefinition, Scanning
  <2>2. \A n \in ToolchainNames :
          /\ extensions'[n] \in {extensions[n], scanned + 1}
          /\ onMissing'[n] \in {onMissing[n], scanned + 1}
    <3> DEFINE file == scanned + 1
               d == definition[file]
    <3>1. /\ extensions' = [extensions EXCEPT ![d.name] = file]
          /\ onMissing' \in {onMissing, [onMissing EXCEPT ![d.name] = file]}
      BY <1>3 DEF RegisterDefinition
    <3> QED
      BY <3>1
  <2>3. loaded' = {} /\ flags' = flags
    BY <1>3, <2>1 DEF RegisterDefinition, NoPlugin
  <2> QED
    BY <2>1, <2>2, <2>3
<1>4. CASE RunMain
  BY <1>4 DEF RunMain, Running, Collects, manager, NoReg
<1>5. CASE AddGlobalFlags
  BY <1>5 DEF AddGlobalFlags, Running, Collects, Keeps, manager
<1>6. CASE SetOnMissingInvalid
  BY <1>6 DEF SetOnMissingInvalid, Running, Collects, manager
<1>7. CASE Abort
  BY <1>7 DEF Abort, Running, NoReg, manager
<1>8. CASE Commit
  BY <1>8 DEF Commit, Running, NoReg
<1>9. CASE SkipPlugin
  BY <1>9 DEF SkipPlugin, Running, manager
<1>10. ASSUME NEW n \in ToolchainNames, RegisterToolchain(n) PROVE WholeInv'
  BY <1>10 DEF RegisterToolchain, Running, Collects, Keeps, manager
<1>11. ASSUME NEW n \in ToolchainNames, SetOnMissing(n) PROVE WholeInv'
  BY <1>11 DEF SetOnMissing, Running, Collects, Keeps, manager
<1>12. ASSUME NEW q \in PluginIds, NEW n \in ToolchainNames, RegisterLate(q, n) PROVE WholeInv'
  BY <1>12 DEF RegisterLate, Loaded, Only
<1>13. ASSUME NEW n \in ToolchainNames, SelectRegistered(n) PROVE WholeInv'
  BY <1>13 DEF SelectRegistered, Loaded, Only
<1>14. CASE UNCHANGED registryVars
  BY <1>14 DEF registryVars, manager
<1> QED
  BY <1>1, <1>2, <1>3, <1>4, <1>5, <1>6, <1>7, <1>8, <1>9, <1>10, <1>11, <1>12, <1>13, <1>14 DEF RegistryNext

LEMMA FilesStep ==
  RegistryInvariant /\ [RegistryNext]_registryVars => ScanInv'
<1> SUFFICES ASSUME RegistryInvariant, [RegistryNext]_registryVars PROVE ScanInv'
  OBVIOUS
<1> USE RegistryAssumption
<1> USE DEF RegistryInvariant, RegistryTypeOK, ScanInv, Unusable, Providers, Paths, Nobody
<1>1. CASE RegisterBad
  BY <1>1 DEF RegisterBad, Scanning, NoPlugin, RegisterToolchainError
<1>2. CASE RegisterDuplicate
  BY <1>2 DEF RegisterDuplicate, Scanning, NoPlugin, RegisterToolchainError
<1>3. CASE RegisterDefinition
  <2> DEFINE file == scanned + 1
             d == definition[file]
  <2>1. /\ file \in Paths /\ scanned \in Nat /\ d.name \in ToolchainNames
        /\ definition' = definition /\ errors' = errors /\ selected' = selected
        /\ selected.by = Nobody /\ scanned' = file
    <3>1. scanned < Definitions /\ scanned' = file /\ UNCHANGED <<definition, errors, selected>>
      BY <1>3 DEF RegisterDefinition, Scanning, NoPlugin
    <3> QED
      BY <3>1, NextFile
  <2>2. d.kind \notin {"invalid", "elsewhere"} /\ sources[d.name] = Nobody /\ sources' = [sources EXCEPT ![d.name] = file]
    BY <1>3 DEF RegisterDefinition
  <2>3. ASSUME NEW path \in 1..scanned', definition[path].kind # "unreadable"
        PROVE  \/ <<definition[path].name, path>> \in errors
               \/ /\ definition[path].kind \notin {"invalid", "elsewhere"}
                  /\ sources'[definition[path].name] = path
    <3>1. CASE path = file
      BY <2>1, <2>2, <3>1
    <3>2. CASE path # file
      <4>1. path \in 1..scanned /\ path # Nobody
        BY <2>1, <3>2
      <4> QED
        BY <2>1, <2>2, <2>3, <4>1
    <3> QED
      BY <3>1, <3>2
  <2> QED
    BY <2>1, <2>3
<1>4. CASE UNCHANGED <<definition, scanned, sources, errors, selected>>
  BY <1>4
<1>5. ASSUME NEW n \in ToolchainNames, SelectRegistered(n) PROVE ScanInv'
  BY <1>5 DEF SelectRegistered, Only, Loaded
<1>6. ASSUME RunMain \/ AddGlobalFlags \/ SetOnMissingInvalid \/ Abort \/ Commit \/ SkipPlugin \/ UNCHANGED registryVars
      PROVE  UNCHANGED <<definition, scanned, sources, errors, selected>>
  BY <1>6 DEF RunMain, AddGlobalFlags, SetOnMissingInvalid, Abort, Commit, SkipPlugin, Collects, manager, registryVars
<1>7. ASSUME NEW n \in ToolchainNames,
             RegisterToolchain(n) \/ SetOnMissing(n) \/ \E q \in PluginIds : RegisterLate(q, n)
      PROVE  UNCHANGED <<definition, scanned, sources, errors, selected>>
  BY <1>7 DEF RegisterToolchain, SetOnMissing, RegisterLate, Collects, manager, Only
<1> QED
  BY <1>1, <1>2, <1>3, <1>4, <1>5, <1>6, <1>7 DEF RegistryNext

(* What a plugin has been told is registered is, and nothing of a plugin   *)
(* that failed; of every file that was scanned there is a toolchain or an  *)
(* error.                                                                  *)
THEOREM RegistryInductive == RegistrySpec => []RegistryInvariant
<1>1. RegistryInvariant /\ [RegistryNext]_registryVars => RegistryInvariant'
  BY RegistryTypeStep, TurnStep, CollectedStep, WholeStep, FilesStep DEF RegistryInvariant
<1> QED
  BY <1>1, RegistryInitInvariant, PTL DEF RegistrySpec

(* A plugin is loaded as a whole or not at all, and a toolchain whose name *)
(* is defined twice, or in a file that is no good, is never selected.      *)
THEOREM RegistryHolds == RegistrySpec => []RegistryIsSound
<1>1. RegistryInvariant => PluginIsWhole
  <2> SUFFICES ASSUME RegistryInvariant PROVE PluginIsWhole
    OBVIOUS
  <2>1. ASSUME NEW q \in loaded, NEW item \in made[q]
        PROVE  /\ item[1] \in {"toolchain", "flags", "handler"} /\ item[2] \in ToolchainNames \cup {Nameless}
               /\ item = <<item[1], item[2]>>
    BY <2>1 DEF RegistryInvariant, RegistryTypeOK, Items
  <2>2. ASSUME NEW q \in PluginIds \ loaded
        PROVE  q \notin flags /\ \A n \in ToolchainNames : q \notin {extensions[n], onMissing[n]}
    BY DEF RegistryInvariant, WholeInv
  <2>3. ASSUME NEW q \in loaded, NEW item \in made[q]
        PROVE  /\ item[1] = "toolchain" => extensions[item[2]] # Nobody
               /\ item[1] = "handler" => onMissing[item[2]] \in PluginIds /\ onMissing[item[2]] \in loaded
               /\ item[1] = "flags" => q \in flags
    <3> DEFINE n == item[2]
    <3>1. n \in ToolchainNames \cup {Nameless} /\ <<item[1], n>> \in made[q] /\ loaded \subseteq PluginIds
      BY <2>1, <2>3 DEF RegistryInvariant, RegistryTypeOK
    <3> HIDE DEF n
    <3>2. /\ item[1] = "toolchain" => extensions[n] # Nobody
          /\ item[1] = "handler" => onMissing[n] \in PluginIds /\ onMissing[n] \in loaded
          /\ item[1] = "flags" => q \in flags
      BY <3>1 DEF RegistryInvariant, WholeInv
    <3> QED
      BY <3>2 DEF n
  <2> QED
    BY <2>1, <2>2, <2>3 DEF PluginIsWhole
<1>2. RegistryInvariant => DuplicatesAreUnusable
  <2> SUFFICES ASSUME RegistryInvariant, selected.by # Nobody,
                      NEW path \in Paths, definition[path].name = selected.name,
                      definition[path].kind # "unreadable",
                      \/ definition[path].kind \in {"invalid", "elsewhere"}
                      \/ \E other \in Paths \ {path} :
                           definition[other].name = selected.name /\ definition[other].kind # "unreadable"
               PROVE  FALSE
    BY DEF DuplicatesAreUnusable
  <2> QED
    BY DEF RegistryInvariant, ScanInv, Unusable, Paths
<1> QED
  BY <1>1, <1>2, RegistryInductive, PTL DEF RegistryIsSound

-----------------------------------------------------------------------------
(* LinkInputs.                                                             *)

IsBuild(b) ==
  /\ b = [f \in {"pc", "next", "plan", "linked", "refused"} |-> b[f]]
  /\ b.plan = [t \in AllTargets |-> b.plan[t]] /\ b.refused # "missing"
  /\ b.pc # "idle" => b.next \in DOMAIN Order
LinkTypeOK ==
  /\ deps \in Graphs /\ IsBuild(build)
  /\ disk = [t \in AllTargets |-> disk[t]]
  /\ \A t \in AllTargets : disk[t] = [f \in {"exts", "link", "members"} |-> disk[t][f]]
  /\ vendor = [t \in AllTargets |-> {VendorObject(t)}]

(* The outputs a build has made so far, and those a plan was made with.    *)
HasOutput(t) == kind[t] # "void" => OutputOf(t).ext \in disk[t].exts
MadeSoFar ==
  build.pc # "idle" => \A i \in DOMAIN Order : i < build.next => HasOutput(Order[i])
PlannedOnMade == \A t \in AllTargets : Planned(t) => ~MissingOutput(t)

LinkInvariant == LinkTypeOK /\ MadeSoFar /\ PlannedOnMade

LEMMA OrderType ==
  ASSUME LinkAssumption
  PROVE  /\ Len(Order) \in Nat \ {0} /\ DOMAIN Order = 1..Len(Order)
         /\ \A i \in DOMAIN Order : Order[i] \in AllTargets
<1>1. Order \in Seq(AllTargets) /\ Order # <<>>
  BY DEF LinkAssumption
<1> QED BY <1>1

(* The dependencies of a target come before it.                            *)
LEMMA DependenciesBefore ==
  ASSUME LinkAssumption, deps \in Graphs, NEW i \in DOMAIN Order, NEW d \in ToSet(deps[Order[i]])
  PROVE  \E j \in DOMAIN Order : d = Order[j] /\ j < i
<1>1. d \in {Order[j] : j \in 1 .. i - 1}
  BY DEF LinkAssumption
<1>2. PICK j \in 1 .. i - 1 : d = Order[j]
  BY <1>1
<1> QED BY <1>2, OrderType

(* Where the outputs of a build only get more, a plan stays possible.      *)
LEMMA OutputsStay ==
  ASSUME LinkInvariant, UNCHANGED <<deps, kind, os, decl>>,
         \A t \in AllTargets : disk[t].exts \subseteq disk'[t].exts
  PROVE  /\ \A t : OutputOf(t)' = OutputOf(t)
         /\ \A t \in AllTargets : HasOutput(t) => HasOutput(t)'
<1>1. \A t : OutputOf(t)' = OutputOf(t)
  BY DEF OutputOf, ImportLibrary, Has, Ext, File
<1> QED BY <1>1 DEF HasOutput

LEMMA MissingMeans ==
  ASSUME LinkAssumption, deps \in Graphs, NEW t \in AllTargets
  PROVE  /\ ~MissingOutput(t) <=> \A d \in ToSet(deps[t]) : HasOutput(d)
         /\ ToSet(deps[t]) \subseteq AllTargets
<1>1. PICK i \in DOMAIN Order : t = Order[i]
  BY DEF AllTargets, ToSet
<1>2. ToSet(deps[t]) \subseteq AllTargets
  BY <1>1, DependenciesBefore, OrderType
<1> QED BY <1>2 DEF MissingOutput, HasOutput

LEMMA PlansStay ==
  ASSUME LinkAssumption, LinkInvariant, UNCHANGED <<deps, kind, os, decl>>, deps' \in Graphs,
         \A t \in AllTargets : disk[t].exts \subseteq disk'[t].exts,
         NEW t \in AllTargets, ~MissingOutput(t)
  PROVE  ~MissingOutput(t)'
<1>1. \A d \in ToSet(deps[t]) : HasOutput(d) /\ d \in AllTargets
  BY MissingMeans DEF LinkInvariant, LinkTypeOK
<1>2. \A d \in ToSet(deps[t]) : HasOutput(d)'
  BY <1>1, OutputsStay
<1>3. \A d \in ToSet(deps[t]) : kind'[d] # "void" => OutputOf(d)'.ext \in disk'[d].exts
  BY <1>2 DEF HasOutput
<1> QED BY <1>3 DEF MissingOutput

(* A plan is made of outputs that are there, so no build is refused for    *)
(* one that is not.                                                        *)
LEMMA ResolveStep ==
  ASSUME LinkAssumption, LinkInvariant, Resolve
  PROVE  LinkInvariant'
<1> DEFINE r == Resolved(Current)
           refusal == IF ResolveRefusal(Current) # "none" THEN ResolveRefusal(Current)
                      ELSE PlanRefusal(Current, r)
<1>1. /\ UNCHANGED <<deps, kind, os, decl, disk, vendor>> /\ build.pc = "resolve"
      /\ deps \in Graphs /\ IsBuild(build) /\ build.next \in DOMAIN Order
  BY DEF Resolve, Writing, At, LinkInvariant, LinkTypeOK, IsBuild
<1>2. Current \in AllTargets
  BY <1>1, OrderType DEF Current
<1>3. ~MissingOutput(Current)
  <2>1. SUFFICES ASSUME NEW d \in ToSet(deps[Current]) PROVE HasOutput(d)
    BY <1>1, <1>2, MissingMeans
  <2>2. PICK j \in DOMAIN Order : d = Order[j] /\ j < build.next
    BY <1>1, DependenciesBefore DEF Current
  <2> QED BY <1>1, <2>2 DEF LinkInvariant, MadeSoFar
<1>4. ResolveRefusal(Current) # "missing"
  BY <1>3 DEF ResolveRefusal
<1>5. PlanRefusal(Current, r) # "missing"
  BY DEF PlanRefusal
<1>6. refusal # "missing"
  BY <1>4, <1>5
<1>7. \A t \in AllTargets : MissingOutput(t)' = MissingOutput(t)
  BY <1>1 DEF MissingOutput, OutputOf, ImportLibrary, Has, Ext, File
<1>8. \A t : HasOutput(t)' = HasOutput(t)
  BY <1>1 DEF HasOutput, OutputOf, ImportLibrary, Has, Ext, File
<1>9. CASE build' = [build EXCEPT !.pc = "idle", !.refused = refusal]
  <2> HIDE DEF refusal
  <2>1. IsBuild(build') /\ build'.plan = build.plan /\ build'.pc = "idle"
    BY <1>1, <1>6, <1>9 DEF IsBuild
  <2>2. LinkTypeOK'
    BY <1>1, <2>1 DEF LinkInvariant, LinkTypeOK
  <2>3. PlannedOnMade'
    BY <1>7, <2>1 DEF LinkInvariant, PlannedOnMade, Planned
  <2> QED BY <2>1, <2>2, <2>3 DEF LinkInvariant, MadeSoFar
<1>10. CASE \E plan : build' = [build EXCEPT !.pc = "link", !.plan[Current] = plan]
  <2>1. PICK plan : build' = [build EXCEPT !.pc = "link", !.plan[Current] = plan]
    BY <1>10
  <2>2. /\ IsBuild(build') /\ build'.next = build.next
        /\ \A t \in AllTargets \ {Current} : build'.plan[t] = build.plan[t]
    BY <1>1, <1>2, <2>1 DEF IsBuild
  <2>3. LinkTypeOK'
    BY <1>1, <2>2 DEF LinkInvariant, LinkTypeOK
  <2>4. PlannedOnMade'
    BY <1>3, <1>7, <2>2 DEF LinkInvariant, PlannedOnMade, Planned
  <2>5. MadeSoFar'
    BY <1>1, <1>8, <2>2 DEF LinkInvariant, MadeSoFar
  <2> QED BY <2>3, <2>4, <2>5 DEF LinkInvariant
<1> QED
  <2>1. \/ build' = [build EXCEPT !.pc = "idle", !.refused = refusal]
        \/ build' = [build EXCEPT !.pc = "link",
                        !.plan[Current] = [resolved |-> r, args |-> LinkCommand(Current, r)]]
    BY DEF Resolve, RefuseBuild
  <2> HIDE DEF refusal, r
  <2> QED BY <2>1, <1>9, <1>10

(* What has just been linked is the target whose turn it was, and it has   *)
(* its output now.                                                         *)
LEMMA LinkedStep ==
  ASSUME LinkAssumption, LinkInvariant, Linked, At("link"), UNCHANGED <<deps, kind, os, decl>>,
         NEW now, now = Current, HasOutput(now)',
         disk' = [t \in AllTargets |-> disk'[t]],
         \A t \in AllTargets : /\ disk[t].exts \subseteq disk'[t].exts
                              /\ disk'[t] = [f \in {"exts", "link", "members"} |-> disk'[t][f]],
         vendor' = vendor
  PROVE  LinkInvariant'
<1>1. deps \in Graphs /\ IsBuild(build) /\ build.next \in DOMAIN Order
  BY DEF At, LinkInvariant, LinkTypeOK, IsBuild
<1>2. Len(Order) \in Nat \ {0} /\ DOMAIN Order = 1..Len(Order)
  BY OrderType
<1>3. /\ IsBuild(build') /\ build'.plan = build.plan
      /\ build'.pc # "idle" => build'.next = build.next + 1
  <2> DEFINE ends == build.next = Len(Order)
             goes == IF ends THEN "idle" ELSE "resolve"
             next == IF ends THEN build.next ELSE build.next + 1
  <2>1. build' = [build EXCEPT !.pc = goes, !.next = next, !.linked = @ \cup {Current}]
    BY DEF Linked
  <2>2. (goes # "idle" => next = build.next + 1 /\ next \in DOMAIN Order)
    BY <1>1, <1>2
  <2> HIDE DEF goes, next
  <2> QED BY <1>1, <2>1, <2>2 DEF IsBuild
<1>4. LinkTypeOK'
  BY <1>1, <1>3 DEF LinkInvariant, LinkTypeOK
<1>5. PlannedOnMade'
  <2> SUFFICES ASSUME NEW t \in AllTargets, Planned(t)' PROVE ~MissingOutput(t)'
    BY DEF PlannedOnMade
  <2>1. ~MissingOutput(t)
    BY <1>3 DEF LinkInvariant, PlannedOnMade, Planned
  <2> QED BY <1>1, <2>1, PlansStay
<1>6. MadeSoFar'
  <2> SUFFICES ASSUME build'.pc # "idle", NEW i \in DOMAIN Order, i < build'.next
               PROVE HasOutput(Order[i])'
    BY DEF MadeSoFar
  <2>1. CASE i = build.next
    <3>1. now = Order[i]
      BY <2>1 DEF Current
    <3> QED BY <3>1
  <2>2. CASE i < build.next
    <3>1. HasOutput(Order[i]) /\ Order[i] \in AllTargets
      BY <2>2, OrderType DEF LinkInvariant, MadeSoFar, At
    <3> QED BY <3>1, OutputsStay
  <2> QED BY <1>1, <1>2, <1>3, <2>1, <2>2
<1> QED BY <1>4, <1>5, <1>6 DEF LinkInvariant

LEMMA LinkStep ==
  ASSUME LinkAssumption, LinkInvariant, Link
  PROVE  LinkInvariant'
<1> PICK t : t = Current
  OBVIOUS
<1> DEFINE out == Cleared(t)
           members == (IF kind[t] = "static" THEN out.members ELSE {}) \cup Made(Plan.args)
           content == members \cup (IF Has(t, "symbolPrefix") THEN {PostLinked(t)} ELSE {})
           put == [out EXCEPT !.members = IF out.link THEN {} ELSE content, !.exts = @ \cup Outputs(t)]
<1>1. /\ UNCHANGED <<deps, kind, os, decl>> /\ Linked /\ At("link")
      /\ disk' = [disk EXCEPT ![t] = put]
      /\ vendor' = IF out.link THEN [vendor EXCEPT ![t] = content] ELSE vendor
  BY DEF Link, Written, Writing
<1>2. t \in AllTargets
  BY <1>1, OrderType DEF Current, At, LinkInvariant, LinkTypeOK, IsBuild
<1>3. disk = [s \in AllTargets |-> disk[s]] /\ disk[t] = [f \in {"exts", "link", "members"} |-> disk[t][f]]
  BY <1>2 DEF LinkInvariant, LinkTypeOK
<1> HIDE DEF content
<1>4. /\ out = [f \in {"exts", "link", "members"} |-> out[f]] /\ out.exts = disk[t].exts /\ ~out.link
  BY <1>3 DEF Cleared
<1> HIDE DEF out
<1>5. put = [f \in {"exts", "link", "members"} |-> put[f]] /\ put.exts = disk[t].exts \cup Outputs(t)
  BY <1>4
<1> HIDE DEF put
<1>6. vendor' = vendor
  BY <1>1, <1>4
<1>7. disk' = [s \in AllTargets |-> disk'[s]] /\ disk'[t] = put /\ \A s \in AllTargets \ {t} : disk'[s] = disk[s]
  BY <1>1, <1>2, <1>3
<1>8. \A s \in AllTargets : /\ disk[s].exts \subseteq disk'[s].exts
                           /\ disk'[s] = [f \in {"exts", "link", "members"} |-> disk'[s][f]]
  BY <1>5, <1>7 DEF LinkInvariant, LinkTypeOK
<1>9. HasOutput(t)'
  <2>1. OutputOf(t).ext \in Outputs(t)
    BY DEF OutputOf, File, Outputs
  <2>2. OutputOf(t)' = OutputOf(t)
    BY <1>1, <1>8, OutputsStay
  <2> QED BY <1>5, <1>7, <2>1, <2>2 DEF HasOutput
<1> QED BY <1>1, <1>6, <1>7, <1>8, <1>9, LinkedStep

LEMMA PrebuiltStep ==
  ASSUME LinkAssumption, LinkInvariant, RealizePrebuilt
  PROVE  LinkInvariant'
<1> PICK t : t = Current
  OBVIOUS
<1> DEFINE members == IF Has(t, "symbolPrefix") THEN vendor[t] \cup {PostLinked(t)} ELSE {}
           put == [exts |-> disk[t].exts \cup {Ext(kind[t])}, link |-> ~Has(t, "symbolPrefix"),
                    members |-> members]
<1>1. /\ UNCHANGED <<deps, kind, os, decl, vendor>> /\ Linked /\ At("link") /\ Has(t, "prebuilt")
      /\ disk' = [disk EXCEPT ![t] = put]
  BY DEF RealizePrebuilt, Writing
<1>2. t \in AllTargets
  BY <1>1, OrderType DEF Current, At, LinkInvariant, LinkTypeOK, IsBuild
<1>3. disk = [s \in AllTargets |-> disk[s]]
  BY DEF LinkInvariant, LinkTypeOK
<1> HIDE DEF members
<1>5. /\ put = [f \in {"exts", "link", "members"} |-> put[f]]
      /\ put.exts = disk[t].exts \cup {Ext(kind[t])}
  OBVIOUS
<1> HIDE DEF put
<1>7. disk' = [s \in AllTargets |-> disk'[s]] /\ disk'[t] = put /\ \A s \in AllTargets \ {t} : disk'[s] = disk[s]
  BY <1>1, <1>2, <1>3
<1>8. \A s \in AllTargets : /\ disk[s].exts \subseteq disk'[s].exts
                           /\ disk'[s] = [f \in {"exts", "link", "members"} |-> disk'[s][f]]
  BY <1>5, <1>7 DEF LinkInvariant, LinkTypeOK
<1>9. HasOutput(t)'
  <2>1. OutputOf(t).ext = Ext(kind[t])
    BY <1>1 DEF OutputOf, File
  <2>2. OutputOf(t)' = OutputOf(t)
    BY <1>1, <1>8, OutputsStay
  <2> QED BY <1>5, <1>7, <2>1, <2>2 DEF HasOutput
<1> QED BY <1>1, <1>7, <1>8, <1>9, LinkedStep

LEMMA OtherLinkStep ==
  ASSUME LinkAssumption, LinkInvariant, Edit \/ Declare \/ BuildVoid \/ UNCHANGED vars
  PROVE  LinkInvariant'
<1>0. LinkTypeOK
  BY DEF LinkInvariant
<1>1. CASE Edit
  <2>1. UNCHANGED <<deps, kind, os, decl, build, disk, vendor>>
    BY <1>1 DEF Edit, Writing
  <2> QED BY <2>1 DEF LinkInvariant, LinkTypeOK, MadeSoFar, PlannedOnMade, Planned, HasOutput,
                      MissingOutput, OutputOf, ImportLibrary, Has, Ext, File
<1>2. CASE Declare
  <2>1. /\ UNCHANGED <<deps, disk, vendor>>
        /\ \/ build' = [NoBuild EXCEPT !.refused = "set twice"]
           \/ build' = [NoBuild EXCEPT !.pc = "resolve", !.next = 1]
    BY <1>2 DEF Declare, Writing
  <2>2. /\ IsBuild(build') /\ (build'.pc # "idle" => build'.next = 1)
        /\ \A t \in AllTargets : build'.plan[t] = <<>>
    <3>1. 1 \in DOMAIN Order
      BY OrderType
    <3>2. CASE build' = [NoBuild EXCEPT !.refused = "set twice"]
      BY <3>2 DEF IsBuild, NoBuild
    <3>3. CASE build' = [NoBuild EXCEPT !.pc = "resolve", !.next = 1]
      BY <3>1, <3>3 DEF IsBuild, NoBuild
    <3> QED BY <2>1, <3>2, <3>3
  <2>3. LinkTypeOK'
    BY <1>0, <2>1, <2>2 DEF LinkTypeOK
  <2>4. MadeSoFar' /\ PlannedOnMade'
    BY <2>2, OrderType DEF MadeSoFar, PlannedOnMade, Planned
  <2> QED BY <2>3, <2>4 DEF LinkInvariant
<1>3. CASE BuildVoid
  <2>1. /\ UNCHANGED <<deps, kind, os, decl, disk, vendor>> /\ Linked /\ At("link")
        /\ kind[Current] = "void"
    BY <1>3 DEF BuildVoid, Writing
  <2> PICK now : now = Current
    OBVIOUS
  <2>2. HasOutput(now)'
    BY <2>1 DEF HasOutput
  <2>3. /\ disk' = [t \in AllTargets |-> disk'[t]]
        /\ \A t \in AllTargets : /\ disk[t].exts \subseteq disk'[t].exts
                                 /\ disk'[t] = [f \in {"exts", "link", "members"} |-> disk'[t][f]]
    BY <1>0, <2>1 DEF LinkTypeOK
  <2> QED BY <2>1, <2>2, <2>3, LinkedStep
<1>4. CASE UNCHANGED vars
  BY <1>4 DEF vars, LinkInvariant, LinkTypeOK, MadeSoFar, PlannedOnMade, Planned, HasOutput,
              MissingOutput, OutputOf, ImportLibrary, Has, Ext, File
<1> QED BY <1>1, <1>2, <1>3, <1>4

(* The inductive invariant: a build has the outputs of all targets before  *)
(* the one at hand, and what a plan was made with stays.                   *)
THEOREM LinkInductive == ASSUME LinkAssumption PROVE Spec => []LinkInvariant
<1>1. Init => LinkInvariant
  <2> HAVE Init
  <2>1. IsBuild(build) /\ build.pc = "idle" /\ \A t \in AllTargets : build.plan[t] = <<>>
    BY DEF Init, NoBuild, IsBuild
  <2>2. LinkTypeOK
    BY <2>1 DEF Init, LinkTypeOK, NoOutput
  <2> QED BY <2>1, <2>2 DEF LinkInvariant, MadeSoFar, PlannedOnMade, Planned
<1>2. LinkInvariant /\ [Next]_vars => LinkInvariant'
  BY ResolveStep, LinkStep, PrebuiltStep, OtherLinkStep DEF Next
<1> QED BY <1>1, <1>2, PTL DEF Spec

(* Whatever scripts declare and however they are edited between builds: no *)
(* build misses an output that it has itself made, and none writes to a    *)
(* file the user gave as prebuilt.                                         *)
THEOREM OutputsHold == ASSUME LinkAssumption PROVE Spec => [](OutputsAreMade /\ VendorFilesStay)
<1>1. LinkInvariant => OutputsAreMade /\ VendorFilesStay
  BY DEF LinkInvariant, LinkTypeOK, IsBuild, PlannedOnMade, OutputsAreMade, VendorFilesStay
<1> QED BY <1>1, LinkInductive, PTL
=============================================================================
