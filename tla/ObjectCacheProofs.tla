--------------------------- MODULE ObjectCacheProofs ---------------------------
(***************************************************************************)
(* Proofs about what builds leave for the next: ObjectCache, for any       *)
(* processes, refs and commits, and GeneratedFiles, for any targets,       *)
(* packages and inputs.                                                    *)
(*                                                                         *)
(* Whoever writes the entry holds its lock from the first look at the      *)
(* repository to the metadata (EntryInv), so nothing that it has seen      *)
(* changes in between; what is known of a clone without the lock depends   *)
(* on its own task alone (TaskInv).                                        *)
(***************************************************************************)
EXTENDS ObjectCache, GeneratedFiles, TLAPS

Tasks ==
  [ref : CacheRefs \cup {NoCacheRef}, commit : Shas \cup {NoSha}, pinned : BOOLEAN,
   offline : BOOLEAN, local : CacheRefs \cup {NoCacheRef}, goal : {"commit", "ref", "best"},
   nested : BOOLEAN, seen : BOOLEAN, created : BOOLEAN,
   meta : [CacheRefs -> Shas \cup {NoSha}], got : Shas \cup {NoSha}]

EntryType ==
  /\ kind \in Kinds /\ parts \subseteq AllParts
  /\ refs \in [CacheRefs -> Shas \cup {NoSha}] /\ recorded \in [CacheRefs -> Shas \cup {NoSha}]

Shape ==
  /\ remote \in [CacheRefs -> Shas] /\ EntryType
  /\ lock \in Procs \cup {Free}
  /\ cachePc \in [Procs -> Places] /\ task \in [Procs -> Tasks]

(* The entry: unless a removal was cut short, it has all of what it has a  *)
(* part of, and of what it names.                                          *)
NamesInv ==
  /\ kind \notin {"whole", "torn"} => parts = {}
  /\ kind = "whole" => commits \subseteq objects
  /\ RecordedIsAnchored

(* A task t, wherever others are.                                          *)
Wanting == Places \ {"idle", "head", "remove", "removing", "done", "failed"}
TaskInv(place, t) ==
  /\ t.goal = "ref" \/ t.nested \/ place = "again" => t.local \in CacheRefs
  /\ place \in Wanting => t.commit \in Shas
  /\ place = "probe" => t.ref \in CacheRefs
  /\ t.pinned => t.goal # "best" /\ place \notin {"head", "remove", "removing"}
  /\ place = "done" /\ t.pinned => t.got = t.commit

(* p and the entry, while p writes it.                                     *)
EntryInv(p) ==
  /\ cachePc[p] \in Critical => lock = p
  /\ cachePc[p] \in {"want", "fetch", "anchor", "save", "undo"} => Loads
  /\ cachePc[p] \in Removals => kind = "torn"
  /\ cachePc[p] \in {"want", "fetch", "anchor", "save"} /\ kind = "whole" =>
       \A r \in CacheRefs : T(p).meta[r] # NoSha => T(p).meta[r] \in anchors
  /\ cachePc[p] = "anchor" => T(p).commit \in commits

PInv(p) == TaskInv(cachePc[p], T(p)) /\ EntryInv(p)
IInv == Shape /\ NamesInv /\ \A p \in Procs : PInv(p)

-----------------------------------------------------------------------------
(* What a step of p leaves to the others.                                  *)
Others(p) ==
  \A q \in Procs \ {p} :
    /\ cachePc'[q] = cachePc[q] /\ task'[q] = task[q]
    /\ lock = q => lock' = q /\ UNCHANGED repo

Moves(p) == Shape' /\ NamesInv' /\ Others(p) /\ PInv(p)'

LEMMA Combine ==
  ASSUME IInv, NEW p \in Procs, Moves(p)
  PROVE  IInv'
<1>1. ASSUME NEW q \in Procs \ {p} PROVE PInv(q)'
  <2>1. PInv(q) /\ cachePc'[q] = cachePc[q] /\ T(q)' = T(q)
    BY DEF IInv, Moves, Others, T
  <2>2. TaskInv(cachePc[q], T(q))'
    BY <2>1 DEF PInv, TaskInv
  <2>3. CASE cachePc[q] \in Critical
    <3>1. lock' = q /\ UNCHANGED <<kind, parts, commits, anchors>>
      BY <2>1, <2>3 DEF PInv, EntryInv, Moves, Others, repo
    <3>2. EntryInv(q)'
      BY <2>1, <2>3, <3>1 DEF PInv, EntryInv, Loads
    <3>3. QED
      BY <2>2, <3>2 DEF PInv
  <2>4. CASE cachePc[q] \notin Critical
    <3>1. EntryInv(q)'
      BY <2>1, <2>4 DEF EntryInv, Critical, Removals
    <3>2. QED
      BY <2>2, <3>1 DEF PInv
  <2>5. QED
    BY <2>3, <2>4
<1>2. QED
  BY <1>1 DEF Moves, IInv

LEMMA TaskType ==
  ASSUME IInv, NEW p \in Procs
  PROVE  T(p) \in Tasks /\ task[p] = T(p) /\ cachePc[p] \in Places /\ PInv(p)
BY DEF IInv, Shape, T

LEMMA NoTaskType ==
  ASSUME CacheAssumption
  PROVE  /\ NoTask \in Tasks /\ ~NoTask.pinned /\ NoTask.goal = "commit" /\ ~NoTask.nested
         /\ NoTask.meta \in [CacheRefs -> Shas \cup {NoSha}]
BY DEF CacheAssumption, NoTask, Tasks

LEMMA GoEffect ==
  ASSUME IInv, NEW p \in Procs, NEW place \in Places, NEW t \in Tasks, CacheGo(p, place, t)
  PROVE  /\ cachePc' \in [Procs -> Places] /\ task' \in [Procs -> Tasks]
         /\ cachePc'[p] = place /\ T(p)' = t
         /\ \A q \in Procs \ {p} : cachePc'[q] = cachePc[q] /\ task'[q] = task[q]
BY DEF CacheGo, CacheGoto, IInv, Shape, T

LEMMA KeepIsGo ==
  ASSUME IInv, NEW p \in Procs, NEW place, Keep(p, place)
  PROVE  CacheGo(p, place, T(p))
BY DEF Keep, CacheGo, T, IInv, Shape

(* A step outside of the lock: the entry and the upstream stay.            *)
LEMMA QuietStep ==
  ASSUME IInv, NEW p \in Procs, UNCHANGED <<remote, repo, lock>>,
         NEW place \in Places \ Critical, NEW t \in Tasks, CacheGo(p, place, t), TaskInv(place, t)
  PROVE  Moves(p)
<1>1. /\ cachePc' \in [Procs -> Places] /\ task' \in [Procs -> Tasks]
      /\ cachePc'[p] = place /\ T(p)' = t
      /\ \A q \in Procs \ {p} : cachePc'[q] = cachePc[q] /\ task'[q] = task[q]
  BY GoEffect
<1>2. Shape' /\ NamesInv' /\ Others(p)
  BY <1>1 DEF IInv, Shape, EntryType, NamesInv, RecordedIsAnchored, Others, repo
<1>3. PInv(p)'
  BY <1>1 DEF PInv, EntryInv, TaskInv, Critical, Removals
<1>4. QED
  BY <1>2, <1>3 DEF Moves

(* A step under the lock, that may let go of it.                           *)
LEMMA LockedStep ==
  ASSUME IInv, NEW p \in Procs, lock = p, UNCHANGED remote,
         EntryType', NamesInv',
         lock' \in {p, Free},
         NEW place \in Places, NEW t \in Tasks, CacheGo(p, place, t), TaskInv(place, t), EntryInv(p)'
  PROVE  Moves(p)
<1>1. /\ cachePc' \in [Procs -> Places] /\ task' \in [Procs -> Tasks]
      /\ cachePc'[p] = place /\ T(p)' = t
      /\ \A q \in Procs \ {p} : cachePc'[q] = cachePc[q] /\ task'[q] = task[q]
  BY GoEffect
<1>2. Shape' /\ Others(p)
  BY <1>1 DEF IInv, Shape, Others
<1>3. PInv(p)'
  BY <1>1 DEF PInv, TaskInv
<1>4. QED
  BY <1>2, <1>3 DEF Moves

-----------------------------------------------------------------------------
(* Steps that take no lock.                                                *)
LEMMA BeginStep ==
  ASSUME IInv, NEW p \in Procs, NEW place \in {"plan", "head", "remove"}, NEW t \in Tasks,
         Begin(p, place, t), TaskInv(place, t)
  PROVE  Moves(p)
<1>1. place \in Places \ Critical
  BY DEF Places, Critical
<1>2. QED
  BY <1>1, QuietStep DEF Begin

LEMMA StartStep ==
  ASSUME CacheAssumption, IInv, NEW p \in Procs, Start(p)
  PROVE  Moves(p)
<1>0. /\ NoTask \in Tasks /\ ~NoTask.pinned /\ NoTask.goal = "commit" /\ ~NoTask.nested
  BY NoTaskType
<1>1. CASE ClonePinned(p)
  <2>1. PICK r \in CacheRefs \cup {NoCacheRef}, c \in Shas, offline \in BOOLEAN :
          Begin(p, "plan",
                [NoTask EXCEPT !.ref = r, !.commit = c, !.pinned = TRUE, !.offline = offline])
    BY <1>1 DEF ClonePinned
  <2>2. PICK t : t = [NoTask EXCEPT !.ref = r, !.commit = c, !.pinned = TRUE, !.offline = offline]
    OBVIOUS
  <2>3. t \in Tasks /\ t.commit = c /\ t.goal = "commit" /\ ~t.nested
    BY <1>0, <2>2 DEF Tasks
  <2>4. QED
    BY <2>1, <2>2, <2>3, BeginStep DEF TaskInv
<1>2. CASE CloneResolved(p)
  <2>1. PICK r \in CacheRefs, c \in Shas, offline \in BOOLEAN :
          Begin(p, "plan",
                [NoTask EXCEPT !.ref = r, !.commit = c, !.local = r, !.offline = offline])
    BY <1>2 DEF CloneResolved
  <2>2. PICK t : t = [NoTask EXCEPT !.ref = r, !.commit = c, !.local = r, !.offline = offline]
    OBVIOUS
  <2>3. t \in Tasks /\ t.commit = c /\ t.local = r /\ ~t.pinned
    BY <1>0, <2>2 DEF Tasks
  <2>4. QED
    BY <2>1, <2>2, <2>3, BeginStep DEF TaskInv
<1>3. CASE CloneHead(p)
  <2>1. [NoTask EXCEPT !.goal = "best"] \in Tasks
    BY <1>0 DEF Tasks
  <2>2. TaskInv("head", [NoTask EXCEPT !.goal = "best"])
    BY <1>0 DEF TaskInv, Tasks, Wanting
  <2>3. QED
    BY <1>3, <2>1, <2>2, BeginStep DEF CloneHead
<1>4. CASE BeginRemove(p)
  BY <1>0, <1>4, BeginStep DEF BeginRemove, TaskInv, Wanting
<1>5. CASE Finish(p)
  <2>1. TaskInv("idle", NoTask) /\ "idle" \in Places \ Critical
    BY <1>0 DEF TaskInv, Wanting, Places, Critical
  <2>2. QED
    BY <1>0, <1>5, <2>1, QuietStep DEF Finish
<1>6. QED
  BY <1>1, <1>2, <1>3, <1>4, <1>5 DEF Start

LEMMA PlanStep ==
  ASSUME CacheAssumption, IInv, NEW p \in Procs, RecordHead(p) \/ PlanClone(p) \/ Probe(p)
  PROVE  Moves(p)
<1>0. /\ T(p) \in Tasks /\ PInv(p) /\ UNCHANGED <<remote, repo, lock>>
      /\ remote[HeadRef] \in Shas
  BY TaskType DEF RecordHead, PlanClone, Probe, IInv, Shape, CacheAssumption
<1>p. {"failed", "ensure", "checkout", "probe"} \subseteq Places \ Critical
  BY DEF Places, Critical
<1>1. CASE RecordHead(p)
  <2>0. ~T(p).pinned /\ cachePc[p] = "head"
    BY <1>0, <1>1 DEF RecordHead, PInv, TaskInv
  <2>1. CASE Keep(p, "failed")
    <3>1. CacheGo(p, "failed", T(p)) /\ TaskInv("failed", T(p))
      BY <1>0, <2>0, <2>1, KeepIsGo DEF PInv, TaskInv, Wanting
    <3>2. QED
      BY <1>0, <1>p, <3>1, QuietStep
  <2>2. CASE ~Keep(p, "failed")
    <3>1. PICK t : /\ t = [T(p) EXCEPT !.commit = remote[HeadRef], !.got = remote[HeadRef]]
                   /\ CacheGo(p, "ensure", t)
      BY <1>1, <2>2 DEF RecordHead
    <3>2. /\ t \in Tasks /\ t.commit \in Shas /\ t.goal = T(p).goal /\ t.nested = T(p).nested
          /\ t.local = T(p).local /\ ~t.pinned
      BY <1>0, <2>0, <3>1 DEF Tasks
    <3>3. TaskInv("ensure", t)
      BY <1>0, <3>2 DEF PInv, TaskInv
    <3>4. QED
      BY <1>0, <1>p, <3>1, <3>2, <3>3, QuietStep
  <2>3. QED
    BY <2>1, <2>2
<1>2. CASE PlanClone(p) \/ Probe(p)
  <2>0. cachePc[p] \in Wanting /\ T(p).commit \in Shas
    BY <1>0, <1>2 DEF PlanClone, Probe, PInv, TaskInv, Wanting, Places
  <2>3. T(p).ref # NoCacheRef => T(p).ref \in CacheRefs
    BY <1>0 DEF Tasks
  <2>1. ASSUME NEW place \in {"failed", "ensure", "probe"}, Keep(p, place),
               place = "probe" => T(p).ref # NoCacheRef
        PROVE  Moves(p)
    <3>1. CacheGo(p, place, T(p)) /\ TaskInv(place, T(p))
      BY <1>0, <2>0, <2>1, <2>3, KeepIsGo DEF PInv, TaskInv
    <3>2. QED
      BY <1>0, <1>p, <3>1, QuietStep
  <2>2. ASSUME NEW place \in {"checkout", "ensure"}, NEW t \in Tasks, CacheGo(p, place, t),
               t.pinned = T(p).pinned, t.commit = T(p).commit, t.nested = T(p).nested,
               \/ t.goal = "commit" /\ t.local = T(p).local
               \/ t.goal = "ref" /\ t.local \in CacheRefs
        PROVE  Moves(p)
    <3>1. TaskInv(place, t)
      BY <1>0, <2>0, <2>2 DEF PInv, TaskInv
    <3>2. QED
      BY <1>0, <1>p, <2>2, <3>1, QuietStep
  <2>4. ASSUME T(p).ref # NoCacheRef, CacheGo(p, "ensure", [T(p) EXCEPT !.goal = "ref", !.local = T(p).ref])
        PROVE  Moves(p)
    <3>1. PICK t : t = [T(p) EXCEPT !.goal = "ref", !.local = T(p).ref]
      OBVIOUS
    <3>2. /\ t \in Tasks /\ t.goal = "ref" /\ t.local = T(p).ref /\ t.commit = T(p).commit
          /\ t.nested = T(p).nested /\ t.pinned = T(p).pinned
      BY <1>0, <3>1 DEF Tasks
    <3>3. QED
      BY <2>2, <2>3, <2>4, <3>1, <3>2
  <2>5. CASE PlanClone(p)
    <3>1. ASSUME CacheGo(p, "checkout", [T(p) EXCEPT !.goal = "commit", !.seen = TRUE])
          PROVE  Moves(p)
      <4>1. PICK t : t = [T(p) EXCEPT !.goal = "commit", !.seen = TRUE]
        OBVIOUS
      <4>2. /\ t \in Tasks /\ t.goal = "commit" /\ t.local = T(p).local /\ t.commit = T(p).commit
            /\ t.nested = T(p).nested /\ t.pinned = T(p).pinned
        BY <1>0, <4>1 DEF Tasks
      <4>3. QED
        BY <2>2, <3>1, <4>1, <4>2
    <3>2. QED
      BY <2>1, <2>4, <2>5, <3>1 DEF PlanClone
  <2>6. CASE Probe(p)
    <3>1. T(p).ref \in CacheRefs /\ NoCacheRef \notin CacheRefs
      BY <1>0, <2>6 DEF Probe, PInv, TaskInv, CacheAssumption
    <3>2. QED
      BY <2>1, <2>4, <2>6, <3>1 DEF Probe
  <2>7. QED
    BY <1>2, <2>5, <2>6
<1>3. QED
  BY <1>1, <1>2

-----------------------------------------------------------------------------
(* ensureCacheEntry, under the lock of the entry.                          *)
Ensuring == Critical \ {"removing"}

LEMMA Ensures ==
  ASSUME IInv, NEW p \in Procs, cachePc[p] \in Ensuring
  PROVE  /\ lock = p /\ T(p) \in Tasks /\ TaskInv(cachePc[p], T(p)) /\ EntryInv(p)
         /\ cachePc[p] \in Wanting /\ T(p).commit \in Shas
         /\ T(p).goal = "ref" => T(p).local \in CacheRefs
BY TaskType DEF Ensuring, Critical, Wanting, Places, PInv, TaskInv, EntryInv

(* Where a clone goes after it, and that it can.                           *)
LEMMA AfterTask ==
  ASSUME IInv, NEW p \in Procs, cachePc[p] \in Ensuring, NEW ok \in BOOLEAN, NEW t \in Tasks,
         t.goal = T(p).goal, t.nested = T(p).nested, t.local = T(p).local,
         t.commit = T(p).commit, t.pinned = T(p).pinned
  PROVE  /\ After(p, ok) \in {"done", "checkout", "again", "upstream"}
         /\ TaskInv(After(p, ok), t)
BY Ensures DEF After, TaskInv

(* p lets go of the lock with its result.                                  *)
LEMMA LeaveStep ==
  ASSUME CacheAssumption, IInv, NEW p \in Procs, cachePc[p] \in Ensuring, UNCHANGED remote,
         EntryType', NamesInv', NEW ok \in BOOLEAN, NEW t \in Tasks,
         t.goal = T(p).goal, t.nested = T(p).nested, t.local = T(p).local,
         t.commit = T(p).commit, t.pinned = T(p).pinned, Leave(p, ok, t)
  PROVE  Moves(p)
<1>1. PICK u : /\ u = [t EXCEPT !.meta = NoRefs, !.created = FALSE]
               /\ CacheGo(p, After(p, ok), u) /\ lock' = Free
  BY DEF Leave
<1>2. /\ u \in Tasks /\ u.goal = T(p).goal /\ u.nested = T(p).nested /\ u.local = T(p).local
      /\ u.commit = T(p).commit /\ u.pinned = T(p).pinned
  BY <1>1 DEF Tasks, NoRefs
<1>3. /\ After(p, ok) \in {"done", "checkout", "again", "upstream"}
      /\ TaskInv(After(p, ok), u) /\ lock = p
  BY <1>2, AfterTask, Ensures
<1>4. After(p, ok) \in Places
  BY <1>3 DEF Places
<1>5. cachePc'[p] = After(p, ok)
  BY <1>1, <1>2, <1>4, GoEffect
<1>6. EntryInv(p)'
  BY <1>3, <1>5 DEF EntryInv, Critical, Removals
<1>7. QED
  BY <1>1, <1>2, <1>3, <1>4, <1>6, LockedStep

(* p goes on under the lock.                                               *)
LEMMA StayStep ==
  ASSUME IInv, NEW p \in Procs, cachePc[p] \in Ensuring, UNCHANGED <<remote, lock>>,
         EntryType', NamesInv', NEW place \in Ensuring, NEW t \in Tasks,
         t.goal = T(p).goal, t.nested = T(p).nested, t.local = T(p).local,
         t.commit = T(p).commit, t.pinned = T(p).pinned, t.ref = T(p).ref, CacheGo(p, place, t),
         place \in {"want", "fetch", "anchor", "save", "undo"} => Loads',
         place \in Removals => kind' = "torn",
         place \in {"want", "fetch", "anchor", "save"} /\ kind' = "whole" =>
           \A r \in CacheRefs : t.meta[r] # NoSha => t.meta[r] \in anchors',
         place = "anchor" => t.commit \in commits'
  PROVE  Moves(p)
<1>1. lock = p /\ lock' = p /\ TaskInv(cachePc[p], T(p)) /\ cachePc[p] \in Wanting /\ place \in Places
  BY Ensures DEF Ensuring, Critical, Places
<1>2. TaskInv(place, t)
  BY <1>1 DEF TaskInv, Ensuring, Critical
<1>3. cachePc'[p] = place /\ T(p)' = t
  BY <1>1, GoEffect
<1>4. EntryInv(p)'
  BY <1>1, <1>3 DEF EntryInv, Ensuring, Critical
<1>5. QED
  BY <1>1, <1>2, <1>4, LockedStep

(* The entry stays, or is empty and made anew.                             *)
LEMMA EntryStays ==
  ASSUME IInv, UNCHANGED repo
  PROVE  EntryType' /\ NamesInv'
BY DEF IInv, Shape, EntryType, NamesInv, RecordedIsAnchored, repo

LEMMA EntryEmptied ==
  ASSUME CacheAssumption, Emptied,
         \/ kind' = "whole" /\ parts' = AllParts
         \/ kind' = "absent" /\ parts' = {}
  PROVE  EntryType' /\ NamesInv'
BY DEF CacheAssumption, Emptied, NoRefs, EntryType, Kinds, NamesInv, RecordedIsAnchored

(* A removal begins and goes on; whatever is left is torn.                 *)
LEMMA RemovalBegins ==
  ASSUME IInv, BeginRemoval
  PROVE  EntryType' /\ NamesInv' /\ kind' = "torn"
BY DEF BeginRemoval, IInv, Shape, EntryType, Kinds, NamesInv, RecordedIsAnchored

LEMMA LockEntryStep ==
  ASSUME CacheAssumption, IInv, NEW p \in Procs, LockEntry(p)
  PROVE  Moves(p)
<1>1. /\ T(p) \in Tasks /\ cachePc[p] = "ensure" /\ lock = Free /\ lock' = p
      /\ UNCHANGED <<remote, repo>>
      /\ CacheGo(p, "repo", T(p)) /\ TaskInv(cachePc[p], T(p))
  BY TaskType, KeepIsGo DEF LockEntry, repo, PInv
<1>2. /\ cachePc' \in [Procs -> Places] /\ task' \in [Procs -> Tasks]
      /\ cachePc'[p] = "repo" /\ T(p)' = T(p)
      /\ \A q \in Procs \ {p} : cachePc'[q] = cachePc[q] /\ task'[q] = task[q]
  BY <1>1, GoEffect DEF Places
<1>3. Shape' /\ NamesInv' /\ Others(p)
  BY <1>1, <1>2, EntryStays DEF IInv, Shape, Others, CacheAssumption
<1>4. TaskInv("repo", T(p))
  BY <1>1 DEF TaskInv, Wanting, Places
<1>5. PInv(p)'
  BY <1>1, <1>2, <1>4 DEF PInv, TaskInv, EntryInv, Removals
<1>6. QED
  BY <1>3, <1>5 DEF Moves

LEMMA RepoStep ==
  ASSUME CacheAssumption, IInv, NEW p \in Procs,
         UseRepo(p) \/ RefuseRepo(p) \/ ClearRepo(p) \/ MakeRepo(p)
  PROVE  Moves(p)
<1>0. cachePc[p] \in Ensuring /\ UNCHANGED remote /\ T(p) \in Tasks /\ IInv
  BY TaskType DEF UseRepo, RefuseRepo, ClearRepo, MakeRepo, Ensuring, Critical
<1>p. {"want", "clearing"} \subseteq Ensuring /\ "want" \notin Removals
  BY DEF Ensuring, Critical, Removals
<1>1. CASE UseRepo(p)
  <2>1. PICK t : t = [T(p) EXCEPT !.meta = recorded, !.created = FALSE] /\ CacheGo(p, "want", t)
    BY <1>1 DEF UseRepo
  <2>2. recorded \in [CacheRefs -> Shas \cup {NoSha}]
    BY DEF IInv, Shape, EntryType
  <2>3. /\ t \in Tasks /\ t.meta = recorded /\ t.goal = T(p).goal /\ t.nested = T(p).nested
        /\ t.local = T(p).local /\ t.commit = T(p).commit /\ t.pinned = T(p).pinned /\ t.ref = T(p).ref
    BY <1>0, <2>1, <2>2 DEF Tasks
  <2>4. UNCHANGED <<lock, repo>> /\ UNCHANGED <<kind, anchors>> /\ Loads'
    BY <1>1 DEF UseRepo, repo, Usable, Loads
  <2>5. kind = "whole" => \A r \in CacheRefs : t.meta[r] # NoSha => t.meta[r] \in anchors
    BY <2>3 DEF IInv, NamesInv, RecordedIsAnchored
  <2>6. QED
    <3>1. EntryType' /\ NamesInv'
      BY <2>4, EntryStays
    <3>2. QED
      BY <1>0, <1>p, <2>1, <2>3, <2>4, <2>5, <3>1, StayStep
<1>2. CASE RefuseRepo(p)
  BY <1>0, <1>2, EntryStays, LeaveStep DEF RefuseRepo
<1>3. CASE ClearRepo(p)
  BY <1>0, <1>3, <1>p, KeepIsGo, RemovalBegins, StayStep DEF ClearRepo
<1>4. CASE MakeRepo(p)
  <2>1. CASE Leave(p, FALSE, T(p)) /\ kind' = "absent" /\ parts' = {}
    BY <1>0, <1>4, <2>1, EntryEmptied, LeaveStep DEF MakeRepo
  <2>2. CASE ~(Leave(p, FALSE, T(p)) /\ kind' = "absent" /\ parts' = {})
    <3>1. PICK t : /\ t = [T(p) EXCEPT !.meta = NoRefs, !.created = TRUE]
                   /\ CacheGo(p, "want", t) /\ UNCHANGED lock
      BY <1>4, <2>2 DEF MakeRepo
    <3>2. /\ t \in Tasks /\ t.meta = NoRefs /\ t.goal = T(p).goal
          /\ t.nested = T(p).nested /\ t.local = T(p).local /\ t.commit = T(p).commit
          /\ t.pinned = T(p).pinned /\ t.ref = T(p).ref
      BY <1>0, <3>1 DEF Tasks, NoRefs
    <3>3. kind' = "whole" /\ parts' = AllParts /\ Emptied
      BY <1>4, <2>2 DEF MakeRepo
    <3>4. Loads' /\ \A r \in CacheRefs : t.meta[r] = NoSha
      BY <3>2, <3>3 DEF Loads, AllParts, NoRefs
    <3>5. QED
      <4>1. EntryType' /\ NamesInv'
        BY <3>3, EntryEmptied
      <4>2. QED
        BY <1>0, <1>p, <3>1, <3>2, <3>4, <4>1, StayStep
  <2>3. QED
    BY <2>1, <2>2
<1>5. QED
  BY <1>1, <1>2, <1>3, <1>4

LEMMA FetchStep ==
  ASSUME CacheAssumption, IInv, NEW p \in Procs,
         FindPresent(p) \/ FetchRef(p) \/ FetchCommit(p) \/ FetchFails(p)
  PROVE  Moves(p)
<1>0. /\ cachePc[p] \in {"want", "fetch"} /\ cachePc[p] \in Ensuring /\ T(p) \in Tasks
      /\ UNCHANGED <<remote, lock, kind, parts, anchors, recorded>>
  BY TaskType
     DEF FindPresent, FetchRef, FetchCommit, FetchFails, Ensuring, Critical, repo
<1>1. /\ Loads /\ T(p).commit \in Shas
      /\ T(p).goal = "ref" => T(p).local \in CacheRefs
      /\ kind = "whole" => \A r \in CacheRefs : T(p).meta[r] # NoSha => T(p).meta[r] \in anchors
  BY <1>0, Ensures DEF EntryInv
<1>2. EntryType /\ NamesInv /\ \A r \in CacheRefs : remote[r] \in Shas
  BY DEF IInv, Shape
<1>3. ASSUME refs' \in [CacheRefs -> Shas \cup {NoSha}],
             \/ UNCHANGED <<commits, objects>>
             \/ \E fetched \in SUBSET Shas : GetObjects(fetched),
             NEW place \in {"anchor", "fetch", "undo"}, Keep(p, place),
             place = "anchor" => T(p).commit \in commits'
      PROVE  Moves(p)
  <2>1. objects \subseteq objects' /\ (kind = "whole" => commits' \subseteq objects')
    BY <1>2, <1>3 DEF NamesInv, GetObjects
  <2>2. EntryType' /\ NamesInv' /\ Loads'
    BY <1>0, <1>1, <1>2, <1>3, <2>1 DEF EntryType, NamesInv, RecordedIsAnchored, Loads
  <2>3. CacheGo(p, place, T(p)) /\ place \in Ensuring /\ place \notin Removals
    BY <1>3, KeepIsGo DEF Ensuring, Critical, Removals
  <2>4. QED
    BY <1>0, <1>1, <1>3, <2>2, <2>3, StayStep
<1>4. CASE FindPresent(p)
  <2>1. Present(p) => T(p).commit \in commits
    BY DEF Present, Anchored
  <2>2. UNCHANGED <<refs, commits, objects>>
    BY <1>4 DEF FindPresent, repo
  <2>3. QED
    BY <1>2, <1>3, <1>4, <2>1, <2>2 DEF FindPresent, EntryType
<1>5. CASE FetchRef(p)
  <2>1. refs' = [refs EXCEPT ![T(p).local] = remote[T(p).local]] /\ T(p).local \in CacheRefs
    BY <1>1, <1>5 DEF FetchRef
  <2>2. GetObjects({remote[T(p).local]}) /\ {remote[T(p).local]} \in SUBSET Shas
    BY <1>2, <1>5, <2>1 DEF FetchRef
  <2>3. refs' \in [CacheRefs -> Shas \cup {NoSha}] /\ refs'[T(p).local] = remote[T(p).local]
    BY <1>2, <2>1 DEF EntryType
  <2>4. FetchedRef(p) => T(p).commit \in commits'
    BY <2>2, <2>3 DEF FetchedRef, GetObjects
  <2>5. QED
    BY <1>3, <1>5, <2>2, <2>3, <2>4 DEF FetchRef
<1>6. CASE FetchCommit(p)
  <2>1. refs' \in [CacheRefs -> Shas \cup {NoSha}]
    BY <1>2, <1>6 DEF FetchCommit, EntryType
  <2>2. \E fetched \in SUBSET Shas : GetObjects(fetched)
    <3>1. {T(p).commit} \in SUBSET Shas /\ {remote[r] : r \in CacheRefs} \in SUBSET Shas
      BY <1>1, <1>2
    <3>2. QED
      BY <1>6, <3>1 DEF FetchCommit
  <2>3. QED
    BY <1>3, <1>6, <2>1, <2>2 DEF FetchCommit
<1>7. CASE FetchFails(p)
  <2>1. UNCHANGED <<refs, commits, objects>>
    BY <1>7 DEF FetchFails, repo
  <2>2. QED
    BY <1>2, <1>3, <1>7, <2>1 DEF FetchFails, EntryType
<1>8. QED
  BY <1>4, <1>5, <1>6, <1>7

LEMMA RecordStep ==
  ASSUME CacheAssumption, IInv, NEW p \in Procs, Anchor(p) \/ SaveMeta(p)
  PROVE  Moves(p)
<1>0. /\ cachePc[p] \in {"anchor", "save"} /\ cachePc[p] \in Ensuring /\ T(p) \in Tasks
      /\ UNCHANGED <<remote, kind, parts, refs, commits, objects>>
  BY TaskType DEF Anchor, SaveMeta, Ensuring, Critical
<1>1. /\ Loads' /\ T(p).commit \in Shas
      /\ T(p).goal = "ref" => T(p).local \in CacheRefs
      /\ kind = "whole" => \A r \in CacheRefs : T(p).meta[r] # NoSha => T(p).meta[r] \in anchors
      /\ cachePc[p] = "anchor" => T(p).commit \in commits
      /\ T(p).meta \in [CacheRefs -> Shas \cup {NoSha}]
  BY <1>0, Ensures DEF EntryInv, Tasks, Loads
<1>2. EntryType /\ NamesInv
  BY DEF IInv, Shape
<1>3. CASE Anchor(p)
  <2>1. PICK t : /\ t = IF T(p).goal = "ref" THEN [T(p) EXCEPT !.meta[T(p).local] = T(p).commit]
                        ELSE T(p)
                 /\ CacheGo(p, "save", t)
    BY <1>3 DEF Anchor
  <2>2. /\ t \in Tasks /\ t.goal = T(p).goal /\ t.nested = T(p).nested /\ t.local = T(p).local
        /\ t.commit = T(p).commit /\ t.pinned = T(p).pinned /\ t.ref = T(p).ref
        /\ \A r \in CacheRefs : t.meta[r] \in {T(p).meta[r], T(p).commit}
    <3>1. CASE T(p).goal = "ref"
      <4>1. [T(p).meta EXCEPT ![T(p).local] = T(p).commit] \in [CacheRefs -> Shas \cup {NoSha}]
        BY <1>1
      <4>2. t = [T(p) EXCEPT !.meta = [T(p).meta EXCEPT ![T(p).local] = T(p).commit]]
        BY <2>1, <3>1
      <4>3. t.meta = [T(p).meta EXCEPT ![T(p).local] = T(p).commit]
        BY <1>0, <4>2 DEF Tasks
      <4>4. \A r \in CacheRefs : t.meta[r] \in {T(p).meta[r], T(p).commit}
        BY <1>1, <4>3
      <4>5. QED
        BY <1>0, <4>1, <4>2, <4>4 DEF Tasks
    <3>2. CASE T(p).goal # "ref"
      BY <1>0, <2>1, <3>2
    <3>3. QED
      BY <3>1, <3>2
  <2>3. /\ anchors' = anchors \cup {T(p).commit} /\ cachePc[p] = "anchor"
        /\ UNCHANGED <<recorded, lock>>
    BY <1>3 DEF Anchor
  <2>4. NamesInv' /\ EntryType'
    BY <1>0, <1>1, <1>2, <2>3 DEF EntryType, NamesInv, RecordedIsAnchored
  <2>5. kind' = "whole" => \A r \in CacheRefs : t.meta[r] # NoSha => t.meta[r] \in anchors'
    BY <1>0, <1>1, <2>2, <2>3
  <2>6. "save" \in Ensuring /\ "save" \notin Removals
    BY DEF Ensuring, Critical, Removals
  <2>7. QED
    BY <1>0, <1>1, <1>2, <2>1, <2>2, <2>3, <2>4, <2>5, <2>6, StayStep
<1>4. CASE SaveMeta(p)
  <2>1. PICK t : t = [T(p) EXCEPT !.seen = TRUE] /\ Leave(p, TRUE, t)
    BY <1>4 DEF SaveMeta
  <2>2. /\ t \in Tasks /\ t.goal = T(p).goal /\ t.nested = T(p).nested /\ t.local = T(p).local
        /\ t.commit = T(p).commit /\ t.pinned = T(p).pinned
    BY <1>0, <2>1 DEF Tasks
  <2>3. recorded' = T(p).meta /\ anchors' = anchors
    BY <1>4 DEF SaveMeta
  <2>4. NamesInv' /\ EntryType'
    BY <1>0, <1>1, <1>2, <2>3 DEF EntryType, NamesInv, RecordedIsAnchored
  <2>5. QED
    BY <1>0, <1>2, <2>1, <2>2, <2>3, <2>4, LeaveStep
<1>5. QED
  BY <1>3, <1>4

LEMMA UndoStep ==
  ASSUME CacheAssumption, IInv, NEW p \in Procs, Undo(p) \/ Undone(p)
  PROVE  Moves(p)
<1>0. cachePc[p] \in {"undo", "undoing"} /\ cachePc[p] \in Ensuring /\ UNCHANGED remote /\ T(p) \in Tasks
  BY TaskType DEF Undo, Undone, Ensuring, Critical
<1>1. CASE BeginRemoval /\ Keep(p, "undoing") /\ UNCHANGED lock
  <2>1. CacheGo(p, "undoing", T(p)) /\ "undoing" \in Ensuring
    BY <1>1, KeepIsGo DEF Ensuring, Critical
  <2>2. QED
    BY <1>0, <1>1, <2>1, RemovalBegins, StayStep
<1>2. CASE UNCHANGED repo /\ Leave(p, FALSE, T(p))
  BY <1>0, <1>2, EntryStays, LeaveStep
<1>3. CASE Undone(p)
  BY <1>0, <1>3, EntryEmptied, LeaveStep DEF Undone
<1>4. QED
  BY <1>1, <1>2, <1>3 DEF Undo

LEMMA EnsureStep ==
  ASSUME CacheAssumption, IInv, NEW p \in Procs, EnsureEntry(p)
  PROVE  Moves(p)
BY LockEntryStep, RepoStep, FetchStep, RecordStep, UndoStep DEF EnsureEntry

-----------------------------------------------------------------------------
(* Checkouts, from the cache or from upstream.                             *)
LEMMA CheckoutStep ==
  ASSUME CacheAssumption, IInv, NEW p \in Procs,
         Checkout(p) \/ TryCommit(p) \/ UpstreamCommit(p) \/ UpstreamRef(p)
  PROVE  Moves(p)
<1>0. /\ T(p) \in Tasks /\ TaskInv(cachePc[p], T(p)) /\ UNCHANGED <<remote, repo, lock>>
      /\ cachePc[p] \in {"checkout", "again", "upstream"} /\ cachePc[p] \in Wanting
  BY TaskType DEF PInv, Checkout, TryCommit, UpstreamCommit, UpstreamRef, Wanting, Places
<1>1. T(p).commit \in Shas /\ \A r \in CacheRefs : remote[r] \in Shas
  BY <1>0 DEF TaskInv, IInv, Shape
<1>2. {"done", "failed", "upstream", "ensure"} \subseteq Places \ Critical
  BY DEF Places, Critical
<1>3. ASSUME NEW place \in {"failed", "upstream"}, Keep(p, place)
      PROVE  Moves(p)
  <2>1. TaskInv(place, T(p))
    BY <1>0, <1>1, <1>3 DEF TaskInv
  <2>2. QED
    BY <1>0, <1>2, <1>3, <2>1, KeepIsGo, QuietStep
<1>4. ASSUME NEW c \in Shas, CacheGo(p, "done", [T(p) EXCEPT !.got = c]), T(p).pinned => c = T(p).commit
      PROVE  Moves(p)
  <2>1. PICK t : t = [T(p) EXCEPT !.got = c]
    OBVIOUS
  <2>2. /\ t \in Tasks /\ t.goal = T(p).goal /\ t.nested = T(p).nested /\ t.local = T(p).local
        /\ t.commit = T(p).commit /\ t.pinned = T(p).pinned /\ t.got = c
    BY <1>0, <2>1 DEF Tasks
  <2>3. TaskInv("done", t)
    BY <1>0, <1>1, <1>4, <2>2 DEF TaskInv, Wanting
  <2>4. QED
    BY <1>0, <1>2, <1>4, <2>1, <2>2, <2>3, QuietStep
<1>5. CASE Checkout(p)
  BY <1>1, <1>3, <1>4, <1>5 DEF Checkout
<1>6. CASE TryCommit(p)
  <2>1. ASSUME CacheGo(p, "ensure", [T(p) EXCEPT !.goal = "commit", !.nested = TRUE, !.seen = TRUE])
        PROVE  Moves(p)
    <3>1. PICK t : t = [T(p) EXCEPT !.goal = "commit", !.nested = TRUE, !.seen = TRUE]
      OBVIOUS
    <3>2. /\ t \in Tasks /\ t.goal = "commit" /\ t.local = T(p).local
          /\ t.commit = T(p).commit /\ t.pinned = T(p).pinned
      BY <1>0, <3>1 DEF Tasks
    <3>3. T(p).local \in CacheRefs
      BY <1>0, <1>6 DEF TryCommit, TaskInv
    <3>4. TaskInv("ensure", t)
      BY <1>0, <1>1, <3>2, <3>3 DEF TaskInv
    <3>5. QED
      BY <1>0, <1>2, <2>1, <3>1, <3>2, <3>4, QuietStep
  <2>2. QED
    BY <1>3, <1>6, <2>1 DEF TryCommit
<1>7. CASE UpstreamCommit(p)
  <2>1. ASSUME CacheGo(p, IF T(p).nested THEN "upstream" ELSE "failed",
                  [T(p) EXCEPT !.goal = IF T(p).nested THEN "ref" ELSE @])
        PROVE  Moves(p)
    <3>1. PICK t : t = [T(p) EXCEPT !.goal = IF T(p).nested THEN "ref" ELSE @]
      OBVIOUS
    <3>2. PICK place : place = IF T(p).nested THEN "upstream" ELSE "failed"
      OBVIOUS
    <3>3. /\ t \in Tasks /\ t.goal = (IF T(p).nested THEN "ref" ELSE T(p).goal)
          /\ t.local = T(p).local /\ t.nested = T(p).nested
          /\ t.commit = T(p).commit /\ t.pinned = T(p).pinned
      BY <1>0, <3>1 DEF Tasks
    <3>4. TaskInv(place, t)
      BY <1>0, <1>1, <3>2, <3>3 DEF TaskInv
    <3>5. QED
      BY <1>0, <1>2, <2>1, <3>1, <3>2, <3>3, <3>4, QuietStep
  <2>2. QED
    BY <1>1, <1>4, <1>7, <2>1 DEF UpstreamCommit
<1>8. CASE UpstreamRef(p)
  <2>1. T(p).local \in CacheRefs
    BY <1>0, <1>8 DEF UpstreamRef, TaskInv
  <2>2. QED
    BY <1>1, <1>3, <1>4, <1>8, <2>1 DEF UpstreamRef, Mismatch
<1>9. QED
  BY <1>0, <1>5, <1>6, <1>7, <1>8

(* ObjectCache.Remove                                                      *)
LEMMA RemoveStep ==
  ASSUME CacheAssumption, IInv, NEW p \in Procs, RemoveEntry(p) \/ Removed(p)
  PROVE  Moves(p)
<1>0. T(p) \in Tasks /\ PInv(p) /\ UNCHANGED remote
  BY TaskType DEF RemoveEntry, Removed
<1>1. CASE RemoveEntry(p)
  <2>0. ~T(p).pinned /\ cachePc[p] = "remove"
    BY <1>0, <1>1 DEF RemoveEntry, PInv, TaskInv
  <2>1. CASE Loads
    <3>1. BeginRemoval /\ lock = Free /\ lock' = p /\ CacheGo(p, "removing", T(p))
      BY <1>1, <2>1, KeepIsGo DEF RemoveEntry
    <3>2. "removing" \in Places
      BY DEF Places
    <3>3. /\ cachePc' \in [Procs -> Places] /\ task' \in [Procs -> Tasks]
          /\ cachePc'[p] = "removing" /\ T(p)' = T(p)
          /\ \A q \in Procs \ {p} : cachePc'[q] = cachePc[q] /\ task'[q] = task[q]
      BY <1>0, <3>1, <3>2, GoEffect
    <3>4. Shape' /\ NamesInv' /\ Others(p)
      BY <1>0, <3>1, <3>3, RemovalBegins DEF IInv, Shape, Others, CacheAssumption
    <3>5. PInv(p)'
      BY <1>0, <2>0, <3>1, <3>3, RemovalBegins DEF PInv, TaskInv, EntryInv, Wanting
    <3>6. QED
      BY <3>4, <3>5 DEF Moves
  <2>2. CASE ~Loads
    <3>1. UNCHANGED <<repo, lock>> /\ CacheGo(p, "failed", T(p)) /\ "failed" \in Places \ Critical
      BY <1>1, <2>2, KeepIsGo DEF RemoveEntry, Places, Critical
    <3>2. TaskInv("failed", T(p))
      BY <1>0, <2>0 DEF PInv, TaskInv, Wanting
    <3>3. QED
      BY <1>0, <3>1, <3>2, QuietStep
  <2>3. QED
    BY <2>1, <2>2
<1>2. CASE Removed(p)
  <2>0. ~T(p).pinned /\ cachePc[p] = "removing" /\ lock = p
    BY <1>0, <1>2 DEF Removed, PInv, TaskInv, EntryInv, Critical
  <2>1. CacheGo(p, "done", T(p)) /\ lock' = Free /\ EntryType' /\ NamesInv'
    BY <1>2, KeepIsGo, EntryEmptied DEF Removed
  <2>2. TaskInv("done", T(p)) /\ "done" \in Places
    BY <1>0, <2>0 DEF PInv, TaskInv, Wanting, Places
  <2>3. EntryInv(p)'
    BY <1>0, <2>1, <2>2, GoEffect DEF EntryInv, Critical, Removals
  <2>4. QED
    BY <1>0, <2>0, <2>1, <2>2, <2>3, LockedStep
<1>3. QED
  BY <1>1, <1>2

(* A removal, of any kind, that goes on or gives up                        *)
LEMMA RemovalStep ==
  ASSUME CacheAssumption, IInv, NEW p \in Procs, RemoveMore(p) \/ RemovalFails(p)
  PROVE  Moves(p)
<1>0. /\ T(p) \in Tasks /\ PInv(p) /\ UNCHANGED remote /\ cachePc[p] \in Places
      /\ cachePc[p] \in Removals /\ cachePc[p] \in Critical /\ lock = p /\ kind = "torn"
      /\ UNCHANGED kind
  BY TaskType DEF RemoveMore, RemovalFails, Removals, Critical, PInv, EntryInv, repo
<1>1. CASE RemoveMore(p)
  <2>1. refs' \in [CacheRefs -> Shas \cup {NoSha}]
    BY <1>1 DEF RemoveMore, RemovePart, RemoveRef, RemoveObject, NoRefs, IInv, Shape, EntryType
  <2>2. recorded' \in [CacheRefs -> Shas \cup {NoSha}] /\ parts' \subseteq AllParts
    BY <1>1 DEF RemoveMore, RemovePart, RemoveRef, RemoveObject, NoRefs, IInv, Shape, EntryType
  <2>3. EntryType' /\ NamesInv'
    BY <1>0, <2>1, <2>2 DEF EntryType, Kinds, NamesInv, RecordedIsAnchored
  <2>4. UNCHANGED <<lock, cachePc, task>> /\ T(p)' = T(p)
    BY <1>1 DEF RemoveMore, T
  <2>5. Shape' /\ Others(p)
    BY <1>0, <2>3, <2>4 DEF IInv, Shape, Others
  <2>6. PInv(p)'
    BY <1>0, <2>4 DEF PInv, TaskInv, EntryInv, Removals
  <2>7. QED
    BY <2>3, <2>5, <2>6 DEF Moves
<1>2. CASE RemovalFails(p) /\ cachePc[p] # "removing"
  <2>1. UNCHANGED repo /\ Leave(p, FALSE, T(p)) /\ cachePc[p] \in Ensuring
    BY <1>0, <1>2 DEF RemovalFails, Ensuring
  <2>2. QED
    BY <1>0, <2>1, EntryStays, LeaveStep
<1>3. CASE RemovalFails(p) /\ cachePc[p] = "removing"
  <2>1. UNCHANGED repo /\ CacheGo(p, "failed", T(p)) /\ lock' = Free
    BY <1>3, KeepIsGo DEF RemovalFails
  <2>2. TaskInv("failed", T(p)) /\ "failed" \in Places
    BY <1>0, <1>3 DEF PInv, TaskInv, Wanting, Places
  <2>3. EntryInv(p)'
    BY <1>0, <2>1, <2>2, GoEffect DEF EntryInv, Critical, Removals
  <2>4. QED
    BY <1>0, <2>1, <2>2, <2>3, EntryStays, LockedStep
<1>4. QED
  BY <1>1, <1>2, <1>3

LEMMA KillStep ==
  ASSUME CacheAssumption, IInv, NEW p \in Procs, KillClone(p)
  PROVE  Moves(p)
<1>1. NoTask \in Tasks /\ TaskInv("idle", NoTask) /\ "idle" \in Places
  BY NoTaskType DEF TaskInv, Wanting, Places
<1>2. CacheGo(p, "idle", NoTask) /\ UNCHANGED <<remote, repo>> /\ lock' = IF lock = p THEN Free ELSE lock
  BY DEF KillClone
<1>3. /\ cachePc' \in [Procs -> Places] /\ task' \in [Procs -> Tasks]
      /\ cachePc'[p] = "idle" /\ T(p)' = NoTask
      /\ \A q \in Procs \ {p} : cachePc'[q] = cachePc[q] /\ task'[q] = task[q]
  BY <1>1, <1>2, GoEffect
<1>4. Shape' /\ NamesInv' /\ Others(p)
  BY <1>2, <1>3, EntryStays DEF IInv, Shape, Others
<1>5. PInv(p)'
  BY <1>1, <1>3 DEF PInv, TaskInv, EntryInv, Critical, Removals
<1>6. QED
  BY <1>4, <1>5 DEF Moves

-----------------------------------------------------------------------------
LEMMA InitHolds == ASSUME CacheAssumption, CacheInit PROVE IInv
<1>1. Shape
  BY NoTaskType
     DEF CacheInit, Shape, EntryType, NoRefs, AllParts, Places, Kinds, CacheAssumption
<1>n. NamesInv
  BY DEF CacheInit, NamesInv, RecordedIsAnchored, NoRefs
<1>2. ASSUME NEW p \in Procs PROVE PInv(p)
  <2>1. T(p) = NoTask /\ cachePc[p] = "idle"
    BY DEF CacheInit, T
  <2>2. QED
    BY <2>1, NoTaskType DEF PInv, TaskInv, EntryInv, Wanting, Critical, Removals
<1>3. QED
  BY <1>1, <1>n, <1>2 DEF IInv

LEMMA MoveStep == ASSUME IInv, MoveUpstream PROVE IInv'
<1>1. Shape' /\ NamesInv'
  BY EntryStays DEF MoveUpstream, IInv, Shape
<1>2. \A p \in Procs : PInv(p)'
  BY DEF MoveUpstream, repo, IInv, PInv, TaskInv, EntryInv, Loads, T
<1>3. QED
  BY <1>1, <1>2 DEF IInv

LEMMA IdleStep == ASSUME IInv, UNCHANGED cacheVars PROVE IInv'
BY EntryStays DEF cacheVars, repo, IInv, Shape, PInv, TaskInv, EntryInv, Loads, T

LEMMA NextHolds == ASSUME CacheAssumption, IInv, [CacheNext]_cacheVars PROVE IInv'
<1>1. ASSUME NEW p \in Procs, CloneStep(p) \/ Start(p) \/ KillClone(p)
      PROVE  IInv'
  BY <1>1, PlanStep, EnsureStep, CheckoutStep, RemoveStep, RemovalStep, StartStep, KillStep, Combine DEF CloneStep
<1>2. QED
  BY <1>1, MoveStep, IdleStep DEF CacheNext

(* The inductive invariant.                                                *)
THEOREM Invariant == ASSUME CacheAssumption PROVE CacheSpec => []IInv
<1>1. CacheInit => IInv
  BY InitHolds
<1>2. IInv /\ [CacheNext]_cacheVars => IInv'
  BY NextHolds
<1>3. QED
  BY <1>1, <1>2, PTL DEF CacheSpec

(* What the metadata of the cache says of a ref is anchored and there,     *)
(* unless a removal of the entry was cut short; and a clone for a locked   *)
(* commit yields that commit, also then.  For any projects at once,        *)
(* whatever moves upstream and whoever is killed (EnsureRef, cloneRefTree, *)
(* RemoveAll).                                                             *)
THEOREM CacheHolds == ASSUME CacheAssumption PROVE CacheSpec => []CacheIsSound
<1>1. IInv => CacheIsSound
  BY DEF IInv, NamesInv, PInv, TaskInv, CacheIsSound, PinnedIsExact
<1>2. QED
  BY <1>1, Invariant, PTL

(* Nothing vmake does to the entry touches a directory that it has not     *)
(* made, or of which it cannot tell any more: not a rebuild, not an undo,  *)
(* not a removal (ensureRepo, Remove).                                     *)
THEOREM UsersDirectoryHolds == ASSUME CacheAssumption PROVE CacheSpec => UsersDirectoryStays
<1>1. ASSUME IInv, [CacheNext]_cacheVars, Foreign,
             kind = "torn" => \A p \in Procs : cachePc[p] \notin Removals
      PROVE  UNCHANGED repo
  <2>1. /\ \A p \in Procs : EntryInv(p)
        /\ ~Loads /\ kind \in {"users", "torn"} /\ ~Usable
    BY <1>1 DEF IInv, PInv, NamesInv, Foreign, Loads, Usable
  <2>2. \A p \in Procs :
          cachePc[p] \notin {"want", "fetch", "anchor", "save", "undo"} /\ cachePc[p] \notin Removals
    BY <1>1, <2>1 DEF EntryInv
  <2>3. ASSUME NEW p \in Procs, EnsureEntry(p)
        PROVE  UNCHANGED repo
    BY <1>1, <2>1, <2>2, <2>3
       DEF EnsureEntry, LockEntry, UseRepo, RefuseRepo, ClearRepo, MakeRepo, FindPresent, FetchRef,
           FetchCommit, FetchFails, Anchor, SaveMeta, Undo, Undone, Removals
  <2>4. ASSUME NEW p \in Procs, RemoveEntry(p) \/ Removed(p) \/ RemoveMore(p) \/ RemovalFails(p)
        PROVE  UNCHANGED repo
    BY <2>1, <2>2, <2>4 DEF RemoveEntry, Removed, RemoveMore, RemovalFails, Removals
  <2>5. QED
    BY <1>1, <2>3, <2>4
       DEF CacheNext, cacheVars, MoveUpstream, CloneStep, RecordHead, PlanClone, Probe, Checkout, TryCommit,
           UpstreamCommit, UpstreamRef, Start, ClonePinned, CloneResolved, CloneHead, BeginRemove,
           Begin, Finish, KillClone
<1>2. IInv /\ [CacheNext]_cacheVars =>
        [Foreign /\ (kind = "torn" => \A p \in Procs : cachePc[p] \notin Removals) => repo' = repo]_repo
  BY <1>1
<1>3. QED
  BY <1>2, Invariant, PTL DEF CacheSpec, UsersDirectoryStays

-----------------------------------------------------------------------------
(* GeneratedFiles.  What the search of a target has visited or is still to *)
(* visit is closed under dependencies (SearchInv), so that at the end all  *)
(* that the target reaches is visited and generated; and a build that is   *)
(* not edited and has not failed leaves the targets before the one it is   *)
(* at as they are to be (CleanInv).                                        *)

(* A record and its functions, by name.                                    *)
GeneratedHeaders == [names : Inputs \cup {"none"}, of : {<<>>} \cup (Inputs \X Int),
            torn : BOOLEAN, newer : BOOLEAN, unseen : BOOLEAN]

IsUser(u) ==
  u = [make |-> u.make, option |-> u.option, input |-> u.input, rule |-> u.rule, changes |-> u.changes]
UserType ==
  /\ IsUser(user)
  /\ user.make \in [Packages -> Int] /\ user.option \in [Packages -> Int]
  /\ user.input \in [Inputs -> Int] /\ user.rule \in [Targets -> Inputs] /\ user.changes \in Nat

IsDisk(d) == d = [generated |-> d.generated, config |-> d.config, header |-> d.header, object |-> d.object]
DiskType ==
  /\ IsDisk(onDisk)
  /\ onDisk.generated \in [Packages -> Int] /\ onDisk.header \in [Targets -> GeneratedHeaders]
  /\ onDisk.config = [p \in Packages |-> onDisk.config[p]]
  /\ onDisk.object = [t \in Targets |-> onDisk.object[t]]

Searching == {"generate", "generating"}
Making == {"rules", "header", "config", "compile"}

IsBuild(b) ==
  b = [pc |-> b.pc, keepGoing |-> b.keepGoing, next |-> b.next, toVisit |-> b.toVisit,
       visited |-> b.visited, generated |-> b.generated, failed |-> b.failed,
       edited |-> b.edited, read |-> b.read]
BuildType ==
  /\ IsBuild(build)
  /\ build.pc \in {"idle", "next", "done"} \cup Searching \cup Making
  /\ build.keepGoing \in BOOLEAN /\ build.edited \in BOOLEAN /\ build.next \in 0 .. Len(Order)
  /\ build.toVisit \in Seq(Targets) /\ build.visited \subseteq Targets
  /\ build.generated \subseteq Packages /\ build.failed \subseteq Targets
  /\ At("header") => build.read \in Inputs \X Int

(* A header without a newer input, but for edits that went unseen, is of   *)
(* the input that its first line names, as it is.                          *)
HeaderInv ==
  \A t \in Targets : LET h == onDisk.header[t] IN
    h.of # <<>> /\ ~h.newer /\ ~h.unseen => h.names \in Inputs /\ h.of = Content(h.names)

(* The search: what is visited or to be visited is closed under Deps.      *)
SearchInv ==
  LET found == build.visited \cup ToSet(build.toVisit) IN
  build.pc \in Searching \cup Making =>
    /\ build.next >= 1 /\ Target \in found
    /\ \A t \in build.visited : ToSet(Deps[t]) \subseteq found /\ Package[t] \in build.generated
    /\ At("generating") => build.toVisit # <<>> /\ Package[Visited] \in build.generated
    /\ build.pc \in Making => build.toVisit = <<>>

BeingMade(p) == At("generating") /\ p = Package[Visited]
MadeInv == \A p \in build.generated : BeingMade(p) \/ onDisk.generated[p] = user.make[p]

TargetInv ==
  /\ At("header") => build.read = Content(user.rule[Target])
  /\ build.pc \in {"config", "compile"} /\ HeaderIsKnown(Target) => Header.of = Content(user.rule[Target])
  /\ At("compile") => onDisk.config[Own] = ConfigOf(Own)

Good(t) ==
  HeaderIsKnown(t) => onDisk.object[t] = MadeOf(t, user.make, Content(user.rule[t]), ConfigOf(Package[t]))

DoneBefore == IF build.pc \in {"next", "done"} THEN build.next ELSE build.next - 1
DoneInv ==
  /\ \A i \in 1 .. DoneBefore : Order[i] \in Built => Good(Order[i])
  /\ At("done") => build.next = Len(Order)

Clean == build.pc # "idle" /\ ~build.edited /\ build.failed = {}
CleanInv == Clean => MadeInv /\ TargetInv /\ DoneInv
GeneratedInv == UserType /\ DiskType /\ BuildType /\ HeaderInv /\ SearchInv /\ CleanInv

-----------------------------------------------------------------------------
LEMMA OrderType ==
  ASSUME GeneratedAssumption
  PROVE  /\ Order \in Seq(Targets) /\ Len(Order) \in Nat /\ DOMAIN Order = 1 .. Len(Order)
         /\ \A t \in Targets : \E i \in 1 .. Len(Order) : t = Order[i]
         /\ \A i, j \in 1 .. Len(Order) : Order[i] = Order[j] => i = j
         /\ \A i \in 1 .. Len(Order) : Order[i] \in Targets
         /\ \A t \in Targets : Deps[t] \in Seq(Targets) /\ ToSet(Deps[t]) \subseteq Targets /\ Package[t] \in Packages
<1>1. Order \in Seq(Targets) /\ Len(Order) \in Nat /\ DOMAIN Order = 1 .. Len(Order)
  BY DEF GeneratedAssumption
<1>2. \A t \in Targets : \E i \in 1 .. Len(Order) : t = Order[i]
  BY <1>1 DEF Targets, ToSet
<1>3. \A i, j \in 1 .. Len(Order) : Order[i] = Order[j] => i = j
  BY <1>1 DEF GeneratedAssumption, IsInjective
<1>4. \A i \in 1 .. Len(Order) : Order[i] \in Targets BY <1>1
<1>5. ASSUME NEW t \in Targets
      PROVE  Deps[t] \in Seq(Targets) /\ ToSet(Deps[t]) \subseteq Targets /\ Package[t] \in Packages
  <2>1. Deps[t] \in Seq(Targets) BY DEF GeneratedAssumption
  <2>2. \A i \in DOMAIN Deps[t] : Deps[t][i] \in Targets BY <2>1
  <2> QED BY <2>1, <2>2 DEF ToSet, Packages
<1> QED BY <1>1, <1>2, <1>3, <1>4, <1>5

LEMMA QueueFacts ==
  ASSUME NEW S, NEW s \in Seq(S), NEW d \in Seq(S), s # <<>>
  PROVE  /\ Head(s) \in S /\ Head(s) \in ToSet(s) /\ Tail(s) \in Seq(S) /\ Tail(s) \o d \in Seq(S)
         /\ ToSet(Tail(s)) \subseteq ToSet(s) /\ ToSet(s) \subseteq {Head(s)} \cup ToSet(Tail(s))
         /\ ToSet(Tail(s) \o d) = ToSet(Tail(s)) \cup ToSet(d)
<1>1. Len(s) \in Nat /\ Len(s) >= 1 /\ DOMAIN s = 1 .. Len(s) /\ Head(s) = s[1] /\ Head(s) \in S /\ Tail(s) \in Seq(S)
  OBVIOUS
<1>2. DOMAIN Tail(s) = 1 .. Len(s) - 1 /\ \A i \in 1 .. Len(s) - 1 : Tail(s)[i] = s[i + 1]
  BY <1>1
<1>3. ToSet(Tail(s)) \subseteq ToSet(s) BY <1>1, <1>2 DEF ToSet
<1>4. ToSet(s) \subseteq {Head(s)} \cup ToSet(Tail(s))
  <2> SUFFICES ASSUME NEW i \in 1 .. Len(s), i # 1 PROVE s[i] \in ToSet(Tail(s))
    BY <1>1 DEF ToSet
  <2>1. i - 1 \in 1 .. Len(s) - 1 /\ Tail(s)[i - 1] = s[i] BY <1>1, <1>2
  <2> QED BY <2>1, <1>2 DEF ToSet
<1>5. ASSUME NEW a \in Seq(S) PROVE ToSet(a \o d) = ToSet(a) \cup ToSet(d)
  <2>1. /\ Len(a) \in Nat /\ Len(d) \in Nat /\ DOMAIN (a \o d) = 1 .. Len(a) + Len(d)
        /\ DOMAIN a = 1 .. Len(a) /\ DOMAIN d = 1 .. Len(d)
        /\ \A i \in 1 .. Len(a) : (a \o d)[i] = a[i]
        /\ \A i \in 1 .. Len(d) : (a \o d)[Len(a) + i] = d[i] /\ Len(a) + i \in 1 .. Len(a) + Len(d)
        /\ 1 .. Len(a) \subseteq 1 .. Len(a) + Len(d)
    OBVIOUS
  <2>2. \A i \in 1 .. Len(a) + Len(d) : i \in 1 .. Len(a) \/ i - Len(a) \in 1 .. Len(d)
    BY <2>1
  <2>3. ToSet(a \o d) \subseteq ToSet(a) \cup ToSet(d)
    <3> SUFFICES ASSUME NEW i \in 1 .. Len(a) + Len(d) PROVE (a \o d)[i] \in ToSet(a) \cup ToSet(d)
      BY <2>1 DEF ToSet
    <3>1. CASE i \in 1 .. Len(a) BY <3>1, <2>1 DEF ToSet
    <3>2. CASE i - Len(a) \in 1 .. Len(d)
      <4>1. (a \o d)[i] = d[i - Len(a)] BY <3>2, <2>1
      <4> QED BY <4>1, <3>2, <2>1 DEF ToSet
    <3> QED BY <3>1, <3>2, <2>2
  <2>4. ToSet(a) \subseteq ToSet(a \o d) BY <2>1 DEF ToSet
  <2>5. ToSet(d) \subseteq ToSet(a \o d) BY <2>1 DEF ToSet
  <2> QED BY <2>3, <2>4, <2>5
<1>6. ToSet(Tail(s) \o d) = ToSet(Tail(s)) \cup ToSet(d) BY <1>1, <1>5
<1>8. Tail(s) \o d \in Seq(S) BY <1>1
<1>7. Head(s) \in ToSet(s) BY <1>1 DEF ToSet
<1> QED BY <1>1, <1>3, <1>4, <1>6, <1>7, <1>8

LEMMA GeneratedInitHolds == ASSUME GeneratedAssumption, GeneratedInit PROVE GeneratedInv
<1>1. UserType /\ DiskType
  BY DEF GeneratedAssumption, GeneratedInit, UserType, DiskType, IsUser, IsDisk, GeneratedHeaders, NoHeader, Missing
<1>2. BuildType BY OrderType DEF GeneratedInit, NoBuild, BuildType, IsBuild, At
<1>3. HeaderInv /\ SearchInv /\ CleanInv
  BY DEF GeneratedInit, NoBuild, NoHeader, HeaderInv, SearchInv, CleanInv, Clean, Searching, Making
<1> QED BY <1>1, <1>2, <1>3 DEF GeneratedInv

(* The target of a build that is at one.                                   *)
LEMMA TargetType ==
  ASSUME GeneratedAssumption, GeneratedInv, build.pc \in Searching \cup Making
  PROVE  /\ build.next \in 1 .. Len(Order) /\ Target \in Targets /\ Own \in Packages
         /\ Header \in GeneratedHeaders
         /\ At("generating") \/ (At("generate") /\ build.toVisit # <<>>) =>
              Visited \in Targets /\ Package[Visited] \in Packages /\ Deps[Visited] \in Seq(Targets)
<1>1. build.next \in 1 .. Len(Order) BY OrderType DEF GeneratedInv, BuildType, SearchInv
<1>2. Target \in Targets /\ Own \in Packages BY <1>1, OrderType DEF Target, Own
<1>3. Header \in GeneratedHeaders BY <1>2 DEF Header, GeneratedInv, DiskType
<1>4. ASSUME build.toVisit # <<>> PROVE Visited \in Targets
  BY <1>4, QueueFacts DEF Visited, GeneratedInv, BuildType
<1>5. At("generating") => build.toVisit # <<>> BY DEF GeneratedInv, SearchInv
<1> QED BY <1>1, <1>2, <1>3, <1>4, <1>5, OrderType

-----------------------------------------------------------------------------
(* An edit by the user during a build ends what is said of the build.      *)
LEMMA EditedStep ==
  ASSUME GeneratedInv, Edited
  PROVE  /\ BuildType' /\ SearchInv' /\ ~Clean'
<1> USE DEF GeneratedInv, BuildType
<1>1. /\ build'.pc = build.pc /\ build'.next = build.next /\ build'.toVisit = build.toVisit
      /\ build'.visited = build.visited /\ build'.generated = build.generated /\ build'.read = build.read
      /\ build'.failed = build.failed /\ build'.keepGoing = build.keepGoing
      /\ build'.edited = (build.pc # "idle")
  BY DEF Edited, IsBuild
<1>2. IsBuild(build') BY DEF Edited, IsBuild
<1>3. BuildType' BY <1>1, <1>2 DEF At
<1>4. SearchInv' BY <1>1 DEF SearchInv, At, Target, Visited
<1>5. ~Clean' BY <1>1 DEF Clean
<1> QED BY <1>3, <1>4, <1>5

LEMMA EditPackageStep ==
  ASSUME GeneratedInv, NEW what \in {"make", "option"}, EditPackage(what) PROVE GeneratedInv'
<1> USE DEF GeneratedInv
<1>1. PICK p \in Packages : user' = [user EXCEPT ![what][p] = @ + 1, !.changes = @ + 1]
  BY DEF EditPackage
<1>2. /\ IsUser(user') /\ user'.input = user.input /\ user'.rule = user.rule
      /\ user'.changes = user.changes + 1
      /\ user'.make \in {user.make, [user.make EXCEPT ![p] = @ + 1]}
      /\ user'.option \in {user.option, [user.option EXCEPT ![p] = @ + 1]}
  <2>1. CASE what = "make" BY <1>1, <2>1 DEF UserType, IsUser
  <2>2. CASE what = "option" BY <1>1, <2>2 DEF UserType, IsUser
  <2> QED BY <2>1, <2>2
<1>3. UserType'
  <2>1. user'.make \in [Packages -> Int] /\ user'.option \in [Packages -> Int] BY <1>2 DEF UserType
  <2> QED BY <1>2, <2>1 DEF UserType
<1>4. DiskType' /\ HeaderInv' BY <1>2 DEF EditPackage, DiskType, HeaderInv, Content
<1> QED BY <1>3, <1>4, EditedStep DEF EditPackage, CleanInv

LEMMA EditRuleStep == ASSUME GeneratedInv, EditRule PROVE GeneratedInv'
<1> USE DEF GeneratedInv
<1>1. PICK t \in Targets, x \in Inputs : user' = [user EXCEPT !.rule[t] = x, !.changes = @ + 1]
  BY DEF EditRule
<1>2. /\ IsUser(user') /\ user'.input = user.input /\ user'.rule = [user.rule EXCEPT ![t] = x]
      /\ user'.make = user.make /\ user'.option = user.option /\ user'.changes = user.changes + 1
  BY <1>1 DEF UserType, IsUser
<1>3. UserType'
  <2>1. user'.rule \in [Targets -> Inputs] BY <1>2 DEF UserType
  <2> QED BY <1>2, <2>1 DEF UserType
<1>4. DiskType' /\ HeaderInv' BY <1>2 DEF EditRule, DiskType, HeaderInv, Content
<1> QED BY <1>3, <1>4, EditedStep DEF EditRule, CleanInv

LEMMA EditInputStep == ASSUME GeneratedInv, EditInput PROVE GeneratedInv'
<1> USE DEF GeneratedInv
<1>1. PICK x \in Inputs, later \in BOOLEAN :
        /\ user' = [user EXCEPT !.input[x] = @ + 1, !.changes = @ + 1]
        /\ onDisk' = [onDisk EXCEPT !.header =
             [t \in Targets |-> InputEdited(onDisk.header[t], x, later)]]
  BY DEF EditInput
<1>2. /\ IsUser(user') /\ user'.input = [user.input EXCEPT ![x] = @ + 1] /\ user'.rule = user.rule
      /\ user'.make = user.make /\ user'.option = user.option /\ user'.changes = user.changes + 1
  BY <1>1 DEF UserType, IsUser
<1>3. UserType'
  <2>1. user'.input \in [Inputs -> Int] BY <1>2 DEF UserType
  <2> QED BY <1>2, <2>1 DEF UserType
<1>4. /\ IsDisk(onDisk') /\ onDisk'.header = [t \in Targets |-> InputEdited(onDisk.header[t], x, later)]
      /\ onDisk'.generated = onDisk.generated /\ onDisk'.config = onDisk.config /\ onDisk'.object = onDisk.object
  <2> DEFINE header == [t \in Targets |-> InputEdited(onDisk.header[t], x, later)]
  <2>1. onDisk' = [onDisk EXCEPT !.header = header] BY <1>1
  <2> HIDE DEF header
  <2>2. /\ IsDisk(onDisk') /\ onDisk'.header = header /\ onDisk'.generated = onDisk.generated
        /\ onDisk'.config = onDisk.config /\ onDisk'.object = onDisk.object
    BY <2>1 DEF DiskType, IsDisk
  <2> QED BY <2>2 DEF header
<1>5. \A h \in GeneratedHeaders :
        /\ InputEdited(h, x, later) \in GeneratedHeaders
        /\ InputEdited(h, x, later).names = h.names /\ InputEdited(h, x, later).of = h.of
        /\ ~InputEdited(h, x, later).newer /\ ~InputEdited(h, x, later).unseen => h.names # x /\ ~h.newer /\ ~h.unseen
  BY DEF GeneratedHeaders, InputEdited
<1>6. \A t \in Targets : onDisk.header[t] \in GeneratedHeaders BY DEF DiskType
<1>7. DiskType'
  <2>1. onDisk'.header \in [Targets -> GeneratedHeaders] BY <1>4, <1>5, <1>6
  <2> QED BY <1>4, <2>1 DEF DiskType
<1>8. HeaderInv'
  <2> SUFFICES ASSUME NEW t \in Targets, onDisk'.header[t].of # <<>>, ~onDisk'.header[t].newer, ~onDisk'.header[t].unseen
               PROVE  /\ onDisk'.header[t].names \in Inputs
                      /\ onDisk'.header[t].of = <<onDisk'.header[t].names, user'.input[onDisk'.header[t].names]>>
    BY DEF HeaderInv, Content
  <2>1. onDisk'.header[t] = InputEdited(onDisk.header[t], x, later) BY <1>4
  <2>2. /\ onDisk.header[t].names # x /\ ~onDisk.header[t].newer /\ ~onDisk.header[t].unseen
        /\ onDisk'.header[t].names = onDisk.header[t].names /\ onDisk'.header[t].of = onDisk.header[t].of
    BY <1>5, <1>6, <2>1
  <2>3. onDisk.header[t].names \in Inputs /\ onDisk.header[t].of = Content(onDisk.header[t].names)
    BY <2>2 DEF HeaderInv
  <2>4. user'.input[onDisk.header[t].names] = user.input[onDisk.header[t].names]
    BY <1>2, <2>2, <2>3 DEF UserType
  <2> QED BY <2>2, <2>3, <2>4 DEF Content
<1> QED BY <1>3, <1>7, <1>8, EditedStep DEF EditInput, CleanInv

-----------------------------------------------------------------------------
LEMMA NoBuildType == ASSUME GeneratedAssumption, build' = NoBuild, GeneratedInv PROVE BuildType' /\ SearchInv' /\ ~Clean'
  BY OrderType DEF NoBuild, BuildType, IsBuild, SearchInv, Clean, At, Searching, Making

LEMMA HeaderKept ==
  ASSUME HeaderInv, UNCHANGED user,
         \A t \in Targets : /\ onDisk'.header[t].names = onDisk.header[t].names
                            /\ onDisk'.header[t].of = onDisk.header[t].of
                            /\ onDisk'.header[t].newer = onDisk.header[t].newer
                            /\ onDisk'.header[t].unseen = onDisk.header[t].unseen
  PROVE  HeaderInv'
  BY DEF HeaderInv, Content

LEMMA KillBuildStep ==
  ASSUME GeneratedAssumption, GeneratedInv, KillBuild PROVE GeneratedInv'
<1> USE DEF GeneratedInv
<1>1. BuildType' /\ SearchInv' /\ ~Clean' BY NoBuildType DEF KillBuild
<1>2. UserType' BY DEF KillBuild, UserType
<1>3. DiskType' /\ HeaderInv'
  <2>1. CASE At("generating")
    <3>1. onDisk' = [onDisk EXCEPT !.generated[Package[Visited]] = TornFile] BY <2>1 DEF KillBuild, At
    <3>2. /\ IsDisk(onDisk') /\ onDisk'.generated = [onDisk.generated EXCEPT ![Package[Visited]] = TornFile]
          /\ onDisk'.header = onDisk.header /\ onDisk'.config = onDisk.config /\ onDisk'.object = onDisk.object
      BY <3>1 DEF DiskType, IsDisk
    <3>3. onDisk'.generated \in [Packages -> Int]
      <4>1. TornFile \in Int BY DEF TornFile
      <4> QED BY <4>1, <3>2 DEF DiskType
    <3>4. HeaderInv' BY <3>2, HeaderKept DEF KillBuild
    <3> QED BY <3>2, <3>3, <3>4 DEF DiskType
  <2>2. CASE At("header")
    <3>1. onDisk' = [onDisk EXCEPT !.header[Target].torn = TRUE] BY <2>2 DEF KillBuild, At
    <3>2. Target \in Targets /\ Header \in GeneratedHeaders BY <2>2, TargetType DEF At, Searching, Making
    <3>3. /\ IsDisk(onDisk') /\ onDisk'.header = [onDisk.header EXCEPT ![Target] = [Header EXCEPT !.torn = TRUE]]
          /\ onDisk'.generated = onDisk.generated /\ onDisk'.config = onDisk.config /\ onDisk'.object = onDisk.object
      BY <3>1 DEF DiskType, IsDisk, Header
    <3>4. /\ [Header EXCEPT !.torn = TRUE] \in GeneratedHeaders
          /\ \A f \in {"names", "of", "newer", "unseen"} : [Header EXCEPT !.torn = TRUE][f] = Header[f]
      BY <3>2 DEF GeneratedHeaders
    <3>5. onDisk'.header \in [Targets -> GeneratedHeaders] BY <3>3, <3>4 DEF DiskType
    <3>6. \A t \in Targets : /\ onDisk'.header[t].names = onDisk.header[t].names
                             /\ onDisk'.header[t].of = onDisk.header[t].of
                             /\ onDisk'.header[t].newer = onDisk.header[t].newer
                             /\ onDisk'.header[t].unseen = onDisk.header[t].unseen
      BY <3>2, <3>3, <3>4 DEF DiskType, Header
    <3>7. HeaderInv' BY <3>6, HeaderKept DEF KillBuild
    <3> QED BY <3>3, <3>5, <3>7 DEF DiskType
  <2>3. CASE At("config")
    <3>1. onDisk' = [onDisk EXCEPT !.config[Own] = {TornFile}] BY <2>3 DEF KillBuild, At
    <3>2. /\ IsDisk(onDisk') /\ onDisk'.config = [onDisk.config EXCEPT ![Own] = {TornFile}]
          /\ onDisk'.header = onDisk.header /\ onDisk'.generated = onDisk.generated /\ onDisk'.object = onDisk.object
      BY <3>1 DEF DiskType, IsDisk
    <3>3. onDisk'.config = [p \in Packages |-> onDisk'.config[p]] BY <3>2 DEF DiskType
    <3>4. HeaderInv' BY <3>2, HeaderKept DEF KillBuild
    <3> QED BY <3>2, <3>3, <3>4 DEF DiskType
  <2>4. CASE ~At("generating") /\ ~At("header") /\ ~At("config")
    <3>1. onDisk' = onDisk BY <2>4 DEF KillBuild, At
    <3>2. HeaderInv' BY <3>1, HeaderKept DEF KillBuild
    <3> QED BY <3>1, <3>2 DEF DiskType
  <2> QED BY <2>1, <2>2, <2>3, <2>4
<1> QED BY <1>1, <1>2, <1>3 DEF CleanInv

LEMMA StartBuildStep ==
  ASSUME GeneratedAssumption, GeneratedInv, NEW keepGoing \in BOOLEAN, StartGenerating(keepGoing) PROVE GeneratedInv'
<1> USE DEF GeneratedInv
<1>1. /\ IsBuild(build') /\ build'.pc = "next" /\ build'.keepGoing = keepGoing /\ build'.next = 0
      /\ build'.toVisit = <<>> /\ build'.visited = {} /\ build'.generated = {} /\ build'.failed = {}
      /\ build'.edited = FALSE
  <2>1. build' = [NoBuild EXCEPT !.pc = "next", !.keepGoing = keepGoing] BY DEF StartGenerating
  <2>2. IsBuild(NoBuild) /\ NoBuild.next = 0 /\ NoBuild.toVisit = <<>> /\ NoBuild.visited = {}
        /\ NoBuild.generated = {} /\ NoBuild.failed = {} /\ NoBuild.edited = FALSE
    BY DEF NoBuild, IsBuild
  <2> QED BY <2>1, <2>2 DEF IsBuild
<1>2. BuildType'
  <2>1. <<>> \in Seq(Targets) /\ 0 \in 0 .. Len(Order) BY OrderType
  <2> QED BY <1>1, <2>1 DEF BuildType, At
<1>3. SearchInv' BY <1>1 DEF SearchInv, Searching, Making
<1>4. CleanInv' BY <1>1 DEF CleanInv, MadeInv, TargetInv, DoneInv, DoneBefore, At
<1>5. UserType' /\ DiskType' /\ HeaderInv' BY DEF StartGenerating, UserType, DiskType, HeaderInv, Content
<1> QED BY <1>2, <1>3, <1>4, <1>5

(* A step of a build that writes nothing.                                  *)
LEMMA ReadOnlyStep ==
  ASSUME GeneratedInv, UNCHANGED <<user, onDisk>> PROVE UserType' /\ DiskType' /\ HeaderInv'
  BY DEF GeneratedInv, UserType, DiskType, HeaderInv, Content

LEMMA SameGood ==
  ASSUME NEW t, UNCHANGED user, onDisk'.object[t] = onDisk.object[t], Good(t),
         onDisk'.header[t].unseen = onDisk.header[t].unseen, onDisk'.header[t].torn = onDisk.header[t].torn
  PROVE  Good(t)'
  BY DEF Good, HeaderIsKnown, MadeOf, Content, ConfigOf

LEMMA NextTargetStep == ASSUME GeneratedAssumption, GeneratedInv, NextTarget PROVE GeneratedInv'
<1> USE DEF GeneratedInv
<1>1. UserType' /\ DiskType' /\ HeaderInv' BY ReadOnlyStep DEF NextTarget
<1>2. build.pc = "next" BY DEF NextTarget, At
<1>3. \A t : Good(t) => Good(t)' BY SameGood DEF NextTarget
<1>4. CASE build.next = Len(Order)
  <2>1. build' = [build EXCEPT !.pc = "done"] BY <1>4 DEF NextTarget, GoOnTo
  <2>2. /\ IsBuild(build') /\ build'.pc = "done" /\ build'.next = build.next /\ build'.keepGoing = build.keepGoing
        /\ build'.toVisit = build.toVisit /\ build'.visited = build.visited /\ build'.generated = build.generated
        /\ build'.failed = build.failed /\ build'.edited = build.edited
    BY <2>1 DEF BuildType, IsBuild
  <2>3. BuildType' BY <2>2 DEF BuildType, At
  <2>4. SearchInv' BY <2>2 DEF SearchInv, Searching, Making
  <2>5. CleanInv'
    <3>1. Clean' => Clean BY <2>2, <1>2 DEF Clean
    <3>2. Clean => MadeInv' BY <2>2, <1>2 DEF CleanInv, MadeInv, BeingMade, At, NextTarget
    <3>3. TargetInv' BY <2>2 DEF TargetInv, At
    <3>4. Clean => DoneInv' BY <2>2, <1>2, <1>3, <1>4 DEF CleanInv, DoneInv, DoneBefore, At
    <3> QED BY <3>1, <3>2, <3>3, <3>4 DEF CleanInv
  <2> QED BY <1>1, <2>3, <2>4, <2>5
<1>5. CASE build.next # Len(Order)
  <2> DEFINE t == Order[build.next + 1]
  <2>1. build.next + 1 \in 1 .. Len(Order) /\ t \in Targets
    BY <1>5, OrderType DEF BuildType
  <2>2. CASE t \notin Built
    <3>1. build' = [build EXCEPT !.next = @ + 1] BY <1>5, <2>2 DEF NextTarget
    <3>2. /\ IsBuild(build') /\ build'.pc = "next" /\ build'.next = build.next + 1 /\ build'.keepGoing = build.keepGoing
          /\ build'.toVisit = build.toVisit /\ build'.visited = build.visited /\ build'.generated = build.generated
          /\ build'.failed = build.failed /\ build'.edited = build.edited
      BY <3>1, <1>2 DEF BuildType, IsBuild
    <3>3. BuildType' BY <3>2, <2>1 DEF BuildType, At
    <3>4. SearchInv' BY <3>2 DEF SearchInv, Searching, Making
    <3>5. CleanInv'
      <4>1. Clean' => Clean BY <3>2, <1>2 DEF Clean
      <4>2. Clean => MadeInv' BY <3>2, <1>2 DEF CleanInv, MadeInv, BeingMade, At, NextTarget
      <4>3. TargetInv' BY <3>2 DEF TargetInv, At
      <4>4. Clean => DoneInv'
        <5> SUFFICES ASSUME Clean, NEW i \in 1 .. build.next + 1, Order[i] \in Built PROVE Good(Order[i])'
          BY <3>2 DEF DoneInv, DoneBefore, At
        <5>1. i \in 1 .. build.next BY <2>2 DEF BuildType
        <5> QED BY <5>1, <1>2, <1>3 DEF CleanInv, DoneInv, DoneBefore
      <4> QED BY <4>1, <4>2, <4>3, <4>4 DEF CleanInv
    <3> QED BY <1>1, <3>3, <3>4, <3>5
  <2>3. CASE t \in Built /\ ToSet(Deps[t]) \cap build.failed # {}
    <3>1. build' = [build EXCEPT !.next = @ + 1, !.failed = @ \cup {t}] BY <1>5, <2>3 DEF NextTarget
    <3>2. /\ IsBuild(build') /\ build'.pc = "next" /\ build'.next = build.next + 1 /\ build'.keepGoing = build.keepGoing
          /\ build'.toVisit = build.toVisit /\ build'.visited = build.visited /\ build'.generated = build.generated
          /\ build'.failed = build.failed \cup {t} /\ build'.edited = build.edited
      BY <3>1, <1>2 DEF BuildType, IsBuild
    <3>3. BuildType' BY <3>2, <2>1 DEF BuildType, At
    <3>4. SearchInv' BY <3>2 DEF SearchInv, Searching, Making
    <3>5. CleanInv' BY <3>2 DEF CleanInv, Clean
    <3> QED BY <1>1, <3>3, <3>4, <3>5
  <2>4. CASE t \in Built /\ ToSet(Deps[t]) \cap build.failed = {}
    <3>1. build' = [build EXCEPT !.next = @ + 1, !.pc = "generate", !.toVisit = <<t>>, !.visited = {}]
      BY <1>5, <2>4 DEF NextTarget
    <3>2. /\ IsBuild(build') /\ build'.pc = "generate" /\ build'.next = build.next + 1 /\ build'.keepGoing = build.keepGoing
          /\ build'.toVisit = <<t>> /\ build'.visited = {} /\ build'.generated = build.generated
          /\ build'.failed = build.failed /\ build'.edited = build.edited
      BY <3>1, <1>2 DEF BuildType, IsBuild
    <3>3. <<t>> \in Seq(Targets) /\ t \in ToSet(<<t>>) BY <2>1 DEF ToSet
    <3>4. BuildType' BY <3>2, <3>3, <2>1 DEF BuildType, At, Searching
    <3>5. SearchInv' BY <3>2, <3>3, <2>1 DEF SearchInv, Making, Target, At
    <3>6. CleanInv'
      <4>1. Clean' => Clean BY <3>2, <1>2 DEF Clean
      <4>2. Clean => MadeInv' BY <3>2, <1>2 DEF CleanInv, MadeInv, BeingMade, At, NextTarget
      <4>3. TargetInv' BY <3>2 DEF TargetInv, At
      <4>4. Clean => DoneInv'
        <5>1. DoneBefore' = DoneBefore BY <3>2, <1>2 DEF DoneBefore, BuildType
        <5> QED BY <5>1, <3>2, <1>3 DEF CleanInv, DoneInv, At
      <4> QED BY <4>1, <4>2, <4>3, <4>4 DEF CleanInv
    <3> QED BY <1>1, <3>4, <3>5, <3>6
  <2> QED BY <2>2, <2>3, <2>4
<1> QED BY <1>4, <1>5

LEMMA FailStep == ASSUME GeneratedAssumption, GeneratedInv, TargetFails PROVE GeneratedInv'
<1> USE DEF GeneratedInv
<1>1. build.pc \in Searching \cup Making BY DEF TargetFails, Running, At, BuildType
<1>2. Target \in Targets BY <1>1, TargetType
<1>3. \E place \in {"next", "done"} : build' = [build EXCEPT !.pc = place, !.failed = @ \cup {Target}]
  BY DEF TargetFails
<1>4. /\ IsBuild(build') /\ build'.pc \in {"next", "done"} /\ build'.next = build.next /\ build'.keepGoing = build.keepGoing
      /\ build'.toVisit = build.toVisit /\ build'.visited = build.visited /\ build'.generated = build.generated
      /\ build'.failed = build.failed \cup {Target} /\ build'.edited = build.edited
  BY <1>3 DEF BuildType, IsBuild
<1>5. BuildType' BY <1>2, <1>4 DEF BuildType, At
<1>6. SearchInv' BY <1>4 DEF SearchInv, Searching, Making
<1>7. CleanInv' BY <1>4 DEF CleanInv, Clean
<1>8. UserType' BY DEF TargetFails, UserType
<1>9. DiskType' /\ HeaderInv'
  <2>1. CASE At("header")
    <3>1. onDisk' = [onDisk EXCEPT !.header[Target] = NoHeader] BY <2>1 DEF TargetFails
    <3>2. /\ IsDisk(onDisk') /\ onDisk'.header = [onDisk.header EXCEPT ![Target] = NoHeader]
          /\ onDisk'.generated = onDisk.generated /\ onDisk'.config = onDisk.config /\ onDisk'.object = onDisk.object
      BY <3>1 DEF DiskType, IsDisk
    <3>3. NoHeader \in GeneratedHeaders /\ NoHeader.of = <<>> BY DEF NoHeader, GeneratedHeaders
    <3>4. onDisk'.header \in [Targets -> GeneratedHeaders] BY <3>2, <3>3 DEF DiskType
    <3>5. HeaderInv' BY <3>2, <3>3, <1>2 DEF DiskType, HeaderInv, TargetFails, Content
    <3> QED BY <3>2, <3>4, <3>5 DEF DiskType
  <2>2. CASE ~At("header") BY <2>2, ReadOnlyStep DEF TargetFails
  <2> QED BY <2>1, <2>2
<1> QED BY <1>5, <1>6, <1>7, <1>8, <1>9

-----------------------------------------------------------------------------
LEMMA SeenToStep ==
  ASSUME GeneratedAssumption, GeneratedInv, build' = SeenTo, build.toVisit # <<>>, build.pc \in Searching,
         Package[Visited] \in build.generated
  PROVE  /\ BuildType' /\ SearchInv' /\ build'.pc = "generate" /\ build'.next = build.next
         /\ build'.generated = build.generated /\ build'.failed = build.failed /\ build'.edited = build.edited
<1> USE DEF GeneratedInv
<1>1. Visited \in Targets /\ TransDeps(Visited) = Deps[Visited] /\ Deps[Visited] \in Seq(Targets)
  BY QueueFacts, OrderType DEF BuildType, Visited, TransDeps
<1>2. /\ IsBuild(build') /\ build'.pc = "generate" /\ build'.next = build.next /\ build'.keepGoing = build.keepGoing
      /\ build'.toVisit = Tail(build.toVisit) \o TransDeps(Visited) /\ build'.visited = build.visited \cup {Visited}
      /\ build'.generated = build.generated /\ build'.failed = build.failed /\ build'.edited = build.edited
  BY DEF BuildType, IsBuild, SeenTo
<1>3. /\ build'.toVisit \in Seq(Targets) /\ ToSet(build'.toVisit) = ToSet(Tail(build.toVisit)) \cup ToSet(Deps[Visited])
      /\ ToSet(build.toVisit) \subseteq {Visited} \cup ToSet(Tail(build.toVisit))
  BY <1>1, <1>2, QueueFacts DEF BuildType, Visited
<1>4. BuildType' BY <1>1, <1>2, <1>3 DEF BuildType, At, Searching
<1>5. Target' = Target BY <1>2 DEF Target
<1>6. SearchInv' BY <1>2, <1>3, <1>5 DEF SearchInv, Searching, Making, At
<1> QED BY <1>2, <1>4, <1>6

LEMMA EnsureGeneratedStep == ASSUME GeneratedAssumption, GeneratedInv, EnsurePackageGenerated PROVE GeneratedInv'
<1> USE DEF GeneratedInv
<1>1. UserType' /\ DiskType' /\ HeaderInv' BY ReadOnlyStep DEF EnsurePackageGenerated
<1>2. build.pc = "generate" /\ build.toVisit # <<>> /\ UNCHANGED <<user, onDisk>>
  BY DEF EnsurePackageGenerated, At
<1>3. \A t : Good(t) => Good(t)' BY SameGood, <1>2
<1>4. Visited \in Targets /\ Package[Visited] \in Packages
  BY <1>2, TargetType DEF At, Searching
<1>5. ASSUME build'.pc \in Searching, build'.next = build.next, build'.failed = build.failed, build'.edited = build.edited,
             Clean => MadeInv'
      PROVE  CleanInv'
  <2>1. Clean' => Clean BY <1>5, <1>2 DEF Clean
  <2>2. TargetInv' BY <1>5 DEF TargetInv, At, Searching
  <2>3. Clean => DoneInv'
    <3>1. DoneBefore' = DoneBefore BY <1>5, <1>2 DEF DoneBefore, Searching
    <3> QED BY <3>1, <1>5, <1>3 DEF CleanInv, DoneInv, At, Searching
  <2> QED BY <2>1, <2>2, <2>3, <1>5 DEF CleanInv
<1>6. CASE Visited \in build.visited
  <2>1. build' = [build EXCEPT !.toVisit = Tail(@)] BY <1>6 DEF EnsurePackageGenerated
  <2>2. /\ IsBuild(build') /\ build'.pc = "generate" /\ build'.next = build.next /\ build'.keepGoing = build.keepGoing
        /\ build'.toVisit = Tail(build.toVisit) /\ build'.visited = build.visited /\ build'.generated = build.generated
        /\ build'.failed = build.failed /\ build'.edited = build.edited
    BY <2>1, <1>2 DEF BuildType, IsBuild
  <2>3. build'.toVisit \in Seq(Targets) /\ ToSet(build.toVisit) \subseteq {Visited} \cup ToSet(build'.toVisit)
    BY <2>2, <1>2, QueueFacts DEF BuildType, Visited
  <2>4. BuildType' BY <2>2, <2>3 DEF BuildType, At, Searching
  <2>5. Target' = Target BY <2>2 DEF Target
  <2>6. SearchInv' BY <2>2, <2>3, <2>5, <1>2, <1>6 DEF SearchInv, Searching, Making, At
  <2>7. Clean => MadeInv' BY <2>2, <1>2 DEF CleanInv, MadeInv, BeingMade, At
  <2>8. CleanInv' BY <2>2, <2>7, <1>5 DEF Searching
  <2> QED BY <1>1, <2>4, <2>6, <2>8
<1>7. CASE Visited \notin build.visited /\ Package[Visited] \in build.generated
  <2>1. build' = SeenTo BY <1>7 DEF EnsurePackageGenerated
  <2>2. /\ BuildType' /\ SearchInv' /\ build'.pc = "generate" /\ build'.next = build.next
        /\ build'.generated = build.generated /\ build'.failed = build.failed /\ build'.edited = build.edited
    BY <2>1, <1>2, <1>7, SeenToStep DEF Searching
  <2>3. Clean => MadeInv' BY <2>2, <1>2 DEF CleanInv, MadeInv, BeingMade, At
  <2>4. CleanInv' BY <2>2, <2>3, <1>5 DEF Searching
  <2> QED BY <1>1, <2>2, <2>4
<1>8. CASE Visited \notin build.visited /\ Package[Visited] \notin build.generated
  <2>1. build' = [build EXCEPT !.generated = @ \cup {Package[Visited]}, !.pc = "generating"]
    BY <1>8 DEF EnsurePackageGenerated
  <2>2. /\ IsBuild(build') /\ build'.pc = "generating" /\ build'.next = build.next /\ build'.keepGoing = build.keepGoing
        /\ build'.toVisit = build.toVisit /\ build'.visited = build.visited
        /\ build'.generated = build.generated \cup {Package[Visited]}
        /\ build'.failed = build.failed /\ build'.edited = build.edited
    BY <2>1, <1>2 DEF BuildType, IsBuild
  <2>3. BuildType' BY <2>2, <1>4 DEF BuildType, At, Searching
  <2>4. Target' = Target /\ Visited' = Visited BY <2>2 DEF Target, Visited
  <2>5. SearchInv' BY <2>2, <2>4, <1>2 DEF SearchInv, Searching, Making, At
  <2>6. Clean => MadeInv' BY <2>2, <2>4, <1>2 DEF CleanInv, MadeInv, BeingMade, At
  <2>7. CleanInv' BY <2>2, <2>6, <1>5 DEF Searching
  <2> QED BY <1>1, <2>3, <2>5, <2>7
<1> QED BY <1>6, <1>7, <1>8

LEMMA GenerateStep == ASSUME GeneratedAssumption, GeneratedInv, RunGenerators PROVE GeneratedInv'
<1> USE DEF GeneratedInv
<1>1. build.pc = "generating" /\ build' = SeenTo /\ UNCHANGED user BY DEF RunGenerators, At
<1>2. build.toVisit # <<>> /\ Package[Visited] \in build.generated
  BY <1>1 DEF SearchInv, At, Searching
<1>3. /\ BuildType' /\ SearchInv' /\ build'.pc = "generate" /\ build'.next = build.next
      /\ build'.generated = build.generated /\ build'.failed = build.failed /\ build'.edited = build.edited
  BY <1>1, <1>2, SeenToStep DEF Searching
<1>4. Package[Visited] \in Packages BY <1>2 DEF BuildType
<1>5. onDisk' = [onDisk EXCEPT !.generated[Package[Visited]] = user.make[Package[Visited]]]
  BY DEF RunGenerators
<1>6. /\ IsDisk(onDisk') /\ onDisk'.header = onDisk.header /\ onDisk'.config = onDisk.config
      /\ onDisk'.object = onDisk.object
      /\ onDisk'.generated = [onDisk.generated EXCEPT ![Package[Visited]] = user.make[Package[Visited]]]
  BY <1>5 DEF DiskType, IsDisk
<1>7. DiskType'
  <2>1. user.make[Package[Visited]] \in Int BY <1>4 DEF UserType
  <2>2. onDisk'.generated \in [Packages -> Int] BY <2>1, <1>6 DEF DiskType
  <2> QED BY <1>6, <2>2 DEF DiskType
<1>8. UserType' /\ HeaderInv' BY <1>1, <1>6, HeaderKept DEF UserType
<1>9. CleanInv'
  <2>1. Clean' => Clean BY <1>1, <1>3 DEF Clean
  <2>2. TargetInv' BY <1>3 DEF TargetInv, At
  <2>3. Clean => MadeInv'
    <3> SUFFICES ASSUME Clean, NEW p \in build.generated PROVE onDisk'.generated[p] = user.make[p]
      BY <1>1, <1>3 DEF MadeInv
    <3>1. p \in Packages BY DEF BuildType
    <3>2. p = Package[Visited] \/ onDisk.generated[p] = user.make[p] BY DEF CleanInv, MadeInv, BeingMade
    <3> QED BY <3>1, <3>2, <1>6 DEF DiskType
  <2>4. Clean => DoneInv'
    <3>1. \A t : Good(t) => Good(t)' BY SameGood, <1>1, <1>6
    <3>2. DoneBefore' = DoneBefore BY <1>1, <1>3 DEF DoneBefore
    <3> QED BY <3>1, <3>2, <1>3 DEF CleanInv, DoneInv, At
  <2> QED BY <2>1, <2>2, <2>3, <2>4 DEF CleanInv
<1> QED BY <1>3, <1>7, <1>8, <1>9

-----------------------------------------------------------------------------
(* A step from one place of a target to the next, that writes only the     *)
(* files of this target: those of the targets before stay.                 *)
LEMMA AdvanceStep ==
  ASSUME GeneratedAssumption, GeneratedInv, NEW place \in Making, NEW read,
         build.pc \in Searching \cup Making, build.pc # "generating", build.toVisit = <<>>,
         build' = [build EXCEPT !.pc = place, !.read = read],
         place = "header" => read \in Inputs \X Int,
         UNCHANGED user, onDisk'.generated = onDisk.generated,
         \A t \in Targets \ {Target} :
           onDisk'.header[t] = onDisk.header[t] /\ onDisk'.object[t] = onDisk.object[t]
  PROVE  /\ BuildType' /\ SearchInv' /\ UserType' /\ build'.pc = place /\ build'.read = read
         /\ Target' = Target /\ Own' = Own /\ Target \in Targets /\ Own \in Packages
         /\ (Clean => TargetInv') => CleanInv'
<1> USE DEF GeneratedInv
<1>1. /\ IsBuild(build') /\ build'.pc = place /\ build'.next = build.next /\ build'.keepGoing = build.keepGoing
      /\ build'.toVisit = build.toVisit /\ build'.visited = build.visited /\ build'.generated = build.generated
      /\ build'.failed = build.failed /\ build'.edited = build.edited /\ build'.read = read
  BY DEF BuildType, IsBuild
<1>2. BuildType' BY <1>1 DEF BuildType, At
<1>3. Target' = Target /\ Own' = Own BY <1>1 DEF Target, Own
<1>4. SearchInv' BY <1>1, <1>3 DEF SearchInv, At, Searching, Making
<1>5. UserType' BY DEF UserType
<1>6. Clean' => Clean BY <1>1 DEF Clean, Searching, Making
<1>7. Clean => MadeInv' BY <1>1 DEF CleanInv, MadeInv, BeingMade, At, Making
<1>8. build.next \in 1 .. Len(Order) /\ Target \in Targets /\ Own \in Packages BY TargetType
<1>9. Clean => DoneInv'
  <2> SUFFICES ASSUME Clean, NEW i \in 1 .. build.next - 1, Order[i] \in Built PROVE Good(Order[i])'
    BY <1>1 DEF DoneInv, DoneBefore, At, Making
  <2>1. i \in 1 .. Len(Order) /\ i # build.next BY <1>8, OrderType
  <2>2. Order[i] \in Targets \ {Target} BY <2>1, <1>8, OrderType DEF Target
  <2>3. Good(Order[i]) BY DEF CleanInv, DoneInv, DoneBefore, Searching, Making
  <2> QED BY <2>2, <2>3, SameGood
<1> QED BY <1>1, <1>2, <1>3, <1>4, <1>5, <1>6, <1>7, <1>8, <1>9 DEF CleanInv

LEMMA GoOn ==
  ASSUME GeneratedInv, NEW place, GoOnTo(place) PROVE build' = [build EXCEPT !.pc = place, !.read = build.read]
  BY DEF GeneratedInv, BuildType, IsBuild, GoOnTo

LEMMA ResolvedStep == ASSUME GeneratedAssumption, GeneratedInv, Resolved PROVE GeneratedInv'
<1>1. /\ build.pc = "generate" /\ build.toVisit = <<>> /\ UNCHANGED <<user, onDisk>>
      /\ build' = [build EXCEPT !.pc = "rules", !.read = build.read]
  BY GoOn DEF Resolved, At
<1>2. DiskType' /\ HeaderInv' BY ReadOnlyStep, <1>1
<1>3. /\ BuildType' /\ SearchInv' /\ UserType' /\ build'.pc = "rules"
      /\ (Clean => TargetInv') => CleanInv'
  BY <1>1, AdvanceStep DEF Searching, Making
<1>4. TargetInv' BY <1>3 DEF TargetInv, At
<1> QED BY <1>2, <1>3, <1>4 DEF GeneratedInv

(* A header whose rule is skipped is of the input of its rule.             *)
LEMMA SkippedIsCurrent ==
  ASSUME GeneratedAssumption, GeneratedInv, Target \in Targets, SkipGenRule, HeaderIsKnown(Target)
  PROVE  Header.of = Content(user.rule[Target])
<1>1. Header.names = user.rule[Target] /\ Header.of # <<>> /\ ~Header.newer /\ ~Header.unseen
  BY DEF SkipGenRule, genRuleMatchesInput, needGenRule, HeaderIsKnown, Header
<1> QED BY <1>1 DEF GeneratedInv, HeaderInv, Header

LEMMA RulesStep == ASSUME GeneratedAssumption, GeneratedInv, RunGenRules PROVE GeneratedInv'
<1>1. build.pc = "rules" /\ UNCHANGED user BY DEF RunGenRules, At
<1>2. build.toVisit = <<>> /\ Target \in Targets BY <1>1, TargetType DEF GeneratedInv, SearchInv, Making
<1>3. CASE SkipGenRule
  <2>1. UNCHANGED onDisk /\ build' = [build EXCEPT !.pc = "config", !.read = build.read]
    BY <1>3, GoOn DEF RunGenRules
  <2>2. DiskType' /\ HeaderInv' BY ReadOnlyStep, <1>1, <2>1
  <2>3. /\ BuildType' /\ SearchInv' /\ UserType' /\ build'.pc = "config" /\ Target' = Target
        /\ ((Clean => TargetInv') => CleanInv')
    BY <1>1, <1>2, <2>1, AdvanceStep DEF Searching, Making
  <2>4. TargetInv'
    <3>1. HeaderIsKnown(Target)' => HeaderIsKnown(Target) BY <2>1, <2>3 DEF HeaderIsKnown
    <3>2. Header' = Header /\ Content(user.rule[Target])' = Content(user.rule[Target])
      BY <1>1, <2>1, <2>3 DEF Header, Content
    <3> QED BY <3>1, <3>2, <1>2, <1>3, <2>3, SkippedIsCurrent DEF TargetInv, At
  <2> QED BY <2>2, <2>3, <2>4 DEF GeneratedInv
<1>4. CASE ~SkipGenRule
  <2> DEFINE x == user.rule[Target]
  <2>1. build' = [build EXCEPT !.pc = "header", !.read = Content(x)] BY <1>4 DEF RunGenRules
  <2>2. PICK names \in {"none", x} :
          onDisk' = [onDisk EXCEPT !.header[Target] = [NoHeader EXCEPT !.names = names]]
    BY <1>4 DEF RunGenRules
  <2> DEFINE header == [NoHeader EXCEPT !.names = names]
  <2>3. x \in Inputs /\ Content(x) \in Inputs \X Int BY <1>2 DEF GeneratedInv, UserType, Content
  <2>4. header \in GeneratedHeaders /\ header.of = <<>> BY <2>3 DEF NoHeader, GeneratedHeaders
  <2> HIDE DEF header
  <2>5. /\ IsDisk(onDisk') /\ onDisk'.generated = onDisk.generated /\ onDisk'.config = onDisk.config
        /\ onDisk'.object = onDisk.object /\ onDisk'.header = [onDisk.header EXCEPT ![Target] = header]
    BY <2>2 DEF GeneratedInv, DiskType, IsDisk, header
  <2>6. /\ onDisk'.header \in [Targets -> GeneratedHeaders]
        /\ \A t \in Targets \ {Target} : onDisk'.header[t] = onDisk.header[t]
        /\ onDisk'.header[Target] = header
    BY <1>2, <2>4, <2>5 DEF GeneratedInv, DiskType
  <2>7. DiskType' BY <2>5, <2>6 DEF GeneratedInv, DiskType
  <2>8. HeaderInv'
    <3> SUFFICES ASSUME NEW t \in Targets, onDisk'.header[t].of # <<>>, ~onDisk'.header[t].newer, ~onDisk'.header[t].unseen
                 PROVE  /\ onDisk'.header[t].names \in Inputs
                        /\ onDisk'.header[t].of = <<onDisk'.header[t].names, user'.input[onDisk'.header[t].names]>>
      BY DEF HeaderInv, Content
    <3>1. onDisk'.header[t] = onDisk.header[t] BY <2>4, <2>6
    <3> QED BY <3>1, <1>1 DEF GeneratedInv, HeaderInv, Content
  <2>9. /\ BuildType' /\ SearchInv' /\ UserType' /\ build'.pc = "header" /\ build'.read = Content(x)
        /\ Target' = Target /\ ((Clean => TargetInv') => CleanInv')
    <3> HIDE DEF x
    <3>1. /\ BuildType' /\ SearchInv' /\ UserType' /\ build'.pc = "header" /\ build'.read = Content(x)
          /\ Target' = Target /\ ((Clean => TargetInv') => CleanInv')
      BY <1>1, <1>2, <2>1, <2>3, <2>5, <2>6, AdvanceStep DEF Searching, Making
    <3> QED BY <3>1
  <2>10. TargetInv'
    <3>1. Content(user.rule[Target])' = Content(x) BY <1>1, <2>9 DEF Content
    <3> QED BY <2>9, <3>1 DEF TargetInv, At
  <2> QED BY <2>7, <2>8, <2>9, <2>10 DEF GeneratedInv
<1> QED BY <1>3, <1>4

LEMMA EndRulesStep == ASSUME GeneratedAssumption, GeneratedInv, EndGenRules PROVE GeneratedInv'
<1>1. build.pc = "header" /\ UNCHANGED user /\ build' = [build EXCEPT !.pc = "config", !.read = <<>>]
  BY DEF EndGenRules, At
<1>2. build.toVisit = <<>> /\ Target \in Targets /\ build.read \in Inputs \X Int
  BY <1>1, TargetType DEF GeneratedInv, SearchInv, BuildType, Making, At
<1> DEFINE x == build.read[1]
           header == [NoHeader EXCEPT !.names = x, !.of = build.read, !.unseen = build.read # Content(x)]
<1>3. onDisk' = [onDisk EXCEPT !.header[Target] = header] BY DEF EndGenRules
<1>4. /\ x \in Inputs /\ header \in GeneratedHeaders /\ header.names = x /\ header.of = build.read
      /\ (~header.unseen => build.read = Content(x))
  BY <1>2 DEF NoHeader, GeneratedHeaders
<1> HIDE DEF header
<1>5. /\ IsDisk(onDisk') /\ onDisk'.generated = onDisk.generated /\ onDisk'.config = onDisk.config
      /\ onDisk'.object = onDisk.object /\ onDisk'.header = [onDisk.header EXCEPT ![Target] = header]
  BY <1>3 DEF GeneratedInv, DiskType, IsDisk
<1>6. /\ onDisk'.header \in [Targets -> GeneratedHeaders]
      /\ \A t \in Targets \ {Target} : onDisk'.header[t] = onDisk.header[t]
      /\ onDisk'.header[Target] = header
  BY <1>2, <1>4, <1>5 DEF GeneratedInv, DiskType
<1>7. DiskType' BY <1>5, <1>6 DEF GeneratedInv, DiskType
<1>8. HeaderInv'
  <2> SUFFICES ASSUME NEW t \in Targets, onDisk'.header[t].of # <<>>, ~onDisk'.header[t].newer, ~onDisk'.header[t].unseen
               PROVE  /\ onDisk'.header[t].names \in Inputs
                      /\ onDisk'.header[t].of = <<onDisk'.header[t].names, user.input[onDisk'.header[t].names]>>
    BY <1>1 DEF HeaderInv, Content
  <2>1. CASE t = Target BY <2>1, <1>4, <1>6 DEF Content
  <2>2. CASE t # Target BY <2>2, <1>6 DEF GeneratedInv, HeaderInv, Content
  <2> QED BY <2>1, <2>2
<1>9. /\ BuildType' /\ SearchInv' /\ UserType' /\ build'.pc = "config" /\ Target' = Target
      /\ ((Clean => TargetInv') => CleanInv')
  BY <1>1, <1>2, <1>5, <1>6, AdvanceStep DEF Searching, Making
<1>10. Clean => TargetInv'
  <2>1. Clean => build.read = Content(user.rule[Target]) BY <1>1 DEF GeneratedInv, CleanInv, TargetInv, At
  <2>2. Header'.of = build.read BY <1>4, <1>6, <1>9 DEF Header
  <2> QED BY <1>1, <1>9, <2>1, <2>2 DEF TargetInv, At, Content
<1> QED BY <1>7, <1>8, <1>9, <1>10 DEF GeneratedInv

LEMMA ConfigStep == ASSUME GeneratedAssumption, GeneratedInv, WriteConfigHeader PROVE GeneratedInv'
<1>1. /\ build.pc = "config" /\ UNCHANGED user
      /\ build' = [build EXCEPT !.pc = "compile", !.read = build.read]
  BY GoOn DEF WriteConfigHeader, At
<1>2. build.toVisit = <<>> /\ Target \in Targets /\ Own \in Packages
  BY <1>1, TargetType DEF GeneratedInv, SearchInv, Making
<1>3. onDisk' = [onDisk EXCEPT !.config[Own] = ConfigOf(Own)] BY DEF WriteConfigHeader
<1>4. /\ IsDisk(onDisk') /\ onDisk'.generated = onDisk.generated /\ onDisk'.header = onDisk.header
      /\ onDisk'.object = onDisk.object /\ onDisk'.config = [onDisk.config EXCEPT ![Own] = ConfigOf(Own)]
  BY <1>3 DEF GeneratedInv, DiskType, IsDisk
<1>5. DiskType'
  <2>1. onDisk'.config = [p \in Packages |-> onDisk'.config[p]] BY <1>4 DEF GeneratedInv, DiskType
  <2> QED BY <1>4, <2>1 DEF GeneratedInv, DiskType
<1>6. HeaderInv' BY <1>1, <1>4, HeaderKept DEF GeneratedInv
<1>7. /\ BuildType' /\ SearchInv' /\ UserType' /\ build'.pc = "compile" /\ Target' = Target /\ Own' = Own
      /\ ((Clean => TargetInv') => CleanInv')
  BY <1>1, <1>2, <1>4, AdvanceStep DEF Searching, Making
<1>8. Clean => TargetInv'
  <2>1. onDisk'.config[Own] = ConfigOf(Own) BY <1>2, <1>4 DEF GeneratedInv, DiskType
  <2>2. ConfigOf(Own)' = ConfigOf(Own) BY <1>1, <1>7 DEF ConfigOf
  <2>3. Header' = Header /\ (HeaderIsKnown(Target)' => HeaderIsKnown(Target))
    BY <1>4, <1>7 DEF Header, HeaderIsKnown
  <2>4. Content(user.rule[Target])' = Content(user.rule[Target]) BY <1>1, <1>7 DEF Content
  <2> QED BY <1>1, <1>7, <2>1, <2>2, <2>3, <2>4 DEF GeneratedInv, CleanInv, TargetInv, At
<1> QED BY <1>5, <1>6, <1>7, <1>8 DEF GeneratedInv

(* All that a target reaches has been visited, so what it is compiled of   *)
(* is what the generators, the input and the options make now.             *)
LEMMA MadeOfCurrent ==
  ASSUME GeneratedAssumption, GeneratedInv, Clean, At("compile"), HeaderIsKnown(Target)
  PROVE  MadeOf(Target, onDisk.generated, Header.of, onDisk.config[Own])
           = MadeOf(Target, user.make, Content(user.rule[Target]), ConfigOf(Own))
<1> USE DEF GeneratedInv
<1>1. /\ Target \in build.visited /\ build.visited \subseteq Targets
      /\ \A u \in build.visited : ToSet(Deps[u]) \subseteq build.visited /\ Package[u] \in build.generated
  <2>1. build.toVisit = <<>> BY DEF SearchInv, Making, At
  <2>2. ToSet(build.toVisit) = {} BY <2>1 DEF ToSet
  <2> QED BY <2>2 DEF SearchInv, BuildType, Making, At
<1>2. \A d \in Reached(Target) : onDisk.generated[Package[d]] = user.make[Package[d]]
  <2> SUFFICES ASSUME NEW d \in Reached(Target) PROVE onDisk.generated[Package[d]] = user.make[Package[d]]
    OBVIOUS
  <2>1. d \in build.visited BY <1>1 DEF Reached
  <2> QED BY <2>1, <1>1 DEF CleanInv, MadeInv, BeingMade, At
<1>3. Header.of = Content(user.rule[Target]) /\ onDisk.config[Own] = ConfigOf(Own)
  BY DEF CleanInv, TargetInv, At
<1>4. {<<Package[d], onDisk.generated[Package[d]]>> : d \in Reached(Target)}
        = {<<Package[d], user.make[Package[d]]>> : d \in Reached(Target)}
  BY <1>2
<1> QED BY <1>3, <1>4 DEF MadeOf

LEMMA NowGood ==
  ASSUME NEW t, UNCHANGED user,
         HeaderIsKnown(t)' => onDisk'.object[t] = MadeOf(t, user.make, Content(user.rule[t]), ConfigOf(Package[t]))
  PROVE  Good(t)'
  BY DEF Good, MadeOf, Content, ConfigOf

LEMMA CompileStep == ASSUME GeneratedAssumption, GeneratedInv, CompileAndLink PROVE GeneratedInv'
<1> USE DEF GeneratedInv
<1>1. build.pc = "compile" /\ UNCHANGED user /\ build' = [build EXCEPT !.pc = "next"]
  BY DEF CompileAndLink, At, GoOnTo
<1>2. build.next \in 1 .. Len(Order) /\ Target \in Targets /\ Own = Package[Target]
  BY <1>1, TargetType DEF Making, Own
<1> DEFINE object == MadeOf(Target, onDisk.generated, Header.of, onDisk.config[Own])
<1>3. onDisk' = [onDisk EXCEPT !.object[Target] = object] BY DEF CompileAndLink
<1> HIDE DEF object
<1>4. /\ IsDisk(onDisk') /\ onDisk'.generated = onDisk.generated /\ onDisk'.header = onDisk.header
      /\ onDisk'.config = onDisk.config /\ onDisk'.object = [onDisk.object EXCEPT ![Target] = object]
  BY <1>3 DEF DiskType, IsDisk
<1>5. /\ onDisk'.object = [t \in Targets |-> onDisk'.object[t]] /\ onDisk'.object[Target] = object
      /\ \A t \in Targets \ {Target} : onDisk'.object[t] = onDisk.object[t]
  BY <1>2, <1>4 DEF DiskType
<1>6. DiskType' BY <1>4, <1>5 DEF DiskType
<1>7. HeaderInv' /\ UserType' BY <1>1, <1>4, HeaderKept DEF UserType
<1>8. /\ IsBuild(build') /\ build'.pc = "next" /\ build'.next = build.next /\ build'.keepGoing = build.keepGoing
      /\ build'.toVisit = build.toVisit /\ build'.visited = build.visited /\ build'.generated = build.generated
      /\ build'.failed = build.failed /\ build'.edited = build.edited
  BY <1>1 DEF BuildType, IsBuild
<1>9. BuildType' BY <1>8 DEF BuildType, At
<1>10. SearchInv' BY <1>8 DEF SearchInv, Searching, Making
<1>11. CleanInv'
  <2>1. Clean' => Clean BY <1>1, <1>8 DEF Clean
  <2>2. TargetInv' BY <1>8 DEF TargetInv, At
  <2>3. Clean => MadeInv' BY <1>1, <1>4, <1>8 DEF CleanInv, MadeInv, BeingMade, At
  <2>4. Clean => DoneInv'
    <3> SUFFICES ASSUME Clean, NEW i \in 1 .. build.next, Order[i] \in Built PROVE Good(Order[i])'
      BY <1>8 DEF DoneInv, DoneBefore, At
    <3>1. CASE i = build.next
      <4> DEFINE t == Order[i]
      <4>1. t = Target BY <3>1 DEF Target
      <4>2. HeaderIsKnown(t)' => HeaderIsKnown(Target) BY <4>1, <1>4 DEF HeaderIsKnown
      <4>3. HeaderIsKnown(Target) =>
              object = MadeOf(Target, user.make, Content(user.rule[Target]), ConfigOf(Own))
        BY <1>1, MadeOfCurrent DEF At, object
      <4>4. HeaderIsKnown(t)' => onDisk'.object[t] = MadeOf(t, user.make, Content(user.rule[t]), ConfigOf(Package[t]))
        BY <4>1, <4>2, <4>3, <1>2, <1>5
      <4> HIDE DEF t
      <4>5. Good(t)' BY <4>4, <1>1, NowGood
      <4> QED BY <4>5 DEF t
    <3>2. CASE i # build.next
      <4>1. i \in 1 .. Len(Order) /\ i \in 1 .. build.next - 1 BY <3>2, <1>2, OrderType
      <4>2. Order[i] \in Targets \ {Target} BY <4>1, <3>2, <1>2, OrderType DEF Target
      <4>3. Good(Order[i]) BY <4>1, <1>1 DEF CleanInv, DoneInv, DoneBefore
      <4> QED BY <4>2, <4>3, <1>1, <1>4, <1>5, SameGood
    <3> QED BY <3>1, <3>2
  <2> QED BY <2>1, <2>2, <2>3, <2>4 DEF CleanInv
<1> QED BY <1>6, <1>7, <1>9, <1>10, <1>11

LEMMA GeneratedNextHolds ==
  ASSUME GeneratedAssumption, GeneratedInv, [GeneratedNext]_generatedVars PROVE GeneratedInv'
<1>1. CASE GeneratedNext
  BY <1>1, EditPackageStep, EditInputStep, EditRuleStep, StartBuildStep, NextTargetStep, FailStep, KillBuildStep,
     EnsureGeneratedStep, GenerateStep, ResolvedStep, RulesStep, EndRulesStep, ConfigStep, CompileStep
     DEF GeneratedNext, User, Scheduler
<1>2. CASE UNCHANGED generatedVars
  <2>1. UserType' /\ DiskType' /\ HeaderInv' BY <1>2, ReadOnlyStep DEF generatedVars
  <2>2. BuildType' /\ SearchInv'
    BY <1>2 DEF generatedVars, GeneratedInv, BuildType, SearchInv, At, Target, Visited
  <2>3. CleanInv'
    <3>1. \A t : Good(t) => Good(t)' BY <1>2, SameGood DEF generatedVars
    <3>2. Clean' => Clean /\ MadeInv' /\ TargetInv'
      BY <1>2 DEF generatedVars, GeneratedInv, CleanInv, Clean, MadeInv, BeingMade, TargetInv, At, Visited, Target,
                  Own, Header, HeaderIsKnown, Content, ConfigOf
    <3>3. Clean => DoneInv'
      BY <1>2, <3>1 DEF generatedVars, GeneratedInv, CleanInv, DoneInv, DoneBefore, At
    <3> QED BY <3>2, <3>3 DEF CleanInv
  <2> QED BY <2>1, <2>2, <2>3 DEF GeneratedInv
<1> QED BY <1>1, <1>2

(* What is on disk while builds run, fail and are killed.                  *)
THEOREM GeneratedInductive == ASSUME GeneratedAssumption PROVE GeneratedSpec => []GeneratedInv
<1>1. GeneratedInit => GeneratedInv BY GeneratedInitHolds
<1>2. GeneratedInv /\ [GeneratedNext]_generatedVars => GeneratedInv' BY GeneratedNextHolds
<1> QED BY <1>1, <1>2, PTL DEF GeneratedSpec

(* After a build that succeeds, every target is compiled of what its       *)
(* generators, input and options make now.                                 *)
THEOREM GeneratedHolds == ASSUME GeneratedAssumption PROVE GeneratedSpec => []GeneratedIsCurrent
<1>1. GeneratedInv => GeneratedIsCurrent
  <2> SUFFICES ASSUME GeneratedInv, At("done"), build.failed = {}, ~build.edited, NEW t \in Built
               PROVE  HeaderIsKnown(t) => onDisk.object[t] = MadeOf(t, user.make, Content(user.rule[t]), ConfigOf(Package[t]))
    BY DEF GeneratedIsCurrent
  <2>1. DoneInv BY DEF GeneratedInv, CleanInv, Clean, At
  <2>2. PICK i \in 1 .. Len(Order) : t = Order[i] BY OrderType DEF Built
  <2>3. DoneBefore = Len(Order) BY <2>1 DEF DoneInv, DoneBefore, At
  <2>4. Good(t) BY <2>1, <2>2, <2>3 DEF DoneInv
  <2> QED BY <2>4 DEF Good
<1> QED BY <1>1, GeneratedInductive, PTL
=============================================================================
