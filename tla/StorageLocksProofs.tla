------------------------- MODULE StorageLocksProofs -------------------------
(***************************************************************************)
(* Proofs about StorageLocks, for any processes, projects, packages,       *)
(* repositories, trees and caches.                                         *)
(*                                                                         *)
(* flock makes the holders of one lock compatible (Exclusion).  The rest   *)
(* of the invariant says, place by place, what a process holds there       *)
(* (PlaceInv).  No step of a process changes another one's part, so one    *)
(* lemma per action shows the part of the process that moves (Moves), and  *)
(* Combine puts the processes together.                                    *)
(*                                                                         *)
(* At the end, proofs about ProjectFiles: what the lock of a project is    *)
(* for, with any processes, names and packages.                            *)
(***************************************************************************)
EXTENDS StorageLocks, ProjectFiles, FiniteSetTheorems, WellFoundedInduction, TLAPS

Compatible(m1, m2) == m1 = "none" \/ m2 = "none" \/ (m1 = "shared" /\ m2 = "shared")

(* Two holders of one lock share it. *)
Exclusion ==
  \A p, q \in Procs : p # q => \A l \in Locks : Compatible(held[p][l], held[q][l])

Free(p, S) == \A l \in S : held[p][l] = "none"
AtMostOne(p, S) == \A l1, l2 \in S : held[p][l1] # "none" /\ held[p][l2] # "none" => l1 = l2

(* What the session of p rests on. *)
SessionInv(p) ==
  /\ pc[p] = "project" => project[p] \in Projects
  /\ pc[p] \in {"project", "lifecycle"} => owners[p] = {} /\ ~sealed[p]
  /\ InSession(p) \/ pc[p] = "lifecycle" =>
       project[p] = NoProject \/ held[p][project[p]] = "exclusive"
  /\ InSession(p) => held[p][Lifecycle] = LifecycleMode(p)
  /\ pc[p] \in {"owners", "undo"} => ~sealed[p]
  /\ InSession(p) /\ pc[p] # "undo" => \A o \in owners[p] : held[p][o] = "exclusive"
  /\ InSession(p) /\ pc[p] \notin {"owners", "undo"} /\ ~sealed[p] =>
       owners[p] = {} /\ Free(p, Owners)

(* What p waits for. *)
WantInv(p) ==
  /\ pc[p] \in {"repo", "update", "inUpdate"} => want[p] \in Repos
  /\ pc[p] = "tree" => want[p] \in Trees
  /\ pc[p] = "cache" => want[p] \in Caches

(* What p holds, place by place. *)
HeldInv(p) ==
  /\ pc[p] \in {"idle", "project", "update"} => Free(p, Locks)
  /\ pc[p] = "lifecycle" => Free(p, Locks \ Projects)
  /\ pc[p] \in {"open", "owners", "undo", "repo", "tree"} => Free(p, Trees \cup Caches)
  /\ pc[p] \in {"inTree", "cache", "inCache"} => AtMostOne(p, Trees)
  /\ pc[p] \in {"inTree", "cache"} => Free(p, Caches)
  /\ pc[p] = "inCache" => AtMostOne(p, Caches)
  /\ pc[p] = "inUpdate" => held[p][want[p]] = "exclusive" /\ Free(p, Locks \ {want[p]})

PlaceInv(p) == SessionInv(p) /\ WantInv(p) /\ HeldInv(p)

IInv == TypeOK /\ Exclusion /\ \A p \in Procs : PlaceInv(p)

-----------------------------------------------------------------------------
(* A step of p leaves the other processes alone, *)
Frame(p) ==
  \A q \in Procs \ {p} :
    /\ pc'[q] = pc[q] /\ held'[q] = held[q] /\ project'[q] = project[q]
    /\ exclusive'[q] = exclusive[q] /\ owners'[q] = owners[q]
    /\ sealed'[q] = sealed[q] /\ want'[q] = want[q]

(* and what p then holds is compatible with what they hold. *)
Fits(p) ==
  \A q \in Procs \ {p} : \A l \in Locks : Compatible(held'[p][l], held[q][l])

Moves(p) == TypeOK' /\ Frame(p) /\ Fits(p) /\ PlaceInv(p)'

(* The parts of all processes make up the invariant again. *)
LEMMA Combine ==
  ASSUME IInv, NEW p \in Procs, Moves(p)
  PROVE  IInv'
<1>1. TypeOK'
  BY DEF Moves
<1>2. \A q \in Procs \ {p} : PlaceInv(q)'
  BY DEF Moves, Frame, IInv, PlaceInv, SessionInv, WantInv, HeldInv, InSession, LifecycleMode,
         Free, AtMostOne
<1>3. \A q \in Procs : PlaceInv(q)'
  BY <1>2 DEF Moves
<1>4. ASSUME NEW q \in Procs, NEW r \in Procs, q # r, NEW l \in Locks
      PROVE  Compatible(held'[q][l], held'[r][l])
  <2>1. CASE q # p /\ r # p
    BY <1>4, <2>1 DEF Moves, Frame, IInv, Exclusion
  <2>2. CASE q = p
    <3>1. held'[r] = held[r]
      BY <1>4, <2>2 DEF Moves, Frame
    <3>2. Compatible(held'[p][l], held[r][l])
      BY <1>4, <2>2 DEF Moves, Fits
    <3>3. QED
      BY <2>2, <3>1, <3>2
  <2>3. CASE r = p
    <3>1. held'[q] = held[q]
      BY <1>4, <2>3 DEF Moves, Frame
    <3>2. Compatible(held'[p][l], held[q][l])
      BY <1>4, <2>3 DEF Moves, Fits
    <3>3. QED
      BY <2>3, <3>1, <3>2 DEF Compatible
  <2>4. QED
    BY <2>1, <2>2, <2>3
<1>5. QED
  BY <1>1, <1>3, <1>4 DEF IInv, Exclusion

(* What Grant and Drop do to the table of locks. *)
LEMMA GrantEffect ==
  ASSUME TypeOK, NEW p \in Procs, NEW l \in Locks, NEW m \in Modes, Grant(p, l, m)
  PROVE  /\ held' \in [Procs -> [Locks -> Modes]]
         /\ \A q \in Procs \ {p} : held'[q] = held[q]
         /\ \A k \in Locks : held'[p][k] = IF k = l THEN m ELSE held[p][k]
<1>1. held \in [Procs -> [Locks -> Modes]]
  BY DEF TypeOK
<1>2. held' = [held EXCEPT ![p] = [held[p] EXCEPT ![l] = m]]
  BY <1>1 DEF Grant
<1>3. [held[p] EXCEPT ![l] = m] \in [Locks -> Modes]
  BY <1>1
<1>4. QED
  BY <1>1, <1>2, <1>3

LEMMA DropEffect ==
  ASSUME TypeOK, NEW p \in Procs, NEW l \in Locks, Drop(p, l)
  PROVE  /\ held' \in [Procs -> [Locks -> Modes]]
         /\ \A q \in Procs \ {p} : held'[q] = held[q]
         /\ \A k \in Locks : held'[p][k] = IF k = l THEN "none" ELSE held[p][k]
<1>1. Grant(p, l, "none")
  BY DEF Drop, Grant
<1>2. QED
  BY <1>1, GrantEffect DEF Modes

(* A granted lock fits, a dropped one does, and so does no change. *)
LEMMA GrantFits ==
  ASSUME IInv, NEW p \in Procs, NEW l \in Locks, NEW m \in Modes, m # "none",
         Grantable(p, l, m), Grant(p, l, m)
  PROVE  Fits(p)
<1>1. \A k \in Locks : held'[p][k] = IF k = l THEN m ELSE held[p][k]
  BY GrantEffect DEF IInv
<1>2. ASSUME NEW q \in Procs \ {p}, NEW k \in Locks
      PROVE  Compatible(held'[p][k], held[q][k])
  <2>1. CASE k = l
    BY <1>1, <2>1 DEF Grantable, Compatible
  <2>2. CASE k # l
    BY <1>1, <2>2 DEF IInv, Exclusion
  <2>3. QED
    BY <2>1, <2>2
<1>3. QED
  BY <1>2 DEF Fits

LEMMA DropFits ==
  ASSUME IInv, NEW p \in Procs, NEW l \in Locks, Drop(p, l)
  PROVE  Fits(p)
<1>1. \A k \in Locks : held'[p][k] = IF k = l THEN "none" ELSE held[p][k]
  BY DropEffect DEF IInv
<1>2. QED
  BY <1>1 DEF IInv, Exclusion, Fits, Compatible

LEMMA SameFits ==
  ASSUME IInv, NEW p \in Procs, held' = held
  PROVE  Fits(p)
BY DEF IInv, Exclusion, Fits

-----------------------------------------------------------------------------
(* One lemma per action: it moves its process from one place of the        *)
(* invariant to another.                                                   *)

LEMMA OpenMoves ==
  ASSUME IInv, NEW p \in Procs, NEW proj \in Projects \cup {NoProject}, NEW excl \in BOOLEAN, Open(p, proj, excl)
  PROVE  Moves(p)
<1>1. TypeOK'
  BY LocksAssumption DEF Open, IInv, TypeOK, session, Step, Goto, Places
<1>2. Frame(p)
  BY DEF Open, IInv, TypeOK, Frame, session, Goto
<1>3. Fits(p)
  BY SameFits DEF Open
<1>4. SessionInv(p)'
  BY LocksAssumption DEF Open, IInv, TypeOK, PlaceInv, SessionInv, WantInv, HeldInv, InSession,
     LifecycleMode, Free, AtMostOne, session, Goto
<1>5. WantInv(p)' /\ HeldInv(p)'
  BY LocksAssumption DEF Open, IInv, TypeOK, PlaceInv, SessionInv, WantInv, HeldInv, InSession,
     LifecycleMode, Free, AtMostOne, session, Goto, Held
<1>6. QED
  BY <1>1, <1>2, <1>3, <1>4, <1>5 DEF Moves, PlaceInv

LEMMA LockProjectMoves ==
  ASSUME IInv, NEW p \in Procs, LockProject(p)
  PROVE  Moves(p)
<1>1. project[p] \in Projects /\ project[p] \in Locks
  BY DEF LockProject, IInv, TypeOK, PlaceInv, SessionInv, WantInv, Locks, NextRelease, Held
<1>2. Grantable(p, project[p], "exclusive") /\ Grant(p, project[p], "exclusive") /\ "exclusive" \in Modes \ {"none"}
  BY DEF LockProject, LifecycleMode, Modes
<1>3. /\ held' \in [Procs -> [Locks -> Modes]]
      /\ \A q \in Procs \ {p} : held'[q] = held[q]
      /\ \A k \in Locks : held'[p][k] = IF k = project[p] THEN "exclusive" ELSE held[p][k]
  BY <1>1, <1>2, GrantEffect DEF IInv
<1>4. TypeOK'
  BY <1>3, LocksAssumption DEF LockProject, IInv, TypeOK, session, Step, Goto, Places
<1>5. Frame(p)
  BY <1>3 DEF LockProject, IInv, TypeOK, Frame, session, Goto
<1>6. Fits(p)
  BY <1>1, <1>2, GrantFits
<1>7. pc[p] = "project" /\ pc'[p] = "lifecycle"
  BY DEF LockProject, IInv, TypeOK, Goto
<1>8. /\ project'[p] = project[p] /\ exclusive'[p] = exclusive[p]
      /\ sealed'[p] = sealed[p] /\ owners'[p] = owners[p]
      /\ project[p] \in Projects \cup {NoProject} /\ owners[p] \subseteq Owners
      /\ PlaceInv(p)
  BY DEF LockProject, IInv, TypeOK, session
<1>9. SessionInv(p)'
  BY <1>1, <1>3, <1>7, <1>8, LocksAssumption DEF PlaceInv, SessionInv, HeldInv, InSession,
     LifecycleMode, Free, Locks
<1>10. WantInv(p)'
  BY <1>7, <1>8 DEF PlaceInv, WantInv
<1>11. HeldInv(p)'
  BY <1>1, <1>3, <1>7, <1>8, LocksAssumption DEF PlaceInv, HeldInv, Free, AtMostOne, Locks
<1>12. QED
  BY <1>4, <1>5, <1>6, <1>9, <1>10, <1>11 DEF Moves, PlaceInv

LEMMA LockLifecycleMoves ==
  ASSUME IInv, NEW p \in Procs, LockLifecycle(p)
  PROVE  Moves(p)
<1>1. Lifecycle \in {Lifecycle} /\ Lifecycle \in Locks
  BY DEF LockLifecycle, IInv, TypeOK, PlaceInv, SessionInv, WantInv, Locks, NextRelease, Held
<1>2. Grantable(p, Lifecycle, LifecycleMode(p)) /\ Grant(p, Lifecycle, LifecycleMode(p)) /\ LifecycleMode(p) \in Modes \ {"none"}
  BY DEF LockLifecycle, LifecycleMode, Modes
<1>3. /\ held' \in [Procs -> [Locks -> Modes]]
      /\ \A q \in Procs \ {p} : held'[q] = held[q]
      /\ \A k \in Locks : held'[p][k] = IF k = Lifecycle THEN LifecycleMode(p) ELSE held[p][k]
  BY <1>1, <1>2, GrantEffect DEF IInv
<1>4. TypeOK'
  BY <1>3, LocksAssumption DEF LockLifecycle, IInv, TypeOK, session, Step, Goto, Places
<1>5. Frame(p)
  BY <1>3 DEF LockLifecycle, IInv, TypeOK, Frame, session, Goto
<1>6. Fits(p)
  BY <1>1, <1>2, GrantFits
<1>7. pc[p] = "lifecycle" /\ pc'[p] = "open"
  BY DEF LockLifecycle, IInv, TypeOK, Goto
<1>8. /\ project'[p] = project[p] /\ exclusive'[p] = exclusive[p]
      /\ sealed'[p] = sealed[p] /\ owners'[p] = owners[p]
      /\ project[p] \in Projects \cup {NoProject} /\ owners[p] \subseteq Owners
      /\ PlaceInv(p)
  BY DEF LockLifecycle, IInv, TypeOK, session
<1>9. SessionInv(p)'
  BY <1>1, <1>3, <1>7, <1>8, LocksAssumption DEF PlaceInv, SessionInv, HeldInv, InSession,
     LifecycleMode, Free, Locks
<1>10. WantInv(p)'
  BY <1>7, <1>8 DEF PlaceInv, WantInv
<1>11. HeldInv(p)'
  BY <1>1, <1>3, <1>7, <1>8, LocksAssumption DEF PlaceInv, HeldInv, Free, AtMostOne, Locks
<1>12. QED
  BY <1>4, <1>5, <1>6, <1>9, <1>10, <1>11 DEF Moves, PlaceInv

LEMMA AcquireFailsMoves ==
  ASSUME IInv, NEW p \in Procs, AcquireFails(p)
  PROVE  Moves(p)
<1>1. TypeOK'
  BY LocksAssumption DEF AcquireFails, IInv, TypeOK, session, Step, Goto, Places
<1>2. Frame(p)
  BY DEF AcquireFails, IInv, TypeOK, Frame, session, Goto
<1>3. Fits(p)
  BY SameFits DEF AcquireFails
<1>4. SessionInv(p)'
  BY LocksAssumption DEF AcquireFails, IInv, TypeOK, PlaceInv, SessionInv, WantInv, HeldInv,
     InSession, LifecycleMode, Free, AtMostOne, session, Goto
<1>5. WantInv(p)' /\ HeldInv(p)'
  BY LocksAssumption DEF AcquireFails, IInv, TypeOK, PlaceInv, SessionInv, WantInv, HeldInv,
     InSession, LifecycleMode, Free, AtMostOne, session, Goto, Held
<1>6. QED
  BY <1>1, <1>2, <1>3, <1>4, <1>5 DEF Moves, PlaceInv

LEMMA CallOwnersMoves ==
  ASSUME IInv, NEW p \in Procs, NEW names \in SUBSET Owners, CallOwners(p, names)
  PROVE  Moves(p)
<1>1. TypeOK'
  <2>1. pc' \in [Procs -> Places]
    BY DEF CallOwners, IInv, TypeOK, session, Step, Goto, Places
  <2>2. todo' \in [Procs -> SUBSET Owners] /\ steps' \in 0..MaxSteps
    BY LocksAssumption DEF CallOwners, IInv, TypeOK, session, Step, Goto, Places
  <2>3. QED
    BY <2>1, <2>2 DEF CallOwners, IInv, TypeOK, session, Step, Goto, Places
<1>2. Frame(p)
  BY DEF CallOwners, IInv, TypeOK, Frame, session, Goto
<1>3. Fits(p)
  BY SameFits DEF CallOwners
<1>4. SessionInv(p)'
  BY LocksAssumption DEF CallOwners, IInv, TypeOK, PlaceInv, SessionInv, WantInv, HeldInv,
     InSession, LifecycleMode, Free, AtMostOne, session, Goto
<1>5. WantInv(p)' /\ HeldInv(p)'
  BY LocksAssumption DEF CallOwners, IInv, TypeOK, PlaceInv, SessionInv, WantInv, HeldInv,
     InSession, LifecycleMode, Free, AtMostOne, session, Goto, Held
<1>6. QED
  BY <1>1, <1>2, <1>3, <1>4, <1>5 DEF Moves, PlaceInv

LEMMA LockOwnerMoves ==
  ASSUME IInv, NEW p \in Procs, NEW o \in Owners, LockOwner(p, o)
  PROVE  Moves(p)
<1>1. o \in Owners /\ o \in Locks
  BY DEF LockOwner, IInv, TypeOK, PlaceInv, SessionInv, WantInv, Locks, NextRelease, Held
<1>2. Grantable(p, o, "exclusive") /\ Grant(p, o, "exclusive") /\ "exclusive" \in Modes \ {"none"}
  BY DEF LockOwner, LifecycleMode, Modes
<1>3. /\ held' \in [Procs -> [Locks -> Modes]]
      /\ \A q \in Procs \ {p} : held'[q] = held[q]
      /\ \A k \in Locks : held'[p][k] = IF k = o THEN "exclusive" ELSE held[p][k]
  BY <1>1, <1>2, GrantEffect DEF IInv
<1>4. TypeOK'
  BY <1>3, LocksAssumption DEF LockOwner, IInv, TypeOK, session, Step, Goto, Places
<1>5. Frame(p)
  BY <1>3 DEF LockOwner, IInv, TypeOK, Frame, session, Goto
<1>6. Fits(p)
  BY <1>1, <1>2, GrantFits
<1>7. pc[p] = "owners" /\ pc'[p] = "owners"
  BY DEF LockOwner, IInv, TypeOK, Goto
<1>8. /\ project'[p] = project[p] /\ exclusive'[p] = exclusive[p]
      /\ sealed'[p] = sealed[p] /\ owners'[p] = owners[p] \cup {o}
      /\ project[p] \in Projects \cup {NoProject} /\ owners[p] \subseteq Owners
      /\ PlaceInv(p)
  BY DEF LockOwner, IInv, TypeOK, session
<1>9. SessionInv(p)'
  BY <1>1, <1>3, <1>7, <1>8, LocksAssumption DEF PlaceInv, SessionInv, HeldInv, InSession,
     LifecycleMode, Free, Locks
<1>10. WantInv(p)'
  BY <1>7, <1>8 DEF PlaceInv, WantInv
<1>11. HeldInv(p)'
  BY <1>1, <1>3, <1>7, <1>8, LocksAssumption DEF PlaceInv, HeldInv, Free, AtMostOne, Locks
<1>12. QED
  BY <1>4, <1>5, <1>6, <1>9, <1>10, <1>11 DEF Moves, PlaceInv

LEMMA SealOwnersMoves ==
  ASSUME IInv, NEW p \in Procs, SealOwners(p)
  PROVE  Moves(p)
<1>1. TypeOK'
  BY LocksAssumption DEF SealOwners, IInv, TypeOK, session, Step, Goto, Places
<1>2. Frame(p)
  BY DEF SealOwners, IInv, TypeOK, Frame, session, Goto
<1>3. Fits(p)
  BY SameFits DEF SealOwners
<1>4. SessionInv(p)'
  BY LocksAssumption DEF SealOwners, IInv, TypeOK, PlaceInv, SessionInv, WantInv, HeldInv,
     InSession, LifecycleMode, Free, AtMostOne, session, Goto
<1>5. WantInv(p)' /\ HeldInv(p)'
  BY LocksAssumption DEF SealOwners, IInv, TypeOK, PlaceInv, SessionInv, WantInv, HeldInv,
     InSession, LifecycleMode, Free, AtMostOne, session, Goto, Held
<1>6. QED
  BY <1>1, <1>2, <1>3, <1>4, <1>5 DEF Moves, PlaceInv

LEMMA OwnersFailMoves ==
  ASSUME IInv, NEW p \in Procs, OwnersFail(p)
  PROVE  Moves(p)
<1>1. TypeOK'
  BY LocksAssumption DEF OwnersFail, IInv, TypeOK, session, Step, Goto, Places
<1>2. Frame(p)
  BY DEF OwnersFail, IInv, TypeOK, Frame, session, Goto
<1>3. Fits(p)
  BY SameFits DEF OwnersFail
<1>4. SessionInv(p)'
  BY LocksAssumption DEF OwnersFail, IInv, TypeOK, PlaceInv, SessionInv, WantInv, HeldInv,
     InSession, LifecycleMode, Free, AtMostOne, session, Goto
<1>5. WantInv(p)' /\ HeldInv(p)'
  BY LocksAssumption DEF OwnersFail, IInv, TypeOK, PlaceInv, SessionInv, WantInv, HeldInv,
     InSession, LifecycleMode, Free, AtMostOne, session, Goto, Held
<1>6. QED
  BY <1>1, <1>2, <1>3, <1>4, <1>5 DEF Moves, PlaceInv

LEMMA UndoOwnerMoves ==
  ASSUME IInv, NEW p \in Procs, NEW o \in Owners, UndoOwner(p, o)
  PROVE  Moves(p)
<1>1. o \in Owners /\ o \in Locks
  BY DEF UndoOwner, IInv, TypeOK, PlaceInv, SessionInv, WantInv, Locks, NextRelease, Held
<1>2. Drop(p, o)
  BY DEF UndoOwner, LifecycleMode, Modes
<1>3. /\ held' \in [Procs -> [Locks -> Modes]]
      /\ \A q \in Procs \ {p} : held'[q] = held[q]
      /\ \A k \in Locks : held'[p][k] = IF k = o THEN "none" ELSE held[p][k]
  BY <1>1, <1>2, DropEffect DEF IInv
<1>4. TypeOK'
  BY <1>3, LocksAssumption DEF UndoOwner, IInv, TypeOK, session, Step, Goto, Places
<1>5. Frame(p)
  BY <1>3 DEF UndoOwner, IInv, TypeOK, Frame, session, Goto
<1>6. Fits(p)
  BY <1>1, <1>2, DropFits
<1>7. pc[p] = "undo" /\ pc'[p] = "undo"
  BY DEF UndoOwner, IInv, TypeOK, Goto
<1>8. /\ project'[p] = project[p] /\ exclusive'[p] = exclusive[p]
      /\ sealed'[p] = sealed[p] /\ owners'[p] = owners[p]
      /\ project[p] \in Projects \cup {NoProject} /\ owners[p] \subseteq Owners
      /\ PlaceInv(p)
  BY DEF UndoOwner, IInv, TypeOK, session
<1>9. SessionInv(p)'
  BY <1>1, <1>3, <1>7, <1>8, LocksAssumption DEF PlaceInv, SessionInv, HeldInv, InSession,
     LifecycleMode, Free, Locks
<1>10. WantInv(p)'
  BY <1>7, <1>8 DEF PlaceInv, WantInv
<1>11. HeldInv(p)'
  BY <1>1, <1>3, <1>7, <1>8, LocksAssumption DEF PlaceInv, HeldInv, Free, AtMostOne, Locks
<1>12. QED
  BY <1>4, <1>5, <1>6, <1>9, <1>10, <1>11 DEF Moves, PlaceInv

LEMMA UndoneMoves ==
  ASSUME IInv, NEW p \in Procs, Undone(p)
  PROVE  Moves(p)
<1>1. TypeOK'
  BY LocksAssumption DEF Undone, IInv, TypeOK, session, Step, Goto, Places
<1>2. Frame(p)
  BY DEF Undone, IInv, TypeOK, Frame, session, Goto
<1>3. Fits(p)
  BY SameFits DEF Undone
<1>4. SessionInv(p)'
  BY LocksAssumption DEF Undone, IInv, TypeOK, PlaceInv, SessionInv, WantInv, HeldInv,
     InSession, LifecycleMode, Free, AtMostOne, session, Goto, Held, Locks
<1>5. WantInv(p)' /\ HeldInv(p)'
  BY LocksAssumption DEF Undone, IInv, TypeOK, PlaceInv, SessionInv, WantInv, HeldInv,
     InSession, LifecycleMode, Free, AtMostOne, session, Goto, Held
<1>6. QED
  BY <1>1, <1>2, <1>3, <1>4, <1>5 DEF Moves, PlaceInv

LEMMA CallRepoMoves ==
  ASSUME IInv, NEW p \in Procs, NEW r \in Repos, CallRepo(p, r)
  PROVE  Moves(p)
<1>1. TypeOK'
  BY LocksAssumption DEF CallRepo, IInv, TypeOK, session, Step, Goto, Places
<1>2. Frame(p)
  BY DEF CallRepo, IInv, TypeOK, Frame, session, Goto
<1>3. Fits(p)
  BY SameFits DEF CallRepo
<1>4. SessionInv(p)'
  BY LocksAssumption DEF CallRepo, IInv, TypeOK, PlaceInv, SessionInv, WantInv, HeldInv,
     InSession, LifecycleMode, Free, AtMostOne, session, Goto
<1>5. WantInv(p)' /\ HeldInv(p)'
  BY LocksAssumption DEF CallRepo, IInv, TypeOK, PlaceInv, SessionInv, WantInv, HeldInv,
     InSession, LifecycleMode, Free, AtMostOne, session, Goto, Held
<1>6. QED
  BY <1>1, <1>2, <1>3, <1>4, <1>5 DEF Moves, PlaceInv

LEMMA LockRepoMoves ==
  ASSUME IInv, NEW p \in Procs, LockRepo(p)
  PROVE  Moves(p)
<1>1. want[p] \in Repos /\ want[p] \in Locks
  BY DEF LockRepo, IInv, TypeOK, PlaceInv, SessionInv, WantInv, Locks, NextRelease, Held
<1>2. Grantable(p, want[p], "shared") /\ Grant(p, want[p], "shared") /\ "shared" \in Modes \ {"none"}
  BY DEF LockRepo, LifecycleMode, Modes
<1>3. /\ held' \in [Procs -> [Locks -> Modes]]
      /\ \A q \in Procs \ {p} : held'[q] = held[q]
      /\ \A k \in Locks : held'[p][k] = IF k = want[p] THEN "shared" ELSE held[p][k]
  BY <1>1, <1>2, GrantEffect DEF IInv
<1>4. TypeOK'
  BY <1>3, LocksAssumption DEF LockRepo, IInv, TypeOK, session, Step, Goto, Places
<1>5. Frame(p)
  BY <1>3 DEF LockRepo, IInv, TypeOK, Frame, session, Goto
<1>6. Fits(p)
  BY <1>1, <1>2, GrantFits
<1>7. pc[p] = "repo" /\ pc'[p] = "open"
  BY DEF LockRepo, IInv, TypeOK, Goto
<1>8. /\ project'[p] = project[p] /\ exclusive'[p] = exclusive[p]
      /\ sealed'[p] = sealed[p] /\ owners'[p] = owners[p]
      /\ project[p] \in Projects \cup {NoProject} /\ owners[p] \subseteq Owners
      /\ PlaceInv(p)
  BY DEF LockRepo, IInv, TypeOK, session
<1>9. SessionInv(p)'
  BY <1>1, <1>3, <1>7, <1>8, LocksAssumption DEF PlaceInv, SessionInv, HeldInv, InSession,
     LifecycleMode, Free, Locks
<1>10. WantInv(p)'
  BY <1>7, <1>8 DEF PlaceInv, WantInv
<1>11. HeldInv(p)'
  BY <1>1, <1>3, <1>7, <1>8, LocksAssumption DEF PlaceInv, HeldInv, Free, AtMostOne, Locks
<1>12. QED
  BY <1>4, <1>5, <1>6, <1>9, <1>10, <1>11 DEF Moves, PlaceInv

LEMMA CallTreeMoves ==
  ASSUME IInv, NEW p \in Procs, NEW t \in Trees, CallTree(p, t)
  PROVE  Moves(p)
<1>1. TypeOK'
  BY LocksAssumption DEF CallTree, IInv, TypeOK, session, Step, Goto, Places
<1>2. Frame(p)
  BY DEF CallTree, IInv, TypeOK, Frame, session, Goto
<1>3. Fits(p)
  BY SameFits DEF CallTree
<1>4. SessionInv(p)'
  BY LocksAssumption DEF CallTree, IInv, TypeOK, PlaceInv, SessionInv, WantInv, HeldInv,
     InSession, LifecycleMode, Free, AtMostOne, session, Goto
<1>5. WantInv(p)' /\ HeldInv(p)'
  BY LocksAssumption DEF CallTree, IInv, TypeOK, PlaceInv, SessionInv, WantInv, HeldInv,
     InSession, LifecycleMode, Free, AtMostOne, session, Goto, Held
<1>6. QED
  BY <1>1, <1>2, <1>3, <1>4, <1>5 DEF Moves, PlaceInv

LEMMA LockTreeMoves ==
  ASSUME IInv, NEW p \in Procs, LockTree(p)
  PROVE  Moves(p)
<1>1. want[p] \in Trees /\ want[p] \in Locks
  BY DEF LockTree, IInv, TypeOK, PlaceInv, SessionInv, WantInv, Locks, NextRelease, Held
<1>2. Grantable(p, want[p], "exclusive") /\ Grant(p, want[p], "exclusive") /\ "exclusive" \in Modes \ {"none"}
  BY DEF LockTree, LifecycleMode, Modes
<1>3. /\ held' \in [Procs -> [Locks -> Modes]]
      /\ \A q \in Procs \ {p} : held'[q] = held[q]
      /\ \A k \in Locks : held'[p][k] = IF k = want[p] THEN "exclusive" ELSE held[p][k]
  BY <1>1, <1>2, GrantEffect DEF IInv
<1>4. TypeOK'
  BY <1>3, LocksAssumption DEF LockTree, IInv, TypeOK, session, Step, Goto, Places
<1>5. Frame(p)
  BY <1>3 DEF LockTree, IInv, TypeOK, Frame, session, Goto
<1>6. Fits(p)
  BY <1>1, <1>2, GrantFits
<1>7. pc[p] = "tree" /\ pc'[p] = "inTree"
  BY DEF LockTree, IInv, TypeOK, Goto
<1>8. /\ project'[p] = project[p] /\ exclusive'[p] = exclusive[p]
      /\ sealed'[p] = sealed[p] /\ owners'[p] = owners[p]
      /\ project[p] \in Projects \cup {NoProject} /\ owners[p] \subseteq Owners
      /\ PlaceInv(p)
  BY DEF LockTree, IInv, TypeOK, session
<1>9. SessionInv(p)'
  BY <1>1, <1>3, <1>7, <1>8, LocksAssumption DEF PlaceInv, SessionInv, HeldInv, InSession,
     LifecycleMode, Free, Locks
<1>10. WantInv(p)'
  BY <1>7, <1>8 DEF PlaceInv, WantInv
<1>11. HeldInv(p)'
  BY <1>1, <1>3, <1>7, <1>8, LocksAssumption DEF PlaceInv, HeldInv, Free, AtMostOne, Locks
<1>12. QED
  BY <1>4, <1>5, <1>6, <1>9, <1>10, <1>11 DEF Moves, PlaceInv

LEMMA CallCacheMoves ==
  ASSUME IInv, NEW p \in Procs, NEW c \in Caches, CallCache(p, c)
  PROVE  Moves(p)
<1>1. TypeOK'
  BY LocksAssumption DEF CallCache, IInv, TypeOK, session, Step, Goto, Places
<1>2. Frame(p)
  BY DEF CallCache, IInv, TypeOK, Frame, session, Goto
<1>3. Fits(p)
  BY SameFits DEF CallCache
<1>4. SessionInv(p)'
  BY LocksAssumption DEF CallCache, IInv, TypeOK, PlaceInv, SessionInv, WantInv, HeldInv,
     InSession, LifecycleMode, Free, AtMostOne, session, Goto
<1>5. WantInv(p)' /\ HeldInv(p)'
  BY LocksAssumption DEF CallCache, IInv, TypeOK, PlaceInv, SessionInv, WantInv, HeldInv,
     InSession, LifecycleMode, Free, AtMostOne, session, Goto, Held
<1>6. QED
  BY <1>1, <1>2, <1>3, <1>4, <1>5 DEF Moves, PlaceInv

LEMMA LockCacheMoves ==
  ASSUME IInv, NEW p \in Procs, LockCache(p)
  PROVE  Moves(p)
<1>1. want[p] \in Caches /\ want[p] \in Locks
  BY DEF LockCache, IInv, TypeOK, PlaceInv, SessionInv, WantInv, Locks, NextRelease, Held
<1>2. Grantable(p, want[p], "exclusive") /\ Grant(p, want[p], "exclusive") /\ "exclusive" \in Modes \ {"none"}
  BY DEF LockCache, LifecycleMode, Modes
<1>3. /\ held' \in [Procs -> [Locks -> Modes]]
      /\ \A q \in Procs \ {p} : held'[q] = held[q]
      /\ \A k \in Locks : held'[p][k] = IF k = want[p] THEN "exclusive" ELSE held[p][k]
  BY <1>1, <1>2, GrantEffect DEF IInv
<1>4. TypeOK'
  BY <1>3, LocksAssumption DEF LockCache, IInv, TypeOK, session, Step, Goto, Places
<1>5. Frame(p)
  BY <1>3 DEF LockCache, IInv, TypeOK, Frame, session, Goto
<1>6. Fits(p)
  BY <1>1, <1>2, GrantFits
<1>7. pc[p] = "cache" /\ pc'[p] = "inCache"
  BY DEF LockCache, IInv, TypeOK, Goto
<1>8. /\ project'[p] = project[p] /\ exclusive'[p] = exclusive[p]
      /\ sealed'[p] = sealed[p] /\ owners'[p] = owners[p]
      /\ project[p] \in Projects \cup {NoProject} /\ owners[p] \subseteq Owners
      /\ PlaceInv(p)
  BY DEF LockCache, IInv, TypeOK, session
<1>9. SessionInv(p)'
  BY <1>1, <1>3, <1>7, <1>8, LocksAssumption DEF PlaceInv, SessionInv, HeldInv, InSession,
     LifecycleMode, Free, Locks
<1>10. WantInv(p)'
  BY <1>7, <1>8 DEF PlaceInv, WantInv
<1>11. HeldInv(p)'
  BY <1>1, <1>3, <1>7, <1>8, LocksAssumption DEF PlaceInv, HeldInv, Free, AtMostOne, Locks
<1>12. QED
  BY <1>4, <1>5, <1>6, <1>9, <1>10, <1>11 DEF Moves, PlaceInv

LEMMA LeaveCacheMoves ==
  ASSUME IInv, NEW p \in Procs, NEW c \in Caches, LeaveCache(p, c)
  PROVE  Moves(p)
<1>1. c \in Caches /\ c \in Locks
  BY DEF LeaveCache, IInv, TypeOK, PlaceInv, SessionInv, WantInv, Locks, NextRelease, Held
<1>2. Drop(p, c)
  BY DEF LeaveCache, LifecycleMode, Modes
<1>3. /\ held' \in [Procs -> [Locks -> Modes]]
      /\ \A q \in Procs \ {p} : held'[q] = held[q]
      /\ \A k \in Locks : held'[p][k] = IF k = c THEN "none" ELSE held[p][k]
  BY <1>1, <1>2, DropEffect DEF IInv
<1>4. TypeOK'
  BY <1>3, LocksAssumption DEF LeaveCache, IInv, TypeOK, session, Step, Goto, Places
<1>5. Frame(p)
  BY <1>3 DEF LeaveCache, IInv, TypeOK, Frame, session, Goto
<1>6. Fits(p)
  BY <1>1, <1>2, DropFits
<1>7. held[p][c] # "none" /\ pc[p] = "inCache" /\ pc'[p] = IF Held(p) \cap Trees # {} THEN "inTree" ELSE "open"
  BY DEF LeaveCache, IInv, TypeOK, Goto, Held
<1>8. /\ project'[p] = project[p] /\ exclusive'[p] = exclusive[p]
      /\ sealed'[p] = sealed[p] /\ owners'[p] = owners[p]
      /\ project[p] \in Projects \cup {NoProject} /\ owners[p] \subseteq Owners
      /\ PlaceInv(p)
  BY DEF LeaveCache, IInv, TypeOK, session
<1>9. SessionInv(p)'
  BY <1>1, <1>3, <1>7, <1>8, LocksAssumption DEF PlaceInv, SessionInv, HeldInv, InSession,
     LifecycleMode, Free, Locks, Held
<1>10. WantInv(p)'
  BY <1>7, <1>8 DEF PlaceInv, WantInv
<1>11. HeldInv(p)'
  BY <1>1, <1>3, <1>7, <1>8, LocksAssumption DEF PlaceInv, HeldInv, Free, AtMostOne, Locks, Held
<1>12. QED
  BY <1>4, <1>5, <1>6, <1>9, <1>10, <1>11 DEF Moves, PlaceInv

LEMMA LeaveTreeMoves ==
  ASSUME IInv, NEW p \in Procs, NEW t \in Trees, LeaveTree(p, t)
  PROVE  Moves(p)
<1>1. t \in Trees /\ t \in Locks
  BY DEF LeaveTree, IInv, TypeOK, PlaceInv, SessionInv, WantInv, Locks, NextRelease, Held
<1>2. Drop(p, t)
  BY DEF LeaveTree, LifecycleMode, Modes
<1>3. /\ held' \in [Procs -> [Locks -> Modes]]
      /\ \A q \in Procs \ {p} : held'[q] = held[q]
      /\ \A k \in Locks : held'[p][k] = IF k = t THEN "none" ELSE held[p][k]
  BY <1>1, <1>2, DropEffect DEF IInv
<1>4. TypeOK'
  BY <1>3, LocksAssumption DEF LeaveTree, IInv, TypeOK, session, Step, Goto, Places
<1>5. Frame(p)
  BY <1>3 DEF LeaveTree, IInv, TypeOK, Frame, session, Goto
<1>6. Fits(p)
  BY <1>1, <1>2, DropFits
<1>7. held[p][t] # "none" /\ pc[p] = "inTree" /\ pc'[p] = "open"
  BY DEF LeaveTree, IInv, TypeOK, Goto, Held
<1>8. /\ project'[p] = project[p] /\ exclusive'[p] = exclusive[p]
      /\ sealed'[p] = sealed[p] /\ owners'[p] = owners[p]
      /\ project[p] \in Projects \cup {NoProject} /\ owners[p] \subseteq Owners
      /\ PlaceInv(p)
  BY DEF LeaveTree, IInv, TypeOK, session
<1>9. SessionInv(p)'
  BY <1>1, <1>3, <1>7, <1>8, LocksAssumption DEF PlaceInv, SessionInv, HeldInv, InSession,
     LifecycleMode, Free, Locks
<1>10. WantInv(p)'
  BY <1>7, <1>8 DEF PlaceInv, WantInv
<1>11. HeldInv(p)'
  BY <1>1, <1>3, <1>7, <1>8, LocksAssumption DEF PlaceInv, HeldInv, Free, AtMostOne, Locks
<1>12. QED
  BY <1>4, <1>5, <1>6, <1>9, <1>10, <1>11 DEF Moves, PlaceInv

LEMMA CloseMoves ==
  ASSUME IInv, NEW p \in Procs, Close(p)
  PROVE  Moves(p)
<1>1. TypeOK'
  BY LocksAssumption DEF Close, IInv, TypeOK, session, Step, Goto, Places
<1>2. Frame(p)
  BY DEF Close, IInv, TypeOK, Frame, session, Goto
<1>3. Fits(p)
  BY SameFits DEF Close
<1>4. SessionInv(p)'
  BY LocksAssumption DEF Close, IInv, TypeOK, PlaceInv, SessionInv, WantInv, HeldInv,
     InSession, LifecycleMode, Free, AtMostOne, session, Goto
<1>5. WantInv(p)' /\ HeldInv(p)'
  BY LocksAssumption DEF Close, IInv, TypeOK, PlaceInv, SessionInv, WantInv, HeldInv,
     InSession, LifecycleMode, Free, AtMostOne, session, Goto, Held
<1>6. QED
  BY <1>1, <1>2, <1>3, <1>4, <1>5 DEF Moves, PlaceInv

LEMMA ReleaseMoves ==
  ASSUME IInv, NEW p \in Procs, NEW l \in Locks, Release(p, l)
  PROVE  Moves(p)
<1>1. l \in Locks /\ l \in Locks
  BY DEF Release, IInv, TypeOK, PlaceInv, SessionInv, WantInv, Locks, NextRelease, Held
<1>2. Drop(p, l)
  BY DEF Release, LifecycleMode, Modes
<1>3. /\ held' \in [Procs -> [Locks -> Modes]]
      /\ \A q \in Procs \ {p} : held'[q] = held[q]
      /\ \A k \in Locks : held'[p][k] = IF k = l THEN "none" ELSE held[p][k]
  BY <1>1, <1>2, DropEffect DEF IInv
<1>4. TypeOK'
  BY <1>3, LocksAssumption DEF Release, IInv, TypeOK, session, Step, Goto, Places
<1>5. Frame(p)
  BY <1>3 DEF Release, IInv, TypeOK, Frame, session, Goto
<1>6. Fits(p)
  BY <1>1, <1>2, DropFits
<1>7. pc[p] = "closing" /\ pc'[p] = "closing"
  BY DEF Release, IInv, TypeOK, Goto
<1>8. /\ project'[p] = project[p] /\ exclusive'[p] = exclusive[p]
      /\ sealed'[p] = sealed[p] /\ owners'[p] = owners[p]
      /\ project[p] \in Projects \cup {NoProject} /\ owners[p] \subseteq Owners
      /\ PlaceInv(p)
  BY DEF Release, IInv, TypeOK, session
<1>9. SessionInv(p)'
  BY <1>1, <1>3, <1>7, <1>8, LocksAssumption DEF PlaceInv, SessionInv, HeldInv, InSession,
     LifecycleMode, Free, Locks
<1>10. WantInv(p)'
  BY <1>7, <1>8 DEF PlaceInv, WantInv
<1>11. HeldInv(p)'
  BY <1>1, <1>3, <1>7, <1>8, LocksAssumption DEF PlaceInv, HeldInv, Free, AtMostOne, Locks
<1>12. QED
  BY <1>4, <1>5, <1>6, <1>9, <1>10, <1>11 DEF Moves, PlaceInv

LEMMA ClosedMoves ==
  ASSUME IInv, NEW p \in Procs, Closed(p)
  PROVE  Moves(p)
<1>1. TypeOK'
  BY LocksAssumption DEF Closed, IInv, TypeOK, session, Step, Goto, Places
<1>2. Frame(p)
  BY DEF Closed, IInv, TypeOK, Frame, session, Goto
<1>3. Fits(p)
  BY SameFits DEF Closed
<1>4. SessionInv(p)'
  BY LocksAssumption DEF Closed, IInv, TypeOK, PlaceInv, SessionInv, WantInv, HeldInv,
     InSession, LifecycleMode, Free, AtMostOne, session, Goto
<1>5. WantInv(p)' /\ HeldInv(p)'
  BY LocksAssumption DEF Closed, IInv, TypeOK, PlaceInv, SessionInv, WantInv, HeldInv,
     InSession, LifecycleMode, Free, AtMostOne, session, Goto, Held
<1>6. QED
  BY <1>1, <1>2, <1>3, <1>4, <1>5 DEF Moves, PlaceInv

LEMMA CallUpdateMoves ==
  ASSUME IInv, NEW p \in Procs, NEW r \in Repos, CallUpdate(p, r)
  PROVE  Moves(p)
<1>1. TypeOK'
  BY LocksAssumption DEF CallUpdate, IInv, TypeOK, session, Step, Goto, Places
<1>2. Frame(p)
  BY DEF CallUpdate, IInv, TypeOK, Frame, session, Goto
<1>3. Fits(p)
  BY SameFits DEF CallUpdate
<1>4. SessionInv(p)'
  BY LocksAssumption DEF CallUpdate, IInv, TypeOK, PlaceInv, SessionInv, WantInv, HeldInv,
     InSession, LifecycleMode, Free, AtMostOne, session, Goto
<1>5. WantInv(p)' /\ HeldInv(p)'
  BY LocksAssumption DEF CallUpdate, IInv, TypeOK, PlaceInv, SessionInv, WantInv, HeldInv,
     InSession, LifecycleMode, Free, AtMostOne, session, Goto, Held
<1>6. QED
  BY <1>1, <1>2, <1>3, <1>4, <1>5 DEF Moves, PlaceInv

LEMMA LockUpdateMoves ==
  ASSUME IInv, NEW p \in Procs, LockUpdate(p)
  PROVE  Moves(p)
<1>1. want[p] \in Repos /\ want[p] \in Locks
  BY DEF LockUpdate, IInv, TypeOK, PlaceInv, SessionInv, WantInv, Locks, NextRelease, Held
<1>2. Grantable(p, want[p], "exclusive") /\ Grant(p, want[p], "exclusive") /\ "exclusive" \in Modes \ {"none"}
  BY DEF LockUpdate, LifecycleMode, Modes
<1>3. /\ held' \in [Procs -> [Locks -> Modes]]
      /\ \A q \in Procs \ {p} : held'[q] = held[q]
      /\ \A k \in Locks : held'[p][k] = IF k = want[p] THEN "exclusive" ELSE held[p][k]
  BY <1>1, <1>2, GrantEffect DEF IInv
<1>4. TypeOK'
  BY <1>3, LocksAssumption DEF LockUpdate, IInv, TypeOK, session, Step, Goto, Places
<1>5. Frame(p)
  BY <1>3 DEF LockUpdate, IInv, TypeOK, Frame, session, Goto
<1>6. Fits(p)
  BY <1>1, <1>2, GrantFits
<1>7. pc[p] = "update" /\ pc'[p] = "inUpdate" /\ want'[p] = want[p]
  BY DEF LockUpdate, IInv, TypeOK, Goto
<1>8. /\ project'[p] = project[p] /\ exclusive'[p] = exclusive[p]
      /\ sealed'[p] = sealed[p] /\ owners'[p] = owners[p]
      /\ project[p] \in Projects \cup {NoProject} /\ owners[p] \subseteq Owners
      /\ PlaceInv(p)
  BY DEF LockUpdate, IInv, TypeOK, session
<1>9. SessionInv(p)'
  BY <1>1, <1>3, <1>7, <1>8, LocksAssumption DEF PlaceInv, SessionInv, HeldInv, InSession,
     LifecycleMode, Free, Locks
<1>10. WantInv(p)'
  BY <1>7, <1>8 DEF PlaceInv, WantInv
<1>11. HeldInv(p)'
  BY <1>1, <1>3, <1>7, <1>8, LocksAssumption DEF PlaceInv, HeldInv, Free, AtMostOne, Locks
<1>12. QED
  BY <1>4, <1>5, <1>6, <1>9, <1>10, <1>11 DEF Moves, PlaceInv

LEMMA LeaveUpdateMoves ==
  ASSUME IInv, NEW p \in Procs, LeaveUpdate(p)
  PROVE  Moves(p)
<1>1. want[p] \in Repos /\ want[p] \in Locks
  BY DEF LeaveUpdate, IInv, TypeOK, PlaceInv, SessionInv, WantInv, Locks, NextRelease, Held
<1>2. Drop(p, want[p])
  BY DEF LeaveUpdate, LifecycleMode, Modes
<1>3. /\ held' \in [Procs -> [Locks -> Modes]]
      /\ \A q \in Procs \ {p} : held'[q] = held[q]
      /\ \A k \in Locks : held'[p][k] = IF k = want[p] THEN "none" ELSE held[p][k]
  BY <1>1, <1>2, DropEffect DEF IInv
<1>4. TypeOK'
  BY <1>3, LocksAssumption DEF LeaveUpdate, IInv, TypeOK, session, Step, Goto, Places
<1>5. Frame(p)
  BY <1>3 DEF LeaveUpdate, IInv, TypeOK, Frame, session, Goto
<1>6. Fits(p)
  BY <1>1, <1>2, DropFits
<1>7. pc[p] = "inUpdate" /\ pc'[p] = "idle"
  BY DEF LeaveUpdate, IInv, TypeOK, Goto
<1>8. /\ project'[p] = project[p] /\ exclusive'[p] = exclusive[p]
      /\ sealed'[p] = sealed[p] /\ owners'[p] = owners[p]
      /\ project[p] \in Projects \cup {NoProject} /\ owners[p] \subseteq Owners
      /\ PlaceInv(p)
  BY DEF LeaveUpdate, IInv, TypeOK, session
<1>9. SessionInv(p)'
  BY <1>1, <1>3, <1>7, <1>8, LocksAssumption DEF PlaceInv, SessionInv, HeldInv, InSession,
     LifecycleMode, Free, Locks
<1>10. WantInv(p)'
  BY <1>7, <1>8 DEF PlaceInv, WantInv
<1>11. HeldInv(p)'
  BY <1>1, <1>3, <1>7, <1>8, LocksAssumption DEF PlaceInv, HeldInv, Free, AtMostOne, Locks
<1>12. QED
  BY <1>4, <1>5, <1>6, <1>9, <1>10, <1>11 DEF Moves, PlaceInv

LEMMA KillMoves ==
  ASSUME IInv, NEW p \in Procs, Kill(p)
  PROVE  Moves(p)
<1>1. /\ held' \in [Procs -> [Locks -> Modes]]
      /\ \A q \in Procs \ {p} : held'[q] = held[q]
      /\ \A k \in Locks : held'[p][k] = "none"
  <2>1. [l \in Locks |-> "none"] \in [Locks -> Modes]
    BY DEF Modes
  <2>2. QED
    BY <2>1 DEF Kill, IInv, TypeOK
<1>2. TypeOK'
  BY <1>1 DEF Kill, IInv, TypeOK, Goto, Places
<1>3. Frame(p)
  BY <1>1 DEF Kill, IInv, TypeOK, Frame, Goto
<1>4. Fits(p)
  BY <1>1 DEF Fits, Compatible
<1>5. pc'[p] = "idle"
  BY DEF Kill, IInv, TypeOK, Goto
<1>6. PlaceInv(p)'
  BY <1>1, <1>5 DEF PlaceInv, SessionInv, WantInv, HeldInv, InSession, Free
<1>7. QED
  BY <1>2, <1>3, <1>4, <1>6 DEF Moves

-----------------------------------------------------------------------------
(* The invariant *)

(* No process has begun: nothing is locked. *)
LEMMA Initially == Init => IInv
<1> SUFFICES ASSUME Init PROVE IInv
  OBVIOUS
<1>1. held \in [Procs -> [Locks -> Modes]]
  <2>1. [l \in Locks |-> "none"] \in [Locks -> Modes]
    BY DEF Modes
  <2>2. QED
    BY <2>1 DEF Init
<1>2. TypeOK
  BY <1>1, LocksAssumption DEF Init, TypeOK, Places
<1>3. \A p \in Procs : \A l \in Locks : held[p][l] = "none"
  BY DEF Init
<1>4. Exclusion
  BY <1>3 DEF Exclusion, Compatible
<1>5. \A p \in Procs : PlaceInv(p)
  BY <1>3 DEF Init, PlaceInv, SessionInv, WantInv, HeldInv, InSession, Free
<1>6. QED
  BY <1>2, <1>4, <1>5 DEF IInv

(* The steps of one process, by the kinds of Next. *)
LEMMA CallMoves ==
  ASSUME IInv, NEW p \in Procs, CallStep(p)
  PROVE  Moves(p)
BY OpenMoves, CallOwnersMoves, CallRepoMoves, CallUpdateMoves, CallTreeMoves, CallCacheMoves
   DEF CallStep

LEMMA LockMoves ==
  ASSUME IInv, NEW p \in Procs, LockStep(p)
  PROVE  Moves(p)
BY LockProjectMoves, LockLifecycleMoves, LockOwnerMoves, SealOwnersMoves, LockRepoMoves,
   LockTreeMoves, LockCacheMoves, LockUpdateMoves
   DEF LockStep

LEMMA ReturnMoves ==
  ASSUME IInv, NEW p \in Procs, ReturnStep(p)
  PROVE  Moves(p)
BY UndoOwnerMoves, UndoneMoves, LeaveCacheMoves, LeaveTreeMoves, LeaveUpdateMoves, CloseMoves,
   ReleaseMoves, ClosedMoves
   DEF ReturnStep

LEMMA FailMoves ==
  ASSUME IInv, NEW p \in Procs, FailStep(p)
  PROVE  Moves(p)
BY AcquireFailsMoves, OwnersFailMoves, KillMoves DEF FailStep

(* Every step preserves the invariant. *)
LEMMA Inductive == IInv /\ [Next]_vars => IInv'
<1> SUFFICES ASSUME IInv, [Next]_vars PROVE IInv'
  OBVIOUS
<1>1. ASSUME NEW p \in Procs, ProcStep(p) PROVE IInv'
  <2>1. Moves(p)
    BY <1>1, CallMoves, LockMoves, ReturnMoves, FailMoves DEF ProcStep
  <2>2. QED
    BY <2>1, Combine
<1>2. CASE UNCHANGED vars
  <2>1. UNCHANGED <<pc, held, project, exclusive, owners, sealed, todo, want, steps>>
    BY <1>2 DEF vars, session
  <2>2. TypeOK'
    BY <2>1 DEF IInv, TypeOK
  <2>3. Exclusion'
    BY <2>1 DEF IInv, Exclusion
  <2>4. \A p \in Procs : PlaceInv(p)'
    BY <2>1 DEF IInv, PlaceInv, SessionInv, WantInv, HeldInv, InSession, LifecycleMode, Free,
                AtMostOne
  <2>5. QED
    BY <2>2, <2>3, <2>4 DEF IInv
<1>3. QED
  BY <1>1, <1>2 DEF Next, Rest

(* In every reachable state the holders of a lock are compatible, and each *)
(* process holds what its place in the code says.                          *)
THEOREM Invariant == Spec => []IInv
BY Initially, Inductive, PTL DEF Spec

-----------------------------------------------------------------------------
(* What follows from it *)

(* Every variable keeps a value of its kind. *)
THEOREM TypeInvariant == Spec => []TypeOK
<1>1. IInv => TypeOK
  BY DEF IInv
<1>2. QED
  BY <1>1, Invariant, PTL

(* One command per project; an exclusive command is alone in the user      *)
(* directory (storage.AcquireContext).                                     *)
LEMMA ExclusiveCommands == IInv => CommandsExclude
<1>1. ASSUME IInv, NEW p \in Procs, NEW q \in Procs, p # q, InSession(p), InSession(q)
      PROVE  /\ project[p] = project[q] => project[p] = NoProject
             /\ ~exclusive[p] /\ ~exclusive[q]
  <2>1. /\ project[p] = NoProject \/ held[p][project[p]] = "exclusive"
        /\ project[q] = NoProject \/ held[q][project[q]] = "exclusive"
        /\ held[p][Lifecycle] = LifecycleMode(p)
        /\ held[q][Lifecycle] = LifecycleMode(q)
    BY <1>1 DEF IInv, PlaceInv, SessionInv
  <2>2. Lifecycle \in Locks /\ (project[p] # NoProject => project[p] \in Locks)
    BY <1>1 DEF IInv, TypeOK, Locks
  <2>3. \A l \in Locks : Compatible(held[p][l], held[q][l])
    BY <1>1 DEF IInv, Exclusion
  <2>4. QED
    BY <2>1, <2>2, <2>3 DEF Compatible, LifecycleMode
<1>2. QED
  BY <1>1 DEF CommandsExclude

(* A sealed session really has the owners it believes it has, alone        *)
(* (Session.AcquireOwnersContext).                                         *)
LEMMA OwnersOfSealedSessions == IInv => OwnersAreHeld
<1>1. ASSUME IInv, NEW p \in Procs, InSession(p), sealed[p]
      PROVE  \A o \in owners[p] : held[p][o] = "exclusive" /\ o \in Locks
  <2>1. pc[p] # "undo" /\ owners[p] \subseteq Owners
    BY <1>1 DEF IInv, TypeOK, PlaceInv, SessionInv
  <2>2. QED
    BY <1>1, <2>1 DEF IInv, PlaceInv, SessionInv, Locks
<1>2. ASSUME IInv, NEW p \in Procs, NEW q \in Procs, p # q,
             InSession(p), InSession(q), sealed[p], sealed[q]
      PROVE  owners[p] \cap owners[q] = {}
  <2>1. \A l \in Locks : Compatible(held[p][l], held[q][l])
    BY <1>2 DEF IInv, Exclusion
  <2>2. QED
    BY <1>1, <1>2, <2>1 DEF Compatible
<1>3. QED
  BY <1>1, <1>2 DEF OwnersAreHeld

(* Both of every session, for any number of processes and projects.        *)
THEOREM ExclusiveSessions == Spec => []SessionsExclude
<1>1. IInv => SessionsExclude
  BY ExclusiveCommands, OwnersOfSealedSessions DEF SessionsExclude
<1>2. QED
  BY <1>1, Invariant, PTL

(* No repository changes under a resolution that has read it               *)
(* (RepoManager.Lock).                                                     *)
THEOREM ExclusiveUpdates == Spec => []UpdatesExclude
<1>1. ASSUME IInv, NEW p \in Procs, NEW q \in Procs, p # q, pc[p] = "inUpdate"
      PROVE  /\ held[q][want[p]] = "none"
             /\ pc[q] = "inUpdate" => want[q] # want[p]
  <2>1. want[p] \in Locks /\ held[p][want[p]] = "exclusive"
    BY <1>1 DEF IInv, PlaceInv, WantInv, HeldInv, Locks
  <2>2. Compatible(held[p][want[p]], held[q][want[p]])
    BY <1>1, <2>1 DEF IInv, Exclusion
  <2>3. held[q][want[p]] = "none"
    BY <2>1, <2>2 DEF Compatible
  <2>4. pc[q] = "inUpdate" => held[q][want[q]] = "exclusive"
    BY <1>1 DEF IInv, PlaceInv, HeldInv
  <2>5. QED
    BY <2>3, <2>4
<1>2. IInv => UpdatesExclude
  BY <1>1 DEF UpdatesExclude
<1>3. QED
  BY <1>2, Invariant, PTL

(* Nothing stays locked behind a command, whatever failed in it            *)
(* (Session.Close, flock.acquire).                                         *)
THEOREM NoLockLeaks == Spec => []NothingLeaks
<1>1. ASSUME IInv, NEW p \in Procs
      PROVE  /\ pc[p] \in {"idle", "project", "update"} => Held(p) = {}
             /\ pc[p] = "lifecycle" => Held(p) \subseteq Projects
             /\ pc[p] \in {"open", "repo", "tree"} /\ ~sealed[p] => Held(p) \cap Owners = {}
             /\ pc[p] \in {"open", "owners", "undo", "repo"} => Held(p) \cap (Trees \cup Caches) = {}
             /\ pc[p] \in {"inTree", "cache"} => Held(p) \cap Caches = {}
  BY <1>1 DEF IInv, PlaceInv, SessionInv, HeldInv, InSession, Free, Held
<1>2. IInv => NothingLeaks
  BY <1>1 DEF NothingLeaks
<1>3. QED
  BY <1>2, Invariant, PTL

-----------------------------------------------------------------------------
(* The order of the locks.  Repositories are read before the session is    *)
(* sealed, owners are locked by their rank, and only an update has a       *)
(* repository to itself.                                                   *)
Ordered(p) ==
  /\ pc[p] = "repo" => ~sealed[p]
  /\ pc[p] = "owners" => \A o \in Owners, r \in todo[p] : held[p][o] # "none" => Rank[o] < Rank[r]
  /\ \A r \in Repos : held[p][r] = "exclusive" => pc[p] = "inUpdate"

Orderly == \A p \in Procs : Ordered(p)

LEMMA InitOrderly == Init => Orderly
BY DEF Init, Orderly, Ordered, Locks

(* A step that grants nothing.                                             *)
LEMMA OrderedWithout ==
  ASSUME IInv, NEW p \in Procs, Ordered(p), pc[p] # "inUpdate",
         \A k \in Locks : held'[p][k] \in {held[p][k], "none"},
         pc'[p] = "repo" => ~sealed'[p],
         pc'[p] = "owners" => \A o \in Owners : held'[p][o] = "none"
  PROVE  Ordered(p)'
<1>1. \A r \in Repos : held'[p][r] # "exclusive"
  BY DEF Ordered, Locks
<1>2. QED
  BY <1>1 DEF Ordered

LEMMA CallOrdered ==
  ASSUME IInv, NEW p \in Procs, Ordered(p), CallStep(p)
  PROVE  Ordered(p)'
<1>1. held' = held /\ pc[p] # "inUpdate"
  BY DEF CallStep, Open, CallOwners, CallRepo, CallUpdate, CallTree, CallCache
<1>2. pc'[p] = "repo" => ~sealed'[p]
  BY DEF CallStep, Open, CallOwners, CallRepo, CallUpdate, CallTree, CallCache, Goto, session, IInv,
         TypeOK
<1>3. pc'[p] = "owners" => pc[p] = "open" /\ ~sealed[p]
  BY DEF CallStep, Open, CallOwners, CallRepo, CallUpdate, CallTree, CallCache, Goto, IInv, TypeOK
<1>4. pc'[p] = "owners" => \A o \in Owners : held'[p][o] = "none"
  BY <1>1, <1>3 DEF IInv, PlaceInv, SessionInv, InSession, Free
<1>5. QED
  BY <1>1, <1>2, <1>4, OrderedWithout

LEMMA FailOrdered ==
  ASSUME IInv, NEW p \in Procs, Ordered(p), FailStep(p)
  PROVE  Ordered(p)'
<1>1. \A k \in Locks : held'[p][k] \in {held[p][k], "none"}
  BY DEF FailStep, AcquireFails, OwnersFail, Kill, IInv, TypeOK
<1>2. pc'[p] \in {"closing", "undo", "idle"}
  BY DEF FailStep, AcquireFails, OwnersFail, Kill, Goto, IInv, TypeOK
<1>3. CASE Kill(p)
  <2>1. \A k \in Locks : held'[p][k] = "none"
    BY <1>3 DEF Kill, IInv, TypeOK
  <2>2. QED
    BY <1>2, <2>1 DEF Ordered, Locks
<1>4. CASE ~Kill(p)
  <2>1. pc[p] # "inUpdate"
    BY <1>4 DEF FailStep, AcquireFails, OwnersFail
  <2>2. QED
    BY <1>1, <1>2, <2>1, OrderedWithout
<1>5. QED
  BY <1>3, <1>4

LEMMA ReturnOrdered ==
  ASSUME IInv, NEW p \in Procs, Ordered(p), ReturnStep(p)
  PROVE  Ordered(p)'
<1>1. pc'[p] \in {"undo", "open", "inTree", "idle", "closing"}
  BY DEF ReturnStep, UndoOwner, Undone, LeaveCache, LeaveTree, LeaveUpdate, Close, Release, Closed,
         Goto, IInv, TypeOK
<1>2. CASE LeaveUpdate(p)
  <2>1. pc[p] = "inUpdate" /\ want[p] \in Locks /\ Drop(p, want[p])
    BY <1>2 DEF LeaveUpdate, IInv, PlaceInv, WantInv, Locks
  <2>2. \A k \in Locks : held'[p][k] = IF k = want[p] THEN "none" ELSE held[p][k]
    BY <2>1, DropEffect DEF IInv
  <2>3. Free(p, Locks \ {want[p]})
    BY <2>1 DEF IInv, PlaceInv, HeldInv
  <2>4. \A k \in Locks : held'[p][k] = "none"
    BY <2>2, <2>3 DEF Free
  <2>5. QED
    BY <1>1, <2>4 DEF Ordered, Locks
<1>3. CASE ~LeaveUpdate(p)
  <2>1. pc[p] # "inUpdate"
    BY <1>3 DEF ReturnStep, UndoOwner, Undone, LeaveCache, LeaveTree, Close, Release, Closed
  <2>2. held' = held \/ \E l \in Locks : Drop(p, l)
    BY <1>3 DEF ReturnStep, UndoOwner, Undone, LeaveCache, LeaveTree, Close, Release, Closed, Locks
  <2>3. \A k \in Locks : held'[p][k] \in {held[p][k], "none"}
    BY <2>2, DropEffect DEF IInv
  <2>4. QED
    BY <1>1, <2>1, <2>3, OrderedWithout
<1>4. QED
  BY <1>2, <1>3

(* The next owner is the first of those that are left.                     *)
LEMMA LockOwnerOrdered ==
  ASSUME IInv, NEW p \in Procs, Ordered(p), NEW o \in Owners, LockOwner(p, o)
  PROVE  Ordered(p)'
<1>1. o \in Locks /\ "exclusive" \in Modes /\ Grant(p, o, "exclusive")
  BY DEF LockOwner, Locks, Modes
<1>2. \A k \in Locks : held'[p][k] = IF k = o THEN "exclusive" ELSE held[p][k]
  BY <1>1, GrantEffect DEF IInv
<1>3. pc[p] = "owners" /\ pc'[p] = "owners" /\ todo'[p] = todo[p] \ {o} /\ NextOwner(p, o)
  BY DEF LockOwner, IInv, TypeOK
<1>4. ASSUME NEW k \in Owners, NEW r \in todo'[p], held'[p][k] # "none"
      PROVE  Rank[k] < Rank[r]
  <2>1. r \in todo[p] /\ r # o /\ r \in Owners /\ k \in Locks
    BY <1>3, <1>4 DEF IInv, TypeOK, Locks
  <2>2. CASE k = o
    <3>1. Rank[o] <= Rank[r] /\ Rank[o] # Rank[r] /\ Rank[o] \in Nat /\ Rank[r] \in Nat
      BY <1>3, <2>1, LocksAssumption DEF NextOwner
    <3>2. QED
      BY <2>2, <3>1
  <2>3. CASE k # o
    BY <1>2, <1>3, <1>4, <2>1, <2>3 DEF Ordered
  <2>4. QED
    BY <2>2, <2>3
<1>5. \A r \in Repos : held'[p][r] # "exclusive"
  BY <1>2, <1>3, LocksAssumption DEF Ordered, Locks
<1>6. QED
  BY <1>3, <1>4, <1>5 DEF Ordered

LEMMA LockOrdered ==
  ASSUME IInv, NEW p \in Procs, Ordered(p), LockStep(p)
  PROVE  Ordered(p)'
<1>1. CASE LockProject(p)
  <2>1. project[p] \in Projects /\ project[p] \in Locks /\ Grant(p, project[p], "exclusive")
    BY <1>1 DEF LockProject, IInv, PlaceInv, SessionInv, Locks
  <2>2. \A k \in Locks : held'[p][k] = IF k = project[p] THEN "exclusive" ELSE held[p][k]
    BY <2>1, GrantEffect DEF IInv, Modes
  <2>3. pc[p] = "project" /\ pc'[p] = "lifecycle"
    BY <1>1 DEF LockProject, Goto, IInv, TypeOK
  <2>4. \A r \in Repos : r \in Locks /\ r # project[p]
    BY <2>1, LocksAssumption DEF Locks
  <2>5. QED
    BY <2>2, <2>3, <2>4 DEF Ordered
<1>2. CASE LockLifecycle(p)
  <2>1. Lifecycle \in Locks /\ LifecycleMode(p) \in Modes /\ Grant(p, Lifecycle, LifecycleMode(p))
    BY <1>2 DEF LockLifecycle, Locks, LifecycleMode, Modes
  <2>2. \A k \in Locks : held'[p][k] = IF k = Lifecycle THEN LifecycleMode(p) ELSE held[p][k]
    BY <2>1, GrantEffect DEF IInv
  <2>3. pc[p] = "lifecycle" /\ pc'[p] = "open"
    BY <1>2 DEF LockLifecycle, Goto, IInv, TypeOK
  <2>4. \A r \in Repos : r \in Locks /\ r # Lifecycle
    BY LocksAssumption DEF Locks
  <2>5. QED
    BY <2>2, <2>3, <2>4 DEF Ordered
<1>3. CASE \E o \in Owners : LockOwner(p, o)
  BY <1>3, LockOwnerOrdered
<1>4. CASE SealOwners(p)
  <2>1. held' = held /\ pc[p] = "owners" /\ pc'[p] = "open"
    BY <1>4 DEF SealOwners, Goto, IInv, TypeOK
  <2>2. QED
    BY <2>1, OrderedWithout
<1>5. CASE LockRepo(p)
  <2>1. want[p] \in Locks /\ Grant(p, want[p], "shared")
    BY <1>5 DEF LockRepo, IInv, PlaceInv, WantInv, Locks
  <2>2. \A k \in Locks : held'[p][k] = IF k = want[p] THEN "shared" ELSE held[p][k]
    BY <2>1, GrantEffect DEF IInv, Modes
  <2>3. pc[p] = "repo" /\ pc'[p] = "open"
    BY <1>5 DEF LockRepo, Goto, IInv, TypeOK
  <2>4. QED
    BY <2>2, <2>3 DEF Ordered, Locks
<1>6. CASE LockTree(p) \/ LockCache(p)
  <2>1. want[p] \in Trees \cup Caches /\ want[p] \in Locks /\ Grant(p, want[p], "exclusive")
    BY <1>6 DEF LockTree, LockCache, IInv, PlaceInv, WantInv, Locks
  <2>2. \A k \in Locks : held'[p][k] = IF k = want[p] THEN "exclusive" ELSE held[p][k]
    BY <2>1, GrantEffect DEF IInv, Modes
  <2>3. pc[p] # "inUpdate" /\ pc'[p] \in {"inTree", "inCache"}
    BY <1>6 DEF LockTree, LockCache, Goto, IInv, TypeOK
  <2>4. \A r \in Repos : r \in Locks /\ r # want[p]
    BY <2>1, LocksAssumption DEF Locks
  <2>5. QED
    BY <2>2, <2>3, <2>4 DEF Ordered
<1>7. CASE LockUpdate(p)
  <2>1. pc'[p] = "inUpdate"
    BY <1>7 DEF LockUpdate, Goto, IInv, TypeOK
  <2>2. QED
    BY <2>1 DEF Ordered
<1>8. QED
  BY <1>1, <1>2, <1>3, <1>4, <1>5, <1>6, <1>7 DEF LockStep

(* The owners another process has still to lock stay what they are.        *)
LEMMA OthersTodo ==
  ASSUME IInv, NEW p \in Procs, ProcStep(p), NEW q \in Procs \ {p}
  PROVE  todo'[q] = todo[q]
BY DEF IInv, TypeOK, ProcStep, CallStep, LockStep, ReturnStep, FailStep, session,
       Open, CallOwners, CallRepo, CallUpdate, CallTree, CallCache, LockProject, LockLifecycle,
       LockOwner, SealOwners, LockRepo, LockTree, LockCache, LockUpdate, UndoOwner, Undone,
       LeaveCache, LeaveTree, LeaveUpdate, Close, Release, Closed, AcquireFails, OwnersFail, Kill

LEMMA StepOrderly == IInv /\ Orderly /\ [Next]_vars => Orderly'
<1> SUFFICES ASSUME IInv, Orderly, [Next]_vars PROVE Orderly'
  OBVIOUS
<1>1. ASSUME NEW p \in Procs, ProcStep(p) PROVE Orderly'
  <2>1. Moves(p)
    BY <1>1, CallMoves, LockMoves, ReturnMoves, FailMoves DEF ProcStep
  <2>2. Ordered(p)'
    BY <1>1, CallOrdered, LockOrdered, ReturnOrdered, FailOrdered DEF ProcStep, Orderly
  <2>3. ASSUME NEW q \in Procs \ {p} PROVE Ordered(q)'
    <3>1. todo'[q] = todo[q] /\ pc'[q] = pc[q] /\ held'[q] = held[q] /\ sealed'[q] = sealed[q]
      BY <1>1, <2>1, OthersTodo DEF Moves, Frame
    <3>2. QED
      BY <3>1 DEF Orderly, Ordered
  <2>4. QED
    BY <2>2, <2>3 DEF Orderly
<1>2. CASE UNCHANGED vars
  BY <1>2 DEF vars, session, Orderly, Ordered
<1>3. QED
  BY <1>1, <1>2 DEF Next, Rest

-----------------------------------------------------------------------------
(* No deadlock: who waits for a process waits for a lock before the one    *)
(* that process waits for.                                                 *)
Level(p) ==
  CASE pc[p] = "project" -> 1
    [] pc[p] = "lifecycle" -> 2
    [] pc[p] = "update" -> 3
    [] pc[p] = "repo" -> 4
    [] pc[p] = "owners" -> 5
    [] pc[p] = "tree" -> 6
    [] pc[p] = "cache" -> 7
    [] OTHER -> 8

OwnersAhead(p, q) ==
  /\ pc[p] = "owners" /\ pc[q] = "owners"
  /\ \E o1, o2 \in Owners : NextOwner(p, o1) /\ NextOwner(q, o2) /\ Rank[o1] < Rank[o2]

Ahead(p, q) == Level(p) < Level(q) \/ OwnersAhead(p, q)

LEMMA LevelType == \A p : Level(p) \in 1..8
BY DEF Level

LEMMA AheadOnce ==
  ASSUME NEW p
  PROVE  ~Ahead(p, p)
<1>1. ~(Level(p) < Level(p))
  BY LevelType
<1>2. ASSUME NEW o1 \in Owners, NEW o2 \in Owners, NextOwner(p, o1), NextOwner(p, o2)
      PROVE  ~(Rank[o1] < Rank[o2])
  BY <1>2, LocksAssumption DEF NextOwner
<1>3. QED
  BY <1>1, <1>2 DEF Ahead, OwnersAhead

LEMMA AheadGoesOn ==
  ASSUME NEW p, NEW q, NEW r, Ahead(p, q), Ahead(q, r)
  PROVE  Ahead(p, r)
<1>1. Level(p) \in 1..8 /\ Level(q) \in 1..8 /\ Level(r) \in 1..8
  BY LevelType
<1>2. \A x, y : OwnersAhead(x, y) => Level(x) = 5 /\ Level(y) = 5
  BY DEF OwnersAhead, Level
<1>3. CASE OwnersAhead(p, q) /\ OwnersAhead(q, r)
  <2>1. PICK o1 \in Owners, o2 \in Owners :
          NextOwner(p, o1) /\ NextOwner(q, o2) /\ Rank[o1] < Rank[o2]
    BY <1>3 DEF OwnersAhead
  <2>2. PICK o3 \in Owners, o4 \in Owners :
          NextOwner(q, o3) /\ NextOwner(r, o4) /\ Rank[o3] < Rank[o4]
    BY <1>3 DEF OwnersAhead
  <2>3. Rank[o2] <= Rank[o3]
    BY <2>1, <2>2 DEF NextOwner
  <2>4. Rank[o1] < Rank[o4]
    BY <2>1, <2>2, <2>3, LocksAssumption
  <2>5. QED
    BY <1>3, <2>1, <2>2, <2>4 DEF Ahead, OwnersAhead
<1>4. CASE Level(p) < Level(q) \/ Level(q) < Level(r)
  <2>1. Level(p) < Level(r)
    BY <1>1, <1>2, <1>4 DEF Ahead
  <2>2. QED
    BY <2>1 DEF Ahead
<1>5. QED
  BY <1>3, <1>4 DEF Ahead

LEMMA BlockedIsBehind ==
  ASSUME IInv, Orderly, NEW p \in Procs, NEW q \in Procs, BlockedBy(p, q), AwaitedLocks(q) # {}
  PROVE  Ahead(p, q)
<1>t. pc[p] \in Places /\ pc[q] \in Places /\ TypeOK /\ PlaceInv(p) /\ PlaceInv(q) /\ Ordered(q)
  BY DEF IInv, TypeOK, Orderly
<1>1. CASE pc[p] = "project"
  <2>1. held[q][project[p]] # "none" /\ project[p] \in Locks
    BY <1>1, <1>t DEF BlockedBy, AwaitedLocks, AwaitedMode, PlaceInv, SessionInv, Locks
  <2>2. pc[q] \notin {"idle", "project"}
    BY <1>t, <2>1 DEF PlaceInv, HeldInv, Free
  <2>3. QED
    BY <1>1, <1>t, <2>2 DEF Ahead, Level, Places
<1>2. CASE pc[p] = "lifecycle"
  <2>1. held[q][Lifecycle] # "none" /\ Lifecycle \in Locks \ Projects
    BY <1>2, LocksAssumption DEF BlockedBy, AwaitedLocks, AwaitedMode, Locks
  <2>2. pc[q] \notin {"idle", "project", "lifecycle"}
    BY <1>t, <2>1 DEF PlaceInv, HeldInv, Free
  <2>3. QED
    BY <1>2, <1>t, <2>2 DEF Ahead, Level, Places
<1>3. CASE pc[p] = "update"
  <2>1. held[q][want[p]] # "none" /\ want[p] \in Repos /\ want[p] \in Locks \ Projects
    BY <1>3, <1>t, LocksAssumption
       DEF BlockedBy, AwaitedLocks, AwaitedMode, PlaceInv, WantInv, Locks
  <2>2. pc[q] \notin {"idle", "project", "update", "lifecycle"}
    BY <1>t, <2>1 DEF PlaceInv, HeldInv, Free
  <2>3. QED
    BY <1>3, <1>t, <2>2 DEF Ahead, Level, Places
<1>4. CASE pc[p] = "repo"
  <2>1. held[q][want[p]] \notin {"none", "shared"} /\ want[p] \in Repos /\ want[p] \in Locks
    BY <1>4, <1>t DEF BlockedBy, AwaitedLocks, AwaitedMode, PlaceInv, WantInv, Locks
  <2>2. held[q][want[p]] = "exclusive"
    BY <1>t, <2>1 DEF TypeOK, Modes
  <2>3. pc[q] = "inUpdate"
    BY <1>t, <2>1, <2>2 DEF Ordered
  <2>4. QED
    BY <1>4, <2>3 DEF Ahead, Level
<1>5. CASE pc[p] = "owners"
  <2>1. PICK o \in Owners : NextOwner(p, o)
    BY <1>5 DEF BlockedBy, AwaitedLocks
  <2>2. held[q][o] # "none" /\ o \in Locks \ Projects
    BY <1>5, <2>1, LocksAssumption DEF BlockedBy, AwaitedLocks, AwaitedMode, Locks
  <2>3. pc[q] \notin {"idle", "project", "update", "lifecycle"}
    BY <1>t, <2>2 DEF PlaceInv, HeldInv, Free
  <2>4. pc[q] # "repo"
    BY <1>t, <2>2 DEF PlaceInv, SessionInv, Ordered, InSession, Free
  <2>5. CASE pc[q] = "owners"
    <3>1. PICK r \in Owners : NextOwner(q, r)
      BY <2>5 DEF AwaitedLocks
    <3>2. Rank[o] < Rank[r]
      BY <1>t, <2>2, <2>5, <3>1 DEF Ordered, NextOwner
    <3>3. QED
      BY <1>5, <2>1, <2>5, <3>1, <3>2 DEF Ahead, OwnersAhead
  <2>6. CASE pc[q] # "owners"
    BY <1>5, <1>t, <2>3, <2>4, <2>6 DEF Ahead, Level, Places
  <2>7. QED
    BY <2>5, <2>6
<1>6. CASE pc[p] = "tree"
  <2>1. held[q][want[p]] # "none" /\ want[p] \in Trees \cup Caches /\ want[p] \in Locks \ Projects
    BY <1>6, <1>t, LocksAssumption
       DEF BlockedBy, AwaitedLocks, AwaitedMode, PlaceInv, WantInv, Locks
  <2>2. pc[q] \notin {"idle", "project", "update", "lifecycle", "open", "owners", "undo", "repo", "tree"}
    BY <1>t, <2>1 DEF PlaceInv, HeldInv, Free
  <2>3. QED
    BY <1>6, <1>t, <2>2 DEF Ahead, Level, Places
<1>7. CASE pc[p] = "cache"
  <2>1. held[q][want[p]] # "none" /\ want[p] \in Caches /\ want[p] \in Locks \ Projects
    BY <1>7, <1>t, LocksAssumption
       DEF BlockedBy, AwaitedLocks, AwaitedMode, PlaceInv, WantInv, Locks
  <2>2. pc[q] \notin {"idle", "project", "update", "lifecycle", "open", "owners", "undo", "repo", "tree",
                      "inTree", "cache"}
    BY <1>t, <2>1 DEF PlaceInv, HeldInv, Free
  <2>3. QED
    BY <1>7, <1>t, <2>2 DEF Ahead, Level, Places
<1>8. QED
  BY <1>t, <1>1, <1>2, <1>3, <1>4, <1>5, <1>6, <1>7 DEF Places, BlockedBy, AwaitedLocks

(* The library's induction theorems take operators, which the prover cannot*)
(* instantiate; it is enough that a set of numbers has a least one.        *)
LEMMA LeastNumber ==
  ASSUME NEW B, B \subseteq Nat, B # {}
  PROVE  \E n \in B : \A m \in B : n <= m
<1> DEFINE Less == OpToRel(<, Nat)
<1>1. IsWellFoundedOn(Less, Nat)
  BY NatLessThanWellFounded
<1>2. \A x, y \in Nat : y < x => <<y, x>> \in Less
  BY DEF OpToRel
<1> HIDE DEF Less
<1>3. PICK n \in B : \A m \in B : <<m, n>> \notin Less
  BY <1>1, WFMin
<1>4. \A m \in B : ~(m < n)
  BY <1>2, <1>3, Zenon
<1>5. QED
  BY <1>4

(* Of the processes in S, one that has the fewest others ahead of it is not*)
(* blocked by any.                                                         *)
LEMMA OrderlyIsNoDeadlock ==
  ASSUME IInv, Orderly
  PROVE  NoDeadlock
<1> SUFFICES ASSUME NEW S \in SUBSET Procs, S # {}
             PROVE  \E p \in S : \A q \in S : ~BlockedBy(p, q)
  BY DEF NoDeadlock
<1> DEFINE Up(p) == {q \in S : Ahead(p, q)}
           counts == {Cardinality(Up(p)) : p \in S}
<1>1. CASE \E p \in S : AwaitedLocks(p) = {}
  BY <1>1 DEF BlockedBy
<1>2. CASE \A p \in S : AwaitedLocks(p) # {}
  <2>1. IsFiniteSet(S)
    BY LocksAssumption, FS_Subset
  <2>2. \A p \in S : IsFiniteSet(Up(p)) /\ Cardinality(Up(p)) \in Nat
    BY <2>1, FS_Subset, FS_CardinalityType
  <2>3. counts \subseteq Nat /\ counts # {}
    BY <2>2
  <2>4. PICK n \in counts : \A m \in counts : n <= m
    BY <2>3, LeastNumber
  <2>5. PICK p \in S : n = Cardinality(Up(p))
    BY <2>4
  <2>6. ASSUME NEW q \in S, BlockedBy(p, q) PROVE FALSE
    <3>1. p \in Procs /\ q \in Procs /\ AwaitedLocks(q) # {}
      BY <1>2
    <3>2. Ahead(p, q)
      BY <2>6, <3>1, BlockedIsBehind
    <3>3. Up(q) \in SUBSET Up(p)
      BY <3>2, AheadGoesOn
    <3>4. q \in Up(p) /\ q \notin Up(q)
      BY <3>2, AheadOnce
    <3>5. Cardinality(Up(q)) <= Cardinality(Up(p)) /\ Cardinality(Up(p)) # Cardinality(Up(q))
      BY <2>2, <3>3, <3>4, FS_Subset
    <3>6. n <= Cardinality(Up(q))
      BY <2>4
    <3>7. Cardinality(Up(q)) \in Nat /\ Cardinality(Up(p)) \in Nat
      BY <2>2
    <3>8. QED
      BY <2>5, <3>5, <3>6, <3>7
  <2>7. QED
    BY <2>6
<1>3. QED
  BY <1>1, <1>2

(* No set of processes waits for locks held within it: all commands take   *)
(* their locks in one order, and the owners by their names                 *)
(* (storage.AcquireContext, AcquireOwnersContext, RepoManager.Lock).       *)
THEOREM LocksAreOrdered == Spec => []NoDeadlock
<1>1. Spec => []Orderly
  BY Invariant, InitOrderly, StepOrderly, PTL DEF Spec
<1>2. IInv /\ Orderly => NoDeadlock
  BY OrderlyIsNoDeadlock
<1>3. QED
  BY <1>1, <1>2, Invariant, PTL

-----------------------------------------------------------------------------
(* The files of a project (ProjectFiles).                                  *)

InFiles == {"open", "loaded", "writing"}

Contents == [kind : {"absent", "half", "whole"}, id : Nat]
Tasks ==
  [op : {"none", "use", "copy", "save", "pins", "unpin"}, pc : {"idle", "waiting"} \cup InFiles,
   name : {NoName} \cup Names \cup Pinnable, id : Nat, pins : SUBSET Pinnable,
   path : {NoName} \cup Names, data : Contents]

FilesType ==
  /\ projectFile \in [config : Names \cup {NoName}, pins : SUBSET Pinnable]
  /\ configs \in [Names -> Contents]
  /\ lock \subseteq Shells
  /\ task \in [Shells -> Tasks]
  /\ commands \in Nat /\ removals \in Nat
  /\ removed \subseteq Names

(* Who works on the files has the project lock, and is alone with it; the  *)
(* configuration it has loaded stays the selected one.                     *)
FilesLocked ==
  \A p \in Shells : task[p].pc \in InFiles => lock = {p}
PathIsActive ==
  \A p \in Shells : task[p].pc \in {"loaded", "writing"} => task[p].path = Active
NumbersAreNew ==
  \A p \in Shells : task[p].pc # "idle" => task[p].id \in Nat \ {0}
NamesAreGiven ==
  \A p \in Shells : task[p].op \in {"use", "copy"} => task[p].name \in Names
SelectedIsThere == Explicit /\ projectFile.config \notin removed => Readable(projectFile.config)

FilesInv ==
  /\ FilesType /\ FilesLocked /\ PathIsActive /\ NumbersAreNew /\ NamesAreGiven /\ SelectedIsThere

LEMMA FilesInvInit == FilesInit => FilesInv
  BY FilesAssumption DEF FilesInit, FilesInv, FilesType, FilesLocked, PathIsActive, NumbersAreNew,
     NamesAreGiven, SelectedIsThere, Tasks, Contents, Content, Absent, Idle, InFiles, Explicit,
     NoProjectFile

(* What a step makes of the task of its process, of the lock and of the    *)
(* files keeps the invariant.                                              *)
LEMMA TaskMoves ==
  ASSUME FilesInv, NEW p \in Shells, NEW t \in Tasks,
         Continue(p, t), lock' \subseteq Shells, commands' \in Nat,
         projectFile' \in [config : Names \cup {NoName}, pins : SUBSET Pinnable],
         configs' \in [Names -> Contents], UNCHANGED <<removals, removed>>,
         t.pc \in InFiles => lock' = {p} /\ \A q \in Shells \ {p} : task[q].pc \notin InFiles,
         t.pc \notin InFiles => lock' \in {lock, lock \ {p}},
         Active' = Active \/ \A q \in Shells \ {p} : task[q].pc \notin InFiles,
         t.pc \in {"loaded", "writing"} => t.path = Active',
         t.pc # "idle" => t.id # 0,
         t.op \in {"use", "copy"} => t.name \in Names,
         SelectedIsThere'
  PROVE  FilesInv'
<1> USE DEF FilesInv, FilesType, Continue
<1>1. task' = [task EXCEPT ![p] = t] /\ task' \in [Shells -> Tasks]
  OBVIOUS
<1>2. task'[p] = t /\ \A q \in Shells \ {p} : task'[q] = task[q]
  BY <1>1
<1>3. FilesLocked'
  BY <1>2 DEF FilesLocked
<1>4. PathIsActive'
  BY <1>2 DEF PathIsActive, InFiles
<1>5. NumbersAreNew'
  BY <1>1, <1>2 DEF NumbersAreNew, Tasks
<1>6. NamesAreGiven'
  BY <1>2 DEF NamesAreGiven
<1> QED
  BY <1>1, <1>3, <1>4, <1>5, <1>6

(* What is selected stays selected and there where the files stay.         *)
LEMMA SelectionStays ==
  /\ UNCHANGED projectFile => Active' = Active /\ Explicit' = Explicit
  /\ UNCHANGED <<projectFile, configs, removed>> => SelectedIsThere' = SelectedIsThere
  BY DEF Active, Explicit, SelectedIsThere, Readable

LEMMA ActiveIsAName == FilesInv => Active \in Names
  BY FilesAssumption DEF FilesInv, FilesType, Active, Explicit

LEMMA IdleIsATask == Idle \in Tasks /\ Idle.pc = "idle" /\ Idle.op = "none"
  BY DEF Idle, Tasks, Contents, Content, Absent

LEMMA FilesInvStep == FilesInv /\ [FilesNext]_filesVars => FilesInv'
<1> SUFFICES ASSUME FilesInv, [FilesNext]_filesVars
             PROVE  FilesInv'
  OBVIOUS
<1> USE DEF FilesInv, FilesType
<1>0. /\ \A p \in Shells : task[p].pc \in InFiles => \A q \in Shells \ {p} : task[q].pc \notin InFiles
      /\ lock = {} => \A q \in Shells : task[q].pc \notin InFiles
  BY DEF FilesLocked
(* A command that is over lets go of the lock.                             *)
<1>e. ASSUME NEW p \in Shells, End(p), UNCHANGED <<commands, removals, removed>>,
             projectFile' \in [config : Names \cup {NoName}, pins : SUBSET Pinnable],
             configs' \in [Names -> Contents], SelectedIsThere',
             Active' = Active \/ task[p].pc \in InFiles
      PROVE  FilesInv'
  BY <1>0, <1>e, TaskMoves, IdleIsATask DEF End, InFiles
<1>1. ASSUME NEW p \in Shells, Ask(p) \/ AskUnpin(p) PROVE FilesInv'
  <2>1. PICK op \in {"use", "copy", "save", "pins", "unpin"},
             n \in {NoName} \cup Names \cup Pinnable, pins \in SUBSET Pinnable :
          Begin(p, op, n, pins) /\ (op \in {"use", "copy"} => n \in Names)
    <3>1. CASE \E op \in {"use", "copy"}, n \in Names : Begin(p, op, n, {})
      BY <3>1
    <3>2. CASE Begin(p, "save", NoName, {})
      BY <3>2
    <3>3. CASE \E q \in Pinnable : Begin(p, "pins", NoName, projectFile.pins \cup {q})
      <4>1. PICK q \in Pinnable : Begin(p, "pins", NoName, projectFile.pins \cup {q})
        BY <3>3
      <4>2. projectFile.pins \cup {q} \in SUBSET Pinnable
        OBVIOUS
      <4> QED
        BY <4>1, <4>2
    <3>4. CASE AskUnpin(p)
      <4>1. PICK q \in projectFile.pins : Begin(p, "unpin", q, {})
        BY <3>4 DEF AskUnpin
      <4> QED
        BY <4>1
    <3> QED
      BY <1>1, <3>1, <3>2, <3>3, <3>4 DEF Ask
  <2> DEFINE t == [Idle EXCEPT !.op = op, !.pc = "waiting", !.name = n, !.id = commands + 1, !.pins = pins]
  <2>2. commands + 1 \in Nat /\ commands + 1 # 0
    OBVIOUS
  <2>3. t \in Tasks /\ t.pc = "waiting" /\ t.id = commands + 1 /\ t.op = op /\ t.name = n
    <3> HIDE DEF FilesInv, FilesType
    <3> QED
      BY <2>2, IdleIsATask, Zenon DEF Tasks
  <2>4. Continue(p, t) /\ commands' \in Nat /\ UNCHANGED <<projectFile, configs, lock, removals, removed>>
    BY <2>1 DEF Begin, Continue
  <2> HIDE DEF t
  <2> QED
    BY <2>1, <2>2, <2>3, <2>4, SelectionStays, TaskMoves DEF InFiles
<1>2. ASSUME NEW p \in Shells, AcquireLock(p) PROVE FilesInv'
  <2> DEFINE t == [task[p] EXCEPT !.pc = "open"]
  <2>1. t \in Tasks /\ t.pc = "open" /\ t.id = task[p].id /\ t.op = task[p].op /\ t.name = task[p].name
    BY DEF Tasks, InFiles
  <2>2. Continue(p, t) /\ lock' = {p} /\ UNCHANGED <<projectFile, configs, commands, removals, removed>>
    BY <1>2 DEF AcquireLock
  <2>3. task[p].pc = "waiting" /\ lock = {}
    BY <1>2 DEF AcquireLock
  <2> HIDE DEF t
  <2> QED
    BY <1>0, <2>1, <2>2, <2>3, SelectionStays, TaskMoves DEF InFiles, NumbersAreNew, NamesAreGiven
<1>3. ASSUME NEW p \in Shells, UseProjectConfig(p) PROVE FilesInv'
  <2>1. task[p].name \in Names /\ task[p].pc \in InFiles
    BY <1>3 DEF UseProjectConfig, Opened, NamesAreGiven, InFiles
  <2>2. /\ projectFile' \in [config : Names \cup {NoName}, pins : SUBSET Pinnable]
        /\ projectFile' = projectFile \/ Readable(projectFile'.config)
    BY <1>3, <2>1 DEF UseProjectConfig
  <2>3. SelectedIsThere'
    BY <1>3, <2>2 DEF SelectedIsThere, Explicit, Readable, UseProjectConfig
  <2> QED
    BY <1>e, <1>3, <2>1, <2>2, <2>3 DEF UseProjectConfig
<1>4. ASSUME NEW p \in Shells, LoadProject(p) PROVE FilesInv'
  <2>1. CASE Loadable
    <3> DEFINE t == [task[p] EXCEPT !.pc = "loaded", !.path = Active, !.data = Loaded]
    <3>1. Loaded \in Contents
      BY ActiveIsAName DEF Loaded, Fresh, Content, Contents
    <3>2. /\ t \in Tasks /\ t.pc = "loaded" /\ t.id = task[p].id /\ t.op = task[p].op
          /\ t.name = task[p].name /\ t.path = Active
      BY <3>1, ActiveIsAName DEF Tasks, InFiles
    <3>3. /\ Continue(p, t) /\ task[p].pc = "open"
          /\ UNCHANGED <<projectFile, configs, lock, commands, removals, removed>>
      BY <1>4, <2>1 DEF LoadProject
    <3>4. lock' = {p}
      BY <3>3 DEF FilesLocked, InFiles
    <3> HIDE DEF t
    <3> QED
      BY <1>0, <3>2, <3>3, <3>4, SelectionStays, TaskMoves DEF InFiles, NumbersAreNew, NamesAreGiven
  <2>2. CASE ~Loadable
    BY <1>e, <1>4, <2>2, SelectionStays DEF LoadProject
  <2> QED
    BY <2>1, <2>2
<1>5. ASSUME NEW p \in Shells, Save(p) PROVE FilesInv'
  <2>1. task[p].path = Active
    BY <1>5 DEF Save, PathIsActive
  <2>2. Content("whole", task[p].id) \in Contents /\ Content("whole", task[p].id).kind = "whole"
    BY DEF Content, Contents, Tasks
  <2>3. configs' \in [Names -> Contents] /\ \A n \in Names : Readable(n) => Readable(n)'
    BY <1>5, <2>2 DEF Save, Readable
  <2>4. SelectedIsThere'
    BY <1>5, <2>3 DEF SelectedIsThere, Explicit, Readable, Save
  <2> QED
    BY <1>e, <1>5, <2>3, <2>4, SelectionStays DEF Save
<1>6. ASSUME NEW p \in Shells, CreateCopy(p) PROVE FilesInv'
  <2>1. CASE configs[task[p].name] = Absent
    <3> DEFINE t == [task[p] EXCEPT !.pc = "writing"]
    <3>1. /\ t \in Tasks /\ t.pc = "writing" /\ t.id = task[p].id /\ t.op = task[p].op
          /\ t.name = task[p].name /\ t.path = task[p].path
      BY DEF Tasks, InFiles
    <3>2. /\ Continue(p, t) /\ task[p].pc = "loaded"
          /\ configs' = [configs EXCEPT ![task[p].name] = Half]
          /\ UNCHANGED <<projectFile, lock, commands, removals, removed>>
      BY <1>6, <2>1 DEF CreateCopy
    <3>3. lock' = {p}
      BY <3>2 DEF FilesLocked, InFiles
    <3>x. Half \in Contents /\ Absent.kind # "whole"
      BY DEF Half, Absent, Content, Contents
    <3>4. configs' \in [Names -> Contents] /\ \A n \in Names : Readable(n) => Readable(n)'
      BY <2>1, <3>2, <3>x DEF Readable
    <3>5. SelectedIsThere'
      BY <3>2, <3>4 DEF SelectedIsThere, Explicit, Readable
    <3> HIDE DEF t
    <3> QED
      BY <1>0, <3>1, <3>2, <3>3, <3>4, <3>5, SelectionStays, TaskMoves
         DEF InFiles, NumbersAreNew, NamesAreGiven, PathIsActive
  <2>2. CASE configs[task[p].name] # Absent
    BY <1>e, <1>6, <2>2, SelectionStays DEF CreateCopy
  <2> QED
    BY <2>1, <2>2
<1>7. ASSUME NEW p \in Shells, WriteCopy(p) PROVE FilesInv'
  <2>1. task[p].data \in Contents /\ Absent \in Contents
    BY DEF Tasks, Absent, Content, Contents
  <2>2. configs' \in [Names -> Contents] /\ \A n \in Names : Readable(n) => Readable(n)'
    BY <1>7, <2>1 DEF WriteCopy, Readable, Half, Content
  <2>3. SelectedIsThere'
    BY <1>7, <2>2 DEF SelectedIsThere, Explicit, Readable, WriteCopy
  <2> QED
    BY <1>e, <1>7, <2>2, <2>3, SelectionStays DEF WriteCopy
<1>8. ASSUME NEW p \in Shells, SaveProjectPins(p) PROVE FilesInv'
  <2>1. PICK pins \in SUBSET Pinnable : SetPins(pins)
    BY <1>8 DEF SaveProjectPins, Tasks
  <2>2. /\ projectFile' \in [config : Names \cup {NoName}, pins : SUBSET Pinnable]
        /\ projectFile'.config = projectFile.config
    BY <2>1 DEF SetPins, NoProjectFile, Explicit
  <2>3. SelectedIsThere' /\ Active' = Active
    BY <1>8, <2>2 DEF SelectedIsThere, Explicit, Readable, Active, SaveProjectPins
  <2> QED
    BY <1>e, <1>8, <2>2, <2>3 DEF SaveProjectPins
<1>9. ASSUME NEW p \in Shells, Stop(p) PROVE FilesInv'
  BY <1>e, <1>9, SelectionStays DEF Stop
<1>10. CASE RemoveConfig
  <2>1. PICK n \in Names : /\ configs' = [configs EXCEPT ![n] = Absent]
                           /\ removed' = IF projectFile.config = n THEN removed \cup {n} ELSE removed
    BY <1>10 DEF RemoveConfig
  <2>2. /\ configs' \in [Names -> Contents] /\ removed' \subseteq Names /\ removals' \in Nat
        /\ UNCHANGED <<projectFile, lock, task, commands>>
    BY <1>10, <2>1 DEF RemoveConfig, Absent, Content, Contents
  <2>3. SelectedIsThere'
    BY <2>1, <2>2 DEF SelectedIsThere, Explicit, Readable
  <2> QED
    BY <2>2, <2>3, SelectionStays DEF FilesLocked, PathIsActive, NumbersAreNew, NamesAreGiven
<1>11. CASE UNCHANGED filesVars
  BY <1>11, SelectionStays DEF filesVars, FilesLocked, PathIsActive, NumbersAreNew, NamesAreGiven
<1> QED
  BY <1>1, <1>2, <1>3, <1>4, <1>5, <1>6, <1>7, <1>8, <1>9, <1>10, <1>11 DEF FilesNext

(* "config list" marks one configuration.                                  *)
LEMMA OneIsListed ==
  ASSUME FilesInv
  PROVE  /\ Cardinality({i \in Listed : i.active}) = 1
         /\ \A i \in Listed : i.active => i.name = Active /\ (i.error <=> ~Loadable)
<1>1. Active \in Names
  BY FilesAssumption DEF FilesInv, FilesType, Active, Explicit
<1> DEFINE Item(n) == [name |-> n, active |-> n = Active, unsaved |-> FALSE, error |-> ~Readable(n)]
           shown == {Item(n) : n \in {n \in Names : configs[n] # Absent}}
           it == [name |-> Active, active |-> TRUE, unsaved |-> ~Explicit, error |-> Explicit]
           some == \E i \in shown : i.active
<1>a. \A n : /\ Item(n).name = n /\ (Item(n).active <=> n = Active)
             /\ (Item(n).error <=> ~Readable(n))
  OBVIOUS
<1>b. it.name = Active /\ it.active /\ (it.error <=> Explicit)
  OBVIOUS
<1>c. Listed = IF some THEN shown ELSE shown \cup {it}
  BY DEF Listed
<1> HIDE DEF Item, it
<1>2. CASE configs[Active] # Absent
  <2>1. Item(Active) \in shown
    BY <1>1, <1>2
  <2>2. Listed = shown
    BY <1>a, <1>c, <2>1
  <2>3. {i \in Listed : i.active} = {Item(Active)}
    BY <1>a, <2>1, <2>2
  <2>4. Loadable <=> Readable(Active)
    BY <1>2 DEF Loadable
  <2>5. \A i \in Listed : i.active => i = Item(Active)
    BY <2>3
  <2> QED
    BY <1>a, <2>3, <2>4, <2>5, FS_Singleton
<1>3. CASE configs[Active] = Absent
  <2>1. \A i \in shown : ~i.active
    BY <1>a, <1>3
  <2>2. Listed = shown \cup {it}
    BY <1>c, <2>1
  <2>3. {i \in Listed : i.active} = {it}
    BY <1>b, <2>1, <2>2
  <2>4. Loadable <=> ~Explicit
    BY <1>3 DEF Loadable, Readable, Absent, Content
  <2>5. \A i \in Listed : i.active => i = it
    BY <2>3
  <2> QED
    BY <1>b, <2>3, <2>4, <2>5, FS_Singleton
<1> QED
  BY <1>2, <1>3

THEOREM FilesInvariant == FilesSpec => []FilesInv
  BY FilesInvInit, FilesInvStep, PTL DEF FilesSpec

(* What has been selected is a whole file, unless the user has removed it, *)
(* whatever was killed, and "config list" marks what a build then uses.    *)
THEOREM SelectedHolds == FilesSpec => []SelectedIsWhole
<1>1. FilesInv => SelectedIsWhole
  BY OneIsListed DEF FilesInv, SelectedIsThere, SelectedIsWhole
<1> QED
  BY <1>1, FilesInvariant, PTL

(* A command changes what it is about, and nothing else.                   *)
LEMMA AskedStep ==
  ASSUME FilesInv, FilesNext
  PROVE  /\ \A n \in Names :
              configs'[n] # configs[n] /\ configs'[n] # Absent =>
                \/ n = Active /\ configs'[n] \notin {Half, Fresh}
                \/ configs[n] = Absent /\ configs'[n] = Half
                \/ configs[n] = Half /\ \E p \in Shells : task[p].path = Active /\ configs'[n] = task[p].data
         /\ projectFile'.config # projectFile.config =>
              \E p \in Shells : task[p].op = "use" /\ task[p].name = projectFile'.config
         /\ projectFile'.pins # projectFile.pins => \E p \in Shells : task[p].op \in {"pins", "unpin"}
              /\ task'[p] = Idle
<1> USE DEF FilesInv
<1>1. ASSUME NEW n \in Names, configs'[n] # configs[n], configs'[n] # Absent
      PROVE  \/ n = Active /\ configs'[n] \notin {Half, Fresh}
             \/ configs[n] = Absent /\ configs'[n] = Half
             \/ configs[n] = Half /\ \E p \in Shells : task[p].path = Active /\ configs'[n] = task[p].data
  <2>1. ASSUME NEW p \in Shells, Save(p) PROVE n = Active /\ configs'[n] \notin {Half, Fresh}
    <3>1. configs' = [configs EXCEPT ![task[p].path] = Content("whole", task[p].id)]
      BY <2>1 DEF Save
    <3>2. task[p].id # 0 /\ task[p].path = Active
      BY <2>1 DEF Save, NumbersAreNew, PathIsActive
    <3> QED
      BY <1>1, <3>1, <3>2 DEF Content, Half, Fresh, FilesType
  <2>2. ASSUME NEW p \in Shells, CreateCopy(p) PROVE configs[n] = Absent /\ configs'[n] = Half
    BY <1>1, <2>2 DEF CreateCopy, FilesType
  <2>3. ASSUME NEW p \in Shells, WriteCopy(p)
        PROVE  configs[n] = Half /\ \E q \in Shells : task[q].path = Active /\ configs'[n] = task[q].data
    BY <1>1, <2>3 DEF WriteCopy, PathIsActive, FilesType
  <2>4. CASE RemoveConfig
    BY <1>1, <2>4 DEF RemoveConfig, FilesType
  <2>5. ASSUME NEW p \in Shells,
               Ask(p) \/ AskUnpin(p) \/ AcquireLock(p) \/ UseProjectConfig(p) \/ LoadProject(p)
                 \/ SaveProjectPins(p) \/ Stop(p)
        PROVE  FALSE
    BY <1>1, <2>5 DEF Ask, AskUnpin, Begin, AcquireLock, UseProjectConfig, LoadProject,
       SaveProjectPins, Stop
  <2> QED
    BY <2>1, <2>2, <2>3, <2>4, <2>5 DEF FilesNext
<1>2. CASE \E p \in Shells : UseProjectConfig(p)
  BY <1>1, <1>2 DEF UseProjectConfig, Opened
<1>3. CASE \E p \in Shells : SaveProjectPins(p)
  BY <1>1, <1>3 DEF SaveProjectPins, Opened, SetPins, NoProjectFile, Explicit, End, Continue, FilesType
<1>4. CASE ~\E p \in Shells : UseProjectConfig(p) \/ SaveProjectPins(p)
  <2>1. UNCHANGED projectFile
    BY <1>4 DEF FilesNext, Ask, AskUnpin, Begin, AcquireLock, LoadProject, Save, CreateCopy,
       WriteCopy, Stop, RemoveConfig
  <2> QED
    BY <1>1, <2>1
<1> QED
  BY <1>2, <1>3, <1>4

THEOREM AskedHolds == FilesSpec => OnlyAskedChanges
<1>1. FilesInv /\ [FilesNext]_filesVars =>
        [ /\ \A n \in Names :
               configs'[n] # configs[n] /\ configs'[n] # Absent =>
                 \/ n = Active /\ configs'[n] \notin {Half, Fresh}
                 \/ configs[n] = Absent /\ configs'[n] = Half
                 \/ configs[n] = Half /\ \E p \in Shells : task[p].path = Active /\ configs'[n] = task[p].data
          /\ projectFile'.config # projectFile.config =>
               \E p \in Shells : task[p].op = "use" /\ task[p].name = projectFile'.config
          /\ projectFile'.pins # projectFile.pins => \E p \in Shells : task[p].op \in {"pins", "unpin"}
               /\ task'[p] = Idle ]_filesVars
  BY AskedStep
<1> QED
  BY <1>1, FilesInvariant, PTL DEF FilesSpec, OnlyAskedChanges
=============================================================================
