--------------------------- MODULE SourceTreeProofs ---------------------------
(***************************************************************************)
(* The state file never names a commit that the tree does not have; a      *)
(* build compiles the commit and the patches it was asked for, and nothing *)
(* of another build: for all patch series, any number of commands and      *)
(* kills, and kills in the commands that delete the tree.  Then the trees  *)
(* of all packages of a build (module MemberTrees), for any packages, any  *)
(* patches and any number of builds and kills.                             *)
(***************************************************************************)
EXTENDS SourceTree, MemberTrees, TLAPS

IsTree(t) ==
  t = [head |-> t.head, whole |-> t.whole, intact |-> t.intact,
       applied |-> t.applied, litter |-> t.litter]

IsCommand(c) ==
  c = [urls |-> c.urls, ref |-> c.ref, pin |-> c.pin, patches |-> c.patches,
       refresh |-> c.refresh, offline |-> c.offline, resolving |-> c.resolving,
       commit |-> c.commit, found |-> c.found, next |-> c.next, why |-> c.why]

IsState(s) == s = [urls |-> s.urls, ref |-> s.ref, commit |-> s.commit, patches |-> s.patches]

Shape ==
  /\ IsTree(src) /\ IsCommand(cmd)
  /\ state # NoState => IsState(state)

(* While the tree is made over there is no state, and what is recorded is  *)
(* what HEAD names.                                                        *)
Invalidated == pc \in {"reset", "sweep", "remove", "publish", "record"} => state = NoState
Checked == pc \in {"restore", "reset", "sweep", "record"} => src.head = cmd.found

HonestInv == Shape /\ Invalidated /\ Checked /\ StateIsHonest

LEMMA InitHonest == Init => HonestInv
BY DEF Init, HonestInv, Shape, IsTree, IsCommand, Idle, Request, NoTree, Invalidated, Checked, StateIsHonest

(* Steps that leave the tree's HEAD and the state, and stop before any     *)
(* place where the tree is made over.                                      *)
Outside == {"idle", "check", "patch", "clear", "failed", "built", "cleaned",
            "unsource", "unroot", "clone", "invalidate"}

LEMMA KeepsHonest ==
  ASSUME HonestInv, IsTree(src'), IsCommand(cmd'),
         src'.head \in {src.head, NoCommit},
         \/ state' = state
         \/ state' = NoState
         \/ state # NoState /\ state'.commit = state.commit /\ IsState(state'),
         pc' \in Outside
  PROVE  HonestInv'
BY DEF HonestInv, Shape, Invalidated, Checked, StateIsHonest, Outside

LEMMA MoveHonest == HonestInv /\ Move => HonestInv'
BY DEF Move, disk, HonestInv, Shape, IsTree, IsCommand, IsState, Invalidated, Checked, StateIsHonest

LEMMA CommandHonest ==
  ASSUME HonestInv, NEW c, IsCommand(c), NEW place \in {"check", "unsource", "unroot"},
         Command(place, c)
  PROVE  HonestInv'
<1>1. /\ pc' = place /\ cmd' = c /\ src' = src /\ state' = state
  BY DEF Command, Go, disk
<1>2. IsTree(src') BY <1>1 DEF HonestInv, Shape, IsTree
<1>3. pc' \in Outside BY <1>1 DEF Outside
<1>4. QED BY <1>1, <1>2, <1>3, KeepsHonest

LEMMA BuildHonest == HonestInv /\ Build => HonestInv'
<1> SUFFICES ASSUME HonestInv, Build PROVE HonestInv'
  OBVIOUS
<1>1. PICK native, refresh, offline \in BOOLEAN, urls \in URLs, ref \in Refs \cup {NoRef},
           pin \in Commits \cup {NoCommit}, patches \in PatchSets :
        /\ refresh => pin = NoCommit /\ ~offline /\ ~native
        /\ native /\ offline => pin # NoCommit
        /\ Command("check", Request(native, refresh, offline, urls, ref, pin, patches))
  BY DEF Build
<1>2. IsCommand(Request(native, refresh, offline, urls, ref, pin, patches))
  BY DEF Request, IsCommand
<1>3. QED BY <1>1, <1>2, CommandHonest

LEMMA CleanHonest == HonestInv /\ (Link \/ Clean) => HonestInv'
<1>1. IsCommand(Idle) BY DEF IsCommand, Idle, Request
<1>2. QED BY <1>1, CommandHonest DEF Link, Clean

(* Where a command goes once the tree is there.                            *)
LEMMA EnsuredGoes ==
  ASSUME NEW c, IsCommand(cmd), Ensured(c)
  PROVE  pc' \in {"check", "patch"} /\ IsCommand(cmd')
BY DEF Ensured, Go, IsCommand

LEMMA EnsureHonest == HonestInv /\ Ensure => HonestInv'
<1> SUFFICES ASSUME HonestInv, Ensure PROVE HonestInv'
  OBVIOUS
<1>s. IsTree(src) /\ IsCommand(cmd) /\ (state # NoState => IsState(state))
  BY DEF HonestInv, Shape
<1>1. CASE Reuse
  <2>1. src' = src /\ state' = state BY <1>1 DEF Reuse, disk
  <2>2. pc' \in {"check", "patch"} /\ IsCommand(cmd') BY <1>1, <1>s, EnsuredGoes DEF Reuse
  <2>3. IsTree(src') BY <1>s, <2>1 DEF IsTree
  <2>4. QED BY <2>1, <2>2, <2>3, KeepsHonest DEF Outside
<1>2. CASE Resolve
  <2>1. src' = src /\ state' = state BY <1>2 DEF Resolve, disk
  <2>2. IsTree(src') BY <1>s, <2>1 DEF IsTree
  <2>3. PICK c \in Commits :
          IF Reusable /\ state.commit = c
          THEN Ensured(c)
          ELSE Go(IF src.head = c /\ (state = NoState \/ SameURLs) THEN "restore" ELSE "clone",
                  [cmd EXCEPT !.found = c])
    BY <1>2 DEF Resolve
  <2>4. CASE Reusable /\ state.commit = c
    <3>1. pc' \in {"check", "patch"} /\ IsCommand(cmd') BY <2>3, <2>4, <1>s, EnsuredGoes
    <3>2. QED BY <2>1, <2>2, <3>1, KeepsHonest DEF Outside
  <2>5. CASE ~(Reusable /\ state.commit = c)
    <3>1. /\ cmd' = [cmd EXCEPT !.found = c]
          /\ \/ pc' = "clone"
             \/ pc' = "restore" /\ src.head = c
      BY <2>3, <2>5 DEF Go
    <3>2. IsCommand(cmd') /\ cmd'.found = c BY <1>s, <3>1 DEF IsCommand
    <3>3. CASE pc' = "clone" BY <2>1, <2>2, <3>2, <3>3, KeepsHonest DEF Outside
    <3>4. CASE pc' = "restore" /\ src.head = c
      BY <1>s, <2>1, <2>2, <3>2, <3>4 DEF HonestInv, Shape, Invalidated, Checked, StateIsHonest
    <3>5. QED BY <3>1, <3>3, <3>4
  <2>6. QED BY <2>4, <2>5
<1>3. CASE ResolveFails
  <2>1. src' = src /\ state' = state /\ pc' = "failed" /\ IsTree(src') /\ IsCommand(cmd')
    BY <1>3, <1>s DEF ResolveFails, disk, Fail, Go, IsTree, IsCommand
  <2>2. QED BY <2>1, KeepsHonest DEF Outside
<1>4. CASE InvalidateForRestore
  BY <1>4, <1>s DEF InvalidateForRestore, Goto, HonestInv, Shape, IsTree, IsCommand,
                    Invalidated, Checked, StateIsHonest
<1>5. CASE Reset
  <2>1. state' = state /\ state = NoState /\ src.head = cmd.found
    BY <1>5 DEF Reset, HonestInv, Invalidated, Checked
  <2>2. CASE src.intact
    BY <1>5, <1>s, <2>1, <2>2
       DEF Reset, Goto, HonestInv, Shape, IsTree, IsCommand, Invalidated, Checked, StateIsHonest
  <2>3. CASE ~src.intact
    <3>1. src' = src /\ pc' = "failed" /\ IsTree(src') /\ IsCommand(cmd')
      BY <1>5, <1>s, <2>3 DEF Reset, Fail, Go, IsTree, IsCommand
    <3>2. QED BY <2>1, <3>1, KeepsHonest DEF Outside
  <2>4. QED BY <2>2, <2>3
<1>6. CASE Sweep
  BY <1>6, <1>s DEF Sweep, Goto, HonestInv, Shape, IsTree, IsCommand, Invalidated, Checked, StateIsHonest
<1>7. CASE Clone
  <2>1. src' = src /\ state' = state /\ IsTree(src')
    BY <1>7, <1>s DEF Clone, disk, IsTree
  <2>2. pc' \in {"failed", "invalidate"} /\ IsCommand(cmd')
    BY <1>7, <1>s DEF Clone, Fail, Go, IsCommand
  <2>3. QED BY <2>1, <2>2, KeepsHonest DEF Outside
<1>8. CASE Invalidate
  BY <1>8, <1>s DEF Invalidate, Goto, HonestInv, Shape, IsTree, IsCommand,
                    Invalidated, Checked, StateIsHonest
<1>9. CASE RemoveOld
  BY <1>9, <1>s DEF RemoveOld, Goto, NoTree, HonestInv, Shape, IsTree, IsCommand,
                    Invalidated, Checked, StateIsHonest
<1>10. CASE Publish
  BY <1>10, <1>s DEF Publish, Goto, TreeAt, NoTree, HonestInv, Shape, IsTree, IsCommand,
                    Invalidated, Checked, StateIsHonest
<1>11. CASE Record
  <2>1. src' = src /\ IsState(state') /\ state'.commit = cmd.found /\ src.head = cmd.found
    BY <1>11 DEF Record, IsState, HonestInv, Checked
  <2>2. pc' \in {"check", "patch"} /\ IsCommand(cmd') BY <1>11, <1>s, EnsuredGoes DEF Record
  <2>3. QED
    BY <1>s, <2>1, <2>2 DEF HonestInv, Shape, IsTree, Invalidated, Checked, StateIsHonest
<1>12. QED
  BY <1>1, <1>2, <1>3, <1>4, <1>5, <1>6, <1>7, <1>8, <1>9, <1>10, <1>11 DEF Ensure

LEMMA ApplyHonest == HonestInv /\ Apply => HonestInv'
<1> SUFFICES ASSUME HonestInv, Apply PROVE HonestInv'
  OBVIOUS
<1>s. IsTree(src) /\ IsCommand(cmd) /\ (state # NoState => IsState(state))
  BY DEF HonestInv, Shape
<1>1. IsCommand(cmd') /\ pc' \in Outside
  BY <1>s DEF Apply, SkipPatch, ApplyPatch, PatchFails, ClearPatchState, Compile,
              NextPatch, Goto, Go, Fail, IsCommand, Outside
<1>2. IsTree(src') /\ src'.head = src.head
  BY <1>s DEF Apply, SkipPatch, ApplyPatch, PatchFails, ClearPatchState, Compile, disk, IsTree
<1>3. CASE ClearPatchState
  <2>1. \/ state = NoState /\ state' = NoState
        \/ state # NoState /\ state' = [state EXCEPT !.patches = <<>>]
    BY <1>3 DEF ClearPatchState
  <2>2. CASE state # NoState /\ state' = [state EXCEPT !.patches = <<>>]
    <3>1. IsState(state') /\ state'.commit = state.commit BY <1>s, <2>2 DEF IsState
    <3>2. QED BY <1>1, <1>2, <2>2, <3>1, KeepsHonest
  <2>3. QED BY <1>1, <1>2, <2>1, <2>2, KeepsHonest
<1>4. CASE ~ClearPatchState
  <2>1. state' = state BY <1>4 DEF Apply, SkipPatch, ApplyPatch, PatchFails, Compile, disk
  <2>2. QED BY <1>1, <1>2, <2>1, KeepsHonest
<1>5. QED BY <1>3, <1>4

LEMMA RemoveHonest == HonestInv /\ Remove => HonestInv'
BY DEF Remove, CleanMaterializedSource, RemoveState, CleanSource, Goto, NoTree,
       HonestInv, Shape, IsTree, IsCommand, IsState, Invalidated, Checked, StateIsHonest

LEMMA DamagedTrees ==
  ASSUME IsTree(src), NEW t \in PartlyRemoved
  PROVE  IsTree(t) /\ t.head \in {src.head, NoCommit}
<1>1. CASE t = NoTree BY <1>1 DEF NoTree, IsTree
<1>2. CASE t # NoTree
  <2>1. PICK d \in Damaged, h \in {src.head, NoCommit} : t = [d EXCEPT !.head = h]
    BY <1>2 DEF PartlyRemoved
  <2>2. PICK i \in {src.intact, FALSE} : d = [src EXCEPT !.whole = FALSE, !.intact = i]
    BY DEF Damaged
  <2>3. QED BY <2>1, <2>2 DEF IsTree
<1>3. QED BY <1>1, <1>2

LEMMA KillsHonest == HonestInv /\ Kills => HonestInv'
<1> SUFFICES ASSUME HonestInv, Kills PROVE HonestInv'
  OBVIOUS
<1>s. IsTree(src) BY DEF HonestInv, Shape
<1>1. pc' = "idle" /\ IsCommand(cmd')
  BY DEF Kills, Kill, KillGit, KillRemoval, KillClean, Killed, Go, Idle, Request, IsCommand
<1>2. state' \in {state, NoState}
  BY DEF Kills, Kill, KillGit, KillRemoval, KillClean, disk
<1>3. IsTree(src') /\ src'.head \in {src.head, NoCommit}
  <2>1. CASE src' = src BY <1>s, <2>1 DEF IsTree
  <2>2. CASE src' \in Damaged BY <1>s, <2>2 DEF Damaged, IsTree
  <2>3. CASE src' \in PartlyRemoved BY <1>s, <2>3, DamagedTrees
  <2>4. QED BY <2>1, <2>2, <2>3 DEF Kills, Kill, KillGit, KillRemoval, KillClean, disk
<1>4. QED BY <1>1, <1>2, <1>3, KeepsHonest DEF Outside

LEMMA StepHonest == HonestInv /\ [Next]_vars => HonestInv'
<1> SUFFICES ASSUME HonestInv, [Next]_vars PROVE HonestInv'
  OBVIOUS
<1>1. CASE UNCHANGED vars
  BY <1>1 DEF vars, disk, HonestInv, Shape, IsTree, IsCommand, IsState, Invalidated, Checked, StateIsHonest
<1>2. CASE Next
  BY <1>2, MoveHonest, BuildHonest, CleanHonest, EnsureHonest, ApplyHonest, RemoveHonest, KillsHonest
     DEF Next
<1>3. QED BY <1>1, <1>2

(* EnsureSource, materialize, the patches and the commands that delete the *)
(* tree, killed anywhere, keep state.json honest: whenever it is there,    *)
(* HEAD of the tree is the commit it names, or there is no HEAD.           *)
THEOREM StateFileIsHonest == Spec => []StateIsHonest
<1>1. Spec => []HonestInv BY InitHonest, StepHonest, PTL DEF Spec
<1>2. HonestInv => StateIsHonest BY DEF HonestInv
<1>3. QED BY <1>1, <1>2, PTL

-----------------------------------------------------------------------------
(* What is built is what was asked for.                                    *)
(* What a command asks for stays what it is, and what it finds is that.    *)
Ensuring == {"check", "restore", "reset", "sweep", "clone", "invalidate", "remove", "publish", "record"}
Asked ==
  /\ cmd.patches \in PatchSets \cup {<<>>}
  /\ cmd.pin # NoCommit => cmd.commit = cmd.pin
  /\ pc \in Ensuring => cmd.next = 1
  /\ pc \in Ensuring \ {"check"} /\ cmd.commit # NoCommit => cmd.found = cmd.commit

(* A tree that has been made over is clean.                                *)
Made ==
  /\ pc \in {"sweep", "record"} => src.whole /\ src.applied = <<>>
  /\ pc \in {"sweep", "record", "publish"} => wreck = "none"
  /\ pc = "record" => src.litter = {}

(* The first m patches of a series, and no others, are in the files.       *)
HasFirst(series, m) == m \in 0..Len(series) /\ src.applied = SubSeq(series, 1, m)

(* A tree with a state that nothing has wrecked is of that state, but for  *)
(* patches that are still to come.                                         *)
Kept ==
  state # NoState /\ src.head = state.commit /\ wreck = "none" =>
    /\ src.litter \subseteq {<<state.commit, state.patches>>}
    /\ \E m \in Nat : HasFirst(state.patches, m)
    /\ src.whole \/ state.patches # <<>>

Wrecked ==
  /\ wreck \in {"none", "removal", "patch"}
  /\ wreck = "patch" => state = NoState \/ state.patches = <<>>

Applying ==
  pc = "patch" =>
    /\ state.commit = src.head /\ state.commit = cmd.commit /\ state.patches = cmd.patches
    /\ wreck = "patch" => cmd.patches = <<>>
    /\ cmd.next \in Nat \ {0}
    /\ wreck = "none" =>
         /\ \E m \in Nat : cmd.next <= m + 1 /\ HasFirst(cmd.patches, m)
         /\ src.whole \/ (cmd.next = 1 /\ cmd.patches # <<>>)
         /\ src.litter \subseteq {<<src.head, cmd.patches>>}

Built ==
  pc = "built" /\ ~Untold =>
    /\ src.head = cmd.commit /\ src.whole /\ src.applied = cmd.patches
    /\ src.litter = {<<cmd.commit, cmd.patches>>}

Unkilled ==
  /\ kills \in Nat
  /\ kills = 0 =>
       /\ src.intact /\ wreck # "removal"
       /\ wreck = "none" /\ pc # "clear" => src.whole

Reason ==
  \E i \in DOMAIN cmd.patches :
    \/ cmd.patches[i] \in Bad
    \/ \E j \in DOMAIN cmd.patches : i < j /\ <<cmd.patches[i], cmd.patches[j]>> \in Masks
Clearing == pc = "clear" => cmd.patches # <<>> /\ (kills = 0 => Reason)

TreeInv ==
  /\ Asked /\ Made /\ Kept /\ Wrecked /\ Applying /\ Built /\ Unkilled
  /\ Clearing /\ FailedPatchIsRemade /\ GoodPatchesApply

Inv == HonestInv /\ TreeInv

LEMMA InitTree == Init => TreeInv
<1> SUFFICES ASSUME Init PROVE TreeInv
  OBVIOUS
<1>1. /\ pc = "idle" /\ cmd = Idle /\ wreck = "none" /\ kills = 0 /\ state = NoState
      /\ src.intact /\ src.whole
  BY DEF Init, NoTree
<1>2. cmd.patches = <<>> /\ cmd.pin = NoCommit BY <1>1 DEF Idle, Request
<1>3. Asked BY <1>1, <1>2 DEF Asked, Ensuring
<1>4. QED
  BY <1>1, <1>3 DEF TreeInv, Made, Kept, Wrecked, Applying, Built, Unkilled, Clearing,
                    FailedPatchIsRemade, GoodPatchesApply

(* A step that leaves the disk.                                            *)
LEMMA DiskStays ==
  ASSUME TreeInv, UNCHANGED disk
  PROVE  Kept' /\ Wrecked'
BY DEF disk, TreeInv, Kept, Wrecked, HasFirst

LEMMA MoveTree == TreeInv /\ Move => TreeInv'
BY DEF Move, disk, TreeInv, Asked, Ensuring, Made, Kept, HasFirst, Wrecked, Applying, Built, Untold,
       Unkilled, Reason, Clearing, FailedPatchIsRemade, GoodPatchesApply

LEMMA CommandTree ==
  ASSUME TreeInv, NEW c, NEW place \in {"check", "unsource", "unroot"}, Command(place, c),
         c.patches \in PatchSets \cup {<<>>}, c.next = 1, c.commit = c.pin
  PROVE  TreeInv'
<1>1. pc' = place /\ cmd' = c /\ UNCHANGED <<src, state, wreck, kills>> /\ pc # "clear"
  BY DEF Command, Go, disk
<1>2. Kept' /\ Wrecked' BY DiskStays DEF Command
<1>3. Asked' BY <1>1 DEF Asked, Ensuring
<1>4. Unkilled' BY <1>1 DEF TreeInv, Unkilled
<1>5. QED
  BY <1>1, <1>2, <1>3, <1>4
     DEF TreeInv, Made, Applying, Built, Clearing, FailedPatchIsRemade, GoodPatchesApply

LEMMA BuildTree == TreeInv /\ Build => TreeInv'
<1> SUFFICES ASSUME TreeInv, Build PROVE TreeInv'
  OBVIOUS
<1>1. PICK native, refresh, offline \in BOOLEAN, urls \in URLs, ref \in Refs \cup {NoRef},
           pin \in Commits \cup {NoCommit}, patches \in PatchSets :
        Command("check", Request(native, refresh, offline, urls, ref, pin, patches))
  BY DEF Build
<1> DEFINE c == Request(native, refresh, offline, urls, ref, pin, patches)
<1>2. c.patches = patches /\ c.next = 1 /\ c.commit = pin /\ c.pin = pin
  BY DEF Request
<1>3. QED BY <1>1, <1>2, CommandTree

LEMMA CleanTree == TreeInv /\ (Link \/ Clean) => TreeInv'
<1>1. Idle.patches = <<>> /\ Idle.next = 1 /\ Idle.commit = Idle.pin BY DEF Idle, Request
<1>2. QED BY <1>1, CommandTree DEF Link, Clean

(* EnsureSource goes on to the patches with a tree it can reuse.           *)
LEMMA ReuseTree ==
  ASSUME Inv, pc = "check", Reusable, NEW c, c = state.commit,
         cmd.pin # NoCommit => c = cmd.pin,
         Ensured(c), UNCHANGED <<disk, bounds>>
  PROVE  TreeInv'
<1>1. UNCHANGED <<src, state, wreck, kills>> BY DEF disk, bounds
<1>2. IsCommand(cmd) /\ cmd.next = 1 BY DEF Inv, HonestInv, Shape, TreeInv, Asked, Ensuring
<1>3. /\ cmd'.commit = c /\ cmd'.pin = cmd.pin /\ cmd'.patches = cmd.patches /\ cmd'.next = 1
      /\ pc' = IF cmd.resolving THEN "check" ELSE "patch"
  BY <1>2 DEF Ensured, Go, IsCommand
<1>4. Kept' /\ Wrecked' BY DiskStays DEF Inv
<1>5. Asked' BY <1>3 DEF Inv, TreeInv, Asked, Ensuring
<1>6. Unkilled' BY <1>1, <1>3 DEF Inv, TreeInv, Unkilled
<1>7. Applying'
  <2>1. CASE cmd.resolving BY <1>3, <2>1 DEF Applying
  <2>2. CASE ~cmd.resolving
    <3>1. state # NoState /\ src.head = state.commit /\ state.patches = cmd.patches
      BY <2>2 DEF Reusable, SameURLs, AtHead
    <3>2. CASE wreck = "none"
      <4>1. /\ \E m \in Nat : HasFirst(cmd.patches, m)
            /\ src.whole \/ cmd.patches # <<>>
            /\ src.litter \subseteq {<<src.head, cmd.patches>>}
        BY <3>1, <3>2 DEF Inv, TreeInv, Kept
      <4>2. PICK m \in Nat : HasFirst(cmd.patches, m) BY <4>1
      <4>3. 1 <= m + 1 /\ HasFirst(cmd.patches, m)' BY <4>2, <1>1, <1>3 DEF HasFirst
      <4>4. QED BY <1>1, <1>3, <3>1, <3>2, <4>1, <4>3 DEF Applying
    <3>3. CASE wreck # "none"
      <4>1. wreck = "patch" => cmd.patches = <<>> BY <3>1 DEF Inv, TreeInv, Wrecked
      <4>2. QED BY <1>1, <1>3, <3>1, <3>3, <4>1 DEF Applying
    <3>4. QED BY <3>2, <3>3
  <2>3. QED BY <2>1, <2>2
<1>8. QED
  BY <1>3, <1>4, <1>5, <1>6, <1>7
     DEF TreeInv, Made, Built, Clearing, FailedPatchIsRemade, GoodPatchesApply

(* What a clone or the tree is asked for is the commit that was given.     *)
LEMMA ResolutionIsCommit ==
  ASSUME NEW c, Resolution(c), cmd.commit # NoCommit
  PROVE  c = cmd.commit
BY DEF Resolution

(* A step of EnsureSource that only goes on, with the disk as it is.       *)
LEMMA GoesOn ==
  ASSUME TreeInv, pc \in Ensuring, UNCHANGED <<disk, bounds>>,
         pc' \in {"restore", "clone", "invalidate"},
         NEW c, IsCommand(cmd), cmd' = [cmd EXCEPT !.found = c],
         cmd.commit # NoCommit => c = cmd.commit
  PROVE  TreeInv'
<1>1. UNCHANGED <<src, state, wreck, kills>> BY DEF disk, bounds
<1>2. Kept' /\ Wrecked' BY DiskStays
<1>3. Asked' BY DEF TreeInv, Asked, Ensuring, IsCommand
<1>4. Unkilled' BY <1>1 DEF TreeInv, Unkilled, Ensuring
<1>5. QED
  BY <1>2, <1>3, <1>4
     DEF TreeInv, Made, Applying, Built, Clearing, FailedPatchIsRemade, GoodPatchesApply

(* A failure that is not of a patch.                                       *)
LEMMA FailTree ==
  ASSUME TreeInv, pc \in Ensuring, UNCHANGED <<src, state, wreck, kills>>, IsCommand(cmd),
         NEW why, why # "patch", Fail(why)
  PROVE  TreeInv'
<1>1. pc' = "failed" /\ cmd' = [cmd EXCEPT !.why = why] BY DEF Fail, Go
<1>2. cmd'.why = why BY <1>1 DEF IsCommand
<1>3. Kept' /\ Wrecked' BY DiskStays DEF disk
<1>4. Asked' BY <1>1 DEF TreeInv, Asked, Ensuring, IsCommand
<1>5. Unkilled' BY <1>1 DEF TreeInv, Unkilled, Ensuring
<1>6. QED
  BY <1>1, <1>2, <1>3, <1>4, <1>5
     DEF TreeInv, Made, Applying, Built, Clearing, FailedPatchIsRemade, GoodPatchesApply

(* EnsureSource, up to where it makes the tree over.                       *)
LEMMA CheckTree == Inv /\ (Reuse \/ Resolve \/ ResolveFails) => TreeInv'
<1> SUFFICES ASSUME Inv, Reuse \/ Resolve \/ ResolveFails PROVE TreeInv'
  OBVIOUS
<1>s. IsCommand(cmd) /\ TreeInv BY DEF Inv, HonestInv, Shape
<1>a. cmd.pin # NoCommit => cmd.commit = cmd.pin BY <1>s DEF TreeInv, Asked
<1>c. pc \in Ensuring BY DEF Reuse, Resolve, ResolveFails, Ensuring
<1>1. CASE Reuse
  <2>1. cmd.pin # NoCommit => state.commit = cmd.pin BY <1>1, <1>a DEF Reuse, Wanted
  <2>2. QED BY <1>1, <2>1, ReuseTree DEF Reuse
<1>2. CASE Resolve
  <2>1. PICK c \in Commits :
          /\ Resolution(c)
          /\ IF Reusable /\ state.commit = c
             THEN Ensured(c)
             ELSE Go(IF src.head = c /\ (state = NoState \/ SameURLs) THEN "restore" ELSE "clone",
                     [cmd EXCEPT !.found = c])
    BY <1>2 DEF Resolve
  <2>2. cmd.commit # NoCommit => c = cmd.commit BY <2>1, ResolutionIsCommit
  <2>3. UNCHANGED <<disk, bounds>> BY <1>2 DEF Resolve
  <2>4. CASE Reusable /\ state.commit = c
    <3>1. cmd.pin # NoCommit => c = cmd.pin BY <1>a, <2>2
    <3>2. Ensured(c) /\ pc = "check" BY <1>2, <2>1, <2>4 DEF Resolve
    <3>3. QED BY <2>3, <2>4, <3>1, <3>2, ReuseTree
  <2>5. CASE ~(Reusable /\ state.commit = c)
    <3>1. cmd' = [cmd EXCEPT !.found = c] /\ pc' \in {"restore", "clone"}
      BY <2>1, <2>5 DEF Go
    <3>2. QED BY <1>s, <1>c, <2>2, <2>3, <3>1, GoesOn
  <2>6. QED BY <2>4, <2>5
<1>3. CASE ResolveFails
  <2>1. UNCHANGED <<src, state, wreck, kills>> /\ Fail("network")
    BY <1>3 DEF ResolveFails, disk, bounds
  <2>2. QED BY <1>s, <1>c, <2>1, FailTree
<1>4. QED BY <1>1, <1>2, <1>3

(* A step of materialize that leaves no state, or none yet, and goes on.   *)
LEMMA MakesOver ==
  ASSUME TreeInv, pc \in Ensuring \ {"check"}, state' = NoState, UNCHANGED <<kills, cmd>>,
         pc' \in {"reset", "sweep", "remove", "publish", "record"},
         wreck' \in {wreck, "none"}, Made', Unkilled'
  PROVE  TreeInv'
<1>1. Asked' BY DEF TreeInv, Asked, Ensuring
<1>2. QED
  BY <1>1 DEF TreeInv, Kept, Wrecked, Applying, Built, Clearing, FailedPatchIsRemade, GoodPatchesApply

LEMMA MaterializeTree ==
  /\ Inv
  /\ InvalidateForRestore \/ Reset \/ Sweep \/ Clone \/ Invalidate \/ RemoveOld \/ Publish
  => TreeInv'
<1> SUFFICES ASSUME Inv, InvalidateForRestore \/ Reset \/ Sweep \/ Clone \/ Invalidate
                         \/ RemoveOld \/ Publish
             PROVE  TreeInv'
  OBVIOUS
<1>s. IsCommand(cmd) /\ IsTree(src) /\ TreeInv /\ Invalidated /\ Unkilled /\ Made
  BY DEF Inv, HonestInv, Shape, TreeInv
<1>c. pc \in Ensuring \ {"check"}
  BY DEF InvalidateForRestore, Reset, Sweep, Clone, Invalidate, RemoveOld, Publish, Ensuring
<1>1. CASE InvalidateForRestore \/ Invalidate
  <2>1. /\ state' = NoState /\ pc' \in {"reset", "remove"}
        /\ UNCHANGED <<src, wreck, kills, cmd>> /\ pc # "clear"
    BY <1>1 DEF InvalidateForRestore, Invalidate, Goto, bounds
  <2>2. Made' BY <2>1 DEF Made
  <2>3. Unkilled' BY <1>s, <2>1 DEF Unkilled
  <2>4. QED BY <1>s, <1>c, <2>1, <2>2, <2>3, MakesOver
<1>2. CASE Reset /\ src.intact
  <2>1. /\ state' = NoState /\ pc' = "sweep" /\ wreck' = "none"
        /\ UNCHANGED <<kills, cmd>>
        /\ src' = [src EXCEPT !.whole = TRUE, !.applied = <<>>]
    BY <1>2, <1>s DEF Reset, Goto, bounds, Invalidated
  <2>2. src'.whole /\ src'.applied = <<>> /\ src'.intact BY <1>2, <1>s, <2>1 DEF IsTree
  <2>3. Made' BY <2>1, <2>2 DEF Made
  <2>4. Unkilled' BY <1>s, <2>1, <2>2 DEF Unkilled
  <2>5. QED BY <1>s, <1>c, <2>1, <2>3, <2>4, MakesOver
<1>3. CASE Reset /\ ~src.intact
  <2>1. UNCHANGED <<src, state, wreck, kills>> /\ Fail("repository")
    BY <1>3 DEF Reset, bounds
  <2>2. QED BY <1>s, <1>c, <2>1, FailTree
<1>4. CASE Sweep
  <2>1. /\ state' = NoState /\ pc' = "record" /\ wreck' = "none" /\ pc = "sweep"
        /\ UNCHANGED <<kills, cmd, wreck>>
        /\ src' = [src EXCEPT !.litter = {}] /\ src.whole /\ src.applied = <<>>
    BY <1>4, <1>s DEF Sweep, Goto, bounds, Invalidated, Made
  <2>2. /\ src'.whole = src.whole /\ src'.applied = <<>> /\ src'.intact = src.intact
        /\ src'.litter = {}
    BY <1>s, <2>1 DEF IsTree
  <2>3. Made' BY <2>1, <2>2 DEF Made
  <2>4. Unkilled' BY <1>s, <2>1, <2>2 DEF Unkilled
  <2>5. QED BY <1>s, <1>c, <2>1, <2>3, <2>4, MakesOver
<1>5. CASE Clone /\ Fail("network")
  <2>1. UNCHANGED <<src, state, wreck, kills>> BY <1>5 DEF Clone, disk, bounds
  <2>2. QED BY <1>5, <1>s, <1>c, <2>1, FailTree
<1>6. CASE Clone /\ ~Fail("network")
  <2>1. PICK c : /\ Go("invalidate", [cmd EXCEPT !.found = c])
                 /\ c = cmd.found \/ cmd.commit = NoCommit
    BY <1>6 DEF Clone
  <2>2. cmd.commit # NoCommit => c = cmd.commit
    BY <1>6, <1>s, <2>1 DEF Clone, TreeInv, Asked, Ensuring
  <2>3. UNCHANGED <<disk, bounds>> BY <1>6 DEF Clone
  <2>4. cmd' = [cmd EXCEPT !.found = c] /\ pc' = "invalidate" BY <2>1 DEF Go
  <2>5. QED BY <1>s, <1>c, <2>2, <2>3, <2>4, GoesOn
<1>7. CASE RemoveOld \/ Publish
  <2>1. /\ state' = NoState /\ pc' \in {"publish", "record"} /\ wreck' = "none"
        /\ UNCHANGED <<kills, cmd>>
        /\ src' = NoTree \/ src' = TreeAt(cmd.found)
    BY <1>7, <1>s DEF RemoveOld, Publish, Goto, bounds, Invalidated, Made
  <2>2. src'.whole /\ src'.applied = <<>> /\ src'.intact /\ src'.litter = {}
    BY <2>1 DEF NoTree, TreeAt
  <2>3. Made' BY <2>1, <2>2 DEF Made
  <2>4. Unkilled' BY <1>s, <2>1, <2>2 DEF Unkilled
  <2>5. QED BY <1>s, <1>c, <2>1, <2>3, <2>4, MakesOver
<1>8. QED BY <1>1, <1>2, <1>3, <1>4, <1>5, <1>6, <1>7

LEMMA RecordTree == Inv /\ Record => TreeInv'
<1> SUFFICES ASSUME Inv, Record PROVE TreeInv'
  OBVIOUS
<1>s. IsCommand(cmd) /\ IsTree(src) /\ TreeInv /\ Asked /\ Unkilled
  BY DEF Inv, HonestInv, Shape, TreeInv
<1>1. /\ pc = "record" /\ UNCHANGED <<src, wreck, kills>> /\ wreck = "none"
      /\ src.head = cmd.found /\ src.whole /\ src.applied = <<>> /\ src.litter = {}
      /\ state' = [urls |-> cmd.urls, ref |-> cmd.ref, commit |-> cmd.found,
                   patches |-> IF cmd.resolving THEN <<>> ELSE cmd.patches]
  BY DEF Record, bounds, Inv, TreeInv, Made, HonestInv, Checked
<1>2. /\ cmd'.commit = cmd.found /\ cmd'.pin = cmd.pin /\ cmd'.patches = cmd.patches
      /\ cmd'.next = 1 /\ pc' = IF cmd.resolving THEN "check" ELSE "patch"
  BY <1>s, <1>1 DEF Record, Ensured, Go, IsCommand, Asked, Ensuring
<1>3. Asked'
  <2>1. cmd.pin # NoCommit => cmd.found = cmd.pin BY <1>s, <1>1 DEF Asked, Ensuring
  <2>2. QED BY <1>s, <1>2, <2>1 DEF Asked, Ensuring
<1>4. /\ state'.commit = cmd.found
      /\ state'.patches = IF cmd.resolving THEN <<>> ELSE cmd.patches
  BY <1>1
<1>5. \A series : HasFirst(series, 0)'
  <2>1. \A series : 0 \in 0..Len(series) /\ <<>> = SubSeq(series, 1, 0)
    OBVIOUS
  <2>2. QED BY <1>1, <2>1 DEF HasFirst
<1>6. Kept'
  <2>1. \E m \in Nat : HasFirst(state.patches, m)' BY <1>5
  <2>2. QED BY <1>1, <2>1 DEF Kept
<1>7. Unkilled' BY <1>s, <1>1, <1>2 DEF Unkilled
<1>8. Applying'
  <2>1. CASE cmd.resolving BY <1>2, <2>1 DEF Applying
  <2>2. CASE ~cmd.resolving
    <3>1. 1 <= 0 + 1 /\ HasFirst(cmd.patches, 0)' BY <1>2, <1>5
    <3>2. \E m \in Nat : cmd'.next <= m + 1 /\ HasFirst(cmd.patches, m)' BY <1>2, <3>1
    <3>3. QED BY <1>1, <1>2, <1>4, <2>2, <3>2 DEF Applying
  <2>3. QED BY <2>1, <2>2
<1>9. QED
  BY <1>1, <1>2, <1>3, <1>6, <1>7, <1>8
     DEF TreeInv, Made, Wrecked, Built, Clearing, FailedPatchIsRemade, GoodPatchesApply

-----------------------------------------------------------------------------
(* The patches.  A patch that is next is not behind the ones that are in   *)
(* the files.                                                              *)
LEMMA PatchIsNext ==
  ASSUME TreeAssumption, TreeInv, Patching
  PROVE  /\ cmd.patches \in PatchSets /\ cmd.patches \in Seq(Patches)
         /\ cmd.next \in 1..Len(cmd.patches) /\ Len(cmd.patches) \in Nat
         /\ \A i, j \in DOMAIN cmd.patches : cmd.patches[i] = cmd.patches[j] => i = j
         /\ wreck # "patch"
<1>1. cmd.next \in Nat \ {0} /\ cmd.next <= Len(cmd.patches)
      /\ (wreck = "patch" => cmd.patches = <<>>)
      /\ (cmd.patches \in PatchSets \/ cmd.patches = <<>>)
  BY DEF Patching, TreeInv, Applying, Asked
<1>2. cmd.patches # <<>>
  <2>1. Len(<<>>) = 0 OBVIOUS
  <2>2. QED BY <1>1, <2>1
<1>3. cmd.patches \in PatchSets BY <1>1, <1>2
<1>4. QED BY <1>1, <1>2, <1>3 DEF TreeAssumption

(* Where a patch is that the files have.                                   *)
LEMMA PlaceOf ==
  ASSUME TreeAssumption, TreeInv, Patching, NEW m \in Nat, HasFirst(cmd.patches, m),
         NEW i \in Positions(Patch)
  PROVE  i = cmd.next /\ i <= m
<1> DEFINE ps == cmd.patches
<1>1. /\ ps \in Seq(Patches) /\ cmd.next \in 1..Len(ps) /\ Len(ps) \in Nat
      /\ \A k, j \in DOMAIN ps : ps[k] = ps[j] => k = j
  BY PatchIsNext
<1>2. m \in 0..Len(ps) /\ src.applied = SubSeq(ps, 1, m) BY DEF HasFirst
<1>3. i \in 1..m /\ src.applied[i] = ps[i]
  <2>1. i \in DOMAIN src.applied BY DEF Positions
  <2>2. QED BY <1>1, <1>2, <2>1
<1>4. ps[i] = ps[cmd.next] BY <1>3 DEF Positions, Patch
<1>5. i \in DOMAIN ps /\ cmd.next \in DOMAIN ps BY <1>1, <1>2, <1>3
<1>6. i = cmd.next BY <1>1, <1>4, <1>5
<1>7. QED BY <1>3, <1>6

(* The next patch is in the files, or comes right after those that are.    *)
LEMMA SkipTree ==
  ASSUME TreeAssumption, Inv, SkipPatch
  PROVE  TreeInv'
<1>s. IsCommand(cmd) /\ TreeInv BY DEF Inv, HonestInv, Shape
<1>1. /\ pc = "patch" /\ Patching /\ ShowsApplied(Patch) /\ pc' = "patch"
      /\ cmd' = [cmd EXCEPT !.next = @ + 1] /\ UNCHANGED <<src, state, wreck, kills>>
  BY DEF SkipPatch, Patching, NextPatch, Go, disk, bounds
<1>2. /\ cmd'.commit = cmd.commit /\ cmd'.pin = cmd.pin /\ cmd'.patches = cmd.patches
      /\ cmd'.next = cmd.next + 1
  BY <1>s, <1>1 DEF IsCommand
<1>3. cmd.next \in 1..Len(cmd.patches) /\ Len(cmd.patches) \in Nat BY <1>s, <1>1, PatchIsNext
<1>4. Kept' /\ Wrecked' BY <1>s, DiskStays DEF SkipPatch
<1>5. Asked' BY <1>s, <1>1, <1>2 DEF TreeInv, Asked, Ensuring
<1>6. Unkilled' BY <1>s, <1>1 DEF TreeInv, Unkilled
<1>7. Applying'
  <2>1. /\ state.commit = src.head /\ state.commit = cmd.commit /\ state.patches = cmd.patches
        /\ wreck = "patch" => cmd.patches = <<>>
        /\ cmd.next \in Nat \ {0}
    BY <1>s, <1>1 DEF TreeInv, Applying
  <2>2. cmd'.next \in Nat \ {0} BY <1>2, <2>1
  <2>3. CASE wreck = "none"
    <3>1. PICK m \in Nat : cmd.next <= m + 1 /\ HasFirst(cmd.patches, m)
      BY <1>s, <1>1, <2>3 DEF TreeInv, Applying
    <3>2. src.whole BY <1>1, <2>3 DEF ShowsApplied, Readable
    <3>3. PICK i \in Positions(Patch) : TRUE BY <1>1 DEF ShowsApplied
    <3>4. cmd.next <= m BY <1>s, <1>1, <3>1, <3>3, PlaceOf
    <3>5. cmd'.next <= m + 1 /\ HasFirst(cmd.patches, m)'
      BY <1>1, <1>2, <1>3, <3>1, <3>4 DEF HasFirst
    <3>6. src.litter \subseteq {<<src.head, cmd.patches>>}
      BY <1>s, <1>1, <2>3 DEF TreeInv, Applying
    <3>7. QED BY <1>1, <1>2, <2>1, <2>2, <3>2, <3>5, <3>6 DEF Applying
  <2>4. CASE wreck # "none" BY <1>1, <1>2, <2>1, <2>2, <2>4 DEF Applying
  <2>5. QED BY <2>3, <2>4
<1>8. QED
  BY <1>1, <1>4, <1>5, <1>6, <1>7
     DEF TreeInv, Made, Built, Clearing, FailedPatchIsRemade, GoodPatchesApply

LEMMA ApplyTree ==
  ASSUME TreeAssumption, Inv, ApplyPatch
  PROVE  TreeInv'
<1>s. IsCommand(cmd) /\ IsTree(src) /\ TreeInv BY DEF Inv, HonestInv, Shape
<1> DEFINE ps == cmd.patches
<1>1. /\ pc = "patch" /\ Patching /\ Applies(Patch) /\ pc' = "patch"
      /\ cmd' = [cmd EXCEPT !.next = @ + 1] /\ UNCHANGED <<state, wreck, kills>>
      /\ src' = [src EXCEPT !.applied = Append(@, Patch)]
  BY DEF ApplyPatch, Patching, NextPatch, Go, bounds
<1>2. /\ cmd'.commit = cmd.commit /\ cmd'.pin = cmd.pin /\ cmd'.patches = ps
      /\ cmd'.next = cmd.next + 1
      /\ src'.head = src.head /\ src'.whole = src.whole /\ src'.intact = src.intact
      /\ src'.litter = src.litter /\ src'.applied = Append(src.applied, Patch)
  BY <1>s, <1>1 DEF IsCommand, IsTree
<1>3. ps \in Seq(Patches) /\ cmd.next \in 1..Len(ps) /\ Len(ps) \in Nat /\ wreck # "patch"
  BY <1>s, <1>1, PatchIsNext
<1>4. /\ state.commit = src.head /\ state.commit = cmd.commit /\ state.patches = ps
      /\ cmd.next \in Nat \ {0}
  BY <1>s, <1>1 DEF TreeInv, Applying
<1>n. PICK n \in Nat : n = cmd.next BY <1>3
<1>5. ASSUME wreck = "none"
      PROVE  src.whole /\ HasFirst(cmd.patches, n)' /\ HasFirst(state.patches, n)'
  <2>1. PICK m \in Nat : cmd.next <= m + 1 /\ HasFirst(ps, m)
    BY <1>s, <1>1, <1>5 DEF TreeInv, Applying
  <2>2. m \in 0..Len(ps) /\ src.applied = SubSeq(ps, 1, m) BY <2>1 DEF HasFirst
  <2>3. ~(cmd.next <= m)
    <3>1. SUFFICES ASSUME cmd.next <= m PROVE FALSE
      OBVIOUS
    <3>2. cmd.next \in DOMAIN src.applied /\ src.applied[cmd.next] = ps[cmd.next]
      BY <1>3, <2>2, <3>1
    <3>3. cmd.next \in Positions(Patch) BY <3>2 DEF Positions, Patch
    <3>4. QED BY <1>1, <3>3 DEF Applies
  <2>4. m = cmd.next - 1 BY <1>3, <2>1, <2>3
  <2>5. Append(SubSeq(ps, 1, cmd.next - 1), ps[cmd.next]) = SubSeq(ps, 1, cmd.next)
    BY <1>3
  <2>6. src'.applied = SubSeq(ps, 1, cmd.next) BY <1>2, <2>2, <2>4, <2>5 DEF Patch
  <2>7. src.whole BY <1>1, <1>5 DEF Applies, Readable
  <2>8. QED BY <1>1, <1>2, <1>3, <1>4, <1>n, <2>6, <2>7 DEF HasFirst
<1>6. Kept'
  <2>1. CASE state # NoState /\ src.head = state.commit /\ wreck = "none"
    <3>1. src.litter \subseteq {<<state.commit, state.patches>>}
      BY <1>s, <2>1 DEF TreeInv, Kept
    <3>2. \E m \in Nat : HasFirst(state.patches, m)' BY <1>5, <2>1
    <3>3. QED BY <1>1, <1>2, <1>5, <2>1, <3>1, <3>2 DEF Kept
  <2>2. CASE ~(state # NoState /\ src.head = state.commit /\ wreck = "none")
    BY <1>1, <1>2, <2>2 DEF Kept
  <2>3. QED BY <2>1, <2>2
<1>7. Wrecked' BY <1>s, <1>1 DEF TreeInv, Wrecked
<1>8. Applying'
  <2>1. cmd'.next \in Nat \ {0} BY <1>2, <1>4
  <2>2. CASE wreck = "none"
    <3>1. cmd'.next <= n + 1 BY <1>2, <1>n
    <3>2. \E m \in Nat : cmd'.next <= m + 1 /\ HasFirst(cmd.patches, m)' BY <1>5, <2>2, <3>1
    <3>3. src.litter \subseteq {<<src.head, ps>>} BY <1>s, <1>1, <2>2 DEF TreeInv, Applying
    <3>4. QED BY <1>1, <1>2, <1>3, <1>4, <1>5, <2>1, <2>2, <3>2, <3>3 DEF Applying
  <2>3. CASE wreck # "none" BY <1>1, <1>2, <1>3, <1>4, <2>1, <2>3 DEF Applying
  <2>4. QED BY <2>2, <2>3
<1>9. Asked' BY <1>s, <1>1, <1>2 DEF TreeInv, Asked, Ensuring
<1>10. Unkilled' BY <1>s, <1>1, <1>2 DEF TreeInv, Unkilled
<1>11. QED
  BY <1>1, <1>6, <1>7, <1>8, <1>9, <1>10
     DEF TreeInv, Made, Built, Clearing, FailedPatchIsRemade, GoodPatchesApply

(* A patch that neither shows as applied nor applies is bad, or a later one*)
(* has hidden it.                                                          *)
LEMMA FailureHasReason ==
  ASSUME TreeAssumption, TreeInv, Patching, src.whole, src.intact, wreck = "none",
         ~ShowsApplied(Patch), ~Applies(Patch)
  PROVE  Reason
<1> DEFINE ps == cmd.patches
<1>1. ps \in Seq(Patches) /\ cmd.next \in 1..Len(ps) /\ Len(ps) \in Nat
  BY PatchIsNext
<1>2. Patch \in Bad \/ Positions(Patch) # {} BY DEF Applies, Readable
<1>3. CASE Patch \in Bad BY <1>1, <1>3 DEF Reason, Patch
<1>4. CASE Positions(Patch) # {}
  <2>1. PICK m \in Nat : HasFirst(ps, m) BY DEF Patching, TreeInv, Applying
  <2>2. PICK i : i \in Positions(Patch) BY <1>4
  <2>3. PICK j \in (i + 1)..Len(src.applied) : <<Patch, src.applied[j]>> \in Masks
    BY <2>2 DEF ShowsApplied, Readable
  <2>4. i = cmd.next /\ i <= m BY <2>1, <2>2, PlaceOf
  <2>5. m \in 0..Len(ps) /\ src.applied = SubSeq(ps, 1, m) BY <2>1 DEF HasFirst
  <2>6. Len(src.applied) = m BY <1>1, <2>5
  <2>7. j \in 1..Len(ps) /\ i < j /\ src.applied[j] = ps[j]
    BY <1>1, <2>3, <2>4, <2>5, <2>6
  <2>8. i \in DOMAIN ps /\ j \in DOMAIN ps /\ Patch = ps[i] BY <1>1, <2>4, <2>7 DEF Patch
  <2>9. QED BY <2>3, <2>7, <2>8 DEF Reason
<1>5. QED BY <1>2, <1>3, <1>4

LEMMA PatchFailsTree ==
  ASSUME TreeAssumption, Inv, PatchFails
  PROVE  TreeInv'
<1>s. IsCommand(cmd) /\ IsTree(src) /\ TreeInv BY DEF Inv, HonestInv, Shape
<1>1. /\ pc = "patch" /\ Patching /\ pc' = "clear" /\ UNCHANGED <<cmd, state, wreck, kills>>
      /\ wreck = "removal" \/ (~ShowsApplied(Patch) /\ ~Applies(Patch))
  BY DEF PatchFails, Patching, Goto, bounds
<1>2. PICK whole \in {src.whole, FALSE} : src' = [src EXCEPT !.whole = whole]
  BY DEF PatchFails
<1>3. /\ src'.head = src.head /\ src'.intact = src.intact /\ src'.litter = src.litter
      /\ src'.applied = src.applied
  BY <1>s, <1>2 DEF IsTree
<1>4. cmd.patches # <<>> /\ wreck # "patch"
  <2>1. cmd.next \in 1..Len(cmd.patches) /\ wreck # "patch" BY <1>s, <1>1, PatchIsNext
  <2>2. QED BY <2>1
<1>5. state.patches = cmd.patches BY <1>s, <1>1 DEF TreeInv, Applying
<1>6. Kept' BY <1>s, <1>1, <1>3, <1>4, <1>5 DEF TreeInv, Kept, HasFirst
<1>7. Wrecked' BY <1>s, <1>1 DEF TreeInv, Wrecked
<1>8. Asked' BY <1>s, <1>1 DEF TreeInv, Asked, Ensuring
<1>9. Unkilled' BY <1>s, <1>1, <1>3 DEF TreeInv, Unkilled
<1>10. kills = 0 => Reason
  <2>1. SUFFICES ASSUME kills = 0 PROVE Reason
    OBVIOUS
  <2>2. src.intact /\ wreck # "removal" /\ (wreck = "none" => src.whole)
    BY <1>s, <1>1, <2>1 DEF TreeInv, Unkilled
  <2>3. wreck = "none" BY <1>s, <1>4, <2>2 DEF TreeInv, Wrecked
  <2>4. QED BY <1>s, <1>1, <2>2, <2>3, FailureHasReason
<1>11. Clearing' BY <1>1, <1>4, <1>10 DEF Clearing, Reason
<1>12. QED
  BY <1>1, <1>6, <1>7, <1>8, <1>9, <1>11
     DEF TreeInv, Made, Applying, Built, FailedPatchIsRemade, GoodPatchesApply

LEMMA ClearTree == Inv /\ ClearPatchState => TreeInv'
<1> SUFFICES ASSUME Inv, ClearPatchState PROVE TreeInv'
  OBVIOUS
<1>s. IsCommand(cmd) /\ TreeInv /\ (state # NoState => IsState(state))
  BY DEF Inv, HonestInv, Shape
<1>1. /\ pc = "clear" /\ pc' = "failed" /\ cmd' = [cmd EXCEPT !.why = "patch"]
      /\ UNCHANGED <<src, kills>> /\ wreck' = IF wreck = "removal" THEN wreck ELSE "patch"
      /\ state' = IF state = NoState THEN NoState ELSE [state EXCEPT !.patches = <<>>]
  BY DEF ClearPatchState, Fail, Go, bounds
<1>2. /\ cmd'.pin = cmd.pin /\ cmd'.commit = cmd.commit /\ cmd'.patches = cmd.patches
  BY <1>s, <1>1 DEF IsCommand
<1>3. state' = NoState \/ state'.patches = <<>>
  <2>1. CASE state = NoState BY <1>1, <2>1
  <2>2. CASE state # NoState BY <1>s, <1>1, <2>2 DEF IsState
  <2>3. QED BY <2>1, <2>2
<1>4. cmd.patches # <<>> /\ (kills = 0 => Reason) BY <1>s, <1>1 DEF TreeInv, Clearing
<1>5. Kept' /\ Wrecked' BY <1>s, <1>1, <1>3 DEF TreeInv, Kept, Wrecked
<1>6. Asked' BY <1>s, <1>1, <1>2 DEF TreeInv, Asked, Ensuring
<1>7. Unkilled' BY <1>s, <1>1 DEF TreeInv, Unkilled
<1>8. FailedPatchIsRemade' BY <1>2, <1>3, <1>4 DEF FailedPatchIsRemade
<1>9. GoodPatchesApply' BY <1>1, <1>2, <1>4 DEF GoodPatchesApply, Reason
<1>10. QED
  BY <1>1, <1>5, <1>6, <1>7, <1>8, <1>9 DEF TreeInv, Made, Applying, Built, Clearing

(* When the last patch is in the files, all are.                           *)
LEMMA CompileTree ==
  ASSUME TreeAssumption, Inv, Compile
  PROVE  TreeInv'
<1>s. IsCommand(cmd) /\ IsTree(src) /\ TreeInv BY DEF Inv, HonestInv, Shape
<1> DEFINE ps == cmd.patches
<1>1. /\ pc = "patch" /\ cmd.next > Len(ps) /\ pc' = "built"
      /\ UNCHANGED <<cmd, state, wreck, kills>>
      /\ src' = [src EXCEPT !.litter = @ \cup {<<src.head, src.applied>>}]
  BY DEF Compile, Goto, bounds
<1>2. /\ src'.head = src.head /\ src'.intact = src.intact /\ src'.whole = src.whole
      /\ src'.applied = src.applied
      /\ src'.litter = src.litter \cup {<<src.head, src.applied>>}
  BY <1>s, <1>1 DEF IsTree
<1>3. /\ state.commit = src.head /\ state.commit = cmd.commit /\ state.patches = ps
      /\ cmd.next \in Nat \ {0}
      /\ wreck = "patch" => ps = <<>>
  BY <1>s, <1>1 DEF TreeInv, Applying
<1>4. ps \in Seq(Patches)
  <2>1. ps \in PatchSets \/ ps = <<>> BY <1>s DEF TreeInv, Asked
  <2>2. \A series \in PatchSets : series \in Seq(Patches) BY DEF TreeAssumption
  <2>3. <<>> \in Seq(Patches) OBVIOUS
  <2>4. QED BY <2>1, <2>2, <2>3
<1>5. ASSUME wreck = "none"
      PROVE  src.whole /\ src.applied = ps
  <2>1. PICK m \in Nat : cmd.next <= m + 1 /\ HasFirst(ps, m)
    BY <1>s, <1>1, <1>5 DEF TreeInv, Applying
  <2>2. Len(ps) \in Nat BY <1>4
  <2>3. m = Len(ps)
    <3>1. m \in 0..Len(ps) /\ cmd.next <= m + 1 BY <2>1 DEF HasFirst
    <3>2. cmd.next > Len(ps) /\ cmd.next \in Nat BY <1>1, <1>3
    <3>3. QED BY <2>2, <3>1, <3>2
  <2>4. SubSeq(ps, 1, Len(ps)) = ps BY <1>4
  <2>5. src.applied = ps BY <2>1, <2>3, <2>4 DEF HasFirst
  <2>6. src.whole \/ (cmd.next = 1 /\ ps # <<>>) BY <1>s, <1>1, <1>5 DEF TreeInv, Applying
  <2>7. ~(cmd.next = 1 /\ ps # <<>>) BY <1>1, <1>4
  <2>8. QED BY <2>5, <2>6, <2>7
<1>6. Kept'
  <2>1. CASE state # NoState /\ wreck = "none"
    <3>1. /\ src.litter \subseteq {<<state.commit, state.patches>>}
          /\ \E m \in Nat : HasFirst(state.patches, m)
      BY <1>s, <1>3, <2>1 DEF TreeInv, Kept
    <3>2. src'.litter \subseteq {<<state.commit, state.patches>>} BY <1>2, <1>3, <1>5, <2>1, <3>1
    <3>3. \E m \in Nat : HasFirst(state.patches, m)' BY <1>1, <1>2, <3>1 DEF HasFirst
    <3>4. QED BY <1>1, <1>2, <1>5, <2>1, <3>2, <3>3 DEF Kept
  <2>2. CASE ~(state # NoState /\ wreck = "none") BY <1>1, <2>2 DEF Kept
  <2>3. QED BY <2>1, <2>2
<1>7. Wrecked' BY <1>s, <1>1 DEF TreeInv, Wrecked
<1>8. Built'
  <2>1. SUFFICES ASSUME ~Untold PROVE Built'
    BY <1>1 DEF Built, Untold
  <2>2. wreck = "none" BY <1>s, <1>3, <2>1 DEF Untold, TreeInv, Wrecked
  <2>3. src.litter \subseteq {<<cmd.commit, ps>>}
    BY <1>s, <1>1, <1>3, <2>2 DEF TreeInv, Applying
  <2>4. QED BY <1>1, <1>2, <1>3, <1>5, <2>2, <2>3 DEF Built
<1>9. Asked' BY <1>s, <1>1 DEF TreeInv, Asked, Ensuring
<1>10. Unkilled' BY <1>s, <1>1, <1>2 DEF TreeInv, Unkilled
<1>11. QED
  BY <1>1, <1>6, <1>7, <1>8, <1>9, <1>10
     DEF TreeInv, Made, Applying, Clearing, FailedPatchIsRemade, GoodPatchesApply

-----------------------------------------------------------------------------
(* The commands that delete the tree, and the kills.                       *)
LEMMA RemoveTree == Inv /\ Remove => TreeInv'
<1> SUFFICES ASSUME Inv, Remove PROVE TreeInv'
  OBVIOUS
<1>s. TreeInv BY DEF Inv
<1>1. /\ pc \in {"unsource", "unstate", "unroot"} /\ pc' \in {"unstate", "cleaned"}
      /\ UNCHANGED <<cmd, kills>>
      /\ src' = src \/ src' = NoTree
      /\ state' = state \/ state' = NoState
      /\ wreck' = wreck \/ (wreck' = "none" /\ src' = NoTree)
      /\ (src' = src /\ state' = NoState) \/ (src' = NoTree /\ wreck' = "none")
  BY DEF Remove, CleanMaterializedSource, RemoveState, CleanSource, Goto, bounds
<1>2. Kept'
  <2>1. CASE state' = NoState BY <2>1 DEF Kept
  <2>2. CASE src' = NoTree
    <3>1. src'.litter = {} /\ src'.applied = <<>> /\ src'.whole BY <2>2 DEF NoTree
    <3>2. 0 \in 0..Len(state'.patches) /\ <<>> = SubSeq(state'.patches, 1, 0)
      OBVIOUS
    <3>3. \E m \in Nat : HasFirst(state.patches, m)' BY <3>1, <3>2 DEF HasFirst
    <3>4. QED BY <3>1, <3>3 DEF Kept
  <2>3. QED BY <1>1, <2>1, <2>2
<1>3. Wrecked' BY <1>s, <1>1 DEF TreeInv, Wrecked
<1>4. Asked' BY <1>s, <1>1 DEF TreeInv, Asked, Ensuring
<1>5. Unkilled' BY <1>s, <1>1 DEF TreeInv, Unkilled, NoTree
<1>6. QED
  BY <1>1, <1>2, <1>3, <1>4, <1>5
     DEF TreeInv, Made, Applying, Built, Clearing, FailedPatchIsRemade, GoodPatchesApply

LEMMA KillsTree ==
  ASSUME TreeAssumption, Inv, Kills
  PROVE  TreeInv'
<1>s. TreeInv /\ IsTree(src) /\ Invalidated BY DEF Inv, HonestInv, Shape
<1>1. pc' = "idle" /\ cmd' = Idle /\ kills' = kills + 1
  BY DEF Kills, Kill, KillGit, KillRemoval, KillClean, Killed, Go
<1>2. Idle.patches = <<>> /\ Idle.pin = NoCommit BY DEF Idle, Request
<1>3. Asked' BY <1>1, <1>2 DEF Asked, Ensuring
<1>4. Unkilled' BY <1>s, <1>1 DEF TreeInv, Unkilled
<1>5. Kept' /\ Wrecked'
  <2>1. CASE Kill BY <1>s, <2>1, DiskStays DEF Kill
  <2>2. CASE KillGit
    <3>1. src' \in Damaged /\ UNCHANGED <<state, wreck>> BY <2>2 DEF KillGit
    <3>2. src'.head = src.head /\ src'.applied = src.applied /\ src'.litter = src.litter
      BY <1>s, <3>1 DEF Damaged, IsTree
    <3>3. pc = "reset" \/ Patching BY <2>2 DEF KillGit
    <3>4. CASE pc = "reset"
      <4>1. state = NoState BY <1>s, <3>4 DEF Invalidated
      <4>2. QED BY <1>s, <3>1, <4>1 DEF TreeInv, Kept, Wrecked
    <3>5. CASE Patching
      <4>1. cmd.next \in 1..Len(cmd.patches) BY <1>s, <3>5, PatchIsNext
      <4>2. state.patches = cmd.patches BY <1>s, <3>5 DEF Patching, TreeInv, Applying
      <4>3. state.patches # <<>>
        <5>1. Len(<<>>) = 0 OBVIOUS
        <5>2. QED BY <4>1, <4>2, <5>1
      <4>4. QED BY <1>s, <3>1, <3>2, <4>3 DEF TreeInv, Kept, Wrecked, HasFirst
    <3>6. QED BY <3>3, <3>4, <3>5
  <2>3. CASE KillRemoval
    <3>1. CASE pc = "remove"
      <4>1. state' = NoState /\ UNCHANGED wreck
        BY <1>s, <2>3, <3>1 DEF KillRemoval, Invalidated
      <4>2. QED BY <1>s, <4>1 DEF TreeInv, Kept, Wrecked
    <3>2. CASE pc = "unsource"
      <4>1. wreck' = "removal" BY <2>3, <3>2 DEF KillRemoval
      <4>2. QED BY <4>1 DEF Kept, Wrecked
    <3>3. QED BY <2>3, <3>1, <3>2 DEF KillRemoval
  <2>4. CASE KillClean
    <3>1. wreck' = "removal" BY <2>4 DEF KillClean
    <3>2. QED BY <3>1 DEF Kept, Wrecked
  <2>5. QED BY <2>1, <2>2, <2>3, <2>4 DEF Kills
<1>6. QED
  BY <1>1, <1>3, <1>4, <1>5
     DEF TreeInv, Made, Applying, Built, Clearing, FailedPatchIsRemade, GoodPatchesApply

LEMMA StepTree == TreeAssumption /\ Inv /\ [Next]_vars => Inv'
<1> SUFFICES ASSUME TreeAssumption, Inv, [Next]_vars PROVE Inv'
  OBVIOUS
<1>1. HonestInv' BY StepHonest DEF Inv
<1>2. TreeInv'
  <2>1. CASE UNCHANGED vars
    BY <2>1 DEF vars, disk, bounds, Inv, TreeInv, Asked, Made, Kept, HasFirst, Wrecked, Applying,
                Built, Untold, Unkilled, Reason, Clearing, FailedPatchIsRemade, GoodPatchesApply
  <2>2. CASE Move BY <2>2, MoveTree DEF Inv
  <2>3. CASE Build BY <2>3, BuildTree DEF Inv
  <2>4. CASE Link \/ Clean BY <2>4, CleanTree DEF Inv
  <2>5. CASE Ensure BY <2>5, CheckTree, MaterializeTree, RecordTree DEF Ensure
  <2>6. CASE Apply
    BY <2>6, SkipTree, ApplyTree, PatchFailsTree, ClearTree, CompileTree DEF Apply
  <2>7. CASE Remove BY <2>7, RemoveTree
  <2>8. CASE Kills BY <2>8, KillsTree
  <2>9. QED BY <2>1, <2>2, <2>3, <2>4, <2>5, <2>6, <2>7, <2>8 DEF Next
<1>3. QED BY <1>1, <1>2 DEF Inv

(* The invariant of the tree holds in every state, whatever is killed.     *)
THEOREM Invariant == Spec => []Inv
<1>1. Init => Inv BY InitHonest, InitTree DEF Inv
<1>2. Inv /\ [Next]_vars => Inv' BY StepTree, TreeAssumption
<1>3. QED BY <1>1, <1>2, PTL DEF Spec

(* A build compiles the commit it reports, the locked one if there is one, *)
(* with all its files and exactly the patches of the script, after any     *)
(* commands, failures and kills (EnsureSource, materialize and             *)
(* applyPatchesFor), but for the two ways Untold names.                    *)
THEOREM BuildsWhatIsAsked == Spec => []BuiltIsAsked
<1>1. Inv => BuiltIsAsked
  BY DEF Inv, TreeInv, Asked, Built, BuiltIsAsked, BuiltIsWhatWasAsked
<1>2. QED BY <1>1, Invariant, PTL

(* No file of another build is compiled, a tree with a failed patch is     *)
(* remade, and without kills only a bad patch, or one that hides another,  *)
(* fails a build (restoreTree, applyPatchesFor, applyPatchesContext).      *)
THEOREM TreesAreSound == Spec => []TreeIsSound
<1>1. Inv => TreeIsSound
  BY DEF Inv, TreeInv, Built, TreeIsSound, NoForeignLitter
<1>2. QED BY <1>1, Invariant, PTL

-----------------------------------------------------------------------------
(* MemberTrees.  The state files are true of the trees, and what a build   *)
(* has done of its plan has been done in order.                            *)
(* The types: patches are those of packages that have some.                *)
SourceStates ==
  [head : Heads \cup {NoHead}, whole : SUBSET Patched, part : SUBSET Patched, failed : BOOLEAN]
RecordStates == [commit : Heads, hash : SUBSET Packages]

TreesType ==
  /\ sources \in [Roots -> SourceStates] /\ records \in [Roots -> RecordStates \cup {NoRecord}]
  /\ heads \in [Nested \cup Locals -> Heads]
  /\ linked \in BOOLEAN /\ dir \in [Locals -> {"none", "users", "link"}] /\ spoiled = {}

IsAsked(c) ==
  /\ c = [needed |-> c.needed, commit |-> c.commit, refresh |-> c.refresh]
  /\ c.commit \in [Packages -> Heads \cup {NoHead}] /\ c.refresh \in BOOLEAN

CommandType ==
  /\ at \in {"idle", "run", "built"} /\ got \in [Packages -> Heads \cup {NoHead}]
  /\ IsAsked(asked)
  /\ at # "idle" =>
       /\ asked.needed \in Needs /\ asked.commit[Owner] # NoHead
       /\ \A p \in Sharers : asked.commit[p] = NoHead
       /\ todo \subseteq Plan(asked.needed)
  /\ at = "built" => todo = {}

(* A state file speaks of the commit of the tree and of its patches, and of*)
(* none where one has failed.                                              *)
TreesInv ==
  \A r \in Roots :
    /\ sources[r].part # {} => sources[r].failed
    /\ records[r] # NoRecord =>
         /\ sources[r].head = records[r].commit
         /\ IF sources[r].failed THEN records[r].hash = {} ELSE sources[r].whole \subseteq records[r].hash

(* Nothing is done before what goes before it.                             *)
InPhase ==
  at # "idle" => \A t \in Plan(asked.needed), u \in todo : Phase(u) < Phase(t) => t \in todo

(* The tree of a package is what the build asks for, and stays so; links   *)
(* and patches that are done stay done.                                    *)
IsMade(p) ==
  LET r == TreeRootFor(p) IN
  /\ records[r] # NoRecord
  /\ records[r].hash = TreePatchHash(p) /\ records[r].commit = got[p]
  /\ asked.commit[p] # NoHead => got[p] = asked.commit[p]

MadeInv ==
  at # "idle" =>
    /\ \A p \in asked.needed \ Sharers : ~IsUsers(p) /\ <<"ensure", p>> \notin todo => IsMade(p)
    /\ \A p \in asked.needed \cap Locals : <<"link", p>> \notin todo => dir[p] = "link"
    /\ \A p \in asked.needed \cap Patched :
         ~IsUsers(p) /\ <<"patch", p>> \notin todo => p \in sources[TreeRootFor(p)].whole

MembersInv == TreesType /\ CommandType /\ TreesInv /\ InPhase /\ MadeInv

-----------------------------------------------------------------------------
LEMMA MembersInitHolds == MembersInit => MembersInv
<1> SUFFICES ASSUME MembersInit PROVE MembersInv OBVIOUS
<1> USE DEF MembersInit
<1>1. NoSource \in SourceStates BY DEF NoSource, SourceAt, SourceStates
<1>2. /\ sources \in [Roots -> SourceStates] /\ records \in [Roots -> RecordStates \cup {NoRecord}]
      /\ \A r \in Roots : sources[r] = NoSource /\ records[r] = NoRecord
  BY <1>1
<1>3. TreesType BY <1>2 DEF TreesType
<1>4. TreesInv BY <1>2 DEF TreesInv, NoSource, SourceAt
<1>5. IsAsked(asked) BY DEF IsAsked, NoCommand
<1>6. CommandType BY <1>5 DEF CommandType
<1> QED BY <1>3, <1>4, <1>6 DEF MembersInv, InPhase, MadeInv

(* What phase a step is in; where the trees are: no two packages but those *)
(* that share one have the same.                                           *)
LEMMA PhaseOf ==
  ASSUME MemberAssumption
  PROVE  /\ \A t : Phase(t) \in Nat /\ Phase(t) >= 1 /\ Phase(t) <= 6
         /\ \A p : Phase(<<"resolve", p>>) = 1
         /\ \A p : Phase(<<"ensure", p>>) >= 2 /\ Phase(<<"ensure", p>>) <= 4
         /\ \A p \in Nested : Phase(<<"ensure", p>>) = 4
         /\ \A p : Phase(<<"link", p>>) = 5
         /\ \A p : Phase(<<"patch", p>>) = 6
         /\ Phase(<<"ensure", Owner>>) = 3
BY DEF Phase, MemberAssumption

LEMMA RootFacts ==
  ASSUME MemberAssumption, NEW p \in Packages
  PROVE  /\ TreeRootFor(p) \in Roots
         /\ p \in Nested \cup Locals => TreeRootFor(p)[1] = p
         /\ TreeRootFor(p) \in Inside => p \in Nested
         /\ p \notin Sharers /\ TreeRootFor(p) = Root(Owner) => p = Owner
         /\ \A q \in Packages : p \notin Sharers /\ q \notin Sharers /\ TreeRootFor(p) = TreeRootFor(q) => p = q
<1>1. Owner \in Packages \ Sharers /\ Nested \subseteq Packages \ Sharers /\ Locals \subseteq Packages \ Sharers
  BY DEF Packages, MemberAssumption
<1>2. \A q, x : Root(q) # Apart(x) /\ (Root(q) = Root(x) => q = x) /\ (Apart(q) = Apart(x) => q = x)
               /\ Root(q)[1] = q /\ Apart(q)[1] = q
  BY DEF Root, Apart
<1>3. TreeRootFor(p) \in Roots BY <1>1 DEF TreeRootFor, Roots
<1>4. p \in Nested \cup Locals => TreeRootFor(p)[1] = p
  BY <1>1, <1>2 DEF TreeRootFor
<1>5. TreeRootFor(p) \in Inside => p \in Nested
  BY <1>1, <1>2 DEF TreeRootFor, Inside, MemberAssumption
<1>6. p \notin Sharers /\ TreeRootFor(p) = Root(Owner) => p = Owner
  BY <1>2 DEF TreeRootFor
<1>7. \A q \in Packages : p \notin Sharers /\ q \notin Sharers /\ TreeRootFor(p) = TreeRootFor(q) => p = q
  BY <1>2 DEF TreeRootFor
<1> QED BY <1>3, <1>4, <1>5, <1>6, <1>7

(* The package whose tree has the sources of p.                            *)
OwnerOf(p) == IF p \in Sharers THEN Owner ELSE p

LEMMA OwnerFacts ==
  ASSUME MemberAssumption, CommandType, at # "idle", NEW p \in asked.needed, ~IsUsers(p)
  PROVE  /\ OwnerOf(p) \in asked.needed \ Sharers /\ p \in Packages /\ OwnerOf(p) \in Packages
         /\ ~IsUsers(OwnerOf(p)) /\ TreeRootFor(OwnerOf(p)) = TreeRootFor(p)
         /\ <<"ensure", OwnerOf(p)>> \in Plan(asked.needed)
         /\ p \in Patched => p \in TreePatchHash(OwnerOf(p))
         /\ TreePatchHash(OwnerOf(p)) \subseteq asked.needed
<1>1. asked.needed \subseteq Packages /\ (asked.needed \cap (Sharers \cup Nested) # {} => Owner \in asked.needed)
  BY DEF CommandType, MemberAssumption
<1>2. OwnerOf(p) \in asked.needed \ Sharers /\ p \in Packages /\ OwnerOf(p) \in Packages
  BY <1>1 DEF OwnerOf, MemberAssumption
<1>3. ~IsUsers(OwnerOf(p)) BY DEF OwnerOf, IsUsers, MemberAssumption
<1>4. TreeRootFor(OwnerOf(p)) = TreeRootFor(p) BY DEF OwnerOf, TreeRootFor, MemberAssumption
<1>5. OwnerOf(p) = Owner => ~linked BY <1>3 DEF IsUsers
<1>6. OwnerOf(p) \in Locals \cup {Owner} \cup Nested BY <1>2 DEF Packages
<1>7. <<"ensure", OwnerOf(p)>> \in Plan(asked.needed) BY <1>2, <1>5, <1>6 DEF Plan
<1>8. p \in Patched => p \in TreePatchHash(OwnerOf(p))
  BY DEF OwnerOf, TreePatchHash, MemberAssumption
<1>9. TreePatchHash(OwnerOf(p)) \subseteq asked.needed
  BY <1>2 DEF TreePatchHash
<1> QED BY <1>2, <1>3, <1>4, <1>7, <1>8, <1>9

LEMMA EndStep == ASSUME MembersInv, End PROVE CommandType' /\ InPhase' /\ MadeInv'
<1>1. at' = "idle" /\ asked' = NoCommand /\ got' = [p \in Packages |-> NoHead] BY DEF End
<1>2. IsAsked(asked') BY <1>1 DEF IsAsked, NoCommand
<1>3. CommandType' BY <1>1, <1>2 DEF CommandType
<1> QED BY <1>1, <1>3 DEF InPhase, MadeInv

LEMMA TreesStay ==
  ASSUME TreesType, TreesInv, UNCHANGED <<sources, records>>
  PROVE  /\ sources' \in [Roots -> SourceStates] /\ records' \in [Roots -> RecordStates \cup {NoRecord}]
         /\ TreesInv'
BY DEF TreesType, TreesInv

LEMMA DoneStep ==
  ASSUME MemberAssumption, MembersInv, NEW step, NEW p, AtStep(step, p), Done(step, p), linked' = linked,
         got' \in [Packages -> Heads \cup {NoHead}]
  PROVE  CommandType' /\ InPhase' /\ todo' = todo \ {<<step, p>>} /\ at' = "run" /\ asked' = asked
<1>1. /\ at = "run" /\ at' = "run" /\ asked' = asked /\ todo' = todo \ {<<step, p>>}
      /\ \A u \in todo : Phase(<<step, p>>) <= Phase(u)
  BY DEF AtStep, Done
<1>2. Plan(asked.needed)' = Plan(asked.needed) BY <1>1 DEF Plan
<1>3. CommandType' BY <1>1, <1>2 DEF CommandType, IsAsked, MembersInv
<1>4. InPhase'
  <2> SUFFICES ASSUME NEW t \in Plan(asked.needed), NEW u \in todo', Phase(u) < Phase(t) PROVE t \in todo'
    BY <1>1, <1>2 DEF InPhase, Phase
  <2>1. u \in todo /\ Phase(<<step, p>>) <= Phase(u) BY <1>1
  <2>2. t \in todo BY <1>1, <2>1 DEF MembersInv, InPhase
  <2>3. Phase(<<step, p>>) < Phase(t) BY <2>1, PhaseOf
  <2>4. t # <<step, p>>
    <3> SUFFICES ASSUME t = <<step, p>> PROVE FALSE OBVIOUS
    <3>1. Phase(t) = Phase(<<step, p>>) OBVIOUS
    <3> QED BY <3>1, <2>3, PhaseOf
  <2> QED BY <2>2, <2>4, <1>1
<1> QED BY <1>1, <1>3, <1>4

(* A tree made anew has no patches; what the state files say is true.      *)
LEMMA MakesTree ==
  ASSUME TreesType, TreesInv, NEW r \in Roots, NEW c \in Heads \cup {NoHead}, NEW s \in RecordStates \cup {NoRecord},
         s # NoRecord => s.commit = c,
         sources' = Sources(r, c), records' = Records(r, s)
  PROVE  /\ sources' \in [Roots -> SourceStates] /\ records' \in [Roots -> RecordStates \cup {NoRecord}]
         /\ TreesInv' /\ records'[r] = s
         /\ \A q \in Roots : q # r /\ ~(r = Root(Owner) /\ q \in Inside) =>
              sources'[q] = sources[q] /\ records'[q] = records[q]
<1>1. SourceAt(c) \in SourceStates /\ NoSource \in SourceStates
      /\ (SourceAt(c).part = {} /\ SourceAt(c).whole = {} /\ SourceAt(c).head = c /\ SourceAt(c).failed = FALSE)
      /\ NoSource.part = {}
  BY DEF SourceAt, NoSource, SourceStates
<1>2. /\ sources' \in [Roots -> SourceStates] /\ records' \in [Roots -> RecordStates \cup {NoRecord}]
  BY <1>1 DEF Sources, Records, TreesType
<1>3. /\ sources'[r] = SourceAt(c) /\ records'[r] = s
      /\ \A q \in Roots : q # r =>
           \/ sources'[q] = sources[q] /\ records'[q] = records[q] /\ ~(r = Root(Owner) /\ q \in Inside)
           \/ sources'[q] \in {sources[q], NoSource} /\ records'[q] = NoRecord /\ r = Root(Owner) /\ q \in Inside
  BY DEF Sources, Records
<1>4. TreesInv'
  <2> SUFFICES ASSUME NEW q \in Roots
               PROVE  /\ sources'[q].part # {} => sources'[q].failed
                      /\ records'[q] # NoRecord =>
                           /\ sources'[q].head = records'[q].commit
                           /\ IF sources'[q].failed THEN records'[q].hash = {}
                              ELSE sources'[q].whole \subseteq records'[q].hash
    BY DEF TreesInv
  <2>1. CASE q = r BY <2>1, <1>1, <1>3
  <2>2. CASE q # r BY <2>2, <1>1, <1>3 DEF TreesInv
  <2> QED BY <2>1, <2>2
<1> QED BY <1>2, <1>3, <1>4

LEMMA EnsureStep ==
  ASSUME MemberAssumption, MembersInv, NEW p \in Packages \ Sharers, NEW resolving \in BOOLEAN, NEW hash \in SUBSET Packages,
         AtStep(IF resolving THEN "resolve" ELSE "ensure", p),
         EnsureSource(p, TreeRootFor(p), asked.commit[p], hash, resolving),
         ~resolving => hash = TreePatchHash(p),
         UNCHANGED <<heads, linked, dir, spoiled, buildBounds>>
  PROVE  MembersInv'
<1> USE DEF MembersInv
<1> DEFINE step == IF resolving THEN "resolve" ELSE "ensure"
           r == TreeRootFor(p)
           c == asked.commit[p]
<1>1. CASE End
  <2>1. UNCHANGED <<sources, records>> \/ Done(step, p) BY DEF EnsureSource
  <2>2. ~Done(step, p) BY <1>1 DEF Done, AtStep, End
  <2> QED BY <1>1, <2>1, <2>2, EndStep, TreesStay DEF TreesType
<1>2. CASE ~End
  <2>1. r \in Roots /\ at = "run" /\ c \in Heads \cup {NoHead} BY RootFacts DEF AtStep, CommandType, IsAsked
  <2>2. c = NoHead => p \in Nested \cup Locals /\ r[1] = p
    <3>1. c = NoHead => p # Owner BY DEF AtStep, CommandType
    <3> QED BY <3>1, RootFacts DEF Packages
  <2>3. \A x \in Resolved(r, c) : x \in Heads /\ (c # NoHead => x = c)
    BY <2>1, <2>2 DEF Resolved, TreesType, RecordStates
  <2>4. PICK x \in Heads :
          /\ c # NoHead => x = c
          /\ got' = [got EXCEPT ![p] = x] /\ Done(step, p)
          /\ \/ IsReusable(r, hash, resolving) /\ records[r].commit = x /\ UNCHANGED <<sources, records>>
             \/ sources' = Sources(r, x) /\ records' = Records(r, [commit |-> x, hash |-> IF resolving THEN {} ELSE hash])
    <3>1. CASE IsReusable(r, hash, resolving) /\ Suffices(r, c)
      <4>1. records[r].commit \in Heads /\ (c # NoHead => records[r].commit = c)
        BY <3>1, <2>1 DEF IsReusable, Suffices, TreesType, RecordStates
      <4>2. got' = [got EXCEPT ![p] = records[r].commit] /\ Done(step, p) /\ UNCHANGED <<sources, records>>
        BY <3>1, <1>2 DEF EnsureSource
      <4> QED BY <4>1, <4>2, <3>1
    <3>2. CASE ~(IsReusable(r, hash, resolving) /\ Suffices(r, c))
      <4>1. /\ Done(step, p)
            /\ \E f \in Resolved(r, c) :
                 /\ got' = [got EXCEPT ![p] = f]
                 /\ IF IsReusable(r, hash, resolving) /\ records[r].commit = f
                    THEN UNCHANGED <<sources, records>>
                    ELSE /\ sources' = Sources(r, f)
                         /\ records' = Records(r, [commit |-> f, hash |-> IF resolving THEN {} ELSE hash])
        BY <3>2, <1>2 DEF EnsureSource
      <4> QED BY <4>1, <2>3
    <3> QED BY <3>1, <3>2
  <2>5. /\ sources' \in [Roots -> SourceStates] /\ records' \in [Roots -> RecordStates \cup {NoRecord}]
        /\ TreesInv'
        /\ records'[r] # NoRecord /\ records'[r].commit = x /\ (~resolving => records'[r].hash = hash)
        /\ \A q \in Roots : q # r /\ ~(r = Root(Owner) /\ q \in Inside) => records'[q] = records[q]
    <3>1. CASE IsReusable(r, hash, resolving) /\ records[r].commit = x /\ UNCHANGED <<sources, records>>
      BY <3>1, TreesStay DEF IsReusable
    <3>2. CASE sources' = Sources(r, x) /\ records' = Records(r, [commit |-> x, hash |-> IF resolving THEN {} ELSE hash])
      <4> DEFINE s == [commit |-> x, hash |-> IF resolving THEN {} ELSE hash]
      <4>1. s \in RecordStates /\ s # NoRecord /\ s.commit = x /\ (~resolving => s.hash = hash)
        BY DEF RecordStates, MemberAssumption
      <4>2. records' = Records(r, s) BY <3>2
      <4> HIDE DEF s
      <4> QED BY <3>2, <4>1, <4>2, <2>1, MakesTree
    <3> QED BY <2>4, <3>1, <3>2
  <2>6. got' \in [Packages -> Heads \cup {NoHead}] /\ got'[p] = x /\ \A q : q # p => got'[q] = got[q]
    BY <2>4 DEF CommandType
  <2>7. CommandType' /\ InPhase' /\ todo' = todo \ {<<step, p>>} /\ at' = "run" /\ asked' = asked
    BY <2>4, <2>6, DoneStep
  <2>8. TreesType' BY <2>5 DEF TreesType
  <2>9. /\ \A q : TreeRootFor(q)' = TreeRootFor(q) /\ TreePatchHash(q)' = TreePatchHash(q) /\ (IsUsers(q)' <=> IsUsers(q))
        /\ Plan(asked.needed)' = Plan(asked.needed)
    BY <2>7 DEF TreeRootFor, TreePatchHash, IsUsers, Plan
  <2> DEFINE phase == Phase(<<step, p>>)
  <2>10. <<step, p>> \in todo /\ phase \in Nat /\ phase < 5 /\ (resolving => phase = 1)
         /\ (~resolving /\ p = Owner => phase = 3)
    <3>1. CASE resolving
      <4>1. step = "resolve" BY <3>1
      <4> QED BY <3>1, <4>1, PhaseOf DEF AtStep
    <3>2. CASE ~resolving
      <4>1. step = "ensure" BY <3>2
      <4>2. /\ Phase(<<"ensure", p>>) \in Nat /\ Phase(<<"ensure", p>>) < 5
            /\ (p = Owner => Phase(<<"ensure", p>>) = 3)
        BY PhaseOf
      <4> QED BY <3>2, <4>1, <4>2 DEF AtStep
    <3> QED BY <3>1, <3>2
  <2>11. \A t \in Plan(asked.needed) : phase < Phase(t) => t \in todo'
    <3>1. \A t \in Plan(asked.needed) : phase < Phase(t) => t \in todo
      BY <2>1, <2>10 DEF InPhase
    <3>2. \A t : phase < Phase(t) => t # <<step, p>> BY <2>10
    <3> QED BY <3>1, <3>2, <2>7
  <2> HIDE DEF phase
  <2>12. ASSUME NEW q \in asked.needed \ Sharers, ~IsUsers(q), <<"ensure", q>> \notin todo' PROVE IsMade(q)'
    <3>1. <<"ensure", q>> \in Plan(asked.needed) /\ q \in Packages /\ q \notin Sharers
      BY <2>1, <2>12, OwnerFacts DEF OwnerOf
    <3>2. CASE resolving
      <4>1. phase < Phase(<<"ensure", q>>) BY <3>2, <2>10, PhaseOf
      <4> QED BY <4>1, <3>1, <2>11, <2>7, <2>12
    <3>3. CASE ~resolving /\ q = p
      BY <3>3, <2>4, <2>5, <2>6, <2>7, <2>9 DEF IsMade
    <3>4. CASE ~resolving /\ q # p
      <4>1. IsMade(q)
        <5>1. <<"ensure", q>> \notin todo
          BY <3>4, <2>7, <2>12
        <5> QED BY <5>1, <2>1, <2>12 DEF MadeInv
      <4>2. TreeRootFor(q) \in Roots /\ TreeRootFor(q) # r BY <3>1, <3>4, RootFacts
      <4>3. ~(r = Root(Owner) /\ TreeRootFor(q) \in Inside)
        <5> SUFFICES ASSUME r = Root(Owner), TreeRootFor(q) \in Inside PROVE FALSE OBVIOUS
        <5>1. p = Owner /\ q \in Nested BY <3>1, RootFacts
        <5>2. phase < Phase(<<"ensure", q>>) BY <5>1, <3>4, <2>10, PhaseOf
        <5> QED BY <5>2, <3>1, <2>11, <2>7, <2>12
      <4>4. records'[TreeRootFor(q)] = records[TreeRootFor(q)] BY <4>2, <4>3, <2>5
      <4> QED BY <4>1, <4>4, <3>4, <2>6, <2>7, <2>9 DEF IsMade
    <3> QED BY <3>2, <3>3, <3>4
  <2>13. ASSUME NEW q \in asked.needed \cap Locals, <<"link", q>> \notin todo' PROVE dir'[q] = "link"
    <3>1. <<"link", q>> \notin todo BY <2>7, <2>13
    <3> QED BY <3>1, <2>1 DEF MadeInv
  <2>14. ASSUME NEW q \in asked.needed \cap Patched PROVE <<"patch", q>> \in todo'
    <3>1. <<"patch", q>> \in Plan(asked.needed) BY DEF Plan
    <3>2. phase < Phase(<<"patch", q>>) BY <2>10, PhaseOf
    <3> QED BY <3>1, <3>2, <2>11, <2>7
  <2>15. MadeInv' BY <2>7, <2>9, <2>12, <2>13, <2>14 DEF MadeInv
  <2> QED BY <2>5, <2>7, <2>8, <2>15
<1> QED BY <1>1, <1>2

LEMMA LinkStep == ASSUME MemberAssumption, MembersInv, NEW p \in Locals, LinkSource(p) PROVE MembersInv'
<1> USE DEF MembersInv
<1>1. CASE dir[p] = "users"
  BY <1>1, EndStep, TreesStay DEF LinkSource, TreesType
<1>2. CASE dir[p] # "users"
  <2>1. /\ AtStep("link", p) /\ Done("link", p) /\ dir' = [dir EXCEPT ![p] = "link"]
        /\ UNCHANGED <<heads, sources, records, linked, spoiled, got>>
    BY <1>2 DEF LinkSource
  <2>2. CommandType' /\ InPhase' /\ todo' = todo \ {<<"link", p>>} /\ at' = "run" /\ asked' = asked /\ at = "run"
    BY <2>1, DoneStep DEF CommandType, AtStep
  <2>3. TreesType' /\ TreesInv' BY <2>1, TreesStay DEF TreesType
  <2>4. \A q : TreeRootFor(q)' = TreeRootFor(q) /\ TreePatchHash(q)' = TreePatchHash(q) /\ (IsUsers(q)' <=> IsUsers(q))
    BY <2>1, <2>2, <1>2 DEF TreeRootFor, TreePatchHash, IsUsers, TreesType
  <2>5. \A q : IsMade(q)' <=> IsMade(q) BY <2>1, <2>2, <2>4 DEF IsMade
  <2>6. \A q \in Locals : q # p => dir'[q] = dir[q] BY <2>1
  <2>7. dir'[p] = "link" BY <2>1 DEF TreesType
  <2>8. MadeInv' BY <2>1, <2>2, <2>4, <2>5, <2>6, <2>7 DEF MadeInv
  <2> QED BY <2>2, <2>3, <2>8
<1> QED BY <1>1, <1>2

(* What holds when patches are applied: the tree is there, and no files of *)
(* the user's.                                                             *)
LEMMA PatchFacts ==
  ASSUME MemberAssumption, MembersInv, NEW p \in Packages, AtStep("patch", p), ~Refused(p)
  PROVE  /\ at = "run" /\ p \in asked.needed \cap Patched /\ ~IsUsers(p) /\ IsMade(OwnerOf(p))
         /\ TreeRootFor(p) \in Roots /\ TreeRootFor(OwnerOf(p)) = TreeRootFor(p)
         /\ p \in records[TreeRootFor(p)].hash
<1> USE DEF MembersInv
<1>1. /\ at = "run" /\ <<"patch", p>> \in Plan(asked.needed)
      /\ \A t : Phase(t) < 6 => t \notin todo
  <2>1. /\ at = "run" /\ <<"patch", p>> \in todo
        /\ \A t \in todo : Phase(<<"patch", p>>) <= Phase(t)
    BY DEF AtStep
  <2>2. Phase(<<"patch", p>>) = 6 BY PhaseOf
  <2>3. \A t \in todo : 6 <= Phase(t) /\ Phase(t) \in Nat BY <2>1, <2>2, PhaseOf
  <2> QED BY <2>1, <2>3 DEF CommandType
<1>2. p \in asked.needed \cap Patched BY <1>1 DEF Plan
<1>3. p \in Locals => dir[p] = "link"
  <2>1. <<"link", p>> \notin todo BY <1>1, PhaseOf
  <2> QED BY <2>1, <1>1, <1>2 DEF MadeInv
<1>4. ~IsUsers(p) BY <1>3 DEF IsUsers, Refused
<1>5. <<"ensure", OwnerOf(p)>> \notin todo BY <1>1, PhaseOf
<1>6. IsMade(OwnerOf(p)) BY <1>1, <1>2, <1>4, <1>5, OwnerFacts DEF MadeInv
<1>7. TreeRootFor(OwnerOf(p)) = TreeRootFor(p) /\ p \in TreePatchHash(OwnerOf(p))
  BY <1>1, <1>2, <1>4, OwnerFacts
<1>8. p \in records[TreeRootFor(p)].hash BY <1>6, <1>7 DEF IsMade
<1> QED BY <1>1, <1>2, <1>4, <1>6, <1>7, <1>8, RootFacts

LEMMA ApplyStep == ASSUME MemberAssumption, MembersInv, NEW p \in Packages, ApplyPatches(p) PROVE MembersInv'
<1> USE DEF MembersInv
<1> DEFINE r == TreeRootFor(p)
<1>1. AtStep("patch", p) /\ ~Refused(p) BY DEF ApplyPatches
<1>2. /\ at = "run" /\ p \in asked.needed \cap Patched /\ ~IsUsers(p)
      /\ r \in Roots /\ p \in records[r].hash
  BY <1>1, PatchFacts
<1>3. /\ sources' = [sources EXCEPT ![r].whole = @ \cup {p}] /\ Done("patch", p)
      /\ UNCHANGED <<heads, records, linked, dir, got, spoiled>>
  BY <1>2 DEF ApplyPatches
<1>4. CommandType' /\ InPhase' /\ todo' = todo \ {<<"patch", p>>} /\ at' = "run" /\ asked' = asked
  BY <1>1, <1>3, DoneStep DEF CommandType
<1>5. sources[r] \in SourceStates /\ sources \in [Roots -> SourceStates] BY <1>2 DEF TreesType
<1>6. /\ sources'[r] \in SourceStates /\ sources'[r].head = sources[r].head /\ sources'[r].part = sources[r].part
      /\ sources'[r].failed = sources[r].failed /\ sources'[r].whole = sources[r].whole \cup {p}
  <2>1. sources'[r] = [sources[r] EXCEPT !.whole = @ \cup {p}] BY <1>3, <1>5, <1>2
  <2> QED BY <2>1, <1>5, <1>2 DEF SourceStates
<1>7. \A q \in Roots : q # r => sources'[q] = sources[q] BY <1>3, <1>5
<1>8. sources' \in [Roots -> SourceStates] BY <1>3, <1>5, <1>6, <1>7
<1>9. TreesType' BY <1>3, <1>8 DEF TreesType
<1>10. TreesInv' BY <1>2, <1>3, <1>6, <1>7 DEF TreesInv
<1>11. \A q : TreeRootFor(q)' = TreeRootFor(q) /\ TreePatchHash(q)' = TreePatchHash(q) /\ (IsUsers(q)' <=> IsUsers(q))
  BY <1>3, <1>4 DEF TreeRootFor, TreePatchHash, IsUsers
<1>12. \A q : IsMade(q)' <=> IsMade(q) BY <1>3, <1>4, <1>11 DEF IsMade
<1>13. ASSUME NEW q \in asked.needed \cap Patched, ~IsUsers(q), <<"patch", q>> \notin todo'
       PROVE  q \in sources'[TreeRootFor(q)].whole
  <2>1. q \in Packages BY <1>2 DEF CommandType, MemberAssumption
  <2>2. TreeRootFor(q) \in Roots BY <2>1, RootFacts
  <2>3. CASE q = p BY <2>3, <1>6
  <2>4. CASE q # p
    <3>1. <<"patch", q>> \notin todo BY <2>4, <1>4, <1>13
    <3>2. q \in sources[TreeRootFor(q)].whole BY <3>1, <1>2, <1>13 DEF MadeInv
    <3> QED BY <3>2, <2>2, <1>6, <1>7
  <2> QED BY <2>3, <2>4
<1>14. MadeInv' BY <1>2, <1>3, <1>4, <1>11, <1>12, <1>13 DEF MadeInv
<1> QED BY <1>4, <1>9, <1>10, <1>14

LEMMA FailPatchesStep == ASSUME MemberAssumption, MembersInv, NEW p \in Packages, FailPatches(p) PROVE MembersInv'
<1> USE DEF MembersInv
<1> DEFINE r == TreeRootFor(p)
<1>1. AtStep("patch", p) /\ ~Refused(p) BY DEF FailPatches
<1>2. p \in Patched /\ r \in Roots BY <1>1, PatchFacts
<1>3. /\ sources' = [sources EXCEPT ![r].part = @ \cup {p}, ![r].whole = @ \ {p}, ![r].failed = TRUE]
      /\ records' = IF records[r] = NoRecord THEN records ELSE [records EXCEPT ![r].hash = {}]
      /\ End /\ UNCHANGED <<heads, linked, dir, spoiled>>
  BY DEF FailPatches
<1>4. CommandType' /\ InPhase' /\ MadeInv' BY <1>3, EndStep
<1>5. sources[r] \in SourceStates /\ sources \in [Roots -> SourceStates]
      /\ records[r] \in RecordStates \cup {NoRecord} /\ records \in [Roots -> RecordStates \cup {NoRecord}]
  BY <1>2 DEF TreesType
<1>6. sources'[r] = [head |-> sources[r].head, whole |-> sources[r].whole \ {p}, part |-> sources[r].part \cup {p}, failed |-> TRUE]
  <2>1. sources[r] = [head |-> sources[r].head, whole |-> sources[r].whole, part |-> sources[r].part, failed |-> sources[r].failed]
    BY <1>5 DEF SourceStates
  <2>2. sources'[r] = [[[sources[r] EXCEPT !.part = @ \cup {p}] EXCEPT !.whole = @ \ {p}] EXCEPT !.failed = TRUE]
    BY <1>2, <1>3, <1>5
  <2> QED BY <2>1, <2>2
<1>7. sources'[r] \in SourceStates BY <1>2, <1>5, <1>6 DEF SourceStates
<1>8. \A q \in Roots : q # r => sources'[q] = sources[q] /\ records'[q] = records[q] BY <1>3, <1>5
<1>9. sources' \in [Roots -> SourceStates] BY <1>3, <1>5, <1>7, <1>8
<1>10. records'[r] \in RecordStates \cup {NoRecord}
       /\ (records'[r] # NoRecord => records[r] # NoRecord /\ records'[r].commit = records[r].commit /\ records'[r].hash = {})
  <2>1. CASE records[r] = NoRecord BY <2>1, <1>3
  <2>2. CASE records[r] # NoRecord
    <3>1. records'[r] = [records[r] EXCEPT !.hash = {}] BY <2>2, <1>2, <1>3, <1>5
    <3> QED BY <3>1, <2>2, <1>5 DEF RecordStates
  <2> QED BY <2>1, <2>2
<1>11. records' \in [Roots -> RecordStates \cup {NoRecord}] BY <1>3, <1>5, <1>8, <1>10
<1>12. TreesType' BY <1>3, <1>9, <1>11 DEF TreesType
<1>13. TreesInv' BY <1>2, <1>6, <1>8, <1>10 DEF TreesInv
<1> QED BY <1>4, <1>12, <1>13

LEMMA BuildMembersStep == ASSUME MemberAssumption, MembersInv, BuildMembers PROVE MembersInv'
<1> USE DEF MembersInv
<1>1. PICK needed \in Needs, commit \in Heads, locked \in Heads \cup {NoHead}, refresh \in BOOLEAN :
        /\ asked' = [needed |-> needed, refresh |-> refresh,
                     commit |-> [p \in Packages |-> CASE p = Owner -> commit [] p \in Locals -> locked
                                                      [] OTHER -> NoHead]]
        /\ todo' = Plan(needed) /\ at' = "run"
        /\ UNCHANGED <<heads, sources, records, linked, dir, spoiled, got>>
  BY DEF BuildMembers, treesOnDisk
<1>2. /\ asked'.needed = needed /\ asked'.commit[Owner] = commit
      /\ \A p \in Sharers : asked'.commit[p] = NoHead
      /\ asked'.commit \in [Packages -> Heads \cup {NoHead}]
      /\ IsAsked(asked)'
  <2> DEFINE f == [p \in Packages |-> CASE p = Owner -> commit [] p \in Locals -> locked [] OTHER -> NoHead]
  <2>1. /\ f \in [Packages -> Heads \cup {NoHead}] /\ f[Owner] = commit
        /\ \A p \in Sharers : f[p] = NoHead
    BY DEF Packages, MemberAssumption
  <2>2. asked' = [needed |-> needed, refresh |-> refresh, commit |-> f] BY <1>1
  <2> HIDE DEF f
  <2>3. IsAsked(asked)' BY <2>1, <2>2 DEF IsAsked
  <2> QED BY <2>1, <2>2, <2>3
<1>3. /\ Plan(asked.needed)' = Plan(needed) /\ todo' = Plan(needed)
      /\ \A q : (IsUsers(q)' <=> IsUsers(q))
  BY <1>1, <1>2 DEF Plan, IsUsers
<1>4. CommandType' BY <1>1, <1>2, <1>3 DEF CommandType, MemberAssumption
<1>5. TreesType' /\ TreesInv' BY <1>1, TreesStay DEF TreesType
<1>6. InPhase' BY <1>3 DEF InPhase
<1>7. ASSUME NEW q \in needed \ Sharers, ~IsUsers(q) PROVE <<"ensure", q>> \in todo'
  <2>1. q \in Packages /\ (q = Owner => ~linked) BY <1>7 DEF IsUsers, MemberAssumption
  <2>2. q \in Locals \cup {Owner} \cup Nested BY <2>1 DEF Packages
  <2> QED BY <2>1, <2>2, <1>3 DEF Plan
<1>8. \A q \in needed : (q \in Locals => <<"link", q>> \in todo') /\ (q \in Patched => <<"patch", q>> \in todo')
  BY <1>3 DEF Plan
<1>9. MadeInv' BY <1>2, <1>3, <1>7, <1>8 DEF MadeInv
<1> QED BY <1>4, <1>5, <1>6, <1>9

(* Steps of the user and of the compiler.                                  *)
LEMMA UserStep == ASSUME MemberAssumption, MembersInv, NEW p \in Locals, UserChanges(p) PROVE MembersInv'
<1> USE DEF MembersInv
<1>1. UNCHANGED <<heads, sources, records, linked, spoiled, at, asked, todo, got>>
  BY DEF UserChanges, command
<1>2. /\ dir' \in [Locals -> {"none", "users", "link"}]
      /\ \/ at = "idle"
         \/ dir[p] = "none" /\ dir' = [dir EXCEPT ![p] = "users"]
  BY DEF UserChanges, TreesType
<1>3. TreesType' /\ TreesInv' BY <1>1, <1>2, TreesStay DEF TreesType
<1>4. Plan(asked.needed)' = Plan(asked.needed) BY <1>1 DEF Plan
<1>5. CommandType' BY <1>1, <1>4 DEF CommandType, IsAsked
<1>6. InPhase' BY <1>1, <1>4 DEF InPhase, Phase
<1>7. MadeInv'
  <2>1. CASE at = "idle" BY <2>1, <1>1 DEF MadeInv
  <2>2. CASE dir[p] = "none" /\ dir' = [dir EXCEPT ![p] = "users"]
    <3>1. \A q \in Locals : (dir[q] = "link" => dir'[q] = "link") /\ (dir[q] = "users" => dir'[q] = "users")
      BY <2>2 DEF TreesType
    <3>2. \A q : IsUsers(q) => IsUsers(q)' BY <3>1, <1>1 DEF IsUsers
    <3>3. \A q : TreeRootFor(q)' = TreeRootFor(q) /\ TreePatchHash(q)' = TreePatchHash(q)
      BY <1>1 DEF TreeRootFor, TreePatchHash
    <3>4. \A q : IsMade(q)' <=> IsMade(q) BY <1>1, <3>3 DEF IsMade
    <3> QED BY <1>1, <3>1, <3>2, <3>3, <3>4 DEF MadeInv
  <2> QED BY <1>2, <2>1, <2>2
<1> QED BY <1>3, <1>5, <1>6, <1>7

LEMMA CommandStays ==
  ASSUME MembersInv, UNCHANGED <<sources, records, linked, dir, asked, todo, got>>,
         at' = at \/ (at' = "built" /\ at = "run" /\ todo = {})
  PROVE  CommandType' /\ InPhase' /\ MadeInv' /\ TreesInv'
<1> USE DEF MembersInv
<1>1. /\ Plan(asked.needed)' = Plan(asked.needed)
      /\ \A q : TreeRootFor(q)' = TreeRootFor(q) /\ TreePatchHash(q)' = TreePatchHash(q) /\ (IsUsers(q)' <=> IsUsers(q))
  BY DEF Plan, TreeRootFor, TreePatchHash, IsUsers
<1>2. \A q : IsMade(q)' <=> IsMade(q) BY <1>1 DEF IsMade
<1>3. CommandType' BY <1>1 DEF CommandType, IsAsked
<1>4. InPhase' BY <1>1 DEF InPhase, Phase
<1>5. MadeInv' BY <1>1, <1>2 DEF MadeInv
<1> QED BY <1>3, <1>4, <1>5, TreesStay DEF TreesType

LEMMA IdleStep ==
  ASSUME MemberAssumption, MembersInv, at = "idle", UNCHANGED <<heads, dir, spoiled, command>>, linked' \in BOOLEAN,
         \/ UNCHANGED <<sources, records>>
         \/ sources' = Sources(Root(Owner), NoHead) /\ records' = Records(Root(Owner), NoRecord)
  PROVE  MembersInv'
<1> USE DEF MembersInv
<1>1. UNCHANGED <<heads, dir, spoiled, at, asked, todo, got>> BY DEF command
<1>2. Root(Owner) \in Roots BY DEF Roots, Packages, MemberAssumption
<1>3. /\ sources' \in [Roots -> SourceStates] /\ records' \in [Roots -> RecordStates \cup {NoRecord}] /\ TreesInv'
  <2>1. CASE UNCHANGED <<sources, records>> BY <2>1, TreesStay
  <2>2. CASE sources' = Sources(Root(Owner), NoHead) /\ records' = Records(Root(Owner), NoRecord)
    BY <2>2, <1>2, MakesTree
  <2> QED BY <2>1, <2>2
<1>4. TreesType' BY <1>1, <1>3 DEF TreesType
<1>5. CommandType' BY <1>1 DEF CommandType, IsAsked
<1> QED BY <1>1, <1>3, <1>4, <1>5 DEF InPhase, MadeInv

LEMMA KillEnsureStep == ASSUME MemberAssumption, MembersInv, KillEnsure PROVE MembersInv'
<1> USE DEF MembersInv
<1>1. End /\ UNCHANGED <<heads, linked, dir, spoiled>> BY DEF KillEnsure, BuildKilled
<1>2. PICK p \in Packages :
        \/ sources' = sources /\ records' = [records EXCEPT ![TreeRootFor(p)] = NoRecord]
        \/ \E c \in {NoHead, sources[TreeRootFor(p)].head} :
             sources' = Sources(TreeRootFor(p), c) /\ records' = Records(TreeRootFor(p), NoRecord)
  BY DEF KillEnsure
<1>3. TreeRootFor(p) \in Roots BY RootFacts
<1>4. /\ sources' \in [Roots -> SourceStates] /\ records' \in [Roots -> RecordStates \cup {NoRecord}] /\ TreesInv'
  <2>1. CASE sources' = sources /\ records' = [records EXCEPT ![TreeRootFor(p)] = NoRecord]
    BY <2>1 DEF TreesType, TreesInv
  <2>2. ASSUME NEW c \in {NoHead, sources[TreeRootFor(p)].head},
               sources' = Sources(TreeRootFor(p), c), records' = Records(TreeRootFor(p), NoRecord)
        PROVE  /\ sources' \in [Roots -> SourceStates] /\ records' \in [Roots -> RecordStates \cup {NoRecord}]
               /\ TreesInv'
    <3>1. c \in Heads \cup {NoHead} BY <1>3 DEF TreesType, SourceStates
    <3> QED BY <2>2, <3>1, <1>3, MakesTree
  <2> QED BY <1>2, <2>1, <2>2
<1>5. TreesType' BY <1>1, <1>4 DEF TreesType
<1> QED BY <1>1, <1>4, <1>5, EndStep

(* Steps that end the command and leave the trees.                         *)
LEMMA EndsStep ==
  ASSUME MembersInv, End, UNCHANGED <<heads, sources, records, linked, dir, spoiled>> PROVE MembersInv'
BY EndStep, TreesStay DEF MembersInv, TreesType

LEMMA MembersStep == MemberAssumption /\ MembersInv /\ [MembersNext]_memberVars => MembersInv'
<1> SUFFICES ASSUME MemberAssumption, MembersInv, [MembersNext]_memberVars PROVE MembersInv' OBVIOUS
<1> USE DEF MembersInv
<1>1. CASE BuildMembers BY <1>1, BuildMembersStep
<1>2. CASE FindNative
  <2>1. /\ AtStep("resolve", Owner) /\ EnsureSource(Owner, Root(Owner), asked.commit[Owner], {}, TRUE)
        /\ UNCHANGED <<heads, linked, dir, spoiled, buildBounds>>
    BY <1>2 DEF FindNative
  <2>2. Owner \in Packages \ Sharers /\ Root(Owner) = TreeRootFor(Owner)
    BY DEF Packages, TreeRootFor, MemberAssumption
  <2> QED BY <2>1, <2>2, EnsureStep
<1>3. CASE CompileMembers
  <2>1. /\ UNCHANGED <<heads, sources, records, linked, dir, spoiled, asked, todo, got>>
        /\ at' = "built" /\ at = "run" /\ todo = {}
    BY <1>3 DEF CompileMembers, treesOnDisk
  <2>2. TreesType' BY <2>1 DEF TreesType
  <2> QED BY <2>1, <2>2, CommandStays
<1>4. CASE Return BY <1>4, EndsStep DEF Return, treesOnDisk
<1>5. ASSUME NEW p \in Packages, SelectPackageSourceRoot(p) PROVE MembersInv'
  <2>1. CASE HasUnmanagedSourceDir(p) BY <1>5, <2>1, EndsStep DEF SelectPackageSourceRoot
  <2>2. CASE ~HasUnmanagedSourceDir(p)
    <3>1. /\ AtStep("ensure", p) /\ EnsureSource(p, TreeRootFor(p), asked.commit[p], TreePatchHash(p), FALSE)
          /\ UNCHANGED <<heads, linked, dir, spoiled, buildBounds>>
      BY <1>5, <2>2 DEF SelectPackageSourceRoot
    <3>2. <<"ensure", p>> \in Plan(asked.needed) /\ asked.needed \subseteq Packages
      BY <3>1 DEF AtStep, CommandType, MemberAssumption
    <3>3. p \in Packages \ Sharers BY <3>2 DEF Plan, MemberAssumption
    <3>4. TreePatchHash(p) \in SUBSET Packages BY <3>3 DEF TreePatchHash, Packages
    <3> QED BY <3>1, <3>3, <3>4, EnsureStep
  <2> QED BY <2>1, <2>2
<1>6. ASSUME NEW p \in Packages, RefusePatches(p) PROVE MembersInv'
  BY <1>6, EndsStep DEF RefusePatches, treesOnDisk
<1>7. ASSUME NEW p \in Packages, ApplyPatches(p) \/ FailPatches(p) PROVE MembersInv'
  BY <1>7, ApplyStep, FailPatchesStep
<1>8. ASSUME NEW p \in Locals, LinkSource(p) \/ UserChanges(p) PROVE MembersInv'
  BY <1>8, LinkStep, UserStep
<1>9. CASE PkgLink \/ PkgUnlink \/ KillLink BY <1>9, IdleStep DEF PkgLink, PkgUnlink, KillLink
<1>10. CASE MoveHead
  <2>1. /\ UNCHANGED <<sources, records, linked, dir, spoiled, at, asked, todo, got>>
        /\ heads' \in [Nested \cup Locals -> Heads]
    BY <1>10 DEF MoveHead, treesOnDisk, command, TreesType
  <2>2. TreesType' BY <2>1 DEF TreesType
  <2> QED BY <2>1, <2>2, CommandStays
<1>11. CASE KillMembers BY <1>11, EndsStep DEF KillMembers, BuildKilled
<1>12. CASE KillEnsure BY <1>12, KillEnsureStep
<1>13. CASE UNCHANGED memberVars
  <2>1. UNCHANGED <<heads, sources, records, linked, dir, spoiled, at, asked, todo, got>>
    BY <1>13 DEF memberVars, treesOnDisk, command
  <2>2. TreesType' BY <2>1 DEF TreesType
  <2> QED BY <2>1, <2>2, CommandStays
<1> QED BY <1>1, <1>2, <1>3, <1>4, <1>5, <1>6, <1>7, <1>8, <1>9, <1>10, <1>11, <1>12, <1>13 DEF MembersNext

LEMMA MembersGoal == MemberAssumption /\ MembersInv => MembersAreRight
<1> SUFFICES ASSUME MemberAssumption, MembersInv PROVE MembersAreRight OBVIOUS
<1> USE DEF MembersInv
<1>1. ASSUME at = "built", NEW p \in asked.needed, ~IsUsers(p)
      PROVE  LET t == sources[TreeRootFor(p)] IN
             /\ t.head = got[OwnerOf(p)] /\ t.head # NoHead
             /\ asked.commit[p] # NoHead => t.head = asked.commit[p]
             /\ p \in t.whole <=> p \in Patched
             /\ p \notin t.part
             /\ t.failed \/ t.whole \subseteq asked.needed
  <2> DEFINE o == OwnerOf(p)
             r == TreeRootFor(p)
  <2>1. /\ o \in asked.needed \ Sharers /\ ~IsUsers(o) /\ TreeRootFor(o) = r
        /\ (p \in Patched => p \in TreePatchHash(o)) /\ TreePatchHash(o) \subseteq asked.needed
        /\ p \in Packages
    BY <1>1, OwnerFacts
  <2>2. r \in Roots BY <2>1, RootFacts
  <2>3. todo = {} BY <1>1 DEF CommandType
  <2>4. IsMade(o) BY <1>1, <2>1, <2>3 DEF MadeInv
  <2>5. /\ records[r] # NoRecord /\ records[r].hash = TreePatchHash(o) /\ records[r].commit = got[o]
        /\ (asked.commit[o] # NoHead => got[o] = asked.commit[o])
    BY <2>1, <2>4 DEF IsMade
  <2>6. sources[r] \in SourceStates /\ records[r] \in RecordStates BY <2>2, <2>5 DEF TreesType
  <2>7. sources[r].head = got[o] /\ got[o] # NoHead
    BY <2>2, <2>5, <2>6 DEF TreesInv, RecordStates, MemberAssumption
  <2>8. asked.commit[p] # NoHead => sources[r].head = asked.commit[p]
    <3>1. asked.commit[p] # NoHead => p = o BY <1>1 DEF CommandType, OwnerOf
    <3> QED BY <3>1, <2>5, <2>7
  <2>9. p \in Patched => p \in sources[r].whole BY <1>1, <2>3 DEF MadeInv
  <2>10. p \in sources[r].whole => p \in Patched BY <2>6 DEF SourceStates
  <2>11. p \notin sources[r].part
    <3> SUFFICES ASSUME p \in sources[r].part PROVE FALSE OBVIOUS
    <3>1. p \in Patched BY <2>6 DEF SourceStates
    <3>2. records[r].hash = {} BY <2>2, <2>5 DEF TreesInv
    <3> QED BY <3>1, <3>2, <2>1, <2>5
  <2>12. sources[r].failed \/ sources[r].whole \subseteq asked.needed
    BY <2>1, <2>2, <2>5 DEF TreesInv
  <2> QED BY <2>7, <2>8, <2>9, <2>10, <2>11, <2>12
<1>2. NeededIsRight BY <1>1 DEF NeededIsRight, OwnerOf
<1>3. BuiltIsReusable
  <2> SUFFICES ASSUME at = "built", NEW p \in asked.needed \ Sharers, ~IsUsers(p)
               PROVE  LET r == TreeRootFor(p) IN
                      /\ IsReusable(r, TreePatchHash(p), FALSE)
                      /\ asked.refresh \/ Suffices(r, asked.commit[p])
    BY DEF BuiltIsReusable
  <2> DEFINE r == TreeRootFor(p)
  <2>1. r \in Roots BY OwnerFacts, RootFacts
  <2>2. IsMade(p) BY DEF MadeInv, CommandType
  <2>3. IsReusable(r, TreePatchHash(p), FALSE) BY <2>1, <2>2 DEF IsMade, IsReusable, TreesInv
  <2>4. asked.refresh \/ Suffices(r, asked.commit[p]) BY <2>2 DEF IsMade, Suffices
  <2> QED BY <2>3, <2>4
<1>4. FailedIsRemade
  <2> SUFFICES ASSUME NEW r \in Roots, records[r] # NoRecord PROVE sources[r].part \cap records[r].hash = {}
    BY DEF FailedIsRemade
  <2> QED BY DEF TreesInv
<1>5. UsersFilesStay BY DEF TreesType, UsersFilesStay
<1> QED BY <1>2, <1>3, <1>4, <1>5 DEF MembersAreRight

(* The state files of all trees of a build are true of them, and a build   *)
(* does what it has to in order (prepareAllPackages, EnsureSource,         *)
(* applyPatchesToNeeded), for any packages, patches, builds and kills.     *)
THEOREM MembersInductive == MembersSpec => []MembersInv
<1>1. MembersInit => MembersInv BY MembersInitHolds
<1>2. MembersInv /\ [MembersNext]_memberVars => MembersInv' BY MembersStep, MemberAssumption
<1> QED BY <1>1, <1>2, PTL DEF MembersSpec

(* What is compiled has the commits and the patches of all that is needed, *)
(* is built again as it is, and is no file of the user's (treePatchHash,   *)
(* treeRootFor, selectPackageSourceRoot, applyPatchesFor).                 *)
THEOREM MembersHold == MembersSpec => []MembersAreRight
<1>1. MembersInv => MembersAreRight BY MembersGoal, MemberAssumption
<1> QED BY <1>1, MembersInductive, PTL
=============================================================================
