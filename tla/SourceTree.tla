------------------------------ MODULE SourceTree ------------------------------
(***************************************************************************)
(* The working tree of one remote package (SourceManager.EnsureSource and  *)
(* materialize, pkg/repo/source.go), the patches the build applies to it   *)
(* (applyPatchesFor, pkg/pipeline), and the commands that delete it.       *)
(*                                                                         *)
(* Commands on one project run one after the other (module StorageLocks);  *)
(* each may be killed anywhere, and the next finds what is left: src/, a   *)
(* git working tree, and state.json, which says what src/ was made from.   *)
(* A clone yields what module ObjectCache says: a locked commit, or the    *)
(* commit a ref has, or nothing.                                           *)
(***************************************************************************)
EXTENDS Naturals, Sequences

CONSTANTS
  Commits, NoCommit,
  Refs, NoRef,     \* NoRef: the upstream's HEAD
  URLs,
  PatchSets,       \* the patch series a script may declare
  Bad,             \* patches that do not apply
  Masks,           \* <<p, q>>: q changes the lines p has changed
  NoState,
  MaxCommands,     \* bound
  MaxKills,        \* bound
  MaxMoves         \* bound: refs moved upstream

Patches == UNION {{s[i] : i \in DOMAIN s} : s \in PatchSets}

ASSUME TreeAssumption ==
  /\ NoCommit \notin Commits /\ NoRef \notin Refs
  /\ \A s \in PatchSets : s \in Seq(Patches) /\ \A i, j \in DOMAIN s : s[i] = s[j] => i = j
  /\ Bad \subseteq Patches /\ Masks \subseteq Patches \X Patches
  /\ MaxCommands \in Nat /\ MaxKills \in Nat /\ MaxMoves \in Nat

VARIABLES
  upstream,  \* the commits of the refs
  src,       \* the working tree
  state,     \* state.json
  wreck,     \* what a killed removal or a failed patch has left, and state does not tell
  pc, cmd,   \* the command, and where it is
  commands, kills, moves

disk == <<src, state, wreck>>
bounds == <<commands, kills, moves>>
vars == <<upstream, disk, pc, cmd, bounds>>

(* head: what HEAD names.  whole: no file is missing or half written.      *)
(* intact: git can check out (no object is missing, no index.lock is left).*)
(* applied: the patches in the files, in their order.  litter: what builds *)
(* left among the files, by what they were built from.                     *)
NoTree == [head |-> NoCommit, whole |-> TRUE, intact |-> TRUE, applied |-> <<>>, litter |-> {}]
TreeAt(c) == [NoTree EXCEPT !.head = c]

(* One call of EnsureSource, or two: resolving is the first of a native    *)
(* package, and commit the one it asks for.                                *)
Request(native, refresh, offline, urls, ref, pin, patches) ==
  [urls |-> urls, ref |-> ref, pin |-> pin, patches |-> patches,
   refresh |-> refresh, offline |-> offline, resolving |-> native, commit |-> pin,
   found |-> NoCommit, next |-> 1, why |-> "none"]

(* No command: it has no URLs either.                                      *)
Idle == Request(FALSE, FALSE, FALSE, NoRef, NoRef, NoCommit, <<>>)

Init ==
  /\ upstream \in [Refs \cup {NoRef} -> Commits]
  /\ src = NoTree /\ state = NoState /\ wreck = "none"
  /\ pc = "idle" /\ cmd = Idle
  /\ commands = 0 /\ kills = 0 /\ moves = 0

-----------------------------------------------------------------------------
Goto(place) == pc' = place /\ UNCHANGED cmd
Go(place, c) == pc' = place /\ cmd' = c
Fail(why) == Go("failed", [cmd EXCEPT !.why = why])

Move ==
  /\ moves < MaxMoves /\ moves' = moves + 1
  /\ \E r \in Refs \cup {NoRef}, c \in Commits :
       c # upstream[r] /\ upstream' = [upstream EXCEPT ![r] = c]
  /\ UNCHANGED <<disk, pc, cmd, commands, kills>>

Command(place, c) ==
  /\ pc \in {"idle", "built", "failed", "cleaned"}
  /\ commands < MaxCommands /\ commands' = commands + 1
  /\ Go(place, c)
  /\ UNCHANGED <<upstream, disk, kills, moves>>

(* A build asks for the tree once, and for a native package, whose build.go*)
(* is in the tree, once before that, while it resolves.                    *)
Build ==
  \E native, refresh, offline \in BOOLEAN, urls \in URLs, ref \in Refs \cup {NoRef},
     pin \in Commits \cup {NoCommit}, patches \in PatchSets :
    /\ refresh => pin = NoCommit /\ ~offline /\ ~native
    /\ native /\ offline => pin # NoCommit
    /\ Command("check", Request(native, refresh, offline, urls, ref, pin, patches))

-----------------------------------------------------------------------------
(* EnsureSource *)

SameURLs == state # NoState /\ state.urls = cmd.urls
AtHead == state # NoState /\ src.head # NoCommit /\ src.head = state.commit

(* Mutant: patches are no part of the identity of a tree. *)
ReusableUnpatched == SameURLs /\ AtHead
Reusable ==
  SameURLs /\ AtHead /\ (cmd.resolving \/ state.patches = cmd.patches)

Wanted ==
  IF cmd.commit # NoCommit THEN state.commit = cmd.commit
  ELSE ~cmd.refresh /\ (cmd.ref = NoRef \/ state.ref = cmd.ref)

(* The tree is there: a native package is resolved, and asks again, or the *)
(* patches follow.                                                         *)
Ensured(c) ==
  IF cmd.resolving
  THEN Go("check", [cmd EXCEPT !.resolving = FALSE, !.commit = c])
  ELSE Go("patch", [cmd EXCEPT !.commit = c])

Reuse ==
  /\ pc = "check" /\ Reusable /\ Wanted
  /\ Ensured(state.commit)
  /\ UNCHANGED <<upstream, disk, bounds>>

(* The commit: given; or resolved upstream; or, when that fails, what the  *)
(* cache has recorded for the ref, or the tree that is there.              *)
Resolution(c) ==
  \/ cmd.commit # NoCommit /\ c = cmd.commit
  \/ cmd.commit = NoCommit /\ ~cmd.offline /\ c = upstream[cmd.ref]
  \/ cmd.commit = NoCommit /\ cmd.ref # NoRef
  \/ /\ cmd.commit = NoCommit /\ AtHead /\ SameURLs /\ c = state.commit
     /\ cmd.ref = NoRef \/ state.ref = cmd.ref

Resolve ==
  /\ pc = "check" /\ ~(Reusable /\ Wanted)
  /\ \E c \in Commits :
       /\ Resolution(c)
       /\ IF Reusable /\ state.commit = c
          THEN Ensured(c)
          ELSE Go(IF src.head = c /\ (state = NoState \/ SameURLs) THEN "restore" ELSE "clone",
                  [cmd EXCEPT !.found = c])
  /\ UNCHANGED <<upstream, disk, bounds>>

ResolveFails ==
  /\ pc = "check" /\ ~(Reusable /\ Wanted) /\ cmd.commit = NoCommit
  /\ Fail("network")
  /\ UNCHANGED <<upstream, disk, bounds>>

-----------------------------------------------------------------------------
(* materialize: in place *)

InvalidateForRestore ==
  /\ pc = "restore"
  /\ state' = NoState
  /\ Goto("reset")
  /\ UNCHANGED <<upstream, src, wreck, bounds>>

(* git checkout --force.                                                   *)
Reset ==
  /\ pc = "reset"
  /\ IF src.intact
     THEN /\ src' = [src EXCEPT !.whole = TRUE, !.applied = <<>>] /\ wreck' = "none"
          /\ Goto("sweep")
     ELSE UNCHANGED <<src, wreck>> /\ Fail("repository")
  /\ UNCHANGED <<upstream, state, bounds>>

Sweep ==
  /\ pc = "sweep"
  /\ src' = [src EXCEPT !.litter = {}]
  /\ Goto("record")
  /\ UNCHANGED <<upstream, state, wreck, bounds>>

-----------------------------------------------------------------------------
(* materialize: a fresh clone, made aside and renamed.  A locked commit is *)
(* cloned or the clone fails; a ref may have moved since it was resolved.  *)
Clone ==
  /\ pc = "clone"
  /\ \/ Fail("network")
     \/ \E c \in {cmd.found} \cup (IF cmd.commit = NoCommit THEN {upstream[cmd.ref]} ELSE {}) :
          Go("invalidate", [cmd EXCEPT !.found = c])
  /\ UNCHANGED <<upstream, disk, bounds>>

(* Mutant: the state is left while the tree is replaced.                   *)
InvalidateNot ==
  /\ pc = "invalidate"
  /\ Goto("remove")
  /\ UNCHANGED <<upstream, disk, bounds>>

Invalidate ==
  /\ pc = "invalidate"
  /\ state' = NoState
  /\ Goto("remove")
  /\ UNCHANGED <<upstream, src, wreck, bounds>>

RemoveOld ==
  /\ pc = "remove"
  /\ src' = NoTree /\ wreck' = "none"
  /\ Goto("publish")
  /\ UNCHANGED <<upstream, state, bounds>>

Publish ==
  /\ pc = "publish"
  /\ src' = TreeAt(cmd.found)
  /\ Goto("record")
  /\ UNCHANGED <<upstream, state, wreck, bounds>>

Record ==
  /\ pc = "record"
  /\ state' = [urls |-> cmd.urls, ref |-> cmd.ref, commit |-> cmd.found,
                patches |-> IF cmd.resolving THEN <<>> ELSE cmd.patches]
  /\ Ensured(cmd.found)
  /\ UNCHANGED <<upstream, src, wreck, bounds>>

-----------------------------------------------------------------------------
(* applyPatchesFor, then the build *)

Positions(p) == {i \in DOMAIN src.applied : src.applied[i] = p}

(* Mutant: every patch is applied again. *)
ShowsAppliedNever(p) == FALSE

(* git apply --reverse --check: the patch is in the files, and no later one*)
(* has changed its lines.  A tree that was killed in the middle of a patch *)
(* misses the files git removes before it writes them; a removal that was  *)
(* killed may have left the files of the patch, or not (PatchFails).       *)
Readable == src.whole \/ wreck = "removal"

ShowsApplied(p) ==
  /\ Readable
  /\ \E i \in Positions(p) :
       \A j \in (i + 1)..Len(src.applied) : <<p, src.applied[j]>> \notin Masks

Applies(p) == Readable /\ src.intact /\ p \notin Bad /\ Positions(p) = {}

Patching == pc = "patch" /\ cmd.next <= Len(cmd.patches)
Patch == cmd.patches[cmd.next]
NextPatch == Go("patch", [cmd EXCEPT !.next = @ + 1])

SkipPatch ==
  /\ Patching /\ ShowsApplied(Patch)
  /\ NextPatch
  /\ UNCHANGED <<upstream, disk, bounds>>

ApplyPatch ==
  /\ Patching /\ ~ShowsApplied(Patch) /\ Applies(Patch)
  /\ src' = [src EXCEPT !.applied = Append(@, Patch)]
  /\ NextPatch
  /\ UNCHANGED <<upstream, state, wreck, bounds>>

(* The 3-way merge may leave its conflicts in the files.                   *)
PatchFails ==
  /\ Patching
  /\ wreck = "removal" \/ (~ShowsApplied(Patch) /\ ~Applies(Patch))
  /\ \E whole \in {src.whole, FALSE} : src' = [src EXCEPT !.whole = whole]
  /\ Goto("clear")
  /\ UNCHANGED <<upstream, state, wreck, bounds>>

ClearPatchState ==
  /\ pc = "clear"
  /\ state' = IF state = NoState THEN NoState ELSE [state EXCEPT !.patches = <<>>]
  /\ wreck' = IF wreck = "removal" THEN wreck ELSE "patch"
  /\ Fail("patch")
  /\ UNCHANGED <<upstream, src, bounds>>

(* The build of the package leaves files in the tree.                      *)
Compile ==
  /\ pc = "patch" /\ cmd.next > Len(cmd.patches)
  /\ src' = [src EXCEPT !.litter = @ \cup {<<src.head, src.applied>>}]
  /\ Goto("built")
  /\ UNCHANGED <<upstream, state, wreck, bounds>>

-----------------------------------------------------------------------------
(* pkg link removes src, then the state; pkg clean --all the whole root.   *)
Link == Command("unsource", Idle)
Clean == Command("unroot", Idle)

CleanMaterializedSource ==
  /\ pc = "unsource"
  /\ src' = NoTree /\ wreck' = "none"
  /\ Goto("unstate")
  /\ UNCHANGED <<upstream, state, bounds>>

RemoveState ==
  /\ pc = "unstate"
  /\ state' = NoState
  /\ Goto("cleaned")
  /\ UNCHANGED <<upstream, src, wreck, bounds>>

CleanSource ==
  /\ pc = "unroot"
  /\ src' = NoTree /\ state' = NoState /\ wreck' = "none"
  /\ Goto("cleaned")
  /\ UNCHANGED <<upstream, bounds>>

-----------------------------------------------------------------------------
(* A command is killed; git, which it runs, with it.                       *)

Damaged == {[src EXCEPT !.whole = FALSE, !.intact = i] : i \in {src.intact, FALSE}}

(* RemoveAll deletes in no particular order.                               *)
PartlyRemoved ==
  {[t EXCEPT !.head = h] : t \in Damaged, h \in {src.head, NoCommit}} \cup {NoTree}

Killed ==
  /\ kills < MaxKills /\ kills' = kills + 1
  /\ Go("idle", Idle)
  /\ UNCHANGED <<upstream, commands, moves>>

Kill ==
  /\ pc \notin {"idle", "built", "failed", "cleaned"}
  /\ UNCHANGED disk
  /\ Killed

KillGit ==
  /\ (pc = "reset" /\ src.intact) \/ (Patching /\ Applies(Patch))
  /\ src' \in Damaged /\ UNCHANGED <<state, wreck>>
  /\ Killed

KillRemoval ==
  /\ pc \in {"remove", "unsource"}
  /\ src' \in PartlyRemoved /\ UNCHANGED state
  /\ wreck' = IF pc = "unsource" THEN "removal" ELSE wreck
  /\ Killed

KillClean ==
  /\ pc = "unroot"
  /\ src' \in PartlyRemoved /\ state' \in {state, NoState} /\ wreck' = "removal"
  /\ Killed

-----------------------------------------------------------------------------
Ensure ==
  \/ Reuse \/ Resolve \/ ResolveFails
  \/ InvalidateForRestore \/ Reset \/ Sweep
  \/ Clone \/ Invalidate \/ RemoveOld \/ Publish \/ Record
Apply == SkipPatch \/ ApplyPatch \/ PatchFails \/ ClearPatchState \/ Compile
Remove == CleanMaterializedSource \/ RemoveState \/ CleanSource
Kills == Kill \/ KillGit \/ KillRemoval \/ KillClean

Next == Move \/ Build \/ Link \/ Clean \/ Ensure \/ Apply \/ Remove \/ Kills

Spec == Init /\ [][Next]_vars

-----------------------------------------------------------------------------
States == [urls : URLs, ref : Refs \cup {NoRef}, commit : Commits, patches : PatchSets \cup {<<>>}]

(* The working tree and its state file hold what their types say.          *)
TypeOK ==
  /\ upstream \in [Refs \cup {NoRef} -> Commits]
  /\ DOMAIN src = DOMAIN NoTree /\ src.head \in Commits \cup {NoCommit}
  /\ src.whole \in BOOLEAN /\ src.intact \in BOOLEAN
  /\ src.applied \in Seq(Patches)
  /\ \A l \in src.litter : l[1] \in Commits /\ l[2] \in Seq(Patches)
  /\ state \in States \cup {NoState} /\ wreck \in {"none", "removal", "patch"}
  /\ cmd.commit \in Commits \cup {NoCommit} /\ cmd.found \in Commits \cup {NoCommit}
  /\ commands <= MaxCommands /\ kills <= MaxKills /\ moves <= MaxMoves

(* A build compiles the commit it reports, which is the locked one if there*)
(* is one, with all its files, the patches of the script and no others     *)
(* (EnsureSource and applyPatchesFor).                                     *)
BuiltIsWhatWasAsked ==
  pc = "built" =>
    /\ src.head = cmd.commit
    /\ cmd.pin # NoCommit => src.head = cmd.pin
    /\ src.whole
    /\ src.applied = cmd.patches

(* The two ways a tree is reused that is not what its state says: a command*)
(* that deletes it was killed (pkg clean, pkg link), and the patches of the*)
(* script were dropped after one of them had failed (ClearPatchState).     *)
Untold == wreck = "removal" \/ (wreck = "patch" /\ cmd.patches = <<>>)

(* A build compiles what was asked of it, whatever earlier commands,       *)
(* finished, failed or killed anywhere, have left in the tree, those two   *)
(* ways apart (EnsureSource, materialize and applyPatchesFor).             *)
BuiltIsAsked == ~Untold => BuiltIsWhatWasAsked

(* What an earlier build left in the tree is from the same commit with the *)
(* same patches (restoreTree sweeps, a clone starts anew).                 *)
NoForeignLitter ==
  pc = "built" /\ ~Untold => src.litter = {<<cmd.commit, cmd.patches>>}

(* A state file never names a commit when HEAD names another: it goes      *)
(* before the tree does and comes back after (materialize, EnsureSource).  *)
StateIsHonest ==
  state # NoState => src.head \in {state.commit, NoCommit}

(* After a patch has failed, the same build starts from a clean tree       *)
(* (applyPatchesFor: "the next invocation recreates a clean tree").        *)
FailedPatchIsRemade ==
  pc = "failed" /\ cmd.why = "patch" /\ state # NoState => state.patches # cmd.patches

(* When nothing is killed, a series fails for a patch that does not apply, *)
(* or for a later one that hides an earlier one of a tree that is reused;  *)
(* a patch that is in the tree is skipped (applyPatchesContext).           *)
GoodPatchesApply ==
  kills = 0 /\ pc = "failed" /\ cmd.why = "patch" =>
    \E i \in DOMAIN cmd.patches :
      \/ cmd.patches[i] \in Bad
      \/ \E j \in DOMAIN cmd.patches : i < j /\ <<cmd.patches[i], cmd.patches[j]>> \in Masks

(* The three: nothing foreign is compiled, a failed patch is remade, and a *)
(* good one does not fail (restoreTree, applyPatchesFor).                  *)
TreeIsSound == NoForeignLitter /\ FailedPatchIsRemade /\ GoodPatchesApply
=============================================================================
