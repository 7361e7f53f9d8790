---------------------------- MODULE ExternalTarget ----------------------------
(***************************************************************************)
(* A remote package that another build system makes: its TargetVoid calls  *)
(* CMakeConfigure, CMakeBuild and CMakeInstall (pkg/api/package_cmake.go   *)
(* and package_cmake_incremental.go), and a second TargetVoid declares its *)
(* inputs and outputs, so that vmake skips it while they stay the same     *)
(* (finalizeIncrementalVoid in pkg/build/scheduler_link.go).  Both work in *)
(* the directory of the build key (pkg/pipeline/layout.go, keys.go,        *)
(* pkg/build/key.go), which later commands find again.                     *)
(*                                                                         *)
(* A configuration is <<args, lists>>: what the script, the environment    *)
(* and the cmake it finds make the arguments, and the contents of the      *)
(* files that a configure reads.  Every edit makes a new content.  The     *)
(* user edits at any time; any step may fail or be the last before a kill. *)
(***************************************************************************)
EXTENDS Integers, FiniteSets

CONSTANTS
  Keys,        \* the build keys: options, mode and tools that the user switches between
  MaxChanges,  \* bound: edits
  MaxRuns      \* bound: commands

ASSUME ExternalAssumption == Keys # {} /\ MaxChanges \in Nat /\ MaxRuns \in Nat

VARIABLES
  project,     \* what the user edits, and the key it selects
  trees,       \* the directory of each key
  run,         \* the command
  runs

externalVars == <<project, trees, run, runs>>

None == <<>>
TornFile == <<-1>>

(* No configure has run here, and nothing is built or installed.  Of a     *)
(* tree, "doubtful" is one whose stamp or record was computed after what   *)
(* it is about, with an edit between the two.                              *)
EmptyTree ==
  [cache |-> None, stamp |-> None, built |-> None, installed |-> {}, doubtful |-> FALSE,
   output |-> None, record |-> None, outputDoubtful |-> FALSE]

NoRun == [pc |-> "idle", key |-> CHOOSE k \in Keys : TRUE, args |-> 0, fingerprint |-> None,
          from |-> 0, edited |-> FALSE]

Tree == trees[run.key]
Becomes(t) == trees' = [trees EXCEPT ![run.key] = t]
RunAt(pc) == run.pc = pc
Continue(pc) == run' = [run EXCEPT !.pc = pc]
Underway == run.pc \notin {"idle", "succeeded"}

ExternalInit ==
  /\ project = [args |-> 0, lists |-> 0, src |-> 0, deletions |-> 0,
              key |-> NoRun.key]
  /\ trees = [k \in Keys |-> EmptyTree] /\ run = NoRun /\ runs = 0

-----------------------------------------------------------------------------
Edits == project.args + project.lists + project.src + project.deletions

(* An edit of a file between its use and the digest that is recorded of it.*)
Missed(file) ==
  IF file = "lists" THEN run.pc \in {"configuring", "stamp"} /\ run.fingerprint = None
  ELSE run.pc \in {"generating", "record"}

EditFile(file) ==
  /\ Edits < MaxChanges /\ project' = [project EXCEPT ![file] = @ + 1]
  /\ run' = [run EXCEPT !.edited = run.pc # "idle"]
  /\ IF ~Missed(file) THEN UNCHANGED trees
     ELSE IF file = "lists" THEN Becomes([Tree EXCEPT !.doubtful = TRUE])
     ELSE Becomes([Tree EXCEPT !.outputDoubtful = TRUE])
  /\ UNCHANGED runs

(* The script is read when a command starts.                               *)
EditScript ==
  /\ Edits < MaxChanges /\ project' = [project EXCEPT !.args = @ + 1]
  /\ UNCHANGED <<trees, run, runs>>

SelectKey ==
  /\ ~Underway /\ run' = NoRun
  /\ \E k \in Keys \ {project.key} : project' = [project EXCEPT !.key = k]
  /\ UNCHANGED <<trees, runs>>

(* A build.ninja, Makefile, cache or output deleted by hand.               *)
DeleteFiles ==
  /\ ~Underway /\ run' = NoRun
  /\ Edits < MaxChanges /\ project' = [project EXCEPT !.deletions = @ + 1]
  /\ \/ trees' = [trees EXCEPT ![project.key].cache = None]
     \/ trees' = [trees EXCEPT ![project.key].output = None]
  /\ UNCHANGED runs

(* A command fails, or is killed.                                          *)
StopRun == Underway /\ run' = NoRun /\ UNCHANGED <<project, trees, runs>>

-----------------------------------------------------------------------------
(* The staging of a remote package starts empty in every command.          *)
clearRemoteInstallDirs(key) == [trees EXCEPT ![key].installed = {}]

StartRun ==
  /\ ~Underway /\ runs < MaxRuns /\ runs' = runs + 1
  /\ run' = [NoRun EXCEPT !.pc = "check", !.key = project.key, !.args = project.args]
  /\ trees' = clearRemoteInstallDirs(project.key)
  /\ UNCHANGED project

(* What the arguments and the files are now.                               *)
Fingerprint == <<run.args, project.lists>>

(* The fingerprint is computed only for a stamp that can be used, and even *)
(* then that may fail.                                                     *)
cmakeConfigureState ==
  IF Tree.stamp = None \/ Tree.cache = None THEN {None} ELSE {None, Fingerprint}

CheckConfigure ==
  /\ RunAt("check")
  /\ \E f \in cmakeConfigureState :
       run' = [run EXCEPT !.fingerprint = f,
                          !.pc = IF f # None /\ f = Tree.stamp THEN "build" ELSE "configure"]
  /\ UNCHANGED <<project, trees, runs>>

Configuring == [run EXCEPT !.pc = "configuring", !.from = project.lists]

(* Mutant: the stamp of the last configure stays until it is overwritten.  *)
ConfigureOverStamp ==
  /\ RunAt("configure") /\ run' = Configuring
  /\ Becomes([Tree EXCEPT !.cache = TornFile, !.doubtful = FALSE])
  /\ UNCHANGED <<project, runs>>

(* The stamp is removed before the configure touches its directory.        *)
BeginConfigure ==
  /\ RunAt("configure") /\ run' = Configuring
  /\ Becomes([Tree EXCEPT !.stamp = None, !.cache = TornFile, !.doubtful = FALSE])
  /\ UNCHANGED <<project, runs>>

(* An edit meanwhile is read, or not.                                      *)
EndConfigure ==
  /\ RunAt("configuring") /\ run' = [run EXCEPT !.pc = "stamp", !.from = 0]
  /\ \E lists \in run.from .. project.lists : Becomes([Tree EXCEPT !.cache = <<run.args, lists>>])
  /\ UNCHANGED <<project, runs>>

(* The fingerprint from before the configure is saved when there is one.   *)
(* A failure is logged only.                                               *)
saveCMakeConfigureStamp ==
  /\ RunAt("stamp") /\ Continue("build")
  /\ \/ Becomes([Tree EXCEPT !.stamp =
                   IF run.fingerprint # None THEN run.fingerprint ELSE Fingerprint])
     \/ UNCHANGED trees
  /\ UNCHANGED <<project, runs>>

(* cmake --build makes what the configuration asks for of the sources.     *)
CMakeBuild ==
  /\ RunAt("build") /\ Continue("install")
  /\ Becomes([Tree EXCEPT !.built = <<Tree.cache, project.src>>])
  /\ UNCHANGED <<project, runs>>

(* CMakeLists.txt names the files it installs.                             *)
FileName(built) == built[1][2]

CMakeInstall ==
  /\ RunAt("install") /\ Continue("void")
  /\ Becomes([Tree EXCEPT !.installed =
                {f \in @ : FileName(f) # FileName(Tree.built)} \cup {Tree.built}])
  /\ UNCHANGED <<project, runs>>

-----------------------------------------------------------------------------
(* The target that declares its inputs and outputs.                        *)

UpToDate ==
  /\ Tree.record # None /\ Tree.output # None
  /\ Tree.record = <<run.args, project.src, Tree.output>>

(* The record is invalidated before the callback is called.                *)
finalizeIncrementalVoid ==
  /\ RunAt("void")
  /\ IF UpToDate THEN Continue("succeeded") /\ UNCHANGED trees
     ELSE /\ run' = [run EXCEPT !.pc = "generating", !.from = project.src]
          /\ Becomes([Tree EXCEPT !.record = None, !.output = TornFile, !.outputDoubtful = FALSE])
  /\ UNCHANGED <<project, runs>>

buildVoidTarget ==
  /\ RunAt("generating") /\ run' = [run EXCEPT !.pc = "record", !.from = 0]
  /\ \E src \in run.from .. project.src : Becomes([Tree EXCEPT !.output = <<src>>])
  /\ UNCHANGED <<project, runs>>

SaveRecord ==
  /\ RunAt("record") /\ Continue("succeeded")
  /\ Becomes([Tree EXCEPT !.record = <<run.args, project.src, Tree.output>>])
  /\ UNCHANGED <<project, runs>>

-----------------------------------------------------------------------------
UserSteps == (\E file \in {"lists", "src"} : EditFile(file)) \/ EditScript \/ SelectKey \/ DeleteFiles
CMake ==
  CheckConfigure \/ BeginConfigure \/ EndConfigure
    \/ saveCMakeConfigureStamp \/ CMakeBuild \/ CMakeInstall
Void == finalizeIncrementalVoid \/ buildVoidTarget \/ SaveRecord

ExternalNext == UserSteps \/ StartRun \/ StopRun \/ CMake \/ Void
ExternalSpec == ExternalInit /\ [][ExternalNext]_externalVars

-----------------------------------------------------------------------------
(* A command that succeeds, with no edit while it ran, has installed what  *)
(* the script, the files and the sources make now, and nothing else; what  *)
(* earlier commands left behind, failed, killed or of another option, does *)
(* not show.  Excepted is an edit between a first configure, or a callback,*)
(* and the digest that is recorded of its inputs only afterwards.          *)
ConfiguredIsCurrent ==
  Tree.doubtful \/ Tree.installed = {<<Fingerprint, project.src>>}
OutputIsCurrent == Tree.outputDoubtful \/ Tree.output = <<project.src>>

VoidIsCurrent ==
  RunAt("succeeded") /\ ~run.edited => ConfiguredIsCurrent /\ OutputIsCurrent
=============================================================================
