--------------------------- MODULE BuildReportProofs ---------------------------
(***************************************************************************)
(* Proofs about BuildReport, for any targets, kinds and prefixes of        *)
(* packages.                                                               *)
(*                                                                         *)
(* A report of success is saved by the last step of a command, and lists   *)
(* what an earlier step has compared with what is installed.  In between   *)
(* nobody else writes there (DoneInv), and while a command installs or     *)
(* cleans a prefix, no report of a build lists anything (ReportInv).       *)
(*                                                                         *)
(* Then proofs about the two other modules that MCCommand checks: the      *)
(* targets of another build system (ExternalTarget), for any keys, and the *)
(* values of one option (OptionValues), for any packages and values.       *)
(***************************************************************************)
EXTENDS BuildReport, ExternalTarget, OptionValues, FiniteSetTheorems, TLAPS

Bytes == Seq(Nat)
Dirs ==
  [files : [Targets -> Bytes], marker : BOOLEAN, manifest : BOOLEAN,
   user : {"none", "kept", "claimed"}]
Files == Targets \X PrefixNames
Artifacts == [target : Targets, prefix : PrefixNames, digest : Bytes]
Outcomes == UNION {[ran -> {"passed", "failed"}] : ran \in SUBSET Tests}
ReportRecords ==
  [status : {"none", "running", "failed", "cancelled", "succeeded"}, conf : Nat,
   files : SUBSET Artifacts, tests : Outcomes]

BuildNames == {"build", "rebuild", "test"}
CleanNames == {"clean", "distclean", "pkg clean"}
InstallPcs == {"check", "install", "remove", "mark", "copy", "write"}
BuildPcs == InstallPcs \cup {"resolve", "clean", "bind", "build", "complete", "tests", "finish"}
Commands ==
  [name : {"none"} \cup BuildNames \cup CleanNames,
   pc : {"idle", "invalidate", "outputs"} \cup BuildPcs,
   prefix : {"none", "default", "custom"}, sdk : BOOLEAN, conf : Nat, todo : Seq(Targets),
   files : SUBSET Files, signal : BOOLEAN, err : {"none", "failed", "panicked"}, done : BOOLEAN,
   pending : ReportRecords]

TypeOK ==
  /\ source \in Nat /\ config \in Nat
  /\ out \in [Targets -> Bytes] /\ dirs \in [PrefixNames -> Dirs]
  /\ report \in [Reports -> ReportRecords] /\ cmd \in Commands
  /\ waiting \in BOOLEAN /\ lost \subseteq Reports /\ commands \in Nat

(* Which command is where                                                  *)
PlaceInv ==
  /\ Idle => cmd = NoCommand
  /\ cmd.pc \in BuildPcs <=> Publishing
  /\ At("invalidate") => cmd.name \in {"clean", "distclean"}
  /\ At("outputs") => cmd.name \in CleanNames
  /\ Publishing => cmd.pending.status = "running"
  /\ cmd.name = "test" => cmd.prefix = "none"
  /\ cmd.pc \in InstallPcs => cmd.prefix # "none"
  /\ At("tests") => cmd.name = "test"
  /\ At("write") => cmd.todo # <<>> /\ Kind[Head(cmd.todo)] # "test"

(* What has been built is of the configuration that was read.              *)
BuiltPcs == {"install", "remove", "mark", "copy", "write", "complete", "tests"}
BuiltInv ==
  cmd.pc \in BuiltPcs \/ cmd.done =>
    /\ cmd.pending.conf = cmd.conf
    /\ \A t \in Built \ Tests : out[t][2] = cmd.conf

CheckedInv ==
  /\ cmd.pc \in {"check", "build"} => cmd.pending.conf = cmd.conf
  /\ \A file \in cmd.files : file[1] \notin Tests

(* What a report of success will list is in its place.                     *)
DoneInv ==
  /\ cmd.done => cmd.pc \in {"tests", "finish"}
  /\ ~cmd.done => cmd.pending.files = {}
  /\ \A a \in cmd.pending.files :
       /\ dirs[a.prefix].files[a.target] = a.digest
       /\ Kind[a.target] # "extra" => a.digest[2] = cmd.conf

ReportInv ==
  /\ ReportedIsInstalled
  /\ cmd.name \in {"build", "rebuild"} => report["build"].files = {}
  /\ At("outputs") /\ cmd.name = "distclean" => report["build"].files = {}

TestInv ==
  At("finish") /\ cmd.name = "test" /\ cmd.done /\ cmd.err = "none" /\ ~cmd.signal =>
    cmd.pending.tests = [t \in Tests |-> "passed"]

(* The user's file is not where vmake removes files, or will.              *)
KeptInv ==
  dirs["custom"].marker \/ (cmd.prefix = "custom" /\ cmd.pc \in {"remove", "mark"}) =>
    dirs["custom"].user # "kept"

IInv ==
  /\ TypeOK /\ PlaceInv /\ BuiltInv /\ CheckedInv /\ DoneInv /\ ReportInv /\ TestInv
  /\ TestedIsPassed /\ KeptInv /\ NothingSaysRunning

-----------------------------------------------------------------------------
(* Types.                                                                  *)

LEMMA Empties ==
  /\ NoReport \in ReportRecords /\ Running \in ReportRecords
  /\ NoCommand \in Commands /\ EmptyDir \in Dirs
<1>1. NoResults \in Outcomes
  <2>1. NoResults \in [{} -> {"passed", "failed"}]
    BY DEF NoResults
  <2> QED
    BY <2>1 DEF Outcomes
<1>2. NoReport \in ReportRecords /\ Running \in ReportRecords
  BY <1>1 DEF NoReport, Running, ReportRecords
<1>3. NoCommand \in Commands
  BY <1>2 DEF NoCommand, Commands, BuildNames, CleanNames, BuildPcs, InstallPcs
<1>4. EmptyDir \in Dirs
  BY DEF EmptyDir, Dirs, NoFile, Bytes
<1> QED
  BY <1>2, <1>3, <1>4

LEMMA UserTypes == TypeOK /\ User => TypeOK'
<1> SUFFICES ASSUME TypeOK, User PROVE TypeOK'
  OBVIOUS
<1>1. CASE EditSource \/ EditConfig
  BY <1>1 DEF TypeOK, EditSource, EditConfig
<1>2. CASE PutFile
  <2>1. dirs' \in [PrefixNames -> Dirs]
    BY <1>2 DEF PutFile, TypeOK, Dirs, PrefixNames
  <2> QED
    BY <1>2, <2>1 DEF PutFile, TypeOK, user
<1>3. CASE Interrupt
  BY <1>3 DEF TypeOK, Interrupt, Commands, user
<1>4. CASE Kill
  BY <1>4, Empties DEF TypeOK, Kill, user, Mine, Reports
<1> QED
  BY <1>1, <1>2, <1>3, <1>4 DEF User

LEMMA StartTypes == TypeOK /\ Start => TypeOK'
<1> SUFFICES ASSUME TypeOK, Start PROVE TypeOK'
  OBVIOUS
<1>0. commands' \in Nat
  BY DEF TypeOK, Start
<1>1. ASSUME NEW name \in BuildNames, NEW prefix \in {"none", "default", "custom"},
             NEW sdk \in BOOLEAN, Begin(name, prefix, sdk)
      PROVE  TypeOK'
  <2>1. cmd' \in Commands
    BY <1>1, Empties DEF Begin, Commands, BuildPcs
  <2>2. report' \in [Reports -> ReportRecords] /\ lost' \subseteq Reports
    BY <1>1, Empties DEF Begin, TypeOK, Reports
  <2> QED
    BY <1>0, <1>1, <2>1, <2>2 DEF Begin, TypeOK, user
<1>2. ASSUME NEW name \in {"clean", "distclean"}, BeginClean(name)
      PROVE  TypeOK'
  BY <1>0, <1>2, Empties DEF BeginClean, TypeOK, Commands, CleanNames, user
<1>3. CASE PkgCleanInvalidate
  BY <1>0, <1>3, Empties DEF PkgCleanInvalidate, TypeOK, user
<1> QED
  BY <1>1, <1>2, <1>3 DEF Start, BuildNames

LEMMA BuildTypes == TypeOK /\ Build => TypeOK'
<1> SUFFICES ASSUME TypeOK, Build PROVE TypeOK'
  OBVIOUS
<1>1. CASE Resolve \/ ValidateInstallPrefix \/ Fail
  BY <1>1 DEF TypeOK, Resolve, ValidateInstallPrefix, Fail, Goto, Stop, Commands, BuildPcs, user
<1>2. CASE CleanLocal
  <2>1. out' \in [Targets -> Bytes]
    BY <1>2 DEF TypeOK, CleanLocal, Bytes, NoFile
  <2>2. cmd' \in Commands
    BY <1>2 DEF TypeOK, CleanLocal, Goto, Commands, BuildPcs
  <2> QED
    BY <1>2, <2>1, <2>2 DEF TypeOK, CleanLocal, user
<1>3. CASE Bind
  <2>1. cmd' \in Commands
    BY <1>3 DEF TypeOK, Bind, Commands, BuildPcs, InstallPcs, ReportRecords
  <2> QED
    BY <1>3, <2>1 DEF TypeOK, Bind, Commands, user, Mine, Reports
<1>4. CASE RunBuildPhase
  <2>1. Output \in Bytes
    BY DEF TypeOK, Output, Bytes, Commands
  <2>2. out' \in [Targets -> Bytes]
    BY <1>4, <2>1 DEF RunBuildPhase, TypeOK
  <2>3. \/ Goto("complete") \/ Goto("install") \/ Stop("failed")
    BY <1>4 DEF RunBuildPhase
  <2>4. cmd' \in Commands
    <3>1. CASE Stop("failed")
      BY <3>1 DEF TypeOK, Stop, Commands, BuildPcs
    <3>2. CASE Goto("complete") \/ Goto("install")
      BY <3>2 DEF TypeOK, Goto, Commands, BuildPcs, InstallPcs
    <3> QED
      BY <2>3, <3>1, <3>2
  <2> QED
    BY <1>4, <2>2, <2>4 DEF TypeOK, RunBuildPhase, user
<1> QED
  BY <1>1, <1>2, <1>3, <1>4 DEF Build

LEMMA SourceTypes ==
  ASSUME TypeOK, NEW t \in Targets
  PROVE  Source(t) \in Bytes
BY DEF TypeOK, Source, Bytes

LEMMA DestinationTypes ==
  ASSUME TypeOK, cmd.prefix # "none", NEW t \in Targets
  PROVE  Destination(t) \in PrefixNames
BY DEF TypeOK, Destination, PrefixNames, Commands

LEMMA WritingTypes ==
  ASSUME NEW dir \in Dirs, NEW t \in Targets, NEW b \in Bytes
  PROVE  [dir EXCEPT !.files[t] = b] \in Dirs
<1>1. [dir.files EXCEPT ![t] = b] \in [Targets -> Bytes]
  BY DEF Dirs
<1> QED
  BY <1>1 DEF Dirs

LEMMA RemovalTypes ==
  ASSUME NEW dir \in Dirs, NEW left \in Removals(dir)
  PROVE  left \in Dirs
<1>1. CASE left = [dir EXCEPT !.marker = FALSE] \/ left = [dir EXCEPT !.manifest = FALSE]
             \/ left = [dir EXCEPT !.user = "none"]
  BY <1>1 DEF Dirs
<1>2. CASE \E t \in Targets : left = [dir EXCEPT !.files[t] = NoFile]
  <2>1. PICK t \in Targets : left = [dir EXCEPT !.files[t] = NoFile]
    BY <1>2
  <2>2. NoFile \in Bytes
    BY DEF NoFile, Bytes
  <2> QED
    BY <2>1, <2>2, WritingTypes
<1> QED
  BY <1>1, <1>2 DEF Removals

LEMMA InstallTypes == TypeOK /\ PlaceInv /\ Install => TypeOK'
<1> SUFFICES ASSUME TypeOK, PlaceInv, Install PROVE TypeOK'
  OBVIOUS
<1>1. CASE StartInstall \/ Removed
  BY <1>1 DEF TypeOK, StartInstall, Removed, Goto, Commands, BuildPcs, InstallPcs, user
<1> DEFINE p == cmd.prefix
<1>0. cmd \in Commands /\ dirs \in [PrefixNames -> Dirs]
  BY DEF TypeOK
<1>2. ASSUME cmd.pc \in InstallPcs
      PROVE  p \in PrefixNames
  BY <1>2 DEF TypeOK, Commands, PlaceInv, PrefixNames
<1>3. CASE RemovePrefix
  <2>1. PICK dir \in Removals(dirs[p]) : dirs' = [dirs EXCEPT ![p] = dir]
    BY <1>3 DEF RemovePrefix
  <2>2. dirs' \in [PrefixNames -> Dirs]
    BY <1>0, <1>2, <1>3, <2>1, RemovalTypes DEF RemovePrefix, At, InstallPcs
  <2> QED
    BY <1>3, <2>2 DEF TypeOK, RemovePrefix, user
<1>4. CASE MarkPrefix
  <2>1. dirs' \in [PrefixNames -> Dirs]
    BY <1>0, <1>2, <1>4 DEF MarkPrefix, At, InstallPcs, Dirs
  <2>2. cmd' \in Commands
    BY <1>0, <1>4, ReportAssumption DEF MarkPrefix, Commands, BuildPcs, InstallPcs
  <2> QED
    BY <1>4, <2>1, <2>2 DEF TypeOK, MarkPrefix, user
<1>5. CASE WriteManifest
  <2>1. dirs' \in [PrefixNames -> Dirs]
    BY <1>0, <1>2, <1>5 DEF WriteManifest, At, InstallPcs, Dirs
  <2>2. cmd' \in Commands
    BY <1>0, <1>5 DEF WriteManifest, Goto, Commands, BuildPcs, InstallPcs
  <2> QED
    BY <1>5, <2>1, <2>2 DEF TypeOK, WriteManifest, user
<1>6. CASE SkipTarget \/ TruncateTarget \/ WriteTarget
  <2> DEFINE t == Head(cmd.todo)
             d == Destination(t)
             bytes == IF TruncateTarget THEN Torn ELSE Source(t)
  <2>1. cmd.todo # <<>> /\ cmd.pc \in {"copy", "write"}
    BY <1>6 DEF SkipTarget, TruncateTarget, WriteTarget, PlaceInv, At
  <2>2. t \in Targets /\ Tail(cmd.todo) \in Seq(Targets)
    BY <1>0, <2>1 DEF Commands
  <2>3. d \in PrefixNames
    BY <2>1, <2>2, DestinationTypes DEF PlaceInv, InstallPcs
  <2>4. Torn \in Bytes /\ Source(t) \in Bytes
    BY <2>2, SourceTypes DEF Torn, Bytes
  <2>5. dirs' = dirs \/ \E b \in Bytes : dirs' = [dirs EXCEPT ![d].files[t] = b]
    BY <1>6, <2>4 DEF SkipTarget, TruncateTarget, WriteTarget
  <2>6. dirs' \in [PrefixNames -> Dirs]
    <3>1. ASSUME NEW b \in Bytes
          PROVE  [dirs[d] EXCEPT !.files[t] = b] \in Dirs
      BY <1>0, <2>2, <2>3, WritingTypes
    <3> HIDE DEF t, d
    <3> QED
      BY <1>0, <2>3, <2>5, <3>1
  <2>7. ASSUME NEW recorded \in BOOLEAN, InstallNext(t, recorded)
        PROVE  cmd' \in Commands
    <3>1. cmd.files \cup (IF recorded THEN {<<t, d>>} ELSE {}) \in SUBSET Files
      BY <1>0, <2>2, <2>3 DEF Commands, Files
    <3> QED
      BY <1>0, <2>2, <2>7, <3>1 DEF InstallNext, Commands, BuildPcs, InstallPcs
  <2>8. cmd' \in Commands
    BY <1>0, <1>6, <2>7 DEF SkipTarget, TruncateTarget, WriteTarget, Goto, Commands, BuildPcs, InstallPcs
  <2> QED
    BY <1>6, <2>6, <2>8 DEF TypeOK, SkipTarget, TruncateTarget, WriteTarget, user
<1> QED
  BY <1>1, <1>3, <1>4, <1>5, <1>6 DEF Install

LEMMA PublishTypes == TypeOK /\ PlaceInv /\ Publish => TypeOK'
<1> SUFFICES ASSUME TypeOK, PlaceInv, Publish PROVE TypeOK'
  OBVIOUS
<1>0. cmd \in Commands /\ cmd.pending \in ReportRecords
  BY DEF TypeOK, Commands
<1>1. CASE Complete
  <2>1. CASE Stop("failed")
    BY <1>0, <1>1, <2>1 DEF Complete, Stop, Commands, BuildPcs, TypeOK, user
  <2>2. CASE ~Stop("failed")
    <3> DEFINE files == {Artifact(file) : file \in cmd.files}
    <3>1. files \subseteq Artifacts
      BY <1>0, SourceTypes DEF Commands, Files, Artifact, Artifacts
    <3>2. [cmd.pending EXCEPT !.files = files] \in ReportRecords
      BY <1>0, <3>1 DEF ReportRecords
    <3>3. cmd' \in Commands
      BY <1>0, <1>1, <2>2, <3>2 DEF Complete, Commands, BuildPcs
    <3> QED
      BY <1>1, <3>3 DEF Complete, TypeOK, user
  <2> QED
    BY <2>1, <2>2
<1>2. CASE RunAllTests
  <2>1. PICK ran \in SUBSET Tests : \E results \in [ran -> {"passed", "failed"}] :
          cmd' = [cmd EXCEPT !.pending.tests = results, !.pc = "finish",
                    !.err = IF \E t \in ran : results[t] = "failed" THEN "failed" ELSE @]
    BY <1>2 DEF RunAllTests
  <2>2. PICK results \in [ran -> {"passed", "failed"}] :
          cmd' = [cmd EXCEPT !.pending.tests = results, !.pc = "finish",
                    !.err = IF \E t \in ran : results[t] = "failed" THEN "failed" ELSE @]
    BY <2>1
  <2>3. results \in Outcomes
    BY DEF Outcomes
  <2>4. [cmd.pending EXCEPT !.tests = results] \in ReportRecords
    BY <1>0, <2>3 DEF ReportRecords
  <2>5. cmd' \in Commands
    BY <1>0, <2>2, <2>4 DEF Commands, BuildPcs
  <2> QED
    BY <1>2, <2>5 DEF RunAllTests, TypeOK, user
<1>3. CASE Finish
  <2>1. Finished \in ReportRecords
    BY <1>0 DEF Finished, Status, ReportRecords
  <2> QED
    BY <1>3, <2>1, Empties DEF Finish, TypeOK, user, Mine, Reports
<1> QED
  BY <1>1, <1>2, <1>3 DEF Publish

LEMMA CleanTypes == TypeOK /\ Clean => TypeOK'
<1> SUFFICES ASSUME TypeOK, Clean PROVE TypeOK'
  OBVIOUS
<1>0. cmd \in Commands /\ Order \in Seq(Targets)
  BY ReportAssumption DEF TypeOK
<1>1. CASE Invalidate
  <2>1. cmd' \in Commands
    BY <1>0, <1>1, Empties DEF Invalidate, Commands
  <2>2. report' \in [Reports -> ReportRecords]
    BY <1>1, Empties DEF Invalidate, TypeOK
  <2> QED
    BY <1>1, <2>1, <2>2 DEF Invalidate, TypeOK, user
<1>2. CASE CleanOutputs
  <2>1. cmd' \in Commands
    <3>1. cmd.todo # <<>> => Tail(cmd.todo) \in Seq(Targets)
      BY <1>0 DEF Commands
    <3> QED
      BY <1>0, <1>2, <3>1 DEF CleanOutputs, Commands
  <2>2. out' \in [Targets -> Bytes]
    <3>1. NoFile \in Bytes
      BY DEF NoFile, Bytes
    <3> QED
      BY <1>2, <3>1 DEF CleanOutputs, TypeOK
  <2> QED
    BY <1>2, <2>1, <2>2 DEF CleanOutputs, TypeOK, user
<1>3. CASE CleanInstall
  <2>1. dirs["default"] \in Dirs
    BY DEF TypeOK, PrefixNames
  <2>2. dirs' \in [PrefixNames -> Dirs]
    BY <1>3, <2>1, RemovalTypes DEF CleanInstall, TypeOK
  <2> QED
    BY <1>3, <2>2 DEF CleanInstall, TypeOK, user
<1>4. CASE EndClean
  BY <1>4, Empties DEF EndClean, TypeOK, user
<1>5. CASE BeginPkgClean
  BY <1>0, <1>5, Empties DEF BeginPkgClean, TypeOK, user, Commands, CleanNames
<1> QED
  BY <1>1, <1>2, <1>3, <1>4, <1>5 DEF Clean

LEMMA TypeStep == TypeOK /\ PlaceInv /\ [Next]_vars => TypeOK'
<1>1. TypeOK /\ UNCHANGED vars => TypeOK'
  BY DEF TypeOK, vars
<1> QED
  BY <1>1, UserTypes, StartTypes, BuildTypes, InstallTypes, PublishTypes, CleanTypes DEF Next

-----------------------------------------------------------------------------
(* What the two steps do that fill in the report.                          *)

LEMMA CompleteSays ==
  ASSUME TypeOK, Complete, ~Stop("failed")
  PROVE  /\ cmd.pc = "complete" /\ UNCHANGED <<out, dirs, report, lost>>
         /\ \A file \in cmd.files : Same(file)
         /\ cmd'.pc = (IF cmd.name = "test" THEN "tests" ELSE "finish") /\ cmd'.done
         /\ cmd'.pending.files = {Artifact(file) : file \in cmd.files}
         /\ cmd'.pending.status = cmd.pending.status /\ cmd'.pending.conf = cmd.pending.conf
         /\ cmd'.name = cmd.name /\ cmd'.prefix = cmd.prefix /\ cmd'.conf = cmd.conf
         /\ cmd'.files = cmd.files /\ cmd'.err = cmd.err /\ cmd'.signal = cmd.signal
<1> DEFINE files == {Artifact(file) : file \in cmd.files}
<1>1. /\ \A file \in cmd.files : Same(file)
      /\ cmd' = [cmd EXCEPT !.pc = IF cmd.name = "test" THEN "tests" ELSE "finish",
                            !.pending.files = files, !.done = TRUE]
  BY DEF Complete
<1>2. cmd \in Commands /\ cmd.pending \in ReportRecords
  BY DEF TypeOK, Commands
<1> HIDE DEF files
<1>3. /\ cmd'.pending.files = files
      /\ cmd'.pending.status = cmd.pending.status /\ cmd'.pending.conf = cmd.pending.conf
  BY <1>1, <1>2 DEF Commands, ReportRecords
<1>4. /\ cmd'.pc = (IF cmd.name = "test" THEN "tests" ELSE "finish") /\ cmd'.done
      /\ cmd'.name = cmd.name /\ cmd'.prefix = cmd.prefix /\ cmd'.conf = cmd.conf
      /\ cmd'.files = cmd.files /\ cmd'.err = cmd.err /\ cmd'.signal = cmd.signal
  BY <1>1, <1>2 DEF Commands
<1> QED
  BY <1>1, <1>3, <1>4 DEF files, Complete, At

LEMMA TestsSay ==
  ASSUME TypeOK, RunAllTests
  PROVE  \E ran \in SUBSET Tests : \E results \in [ran -> {"passed", "failed"}] :
           /\ ran # Tests => cmd.signal
           /\ cmd.pc = "tests" /\ UNCHANGED <<out, dirs, report, lost>> /\ cmd'.pc = "finish"
           /\ cmd'.pending.tests = results
           /\ cmd'.err = IF \E t \in ran : results[t] = "failed" THEN "failed" ELSE cmd.err
           /\ cmd'.pending.files = cmd.pending.files
           /\ cmd'.pending.status = cmd.pending.status /\ cmd'.pending.conf = cmd.pending.conf
           /\ cmd'.name = cmd.name /\ cmd'.prefix = cmd.prefix /\ cmd'.conf = cmd.conf
           /\ cmd'.files = cmd.files /\ cmd'.signal = cmd.signal /\ cmd'.done = cmd.done
<1>1. PICK ran \in SUBSET Tests : \E results \in [ran -> {"passed", "failed"}] :
        /\ ran # Tests => cmd.signal
        /\ cmd' = [cmd EXCEPT !.pending.tests = results, !.pc = "finish",
                     !.err = IF \E t \in ran : results[t] = "failed" THEN "failed" ELSE @]
  BY DEF RunAllTests
<1>2. PICK results \in [ran -> {"passed", "failed"}] :
        /\ ran # Tests => cmd.signal
        /\ cmd' = [cmd EXCEPT !.pending.tests = results, !.pc = "finish",
                     !.err = IF \E t \in ran : results[t] = "failed" THEN "failed" ELSE @]
  BY <1>1
<1> DEFINE failed == \E t \in ran : results[t] = "failed"
<1>3. cmd' = [cmd EXCEPT !.pending.tests = results, !.pc = "finish", !.err = IF failed THEN "failed" ELSE @]
  BY <1>2
<1>4. cmd \in Commands /\ cmd.pending \in ReportRecords
  BY DEF TypeOK, Commands
<1> HIDE DEF failed
<1>5. /\ cmd'.pending.tests = results /\ cmd'.pending.files = cmd.pending.files
      /\ cmd'.pending.status = cmd.pending.status /\ cmd'.pending.conf = cmd.pending.conf
  BY <1>3, <1>4 DEF Commands, ReportRecords
<1>6. /\ cmd'.pc = "finish" /\ cmd'.err = (IF failed THEN "failed" ELSE cmd.err)
      /\ cmd'.name = cmd.name /\ cmd'.prefix = cmd.prefix /\ cmd'.conf = cmd.conf
      /\ cmd'.files = cmd.files /\ cmd'.signal = cmd.signal /\ cmd'.done = cmd.done
  BY <1>3, <1>4 DEF Commands
<1> QED
  BY <1>2, <1>5, <1>6 DEF failed, RunAllTests, At

-----------------------------------------------------------------------------
(* The places.                                                             *)

(* A step that keeps the command what it is, and the place in the build.   *)
LEMMA PlaceGoesOn ==
  ASSUME TypeOK, PlaceInv, Publishing,
         cmd' \in Commands, cmd'.name = cmd.name, cmd'.prefix = cmd.prefix,
         cmd'.pending.status = cmd.pending.status, cmd'.pc \in BuildPcs,
         cmd'.pc \in InstallPcs => cmd.prefix # "none",
         cmd'.pc = "tests" => cmd.name = "test",
         cmd'.pc = "write" => cmd'.todo # <<>> /\ Kind[Head(cmd'.todo)] # "test"
  PROVE  PlaceInv'
BY DEF PlaceInv, Idle, At, Publishing, BuildPcs, InstallPcs

LEMMA NoCommandPlace == cmd' = NoCommand => PlaceInv'
BY DEF NoCommand, NoReport, PlaceInv, Idle, At, Publishing, BuildPcs, InstallPcs

LEMMA PlaceStep == TypeOK /\ TypeOK' /\ PlaceInv /\ [Next]_vars => PlaceInv'
<1> SUFFICES ASSUME TypeOK, TypeOK', PlaceInv, [Next]_vars PROVE PlaceInv'
  OBVIOUS
<1>0. cmd \in Commands /\ cmd' \in Commands /\ cmd.pending \in ReportRecords
  BY DEF TypeOK, Commands
<1>1. CASE UNCHANGED vars \/ UNCHANGED cmd
  BY <1>1 DEF vars, PlaceInv, Idle, At, Publishing
<1>2. CASE cmd' = NoCommand
  BY <1>2, NoCommandPlace
<1> DEFINE Moves(pc) ==
             /\ pc \in InstallPcs => cmd.prefix # "none"
             /\ pc = "tests" => cmd.name = "test"
             /\ pc \in BuildPcs \ {"write"}
<1>3. ASSUME cmd.pc \in BuildPcs, NEW pc, Moves(pc), cmd'.pc = pc,
             cmd'.name = cmd.name, cmd'.prefix = cmd.prefix,
             cmd'.pending.status = cmd.pending.status
      PROVE  PlaceInv'
  BY <1>0, <1>3, PlaceGoesOn DEF PlaceInv
<1>4. CASE Interrupt
  BY <1>0, <1>4, PlaceGoesOn DEF Interrupt, PlaceInv, Publishing, Commands, BuildNames, CleanNames, At, Idle
<1>5. CASE Fail
  BY <1>0, <1>3, <1>5 DEF Fail, Stop, PlaceInv, BuildPcs, InstallPcs, Commands
<1>6. CASE Start
  <2>1. ASSUME NEW name \in BuildNames, NEW prefix, NEW sdk, Begin(name, prefix, sdk)
        PROVE  PlaceInv'
    BY <2>1 DEF Begin, NoCommand, NoReport, Running, PlaceInv, Idle, At, Publishing, BuildNames, BuildPcs, InstallPcs
  <2>2. ASSUME NEW name \in {"clean", "distclean"}, BeginClean(name)
        PROVE  PlaceInv'
    BY <2>2 DEF BeginClean, NoCommand, PlaceInv, Idle, At, Publishing, BuildPcs, InstallPcs
  <2>3. CASE PkgCleanInvalidate
    BY <1>1, <2>3 DEF PkgCleanInvalidate
  <2> QED
    BY <1>6, <2>1, <2>2, <2>3 DEF Start, BuildNames
<1>7. CASE Resolve \/ CleanLocal \/ ValidateInstallPrefix
  BY <1>0, <1>3, <1>7 DEF Resolve, CleanLocal, ValidateInstallPrefix, Goto, PlaceInv, At, BuildPcs, InstallPcs, Commands
<1>8. CASE Bind
  BY <1>0, <1>3, <1>8 DEF Bind, PlaceInv, At, BuildPcs, InstallPcs, Commands, ReportRecords
<1>9. CASE RunBuildPhase
  <2>1. \/ Goto("complete")
        \/ Goto("install") /\ cmd.prefix # "none"
        \/ Stop("failed")
    BY <1>9 DEF RunBuildPhase
  <2> QED
    BY <1>0, <1>3, <1>9, <2>1 DEF RunBuildPhase, Goto, Stop, At, BuildPcs, InstallPcs, Commands
<1>10. CASE Install
  BY <1>0, <1>1, <1>3, <1>10, PlaceGoesOn DEF Install, StartInstall, RemovePrefix, Removed, MarkPrefix, SkipTarget,
       TruncateTarget, WriteTarget, WriteManifest, InstallNext, Skipped, Goto, PlaceInv, At, BuildPcs, InstallPcs, Commands
<1>11. CASE Publish
  <2>1. CASE Complete
    <3>1. CASE Stop("failed")
      BY <1>0, <1>3, <2>1, <3>1 DEF Complete, Stop, At, BuildPcs, InstallPcs, Commands
    <3>2. CASE ~Stop("failed")
      BY <1>3, <2>1, <3>2, CompleteSays DEF BuildPcs, InstallPcs
    <3> QED
      BY <3>1, <3>2
  <2>2. CASE RunAllTests
    BY <1>3, <2>2, TestsSay DEF BuildPcs, InstallPcs
  <2>3. CASE Finish
    BY <1>2, <2>3 DEF Finish
  <2> QED
    BY <1>11, <2>1, <2>2, <2>3 DEF Publish
<1>12. CASE Clean
  <2>1. CASE Invalidate
    BY <1>0, <1>2, <2>1 DEF Invalidate, PlaceInv, At, Idle, Publishing, BuildPcs, InstallPcs, CleanNames, Commands
  <2>2. CASE CleanOutputs
    BY <1>0, <2>2 DEF CleanOutputs, PlaceInv, At, Idle, Publishing, BuildPcs, InstallPcs, Commands
  <2>3. CASE CleanInstall \/ EndClean
    BY <1>1, <1>2, <2>3 DEF CleanInstall, EndClean
  <2>4. CASE BeginPkgClean
    BY <2>4 DEF BeginPkgClean, NoCommand, PlaceInv, At, Idle, Publishing, BuildPcs, InstallPcs, CleanNames
  <2> QED
    BY <1>12, <2>1, <2>2, <2>3, <2>4 DEF Clean
<1>13. CASE EditSource \/ EditConfig \/ PutFile \/ Kill
  BY <1>1, <1>2, <1>13 DEF EditSource, EditConfig, PutFile, Kill
<1> QED
  BY <1>1, <1>4, <1>5, <1>6, <1>7, <1>8, <1>9, <1>10, <1>11, <1>12, <1>13 DEF Next, User, Build

-----------------------------------------------------------------------------
(* What the steps do to the command.                                       *)

(* A command that has just begun, or none.                                 *)
Fresh(c) ==
  /\ c.pc \in {"idle", "resolve", "invalidate", "outputs"}
  /\ c.files \subseteq cmd.files /\ ~c.done /\ c.pending.files = {}

Begins == Start \/ Kill \/ Finish \/ Invalidate \/ CleanOutputs \/ EndClean \/ BeginPkgClean

LEMMA FreshSteps ==
  ASSUME TypeOK, DoneInv, Begins
  PROVE  UNCHANGED dirs /\ (UNCHANGED <<out, cmd>> \/ Fresh(cmd'))
<1>0. cmd \in Commands
  BY DEF TypeOK
<1>1. CASE Start
  <2>1. ASSUME NEW name, NEW prefix, NEW sdk, Begin(name, prefix, sdk)
        PROVE  UNCHANGED dirs /\ Fresh(cmd')
    BY <2>1 DEF Begin, Fresh, NoCommand, NoReport, Running
  <2>2. ASSUME NEW name, BeginClean(name)
        PROVE  UNCHANGED dirs /\ Fresh(cmd')
    BY <2>2 DEF BeginClean, Fresh, NoCommand, NoReport
  <2> QED
    BY <1>1, <2>1, <2>2 DEF Start, PkgCleanInvalidate
<1>2. cmd' = NoCommand => Fresh(cmd')
  BY DEF Fresh, NoCommand, NoReport
<1>3. CASE Kill \/ Finish \/ EndClean
  BY <1>2, <1>3 DEF Kill, Finish, EndClean
<1>4. CASE Invalidate \/ CleanOutputs
  <2>1. ~cmd.done /\ cmd.pending.files = {}
    BY <1>0, <1>4 DEF Invalidate, CleanOutputs, DoneInv, Commands, At
  <2> QED
    BY <1>0, <1>2, <1>4, <2>1 DEF Invalidate, CleanOutputs, Fresh, Commands, At
<1>5. CASE BeginPkgClean
  BY <1>5 DEF BeginPkgClean, Fresh, NoCommand, NoReport
<1> QED
  BY <1>1, <1>3, <1>4, <1>5 DEF Begins

(* All others go on with the command there is.                             *)
LEMMA OthersGoOn ==
  ASSUME TypeOK, Next, ~Begins
  PROVE  cmd'.name = cmd.name /\ UNCHANGED lost
<1>0. cmd \in Commands
  BY DEF TypeOK
<1>1. CASE User
  BY <1>0, <1>1 DEF User, EditSource, EditConfig, PutFile, Interrupt, Begins, Commands
<1>2. CASE Build
  <2>1. CASE RunBuildPhase
    <3>1. Goto("complete") \/ Goto("install") \/ Stop("failed")
      BY <2>1 DEF RunBuildPhase
    <3> QED
      BY <1>0, <2>1, <3>1 DEF RunBuildPhase, Goto, Stop, Commands
  <2>2. CASE Bind
    BY <1>0, <2>2 DEF Bind, Commands
  <2>3. CASE Build /\ ~RunBuildPhase /\ ~Bind
    BY <1>0, <2>3 DEF Build, Resolve, CleanLocal, ValidateInstallPrefix, Fail, Goto, Stop, Commands
  <2> QED
    BY <1>2, <2>1, <2>2, <2>3
<1>3. CASE Install
  BY <1>0, <1>3 DEF Install, StartInstall, RemovePrefix, Removed, MarkPrefix, SkipTarget, TruncateTarget,
       WriteTarget, WriteManifest, InstallNext, Goto, Commands
<1>4. CASE Complete
  BY <1>0, <1>4, CompleteSays DEF Complete, Stop, Commands
<1>5. CASE RunAllTests
  BY <1>5, TestsSay
<1>6. CASE CleanInstall
  BY <1>6 DEF CleanInstall
<1> QED
  BY <1>1, <1>2, <1>3, <1>4, <1>5, <1>6 DEF Next, Publish, Clean, Begins

LEMMA OthersPublish ==
  ASSUME PlaceInv, Next, ~Begins, ~Publishing
  PROVE  UNCHANGED <<cmd, report>>
<1>1. cmd.pc \notin BuildPcs
  BY DEF PlaceInv
<1>2. ~Build /\ ~Install /\ ~Complete /\ ~RunAllTests
  BY <1>1 DEF Build, Resolve, CleanLocal, Bind, ValidateInstallPrefix, RunBuildPhase, Fail, Install, StartInstall,
       RemovePrefix, Removed, MarkPrefix, SkipTarget, TruncateTarget, WriteTarget, WriteManifest,
       Complete, RunAllTests, At, BuildPcs, InstallPcs
<1> QED
  BY <1>2 DEF Next, User, EditSource, EditConfig, PutFile, Interrupt, Publish, Publishing, Clean, CleanInstall, Begins

-----------------------------------------------------------------------------
(* What is built, and for which configuration.                             *)

LEMMA BuiltStep == TypeOK /\ PlaceInv /\ BuiltInv /\ CheckedInv /\ DoneInv /\ Next => BuiltInv'
<1> SUFFICES ASSUME TypeOK, PlaceInv, BuiltInv, CheckedInv, DoneInv, Next PROVE BuiltInv'
  OBVIOUS
<1>0. cmd \in Commands /\ cmd.pending \in ReportRecords
  BY DEF TypeOK, Commands
<1> DEFINE Covered(c) == c.pc \in BuiltPcs \/ c.done
<1>1. ASSUME UNCHANGED out, cmd'.conf = cmd.conf, cmd'.pending.conf = cmd.pending.conf,
             Covered(cmd') => Covered(cmd)
      PROVE  BuiltInv'
  BY <1>1 DEF BuiltInv
<1>2. ASSUME ~Covered(cmd')
      PROVE  BuiltInv'
  BY <1>2 DEF BuiltInv
<1>3. CASE Begins
  BY <1>0, <1>1, <1>2, <1>3, FreshSteps DEF Fresh, BuiltPcs
<1>4. CASE EditSource \/ EditConfig \/ PutFile \/ RemovePrefix \/ CleanInstall
  BY <1>1, <1>4 DEF EditSource, EditConfig, PutFile, RemovePrefix, CleanInstall
<1>5. CASE Interrupt \/ Fail \/ Resolve \/ CleanLocal \/ ValidateInstallPrefix
  BY <1>0, <1>1, <1>2, <1>5 DEF Interrupt, Fail, Resolve, CleanLocal, ValidateInstallPrefix, Goto, Stop,
       Commands, BuiltPcs, At, DoneInv
<1>6. CASE Bind
  BY <1>0, <1>2, <1>6 DEF Bind, Commands, BuiltPcs, At, DoneInv
<1>7. CASE RunBuildPhase
  <2>1. PICK done \in SUBSET Built :
          /\ out' = [t \in Targets |-> IF t \in done THEN Output ELSE out[t]]
          /\ \/ Built \ Tests \subseteq done /\ (Goto("complete") \/ Goto("install"))
             \/ Stop("failed")
    BY <1>7 DEF RunBuildPhase
  <2>2. CASE Stop("failed")
    BY <1>0, <1>2, <1>7, <2>2 DEF RunBuildPhase, Stop, Commands, BuiltPcs, At, DoneInv
  <2>3. CASE Built \ Tests \subseteq done /\ (Goto("complete") \/ Goto("install"))
    <3>1. \A t \in Built \ Tests : out'[t][2] = cmd.conf
      BY <2>1, <2>3 DEF Built, Output
    <3>2. cmd'.conf = cmd.conf /\ cmd'.pending.conf = cmd.conf
      BY <1>0, <1>7, <2>3 DEF RunBuildPhase, Goto, Commands, CheckedInv, At
    <3> QED
      BY <3>1, <3>2 DEF BuiltInv
  <2> QED
    BY <2>1, <2>2, <2>3
<1>8. CASE StartInstall \/ Removed \/ MarkPrefix \/ SkipTarget \/ TruncateTarget \/ WriteTarget \/ WriteManifest
  BY <1>0, <1>1, <1>8 DEF StartInstall, Removed, MarkPrefix, SkipTarget, TruncateTarget, WriteTarget, WriteManifest,
       InstallNext, Goto, Commands, BuiltPcs, At
<1>9. CASE Complete
  <2>1. CASE Stop("failed")
    BY <1>0, <1>1, <1>9, <2>1 DEF Complete, Stop, Commands, BuiltPcs, At
  <2>2. CASE ~Stop("failed")
    BY <1>1, <1>9, <2>2, CompleteSays DEF BuiltPcs
  <2> QED
    BY <2>1, <2>2
<1>10. CASE RunAllTests
  BY <1>1, <1>10, TestsSay DEF BuiltPcs
<1> QED
  BY <1>3, <1>4, <1>5, <1>6, <1>7, <1>8, <1>9, <1>10 DEF Next, User, Build, Install, Publish, Clean, Begins

LEMMA CheckedStep == TypeOK /\ PlaceInv /\ CheckedInv /\ DoneInv /\ Next => CheckedInv'
<1> SUFFICES ASSUME TypeOK, PlaceInv, CheckedInv, DoneInv, Next PROVE CheckedInv'
  OBVIOUS
<1>0. cmd \in Commands /\ cmd.pending \in ReportRecords
  BY DEF TypeOK, Commands
<1>1. ASSUME cmd'.files \subseteq cmd.files, cmd'.pc \notin {"check", "build"}
      PROVE  CheckedInv'
  BY <1>1 DEF CheckedInv
<1>2. CASE UNCHANGED cmd
  BY <1>2 DEF CheckedInv
<1>3. CASE Begins
  BY <1>1, <1>2, <1>3, FreshSteps DEF Fresh
<1>4. CASE EditSource \/ EditConfig \/ PutFile \/ RemovePrefix \/ CleanInstall
  BY <1>2, <1>4 DEF EditSource, EditConfig, PutFile, RemovePrefix, CleanInstall
<1>5. CASE Interrupt \/ Fail \/ Resolve \/ CleanLocal \/ ValidateInstallPrefix \/ Bind
  <2>1. CASE Fail \/ Resolve \/ CleanLocal
    BY <1>0, <1>1, <2>1 DEF Fail, Resolve, CleanLocal, Goto, Stop, Commands
  <2>2. CASE Interrupt \/ ValidateInstallPrefix
    BY <1>0, <2>2 DEF Interrupt, ValidateInstallPrefix, Goto, Commands, At, CheckedInv
  <2>3. CASE Bind
    BY <1>0, <2>3 DEF Bind, Commands, ReportRecords, CheckedInv
  <2> QED
    BY <1>5, <2>1, <2>2, <2>3
<1>6. CASE RunBuildPhase
  <2>1. Goto("complete") \/ Goto("install") \/ Stop("failed")
    BY <1>6 DEF RunBuildPhase
  <2> QED
    BY <1>0, <1>1, <2>1 DEF Goto, Stop, Commands
<1>7. CASE StartInstall \/ Removed \/ MarkPrefix \/ TruncateTarget \/ WriteManifest
  BY <1>0, <1>1, <1>7 DEF StartInstall, Removed, MarkPrefix, TruncateTarget, WriteManifest, Goto, Commands
<1>8. CASE SkipTarget \/ WriteTarget
  <2> DEFINE t == Head(cmd.todo)
  <2>1. PICK recorded \in BOOLEAN : InstallNext(t, recorded) /\ (recorded => Kind[t] # "test")
    BY <1>8 DEF SkipTarget, WriteTarget, Skipped, PlaceInv, At
  <2>2. cmd'.pc = "copy" /\ cmd'.files \subseteq cmd.files \cup (IF recorded THEN {<<t, Destination(t)>>} ELSE {})
    BY <1>0, <2>1 DEF InstallNext, Commands
  <2> QED
    BY <2>1, <2>2 DEF CheckedInv, Tests
<1>9. CASE Complete
  BY <1>0, <1>1, <1>9, CompleteSays DEF Complete, Stop, Commands
<1>10. CASE RunAllTests
  BY <1>1, <1>10, TestsSay
<1> QED
  BY <1>3, <1>4, <1>5, <1>6, <1>7, <1>8, <1>9, <1>10 DEF Next, User, Build, Install, Publish, Clean, Begins

-----------------------------------------------------------------------------
(* What a report of success will list.                                     *)

(* A file that is installed, as the report lists it.                       *)
LEMMA ArtifactIsInPlace ==
  ASSUME TypeOK, BuiltInv, CheckedInv, At("complete"), NEW file \in cmd.files, Same(file)
  PROVE  LET a == Artifact(file) IN
           /\ dirs[a.prefix].files[a.target] = a.digest
           /\ Kind[a.target] # "extra" => a.digest[2] = cmd.conf
<1>1. file[1] \in Targets \ Tests
  BY DEF TypeOK, Commands, Files, CheckedInv
<1>2. Kind[file[1]] # "extra" => file[1] \in Built \ Tests
  BY <1>1 DEF Built
<1>3. \A t \in Built \ Tests : out[t][2] = cmd.conf
  BY DEF BuiltInv, BuiltPcs, At
<1> QED
  BY <1>2, <1>3 DEF Artifact, Same, Source

LEMMA DoneStep == TypeOK /\ PlaceInv /\ BuiltInv /\ CheckedInv /\ DoneInv /\ Next => DoneInv'
<1> SUFFICES ASSUME TypeOK, PlaceInv, BuiltInv, CheckedInv, DoneInv, Next PROVE DoneInv'
  OBVIOUS
<1>0. cmd \in Commands /\ cmd.pending \in ReportRecords
  BY DEF TypeOK, Commands
<1>1. ASSUME ~cmd'.done, cmd'.pending.files = {}
      PROVE  DoneInv'
  BY <1>1 DEF DoneInv
<1>2. ASSUME UNCHANGED <<dirs, cmd>>
      PROVE  DoneInv'
  BY <1>2 DEF DoneInv
<1>3. CASE Begins
  BY <1>1, <1>2, <1>3, FreshSteps DEF Fresh
<1>4. CASE EditSource \/ EditConfig
  BY <1>2, <1>4 DEF EditSource, EditConfig
<1>5. CASE PutFile
  BY <1>5 DEF PutFile, DoneInv, TypeOK, Dirs, PrefixNames
<1>6. CASE Interrupt \/ Fail
  BY <1>0, <1>6 DEF Interrupt, Fail, Stop, DoneInv, Commands
<1>7. CASE Complete
  <2>1. CASE Stop("failed")
    BY <1>0, <1>7, <2>1 DEF Complete, Stop, DoneInv, Commands
  <2>2. CASE ~Stop("failed")
    BY <1>7, <2>2, CompleteSays, ArtifactIsInPlace DEF DoneInv, At
  <2> QED
    BY <2>1, <2>2
<1>8. CASE RunAllTests
  BY <1>8, TestsSay DEF DoneInv
<1>9. CASE (Build \/ Install \/ CleanInstall) /\ ~Fail
  <2>1. ~cmd.done /\ cmd.pending.files = {}
    BY <1>9 DEF DoneInv, At, Build, Resolve, CleanLocal, Bind, ValidateInstallPrefix, RunBuildPhase, Install,
         StartInstall, RemovePrefix, Removed, MarkPrefix, SkipTarget, TruncateTarget, WriteTarget,
         WriteManifest, CleanInstall
  <2>2. ~cmd'.done /\ cmd'.pending.files = {}
    <3>1. CASE Resolve \/ CleanLocal \/ ValidateInstallPrefix \/ CleanInstall
      BY <1>0, <2>1, <3>1 DEF Resolve, CleanLocal, ValidateInstallPrefix, CleanInstall, Goto, Commands
    <3>2. CASE Bind
      BY <1>0, <2>1, <3>2 DEF Bind, Commands, ReportRecords
    <3>3. CASE RunBuildPhase
      <4>1. Goto("complete") \/ Goto("install") \/ Stop("failed")
        BY <3>3 DEF RunBuildPhase
      <4> QED
        BY <1>0, <2>1, <4>1 DEF Goto, Stop, Commands
    <3>4. CASE Install
      BY <1>0, <2>1, <3>4 DEF Install, StartInstall, RemovePrefix, Removed, MarkPrefix, SkipTarget, TruncateTarget,
           WriteTarget, WriteManifest, InstallNext, Goto, Commands
    <3> QED
      BY <1>9, <3>1, <3>2, <3>3, <3>4 DEF Build
  <2> QED
    BY <1>1, <2>2
<1> QED
  BY <1>3, <1>4, <1>5, <1>6, <1>7, <1>8, <1>9 DEF Next, User, Build, Publish, Clean, Begins

LEMMA TestStep == TypeOK /\ PlaceInv /\ TestInv /\ DoneInv /\ Next => TestInv'
<1> SUFFICES ASSUME TypeOK, PlaceInv, TestInv, DoneInv, Next PROVE TestInv'
  OBVIOUS
<1>0. cmd \in Commands
  BY DEF TypeOK
<1>1. CASE UNCHANGED cmd
  BY <1>1 DEF TestInv, At
<1>2. ASSUME cmd'.pc # "finish" \/ ~cmd'.done \/ cmd'.err # "none" \/ cmd'.signal
      PROVE  TestInv'
  BY <1>2 DEF TestInv, At
<1>3. CASE Begins
  BY <1>1, <1>2, <1>3, FreshSteps DEF Fresh
<1>4. CASE EditSource \/ EditConfig \/ PutFile \/ RemovePrefix \/ CleanInstall
  BY <1>1, <1>4 DEF EditSource, EditConfig, PutFile, RemovePrefix, CleanInstall
<1>5. CASE Interrupt \/ Fail \/ Resolve \/ CleanLocal \/ Bind \/ ValidateInstallPrefix
  BY <1>0, <1>2, <1>5 DEF Interrupt, Fail, Resolve, CleanLocal, Bind, ValidateInstallPrefix, Goto, Stop, Commands
<1>6. CASE RunBuildPhase
  <2>1. Goto("complete") \/ Goto("install") \/ Stop("failed")
    BY <1>6 DEF RunBuildPhase
  <2> QED
    BY <1>0, <1>2, <2>1 DEF Goto, Stop, Commands
<1>7. CASE Install
  BY <1>0, <1>1, <1>2, <1>7 DEF Install, StartInstall, RemovePrefix, Removed, MarkPrefix, SkipTarget, TruncateTarget,
       WriteTarget, WriteManifest, InstallNext, Goto, Commands
<1>8. CASE Complete
  <2>1. CASE Stop("failed")
    BY <1>0, <1>2, <2>1 DEF Stop, Commands
  <2>2. CASE ~Stop("failed")
    BY <1>8, <2>2, CompleteSays DEF TestInv, At
  <2> QED
    BY <2>1, <2>2
<1>9. CASE RunAllTests
  <2>1. PICK ran \in SUBSET Tests : \E results \in [ran -> {"passed", "failed"}] :
          /\ ran # Tests => cmd.signal
          /\ cmd'.signal = cmd.signal /\ cmd'.pending.tests = results
          /\ cmd'.err = IF \E t \in ran : results[t] = "failed" THEN "failed" ELSE cmd.err
    BY <1>9, TestsSay
  <2>2. PICK results \in [ran -> {"passed", "failed"}] :
          /\ ran # Tests => cmd.signal
          /\ cmd'.signal = cmd.signal /\ cmd'.pending.tests = results
          /\ cmd'.err = IF \E t \in ran : results[t] = "failed" THEN "failed" ELSE cmd.err
    BY <2>1
  <2>3. CASE cmd.signal \/ \E t \in ran : results[t] = "failed"
    BY <1>2, <2>2, <2>3
  <2>4. CASE ~cmd.signal /\ \A t \in ran : results[t] = "passed"
    BY <2>2, <2>4 DEF TestInv
  <2> QED
    BY <2>3, <2>4
<1> QED
  BY <1>3, <1>4, <1>5, <1>6, <1>7, <1>8, <1>9 DEF Next, User, Build, Publish, Clean, Begins

-----------------------------------------------------------------------------
(* What the reports say.                                                   *)

(* What a step may make of a report.                                       *)
LEMMA ReportWrites ==
  ASSUME TypeOK, PlaceInv, Next, NEW r \in Reports
  PROVE  \/ report'[r] = report[r]
         \/ report'[r] = NoReport
         \/ Start /\ report'[r] = Running /\ Publishing' /\ Mine' = r
         \/ Bind /\ report'[r] = cmd'.pending /\ Mine = r
         \/ Finish /\ report'[r] = Finished /\ Mine = r
<1>0. report \in [Reports -> ReportRecords]
  BY DEF TypeOK
<1>1. CASE Start
  <2>1. ASSUME NEW name \in BuildNames, NEW prefix, NEW sdk, Begin(name, prefix, sdk)
        PROVE  report'[r] = report[r] \/ (report'[r] = Running /\ Publishing' /\ Mine' = r)
    <3>1. cmd'.name = name
      BY <2>1 DEF Begin, NoCommand
    <3> QED
      BY <1>0, <2>1, <3>1 DEF Begin, Publishing, Mine, Reports, BuildNames
  <2>2. CASE UNCHANGED report \/ report' = [q \in Reports |-> NoReport]
    BY <2>2
  <2> QED
    BY <1>1, <2>1, <2>2 DEF Start, BeginClean, PkgCleanInvalidate, BuildNames
<1>2. CASE Bind \/ Finish
  BY <1>0, <1>2 DEF Bind, Finish
<1>3. CASE Invalidate
  BY <1>0, <1>3 DEF Invalidate
<1>4. CASE ~Start /\ ~Bind /\ ~Finish /\ ~Invalidate
  BY <1>4 DEF Next, User, EditSource, EditConfig, PutFile, Interrupt, Kill, Build, Resolve, CleanLocal,
       ValidateInstallPrefix, RunBuildPhase, Fail, Install, StartInstall, RemovePrefix, Removed, MarkPrefix,
       SkipTarget, TruncateTarget, WriteTarget, WriteManifest, Publish, Complete, RunAllTests, Clean,
       CleanOutputs, CleanInstall, EndClean, BeginPkgClean
<1> QED
  BY <1>1, <1>2, <1>3, <1>4

(* What the last step of a command saves.                                  *)
LEMMA FinishedSays ==
  ASSUME TypeOK
  PROVE  /\ Finished.status = Status /\ Finished.status \notin {"none", "running"}
         /\ Finished.conf = cmd.pending.conf /\ Finished.tests = cmd.pending.tests
         /\ Finished.files = IF Status = "succeeded" THEN cmd.pending.files ELSE {}
         /\ Status = "succeeded" => cmd.done /\ cmd.err = "none" /\ ~cmd.signal
<1>1. cmd \in Commands /\ cmd.pending \in ReportRecords
  BY DEF TypeOK, Commands
<1>2. Status \notin {"none", "running"} /\ (Status = "succeeded" => cmd.done /\ cmd.err = "none" /\ ~cmd.signal)
  BY DEF Status
<1>3. Finished = [cmd.pending EXCEPT !.status = Status, !.files = IF Status = "succeeded" THEN @ ELSE {}]
  BY DEF Finished
<1> HIDE DEF Status
<1> QED
  BY <1>1, <1>2, <1>3 DEF ReportRecords

LEMMA TestedStep ==
  TypeOK /\ PlaceInv /\ DoneInv /\ TestInv /\ TestedIsPassed /\ Next => TestedIsPassed'
<1> SUFFICES ASSUME TypeOK, PlaceInv, DoneInv, TestInv, TestedIsPassed, Next PROVE TestedIsPassed'
  OBVIOUS
<1>0. cmd \in Commands /\ cmd.pending \in ReportRecords /\ report \in [Reports -> ReportRecords]
  BY DEF TypeOK, Commands
<1>1. ASSUME report'["test"] = report["test"] \/ report'["test"].status # "succeeded"
      PROVE  TestedIsPassed'
  BY <1>1 DEF TestedIsPassed
<1>2. CASE Bind /\ report'["test"] = cmd'.pending
  BY <1>0, <1>1, <1>2 DEF Bind, PlaceInv, At, BuildPcs, Commands, ReportRecords
<1>3. CASE Finish /\ report'["test"] = Finished /\ Mine = "test"
  <2>1. At("finish") /\ cmd.name = "test"
    BY <1>3 DEF Finish, Mine
  <2> QED
    BY <1>3, <2>1, FinishedSays DEF TestInv, TestedIsPassed
<1> QED
  BY <1>1, <1>2, <1>3, ReportWrites DEF Reports, Running, NoReport

LEMMA RunningStep ==
  TypeOK /\ PlaceInv /\ PlaceInv' /\ NothingSaysRunning /\ Next => NothingSaysRunning'
<1> SUFFICES ASSUME TypeOK, PlaceInv, PlaceInv', NothingSaysRunning, Next, NEW r \in Reports \ lost',
                    report'[r].status = "running"
             PROVE  ~Idle' /\ Publishing' /\ Mine' = r
  BY DEF NothingSaysRunning
<1>0. r \notin lost /\ report[r].status = "running" => ~Idle /\ Publishing /\ Mine = r
  BY DEF NothingSaysRunning
<1>1. Publishing' => ~Idle'
  BY DEF PlaceInv, Idle, BuildPcs, InstallPcs
<1>2. CASE Start
  <2>1. ASSUME NEW name, NEW prefix, NEW sdk, Begin(name, prefix, sdk), Mine' # r
        PROVE  FALSE
    <3>1. cmd'.name = name
      BY <2>1 DEF Begin, NoCommand
    <3>2. report'[r] = report[r] /\ r \notin lost
      BY <2>1, <3>1 DEF Begin, Mine, TypeOK
    <3> QED
      BY <1>0, <2>1, <3>2 DEF Begin
  <2>2. ASSUME NEW name, BeginClean(name)
        PROVE  FALSE
    BY <1>0, <2>2 DEF BeginClean
  <2>3. ~PkgCleanInvalidate
    BY DEF PkgCleanInvalidate, NoReport
  <2>4. ASSUME NEW name \in {"build", "rebuild", "test"}, NEW prefix, NEW sdk, Begin(name, prefix, sdk)
        PROVE  Publishing'
    BY <2>4 DEF Begin, NoCommand, Publishing
  <2> QED
    BY <1>1, <1>2, <2>1, <2>2, <2>3, <2>4 DEF Start
<1>3. CASE ~Start
  <2>1. \/ report'[r] = report[r]
        \/ Bind /\ Mine = r
    BY <1>3, ReportWrites, FinishedSays DEF NoReport
  <2>2. CASE Bind /\ Mine = r
    <3>1. cmd.name = cmd'.name /\ Publishing
      BY <2>2 DEF Bind, TypeOK, Commands, PlaceInv, At, BuildPcs
    <3> QED
      BY <1>1, <2>2, <3>1 DEF Publishing, Mine
  <2>3. CASE report'[r] = report[r] /\ Begins
    <3>1. CASE Kill
      BY <1>0, <2>3, <3>1 DEF Kill
    <3>2. CASE Finish
      BY <1>0, <2>3, <3>2, FinishedSays DEF Finish, TypeOK
    <3>3. CASE Invalidate \/ CleanOutputs \/ EndClean \/ BeginPkgClean
      BY <1>0, <2>3, <3>3 DEF Invalidate, CleanOutputs, EndClean, BeginPkgClean, At, PlaceInv, BuildPcs, InstallPcs
    <3> QED
      BY <1>3, <2>3, <3>1, <3>2, <3>3 DEF Begins
  <2>4. CASE report'[r] = report[r] /\ ~Begins
    BY <1>0, <1>1, <2>4, OthersGoOn DEF Publishing, Mine
  <2> QED
    BY <2>1, <2>2, <2>3, <2>4
<1> QED
  BY <1>2, <1>3

-----------------------------------------------------------------------------
(* The prefixes.                                                           *)

(* Only these change the files of a prefix.                                *)
Touches == RemovePrefix \/ TruncateTarget \/ WriteTarget \/ CleanInstall

LEMMA OthersTouchNoFiles ==
  ASSUME TypeOK, Next, ~Touches, NEW p \in PrefixNames, NEW t \in Targets
  PROVE  dirs'[p].files[t] = dirs[p].files[t]
<1>0. dirs \in [PrefixNames -> Dirs] /\ cmd \in Commands
  BY DEF TypeOK
<1>1. CASE UNCHANGED dirs
  BY <1>1
<1>2. CASE PutFile
  BY <1>0, <1>2 DEF PutFile, Dirs
<1>3. CASE MarkPrefix
  BY <1>0, <1>3 DEF MarkPrefix, Dirs
<1>4. CASE WriteManifest
  BY <1>0, <1>4 DEF WriteManifest, Dirs
<1>5. CASE ~PutFile /\ ~MarkPrefix /\ ~WriteManifest
  BY <1>1, <1>5 DEF Touches, Next, User, EditSource, EditConfig, Interrupt, Kill, Start, Begin, BeginClean,
       PkgCleanInvalidate, Build, Resolve, CleanLocal, Bind, ValidateInstallPrefix, RunBuildPhase, Fail, Install,
       StartInstall, Removed, SkipTarget, Publish, Complete, RunAllTests, Finish, Clean, Invalidate,
       CleanOutputs, EndClean, BeginPkgClean
<1> QED
  BY <1>2, <1>3, <1>4, <1>5

LEMMA ReportStep ==
  TypeOK /\ PlaceInv /\ PlaceInv' /\ BuiltInv /\ DoneInv /\ ReportInv /\ Next => ReportInv'
<1> SUFFICES ASSUME TypeOK, PlaceInv, PlaceInv', BuiltInv, DoneInv, ReportInv, Next PROVE ReportInv'
  OBVIOUS
<1>0. cmd \in Commands /\ cmd.pending \in ReportRecords /\ report \in [Reports -> ReportRecords]
  BY DEF TypeOK, Commands
<1>1. ASSUME Touches
      PROVE  report["build"].files = {} /\ UNCHANGED report
  BY <1>0, <1>1 DEF Touches, RemovePrefix, TruncateTarget, WriteTarget, CleanInstall, ReportInv, PlaceInv,
       At, InstallPcs, BuildPcs, Publishing
<1>2. ReportedIsInstalled'
  <2>1. CASE report'["build"].files = {}
    BY <2>1 DEF ReportedIsInstalled
  <2>2. CASE report'["build"] = report["build"] /\ ~Touches
    <3>1. report["build"].files \subseteq Artifacts
      BY <1>0 DEF Reports, ReportRecords
    <3> QED
      BY <2>2, <3>1, OthersTouchNoFiles DEF ReportInv, ReportedIsInstalled, Artifacts
  <2>3. CASE Bind /\ report'["build"] = cmd'.pending
    BY <1>0, <2>1, <2>3 DEF Bind, DoneInv, At, Commands, ReportRecords
  <2>4. CASE Finish /\ report'["build"] = Finished
    <3>1. CASE Status = "succeeded"
      BY <2>4, <3>1, FinishedSays DEF Finish, ReportedIsInstalled, DoneInv, BuiltInv
    <3> QED
      BY <2>1, <2>4, <3>1, FinishedSays
  <2> QED
    BY <1>1, <2>1, <2>2, <2>3, <2>4, ReportWrites DEF Reports, Running, NoReport
<1>3. CASE Start
  <2>1. ASSUME NEW name \in BuildNames, NEW prefix, NEW sdk, Begin(name, prefix, sdk)
        PROVE  cmd'.name = name /\ cmd'.pc = "resolve" /\ (name # "test" => report'["build"] = Running)
    BY <1>0, <2>1 DEF Begin, NoCommand, Reports, BuildNames
  <2>2. ASSUME NEW name \in {"clean", "distclean"}, BeginClean(name)
        PROVE  cmd'.name = name /\ cmd'.pc = "invalidate"
    BY <2>2 DEF BeginClean, NoCommand
  <2>3. CASE PkgCleanInvalidate
    BY <1>2, <2>3 DEF PkgCleanInvalidate, ReportInv, Reports, NoReport
  <2> QED
    BY <1>2, <1>3, <2>1, <2>2, <2>3 DEF Start, ReportInv, At, BuildNames, Running, NoReport
<1>4. CASE Kill \/ Finish \/ Invalidate \/ CleanOutputs \/ EndClean \/ BeginPkgClean
  <2>1. CASE cmd'.name \in {"none", "pkg clean"}
    BY <1>2, <2>1 DEF ReportInv
  <2>2. CASE Invalidate
    <3>1. CASE cmd' = NoCommand
      BY <2>1, <3>1 DEF NoCommand
    <3>2. CASE cmd'.name = cmd.name /\ report'["build"].files = {}
      BY <1>2, <3>2 DEF ReportInv
    <3> QED
      BY <1>0, <2>2, <3>1, <3>2 DEF Invalidate, NoReport, Reports, Commands
  <2>3. CASE CleanOutputs
    BY <1>0, <1>2, <2>3 DEF CleanOutputs, ReportInv, At, Commands
  <2>4. CASE Kill \/ Finish \/ EndClean
    <3>1. cmd' = NoCommand
      BY <2>4 DEF Kill, Finish, EndClean
    <3> QED
      BY <2>1, <3>1 DEF NoCommand
  <2>5. CASE BeginPkgClean
    BY <2>1, <2>5 DEF BeginPkgClean, NoCommand
  <2> QED
    BY <1>4, <2>2, <2>3, <2>4, <2>5
<1>5. CASE ~Begins
  <2>1. cmd'.name = cmd.name
    BY <1>5, OthersGoOn
  <2>2. cmd.name \in {"build", "rebuild"} => report'["build"].files = {}
    <3>1. CASE Bind
      BY <1>0, <3>1 DEF Bind, DoneInv, ReportInv, At, Commands, ReportRecords, Reports, Mine
    <3> QED
      BY <1>5, <3>1, ReportWrites DEF ReportInv, Begins, Reports, NoReport
  <2>3. ASSUME At("outputs")'
        PROVE  At("outputs") /\ UNCHANGED report
    <3>1. ~Publishing
      BY <2>1, <2>3 DEF PlaceInv, At, Publishing, BuildPcs, InstallPcs
    <3> QED
      BY <1>5, <2>3, <3>1, OthersPublish DEF At
  <2> QED
    BY <1>2, <2>1, <2>2, <2>3 DEF ReportInv
<1> QED
  BY <1>3, <1>4, <1>5 DEF Begins

LEMMA KeptStep == TypeOK /\ PlaceInv /\ KeptInv /\ Next => KeptInv'
<1> SUFFICES ASSUME TypeOK, PlaceInv, KeptInv, Next PROVE KeptInv'
  OBVIOUS
<1>0. dirs \in [PrefixNames -> Dirs] /\ cmd \in Commands
  BY DEF TypeOK
<1> DEFINE Removes(c) == c.prefix = "custom" /\ c.pc \in {"remove", "mark"}
           here == dirs["custom"]
<1>1. ASSUME here'.marker => here.marker, here'.user \in {here.user, "none"},
             Removes(cmd') => Removes(cmd)
      PROVE  KeptInv'
  BY <1>1 DEF KeptInv
<1>2. CASE User
  <2>1. CASE PutFile
    BY <1>0, <2>1 DEF PutFile, KeptInv, PrefixNames, Dirs
  <2>2. CASE Interrupt
    BY <1>0, <1>1, <2>2 DEF Interrupt, Commands
  <2>3. CASE EditSource \/ EditConfig \/ Kill
    BY <1>1, <2>3 DEF EditSource, EditConfig, Kill, NoCommand
  <2> QED
    BY <1>2, <2>1, <2>2, <2>3 DEF User
<1>3. CASE Start
  BY <1>1, <1>3 DEF Start, Begin, BeginClean, PkgCleanInvalidate, NoCommand
<1>4. CASE RunBuildPhase
  <2>1. Goto("complete") \/ Goto("install") \/ Stop("failed")
    BY <1>4 DEF RunBuildPhase
  <2> QED
    BY <1>0, <1>1, <1>4, <2>1 DEF RunBuildPhase, Goto, Stop, Commands
<1>5. CASE Build /\ ~RunBuildPhase
  BY <1>0, <1>1, <1>5 DEF Build, Resolve, CleanLocal, Bind, ValidateInstallPrefix, Fail, Goto, Stop, Commands
<1>6. CASE StartInstall
  BY <1>0, <1>6 DEF StartInstall, Goto, PrefixAllowed, EmptyDir, KeptInv, Commands
<1>7. CASE RemovePrefix
  <2>1. PICK dir \in Removals(dirs[cmd.prefix]) : dirs' = [dirs EXCEPT ![cmd.prefix] = dir]
    BY <1>7 DEF RemovePrefix
  <2>2. dirs[cmd.prefix] \in Dirs => dir.marker \in {dirs[cmd.prefix].marker, FALSE} /\ dir.user \in {dirs[cmd.prefix].user, "none"}
    BY <2>1 DEF Removals, Dirs
  <2> QED
    BY <1>0, <1>1, <1>7, <2>1, <2>2 DEF RemovePrefix, PrefixNames
<1>8. CASE Removed
  BY <1>0, <1>8 DEF Removed, Goto, At, KeptInv, Commands
<1>9. CASE MarkPrefix
  BY <1>0, <1>9 DEF MarkPrefix, At, KeptInv, Commands, Dirs, PrefixNames
<1>10. CASE SkipTarget \/ TruncateTarget \/ WriteTarget \/ WriteManifest
  <2>1. cmd'.pc \notin {"remove", "mark"}
    BY <1>0, <1>10 DEF SkipTarget, TruncateTarget, WriteTarget, WriteManifest, InstallNext, Goto, Commands
  <2>2. dirs' = dirs \/ (\E p, t, b : dirs' = [dirs EXCEPT ![p].files[t] = b])
          \/ (\E p : dirs' = [dirs EXCEPT ![p].manifest = TRUE])
    BY <1>10 DEF SkipTarget, TruncateTarget, WriteTarget, WriteManifest
  <2>3. here'.marker = here.marker /\ here'.user = here.user
    BY <1>0, <2>2 DEF Dirs, PrefixNames
  <2> QED
    BY <1>1, <2>1, <2>3
<1>11. CASE Publish
  <2>1. UNCHANGED dirs
    BY <1>11 DEF Publish, Complete, RunAllTests, Finish
  <2>2. cmd'.pc \notin {"remove", "mark"}
    <3>1. CASE Stop("failed")
      BY <1>0, <3>1 DEF Stop, Commands
    <3>2. CASE Complete /\ ~Stop("failed")
      BY <3>2, CompleteSays
    <3>3. CASE RunAllTests
      BY <3>3, TestsSay
    <3>4. CASE Finish
      BY <3>4 DEF Finish, NoCommand
    <3> QED
      BY <1>11, <3>1, <3>2, <3>3, <3>4 DEF Publish
  <2> QED
    BY <1>1, <2>1, <2>2
<1>12. CASE Clean
  <2>1. CASE CleanInstall
    <3>1. here' = here /\ cmd' = cmd
      BY <1>0, <2>1 DEF CleanInstall, PrefixNames
    <3> QED
      BY <1>1, <3>1
  <2>2. CASE Clean /\ ~CleanInstall
    <3>1. UNCHANGED dirs /\ (cmd' = NoCommand \/ cmd'.pc = "outputs")
      BY <1>0, <2>2 DEF Clean, Invalidate, CleanOutputs, EndClean, BeginPkgClean, NoCommand, Commands, At
    <3> QED
      BY <1>1, <3>1 DEF NoCommand
  <2> QED
    BY <1>12, <2>1, <2>2
<1> QED
  BY <1>2, <1>3, <1>4, <1>5, <1>6, <1>7, <1>8, <1>9, <1>10, <1>11, <1>12 DEF Next, Install, Build

-----------------------------------------------------------------------------
LEMMA InitHolds == Init => IInv
<1> SUFFICES ASSUME Init PROVE IInv
  OBVIOUS
<1>1. TypeOK
  <2>1. NoFile \in Bytes
    BY DEF NoFile, Bytes
  <2>2. out \in [Targets -> Bytes]
    BY <2>1 DEF Init
  <2>3. dirs \in [PrefixNames -> Dirs] /\ report \in [Reports -> ReportRecords] /\ cmd \in Commands
    BY Empties DEF Init
  <2> QED
    BY <2>2, <2>3 DEF Init, TypeOK
<1>2. cmd = NoCommand /\ cmd.name = "none" /\ cmd.pc = "idle" /\ ~cmd.done /\ cmd.files = {} /\ cmd.pending.files = {}
  BY DEF Init, NoCommand, NoReport
<1>3. PlaceInv
  BY <1>2 DEF PlaceInv, Idle, At, Publishing, BuildPcs, InstallPcs
<1>4. BuiltInv /\ CheckedInv /\ DoneInv /\ TestInv
  BY <1>2 DEF BuiltInv, BuiltPcs, CheckedInv, DoneInv, TestInv, At
<1>5. \A r \in Reports : report[r].status = "none" /\ report[r].files = {}
  BY DEF Init, NoReport
<1>6. ReportInv /\ TestedIsPassed /\ NothingSaysRunning
  BY <1>2, <1>5 DEF ReportInv, ReportedIsInstalled, TestedIsPassed, NothingSaysRunning, Reports, At
<1>7. KeptInv
  BY <1>2 DEF Init, KeptInv, EmptyDir, PrefixNames
<1> QED
  BY <1>1, <1>3, <1>4, <1>6, <1>7 DEF IInv

LEMMA Inductive == IInv /\ [Next]_vars => IInv'
<1> SUFFICES ASSUME IInv, [Next]_vars PROVE IInv'
  OBVIOUS
<1>1. TypeOK' /\ PlaceInv'
  BY TypeStep, PlaceStep DEF IInv
<1>2. CASE UNCHANGED vars
  BY <1>1, <1>2 DEF IInv, vars, BuiltInv, CheckedInv, DoneInv, ReportInv, ReportedIsInstalled, TestInv,
       TestedIsPassed, KeptInv, NothingSaysRunning, At, Idle, Publishing, Mine
<1>3. CASE Next
  BY <1>1, <1>3, BuiltStep, CheckedStep, DoneStep, ReportStep, TestStep, TestedStep, KeptStep, RunningStep DEF IInv
<1> QED
  BY <1>2, <1>3

THEOREM Invariant == Spec => []IInv
BY InitHolds, Inductive, PTL DEF Spec

(* A report that says "succeeded" lists what is installed, with the bytes  *)
(* and of the configuration it says, and a test report says so only of     *)
(* tests that have all passed; "running" it says only while its command    *)
(* runs, or after it was killed or could not save the report: whatever     *)
(* other commands do, "pkg clean" without the lock included.               *)
THEOREM ReportHolds == Spec => []ReportIsTrue
<1>1. IInv => ReportIsTrue
  BY DEF IInv, ReportInv, ReportIsTrue, SuccessIsTrue
<1> QED
  BY <1>1, Invariant, PTL

(* A command removes files of a prefix only after it has looked again, so  *)
(* what the user has put there during the build stays.                     *)
LEMMA FileStays ==
  IInv /\ [Next]_vars => [dirs["custom"].user = "kept" => dirs'["custom"].user = "kept"]_dirs
<1> SUFFICES ASSUME IInv, Next, dirs["custom"].user = "kept" PROVE dirs'["custom"].user = "kept"
  BY DEF vars
<1>0. dirs \in [PrefixNames -> Dirs] /\ cmd \in Commands
  BY DEF IInv, TypeOK
<1>1. CASE UNCHANGED dirs
  BY <1>1
<1>2. CASE PutFile
  BY <1>2 DEF PutFile
<1>3. CASE RemovePrefix
  BY <1>0, <1>3 DEF RemovePrefix, At, IInv, KeptInv, PrefixNames
<1>4. CASE MarkPrefix \/ TruncateTarget \/ WriteTarget \/ WriteManifest
  <2>1. \/ \E p, b : dirs' = [dirs EXCEPT ![p].marker = b]
        \/ \E p, t, b : dirs' = [dirs EXCEPT ![p].files[t] = b]
        \/ \E p : dirs' = [dirs EXCEPT ![p].manifest = TRUE]
    BY <1>4 DEF MarkPrefix, TruncateTarget, WriteTarget, WriteManifest
  <2> QED
    BY <1>0, <2>1 DEF Dirs, PrefixNames
<1>5. CASE CleanInstall
  BY <1>0, <1>5 DEF CleanInstall, PrefixNames
<1>6. CASE ~PutFile /\ ~RemovePrefix /\ ~MarkPrefix /\ ~TruncateTarget /\ ~WriteTarget /\ ~WriteManifest /\ ~CleanInstall
  BY <1>1, <1>6 DEF Next, User, EditSource, EditConfig, Interrupt, Kill, Start, Begin, BeginClean,
       PkgCleanInvalidate, Build, Resolve, CleanLocal, Bind, ValidateInstallPrefix, RunBuildPhase, Fail, Install,
       StartInstall, Removed, SkipTarget, Publish, Complete, RunAllTests, Finish, Clean, Invalidate,
       CleanOutputs, EndClean, BeginPkgClean
<1> QED
  BY <1>2, <1>3, <1>4, <1>5, <1>6

THEOREM FilesStay == Spec => UserFilesStay
BY Invariant, FileStays, PTL DEF Spec, UserFilesStay

-----------------------------------------------------------------------------
(* Targets of another build system (ExternalTarget).                       *)

Digests == Nat \X Nat
Caches == {None, TornFile} \cup Digests
Outputs == {None, TornFile} \cup {<<n>> : n \in Nat}
Products == {None} \cup (Caches \X Nat)
Trees ==
  [cache : Caches, stamp : {None} \cup Digests, built : Products, installed : SUBSET Products,
   doubtful : BOOLEAN, output : Outputs, record : {None} \cup (Nat \X Nat \X Outputs),
   outputDoubtful : BOOLEAN]
ConfigurePcs == {"check", "configure", "configuring", "stamp"}
VoidPcs == {"void", "generating", "record"}
Runs ==
  [pc : {"idle", "succeeded", "build", "install"} \cup ConfigurePcs \cup VoidPcs, key : Keys,
   args : Nat, fingerprint : {None} \cup Digests, from : Nat, edited : BOOLEAN]

ExternalTypes ==
  /\ project \in [args : Nat, lists : Nat, src : Nat, deletions : Nat, key : Keys]
  /\ trees \in [Keys -> Trees] /\ run \in Runs /\ runs \in Nat

(* A stamp is that of the cache, unless a file was edited after it, and a  *)
(* record names the sources of the output it was made for.                 *)
StampIsTrue(t) ==
  t.stamp # None /\ ~t.doubtful => t.stamp[2] < project.lists \/ t.cache \in {None, t.stamp}
RecordIsTrue(t) ==
  t.record # None /\ ~t.outputDoubtful => t.record[3] = <<t.record[2]>>
TreesAreTrue == \A k \in Keys : StampIsTrue(trees[k]) /\ RecordIsTrue(trees[k])

(* A configure, and the fingerprint from before it.                        *)
FingerprintIsOld ==
  (RunAt("configure") \/ RunAt("configuring") \/ RunAt("stamp")) /\ run.fingerprint # None =>
      /\ run.fingerprint[1] = run.args /\ run.fingerprint[2] <= project.lists
      /\ ~run.edited => run.fingerprint = Fingerprint
ConfigureReads ==
  RunAt("configuring") =>
    /\ Tree.stamp = None /\ run.from <= project.lists
    /\ ~run.edited => run.from = project.lists
    /\ run.fingerprint = None /\ ~Tree.doubtful => run.from = project.lists
    /\ run.fingerprint # None => run.fingerprint[2] <= run.from
ConfigureMade ==
  RunAt("stamp") =>
    /\ Tree.stamp = None
    /\ Tree.cache \in Digests /\ Tree.cache[1] = run.args /\ Tree.cache[2] <= project.lists
    /\ ~run.edited => Tree.cache = Fingerprint
    /\ run.fingerprint = None /\ ~Tree.doubtful => Tree.cache = Fingerprint
    /\ run.fingerprint # None => run.fingerprint[2] <= Tree.cache[2]

(* From the cache to what is installed.                                    *)
NothingInstalled == run.pc \in {"build", "install"} \cup ConfigurePcs => Tree.installed = {}
InstallIsCurrent ==
  ~run.edited /\ ~Tree.doubtful =>
    /\ RunAt("build") => Tree.cache = Fingerprint
    /\ RunAt("install") => Tree.built = <<Fingerprint, project.src>>
    /\ run.pc \in {"succeeded"} \cup VoidPcs => Tree.installed = {<<Fingerprint, project.src>>}

(* The callback.                                                           *)
CallbackReads ==
  RunAt("generating") =>
    /\ Tree.record = None /\ run.from <= project.src
    /\ ~run.edited \/ ~Tree.outputDoubtful => run.from = project.src
CallbackMade ==
  RunAt("record") =>
    /\ Tree.record = None
    /\ ~run.edited \/ ~Tree.outputDoubtful => Tree.output = <<project.src>>
OutputIsKept == RunAt("succeeded") /\ ~run.edited => OutputIsCurrent

StepsAreTrue ==
  /\ FingerprintIsOld /\ ConfigureReads /\ ConfigureMade /\ NothingInstalled /\ InstallIsCurrent
  /\ CallbackReads /\ CallbackMade /\ OutputIsKept
ExternalInv == ExternalTypes /\ TreesAreTrue /\ StepsAreTrue

LEMMA Sentinels == None \notin Digests /\ TornFile \notin Digests /\ None # TornFile
  BY DEF None, TornFile, Digests

LEMMA EmptyIsATree ==
  /\ NoRun \in Runs /\ NoRun.pc = "idle"
  /\ EmptyTree \in Trees /\ EmptyTree.stamp = None /\ EmptyTree.record = None
<1>1. (CHOOSE k \in Keys : TRUE) \in Keys
  BY ExternalAssumption
<1> QED
  BY <1>1 DEF NoRun, Runs, EmptyTree, Trees, Caches, Products, Outputs

(* One tree changes, and what is known of the others stays.                *)
LEMMA TreeBecomes ==
  ASSUME ExternalTypes, TreesAreTrue, NEW k \in Keys, NEW t \in Trees,
         trees' = [trees EXCEPT ![k] = t], UNCHANGED project, StampIsTrue(t), RecordIsTrue(t)
  PROVE  /\ trees' \in [Keys -> Trees] /\ trees'[k] = t
         /\ TreesAreTrue'
<1> USE DEF ExternalTypes
<1>1. trees' \in [Keys -> Trees] /\ \A j \in Keys : trees'[j] = IF j = k THEN t ELSE trees[j]
  OBVIOUS
<1> QED
  BY <1>1 DEF TreesAreTrue, StampIsTrue, RecordIsTrue

LEMMA RunTypes ==
  ASSUME ExternalTypes
  PROVE  /\ run.key \in Keys /\ Tree \in Trees /\ project.key \in Keys
         /\ project.lists \in Nat /\ project.src \in Nat /\ run.args \in Nat
         /\ Fingerprint \in Digests /\ Fingerprint[1] = run.args /\ Fingerprint[2] = project.lists
  BY DEF ExternalTypes, Runs, Tree, Fingerprint, Digests

(* A command that is not running knows nothing.                            *)
LEMMA IdleIsTrue ==
  ASSUME run'.pc = "idle" PROVE StepsAreTrue'
  BY DEF StepsAreTrue, FingerprintIsOld, ConfigureReads, ConfigureMade, NothingInstalled,
     InstallIsCurrent, CallbackReads, CallbackMade, OutputIsKept, RunAt, ConfigurePcs, VoidPcs

LEMMA ExternalInvInit == ExternalInit => ExternalInv
<1> SUFFICES ASSUME ExternalInit PROVE ExternalInv
  OBVIOUS
<1>1. run = NoRun /\ trees = [k \in Keys |-> EmptyTree] /\ runs = 0
  BY DEF ExternalInit
<1>2. ExternalTypes
  BY <1>1, EmptyIsATree DEF ExternalInit, ExternalTypes, NoRun, Runs
<1>3. TreesAreTrue
  BY <1>1, EmptyIsATree DEF TreesAreTrue, StampIsTrue, RecordIsTrue
<1>4. StepsAreTrue
  BY <1>1, EmptyIsATree DEF StepsAreTrue, FingerprintIsOld, ConfigureReads, ConfigureMade,
     NothingInstalled, InstallIsCurrent, CallbackReads, CallbackMade, OutputIsKept, RunAt,
     ConfigurePcs, VoidPcs
<1> QED
  BY <1>2, <1>3, <1>4 DEF ExternalInv

(* The user.                                                               *)
LEMMA EditFileStep ==
  ASSUME ExternalInv, NEW file \in {"lists", "src"}, EditFile(file)
  PROVE  ExternalInv'
<1> USE DEF ExternalInv
<1>1. /\ project' = [project EXCEPT ![file] = @ + 1]
      /\ project' \in [args : Nat, lists : Nat, src : Nat, deletions : Nat, key : Keys]
      /\ project'.lists >= project.lists /\ project'.src >= project.src
      /\ file = "lists" => project'.src = project.src
      /\ file = "src" => project'.lists = project.lists
  BY DEF EditFile, ExternalTypes
<1>2. /\ run' = [run EXCEPT !.edited = run.pc # "idle"] /\ run' \in Runs
      /\ run'.pc = run.pc /\ run'.key = run.key /\ run'.args = run.args
      /\ run'.fingerprint = run.fingerprint /\ run'.from = run.from
      /\ run'.edited <=> run.pc # "idle"
  BY DEF EditFile, ExternalTypes, Runs
<1> DEFINE t == IF ~Missed(file) THEN Tree
                ELSE IF file = "lists" THEN [Tree EXCEPT !.doubtful = TRUE]
                ELSE [Tree EXCEPT !.outputDoubtful = TRUE]
<1>3. /\ t \in Trees /\ t.cache = Tree.cache /\ t.stamp = Tree.stamp /\ t.built = Tree.built
      /\ t.installed = Tree.installed /\ t.output = Tree.output /\ t.record = Tree.record
      /\ t.doubtful <=> Tree.doubtful \/ (file = "lists" /\ Missed(file))
      /\ t.outputDoubtful <=> Tree.outputDoubtful \/ (file = "src" /\ Missed(file))
  BY RunTypes DEF Trees
<1>4. trees' = [trees EXCEPT ![run.key] = t] /\ runs' = runs
  BY RunTypes DEF EditFile, Becomes, Tree, ExternalTypes
<1> HIDE DEF t
<1>5. trees' \in [Keys -> Trees] /\ \A j \in Keys : trees'[j] = IF j = run.key THEN t ELSE trees[j]
  BY <1>3, <1>4 DEF ExternalTypes
<1>6. Tree' = t
  BY <1>2, <1>5, RunTypes DEF Tree
<1>7. TreesAreTrue'
  <2> SUFFICES ASSUME NEW k \in Keys PROVE StampIsTrue(trees[k])' /\ RecordIsTrue(trees[k])'
    BY DEF TreesAreTrue, StampIsTrue, RecordIsTrue
  <2>1. /\ trees'[k].stamp = trees[k].stamp /\ trees'[k].cache = trees[k].cache
        /\ trees'[k].record = trees[k].record
        /\ trees[k].doubtful => trees'[k].doubtful
        /\ trees[k].outputDoubtful => trees'[k].outputDoubtful
    BY <1>3, <1>5 DEF Tree
  <2>2. trees[k] \in Trees
    BY DEF ExternalTypes
  <2>3. StampIsTrue(trees[k])'
    BY <1>1, <2>1, <2>2 DEF TreesAreTrue, StampIsTrue, Trees, Digests, ExternalTypes
  <2> QED
    BY <2>1, <2>3 DEF TreesAreTrue, RecordIsTrue
<1>8. StepsAreTrue'
  <2> USE DEF StepsAreTrue
  <2>1. FingerprintIsOld'
    BY <1>1, <1>2, RunTypes DEF FingerprintIsOld, RunAt, Digests, Runs, ExternalTypes
  <2>2. ConfigureReads'
    BY <1>1, <1>2, <1>3, <1>6, RunTypes DEF ConfigureReads, RunAt, Missed, Runs, ExternalTypes
  <2>3. ConfigureMade'
    BY <1>1, <1>2, <1>3, <1>6, RunTypes DEF ConfigureMade, RunAt, Missed, Fingerprint, Digests, Runs, ExternalTypes
  <2>4. NothingInstalled'
    BY <1>2, <1>3, <1>6 DEF NothingInstalled
  <2>5. InstallIsCurrent'
    BY <1>2 DEF InstallIsCurrent, RunAt, VoidPcs
  <2>6. CallbackReads'
    BY <1>1, <1>2, <1>3, <1>6, RunTypes DEF CallbackReads, RunAt, Missed, Runs, ExternalTypes
  <2>7. CallbackMade'
    BY <1>1, <1>2, <1>3, <1>6 DEF CallbackMade, RunAt, Missed
  <2>8. OutputIsKept'
    BY <1>2 DEF OutputIsKept, RunAt
  <2> QED
    BY <2>1, <2>2, <2>3, <2>4, <2>5, <2>6, <2>7, <2>8
<1> QED
  BY <1>1, <1>2, <1>4, <1>5, <1>7, <1>8 DEF ExternalTypes

LEMMA OtherUserStep ==
  ASSUME ExternalInv, EditScript \/ SelectKey \/ DeleteFiles
  PROVE  ExternalInv'
<1> USE DEF ExternalInv
<1>1. CASE EditScript
  <2>1. /\ project' \in [args : Nat, lists : Nat, src : Nat, deletions : Nat, key : Keys]
        /\ project'.lists = project.lists /\ project'.src = project.src
        /\ UNCHANGED <<trees, run, runs>>
    BY <1>1 DEF EditScript, ExternalTypes
  <2>2. TreesAreTrue'
    BY <2>1 DEF TreesAreTrue, StampIsTrue, RecordIsTrue
  <2>3. StepsAreTrue'
    BY <2>1 DEF StepsAreTrue, FingerprintIsOld, ConfigureReads, ConfigureMade, NothingInstalled,
       InstallIsCurrent, CallbackReads, CallbackMade, OutputIsKept, OutputIsCurrent, RunAt, Tree, Fingerprint
  <2> QED
    BY <2>1, <2>2, <2>3 DEF ExternalTypes
<1>2. CASE SelectKey
  <2>1. /\ project' \in [args : Nat, lists : Nat, src : Nat, deletions : Nat, key : Keys]
        /\ project'.lists = project.lists /\ run' = NoRun /\ UNCHANGED <<trees, runs>>
    BY <1>2 DEF SelectKey, ExternalTypes
  <2>2. TreesAreTrue'
    BY <2>1 DEF TreesAreTrue, StampIsTrue, RecordIsTrue
  <2> QED
    BY <2>1, <2>2, EmptyIsATree, IdleIsTrue DEF ExternalTypes
<1>3. CASE DeleteFiles
  <2>1. /\ project' \in [args : Nat, lists : Nat, src : Nat, deletions : Nat, key : Keys]
        /\ project'.lists = project.lists /\ run' = NoRun /\ UNCHANGED runs
    BY <1>3 DEF DeleteFiles, ExternalTypes
  <2>2. \A k \in Keys : /\ trees'[k].stamp = trees[k].stamp /\ trees'[k].cache \in {None, trees[k].cache}
                        /\ trees'[k].record = trees[k].record
                        /\ trees'[k].doubtful = trees[k].doubtful
                        /\ trees'[k].outputDoubtful = trees[k].outputDoubtful
    BY <1>3 DEF DeleteFiles, ExternalTypes, Trees
  <2>3. trees' \in [Keys -> Trees]
    BY <1>3 DEF DeleteFiles, ExternalTypes, Trees, Caches, Outputs
  <2>4. TreesAreTrue'
    BY <2>1, <2>2 DEF TreesAreTrue, StampIsTrue, RecordIsTrue
  <2> QED
    BY <2>1, <2>3, <2>4, EmptyIsATree, IdleIsTrue DEF ExternalTypes
<1> QED
  BY <1>1, <1>2, <1>3

(* A step of the command that leaves what the user has, and makes its tree *)
(* t and itself r.                                                         *)
LEMMA CommandMoves ==
  ASSUME ExternalInv, NEW t \in Trees, NEW r \in Runs, UNCHANGED <<project, runs>>,
         Becomes(t), run' = r, r.key = run.key, StampIsTrue(t), RecordIsTrue(t)
  PROVE  /\ ExternalTypes' /\ TreesAreTrue' /\ Tree' = t
         /\ project' = project /\ (r.args = run.args => Fingerprint' = Fingerprint)
<1>1. trees' = [trees EXCEPT ![run.key] = t]
  BY DEF Becomes
<1> QED
  BY <1>1, RunTypes, TreeBecomes DEF ExternalInv, ExternalTypes, Tree, Fingerprint

LEMMA TreeIsTrue ==
  ExternalInv => Tree \in Trees /\ StampIsTrue(Tree) /\ RecordIsTrue(Tree) /\ run \in Runs
  BY RunTypes DEF ExternalInv, TreesAreTrue, Tree, ExternalTypes

LEMMA SameTree == ExternalInv /\ UNCHANGED trees => Becomes(Tree)
  BY RunTypes DEF ExternalInv, ExternalTypes, Becomes, Tree

LEMMA StartStep == ExternalInv /\ StartRun => ExternalInv'
<1> SUFFICES ASSUME ExternalInv, StartRun PROVE ExternalInv'
  OBVIOUS
<1> USE DEF ExternalInv
<1>1. /\ run' = [NoRun EXCEPT !.pc = "check", !.key = project.key, !.args = project.args]
      /\ trees' = [trees EXCEPT ![project.key].installed = {}]
      /\ UNCHANGED project /\ runs' = runs + 1
  BY DEF StartRun, clearRemoteInstallDirs
<1>2. run' \in Runs /\ run'.pc = "check" /\ run'.key = project.key
  BY <1>1, EmptyIsATree DEF Runs, ConfigurePcs, ExternalTypes
<1> DEFINE t == [trees[project.key] EXCEPT !.installed = {}]
<1>3. /\ t \in Trees /\ t.installed = {} /\ t.stamp = trees[project.key].stamp
      /\ t.cache = trees[project.key].cache /\ t.doubtful = trees[project.key].doubtful
      /\ t.record = trees[project.key].record
      /\ t.outputDoubtful = trees[project.key].outputDoubtful
  BY RunTypes DEF ExternalTypes, Trees
<1>4. StampIsTrue(t) /\ RecordIsTrue(t)
  <2> HIDE DEF t
  <2> QED
    BY <1>3, RunTypes DEF TreesAreTrue, StampIsTrue, RecordIsTrue
<1>5. /\ trees' \in [Keys -> Trees] /\ trees'[project.key] = t /\ TreesAreTrue'
  <2>1. trees' = [trees EXCEPT ![project.key] = t]
    BY <1>1
  <2> HIDE DEF t
  <2> QED
    BY <1>1, <1>3, <1>4, <2>1, RunTypes, TreeBecomes
<1>6. StepsAreTrue'
  BY <1>2, <1>3, <1>5 DEF StepsAreTrue, FingerprintIsOld, ConfigureReads, ConfigureMade,
     NothingInstalled, InstallIsCurrent, CallbackReads, CallbackMade, OutputIsKept, RunAt, Tree, VoidPcs
<1> QED
  BY <1>1, <1>2, <1>5, <1>6 DEF ExternalTypes

LEMMA StopStep == ExternalInv /\ StopRun => ExternalInv'
<1> SUFFICES ASSUME ExternalInv, StopRun PROVE ExternalInv'
  OBVIOUS
<1>1. run' = NoRun /\ UNCHANGED <<project, trees, runs>>
  BY DEF StopRun
<1> QED
  BY <1>1, EmptyIsATree, IdleIsTrue DEF ExternalInv, ExternalTypes, TreesAreTrue, StampIsTrue, RecordIsTrue

LEMMA CMakeStep == ExternalInv /\ CMake => ExternalInv'
<1> SUFFICES ASSUME ExternalInv, CMake PROVE ExternalInv'
  OBVIOUS
<1> USE DEF ExternalInv
<1>1. CASE CheckConfigure
  <2>1. PICK f \in {None, Fingerprint} :
          /\ f # None => Tree.stamp # None /\ Tree.cache # None
          /\ run' = [run EXCEPT !.fingerprint = f,
                                !.pc = IF f # None /\ f = Tree.stamp THEN "build" ELSE "configure"]
    BY <1>1 DEF CheckConfigure, cmakeConfigureState
  <2> DEFINE r == [run EXCEPT !.fingerprint = f,
                              !.pc = IF f # None /\ f = Tree.stamp THEN "build" ELSE "configure"]
  <2>2. /\ r \in Runs /\ r.key = run.key /\ r.args = run.args /\ r.edited = run.edited /\ r.fingerprint = f
        /\ r.pc = IF f # None /\ f = Tree.stamp THEN "build" ELSE "configure"
    BY TreeIsTrue, RunTypes DEF Runs, ConfigurePcs
  <2>3. run' = r /\ run.pc = "check" /\ UNCHANGED <<project, trees, runs>>
    BY <1>1, <2>1 DEF CheckConfigure, RunAt
  <2> HIDE DEF r
  <2>4. ExternalTypes' /\ TreesAreTrue' /\ Tree' = Tree /\ Fingerprint' = Fingerprint
    BY <2>2, <2>3, SameTree, TreeIsTrue, CommandMoves
  <2>5. Tree.installed = {}
    BY <2>3 DEF StepsAreTrue, NothingInstalled, ConfigurePcs
  <2>6. f # None /\ f = Tree.stamp /\ ~Tree.doubtful => Tree.cache = Fingerprint
    BY <2>1, TreeIsTrue, RunTypes, Sentinels DEF StampIsTrue
  <2>7. InstallIsCurrent'
    BY <2>2, <2>3, <2>4, <2>6 DEF InstallIsCurrent, RunAt, VoidPcs
  <2>8. FingerprintIsOld'
    BY <2>1, <2>2, <2>3, <2>4, RunTypes DEF FingerprintIsOld, RunAt
  <2> QED
    BY <2>2, <2>3, <2>4, <2>5, <2>7, <2>8 DEF StepsAreTrue, ConfigureReads, ConfigureMade,
       NothingInstalled, CallbackReads, CallbackMade, OutputIsKept, RunAt
<1>2. CASE BeginConfigure
  <2> DEFINE r == [run EXCEPT !.pc = "configuring", !.from = project.lists]
             t == [Tree EXCEPT !.stamp = None, !.cache = TornFile, !.doubtful = FALSE]
  <2>1. /\ r \in Runs /\ r.key = run.key /\ r.args = run.args /\ r.edited = run.edited
        /\ r.pc = "configuring" /\ r.from = project.lists /\ r.fingerprint = run.fingerprint
    BY TreeIsTrue, RunTypes DEF Runs, ConfigurePcs
  <2>2. /\ t \in Trees /\ t.stamp = None /\ t.record = Tree.record /\ t.installed = Tree.installed
        /\ t.outputDoubtful = Tree.outputDoubtful
    BY TreeIsTrue DEF Trees, Caches
  <2>3. run' = r /\ Becomes(t) /\ run.pc = "configure" /\ UNCHANGED <<project, runs>>
    BY <1>2 DEF BeginConfigure, Configuring, RunAt
  <2> HIDE DEF r, t
  <2>4. StampIsTrue(t) /\ RecordIsTrue(t)
    BY <2>2, TreeIsTrue DEF StampIsTrue, RecordIsTrue
  <2>5. ExternalTypes' /\ TreesAreTrue' /\ Tree' = t /\ Fingerprint' = Fingerprint /\ UNCHANGED project
    BY <2>1, <2>2, <2>3, <2>4, CommandMoves
  <2>6. t.installed = {}
    BY <2>2, <2>3 DEF StepsAreTrue, NothingInstalled, ConfigurePcs
  <2>7. FingerprintIsOld'
    BY <2>1, <2>3, <2>5 DEF StepsAreTrue, FingerprintIsOld, RunAt
  <2>8. ConfigureReads'
    BY <2>1, <2>2, <2>3, <2>5, RunTypes DEF StepsAreTrue, ConfigureReads, FingerprintIsOld, RunAt
  <2> QED
    BY <2>1, <2>3, <2>5, <2>6, <2>7, <2>8 DEF StepsAreTrue, ConfigureMade, InstallIsCurrent, VoidPcs,
       NothingInstalled, CallbackReads, CallbackMade, OutputIsKept, RunAt
<1>3. CASE EndConfigure
  <2>1. PICK lists \in run.from .. project.lists : Becomes([Tree EXCEPT !.cache = <<run.args, lists>>])
    BY <1>3 DEF EndConfigure
  <2> DEFINE r == [run EXCEPT !.pc = "stamp", !.from = 0]
             t == [Tree EXCEPT !.cache = <<run.args, lists>>]
  <2>2. lists \in Nat /\ run.from <= lists /\ lists <= project.lists /\ <<run.args, lists>> \in Digests
    BY RunTypes, TreeIsTrue DEF Runs, Digests
  <2>3. /\ r \in Runs /\ r.key = run.key /\ r.args = run.args /\ r.edited = run.edited
        /\ r.pc = "stamp" /\ r.fingerprint = run.fingerprint
    BY TreeIsTrue DEF Runs, ConfigurePcs
  <2>4. /\ t \in Trees /\ t.stamp = Tree.stamp /\ t.record = Tree.record /\ t.installed = Tree.installed
        /\ t.outputDoubtful = Tree.outputDoubtful /\ t.cache = <<run.args, lists>>
        /\ t.doubtful = Tree.doubtful
    BY <2>2, TreeIsTrue DEF Trees, Caches
  <2>5. run' = r /\ Becomes(t) /\ run.pc = "configuring" /\ UNCHANGED <<project, runs>>
    BY <1>3, <2>1 DEF EndConfigure, RunAt
  <2> HIDE DEF r, t
  <2>6. t.stamp = None
    BY <2>4, <2>5 DEF StepsAreTrue, ConfigureReads, RunAt
  <2>7. StampIsTrue(t) /\ RecordIsTrue(t)
    BY <2>4, <2>6, TreeIsTrue DEF StampIsTrue, RecordIsTrue
  <2>8. ExternalTypes' /\ TreesAreTrue' /\ Tree' = t /\ Fingerprint' = Fingerprint /\ UNCHANGED project
    BY <2>3, <2>4, <2>5, <2>7, CommandMoves
  <2>9. t.installed = {}
    BY <2>4, <2>5 DEF StepsAreTrue, NothingInstalled, ConfigurePcs
  <2>10. FingerprintIsOld'
    BY <2>3, <2>5, <2>8 DEF StepsAreTrue, FingerprintIsOld, RunAt
  <2>11. ConfigureMade'
    <3>1. run.from = project.lists => <<run.args, lists>> = Fingerprint
      BY <2>2, RunTypes DEF Fingerprint
    <3>2. /\ ~run.edited => run.from = project.lists
          /\ run.fingerprint = None /\ ~Tree.doubtful => run.from = project.lists
          /\ run.fingerprint # None => run.fingerprint \in Digests /\ run.fingerprint[2] <= run.from
      BY <2>5, TreeIsTrue DEF StepsAreTrue, ConfigureReads, RunAt, Runs
    <3>3. /\ t.cache \in Digests /\ t.cache[1] = run.args /\ t.cache[2] = lists
      BY <2>2, <2>4
    <3>4. run.fingerprint # None => run.fingerprint[2] <= lists
      BY <2>2, <3>2, TreeIsTrue DEF Digests, Runs
    <3> QED
      BY <2>2, <2>3, <2>4, <2>5, <2>6, <2>8, <3>1, <3>2, <3>3, <3>4 DEF ConfigureMade, RunAt
  <2> QED
    BY <2>3, <2>5, <2>8, <2>9, <2>10, <2>11 DEF StepsAreTrue, ConfigureReads, InstallIsCurrent, VoidPcs,
       NothingInstalled, CallbackReads, CallbackMade, OutputIsKept, RunAt
<1>4. CASE saveCMakeConfigureStamp
  <2> DEFINE r == [run EXCEPT !.pc = "build"]
             f == IF run.fingerprint # None THEN run.fingerprint ELSE Fingerprint
             u == [Tree EXCEPT !.stamp = f]
  <2>1. /\ r \in Runs /\ r.key = run.key /\ r.args = run.args /\ r.edited = run.edited /\ r.pc = "build"
    BY TreeIsTrue DEF Runs
  <2>2. run' = r /\ run.pc = "stamp" /\ UNCHANGED <<project, runs>>
    BY <1>4 DEF saveCMakeConfigureStamp, RunAt, Continue
  <2>3. /\ u \in Trees /\ u.stamp = f /\ u.record = Tree.record /\ u.installed = Tree.installed
        /\ u.outputDoubtful = Tree.outputDoubtful /\ u.cache = Tree.cache
        /\ u.doubtful = Tree.doubtful
    BY TreeIsTrue, RunTypes DEF Trees, Runs
  <2>4. PICK t \in {u, Tree} : Becomes(t)
    BY <1>4, SameTree DEF saveCMakeConfigureStamp
  <2>5. /\ Tree.stamp = None
        /\ Tree.cache \in Digests /\ Tree.cache[1] = run.args /\ Tree.cache[2] <= project.lists
        /\ ~run.edited => Tree.cache = Fingerprint
        /\ run.fingerprint = None /\ ~Tree.doubtful => Tree.cache = Fingerprint
        /\ run.fingerprint # None => run.fingerprint[1] = run.args /\ run.fingerprint[2] <= Tree.cache[2]
        /\ Tree.installed = {}
    BY <2>2 DEF StepsAreTrue, ConfigureMade, FingerprintIsOld, NothingInstalled, ConfigurePcs, RunAt
  <2> HIDE DEF u, r
  <2>6. StampIsTrue(u)
    <3>1. CASE run.fingerprint # None
      <4>1. f \in Digests /\ f[1] = Tree.cache[1] /\ f[2] <= Tree.cache[2]
        BY <2>5, <3>1, TreeIsTrue DEF Runs
      <4>2. f = Tree.cache \/ f[2] < project.lists
        BY <2>5, <4>1, RunTypes DEF Digests
      <4> QED
        BY <2>3, <4>2 DEF StampIsTrue
    <3>2. CASE run.fingerprint = None
      BY <2>3, <2>5, <3>2 DEF StampIsTrue
    <3> QED
      BY <3>1, <3>2
  <2>7. t \in Trees /\ StampIsTrue(t) /\ RecordIsTrue(t) /\ t.installed = {} /\ t.cache = Tree.cache
    BY <2>3, <2>4, <2>5, <2>6, TreeIsTrue DEF RecordIsTrue
  <2>8. ExternalTypes' /\ TreesAreTrue' /\ Tree' = t /\ Fingerprint' = Fingerprint /\ UNCHANGED project
    BY <2>1, <2>2, <2>4, <2>7, CommandMoves
  <2>9. InstallIsCurrent'
    BY <2>1, <2>2, <2>5, <2>7, <2>8 DEF InstallIsCurrent, RunAt, VoidPcs
  <2> QED
    BY <2>1, <2>2, <2>7, <2>8, <2>9 DEF StepsAreTrue, FingerprintIsOld, ConfigureReads, ConfigureMade,
       NothingInstalled, CallbackReads, CallbackMade, OutputIsKept, RunAt
<1>5. CASE CMakeBuild
  <2> DEFINE r == [run EXCEPT !.pc = "install"]
             t == [Tree EXCEPT !.built = <<Tree.cache, project.src>>]
  <2>1. /\ r \in Runs /\ r.key = run.key /\ r.args = run.args /\ r.edited = run.edited /\ r.pc = "install"
    BY TreeIsTrue DEF Runs
  <2>2. /\ t \in Trees /\ t.stamp = Tree.stamp /\ t.cache = Tree.cache /\ t.record = Tree.record
        /\ t.installed = Tree.installed /\ t.built = <<Tree.cache, project.src>>
        /\ t.outputDoubtful = Tree.outputDoubtful /\ t.doubtful = Tree.doubtful
    BY TreeIsTrue, RunTypes DEF Trees, Products
  <2>3. run' = r /\ Becomes(t) /\ run.pc = "build" /\ UNCHANGED <<project, runs>>
    BY <1>5 DEF CMakeBuild, Continue, RunAt
  <2> HIDE DEF r, t
  <2>4. StampIsTrue(t) /\ RecordIsTrue(t)
    BY <2>2, TreeIsTrue DEF StampIsTrue, RecordIsTrue
  <2>5. ExternalTypes' /\ TreesAreTrue' /\ Tree' = t /\ Fingerprint' = Fingerprint /\ UNCHANGED project
    BY <2>1, <2>2, <2>3, <2>4, CommandMoves
  <2>6. t.installed = {} /\ (~run.edited /\ ~Tree.doubtful => Tree.cache = Fingerprint)
    BY <2>2, <2>3 DEF StepsAreTrue, NothingInstalled, InstallIsCurrent, RunAt
  <2>7. InstallIsCurrent'
    BY <2>1, <2>2, <2>3, <2>5, <2>6 DEF InstallIsCurrent, RunAt, VoidPcs
  <2> QED
    BY <2>1, <2>3, <2>5, <2>6, <2>7 DEF StepsAreTrue, FingerprintIsOld, ConfigureReads, ConfigureMade,
       NothingInstalled, CallbackReads, CallbackMade, OutputIsKept, RunAt
<1>6. CASE CMakeInstall
  <2> DEFINE r == [run EXCEPT !.pc = "void"]
             files == {f \in Tree.installed : FileName(f) # FileName(Tree.built)} \cup {Tree.built}
             t == [Tree EXCEPT !.installed = files]
  <2>1. /\ r \in Runs /\ r.key = run.key /\ r.args = run.args /\ r.edited = run.edited /\ r.pc = "void"
    BY TreeIsTrue DEF Runs, VoidPcs
  <2>2. run' = r /\ Becomes(t) /\ run.pc = "install" /\ UNCHANGED <<project, runs>>
    BY <1>6 DEF CMakeInstall, Continue, RunAt
  <2>3. files = {Tree.built}
    BY <2>2 DEF StepsAreTrue, NothingInstalled
  <2>4. /\ t \in Trees /\ t.stamp = Tree.stamp /\ t.cache = Tree.cache /\ t.record = Tree.record
        /\ t.installed = {Tree.built}
        /\ t.outputDoubtful = Tree.outputDoubtful /\ t.doubtful = Tree.doubtful
    BY <2>3, TreeIsTrue DEF Trees
  <2> HIDE DEF r, t, files
  <2>5. StampIsTrue(t) /\ RecordIsTrue(t)
    BY <2>4, TreeIsTrue DEF StampIsTrue, RecordIsTrue
  <2>6. ExternalTypes' /\ TreesAreTrue' /\ Tree' = t /\ Fingerprint' = Fingerprint /\ UNCHANGED project
    BY <2>1, <2>2, <2>4, <2>5, CommandMoves
  <2>7. InstallIsCurrent'
    BY <2>1, <2>2, <2>4, <2>6 DEF StepsAreTrue, InstallIsCurrent, RunAt, VoidPcs
  <2> QED
    BY <2>1, <2>2, <2>6, <2>7 DEF StepsAreTrue, FingerprintIsOld, ConfigureReads, ConfigureMade,
       NothingInstalled, CallbackReads, CallbackMade, OutputIsKept, RunAt, ConfigurePcs
<1> QED
  BY <1>1, <1>2, <1>3, <1>4, <1>5, <1>6 DEF CMake

LEMMA VoidStep == ExternalInv /\ Void => ExternalInv'
<1> SUFFICES ASSUME ExternalInv, Void PROVE ExternalInv'
  OBVIOUS
<1> USE DEF ExternalInv
<1>1. CASE finalizeIncrementalVoid /\ UpToDate
  <2> DEFINE r == [run EXCEPT !.pc = "succeeded"]
  <2>1. /\ r \in Runs /\ r.key = run.key /\ r.args = run.args /\ r.edited = run.edited
        /\ r.pc = "succeeded"
    BY TreeIsTrue DEF Runs
  <2>2. run' = r /\ run.pc = "void" /\ UNCHANGED <<project, trees, runs>>
    BY <1>1 DEF finalizeIncrementalVoid, Continue, RunAt
  <2> HIDE DEF r
  <2>3. ExternalTypes' /\ TreesAreTrue' /\ Tree' = Tree /\ Fingerprint' = Fingerprint
    BY <2>1, <2>2, SameTree, TreeIsTrue, CommandMoves
  <2>4. Tree.record # None /\ Tree.record = <<run.args, project.src, Tree.output>>
    BY <1>1 DEF UpToDate
  <2>5. OutputIsCurrent
    BY <2>4, TreeIsTrue DEF RecordIsTrue, OutputIsCurrent
  <2>6. InstallIsCurrent'
    BY <2>1, <2>2, <2>3 DEF StepsAreTrue, InstallIsCurrent, RunAt, VoidPcs
  <2> QED
    BY <2>1, <2>2, <2>3, <2>5, <2>6 DEF StepsAreTrue, FingerprintIsOld, ConfigureReads, ConfigureMade,
       NothingInstalled, CallbackReads, CallbackMade, OutputIsKept, OutputIsCurrent, RunAt, ConfigurePcs
<1>2. CASE finalizeIncrementalVoid /\ ~UpToDate
  <2> DEFINE r == [run EXCEPT !.pc = "generating", !.from = project.src]
             t == [Tree EXCEPT !.record = None, !.output = TornFile, !.outputDoubtful = FALSE]
  <2>1. /\ r \in Runs /\ r.key = run.key /\ r.args = run.args /\ r.edited = run.edited
        /\ r.pc = "generating" /\ r.from = project.src
    BY TreeIsTrue, RunTypes DEF Runs, VoidPcs
  <2>2. /\ t \in Trees /\ t.stamp = Tree.stamp /\ t.cache = Tree.cache /\ t.record = None
        /\ t.installed = Tree.installed /\ t.doubtful = Tree.doubtful
    BY TreeIsTrue DEF Trees, Outputs
  <2>3. run' = r /\ Becomes(t) /\ run.pc = "void" /\ UNCHANGED <<project, runs>>
    BY <1>2 DEF finalizeIncrementalVoid, RunAt
  <2> HIDE DEF r, t
  <2>4. StampIsTrue(t) /\ RecordIsTrue(t)
    BY <2>2, TreeIsTrue DEF StampIsTrue, RecordIsTrue
  <2>5. ExternalTypes' /\ TreesAreTrue' /\ Tree' = t /\ Fingerprint' = Fingerprint /\ UNCHANGED project
    BY <2>1, <2>2, <2>3, <2>4, CommandMoves
  <2>6. InstallIsCurrent'
    BY <2>1, <2>2, <2>3, <2>5 DEF StepsAreTrue, InstallIsCurrent, RunAt, VoidPcs
  <2>7. CallbackReads'
    BY <2>1, <2>2, <2>3, <2>5, RunTypes DEF CallbackReads, RunAt
  <2> QED
    BY <2>1, <2>3, <2>5, <2>6, <2>7 DEF StepsAreTrue, FingerprintIsOld, ConfigureReads, ConfigureMade,
       NothingInstalled, CallbackMade, OutputIsKept, RunAt, ConfigurePcs
<1>3. CASE buildVoidTarget
  <2>1. PICK src \in run.from .. project.src : Becomes([Tree EXCEPT !.output = <<src>>])
    BY <1>3 DEF buildVoidTarget
  <2> DEFINE r == [run EXCEPT !.pc = "record", !.from = 0]
             t == [Tree EXCEPT !.output = <<src>>]
  <2>2. src \in Nat /\ (run.from = project.src => src = project.src)
    BY RunTypes, TreeIsTrue DEF Runs
  <2>3. /\ r \in Runs /\ r.key = run.key /\ r.args = run.args /\ r.edited = run.edited /\ r.pc = "record"
    BY TreeIsTrue DEF Runs, VoidPcs
  <2>4. /\ t \in Trees /\ t.stamp = Tree.stamp /\ t.cache = Tree.cache /\ t.record = Tree.record
        /\ t.installed = Tree.installed /\ t.doubtful = Tree.doubtful
        /\ t.outputDoubtful = Tree.outputDoubtful /\ t.output = <<src>>
    BY <2>2, TreeIsTrue DEF Trees, Outputs
  <2>5. run' = r /\ Becomes(t) /\ run.pc = "generating" /\ UNCHANGED <<project, runs>>
    BY <1>3, <2>1 DEF buildVoidTarget, RunAt
  <2> HIDE DEF r, t
  <2>6. StampIsTrue(t) /\ RecordIsTrue(t)
    BY <2>4, TreeIsTrue DEF StampIsTrue, RecordIsTrue
  <2>7. ExternalTypes' /\ TreesAreTrue' /\ Tree' = t /\ Fingerprint' = Fingerprint /\ UNCHANGED project
    BY <2>3, <2>4, <2>5, <2>6, CommandMoves
  <2>8. InstallIsCurrent'
    BY <2>3, <2>4, <2>5, <2>7 DEF StepsAreTrue, InstallIsCurrent, RunAt, VoidPcs
  <2>9. CallbackMade'
    BY <2>2, <2>3, <2>4, <2>5, <2>7 DEF StepsAreTrue, CallbackReads, CallbackMade, RunAt
  <2> QED
    BY <2>3, <2>5, <2>7, <2>8, <2>9 DEF StepsAreTrue, FingerprintIsOld, ConfigureReads, ConfigureMade,
       NothingInstalled, CallbackReads, OutputIsKept, RunAt, ConfigurePcs
<1>4. CASE SaveRecord
  <2> DEFINE r == [run EXCEPT !.pc = "succeeded"]
             record == <<run.args, project.src, Tree.output>>
             t == [Tree EXCEPT !.record = record]
  <2>1. /\ r \in Runs /\ r.key = run.key /\ r.args = run.args /\ r.edited = run.edited
        /\ r.pc = "succeeded"
    BY TreeIsTrue DEF Runs
  <2>2. /\ t \in Trees /\ t.stamp = Tree.stamp /\ t.cache = Tree.cache /\ t.record = record
        /\ t.installed = Tree.installed /\ t.doubtful = Tree.doubtful
        /\ t.outputDoubtful = Tree.outputDoubtful /\ t.output = Tree.output
    BY RunTypes, TreeIsTrue DEF Trees
  <2>3. run' = r /\ Becomes(t) /\ run.pc = "record" /\ UNCHANGED <<project, runs>>
    BY <1>4 DEF SaveRecord, Continue, RunAt
  <2>4. ~run.edited \/ ~Tree.outputDoubtful => Tree.output = <<project.src>>
    BY <2>3 DEF StepsAreTrue, CallbackMade, RunAt
  <2>5. record[2] = project.src /\ record[3] = Tree.output
    OBVIOUS
  <2> HIDE DEF r, t, record
  <2>6. StampIsTrue(t) /\ RecordIsTrue(t)
    BY <2>2, <2>4, <2>5, TreeIsTrue DEF StampIsTrue, RecordIsTrue
  <2>7. ExternalTypes' /\ TreesAreTrue' /\ Tree' = t /\ Fingerprint' = Fingerprint /\ UNCHANGED project
    BY <2>1, <2>2, <2>3, <2>6, CommandMoves
  <2>8. InstallIsCurrent'
    BY <2>1, <2>2, <2>3, <2>7 DEF StepsAreTrue, InstallIsCurrent, RunAt, VoidPcs
  <2>9. OutputIsKept'
    BY <2>1, <2>2, <2>3, <2>4, <2>7 DEF OutputIsKept, OutputIsCurrent
  <2> QED
    BY <2>1, <2>3, <2>7, <2>8, <2>9 DEF StepsAreTrue, FingerprintIsOld, ConfigureReads, ConfigureMade,
       NothingInstalled, CallbackReads, CallbackMade, RunAt, ConfigurePcs
<1> QED
  BY <1>1, <1>2, <1>3, <1>4 DEF Void

THEOREM ExternalInvariant == ExternalSpec => []ExternalInv
<1>1. ExternalInv /\ [ExternalNext]_externalVars => ExternalInv'
  <2> SUFFICES ASSUME ExternalInv, [ExternalNext]_externalVars PROVE ExternalInv'
    OBVIOUS
  <2>1. CASE UNCHANGED externalVars
    BY <2>1 DEF externalVars, ExternalInv, ExternalTypes, TreesAreTrue, StampIsTrue, RecordIsTrue,
       StepsAreTrue, FingerprintIsOld, ConfigureReads, ConfigureMade, NothingInstalled,
       InstallIsCurrent, CallbackReads, CallbackMade, OutputIsKept, OutputIsCurrent, RunAt, Tree, Fingerprint
  <2> QED
    BY <2>1, EditFileStep, OtherUserStep, StartStep, StopStep, CMakeStep, VoidStep
       DEF ExternalNext, UserSteps
<1> QED
  BY <1>1, ExternalInvInit, PTL DEF ExternalSpec

(* A command that succeeds, with no edit while it ran, has installed what  *)
(* the script, the files and the sources make now, and nothing else.       *)
THEOREM VoidHolds == ExternalSpec => []VoidIsCurrent
<1>1. ExternalInv => VoidIsCurrent
  BY DEF ExternalInv, StepsAreTrue, InstallIsCurrent, OutputIsKept, VoidIsCurrent, ConfiguredIsCurrent, RunAt
<1> QED
  BY <1>1, ExternalInvariant, PTL

-----------------------------------------------------------------------------
(* The values of one option (OptionValues).                                *)

OptionTypes ==
  /\ decl \in [Packages -> Declarations]
  /\ entry \in [Packages -> Values \cup {NoValue}]
  /\ configured \in Values \cup {NoValue} /\ flag \in Values \cup {NoValue}
  /\ root \subseteq Locals

(* What each phase has computed, from values that do not change.           *)
PhasesAreComputed ==
  /\ phase \in {"configured", "filtered", "built"} =>
       /\ MergeGlobalOptions
       /\ applied = [p \in Packages |-> AppliedValue(p)] /\ macro = MacroValue
  /\ phase \in {"filtered", "built"} =>
       /\ \A p \in Packages : Requires[p] # {} => Readable(p)
       /\ needed = computeReachable
       /\ required = [p \in Packages |-> IF Readable(p) THEN Asked(p) ELSE NoValue]
  /\ phase = "built" =>
       /\ built = [p \in Packages |-> IF p \in needed THEN BuiltValue(p) ELSE NoValue]
       /\ header = [p \in Packages |-> IF p \in needed THEN HeaderValue(p) ELSE NoValue]

OptionInv == OptionTypes /\ PhasesAreComputed

LEMMA OptionInvInit == OptionsInit => OptionInv
  BY OptionAssumption DEF OptionsInit, OptionInv, OptionTypes, PhasesAreComputed

LEMMA OptionInvStep == OptionInv /\ [OptionsNext]_optionVars => OptionInv'
<1> SUFFICES ASSUME OptionInv, [OptionsNext]_optionVars PROVE OptionInv'
  OBVIOUS
<1>1. UNCHANGED configVars
  BY DEF OptionsNext, runConfigPhase, filterAndCollectNeeded, executeOnBuild, optionVars, configVars
<1>2. OptionTypes'
  BY <1>1 DEF OptionInv, OptionTypes, configVars
<1>3. /\ MergeGlobalOptions' = MergeGlobalOptions /\ MacroValue' = MacroValue
      /\ computeReachable' = computeReachable
      /\ \A p \in Packages : /\ AppliedValue(p)' = AppliedValue(p) /\ Readable(p)' = Readable(p)
                             /\ Asked(p)' = Asked(p) /\ BuiltValue(p)' = BuiltValue(p)
  BY <1>1 DEF configVars, MergeGlobalOptions, GlobalDefaults, Globals, Global, MacroValue, ResolveMode,
     GlobalDefault, computeReachable, Starts, Filtered, Discovered, Asked, Readable, AppliedValue,
     packageConfigValuesWithGlobals, mergePkgOptions, BuildGlobalValues, HasProjectValue, Declared,
     BuiltValue, mergeCfgVals, AccessorDefault, HasGlobalValue, GlobalValues
<1>4. needed' = needed => \A p \in Packages : HeaderValue(p)' = HeaderValue(p)
  BY <1>1 DEF configVars, HeaderValue, Owners, Owner, MergeImportedOptions, mergeCfgVals, mergePkgOptions,
     HasGlobalValue, HasProjectValue, GlobalValues, ResolveMode, GlobalDefault, GlobalDefaults, Globals,
     Global, Declared
<1>5. PhasesAreComputed'
  <2>1. CASE runConfigPhase
    BY <1>3, <2>1 DEF runConfigPhase, OptionInv, PhasesAreComputed
  <2>2. CASE filterAndCollectNeeded
    BY <1>3, <2>2 DEF filterAndCollectNeeded, OptionInv, PhasesAreComputed
  <2>3. CASE executeOnBuild
    BY <1>3, <1>4, <2>3 DEF executeOnBuild, OptionInv, PhasesAreComputed
  <2>4. CASE UNCHANGED optionVars
    BY <1>3, <1>4, <2>4 DEF optionVars, OptionInv, PhasesAreComputed
  <2> QED
    BY <2>1, <2>2, <2>3, <2>4 DEF OptionsNext
<1> QED
  BY <1>2, <1>5 DEF OptionInv

(* All global declarations have one default.                               *)
LEMMA OneDefault ==
  ASSUME OptionTypes, MergeGlobalOptions, NEW p \in Packages, Global(p)
  PROVE  GlobalDefault = decl[p].default
<1>1. IsFiniteSet(GlobalDefaults)
  <2>1. IsFiniteSet(Globals)
    BY OptionAssumption, FS_Subset DEF Globals
  <2>2. IsFiniteSet({decl[q].default : q \in Globals})
    <3> DEFINE f == [q \in Globals |-> decl[q].default]
               T == {decl[q].default : q \in Globals}
    <3>1. f \in [Globals -> T] /\ \A v \in T : \E q \in Globals : f[q] = v
      OBVIOUS
    <3> HIDE DEF f, T
    <3>2. IsFiniteSet(T)
      BY <2>1, <3>1, FS_Surjection DEF Surjection
    <3> QED
      BY <3>2 DEF T
  <2>3. IsFiniteSet(IF builtin THEN {Release} ELSE {})
    BY FS_Singleton, FS_EmptySet
  <2> QED
    BY <2>2, <2>3, FS_Union DEF GlobalDefaults
<1>2. decl[p].default \in GlobalDefaults
  BY DEF GlobalDefaults, Globals
<1>3. Cardinality(GlobalDefaults) = 1
  <2>1. Cardinality(GlobalDefaults) \in Nat
    BY <1>1, FS_CardinalityType
  <2>2. Cardinality(GlobalDefaults) # 0
    BY <1>1, <1>2, FS_EmptySet
  <2> QED
    BY <2>1, <2>2 DEF MergeGlobalOptions
<1>4. PICK v : GlobalDefaults = {v}
  BY <1>1, <1>3, FS_Singleton
<1> QED
  BY <1>2, <1>4 DEF GlobalDefault

LEMMA ValueTypes ==
  ASSUME OptionTypes, NEW p \in Packages
  PROVE  /\ decl[p].scope \in {"none", "local", "global"}
         /\ decl[p].scope = "none" => decl[p].default = NoValue
         /\ Release # NoValue /\ Debug # NoValue
  BY OptionAssumption DEF OptionTypes, Declarations, Undeclared

(* What a script may read when dependencies are filtered, OnBuild sees.    *)
LEMMA AskedIsBuilt ==
  ASSUME OptionTypes, MergeGlobalOptions, NEW p \in Packages, Settled(p), Readable(p)
  PROVE  Asked(p) = BuiltValue(p)
<1> USE DEF Asked, BuiltValue, packageConfigValuesWithGlobals, mergeCfgVals, mergePkgOptions,
        AccessorDefault, Or, BuildGlobalValues, GlobalValues, ResolveMode, HasGlobalValue, HasProjectValue
<1>1. CASE Global(p)
  <2>1. GlobalDefault = decl[p].default /\ Globals # {} /\ Declared(p)
    BY <1>1, OneDefault DEF Globals, Global, Declared
  <2> QED
    BY <1>1, <2>1, ValueTypes DEF Settled
<1>2. CASE decl[p].scope = "local"
  <2>1. ~HasGlobalValue => GlobalDefault = NoValue
    BY DEF GlobalDefault, GlobalDefaults
  <2> QED
    BY <1>2, <2>1 DEF Settled, Global, Declared
<1>3. CASE decl[p].scope = "none"
  BY <1>3, ValueTypes DEF Readable, Global, Declared
<1> QED
  BY <1>1, <1>2, <1>3, ValueTypes DEF Global

LEMMA HeaderIsBuilt ==
  ASSUME OptionTypes, NEW p \in Packages, Declared(p), ~Global(p)
  PROVE  HeaderValue(p) = BuiltValue(p)
<1>1. p \in Owners(p) /\ Owner(p) = p
  BY DEF Owners, Owner
<1> QED
  BY <1>1 DEF HeaderValue, MergeImportedOptions, BuiltValue, AccessorDefault, Or

LEMMA MacroIsBuilt ==
  ASSUME OptionTypes, MergeGlobalOptions, NEW p \in Packages, Global(p), entry[p] = NoValue
  PROVE  MacroValue = BuiltValue(p)
<1>1. GlobalDefault = decl[p].default /\ Globals # {}
  BY OneDefault DEF Globals
<1> QED
  BY <1>1, ValueTypes DEF MacroValue, BuiltValue, mergeCfgVals, mergePkgOptions, AccessorDefault, Or,
     GlobalValues, ResolveMode, HasGlobalValue, HasProjectValue, Global, Declared

(* What is needed is what the starts lead to, and nothing else.            *)
LEMMA NeededIsReached ==
  ASSUME OptionTypes
  PROVE
  /\ computeReachable \subseteq Packages
  /\ \A d \in Filtered : d[1] \in computeReachable => d[2] \in computeReachable
  /\ \A q \in computeReachable \ Starts : \E d \in Filtered : d[1] \in computeReachable /\ d[2] = q
<1> DEFINE closed == {S \in SUBSET Packages :
                        Starts \subseteq S /\ \A d \in Filtered : d[1] \in S => d[2] \in S}
<1>1. computeReachable = {q \in Packages : \A S \in closed : q \in S}
  BY DEF computeReachable
<1>2. \A d \in Filtered : d[2] \in Packages
  BY OptionAssumption DEF Filtered, Discovered
<1>3. ASSUME NEW q \in computeReachable \ Starts,
             ~\E d \in Filtered : d[1] \in computeReachable /\ d[2] = q
      PROVE  FALSE
  <2> DEFINE S == computeReachable \ {q}
  <2>1. Starts \subseteq S
    <3>1. Starts \subseteq Packages
      BY DEF Starts, Packages, OptionTypes
    <3> QED
      BY <1>1, <1>3, <3>1
  <2>2. \A d \in Filtered : d[1] \in S => d[2] \in S
    BY <1>1, <1>2, <1>3
  <2>3. S \in closed
    BY <1>1, <2>1, <2>2
  <2> QED
    BY <1>1, <2>3
<1> QED
  BY <1>1, <1>2, <1>3

THEOREM OptionInvariant == OptionsSpec => []OptionInv
  BY OptionInvInit, OptionInvStep, PTL DEF OptionsSpec

(* Whatever is declared and configured, all that read the option in a      *)
(* build see one value, and what is required for that value is there.      *)
THEOREM ReadersHold == OptionsSpec => []ReadersAgree
<1> SUFFICES ASSUME OptionInv PROVE ReadersAgree
  BY OptionInvariant, PTL
<1> SUFFICES ASSUME phase = "built" PROVE ReadersAgree
  BY DEF ReadersAgree, OneValue, NeededIsWhatIsBuilt, ImportedIsOwners
<1>1. /\ OptionTypes /\ MergeGlobalOptions
      /\ applied = [p \in Packages |-> AppliedValue(p)] /\ macro = MacroValue
      /\ \A p \in Packages : Requires[p] # {} => Readable(p)
      /\ needed = computeReachable
      /\ required = [p \in Packages |-> IF Readable(p) THEN Asked(p) ELSE NoValue]
      /\ built = [p \in Packages |-> IF p \in needed THEN BuiltValue(p) ELSE NoValue]
      /\ header = [p \in Packages |-> IF p \in needed THEN HeaderValue(p) ELSE NoValue]
  BY DEF OptionInv, PhasesAreComputed
<1>2. needed \subseteq Packages
  BY <1>1, NeededIsReached
<1>3. \A p \in needed : built[p] = BuiltValue(p) /\ header[p] = HeaderValue(p)
  BY <1>1, <1>2
<1>4. OneValue
  <2> SUFFICES ASSUME NEW p \in needed, Declared(p)
               PROVE  /\ Settled(p) => applied[p] = built[p] /\ required[p] = built[p]
                      /\ ~Global(p) => header[p] = built[p]
                      /\ Global(p) /\ entry[p] = NoValue => macro = built[p]
    BY DEF OneValue
  <2>1. Readable(p) /\ p \in Packages
    BY <1>2 DEF Readable
  <2>2. Settled(p) => Asked(p) = built[p]
    BY <1>1, <1>3, <2>1, AskedIsBuilt
  <2>3. applied[p] = Asked(p) /\ required[p] = Asked(p)
    BY <1>1, <2>1 DEF AppliedValue, Asked
  <2> QED
    BY <1>1, <1>3, <2>1, <2>2, <2>3, HeaderIsBuilt, MacroIsBuilt
<1>5. NeededIsWhatIsBuilt
  <2> SUFFICES ASSUME NEW p \in needed, Settled(p)
               PROVE  /\ \A r \in Requires[p] : r[2] = built[p] => r[1] \in needed
                      /\ \A q \in needed \ Locals : \E d \in needed : \E r \in Requires[d] :
                           r[1] = q /\ (Settled(d) => r[2] = built[d])
    BY DEF NeededIsWhatIsBuilt
  <2>1. ASSUME NEW r \in Requires[p], r[2] = built[p] PROVE r[1] \in needed
    <3>1. Asked(p) = built[p] /\ p \in Packages
      BY <1>1, <1>2, <1>3, AskedIsBuilt
    <3>2. r = <<r[1], r[2]>>
      BY <3>1, OptionAssumption
    <3>3. <<p, r[1]>> \in Filtered
      BY <2>1, <3>1, <3>2 DEF Filtered, Discovered
    <3> QED
      BY <1>1, <3>3, NeededIsReached
  <2>2. ASSUME NEW q \in needed \ Locals
        PROVE  \E d \in needed : \E r \in Requires[d] : r[1] = q /\ (Settled(d) => r[2] = built[d])
    <3>1. q \notin Starts
      BY OptionInv, <1>1, <2>2 DEF Starts, OptionTypes
    <3>2. PICK e \in Filtered : e[1] \in needed /\ e[2] = q
      BY <1>1, <2>2, <3>1, NeededIsReached
    <3>3. <<q, Asked(e[1])>> \in Requires[e[1]]
      BY <3>2 DEF Filtered
    <3>4. Settled(e[1]) => Asked(e[1]) = built[e[1]]
      BY <1>1, <1>2, <1>3, <3>2, <3>3, AskedIsBuilt
    <3> QED
      BY <3>2, <3>3, <3>4
  <2> QED
    BY <2>1, <2>2
<1>6. ImportedIsOwners
  <2> SUFFICES ASSUME NEW p \in needed, NEW q \in Imports[p] \cap needed, ~Declared(p),
                      entry[p] = NoValue, decl[q].scope = "local", ~HasGlobalValue, Owners(p) = {q}
               PROVE  header[p] = built[q]
    BY DEF ImportedIsOwners
  <2>1. p \notin Owners(p) /\ Owner(p) = q
    BY DEF Owners, Owner
  <2>2. GlobalValues = NoValue
    BY DEF GlobalValues, HasGlobalValue, HasProjectValue, GlobalDefault, GlobalDefaults, Or
  <2>3. decl[p].default = NoValue /\ ~Global(p) /\ ~Global(q) /\ Declared(q)
    BY <1>1, <1>2, ValueTypes DEF Declared, Global
  <2>4. mergeCfgVals(p) = NoValue
    BY <2>2, <2>3 DEF mergeCfgVals, mergePkgOptions, Or
  <2>5. HeaderValue(p) = Or(mergeCfgVals(q), decl[q].default)
    BY <2>1, <2>3, <2>4 DEF HeaderValue, MergeImportedOptions, Or
  <2> QED
    BY <1>3, <2>3, <2>5 DEF BuiltValue, AccessorDefault
<1> QED
  BY <1>4, <1>5, <1>6 DEF ReadersAgree
=============================================================================
