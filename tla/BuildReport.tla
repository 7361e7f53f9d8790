------------------------------ MODULE BuildReport ------------------------------
(***************************************************************************)
(* What a command publishes about its build and where it installs it: the  *)
(* reports build/vmake-build.json and build/vmake-test.json                *)
(* (cmd/vmake/build_report.go), the installation into a prefix             *)
(* (cmd/vmake/build_install.go, pkg/build/install.go), the run of the      *)
(* tests (cmd/vmake/test_cmd.go) and the commands that remove it all       *)
(* (clean.go, distclean.go, "pkg clean").                                  *)
(*                                                                         *)
(* One command at a time holds the lock of the project, but "pkg clean"    *)
(* removes the reports before it waits for it.  The user edits sources,    *)
(* the configuration and the prefix at any time.  Any step of a command    *)
(* may fail, panic, or be the last before a kill.                          *)
(***************************************************************************)
EXTENDS Integers, FiniteSets, Sequences, SequencesExt

CONSTANTS
  Order,        \* targets and extra items, as the graph of targets lists them
  Kind,         \* "binary", "static", "test", or "extra" for an AddInstalls item
  OwnPrefix,    \* those whose package calls SetPrefix
  MaxCommands,  \* bound: commands
  MaxEdits      \* bound: edits of the sources or the configuration

Targets == ToSet(Order)
Built == {t \in Targets : Kind[t] # "extra"}
Tests == {t \in Targets : Kind[t] = "test"}

ASSUME ReportAssumption ==
  /\ Order \in Seq(Targets) /\ IsInjective(Order)
  /\ OwnPrefix \subseteq Targets /\ MaxCommands \in Nat /\ MaxEdits \in Nat
  /\ Kind \in [Targets -> {"binary", "static", "test", "extra"}]

(* The prefix may be <project>/install or a directory elsewhere; "package" *)
(* is the one a package sets for itself.                                   *)
PrefixNames == {"default", "custom", "package"}
Reports == {"build", "test"}

VARIABLES
  source, config,   \* what the user edits
  out,              \* the files in the build directory
  dirs,             \* the prefixes
  report,
  cmd,              \* the command that holds the project lock
  waiting,          \* a "pkg clean" has removed the reports and waits for it
  lost,             \* reports whose command was killed or could not save it
  commands

vars == <<source, config, out, dirs, report, cmd, waiting, lost, commands>>
user == <<source, config>>

(* The bytes of a file: of what they were made.                            *)
NoFile == <<>>
Torn == <<0, 0, 0>>
Output == <<source, cmd.conf>>

EmptyDir ==
  [files |-> [t \in Targets |-> NoFile], marker |-> FALSE, manifest |-> FALSE, user |-> "none"]
NoResults == [t \in {} |-> "passed"]
NoReport == [status |-> "none", conf |-> 0, files |-> {}, tests |-> NoResults]
Running == [NoReport EXCEPT !.status = "running"]

NoCommand ==
  [name |-> "none", pc |-> "idle", prefix |-> "none", sdk |-> FALSE, conf |-> 0, todo |-> <<>>,
   files |-> {}, signal |-> FALSE, err |-> "none", done |-> FALSE, pending |-> NoReport]

Idle == cmd.pc = "idle"
At(pc) == cmd.pc = pc
Goto(pc) == cmd' = [cmd EXCEPT !.pc = pc]
Mine == IF cmd.name = "test" THEN "test" ELSE "build"

(* The command stops where it is; its deferred calls publish the failure.  *)
Stop(err) == cmd' = [cmd EXCEPT !.pc = "finish", !.err = err]

Init ==
  /\ source = 0 /\ config = 0
  /\ out = [t \in Targets |-> NoFile]
  /\ dirs = [p \in PrefixNames |-> EmptyDir]
  /\ report = [r \in Reports |-> NoReport]
  /\ cmd = NoCommand /\ waiting = FALSE /\ lost = {} /\ commands = 0

-----------------------------------------------------------------------------
(* The user, and what else may end a command.                              *)

EditSource ==
  /\ source + config < MaxEdits /\ source' = source + 1
  /\ UNCHANGED <<config, out, dirs, report, cmd, waiting, lost, commands>>

EditConfig ==
  /\ source + config < MaxEdits /\ config' = config + 1
  /\ UNCHANGED <<source, out, dirs, report, cmd, waiting, lost, commands>>

(* The user's own file, in a directory that vmake has neither marked nor   *)
(* just found empty, is the user's to keep.                                *)
PutFile ==
  LET claimed == dirs["custom"].marker
                   \/ (cmd.prefix = "custom" /\ cmd.pc \in {"remove", "mark"}) IN
  /\ dirs["custom"].user = "none"
  /\ dirs' = [dirs EXCEPT !["custom"].user = IF claimed THEN "claimed" ELSE "kept"]
  /\ UNCHANGED <<user, out, report, cmd, waiting, lost, commands>>

(* SIGINT or SIGTERM while the command has them caught (withBuildContext). *)
Interrupt ==
  /\ cmd.name \in {"build", "rebuild", "test"} /\ ~Idle /\ ~At("finish") /\ ~cmd.signal
  /\ cmd' = [cmd EXCEPT !.signal = TRUE]
  /\ UNCHANGED <<user, out, dirs, report, waiting, lost, commands>>

Publishing == cmd.name \in {"build", "rebuild", "test"}

(* A step fails, a check of the context finds it cancelled, or a panic     *)
(* unwinds the command.                                                    *)
Fail ==
  /\ Publishing /\ ~Idle /\ ~At("finish")
  /\ \E err \in {"failed", "panicked"} : Stop(err)
  /\ UNCHANGED <<user, out, dirs, report, waiting, lost, commands>>

Kill ==
  /\ ~Idle
  /\ cmd' = NoCommand
  /\ lost' = IF Publishing THEN lost \cup {Mine} ELSE lost
  /\ UNCHANGED <<user, out, dirs, report, waiting, commands>>

-----------------------------------------------------------------------------
(* build, rebuild and test.                                                *)

(* The running report is saved before anything else; when that fails, the  *)
(* command ends there.                                                     *)
Begin(name, prefix, sdk) ==
  /\ Idle
  /\ name = "test" => prefix = "none"
  /\ cmd' = [NoCommand EXCEPT !.name = name, !.pc = "resolve", !.prefix = prefix, !.sdk = sdk,
                              !.pending = Running]
  /\ report' = [report EXCEPT ![IF name = "test" THEN "test" ELSE "build"] = Running]
  /\ lost' = lost \ {IF name = "test" THEN "test" ELSE "build"}
  /\ UNCHANGED <<user, out, dirs, waiting>>

(* The digest of the configuration is that of the bytes that are parsed.   *)
Resolve ==
  /\ At("resolve") /\ Publishing
  /\ cmd' = [cmd EXCEPT !.conf = config, !.pc = IF cmd.name = "rebuild" THEN "clean" ELSE "bind"]
  /\ UNCHANGED <<user, out, dirs, report, waiting, lost, commands>>

OfThisConfiguration(t) == out[t] # NoFile /\ out[t][2] = cmd.conf

CleanLocal ==
  /\ At("clean")
  /\ out' = [t \in Targets |-> IF OfThisConfiguration(t) THEN NoFile ELSE out[t]]
  /\ Goto("bind")
  /\ UNCHANGED <<user, dirs, report, waiting, lost, commands>>

Bind ==
  /\ At("bind")
  /\ cmd' = [cmd EXCEPT !.pending.conf = cmd.conf,
                        !.pc = IF cmd.prefix = "none" THEN "build" ELSE "check"]
  /\ report' = [report EXCEPT ![Mine] = cmd'.pending]
  /\ UNCHANGED <<user, out, dirs, waiting, lost, commands>>

(* A directory that vmake may clean: its own, one with its marker, or an   *)
(* empty one.                                                              *)
PrefixAllowed(p) ==
  p = "default" \/ dirs[p].marker \/ dirs[p] = EmptyDir

ValidateInstallPrefix ==
  /\ At("check") /\ PrefixAllowed(cmd.prefix)
  /\ Goto("build")
  /\ UNCHANGED <<user, out, dirs, report, waiting, lost, commands>>

(* Any part of the targets is built before the first failure; a build for  *)
(* "test" or --tests has the tests, too.                                   *)
RunBuildPhase ==
  /\ At("build")
  /\ \E done \in SUBSET Built :
       /\ out' = [t \in Targets |-> IF t \in done THEN Output ELSE out[t]]
       /\ IF Built \ Tests \subseteq done /\ (cmd.name = "test" => done = Built)
          THEN Goto(IF cmd.prefix = "none" THEN "complete" ELSE "install")
          ELSE Stop("failed")
  /\ UNCHANGED <<user, dirs, report, waiting, lost, commands>>

(* Mutant: the check before the build is taken for enough.                 *)
StartInstallUnchecked ==
  /\ At("install") /\ ~cmd.signal
  /\ Goto("remove")
  /\ UNCHANGED <<user, out, dirs, report, waiting, lost, commands>>

(* executeInstall validates the prefix again, then cleans it.              *)
StartInstall ==
  /\ At("install") /\ ~cmd.signal /\ PrefixAllowed(cmd.prefix)
  /\ Goto("remove")
  /\ UNCHANGED <<user, out, dirs, report, waiting, lost, commands>>

(* What is left of a directory one of whose entries is removed.            *)
Removals(dir) ==
  {[dir EXCEPT !.files[t] = NoFile] : t \in Targets}
    \cup {[dir EXCEPT !.marker = FALSE], [dir EXCEPT !.manifest = FALSE], [dir EXCEPT !.user = "none"]}

RemovePrefix ==
  /\ At("remove") /\ dirs[cmd.prefix] # EmptyDir
  /\ \E dir \in Removals(dirs[cmd.prefix]) \ {dirs[cmd.prefix]} :
       dirs' = [dirs EXCEPT ![cmd.prefix] = dir]
  /\ UNCHANGED <<user, out, report, cmd, waiting, lost, commands>>

Removed ==
  /\ At("remove") /\ dirs[cmd.prefix] = EmptyDir
  /\ Goto("mark")
  /\ UNCHANGED <<user, out, dirs, report, waiting, lost, commands>>

MarkPrefix ==
  /\ At("mark")
  /\ dirs' = [dirs EXCEPT ![cmd.prefix].marker = cmd.prefix # "default"]
  /\ cmd' = [cmd EXCEPT !.pc = "copy", !.todo = Order]
  /\ UNCHANGED <<user, out, report, waiting, lost, commands>>

(* The prefix of a package counts only without --prefix.                   *)
Destination(t) ==
  IF t \in OwnPrefix /\ cmd.prefix = "default" THEN "package" ELSE cmd.prefix

Source(t) == IF Kind[t] = "extra" THEN <<source>> ELSE out[t]

Skipped(t) ==
  Kind[t] = "test" \/ (Kind[t] = "static" /\ ~cmd.sdk) \/ Source(t) = NoFile

InstallNext(t, recorded) ==
  cmd' = [cmd EXCEPT !.pc = "copy", !.todo = Tail(@),
                     !.files = @ \cup (IF recorded THEN {<<t, Destination(t)>>} ELSE {})]

SkipTarget ==
  /\ At("copy") /\ cmd.todo # <<>>
  /\ LET t == Head(cmd.todo) IN
       /\ Skipped(t) \/ dirs[Destination(t)].files[t] = Source(t)
       /\ InstallNext(t, ~Skipped(t))
  /\ UNCHANGED <<user, out, dirs, report, waiting, lost, commands>>

(* CopyFile truncates the file that is there before it writes the new one. *)
TruncateTarget ==
  /\ At("copy") /\ cmd.todo # <<>>
  /\ LET t == Head(cmd.todo) IN
       /\ ~Skipped(t) /\ dirs[Destination(t)].files[t] # Source(t)
       /\ dirs' = [dirs EXCEPT ![Destination(t)].files[t] = Torn]
  /\ Goto("write")
  /\ UNCHANGED <<user, out, report, waiting, lost, commands>>

WriteTarget ==
  /\ At("write")
  /\ LET t == Head(cmd.todo) IN
       /\ dirs' = [dirs EXCEPT ![Destination(t)].files[t] = Source(t)]
       /\ InstallNext(t, TRUE)
  /\ UNCHANGED <<user, out, report, waiting, lost, commands>>

WriteManifest ==
  /\ At("copy") /\ cmd.todo = <<>>
  /\ dirs' = [dirs EXCEPT ![cmd.prefix].manifest = TRUE]
  /\ Goto("complete")
  /\ UNCHANGED <<user, out, report, waiting, lost, commands>>

(* A file of the invocation's installer, where it is, and its digest.      *)
Artifact(file) == [target |-> file[1], prefix |-> file[2], digest |-> Source(file[1])]
Same(file) == dirs[file[2]].files[file[1]] = Source(file[1])

(* Mutant: it records what was built, not what is installed.               *)
CompleteUnchecked ==
  /\ At("complete")
  /\ IF config # cmd.conf THEN Stop("failed")
     ELSE cmd' = [cmd EXCEPT !.pc = IF cmd.name = "test" THEN "tests" ELSE "finish",
                             !.pending.files = {Artifact(file) : file \in cmd.files},
                             !.done = TRUE]
  /\ UNCHANGED <<user, out, dirs, report, waiting, lost, commands>>

(* The configuration must still be the one that was built, and every       *)
(* installed file the one it was copied from.                              *)
Complete ==
  /\ At("complete")
  /\ IF config # cmd.conf \/ \E file \in cmd.files : ~Same(file) THEN Stop("failed")
     ELSE cmd' = [cmd EXCEPT !.pc = IF cmd.name = "test" THEN "tests" ELSE "finish",
                             !.pending.files = {Artifact(file) : file \in cmd.files},
                             !.done = TRUE]
  /\ UNCHANGED <<user, out, dirs, report, waiting, lost, commands>>

(* The tests run one after the other; a signal stops them between two, and *)
(* the one that it meets was not run.                                      *)
Before(t, u) == \E i, j \in DOMAIN Order : i < j /\ Order[i] = t /\ Order[j] = u

RunAllTests ==
  /\ At("tests")
  /\ \E ran \in SUBSET Tests : \E results \in [ran -> {"passed", "failed"}] :
       /\ \A t \in ran, u \in Tests : Before(u, t) => u \in ran
       /\ ran # Tests => cmd.signal
       /\ cmd' = [cmd EXCEPT !.pending.tests = results, !.pc = "finish",
                    !.err = IF \E t \in ran : results[t] = "failed" THEN "failed" ELSE @]
  /\ UNCHANGED <<user, out, dirs, report, waiting, lost, commands>>

(* A panic is recovered last, so no signal changes what it is reported as. *)
Status ==
  IF cmd.err = "panicked" THEN "failed"
  ELSE IF cmd.signal THEN "cancelled"
  ELSE IF cmd.err # "none" \/ ~cmd.done THEN "failed" ELSE "succeeded"

Finished ==
  [cmd.pending EXCEPT !.status = Status, !.files = IF Status = "succeeded" THEN @ ELSE {}]

(* The report is saved, unless just that fails.                            *)
Finish ==
  /\ At("finish") /\ cmd' = NoCommand
  /\ \/ report' = [report EXCEPT ![Mine] = Finished] /\ UNCHANGED lost
     \/ lost' = lost \cup {Mine} /\ UNCHANGED report
  /\ UNCHANGED <<user, out, dirs, waiting, commands>>

-----------------------------------------------------------------------------
(* clean, distclean and "pkg clean".                                       *)

BeginClean(name) ==
  /\ Idle
  /\ cmd' = [NoCommand EXCEPT !.name = name, !.pc = "invalidate", !.conf = config]
  /\ UNCHANGED <<user, out, dirs, report, waiting, lost>>

(* Both reports are removed, whichever of the two fails; a failure ends    *)
(* the command.                                                            *)
Invalidate ==
  /\ At("invalidate")
  /\ \E kept \in SUBSET Reports :
       /\ report' = [r \in Reports |-> IF r \in kept THEN report[r] ELSE NoReport]
       /\ cmd' = IF kept = {} THEN [cmd EXCEPT !.pc = "outputs", !.todo = Order] ELSE NoCommand
  /\ UNCHANGED <<user, out, dirs, waiting, lost, commands>>

(* A directory that cannot be removed is reported, and left.               *)
CleanOutputs ==
  /\ At("outputs") /\ cmd.todo # <<>>
  /\ LET t == Head(cmd.todo) IN
       \/ (cmd.name = "clean" => OfThisConfiguration(t)) /\ out' = [out EXCEPT ![t] = NoFile]
       \/ UNCHANGED out
  /\ cmd' = [cmd EXCEPT !.todo = Tail(@)]
  /\ UNCHANGED <<user, dirs, report, waiting, lost, commands>>

CleanInstall ==
  /\ At("outputs") /\ cmd.todo = <<>> /\ cmd.name = "distclean"
  /\ \E dir \in Removals(dirs["default"]) : dirs' = [dirs EXCEPT !["default"] = dir]
  /\ UNCHANGED <<user, out, report, cmd, waiting, lost, commands>>

EndClean ==
  /\ At("outputs") /\ cmd.todo = <<>>
  /\ cmd' = NoCommand
  /\ UNCHANGED <<user, out, dirs, report, waiting, lost, commands>>

(* "pkg clean" does it before it has the lock.                             *)
PkgCleanInvalidate ==
  /\ ~waiting /\ waiting' = TRUE
  /\ report' = [r \in Reports |-> NoReport]
  /\ UNCHANGED <<user, out, dirs, cmd, lost>>

BeginPkgClean ==
  /\ waiting /\ Idle
  /\ waiting' = FALSE
  /\ cmd' = [NoCommand EXCEPT !.name = "pkg clean", !.pc = "outputs", !.todo = Order]
  /\ UNCHANGED <<user, out, dirs, report, lost, commands>>

-----------------------------------------------------------------------------
User == EditSource \/ EditConfig \/ PutFile \/ Interrupt \/ Kill
Build == Resolve \/ CleanLocal \/ Bind \/ ValidateInstallPrefix \/ RunBuildPhase \/ Fail
Install ==
  StartInstall \/ RemovePrefix \/ Removed \/ MarkPrefix \/ SkipTarget \/ TruncateTarget
    \/ WriteTarget \/ WriteManifest
Publish == Complete \/ RunAllTests \/ Finish
Clean == Invalidate \/ CleanOutputs \/ CleanInstall \/ EndClean \/ BeginPkgClean
Start ==
  /\ commands < MaxCommands /\ commands' = commands + 1
  /\ \/ \E name \in {"build", "rebuild", "test"}, prefix \in {"none", "default", "custom"},
          sdk \in BOOLEAN : Begin(name, prefix, sdk)
     \/ \E name \in {"clean", "distclean"} : BeginClean(name)
     \/ PkgCleanInvalidate

Next == User \/ Start \/ Build \/ Install \/ Publish \/ Clean
Spec == Init /\ [][Next]_vars

-----------------------------------------------------------------------------
(* A build report that says "succeeded" is true for as long as it is       *)
(* there: every artifact it lists is in its place with the recorded        *)
(* digest, none is of another configuration, and the prefix has the        *)
(* manifest; a test report says so only when every test has run and passed.*)
ReportedIsInstalled ==
  \A a \in report["build"].files :
    /\ dirs[a.prefix].files[a.target] = a.digest
    /\ Kind[a.target] # "extra" => a.digest[2] = report["build"].conf

TestedIsPassed ==
  report["test"].status = "succeeded" =>
    report["test"].tests = [t \in Tests |-> "passed"]

SuccessIsTrue == ReportedIsInstalled /\ TestedIsPassed

(* A file that the user has put into a directory before vmake took it is   *)
(* never removed, however long the build before the installation was.      *)
UserFilesStay == [][dirs["custom"].user = "kept" => dirs'["custom"].user = "kept"]_dirs

(* A report says "running" only while its command runs, or when it was     *)
(* killed or could not save the report.                                    *)
NothingSaysRunning ==
  \A r \in Reports \ lost :
    report[r].status = "running" => ~Idle /\ Publishing /\ Mine = r

(* Both: a report that is there can be believed.                           *)
ReportIsTrue == SuccessIsTrue /\ NothingSaysRunning

(* "clean/distclean and pkg clean remove both reports before cleanup": no  *)
(* report claims a success while the outputs it is about are removed.      *)
CleanupFollowsInvalidation ==
  At("outputs") => \A r \in Reports : report[r].status # "succeeded"
=============================================================================
