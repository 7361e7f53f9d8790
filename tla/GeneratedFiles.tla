---------------------------- MODULE GeneratedFiles ----------------------------
(***************************************************************************)
(* The files a build generates before it compiles: those of the generators *)
(* a package registers (Package.RunGenerators in pkg/api/package.go, run   *)
(* once per build by Scheduler.ensurePackageGenerated), the headers that   *)
(* AddBinHeader makes of an input (pkg/build/genrule.go) and the header of *)
(* the configuration (Scheduler.generateConfigHeader, WriteConfigHeader in *)
(* pkg/api/config_header.go).  Scheduler.BuildAll and Build                *)
(* (pkg/build/scheduler.go, scheduler_resolve.go) order all of it.         *)
(*                                                                         *)
(* A content is a number; every edit makes a new one.  That an object is   *)
(* remade when a file it was compiled from changes is TargetBuild's; here  *)
(* compiling makes it of what is on disk.  The user edits at any time, a   *)
(* step may fail, and a kill may leave the file that is written torn.      *)
(***************************************************************************)
EXTENDS Integers, FiniteSets, Sequences, SequencesExt

CONSTANTS
  Order,       \* the targets, as the graph lists them
  NonDefault,  \* those a build does not build
  Package,     \* [targets -> packages]
  Deps,        \* [targets -> sequences of targets before them]
  Imports,     \* [packages -> sets of packages whose options it imports]
  Inputs,      \* what a target may make a header of
  MaxChanges,  \* bound: edits
  MaxCommands  \* bound: builds

Targets == ToSet(Order)
Packages == {Package[t] : t \in Targets}
Built == Targets \ NonDefault

ASSUME GeneratedAssumption ==
  /\ Order \in Seq(Targets) /\ IsInjective(Order)
  /\ Deps \in [Targets -> Seq(Targets)] /\ Imports \in [Packages -> SUBSET Packages]
  /\ \A i \in DOMAIN Order : ToSet(Deps[Order[i]]) \subseteq {Order[j] : j \in 1 .. i - 1}
  /\ Inputs # {} /\ "none" \notin Inputs /\ MaxChanges \in Nat /\ MaxCommands \in Nat

VARIABLES
  user,        \* what generators make, options, inputs, and the input of each header
  onDisk,
  build,       \* the command
  commands

generatedVars == <<user, onDisk, build, commands>>

Missing == -1
TornFile == -2
NoBuild == [pc |-> "idle", keepGoing |-> FALSE, next |-> 0, toVisit |-> <<>>, visited |-> {},
            generated |-> {}, failed |-> {}, edited |-> FALSE, read |-> <<>>]

(* Of a header: the input its first line names, what it was made of (an    *)
(* input and its content), whether a kill left it torn, whether the input  *)
(* is newer, and whether an edit of it went unseen by the times.           *)
NoHeader == [names |-> "none", of |-> <<>>, torn |-> FALSE, newer |-> FALSE, unseen |-> FALSE]

GeneratedInit ==
  /\ user = [make |-> [p \in Packages |-> 0], option |-> [p \in Packages |-> 0],
             input |-> [x \in Inputs |-> 0], rule |-> [t \in Targets |-> CHOOSE x \in Inputs : TRUE],
             changes |-> 0]
  /\ onDisk = [generated |-> [p \in Packages |-> Missing], config |-> [p \in Packages |-> {}],
             header |-> [t \in Targets |-> NoHeader], object |-> [t \in Targets |-> {}]]
  /\ build = NoBuild /\ commands = 0

At(pc) == build.pc = pc
GoOnTo(pc) == build' = [build EXCEPT !.pc = pc]
Running == build.pc \notin {"idle", "done"}
Target == Order[build.next]
Own == Package[Target]
Header == onDisk.header[Target]
Visited == Head(build.toVisit)

-----------------------------------------------------------------------------
Edited == build' = [build EXCEPT !.edited = build.pc # "idle"]

EditPackage(what) ==
  /\ user.changes < MaxChanges
  /\ \E p \in Packages : user' = [user EXCEPT ![what][p] = @ + 1, !.changes = @ + 1]
  /\ Edited /\ UNCHANGED <<onDisk, commands>>

(* The time of an edit may not be after that of the header: in the same    *)
(* tick, while the header is written, or because a copy kept an old time.  *)
InputEdited(h, x, later) ==
  IF h.names = x THEN [h EXCEPT !.newer = @ \/ later, !.unseen = @ \/ ~later] ELSE h

EditInput ==
  /\ user.changes < MaxChanges
  /\ \E x \in Inputs, later \in BOOLEAN :
       /\ user' = [user EXCEPT !.input[x] = @ + 1, !.changes = @ + 1]
       /\ onDisk' = [onDisk EXCEPT !.header =
                       [t \in Targets |-> InputEdited(onDisk.header[t], x, later)]]
  /\ Edited /\ UNCHANGED commands

EditRule ==
  /\ user.changes < MaxChanges
  /\ \E t \in Targets, x \in Inputs :
       x # user.rule[t] /\ user' = [user EXCEPT !.rule[t] = x, !.changes = @ + 1]
  /\ Edited /\ UNCHANGED <<onDisk, commands>>

(* A header longer than the buffer is torn with its first line complete.   *)
KillBuild ==
  /\ Running /\ build' = NoBuild
  /\ onDisk' = CASE At("generating") -> [onDisk EXCEPT !.generated[Package[Visited]] = TornFile]
               [] At("header") -> [onDisk EXCEPT !.header[Target].torn = TRUE]
               [] At("config") -> [onDisk EXCEPT !.config[Own] = {TornFile}]
               [] OTHER -> onDisk
  /\ UNCHANGED <<user, commands>>

-----------------------------------------------------------------------------
(* BuildAll.                                                               *)

StartGenerating(keepGoing) ==
  /\ ~Running /\ commands < MaxCommands /\ commands' = commands + 1
  /\ build' = [NoBuild EXCEPT !.pc = "next", !.keepGoing = keepGoing]
  /\ UNCHANGED <<user, onDisk>>

(* A target that is not default is left out; one whose dependency failed   *)
(* fails, too.                                                             *)
NextTarget ==
  /\ At("next")
  /\ IF build.next = Len(Order) THEN GoOnTo("done")
     ELSE LET t == Order[build.next + 1] IN
          build' = IF t \notin Built THEN [build EXCEPT !.next = @ + 1]
                   ELSE IF ToSet(Deps[t]) \cap build.failed # {}
                   THEN [build EXCEPT !.next = @ + 1, !.failed = @ \cup {t}]
                   ELSE [build EXCEPT !.next = @ + 1, !.pc = "generate", !.toVisit = <<t>>, !.visited = {}]
  /\ UNCHANGED <<user, onDisk, commands>>

TargetFails ==
  /\ Running /\ ~At("next")
  /\ build' = [build EXCEPT !.pc = IF build.keepGoing THEN "next" ELSE "done",
                            !.failed = @ \cup {Target}]
  /\ onDisk' = IF At("header") THEN [onDisk EXCEPT !.header[Target] = NoHeader] ELSE onDisk
  /\ UNCHANGED <<user, commands>>

-----------------------------------------------------------------------------
(* The target comes first, then its dependencies, those nearer first       *)
(* (collectDepArtifacts).  Mutant: only direct dependencies are seen to.   *)
DirectDeps(t) == IF t = Target THEN Deps[t] ELSE <<>>
TransDeps(t) == Deps[t]

SeenTo == [build EXCEPT !.pc = "generate", !.toVisit = Tail(@) \o TransDeps(Visited),
                      !.visited = @ \cup {Visited}]

(* A package is marked before its generators run.                          *)
EnsurePackageGenerated ==
  /\ At("generate") /\ build.toVisit # <<>>
  /\ build' = CASE Visited \in build.visited -> [build EXCEPT !.toVisit = Tail(@)]
                [] Visited \notin build.visited /\ Package[Visited] \in build.generated -> SeenTo
                [] OTHER -> [build EXCEPT !.generated = @ \cup {Package[Visited]}, !.pc = "generating"]
  /\ UNCHANGED <<user, onDisk, commands>>

(* A file whose content stays is not written, so its time stays.           *)
RunGenerators ==
  /\ At("generating")
  /\ LET p == Package[Visited] IN onDisk' = [onDisk EXCEPT !.generated[p] = user.make[p]]
  /\ build' = SeenTo
  /\ UNCHANGED <<user, commands>>

Resolved ==
  /\ At("generate") /\ build.toVisit = <<>> /\ GoOnTo("rules")
  /\ UNCHANGED <<user, onDisk, commands>>

Content(x) == <<x, user.input[x]>>
genRuleMatchesInput == Header.names = user.rule[Target]
needGenRule == (Header.of = <<>> /\ ~Header.torn) \/ Header.newer

SkipGenRule == genRuleMatchesInput /\ ~needGenRule

(* The input is read, then the header created and written.                 *)
RunGenRules ==
  /\ At("rules")
  /\ IF SkipGenRule THEN GoOnTo("config") /\ UNCHANGED onDisk
     ELSE /\ build' = [build EXCEPT !.pc = "header", !.read = Content(user.rule[Target])]
          /\ \E names \in {"none", user.rule[Target]} :
               onDisk' = [onDisk EXCEPT !.header[Target] =
                          [NoHeader EXCEPT !.names = names]]
  /\ UNCHANGED <<user, commands>>

EndGenRules ==
  /\ At("header")
  /\ onDisk' = [onDisk EXCEPT !.header[Target] =
                [NoHeader EXCEPT !.names = build.read[1], !.of = build.read,
                                 !.unseen = build.read # Content(build.read[1])]]
  /\ build' = [build EXCEPT !.pc = "config", !.read = <<>>]
  /\ UNCHANGED <<user, commands>>

(* MergeImportedOptions; the options of the packages have different names. *)
ConfigOf(p) == {<<q, user.option[q]>> : q \in {p} \cup Imports[p]}

WriteConfigHeader ==
  /\ At("config") /\ GoOnTo("compile")
  /\ onDisk' = [onDisk EXCEPT !.config[Own] = ConfigOf(Own)]
  /\ UNCHANGED <<user, commands>>

(* What a target is compiled of: all that its package and the packages it  *)
(* reaches generate, its header and its configuration.                     *)
Reached(t) ==
  {d \in Targets : \A R \in SUBSET Targets : t \in R /\ (\A u \in R : ToSet(Deps[u]) \subseteq R) => d \in R}

MadeOf(t, made, header, config) ==
  {<<Package[d], made[Package[d]]>> : d \in Reached(t)} \cup {<<"header", header>>} \cup config

CompileAndLink ==
  /\ At("compile") /\ GoOnTo("next")
  /\ onDisk' = [onDisk EXCEPT !.object[Target] =
                MadeOf(Target, onDisk.generated, Header.of, onDisk.config[Own])]
  /\ UNCHANGED <<user, commands>>

-----------------------------------------------------------------------------
User == (\E what \in {"make", "option"} : EditPackage(what)) \/ EditInput \/ EditRule
Scheduler ==
  (\E keepGoing \in BOOLEAN : StartGenerating(keepGoing)) \/ NextTarget \/ TargetFails \/ KillBuild
    \/ EnsurePackageGenerated \/ RunGenerators \/ Resolved \/ RunGenRules \/ EndGenRules
    \/ WriteConfigHeader \/ CompileAndLink

GeneratedNext == User \/ Scheduler
GeneratedSpec == GeneratedInit /\ [][GeneratedNext]_generatedVars

-----------------------------------------------------------------------------
(* After a build that succeeds, with no edit while it ran, every target is *)
(* compiled of what its generators, options and input make now, whatever   *)
(* failed or killed builds left behind; excepted are a header whose input  *)
(* was edited without a later time, and one that a kill left torn.         *)
HeaderIsKnown(t) == ~onDisk.header[t].unseen /\ ~onDisk.header[t].torn

GeneratedIsCurrent ==
  At("done") /\ build.failed = {} /\ ~build.edited =>
    \A t \in Built : HeaderIsKnown(t) =>
      onDisk.object[t] = MadeOf(t, user.make, Content(user.rule[t]), ConfigOf(Package[t]))
=============================================================================
