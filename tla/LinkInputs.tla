------------------------------ MODULE LinkInputs ------------------------------
(***************************************************************************)
(* What a target is compiled with and linked of.  The script declares it   *)
(* call by call (pkg/api/target.go); the scheduler adds what dependencies  *)
(* make public and the files they were built to                            *)
(* (Scheduler.resolveTarget and collectDepArtifacts in                     *)
(* pkg/build/scheduler_resolve.go), makes a command line of it for the     *)
(* object format of the target (planLink in link_action.go, linker.go),    *)
(* and writes the output over what an earlier build has left there.        *)
(*                                                                         *)
(* The lists of a target that only compilers read (includes, defines, C    *)
(* and C++ flags) are treated alike and stand here as one, "options".  A   *)
(* package has one target.  When a link is due, and what a kill leaves, is *)
(* TargetBuild's: here each build compiles and links all.                  *)
(***************************************************************************)
EXTENDS Integers, FiniteSets, Sequences, SequencesExt

CONSTANTS
  Order,     \* the targets, dependencies first
  Graphs,    \* the dependencies to choose of: [targets -> sequences of targets]
  Kinds,     \* [targets -> sets of kinds]
  Systems,   \* of "linux", "windows" and "darwin"
  Remote,    \* targets of packages with an installation directory
  Calls,     \* what the script may call
  MaxCalls,  \* bound: calls of a script
  MaxEdits   \* bound: edits of the script after it was first built

AllTargets == ToSet(Order)
AllKinds == {"binary", "static", "shared", "object", "void"}
Lists == {"options", "ldflags", "links"}
Once == {"prebuilt", "linkerScript", "versionScript", "symbolPrefix"}
ElfOnly == {"versionScript", "excludeLibs", "symbolBinding"}

LinkAssumption ==
  /\ Order \in Seq(AllTargets) \ {<<>>} /\ IsInjective(Order)
  /\ Remote \subseteq AllTargets /\ Kinds \in [AllTargets -> SUBSET AllKinds]
  /\ \A deps \in Graphs, i \in DOMAIN Order :
       IsInjective(deps[Order[i]]) /\ ToSet(deps[Order[i]]) \subseteq {Order[j] : j \in 1 .. i - 1}
  /\ MaxCalls \in Nat /\ MaxEdits \in Nat

VARIABLES
  deps, kind, os,
  script,   \* the calls
  edits,
  decl,     \* what they have declared
  build,    \* the build: where it is, the plan of each target, the targets linked
  disk,     \* [targets -> what stands in the build directory]
  vendor    \* [targets -> the content of its prebuilt file, which is the user's]

vars == <<deps, kind, os, script, edits, decl, build, disk, vendor>>

-----------------------------------------------------------------------------
(* Declarations.                                                           *)

Declared ==
  [files |-> {1}, excluded |-> {}, provided |-> <<>>, installs |-> {}, set |-> {},
   own |-> [l \in Lists |-> <<>>], public |-> [l \in Lists |-> <<>>], global |-> [l \in Lists |-> <<>>]]

Without(s, v) == SelectSeq(s, LAMBDA x : x # v)

(* A file once excluded is not a source, wherever it is added.             *)
FilesCalled(d, c) ==
  IF c.op = "add" THEN [d EXCEPT !.files = @ \cup {c.value}] ELSE [d EXCEPT !.excluded = @ \cup {c.value}]

ListCalled(d, c) ==
  IF c.op = "add" THEN [d EXCEPT ![c.whose][c.list] = Append(@, c.value)]
  ELSE [d EXCEPT ![c.whose][c.list] = Without(@, c.value)]

ProvidedCalled(d, c) ==
  [d EXCEPT !.provided = IF c.op = "add" THEN Append(@, c.value) ELSE Without(@, c.value)]

Called(ds, c) ==
  [ds EXCEPT ![c.on] =
     CASE c.list = "files" -> FilesCalled(@, c)
       [] c.list = "provided" -> ProvidedCalled(@, c)
       [] c.list = "installs" -> [@ EXCEPT !.installs = @ \cup {c.value}]
       [] c.op = "set" -> [@ EXCEPT !.set = @ \cup {c.list}]
       [] OTHER -> ListCalled(@, c)]

Evaluated == FoldLeft(Called, [t \in AllTargets |-> Declared], script)

(* Some can be set once only; a second call ends the script.               *)
SetTwice ==
  \E i, j \in DOMAIN script :
    i < j /\ script[i].op = "set" /\ script[i].list \in Once
    /\ script[j].op = "set" /\ script[j].list = script[i].list /\ script[j].on = script[i].on

Has(t, what) == what \in decl[t].set

-----------------------------------------------------------------------------
(* Files.                                                                  *)

Source(t, n) == [of |-> t, ext |-> "o", n |-> n]    \* the object of a source
File(t, ext) == [of |-> t, ext |-> ext, n |-> 0]
VendorObject(t) == Source(t, -1)
Archive(lib) == [of |-> lib, ext |-> "a", n |-> -2]  \* one that is installed
PostLinked(t) == File(t, "post")                    \* what a post-link step adds

Ext(k) ==
  CASE k = "static" -> "a"
    [] k = "object" -> "o"
    [] k = "shared" -> (CASE os = "windows" -> "dll" [] os = "darwin" -> "dylib" [] OTHER -> "so")
    [] OTHER -> ""

IsLibrary(f) == f.ext \in {"a", "so", "dylib", "dll", "dll.a"}

ImportLibrary(t) == kind[t] = "shared" /\ os = "windows"

NoOutput == [exts |-> {}, link |-> FALSE, members |-> {}]

Members(t) == IF disk[t].link THEN vendor[t] ELSE disk[t].members

-----------------------------------------------------------------------------
(* What dependencies give.                                                 *)

(* A dependency is met once: the direct ones first, then those they        *)
(* reach, the nearer first.  Each target queues its dependencies once.     *)
VisitHead(v) ==
  IF v.queue = <<>> THEN v
  ELSE IF Head(v.queue) \in v.visited THEN [v EXCEPT !.queue = Tail(@)]
  ELSE [queue |-> Tail(v.queue) \o deps[Head(v.queue)],
        visited |-> v.visited \cup {Head(v.queue)}, met |-> Append(v.met, Head(v.queue))]

Visit(queue, visited) ==
  LET visit[n \in 0 .. Len(Order) * Len(Order)] ==
        IF n = 0 THEN [queue |-> queue, visited |-> visited, met |-> <<>>] ELSE VisitHead(visit[n-1])
  IN  visit[Len(Order) * Len(Order)].met

Visited(t) == Visit(deps[t], {t})

Public(t, list) == FlattenSeq([i \in DOMAIN Visited(t) |-> decl[Visited(t)[i]].public[list]])

(* An archive where the package installs, or else a flag for the linker.   *)
InstalledLib(t, lib) == t \in Remote /\ lib \in decl[t].installs

LibsNamed(d) ==
  IF kind[d] # "void" THEN Without(decl[d].provided, d)
  ELSE IF d \notin Remote THEN <<>>
  ELSE IF decl[d].provided # <<>> THEN decl[d].provided
  ELSE IF InstalledLib(d, d) THEN <<d>> ELSE <<>>

Libs(d) == IF kind[d] # "void" /\ Has(d, "unlinkable") THEN <<>> ELSE LibsNamed(d)

OutputOf(d) ==
  File(d, IF ImportLibrary(d) /\ ~Has(d, "prebuilt") THEN "dll.a" ELSE Ext(kind[d]))

ArtifactsOf(d) ==
  (IF kind[d] = "void" \/ Has(d, "unlinkable") THEN <<>> ELSE <<OutputOf(d)>>)
    \o LET archives == SelectSeq(Libs(d), LAMBDA lib : InstalledLib(d, lib))
       IN  [i \in DOMAIN archives |-> Archive(archives[i])]

FlagsOf(d) ==
  LET named == SelectSeq(Libs(d), LAMBDA lib : ~InstalledLib(d, lib))
  IN  [i \in DOMAIN named |-> <<named[i], "group">>]

OfDeps(t, what(_)) == FlattenSeq([i \in DOMAIN deps[t] |-> what(deps[t][i])])

MissingOutput(t) ==
  \E d \in ToSet(deps[t]) : kind[d] # "void" /\ OutputOf(d).ext \notin disk[d].exts

(* What packages add for the whole build.                                  *)
AddedGlobally(list) == FlattenSeq([i \in DOMAIN Order |-> decl[Order[i]].global[list]])

All(t, list) == decl[t].own[list] \o AddedGlobally(list) \o decl[t].public[list] \o Public(t, list)

Sources(t) == SetToSortSeq(decl[t].files \ decl[t].excluded, <)

(* The script of the target, or of the first dependency that offers one.   *)
ScriptOf(t) ==
  LET offering == SelectSeq(deps[t], LAMBDA d : Has(d, "offersScript"))
  IN  CASE kind[t] # "binary" -> "none"
        [] Has(t, "linkerScript") -> t
        [] Has(t, "usesDepScript") /\ offering # <<>> -> Head(offering)
        [] OTHER -> "none"

Resolved(t) ==
  [options |-> All(t, "options"), links |-> All(t, "links"),
   ldflags |-> All(t, "ldflags") \o OfDeps(t, FlagsOf),
   objects |-> [i \in DOMAIN Sources(t) |-> Source(t, Sources(t)[i])],
   artifacts |-> OfDeps(t, ArtifactsOf), script |-> ScriptOf(t)]

ResolveRefusal(t) ==
  CASE MissingOutput(t) -> "missing"
    [] Has(t, "versionScript") /\ kind[t] \notin {"shared", "binary"} -> "version script"
    [] kind[t] = "binary" /\ Has(t, "usesDepScript") /\ ScriptOf(t) = "none" -> "no script"
    [] ScriptOf(t) # "none" /\ Has(ScriptOf(t), "lostScript") -> "lost script"
    [] OTHER -> "none"

-----------------------------------------------------------------------------
(* The command line: a sequence of arguments.                              *)

Arg(name) == <<<<name>>>>
Args(name, s) == [i \in DOMAIN s |-> <<name, s[i]>>]
If(condition, args) == IF condition THEN args ELSE <<>>

Grouped(flag) == flag[2] = "group"
WholeArchive(f) == f.ext \in {"a", "so", "dylib"}

Validate(t) == os = "linux" \/ decl[t].set \cap ElfOnly = {}

PolicyArgs(t) ==
  If(Has(t, "versionScript"), Arg("versionScript")) \o If(Has(t, "excludeLibs"), Arg("excludeLibs"))

BindingArgs(t) == If(Has(t, "symbolBinding"), Arg("symbolBinding"))

FlagArgs(r) ==
  [group |-> Args("flag", SelectSeq(r.ldflags, Grouped)),
   other |-> Args("flag", SelectSeq(r.ldflags, LAMBDA f : ~Grouped(f)))]

InGroup(r) ==
  LET inputs == r.objects \o r.artifacts
      whole == SelectSeq(inputs, WholeArchive)
  IN  Args("file", SelectSeq(inputs, LAMBDA f : ~WholeArchive(f)))
        \o If(whole # <<>>, Arg("whole") \o Args("file", whole) \o Arg("end whole"))
        \o Args("lib", r.links) \o FlagArgs(r).group

BinaryCommand(t, r) ==
  If(r.script # "none", Arg("linkerScript")) \o PolicyArgs(t)
    \o If(InGroup(r) # <<>>, Arg("group") \o InGroup(r) \o Arg("end group"))
    \o FlagArgs(r).other \o BindingArgs(t)

(* Mach-O has no groups: each archive is forced, the rest are inputs.      *)
MachoCommand(r) ==
  LET inputs == r.objects \o r.artifacts
      archives == SelectSeq(inputs, LAMBDA f : f.ext = "a")
      dynamic == SelectSeq(inputs, LAMBDA f : f.ext \in {"dylib", "so"})
  IN  Args("file", SelectSeq(inputs, LAMBDA f : f.ext \notin {"a", "dylib", "so"}))
        \o FlattenSeq([i \in DOMAIN archives |-> Arg("force") \o <<<<"file", archives[i]>>>>])
        \o Args("file", dynamic) \o If(dynamic # <<>>, Arg("rpath"))
        \o Args("lib", r.links) \o FlagArgs(r).group \o FlagArgs(r).other

SharedCommand(t, r) ==
  LET flags == SelectSeq(r.ldflags, LAMBDA f : f[2] # "pie")
  IN  If(os = "windows", Arg("out-implib")) \o PolicyArgs(t)
        \o Args("file", r.objects \o r.artifacts)
        \o If(os = "darwin" /\ \E f \in ToSet(r.artifacts) : f.ext \in {"dylib", "so"}, Arg("rpath"))
        \o Args("flag", flags) \o Args("lib", r.links) \o BindingArgs(t)

LinkCommand(t, r) ==
  CASE kind[t] = "binary" /\ os = "darwin" -> MachoCommand(r)
    [] kind[t] = "binary" -> BinaryCommand(t, r)
    [] kind[t] = "shared" -> SharedCommand(t, r)
    [] kind[t] = "static" -> Args("file", SelectSeq(r.objects \o r.artifacts, LAMBDA f : ~IsLibrary(f)))
    [] kind[t] = "object" -> Args("file", r.objects)
    [] OTHER -> <<>>

PlanRefusal(t, r) ==
  CASE Has(t, "prebuilt") \/ kind[t] = "void" -> "none"
    [] kind[t] \in {"binary", "shared"} /\ ~Validate(t) -> "elf only"
    [] kind[t] = "binary" /\ os = "darwin" /\ r.script # "none" -> "linker script"
    [] kind[t] = "object" /\ r.objects = <<>> -> "no source"
    [] OTHER -> "none"

-----------------------------------------------------------------------------
(* The tools.  An archive or a relocatable object holds what it was made   *)
(* of, and so does a linked file of what is not left to choose.            *)

(* Is the i-th argument read as a whole?                                   *)
WholeAt(args, i) ==
  LET Before(name) == Cardinality({j \in 1 .. i - 1 : args[j] = <<name>>})
  IN  Before("whole") > Before("end whole") \/ (i > 1 /\ args[i - 1] = <<"force">>)

Files(args) == {i \in DOMAIN args : args[i][1] = "file"}

Content(f) == IF f.n = 0 THEN Members(f.of) ELSE {f}

Made(args) ==
  UNION {Content(args[i][2]) :
           i \in {j \in Files(args) : args[j][2].ext = "o" \/ (WholeAt(args, j) /\ args[j][2].ext = "a")}}

-----------------------------------------------------------------------------
NoBuild == [pc |-> "idle", next |-> 0, plan |-> [t \in AllTargets |-> <<>>], linked |-> {}, refused |-> "none"]

Init ==
  /\ deps \in Graphs /\ kind \in [AllTargets -> AllKinds] /\ os \in Systems
  /\ \A t \in AllTargets : kind[t] \in Kinds[t]
  /\ script = <<>> /\ edits = 0 /\ decl = [t \in AllTargets |-> Declared]
  /\ build = NoBuild /\ disk = [t \in AllTargets |-> NoOutput]
  /\ vendor = [t \in AllTargets |-> {VendorObject(t)}]

At(pc) == build.pc = pc
Current == Order[build.next]
Plan == build.plan[Current]
RefuseBuild(why) == build' = [build EXCEPT !.pc = "idle", !.refused = why]
Writing == UNCHANGED <<deps, kind, os>>

(* The user writes the script, and edits it between builds.                *)
Edit ==
  /\ At("idle") /\ edits < MaxEdits
  /\ edits' = edits + (IF build = NoBuild THEN 0 ELSE 1)
  /\ \/ Len(script) < MaxCalls /\ \E c \in Calls : script' = Append(script, c)
     \/ build # NoBuild /\ \E i \in DOMAIN script : script' = RemoveAt(script, i)
  /\ UNCHANGED <<decl, build, disk, vendor>> /\ Writing

Declare ==
  /\ At("idle") /\ (build = NoBuild \/ Evaluated # decl)
  /\ IF SetTwice
     THEN build' = [NoBuild EXCEPT !.refused = "set twice"] /\ build # build' /\ UNCHANGED decl
     ELSE decl' = Evaluated /\ build' = [NoBuild EXCEPT !.pc = "resolve", !.next = 1]
  /\ UNCHANGED <<script, edits, disk, vendor>> /\ Writing

Resolve ==
  /\ At("resolve")
  /\ LET r == Resolved(Current)
         refusal == IF ResolveRefusal(Current) # "none" THEN ResolveRefusal(Current)
                    ELSE PlanRefusal(Current, r)
     IN  IF refusal # "none" THEN RefuseBuild(refusal)
         ELSE build' = [build EXCEPT !.pc = "link",
                          !.plan[Current] = [resolved |-> r, args |-> LinkCommand(Current, r)]]
  /\ UNCHANGED <<script, edits, decl, disk, vendor>> /\ Writing

Linked ==
  build' = [build EXCEPT !.pc = IF build.next = Len(Order) THEN "idle" ELSE "resolve",
                         !.next = IF build.next = Len(Order) THEN @ ELSE @ + 1,
                         !.linked = @ \cup {Current}]

(* Mutant: the linker writes through a link that stands.                   *)
LinkKept(t) == IF kind[t] = "static" THEN [disk[t] EXCEPT !.link = FALSE, !.members = {}] ELSE disk[t]

(* An archive that stands is removed before "ar" adds to it; for the rest  *)
(* a link that stands, through which the linker would write.               *)
Cleared(t) ==
  IF kind[t] = "static" \/ disk[t].link THEN [disk[t] EXCEPT !.link = FALSE, !.members = {}] ELSE disk[t]

Outputs(t) == {Ext(kind[t])} \cup (IF ImportLibrary(t) THEN {"dll.a"} ELSE {})

(* What the tools write, through a link if one stands; and then the steps  *)
(* after the link, in place.                                               *)
Written(t, out, members) ==
  LET content == members \cup (IF Has(t, "symbolPrefix") THEN {PostLinked(t)} ELSE {})
  IN  /\ disk' = [disk EXCEPT ![t] =
           [out EXCEPT !.members = IF out.link THEN {} ELSE content, !.exts = @ \cup Outputs(t)]]
      /\ vendor' = IF out.link THEN [vendor EXCEPT ![t] = content] ELSE vendor

Link ==
  /\ At("link") /\ kind[Current] # "void" /\ ~Has(Current, "prebuilt")
  /\ LET out == Cleared(Current)
         kept == IF kind[Current] = "static" THEN out.members ELSE {}
     IN  Written(Current, out, kept \cup Made(Plan.args))
  /\ Linked /\ UNCHANGED <<script, edits, decl>> /\ Writing

(* A prebuilt file is linked to, or copied if steps follow that change it. *)
RealizePrebuilt ==
  /\ At("link") /\ kind[Current] # "void" /\ Has(Current, "prebuilt")
  /\ disk' = [disk EXCEPT ![Current] =
       [exts |-> @.exts \cup {Ext(kind[Current])}, link |-> ~Has(Current, "symbolPrefix"),
        members |-> IF Has(Current, "symbolPrefix") THEN vendor[Current] \cup {PostLinked(Current)} ELSE {}]]
  /\ Linked /\ UNCHANGED <<script, edits, decl, vendor>> /\ Writing

BuildVoid ==
  /\ At("link") /\ kind[Current] = "void"
  /\ Linked /\ UNCHANGED <<script, edits, decl, disk, vendor>> /\ Writing

Next == Edit \/ Declare \/ Resolve \/ Link \/ RealizePrebuilt \/ BuildVoid

Spec == Init /\ [][Next]_vars

-----------------------------------------------------------------------------
Planned(t) == build.plan[t] # <<>>
Of(t) == build.plan[t].resolved
ArgsOf(t) == build.plan[t].args
Direct(t) == ToSet(deps[t])
LinkedDeps(t) == {d \in Direct(t) : kind[d] # "void" /\ ~Has(d, "unlinkable")}

Reaches == [t \in AllTargets |-> {d \in AllTargets : d \in ToSet(Visit(deps[t], {}))}]
Times(s, v) == Cardinality({i \in DOMAIN s : s[i] = v})

(* What a dependency makes public reaches each target that depends on it,  *)
(* however far and along however many paths, exactly as often as it is     *)
(* declared; what is added for the build reaches all; and what a           *)
(* dependency keeps reaches none (Scheduler.collectDepArtifacts).          *)
AttributesArriveOnce ==
  \A t \in AllTargets, list \in Lists : Planned(t) =>
    \A v \in ToSet(Of(t)[list]) \cup UNION {ToSet(decl[d].public[list] \o decl[d].global[list]) : d \in AllTargets} :
      v[1] \in AllTargets =>
        Times(Of(t)[list], v) =
          Times(decl[v[1]].public[list], v) * (IF v[1] = t \/ v[1] \in Reaches[t] THEN 1 ELSE 0)
            + (IF v[1] = t THEN Times(decl[t].own[list], v) ELSE 0)
            + Times(decl[v[1]].global[list], v)

(* No build misses a file that it has itself made: the outputs of a        *)
(* target's dependencies are there, under the names they are linked by,    *)
(* when it is planned, and stay (Scheduler.collectDepArtifacts).           *)
OutputsAreMade ==
  build.refused # "missing" /\ \A t \in AllTargets : Planned(t) => ~MissingOutput(t)

(* Of each direct dependency that can be linked, a link takes one file     *)
(* that its build has made, the import library if there is one; and no     *)
(* library is taken twice that is provided once.                           *)
LinksWhatWasMade ==
  /\ OutputsAreMade
  /\ \A t \in AllTargets : Planned(t) =>
       LET artifacts == Of(t).artifacts IN
       /\ \A d \in LinkedDeps(t) :
            \E f \in ToSet(artifacts) :
              /\ f.of = d /\ f.ext \in disk[d].exts /\ Times(artifacts, f) = 1
              /\ ImportLibrary(d) /\ ~Has(d, "prebuilt") => f.ext = "dll.a"
       /\ \A f \in ToSet(artifacts) :
            IF f.n = 0 THEN f.of \in LinkedDeps(t)
            ELSE \E d \in Direct(t) \cap Remote : f.of \in decl[d].installs
       /\ (\A d \in Direct(t) : IsInjective(decl[d].provided)) => IsInjective(artifacts)

(* An output holds the objects of the target as it is now declared, and of *)
(* its direct dependencies all that an archive or object holds if it is a  *)
(* binary, on every system; a system library or an import library is never *)
(* taken whole; and all that refers to another is in the group.            *)
OutputsAreWhole ==
  \A t \in build.linked : kind[t] # "void" /\ ~Has(t, "prebuilt") =>
    LET args == ArgsOf(t)
        taken == CASE kind[t] = "binary" -> {"static", "object"}
                   [] kind[t] = "object" -> {}
                   [] OTHER -> {"object"}
        installed == {f \in ToSet(Of(t).artifacts) : f.n # 0}
    IN  /\ Members(t) \ {PostLinked(t)} =
             {Source(t, n) : n \in decl[t].files \ decl[t].excluded}
               \cup UNION {Members(d) : d \in {e \in LinkedDeps(t) : kind[e] \in taken}}
               \cup (IF kind[t] = "binary" THEN installed ELSE {})
        /\ \A i \in DOMAIN args :
             WholeAt(args, i) /\ args[i][1] \in {"file", "lib", "flag"} =>
               args[i][1] = "file" /\ args[i][2].ext # "dll.a"
        /\ kind[t] = "binary" /\ os # "darwin" =>
             \A i \in DOMAIN args :
               args[i][1] \in {"file", "lib"} \/ (args[i][1] = "flag" /\ Grouped(args[i][2])) =>
                 \E a \in 1 .. i - 1, z \in i + 1 .. Len(args) :
                   args[a] = <<"group">> /\ args[z] = <<"end group">>

(* No build writes to a file the user gave as prebuilt, though its target  *)
(* was one and is linked now, and though steps after the link change the   *)
(* output in place (Linker.execute, Scheduler.realizePrebuilt).            *)
VendorFilesStay == \A t \in AllTargets : vendor[t] = {VendorObject(t)}

(* What is asked of a linked file is on its command line, or the build was *)
(* refused.                                                                *)
AskedIsApplied ==
  \A t \in AllTargets :
    Planned(t) /\ kind[t] \in {"binary", "shared"} /\ ~Has(t, "prebuilt") =>
      LET args == ToSet(ArgsOf(t))
          asked == decl[t].set \cap (ElfOnly \cup (IF kind[t] = "binary" THEN {"linkerScript"} ELSE {}))
      IN  /\ \A what \in asked : <<what>> \in args
          /\ kind[t] = "binary" /\ Has(t, "usesDepScript") => <<"linkerScript">> \in args
          /\ \A lib \in ToSet(Of(t).links) : <<"lib", lib>> \in args
          /\ \A f \in ToSet(Of(t).ldflags) :
               <<"flag", f>> \in args \/ (kind[t] = "shared" /\ f[2] = "pie")
=============================================================================
