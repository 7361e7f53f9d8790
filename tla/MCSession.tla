------------------------------ MODULE MCSession ------------------------------
(* What a command loads and goes through: the extensions, the packages and *)
(* targets of a session, and what each target is compiled and linked of.   *)
(* These share no state; a behaviour is one of one part, while the session *)
(* of the others has not begun and no extension is there.                  *)
EXTENDS BuildSession, TLC, Extensions

CONSTANTS app, lib, tool, util, aBin, aAux, lLib, tGen, uLib, host, cross, p1, p2

VARIABLES part, depends, kind, os, script, edits, declared, build, disk, vendor

(* A cross build in which app requires lib, and the host tool of the build *)
(* requires util.  aBin uses all that its package requires, and aAux, which *)
(* generates with tGen.                                                    *)
MCPkgOf ==
  (aBin :> app) @@ (aAux :> app) @@ (lLib :> lib) @@ (tGen :> tool) @@ (uLib :> util)
MCPkgDeps == (app :> {lib}) @@ (lib :> {}) @@ (tool :> {util}) @@ (util :> {})
MCExplicit ==
  (aBin :> {aAux}) @@ (aAux :> {tGen}) @@ (lLib :> {}) @@ (tGen :> {}) @@ (uLib :> {})
MCRank ==
  (app :> 1) @@ (lib :> 2) @@ (tool :> 3) @@ (util :> 4)
    @@ (aBin :> 5) @@ (aAux :> 6) @@ (lLib :> 7) @@ (tGen :> 8) @@ (uLib :> 9)
MCOwn == (app :> Inherit) @@ (lib :> Inherit) @@ (tool :> host) @@ (util :> Inherit)

(* The definitions of the second have no sums.                             *)
TwoExtensions == <<"e1", "e2">>

(* A void target of an installed package, a library on it, one on that,    *)
(* and what is built of them.                                              *)
LinkTargets == {"sys", "lib", "mid", "app"}
DependsOn(direct) ==
  [t \in LinkTargets |-> CASE t = "lib" -> <<"sys">> [] t = "mid" -> <<"lib">> [] t = "app" -> direct
                           [] OTHER -> <<>>]
Adds(on, whose, list, flag) == [on |-> on, op |-> "add", whose |-> whose, list |-> list, value |-> <<on, flag>>]
Removes(on, whose, list, flag) == [Adds(on, whose, list, flag) EXCEPT !.op = "remove"]
Lists(on, list, v) == [on |-> on, op |-> "add", list |-> list, value |-> v]
Sets(on, what) == [on |-> on, op |-> "set", list |-> what]

LinkOf == INSTANCE LinkInputs WITH
  Order <- <<"sys", "lib", "mid", "app">>,
  Graphs <- {DependsOn(<<"mid">>), DependsOn(<<"sys", "mid", "lib">>)},
  Kinds <- [t \in LinkTargets |-> CASE t = "sys" -> {"void"} [] t = "lib" -> {"static", "shared", "object"}
                                    [] t = "mid" -> {"static", "shared"} [] OTHER -> {"binary", "shared"}],
  Systems <- {"linux", "windows", "darwin"}, Remote <- {"sys"}, MaxCalls <- 2, MaxEdits <- 1,
  Calls <- {Adds("lib", "public", "options", "x"), Removes("lib", "public", "options", "x"),
            Adds("mid", "own", "options", "x"), Adds("mid", "global", "options", "g"),
            Adds("lib", "public", "ldflags", "group"), Adds("lib", "public", "ldflags", "pie"),
            Adds("mid", "public", "links", "x"),
            Lists("lib", "files", 2), [Lists("lib", "files", 1) EXCEPT !.op = "remove"],
            Lists("sys", "provided", "z"), Lists("sys", "installs", "z"), Lists("sys", "installs", "sys"),
            Lists("mid", "provided", "m"), Lists("mid", "provided", "mid"),
            Sets("lib", "prebuilt"), Sets("lib", "unlinkable"), Sets("lib", "symbolPrefix"),
            Sets("app", "versionScript"), Sets("app", "symbolBinding"), Sets("app", "linkerScript"),
            Sets("app", "usesDepScript"), Sets("mid", "offersScript"), Sets("mid", "lostScript")},
  deps <- depends, decl <- declared

ASSUME LinkOf!LinkAssumption /\ ExtensionAssumption

linkVars == <<depends, kind, os, script, edits, declared, build, disk, vendor>>
NoLink ==
  /\ depends = 0 /\ kind = 0 /\ os = 0 /\ script = 0 /\ edits = 0 /\ declared = 0 /\ build = 0
  /\ disk = 0 /\ vendor = 0

NoSession == Init /\ keepGoing = FALSE
NoExtension == ExtensionInit

PartInit ==
  \/ part = "session" /\ Init /\ NoLink /\ NoExtension
  \/ part = "link" /\ LinkOf!Init /\ NoSession /\ NoExtension
  \/ part = "extensions" /\ ExtensionInit /\ NoSession /\ NoLink

PartNext ==
  /\ UNCHANGED part
  /\ \/ part = "session" /\ Next /\ UNCHANGED <<linkVars, extensionVars>>
     \/ part = "link" /\ LinkOf!Next /\ UNCHANGED <<vars, extensionVars>>
     \/ part = "extensions" /\ ExtensionNext /\ UNCHANGED <<vars, linkVars>>
     \/ part = "link" /\ build.pc = "idle" /\ UNCHANGED <<vars, linkVars, extensionVars>>
     \/ part = "extensions" /\ commands = MaxCommands /\ UNCHANGED <<vars, linkVars, extensionVars>>

(* The fairness is that of BuildSession!FairSpec.                          *)
PartSpec ==
  /\ PartInit /\ [][PartNext]_<<part, vars, linkVars, extensionVars>>
  /\ WF_vars(DeclareStep \/ ScriptStep \/ BuildStep)

(* BuildSession: the build of a session ends.                              *)
SessionEnds == part = "session" => BuildEnds

(* LinkInputs: what a target is compiled and linked of is what it and its  *)
(* dependencies declare and have made.                                     *)
LinkIsRight ==
  part = "link" =>
    /\ LinkOf!AttributesArriveOnce /\ LinkOf!LinksWhatWasMade /\ LinkOf!OutputsAreWhole
    /\ LinkOf!VendorFilesStay /\ LinkOf!AskedIsApplied
=============================================================================
