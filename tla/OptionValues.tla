---------------------------- MODULE OptionValues ----------------------------
(***************************************************************************)
(* The value of one option, as everything that reads it sees it: OnApply   *)
(* (pkg/pipeline/phases.go), OnRequire, whose answers decide what is       *)
(* needed (stage_config.go, keys.go, Package.UpdateRequireContext), the    *)
(* macros of a global option, OnBuild (pipeline.go) and the header that    *)
(* the configuration of a package and of those it imports becomes          *)
(* (pkg/api/config_header.go); all through ConfigAccessor                  *)
(* (pkg/api/accessor.go).  The phases run in this order, each computing    *)
(* the values anew from the declarations, the configuration and the flags. *)
(*                                                                         *)
(* The option is one that packages declare, each for itself or globally,   *)
(* or the built-in one, "mode", which a flag overrides as well.  A value   *)
(* NoValue is one that is not there.                                       *)
(***************************************************************************)
EXTENDS Naturals, FiniteSets

CONSTANTS
  Locals, Remotes,   \* the packages
  Values, NoValue,   \* of the option
  Release, Debug,    \* the default of the built-in option, and what a build makes of none
  Defaults,          \* what packages may declare
  Declaring,         \* bound: the packages that may declare or configure it
  Requires,          \* [packages -> sets of <<a package, the value to require it for>>]
  Imports            \* [packages -> sets of packages]

Packages == Locals \cup Remotes

ASSUME OptionAssumption ==
  /\ IsFiniteSet(Packages) /\ Locals \cap Remotes = {}
  /\ NoValue \notin Values /\ {Release, Debug} \subseteq Values
  /\ Defaults \subseteq Values \cup {NoValue}
  /\ Requires \in [Packages -> SUBSET (Packages \X Values)]
  /\ Imports \in [Packages -> SUBSET Packages]

VARIABLES
  decl,      \* what each package declares
  entry,     \* its configured values
  configured,    \* the configured value of the project
  builtin, flag,
  root,      \* the packages that declare SetRoot(true)
  phase, applied, required, needed, macro, built, header

configVars == <<decl, entry, configured, builtin, flag, root>>
optionVars ==
  <<decl, entry, configured, builtin, flag, root, phase, applied, required, needed, macro, built, header>>

Undeclared == [scope |-> "none", default |-> NoValue]
Declarations == {Undeclared} \cup [scope : {"local", "global"}, default : Defaults]
NoView == [p \in Packages |-> NoValue]

(* The configuration may hold values of options that are gone.             *)
OptionsInit ==
  /\ decl \in {d \in [Packages -> Declarations] : \A p \in Packages \ Declaring : d[p] = Undeclared}
  /\ entry \in {e \in [Packages -> Values \cup {NoValue}] :
                \A p \in Packages \ Declaring : e[p] = NoValue}
  /\ configured \in Values \cup {NoValue} /\ builtin \in BOOLEAN
  /\ flag \in IF builtin THEN Values \cup {NoValue} ELSE {NoValue}
  /\ root \in SUBSET Locals /\ phase = "resolved"
  /\ applied = NoView /\ required = NoView /\ built = NoView /\ header = NoView
  /\ needed = {} /\ macro = NoValue

Or(value, other) == IF value # NoValue THEN value ELSE other
Declared(p) == decl[p].scope # "none"
Global(p) == decl[p].scope = "global"
Globals == {p \in Packages : Global(p)}

-----------------------------------------------------------------------------
(* The configuration.                                                      *)

GlobalDefaults == {decl[p].default : p \in Globals} \cup IF builtin THEN {Release} ELSE {}

(* All that declare an option globally declare the same default.           *)
MergeGlobalOptions == Cardinality(GlobalDefaults) <= 1
GlobalDefault == IF GlobalDefaults = {} THEN NoValue ELSE CHOOSE v \in GlobalDefaults : TRUE

ResolveMode == Or(flag, Or(configured, Debug))

(* The values of the project in the callbacks before a build, and in it.   *)
BuildGlobalValues == configured
HasProjectValue == configured # NoValue
GlobalValues == IF builtin THEN ResolveMode ELSE Or(configured, GlobalDefault)
HasGlobalValue == HasProjectValue \/ builtin \/ Globals # {}

(* A package overrides a global option by a value other than its default.  *)
mergePkgOptions(p, value, hasGlobal) ==
  IF Global(p) /\ hasGlobal /\ entry[p] = decl[p].default THEN value ELSE Or(entry[p], value)

packageConfigValuesWithGlobals(p) ==
  mergePkgOptions(p, IF Global(p) THEN BuildGlobalValues ELSE NoValue, HasProjectValue)

(* Mutant: the default of a global option comes before the project's value.*)
mergeDefaultFirst(p) == Or(mergePkgOptions(p, decl[p].default, HasGlobalValue), GlobalValues)

mergeCfgVals(p) ==
  Or(mergePkgOptions(p, IF Global(p) /\ HasGlobalValue THEN NoValue ELSE decl[p].default, HasGlobalValue),
     GlobalValues)

(* What an accessor returns when the values hold none.                     *)
AccessorDefault(p) == IF Declared(p) THEN decl[p].default ELSE GlobalDefault

-----------------------------------------------------------------------------
(* OnApply, and the macros.                                                *)
AppliedValue(p) == IF Declared(p) THEN Or(packageConfigValuesWithGlobals(p), decl[p].default) ELSE NoValue
MacroValue == Or(IF builtin THEN ResolveMode ELSE configured, GlobalDefault)

runConfigPhase ==
  /\ phase = "resolved"
  /\ IF ~MergeGlobalOptions THEN phase' = "failed" /\ UNCHANGED <<applied, macro>>
     ELSE /\ phase' = "configured"
          /\ applied' = [p \in Packages |-> AppliedValue(p)] /\ macro' = MacroValue
  /\ UNCHANGED <<configVars, required, needed, built, header>>

(* OnRequire, with "When"; reading what is not declared and not configured *)
(* is fatal.                                                               *)
Asked(p) == Or(packageConfigValuesWithGlobals(p), decl[p].default)
Readable(p) == Declared(p) \/ packageConfigValuesWithGlobals(p) # NoValue

(* While the dependencies are discovered every condition holds.            *)
Discovered == UNION {{<<p, r[1]>> : r \in Requires[p]} : p \in Packages}
Filtered == {d \in Discovered : <<d[2], Asked(d[1])>> \in Requires[d[1]]}

(* A root, or all that are local.  Without a root, a local package that    *)
(* requires none and is required is reached from those that require it.    *)
Starts ==
  IF root # {} THEN root
  ELSE {p \in Locals :
          \/ Requires[p] # {}
          \/ \A q \in Locals : Requires[q] = {}
          \/ \A q \in Locals : <<q, p>> \notin Filtered}
computeReachable ==
  LET start == Starts
      edges == Filtered
      closed == {S \in SUBSET Packages :
                   start \subseteq S /\ \A d \in edges : d[1] \in S => d[2] \in S}
  IN  {q \in Packages : \A S \in closed : q \in S}

filterAndCollectNeeded ==
  /\ phase = "configured"
  /\ IF Cardinality(root) > 1 \/ \E p \in Packages : Requires[p] # {} /\ ~Readable(p)
     THEN phase' = "failed" /\ UNCHANGED <<required, needed>>
     ELSE /\ phase' = "filtered" /\ needed' = computeReachable
          /\ required' = [p \in Packages |-> IF Readable(p) THEN Asked(p) ELSE NoValue]
  /\ UNCHANGED <<configVars, applied, macro, built, header>>

(* OnBuild of what is needed.                                              *)
BuiltValue(p) == Or(mergeCfgVals(p), AccessorDefault(p))

(* A package's own options and values come before those it imports.        *)
Owners(p) == {q \in {p} \cup (Imports[p] \cap needed) : Declared(q)}
Owner(p) == IF p \in Owners(p) THEN p ELSE CHOOSE q \in Owners(p) : TRUE
MergeImportedOptions(p) == Or(mergeCfgVals(p), mergeCfgVals(Owner(p)))

(* The header has the options that are not global.                         *)
HeaderValue(p) ==
  IF Owners(p) = {} THEN NoValue
  ELSE IF Global(Owner(p)) THEN NoValue
  ELSE Or(MergeImportedOptions(p), decl[Owner(p)].default)

executeOnBuild ==
  /\ phase = "filtered" /\ phase' = "built"
  /\ built' = [p \in Packages |->
       IF p \in needed THEN BuiltValue(p) ELSE NoValue]
  /\ header' = [p \in Packages |-> IF p \in needed THEN HeaderValue(p) ELSE NoValue]
  /\ UNCHANGED <<configVars, applied, required, needed, macro>>

OptionsNext == runConfigPhase \/ filterAndCollectNeeded \/ executeOnBuild
OptionsSpec == OptionsInit /\ [][OptionsNext]_optionVars

-----------------------------------------------------------------------------
(* Excepted: what is settled only by a flag, or left to the build, callbacks*)
(* before the build do not see; and an option without a default that is    *)
(* local here and global elsewhere is the other's in a build.              *)
Settled(p) ==
  /\ builtin => flag = NoValue /\ HasProjectValue
  /\ decl[p].scope = "local" /\ decl[p].default = NoValue /\ entry[p] = NoValue => ~HasGlobalValue

(* Whatever a package declares and whatever is configured, all callbacks,  *)
(* the macros and the header of one build see one value of its option.     *)
OneValue ==
  phase = "built" => \A p \in needed : Declared(p) =>
    /\ Settled(p) => applied[p] = built[p] /\ required[p] = built[p]
    /\ ~Global(p) => header[p] = built[p]
    /\ Global(p) /\ entry[p] = NoValue => macro = built[p]

(* What a package's script requires for a value is there when OnBuild sees *)
(* that value; a remote package is there only when a script wants it so.   *)
NeededIsWhatIsBuilt ==
  phase = "built" => \A p \in needed : Settled(p) =>
    /\ \A r \in Requires[p] : r[2] = built[p] => r[1] \in needed
    /\ \A q \in needed \ Locals : \E d \in needed : \E r \in Requires[d] :
         r[1] = q /\ (Settled(d) => r[2] = built[d])

(* An imported option has the value its owner sees, where no other option  *)
(* of the project has the name.                                            *)
ImportedIsOwners ==
  phase = "built" => \A p \in needed : \A q \in Imports[p] \cap needed :
    ~Declared(p) /\ entry[p] = NoValue /\ decl[q].scope = "local" /\ ~HasGlobalValue
      /\ Owners(p) = {q}
      => header[p] = built[q]

ReadersAgree == OneValue /\ NeededIsWhatIsBuilt /\ ImportedIsOwners
=============================================================================
