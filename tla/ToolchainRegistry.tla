--------------------------- MODULE ToolchainRegistry ---------------------------
(***************************************************************************)
(* What loadPlugins (cmd/vmake/ext_cmd.go) makes of the trusted extensions *)
(* when a command starts: the toolchain definitions of the repositories    *)
(* (pkg/toolchain/discovery.go), then the plugins, whose calls are         *)
(* collected (registration.go) and applied to the manager (manager.go) when*)
(* the plugin's main succeeds.  Later, commands of the plugins may register*)
(* more, and a build selects a toolchain, which may install it.            *)
(*                                                                         *)
(* Definitions are numbered in the order of the scan, plugins follow in    *)
(* theirs.  What a definition or a plugin provides is named by its number. *)
(***************************************************************************)
EXTENDS Naturals, FiniteSets

CONSTANTS
  ToolchainNames,\* names of toolchains, other than "host"
  Definitions,\* the toolchain.json files: 1..Definitions
  Plugins     \* the plugins: Definitions+1..Definitions+Plugins

Paths == 1..Definitions
PluginIds == Definitions + 1..Definitions + Plugins
Nobody == 0
Nameless == "nameless"

ASSUME RegistryAssumption == Definitions \in Nat /\ Plugins \in Nat /\ Nameless \notin ToolchainNames

(* A file that cannot be read has no name, one that is invalid has; one    *)
(* has no installation for this host; one names tools that are there, and  *)
(* one is installed when it is needed.                                     *)
FileKinds == {"unreadable", "invalid", "elsewhere", "present", "installed on demand"}

VARIABLES
  definition, \* the files
  scanned,    \* how many are registered
  extensions, onMissing, sources, errors, flags,  \* the manager
  ready,      \* the toolchains that have an installation path
  turn,       \* the plugin that is loaded next, or runs its main
  reg,        \* its registration
  loaded,     \* the plugins whose commands were added
  made,       \* what each plugin was told is registered
  selected    \* the last selection: name and provider

manager == <<extensions, onMissing, sources, errors, flags, ready>>
registryVars == <<definition, scanned, manager, turn, reg, loaded, made, selected>>

NoReg == [running |-> FALSE, toolchains |-> {}, handlers |-> {}, flags |-> FALSE, failed |-> FALSE]

RegistryInit ==
  /\ definition \in [Paths -> [name : ToolchainNames, kind : FileKinds]]
  /\ scanned = 0 /\ turn = Definitions + 1 /\ reg = NoReg /\ loaded = {}
  /\ extensions = [n \in ToolchainNames |-> Nobody] /\ onMissing = [n \in ToolchainNames |-> Nobody]
  /\ sources = [n \in ToolchainNames |-> Nobody] /\ errors = {} /\ flags = {} /\ ready = {}
  /\ made = [q \in PluginIds |-> {}] /\ selected = [name |-> Nameless, by |-> Nobody]

-----------------------------------------------------------------------------
(* RegisterRepo, one definition after the other.                           *)

Scanning == scanned < Definitions /\ scanned' = scanned + 1
RegisterToolchainError(n, path) == errors' = errors \cup {<<n, path>>}
NoPlugin == UNCHANGED <<definition, turn, reg, loaded, made, selected, flags>>

RegisterBad ==
  /\ Scanning
  /\ LET path == scanned + 1
         d == definition[path] IN
     /\ \/ d.kind = "unreadable" /\ RegisterToolchainError(Nameless, path)
        \/ d.kind = "invalid" /\ RegisterToolchainError(d.name, path)
        \/ d.kind = "elsewhere" /\ sources[d.name] = Nobody /\ RegisterToolchainError(d.name, path)
  /\ NoPlugin /\ UNCHANGED <<extensions, onMissing, sources, ready>>

RegisterDuplicate ==
  /\ Scanning
  /\ LET d == definition[scanned + 1] IN
     /\ d.kind \notin {"unreadable", "invalid"} /\ sources[d.name] # Nobody
     /\ RegisterToolchainError(d.name, scanned + 1)
  /\ NoPlugin /\ UNCHANGED <<extensions, onMissing, sources, ready>>

RegisterDefinition ==
  /\ Scanning
  /\ LET path == scanned + 1
         d == definition[path] IN
     /\ d.kind \in {"present", "installed on demand"} /\ sources[d.name] = Nobody
     /\ extensions' = [extensions EXCEPT ![d.name] = path]
     /\ sources' = [sources EXCEPT ![d.name] = path]
     /\ IF d.kind = "present" THEN UNCHANGED onMissing
        ELSE onMissing' = [onMissing EXCEPT ![d.name] = path]
     /\ \/ UNCHANGED ready
        \/ d.kind = "installed on demand" /\ ready' = ready \cup {path}
  /\ NoPlugin /\ UNCHANGED errors

-----------------------------------------------------------------------------
(* The main of a plugin, and the calls it makes.                           *)

Running == reg.running
Collects(r) ==
  reg' = r /\ UNCHANGED <<definition, scanned, manager, turn, loaded, selected>>
Keeps(what) == made' = [made EXCEPT ![turn] = @ \cup what]

RunMain ==
  /\ scanned = Definitions /\ turn \in PluginIds /\ ~Running
  /\ Collects([NoReg EXCEPT !.running = TRUE]) /\ UNCHANGED made

RegisterToolchain(n) ==
  /\ Running /\ n \notin reg.toolchains /\ extensions[n] = Nobody
  /\ Collects([reg EXCEPT !.toolchains = @ \cup {n}]) /\ Keeps({<<"toolchain", n>>})

(* Mutant: the manager is changed at once.                                 *)
AddGlobalFlagsDirectly ==
  /\ Running /\ flags' = flags \cup {turn} /\ Keeps({<<"flags", Nameless>>})
  /\ UNCHANGED <<definition, scanned, extensions, onMissing, sources, errors, ready, turn, reg,
                 loaded, selected>>

AddGlobalFlags ==
  /\ Running
  /\ Collects([reg EXCEPT !.flags = TRUE]) /\ Keeps({<<"flags", Nameless>>})

SetOnMissing(n) ==
  /\ Running
  /\ Collects([reg EXCEPT !.handlers = @ \cup {n}]) /\ Keeps({<<"handler", n>>})

(* A handler with a name that is no name: Commit will fail.                *)
SetOnMissingInvalid ==
  /\ Running /\ Collects([reg EXCEPT !.failed = TRUE]) /\ UNCHANGED made

(* main fails, or Commit does: nothing is applied.                         *)
Abort ==
  /\ Running /\ turn' = turn + 1 /\ reg' = NoReg
  /\ made' = [made EXCEPT ![turn] = {}]
  /\ UNCHANGED <<definition, scanned, manager, loaded, selected>>

Commit ==
  /\ Running /\ ~reg.failed
  /\ extensions' = [n \in ToolchainNames |-> IF n \in reg.toolchains THEN turn ELSE extensions[n]]
  /\ onMissing' = [n \in ToolchainNames |-> IF n \in reg.handlers THEN turn ELSE onMissing[n]]
  /\ flags' = IF reg.flags THEN flags \cup {turn} ELSE flags
  /\ \E path \in BOOLEAN :
       ready' = IF path /\ reg.toolchains # {} THEN ready \cup {turn} ELSE ready
  /\ loaded' = loaded \cup {turn} /\ turn' = turn + 1 /\ reg' = NoReg
  /\ UNCHANGED <<definition, scanned, sources, errors, made, selected>>

(* The plugin cannot be loaded, or a command has its name.                 *)
SkipPlugin ==
  /\ scanned = Definitions /\ turn \in PluginIds /\ ~Running /\ turn' = turn + 1
  /\ UNCHANGED <<definition, scanned, manager, reg, loaded, made, selected>>

-----------------------------------------------------------------------------
(* The command runs.                                                       *)

Loaded == scanned = Definitions /\ turn \notin PluginIds
Only(kept) == UNCHANGED <<definition, scanned, sources, errors, turn, reg, loaded, kept>>

(* A command of a plugin uses its registration, which is committed.        *)
RegisterLate(q, n) ==
  /\ Loaded /\ q \in loaded
  /\ \/ /\ extensions[n] = Nobody /\ extensions' = [extensions EXCEPT ![n] = q]
        /\ made' = [made EXCEPT ![q] = @ \cup {<<"toolchain", n>>}]
        /\ UNCHANGED onMissing
     \/ /\ onMissing' = [onMissing EXCEPT ![n] = q]
        /\ made' = [made EXCEPT ![q] = @ \cup {<<"handler", n>>}]
        /\ UNCHANGED extensions
  /\ Only(<<flags, ready, selected>>)

Unusable(n) == \E path \in Paths : <<n, path>> \in errors

SelectRegistered(n) ==
  /\ Loaded /\ ~Unusable(n)
  /\ \/ /\ extensions[n] \in ready \/ (extensions[n] # Nobody /\ onMissing[n] = Nobody)
        /\ selected' = [name |-> n, by |-> extensions[n]]
        /\ UNCHANGED <<extensions, ready>>
     \/ /\ extensions[n] \notin ready /\ onMissing[n] # Nobody
        /\ extensions' = [extensions EXCEPT ![n] = onMissing[n]]
        /\ ready' = ready \cup {onMissing[n]}
        /\ selected' = [name |-> n, by |-> onMissing[n]]
  /\ Only(<<onMissing, flags, made>>)

RegistryNext ==
  \/ RegisterBad \/ RegisterDuplicate \/ RegisterDefinition
  \/ RunMain \/ (\E n \in ToolchainNames : RegisterToolchain(n)) \/ AddGlobalFlags
  \/ (\E n \in ToolchainNames : SetOnMissing(n)) \/ SetOnMissingInvalid \/ Abort \/ Commit \/ SkipPlugin
  \/ (\E q \in PluginIds, n \in ToolchainNames : RegisterLate(q, n))
  \/ (\E n \in ToolchainNames : SelectRegistered(n))

RegistrySpec == RegistryInit /\ [][RegistryNext]_registryVars

-----------------------------------------------------------------------------
(* A plugin is loaded as a whole or not at all (registration.go): nothing  *)
(* of one that failed is left, nothing of one that is loaded is missing,   *)
(* whatever it did before it failed and whatever the others do.            *)
PluginIsWhole ==
  /\ \A q \in PluginIds \ loaded :
       q \notin flags /\ \A n \in ToolchainNames : q \notin {extensions[n], onMissing[n]}
  /\ \A q \in loaded : \A item \in made[q] :
       CASE item[1] = "toolchain" -> extensions[item[2]] # Nobody
         [] item[1] = "handler" -> onMissing[item[2]] \in PluginIds /\ onMissing[item[2]] \in loaded
         [] item[1] = "flags" -> q \in flags

(* "A duplicate name disables the whole name": what is selected is defined *)
(* once, and no other file claims its name, invalid or not.                *)
DuplicatesAreUnusable ==
  Loaded /\ selected.by # Nobody =>
    ~\E path \in Paths :
       /\ definition[path].name = selected.name /\ definition[path].kind # "unreadable"
       /\ \/ definition[path].kind \in {"invalid", "elsewhere"}
          \/ \E other \in Paths \ {path} :
               definition[other].name = selected.name /\ definition[other].kind # "unreadable"

(* A plugin is loaded as a whole or not at all, and a name that is defined *)
(* twice is not selected.                                                  *)
RegistryIsSound == PluginIsWhole /\ DuplicatesAreUnusable
=============================================================================
