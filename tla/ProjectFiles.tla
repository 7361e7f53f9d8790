------------------------------ MODULE ProjectFiles ------------------------------
(* The files of a project that hold its configurations, and the one that    *)
(* selects one of them and keeps the pins (pkg/config/project.go,           *)
(* cmd/vmake/config_files.go): "config use", "copy", "describe", "list" and *)
(* the save of the editor, "deps pin" and "deps unpin", by processes that   *)
(* wait for the project lock and may be killed at any step.                 *)
EXTENDS Naturals, FiniteSets

CONSTANTS
  Shells,           \* the processes that run the commands
  Names,            \* of configuration files
  Default,          \* config.json
  Pinnable,         \* packages
  MaxCommands,      \* bound: commands
  MaxRemovals       \* bound: configurations the user removes

NoName == "none"

ASSUME FilesAssumption ==
  /\ Default \in Names /\ NoName \notin Names /\ IsFiniteSet(Names)
  /\ MaxCommands \in Nat /\ MaxRemovals \in Nat

(* Contents are told apart by who made them: 0 is the configuration of a   *)
(* project that has none yet, i is what the i-th command has saved.        *)
Content(kind, id) == [kind |-> kind, id |-> id]
Absent == Content("absent", 0)
Half == Content("half", 0)
Fresh == Content("whole", 0)

VARIABLES
  projectFile,      \* .vmake/project.json: [config, pins], no config if none is selected
  configs,          \* [Names -> a content, Half or Absent]
  lock,             \* the process that has the project lock
  task,             \* [Shells -> what the command of a process is about and has read]
  commands, removals,
  removed           \* names the user has removed a selected file of

filesVars == <<projectFile, configs, lock, task, commands, removals, removed>>

NoProjectFile == [config |-> NoName, pins |-> {}]
Idle ==
  [op |-> "none", pc |-> "idle", name |-> NoName, id |-> 0, pins |-> {}, path |-> NoName,
   data |-> Absent]

FilesInit ==
  /\ projectFile = NoProjectFile
  /\ configs = [n \in Names |-> Absent]
  /\ lock = {} /\ task = [p \in Shells |-> Idle]
  /\ commands = 0 /\ removals = 0 /\ removed = {}

(* projectSelection, readProjectConfig, LoadProjectSnapshot: the selected  *)
(* file must be there and whole, the one that is taken when none is        *)
(* selected may be missing.                                                *)
Explicit == projectFile.config # NoName
Active == IF Explicit THEN projectFile.config ELSE Default
Readable(n) == configs[n].kind = "whole"
Loadable == Readable(Active) \/ (~Explicit /\ configs[Active] = Absent)
Loaded == IF Readable(Active) THEN configs[Active] ELSE Fresh

Begin(p, op, n, pins) ==
  /\ task[p] = Idle /\ commands < MaxCommands
  /\ commands' = commands + 1
  /\ task' = [task EXCEPT ![p] = [Idle EXCEPT !.op = op, !.pc = "waiting", !.name = n,
                                              !.id = commands + 1, !.pins = pins]]
  /\ UNCHANGED <<projectFile, configs, lock, removals, removed>>

(* "deps pin" reads the pins before it waits; see DependencyLock for that. *)
Ask(p) ==
  \/ \E op \in {"use", "copy"}, n \in Names : Begin(p, op, n, {})
  \/ Begin(p, "save", NoName, {})
  \/ \E q \in Pinnable : Begin(p, "pins", NoName, projectFile.pins \cup {q})

(* "deps unpin" has the lock when it reads them.                           *)
AskUnpin(p) == \E q \in projectFile.pins : Begin(p, "unpin", q, {})

Continue(p, t) == task' = [task EXCEPT ![p] = t]
End(p) == Continue(p, Idle) /\ lock' = lock \ {p}

AcquireLock(p) ==
  /\ task[p].pc = "waiting" /\ lock = {}
  /\ lock' = {p} /\ Continue(p, [task[p] EXCEPT !.pc = "open"])
  /\ UNCHANGED <<projectFile, configs, commands, removals, removed>>

Opened(p, op) == task[p].op = op /\ task[p].pc = "open"

(* Mutant: the file is not read. *)
UseAnyConfig(p) ==
  /\ Opened(p, "use")
  /\ projectFile' = [projectFile EXCEPT !.config = task[p].name]
  /\ End(p) /\ UNCHANGED <<configs, commands, removals, removed>>

UseProjectConfig(p) ==
  /\ Opened(p, "use")
  /\ projectFile' = IF Readable(task[p].name) THEN [projectFile EXCEPT !.config = task[p].name]
                    ELSE projectFile
  /\ End(p) /\ UNCHANGED <<configs, commands, removals, removed>>

(* What the editor, "config --set", "describe" and "copy" start from.      *)
LoadProject(p) ==
  /\ task[p].op \in {"save", "copy"} /\ task[p].pc = "open"
  /\ IF Loadable
     THEN /\ Continue(p, [task[p] EXCEPT !.pc = "loaded", !.path = Active, !.data = Loaded])
          /\ UNCHANGED lock
     ELSE End(p)
  /\ UNCHANGED <<projectFile, configs, commands, removals, removed>>

(* Save, SetProjectDescription: the file is replaced.                      *)
Save(p) ==
  /\ task[p].op = "save" /\ task[p].pc = "loaded"
  /\ configs' = [configs EXCEPT ![task[p].path] = Content("whole", task[p].id)]
  /\ End(p) /\ UNCHANGED <<projectFile, commands, removals, removed>>

(* CopyProjectConfig: the new file is created and then written, and        *)
(* removed if that fails; not if the user has removed it.                  *)
CreateCopy(p) ==
  /\ task[p].op = "copy" /\ task[p].pc = "loaded"
  /\ IF configs[task[p].name] = Absent
     THEN /\ configs' = [configs EXCEPT ![task[p].name] = Half]
          /\ Continue(p, [task[p] EXCEPT !.pc = "writing"]) /\ UNCHANGED lock
     ELSE End(p) /\ UNCHANGED configs
  /\ UNCHANGED <<projectFile, commands, removals, removed>>

WriteCopy(p) ==
  /\ task[p].pc = "writing"
  /\ IF configs[task[p].name] = Half
     THEN \E c \in {task[p].data, Absent} : configs' = [configs EXCEPT ![task[p].name] = c]
     ELSE UNCHANGED configs
  /\ End(p) /\ UNCHANGED <<projectFile, commands, removals, removed>>

(* Mutant: without pins the file goes, whatever it selects. *)
DropWithPins(pins) ==
  projectFile' = IF pins = {} THEN NoProjectFile ELSE [projectFile EXCEPT !.pins = pins]

(* SaveProjectPins; without pins and selection the file is removed.        *)
SetPins(pins) ==
  projectFile' = IF pins = {} /\ ~Explicit THEN NoProjectFile ELSE [projectFile EXCEPT !.pins = pins]

SaveProjectPins(p) ==
  /\ \/ Opened(p, "pins") /\ SetPins(task[p].pins)
     \/ Opened(p, "unpin") /\ SetPins(projectFile.pins \ {task[p].name})
  /\ End(p) /\ UNCHANGED <<configs, commands, removals, removed>>

(* A failure that changes nothing, or a kill                               *)
Stop(p) ==
  /\ task[p].pc # "idle"
  /\ End(p) /\ UNCHANGED <<projectFile, configs, commands, removals, removed>>

RemoveConfig ==
  /\ removals < MaxRemovals /\ removals' = removals + 1
  /\ \E n \in Names : /\ configs[n] # Absent /\ configs' = [configs EXCEPT ![n] = Absent]
                      /\ removed' = IF projectFile.config = n THEN removed \cup {n} ELSE removed
  /\ UNCHANGED <<projectFile, lock, task, commands>>

FilesNext ==
  \/ \E p \in Shells :
       \/ Ask(p) \/ AskUnpin(p) \/ AcquireLock(p) \/ UseProjectConfig(p) \/ LoadProject(p) \/ Save(p)
       \/ CreateCopy(p) \/ WriteCopy(p) \/ SaveProjectPins(p) \/ Stop(p)
  \/ RemoveConfig

FilesSpec == FilesInit /\ [][FilesNext]_filesVars

-----------------------------------------------------------------------------
(* ListProjectConfigs *)
Listed ==
  LET shown == {[name |-> n, active |-> n = Active, unsaved |-> FALSE, error |-> ~Readable(n)] :
                  n \in {n \in Names : configs[n] # Absent}}
  IN  IF \E i \in shown : i.active THEN shown
      ELSE shown \cup {[name |-> Active, active |-> TRUE, unsaved |-> ~Explicit, error |-> Explicit]}

(* project.go: what has been selected is a whole file, unless the user has *)
(* removed it, whatever was killed; and "config list" marks the one        *)
(* configuration that a build then uses, as invalid if the build fails.    *)
SelectedIsWhole ==
  /\ Explicit /\ projectFile.config \notin removed => Readable(projectFile.config)
  /\ Cardinality({i \in Listed : i.active}) = 1
  /\ \A i \in Listed : i.active => i.name = Active /\ (i.error <=> ~Loadable)

(* project.go: a command changes the configuration that is selected then   *)
(* or makes a new one, a copy is what was active; only "use" selects, and  *)
(* only "pin" and "unpin" change pins.                                     *)
OnlyAskedChanges ==
  [][ /\ \A n \in Names :
           configs'[n] # configs[n] /\ configs'[n] # Absent =>
             \/ n = Active /\ configs'[n] \notin {Half, Fresh}
             \/ configs[n] = Absent /\ configs'[n] = Half
             \/ configs[n] = Half /\ \E p \in Shells : task[p].path = Active /\ configs'[n] = task[p].data
      /\ projectFile'.config # projectFile.config =>
           \E p \in Shells : task[p].op = "use" /\ task[p].name = projectFile'.config
      /\ projectFile'.pins # projectFile.pins => \E p \in Shells : task[p].op \in {"pins", "unpin"}
           /\ task'[p] = Idle ]_filesVars
================================================================================
