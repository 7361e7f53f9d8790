----------------------------- MODULE ConfigEditor -----------------------------
(***************************************************************************)
(* "vmake config": the editor (pkg/tui), what it saves                     *)
(* (cmd/vmake/config.go), "config --set", and what a build resolves from   *)
(* it: the chip, the toolchain and the target (pkg/pipeline/chip.go,       *)
(* platform.go) and the .config of a KConfig package (keys.go).            *)
(*                                                                         *)
(* The editor shows the global options that depend on one another, one     *)
(* other option (of a package, or the description), and the presets and    *)
(* the menuconfig of one KConfig package.                                  *)
(* target_os and target_triple are treated alike by every function here    *)
(* but one: "target" stands for both.  Where the cursor is, which rows are *)
(* visible and how a value is picked (toggle, list, text field, mouse) are *)
(* abstracted: no other message is handled between the start of an edit    *)
(* and its end, so it is one step.  "" is an unset value, as it is for the *)
(* code, which treats an empty string and a missing key alike here.        *)
(***************************************************************************)
EXTENDS Naturals, FiniteSets

CONSTANTS
  Chips,            \* names of chip profiles
  Toolchains,       \* the installed ones, "host" among them
  TargetNames,      \* what the user may type as the target
  Profile,          \* Profile[c]: its [toolchain, target]
  ToolchainTarget,  \* the target a toolchain declares, or Unset
  Declared,         \* the default value of each global option, or Unset
  Presets,          \* of the KConfig package, the first is its default
  DefaultPreset,
  MaxSessions       \* bound: commands

Unset == ""
Globals == {"chip", "toolchain", "target"}
Derivable == {"toolchain", "target"}
NoProfile == [toolchain |-> Unset, target |-> Unset]

Values == Chips \cup Toolchains \cup TargetNames \cup {Unset}

ASSUME EditorAssumption ==
  /\ "host" \in Toolchains /\ ToolchainTarget["host"] = Unset /\ Unset \notin Chips \cup Toolchains
  /\ Profile \in [Chips -> [toolchain : Toolchains \cup {Unset}, target : TargetNames \cup {Unset}]]
  /\ Declared \in [Globals -> Values] /\ Declared["chip"] \in Chips \cup {Unset}
  /\ Unset \notin Presets /\ DefaultPreset \in Presets /\ MaxSessions \in Nat

ValuesOf(n) ==
  CASE n = "chip" -> Chips [] n = "toolchain" -> Toolchains
    [] n = "target" -> TargetNames \cup {Unset}

VARIABLES
  file,      \* the configuration file
  dotConfig, \* the .config in the sources of the KConfig package
  ed,        \* the editor
  intended,  \* what the user wanted of the toolchain and the target, when it was saved
  sessions

editorVars == <<file, dotConfig, ed, intended, sessions>>

(* The content of a .config: the preset it was made from, and how often    *)
(* menuconfig has changed it.                                              *)
NoKConfig == [preset |-> Unset, edits |-> 0]
Generated(p) == [preset |-> p, edits |-> 0]

Files ==
  {f \in [global : [Globals -> UNION {ValuesOf(n) : n \in Globals} \cup {Unset}], opt : {0},
          entry : BOOLEAN, preset : {Unset} \cup Presets, kconfig : {NoKConfig, Generated(DefaultPreset)}] :
     /\ \A n \in Globals : f.global[n] \in ValuesOf(n) \cup {Unset}
     /\ ~f.entry => f.preset = Unset /\ f.kconfig = NoKConfig}
NoSave == [n \in {} |-> Unset]
Closed == [pc |-> "closed"]

EditorInit ==
  /\ file \in Files /\ dotConfig = NoKConfig
  /\ ed = Closed /\ intended = NoSave /\ sessions = 0

-----------------------------------------------------------------------------
(* What a configuration means, to the build and to the editor.             *)

ProfileOf(chip) == IF chip \in Chips THEN Profile[chip] ELSE NoProfile
Or(a, b) == IF a # Unset THEN a ELSE b

(* The target of a chip counts with its own toolchain, with any when it    *)
(* prefers none, and with another one that does not contradict it.         *)
TargetsApply(chip, tc) ==
  /\ chip \in Chips
  /\ \/ Profile[chip].toolchain \in {Unset, tc}
     \/ tc \notin {Unset, "host"} /\ ToolchainTarget[tc] \in {Unset, Profile[chip].target}

(* The chip of a build is that of the packages it needs.  It must be the   *)
(* configured one, unless the toolchain is explicit.                       *)
ResolvesTo(f, chip) ==
  IF chip = Unset THEN f.global["chip"] = Unset
  ELSE f.global["chip"] \in {Unset, chip} \/ f.global["toolchain"] # Unset

BuildToolchain(f, chip) ==
  Or(f.global["toolchain"], Or(ProfileOf(chip).toolchain, "host"))

BuildTarget(f, chip) ==
  LET tc == BuildToolchain(f, chip) IN
  Or(Or(f.global["target"], Declared["target"]),
     Or(IF TargetsApply(chip, tc) THEN Profile[chip].target ELSE Unset, ToolchainTarget[tc]))

(* For display, the configured or declared chip; else the only one there is.*)
DisplayChip(values) == Or(values["chip"], Declared["chip"])
PreferredForDisplay(values) ==
  LET chip == DisplayChip(values)
      profiles == {Profile[c] : c \in Chips} IN
  IF chip \in Chips THEN Profile[chip].toolchain
  ELSE IF Cardinality(profiles) = 1 THEN (CHOOSE p \in profiles : TRUE).toolchain
  ELSE Unset

ShownToolchain(values) == Or(values["toolchain"], Declared["toolchain"])

DisplayFallback(values) ==
  LET chip == DisplayChip(values)
      own == IF TargetsApply(chip, ShownToolchain(values)) THEN Profile[chip].target ELSE Unset IN
  Or(own, ToolchainTarget[Or(values["toolchain"], "host")])

EffectiveGlobalValue(values, n) ==
  Or(Or(values[n], Declared[n]), IF n = "target" THEN DisplayFallback(values) ELSE Unset)

-----------------------------------------------------------------------------
(* The editor's model.                                                     *)

CheckChanges(e) ==
  \/ e.opt # file.opt \/ e.preset # Unset
  \/ \E n \in Globals : EffectiveGlobalValue(e.values, n) # EffectiveGlobalValue(e.orig, n)
Recounted(e) == [e EXCEPT !.changed = CheckChanges(e)]

(* A toolchain that is not configured is filled in from the chip; what the *)
(* options declare fills in the rest, which then counts as configured.     *)
Opened ==
  LET derived == {n \in Derivable : file.global[n] = Unset}
      current == Or(file.global["toolchain"], Or(PreferredForDisplay(file.global), "host"))
      values == [n \in Globals |->
                   IF n = "toolchain" THEN current ELSE Or(file.global[n], Declared[n])] IN
  [pc |-> "main", values |-> values, orig |-> values, derived |-> derived, origDerived |-> derived,
   opt |-> file.opt, preset |-> Unset, ran |-> FALSE, changed |-> FALSE,
   wants |-> [n \in Derivable |-> file.global[n]]]

Open ==
  /\ ed = Closed /\ sessions < MaxSessions /\ sessions' = sessions + 1
  /\ ed' = Opened /\ intended' = NoSave
  /\ UNCHANGED <<file, dotConfig>>

InMain == ed.pc = "main"
Edited(e) == ed' = Recounted(e) /\ UNCHANGED <<file, dotConfig, intended, sessions>>
Wants(e, n, v) == [e EXCEPT !.wants = [m \in Derivable |-> IF m = n THEN v ELSE @[m]]]

(* What was derived from the old chip is derived from the new one.         *)
ApplyChipProfile(e, chip) ==
  [e EXCEPT !.values["toolchain"] = IF "toolchain" \in e.derived THEN ProfileOf(chip).toolchain ELSE @,
            !.values["target"] = IF "target" \in e.derived THEN Unset ELSE @]

SetGlobal(e, n, v) ==
  LET set == [e EXCEPT !.values[n] = v, !.derived = @ \ {n}] IN
  IF n = "chip" THEN ApplyChipProfile(set, v) ELSE set

(* Mutant: a toolchain or target that is cleared is not marked as derived. *)
ClearGlobalValueUnmarked(e, n) ==
  LET cleared == [e EXCEPT !.values[n] = Unset] IN
  CASE n = "toolchain" ->
         [cleared EXCEPT !.values[n] = ProfileOf(DisplayChip(e.values)).toolchain]
    [] n = "target" -> cleared
    [] n = "chip" -> ApplyChipProfile(cleared, DisplayChip(cleared.values))
    [] OTHER -> cleared

ClearGlobalValue(e, n) ==
  LET cleared == [e EXCEPT !.values[n] = Unset] IN
  CASE n = "toolchain" ->
         [cleared EXCEPT !.values[n] = ProfileOf(DisplayChip(e.values)).toolchain,
                         !.derived = @ \cup {n}]
    [] n = "target" -> [cleared EXCEPT !.derived = @ \cup {n}]
    [] n = "chip" -> ApplyChipProfile(cleared, DisplayChip(cleared.values))
    [] OTHER -> cleared

DeclaredDefault(e, n) ==
  LET chip == DisplayChip(e.values)
      own == CASE n = "toolchain" -> ProfileOf(chip).toolchain
               [] n = "target" /\ TargetsApply(chip, ShownToolchain(e.values)) -> Profile[chip].target
               [] OTHER -> Unset IN
  Or(own, Declared[n])

(* The keys go to another choice, the list takes any, and a text that is   *)
(* what was shown is not stored.                                           *)
CycleOption ==
  /\ InMain
  /\ \E n \in {"chip", "toolchain"} : \E v \in ValuesOf(n) \ {EffectiveGlobalValue(ed.values, n)} :
       Edited(Wants(SetGlobal(ed, n, v), n, v))

PickOption ==
  /\ InMain
  /\ \E n \in {"chip", "toolchain"} : \E v \in ValuesOf(n) :
       Edited(Wants(SetGlobal(ed, n, v), n, v))

TypeOption ==
  /\ InMain
  /\ \E v \in ValuesOf("target") \ {EffectiveGlobalValue(ed.values, "target")} :
       Edited(Wants(SetGlobal(ed, "target", v), "target", v))

(* "r": back to what it was when the editor was opened.                    *)
ResetToOpened ==
  /\ InMain
  /\ \E n \in Globals :
       Edited(Wants(
         IF (n \in Derivable /\ n \in ed.origDerived) \/ ed.orig[n] = Unset
         THEN ClearGlobalValue(ed, n) ELSE SetGlobal(ed, n, ed.orig[n]),
         n, file.global[n]))

(* "R": to the default, which counts as derived.                           *)
ResetOptionToDefault ==
  /\ InMain
  /\ \E n \in Globals :
       LET default == DeclaredDefault(ed, n)
           set == SetGlobal(ed, n, default) IN
       Edited(Wants(
         IF default = Unset THEN ClearGlobalValue(ed, n)
         ELSE [set EXCEPT !.derived = IF n \in Derivable THEN @ \cup {n} ELSE @],
         n, Unset))

ChangeOther ==
  /\ InMain /\ Edited([ed EXCEPT !.opt = 1 - @])

(* Mutant: a preset that is picked is not counted as a change.             *)
SelectPresetUncounted ==
  /\ InMain
  /\ \E p \in Presets :
       ed' = [ed EXCEPT !.preset = IF p = Or(file.preset, DefaultPreset) THEN Unset ELSE p]
  /\ UNCHANGED <<file, dotConfig, intended, sessions>>

SelectPreset ==
  /\ InMain
  /\ \E p \in Presets :
       Edited([ed EXCEPT !.preset = IF p = Or(file.preset, DefaultPreset) THEN Unset ELSE p])

-----------------------------------------------------------------------------
(* Menuconfig: keys are ignored until it is done.  The preset that is made *)
(* first is the saved one; a run that fails may have written the file.     *)

StartMenuconfig ==
  /\ InMain /\ ed' = [ed EXCEPT !.pc = "ensure"]
  /\ UNCHANGED <<file, dotConfig, intended, sessions>>

EnsureConfig ==
  /\ ed.pc = "ensure"
  /\ \/ /\ dotConfig' = IF dotConfig = NoKConfig THEN Generated(Or(file.preset, DefaultPreset))
                        ELSE dotConfig
        /\ ed' = [ed EXCEPT !.pc = "menuconfig"]
     \/ /\ dotConfig = NoKConfig
        /\ dotConfig' \in {NoKConfig, Generated(Or(file.preset, DefaultPreset))}
        /\ ed' = [ed EXCEPT !.pc = "main", !.changed = TRUE]
  /\ UNCHANGED <<file, intended, sessions>>

RunMenuconfig ==
  /\ ed.pc = "menuconfig"
  /\ \/ dotConfig.edits = 0 /\ dotConfig' = [dotConfig EXCEPT !.edits = 1]
     \/ UNCHANGED dotConfig
  /\ \E ok \in BOOLEAN :
       ed' = [ed EXCEPT !.pc = "main", !.changed = TRUE, !.ran = @ \/ ok]
  /\ UNCHANGED <<file, intended, sessions>>

-----------------------------------------------------------------------------
(* Leaving.                                                                *)

(* saveConfigResult: keys that the editor no longer has keep the value they*)
(* had in the file, except the targets.                                    *)
Saved ==
  LET value(n) ==
        IF n = "toolchain" THEN IF n \in ed.derived THEN Unset ELSE ed.values[n]
        ELSE IF n \in ed.derived THEN Unset
        ELSE IF n = "target" THEN ed.values[n] ELSE Or(ed.values[n], file.global[n])
      kconfig == IF ed.ran THEN dotConfig
                 ELSE IF ed.preset # Unset THEN NoKConfig ELSE file.kconfig IN
  [global |-> [n \in Globals |-> value(n)], opt |-> ed.opt,
   entry |-> TRUE, preset |-> Or(ed.preset, file.preset), kconfig |-> kconfig]

Save ==
  /\ file' = Saved /\ ed' = Closed
  /\ intended' = ed.wants
  /\ UNCHANGED <<dotConfig, sessions>>

Discard == ed' = Closed /\ UNCHANGED <<file, dotConfig, intended, sessions>>

SaveKey == InMain /\ Save
QuitUnasked == InMain /\ ~ed.changed /\ Discard
AskToSave ==
  /\ InMain /\ ed.changed /\ ed' = [ed EXCEPT !.pc = "confirm"]
  /\ UNCHANGED <<file, dotConfig, intended, sessions>>
Cancel ==
  /\ ed.pc = "confirm" /\ ed' = [ed EXCEPT !.pc = "main"]
  /\ UNCHANGED <<file, dotConfig, intended, sessions>>
ConfirmSave == ed.pc = "confirm" /\ Save
ConfirmDiscard == ed.pc = "confirm" /\ Discard

-----------------------------------------------------------------------------
(* "config --set" checks and sets one flag after the other, and saves only *)
(* when all of them are right.                                             *)
SetFlags ==
  /\ ed = Closed /\ sessions < MaxSessions /\ sessions' = sessions + 1
  /\ \E names \in (SUBSET Globals) \ {{}} :
       \E values \in [names -> UNION {ValuesOf(n) : n \in names}] :
         /\ \A n \in names : values[n] \in ValuesOf(n) /\ (n = "toolchain" => values[n] # Unset)
         /\ file' = [file EXCEPT !.global =
                       [n \in Globals |-> IF n \in names THEN values[n] ELSE @[n]]]
  /\ intended' = NoSave
  /\ UNCHANGED <<dotConfig, ed>>

(* A build restores the .config that was saved; without one, an entry for  *)
(* the package means that it is made anew from the preset.                 *)
ConfiguredBuild ==
  /\ ed = Closed
  /\ dotConfig' = IF file.kconfig # NoKConfig THEN file.kconfig
                  ELSE IF file.entry \/ dotConfig = NoKConfig
                       THEN Generated(Or(file.preset, DefaultPreset))
                  ELSE dotConfig
  /\ UNCHANGED <<file, ed, intended, sessions>>

EditorNext ==
  \/ Open \/ CycleOption \/ PickOption \/ TypeOption \/ ResetToOpened \/ ResetOptionToDefault \/ ChangeOther
  \/ SelectPreset \/ StartMenuconfig \/ EnsureConfig \/ RunMenuconfig
  \/ SaveKey \/ QuitUnasked \/ AskToSave \/ Cancel \/ ConfirmSave \/ ConfirmDiscard
  \/ SetFlags \/ ConfiguredBuild

EditorSpec == EditorInit /\ [][EditorNext]_editorVars

-----------------------------------------------------------------------------
(* What the user has chosen, in this session or before, is what is saved   *)
(* and what every build that succeeds resolves, whatever chip it needs;    *)
(* what was derived from a chip, and not chosen, is not written.           *)
ExplicitIsBuilt ==
  \A n \in DOMAIN intended :
    /\ file.global[n] = intended[n]
    /\ intended[n] # Unset =>
         \A chip \in Chips \cup {Unset} : ResolvesTo(file, chip) =>
           intended[n] = IF n = "toolchain" THEN BuildToolchain(file, chip)
                       ELSE BuildTarget(file, chip)

(* The editor is never left without a question while it shows anything     *)
(* that differs from what it showed when it was opened.                    *)
AskedBeforeLosing ==
  [][(ed # Closed /\ InMain /\ ed' = Closed /\ intended' = NoSave) => ~CheckChanges(ed)]_ed

(* "After menuconfig: the .config of the sources goes to config.json":     *)
(* a run of menuconfig that is done is not dropped without a question.     *)
MenuconfigIsKept ==
  [][(ed # Closed /\ InMain /\ ed' = Closed /\ ed.ran) =>
       file'.kconfig = dotConfig]_ed
=============================================================================
