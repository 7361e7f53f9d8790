------------------------------ MODULE MCCommand ------------------------------
(* What a command makes of a build: the report and the installation, the   *)
(* targets of another build system, and the option values that all scripts *)
(* read.  These share no state; a behaviour is one of one part, and the    *)
(* properties are those of the modules.                                    *)
EXTENDS BuildReport, ExternalTarget, OptionValues, TLC

VARIABLE part

(* A library that only "--install-type sdk" installs, a file that its      *)
(* package installs elsewhere, and a test.                                 *)
MCOrder == <<"lib", "doc", "check">>
MCKind == [lib |-> "static", doc |-> "extra", check |-> "test"]

(* The application requires a remote package for one of the two values.    *)
MCRequires == [p \in {"app", "tool", "ext"} |-> IF p = "app" THEN {<<"ext", "release">>} ELSE {}]
MCImports == [p \in {"app", "tool", "ext"} |-> IF p = "app" THEN {"ext"} ELSE {}]

reportVars == vars

(* The part that is not the option's has the option at one fixed state, of *)
(* which nothing is claimed before "built".                                *)
NoOption ==
  /\ decl = 0 /\ entry = 0 /\ configured = 0 /\ builtin = FALSE /\ flag = 0 /\ root = 0
  /\ phase = "none" /\ applied = 0 /\ required = 0 /\ needed = {} /\ macro = 0 /\ built = 0
  /\ header = 0

CommandInit ==
  /\ Init /\ ExternalInit
  /\ \/ part \in {"report", "external"} /\ NoOption
     \/ part = "option" /\ OptionsInit

CommandNext ==
  /\ UNCHANGED part
  /\ \/ part = "report" /\ Next /\ UNCHANGED <<externalVars, optionVars>>
     \/ part = "external" /\ ExternalNext /\ UNCHANGED <<reportVars, optionVars>>
     \/ part = "option" /\ OptionsNext /\ UNCHANGED <<reportVars, externalVars>>

CommandSpec == CommandInit /\ [][CommandNext]_<<part, reportVars, externalVars, optionVars>>
=============================================================================
