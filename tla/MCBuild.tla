------------------------------- MODULE MCBuild -------------------------------
(* What builds leave for the next: one target compiled and linked, and the *)
(* files that are generated for the targets.  These share no state; a      *)
(* behaviour is one of one part, while the rest stays as it was.           *)
EXTENDS MCTargetBuild, GeneratedFiles

CONSTANT c1

VARIABLE part

(* The library is reached through another package; the test is of the      *)
(* package of the application, and the application imports the library.    *)
MCOrder == <<"lib", "mid", "app", "test">>
MCPackage == [t \in {"lib", "mid", "app", "test"} |-> IF t = "test" THEN "app" ELSE t]
MCDeps == [t \in {"lib", "mid", "app", "test"} |->
             CASE t = "mid" -> <<"lib">> [] t = "app" -> <<"mid">> [] OTHER -> <<>>]
MCImports == [p \in {"lib", "mid", "app"} |-> IF p = "app" THEN {"lib"} ELSE {}]

NoTargetBuild == Init /\ content = [f \in Files |-> v1] /\ command = c1
NoGenerated == user = 0 /\ onDisk = 0 /\ build = NoBuild /\ commands = 0

BuildInit ==
  \/ part = "target" /\ Init /\ NoGenerated
  \/ part = "generated" /\ GeneratedInit /\ NoTargetBuild

BuildNext ==
  /\ UNCHANGED part
  /\ \/ part = "target" /\ Next /\ UNCHANGED generatedVars
     \/ part = "generated" /\ GeneratedNext /\ UNCHANGED vars

BuildSpec == BuildInit /\ [][BuildNext]_<<part, vars, generatedVars>>

(* The properties are those of TargetBuild and GeneratedFiles.             *)
=============================================================================
