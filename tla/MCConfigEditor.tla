---------------------------- MODULE MCConfigEditor ----------------------------
(* Two chips: one that prefers a toolchain, one that takes any; a toolchain *)
(* that declares a target and one that does not.                            *)
EXTENDS ConfigEditor

MCChips == {"c1", "c2"}
MCToolchains == {"host", "a", "b"}
MCTargets == {"ta", "tb"}
MCProfile ==
  [c \in MCChips |-> IF c = "c1" THEN [toolchain |-> "a", target |-> "ta"]
                     ELSE [toolchain |-> Unset, target |-> "tb"]]
MCToolchainTarget == [t \in MCToolchains |-> IF t = "b" THEN "tb" ELSE Unset]
MCDeclared == [n \in Globals |-> CASE n = "chip" -> "c1" [] n = "toolchain" -> "a" [] OTHER -> Unset]

=============================================================================
