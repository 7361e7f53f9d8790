------------------------------ MODULE MCProject ------------------------------
(* What commands keep in a project, and make of it when they start: the     *)
(* lock file, the configuration as the editor changes it, the screen of the *)
(* editor, the registered toolchains, the choice of versions and the sort   *)
(* of the packages.  These share no state; a behaviour is one of one part.  *)
EXTENDS TopoSort, VersionChoice, MCDependencyLock, EditorScreen, ToolchainRegistry, MCConfigEditor

CONSTANTS n1, n2, n3

VARIABLE part

NamesInOrder == (n1 :> 1) @@ (n2 :> 2) @@ (n3 :> 3)

(* The screen: two roots share a package, whose first option is shown by   *)
(* the second; one has a menuconfig, one package is remote.                *)
TwoRoots == <<"a", "d", "b">>
BothOnB == [p \in {"a", "b", "d"} |-> IF p = "b" THEN <<>> ELSE <<"b">>]
OneRemote == {<<"r">>}
OneName == [x \in {"r"} |-> 1]
Forest == INSTANCE EditorTree WITH
  Locals <- TwoRoots, DepsOf <- BothOnB, Remotes <- OneRemote, NameRank <- OneName
ScreenTree == Forest!DepTree
OptionsOfB ==
  [p \in {Global, <<"a">>, <<"b">>, <<"d">>, <<"r">>} |->
     CASE p = Global -> <<[type |-> "choice", shownIf |-> 0]>>
       [] p = <<"b">> -> <<[type |-> "text", shownIf |-> 2], [type |-> "bool", shownIf |-> 0]>>
       [] OTHER -> <<>>]
KConfigOfD == {<<"d">>}
NamedByQuery == [q \in {"q1", "q2"} |-> IF q = "q1" THEN {<<"d">>} ELSE {<<"b">>, <<"r">>}]
HitByQuery == [q \in {"q1", "q2"} |-> IF q = "q1" THEN {} ELSE {<<<<"b">>, 1>>, <<Global, 1>>}]

(* Versions: two equal ones, pre-releases of 1.2 and 2.0, and a text that  *)
(* is none; constraints of every kind.                                     *)
Number(i) == [word |-> FALSE, value |-> i]
Word2(i) == [word |-> TRUE, value |-> i]
Text(nums, pre) == [nums |-> nums, pre |-> pre]
Asking(op, nums, pre) == [op |-> op, nums |-> nums, pre |-> pre]
VersionsWritten ==
  {Text(<<>>, <<>>), Text(<<1>>, <<>>), Text(<<1, 0, 0>>, <<>>), Text(<<1, 2>>, <<>>),
   Text(<<1, 2, 0>>, <<Word2(2), Number(1)>>), Text(<<1, 2, 0>>, <<Word2(2), Number(2)>>),
   Text(<<1, 2>>, <<Number(3)>>), Text(<<2>>, <<>>), Text(<<2>>, <<Word2(1)>>)}
VersionsAsked ==
  {Asking("none", <<0, 1>>, <<Number(3)>>), Asking("none", <<1>>, <<>>), Asking(">", <<1>>, <<>>),
   Asking("<", <<2>>, <<>>), Asking("~", <<1, 2>>, <<Number(3)>>), Asking(">=", <<>>, <<>>),
   Asking("<=", <<1, 2>>, <<Word2(2), Number(1)>>), Asking("=", <<1, 2, 0>>, <<>>)}

ASSUME LockAssumption

NoLock ==
  /\ tags = 0 /\ head = 0 /\ script = 0 /\ lock = 0 /\ pins = 0 /\ links = 0 /\ tree = 0
  /\ holder = Free /\ pc = 0 /\ cmd = 0 /\ node = 0 /\ got = 0 /\ synced = 0 /\ commands = 0
  /\ changes = 0
NoSort == listed = 0 /\ inDegree = 0 /\ queue = 0 /\ sorted = <<>> /\ sortDone = FALSE
NoEditor == file = 0 /\ dotConfig = 0 /\ ed = Closed /\ intended = NoSave /\ sessions = 0
NoVersions ==
  /\ source = 0 /\ published = 0 /\ left = 0 /\ required = 0 /\ chosen = 0 /\ choice = "none"
  /\ wanted = 0 /\ before = NoResolution
NoRegistry == RegistryInit /\ definition = [path \in Paths |-> [name |-> "n1", kind |-> "unreadable"]]
NoScreen ==
  ui = [filtering |-> FALSE] /\ on = {} /\ open = {} /\ overlay = "none" /\ choiceOpt = 0 /\ did = NoEffect

ProjectInit ==
  \/ part = "lock" /\ Init /\ NoSort /\ NoEditor /\ NoRegistry /\ NoScreen /\ NoVersions
  \/ part = "sort" /\ SortInit /\ NoLock /\ NoEditor /\ NoRegistry /\ NoScreen /\ NoVersions
  \/ /\ part = "editor" /\ EditorInit
     /\ NoLock /\ NoSort /\ NoRegistry /\ NoScreen /\ NoVersions
  \/ /\ part = "registry" /\ RegistryInit
     /\ NoLock /\ NoSort /\ NoEditor /\ NoScreen /\ NoVersions
  \/ part = "screen" /\ ScreenInit /\ NoLock /\ NoSort /\ NoEditor /\ NoRegistry /\ NoVersions
  \/ /\ part = "versions" /\ ChoiceInit
     /\ NoLock /\ NoSort /\ NoEditor /\ NoRegistry /\ NoScreen

ProjectNext ==
  /\ UNCHANGED part
  /\ \/ /\ part = "lock" /\ Next
        /\ UNCHANGED <<sortVars, editorVars, registryVars, screenVars, choiceVars>>
     \/ /\ part = "sort" /\ SortNext
        /\ UNCHANGED <<vars, editorVars, registryVars, screenVars, choiceVars>>
     \/ /\ part = "editor" /\ EditorNext
        /\ UNCHANGED <<vars, sortVars, registryVars, screenVars, choiceVars>>
     \/ /\ part = "registry" /\ RegistryNext
        /\ UNCHANGED <<vars, sortVars, editorVars, screenVars, choiceVars>>
     \/ /\ part = "screen" /\ ScreenNext
        /\ UNCHANGED <<vars, sortVars, editorVars, registryVars, choiceVars>>
     \/ /\ part = "versions" /\ ChoiceNext
        /\ UNCHANGED <<vars, sortVars, editorVars, registryVars, screenVars>>

ProjectSpec ==
  ProjectInit /\ [][ProjectNext]_<<part, vars, sortVars, editorVars, registryVars, screenVars, choiceVars>>

=============================================================================
