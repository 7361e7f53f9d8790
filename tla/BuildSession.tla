---------------------------- MODULE BuildSession ----------------------------
(***************************************************************************)
(* One build: the packages are declared by their scripts, scripts may      *)
(* build a package they need at once (BuildSubGraph), and then all targets *)
(* are built (pkg/pipeline/stage_declare.go, session.go; pkg/build/job.go, *)
(* scheduler.go, session.go).                                              *)
(*                                                                         *)
(* All of it runs on one goroutine and calls itself: declaring a package   *)
(* runs its script, the script asks for a subgraph, that declares and      *)
(* builds packages, and a target's callback may ask again.  "stack" is the *)
(* call stack and "ret" what the call that just returned gave back.        *)
(* Packages are the packages the build needs; asking for another one is    *)
(* an error like any other a script can make.                              *)
(***************************************************************************)
EXTENDS BuildGraph, SequencesExt

CONSTANTS
  NonDefault,   \* targets that are not default, or tests in a build without
  Toolchains,
  Own,          \* [Packages -> Toolchains \cup {Inherit}]: config of a package
  Inherit, Global, MainScope, Unbound, NoTarget,
  MaxCalls      \* bound: calls of BuildSubGraph

(* Resolver.GetOrder, which fails on a cycle before anything is declared.  *)
PackageOrder == TopologicalOrder(Packages, PkgDeps, Rank)

ASSUME SessionAssumption ==
  /\ Len(PackageOrder) = Cardinality(Packages)
  /\ NonDefault \subseteq Targets /\ NoTarget \notin Targets
  /\ Global \in Toolchains /\ Inherit \notin Toolchains
  /\ MainScope \notin Toolchains /\ Unbound \notin Toolchains
  /\ Own \in [Packages -> Toolchains \cup {Inherit}]
  /\ MaxCalls \in Nat

VARIABLES
  keepGoing,
  cancelled,    \* the context of the command is done
  stack, ret,
  decl,         \* declareStage.declarations: 0, 1, 2, 3
  bindings,     \* declareStage.bindings: the toolchain of a package
  scope,        \* declareStage.scopeValues
  requests,     \* declareStage.subGraphRequests
  built,        \* declareStage.subGraphBuilt: a set
  subErr,       \* declareStage.subGraphErrors
  memo,         \* Session.results
  active,       \* Session.active
  runs,         \* history: how often a target was executed
  outcome,
  calls

declaration == <<decl, bindings, scope, requests, built, subErr>>
session == <<memo, active, runs>>
vars == <<keepGoing, cancelled, stack, ret, declaration, session, outcome, calls>>

-----------------------------------------------------------------------------
Top == Last(stack)
At(place) == stack # <<>> /\ Top.at = place
Called(place) == At(place) /\ ret = "none"
Returned(place) == At(place) /\ ret # "none"

Stay(frame) == stack' = Append(Front(stack), frame) /\ ret' = "none"
Call(frame, callee) == stack' = Front(stack) \o <<frame, callee>> /\ ret' = "none"
Return(value) ==
  /\ stack' = Front(stack) /\ ret' = value
  /\ outcome' = IF Len(stack) = 1 THEN value ELSE outcome

PackageLoop(filter) == [at |-> "loop", filter |-> filter, next |-> 1]
TargetLoop(P) ==
  [at |-> "build", order |-> TargetOrder[P], next |-> 1, failed |-> {}, errs |-> FALSE]

(* NewBuildGraph of the packages P finds every dependency and no cycle. *)
GraphIsSound(P) ==
  /\ \A t \in TargetsOf(P) : NodeDeps(t) \subseteq TargetsOf(P)
  /\ Len(TargetOrder[P]) = Cardinality(TargetsOf(P))

Declared == {p \in Packages : decl[p] = "declared"}

(* packageBindingValues: a package's own toolchain, or that of the scope *)
Base == IF scope = MainScope THEN Global ELSE scope
ValueIn(p, tc) == IF Own[p] = Inherit THEN tc ELSE Own[p]

Init ==
  /\ keepGoing \in BOOLEAN /\ cancelled = FALSE
  /\ stack = <<[at |-> "plan"], PackageLoop(Packages)>> /\ ret = "none"
  /\ decl = [p \in Packages |-> "no"]
  /\ bindings = [p \in Packages |-> Unbound]
  /\ scope = MainScope
  /\ requests = [p \in Packages |-> Unbound]
  /\ built = {}
  /\ subErr = [p \in Packages |-> "none"]
  /\ memo = [t \in Targets |-> "none"]
  /\ active = NoTarget
  /\ runs = [t \in Targets |-> 0]
  /\ outcome = "none" /\ calls = 0

Cancel ==
  /\ ~cancelled /\ outcome = "none"
  /\ cancelled' = TRUE
  /\ UNCHANGED <<keepGoing, stack, ret, declaration, session, outcome, calls>>

-----------------------------------------------------------------------------
(* executeMainPackages *)

LoopPackage == PackageOrder[Top.next]
LoopOn == Stay([Top EXCEPT !.next = @ + 1])

EndLoop ==
  /\ Called("loop")
  /\ IF Top.next > Len(PackageOrder) THEN Return("ok")
     ELSE cancelled /\ Return("err")
  /\ UNCHANGED <<keepGoing, cancelled, declaration, session, calls>>

SkipPackage ==
  /\ Called("loop") /\ ~cancelled /\ Top.next <= Len(PackageOrder)
  /\ LoopPackage \notin Top.filter
  /\ LoopOn
  /\ UNCHANGED <<keepGoing, cancelled, declaration, session, outcome, calls>>

(* In a subgraph a declared package is bound again: it has to agree.       *)
RevisitPackage ==
  /\ Called("loop") /\ ~cancelled /\ Top.next <= Len(PackageOrder)
  /\ LoopPackage \in Top.filter /\ decl[LoopPackage] # "no"
  /\ IF decl[LoopPackage] = "declared"
        /\ (scope = MainScope \/ bindings[LoopPackage] = ValueIn(LoopPackage, scope))
     THEN LoopOn /\ UNCHANGED outcome
     ELSE Return("err")
  /\ UNCHANGED <<keepGoing, cancelled, declaration, session, calls>>

(* Mutant: a package is bound to the toolchain of the main graph. *)
DeclarePackageGlobally ==
  /\ Called("loop") /\ ~cancelled /\ Top.next <= Len(PackageOrder)
  /\ LoopPackage \in Top.filter /\ decl[LoopPackage] = "no"
  /\ decl' = [decl EXCEPT ![LoopPackage] = "running"]
  /\ bindings' = [bindings EXCEPT ![LoopPackage] = ValueIn(LoopPackage, Global)]
  /\ Call(Top, [at |-> "script", pkg |-> LoopPackage])
  /\ UNCHANGED <<keepGoing, cancelled, scope, requests, built, subErr, session, outcome, calls>>

(* executeOnePackage up to the script *)
DeclarePackage ==
  /\ Called("loop") /\ ~cancelled /\ Top.next <= Len(PackageOrder)
  /\ LoopPackage \in Top.filter /\ decl[LoopPackage] = "no"
  /\ decl' = [decl EXCEPT ![LoopPackage] = "running"]
  /\ bindings' = [bindings EXCEPT ![LoopPackage] = ValueIn(LoopPackage, Base)]
  /\ Call(Top, [at |-> "script", pkg |-> LoopPackage])
  /\ UNCHANGED <<keepGoing, cancelled, scope, requests, built, subErr, session, outcome, calls>>

AfterPackage ==
  /\ Returned("loop")
  /\ IF ret = "ok" THEN LoopOn /\ UNCHANGED outcome ELSE Return("err")
  /\ UNCHANGED <<keepGoing, cancelled, declaration, session, calls>>

-----------------------------------------------------------------------------
(* A script *)

(* It returns, or panics: on its own, or because a call failed. *)
ScriptEnds(result) ==
  /\ At("script")
  /\ decl' = [decl EXCEPT ![Top.pkg] = IF result = "ok" THEN "declared" ELSE "failed"]
  /\ Return(result)
  /\ UNCHANGED <<keepGoing, cancelled, bindings, scope, requests, built, subErr, session, calls>>

(* The values a subgraph of root is built with: a new scope *)
SubScope(root) == ValueIn(root, Base)

(* buildSubGraph: a target runs, the subgraph waits for itself, or it      *)
(* wants a package that is bound to something else.                        *)
Refused(root) ==
  \/ active # NoTarget
  \/ root \in built /\ subErr[root] = "none"
  \/ \E p \in SubGraphPackages(root, Declared) :
       bindings[p] # Unbound /\ bindings[p] # ValueIn(p, SubScope(root))
  \/ requests[root] # Unbound /\ requests[root] # SubScope(root)

(* A script or a target's callback calls BuildSubGraph. *)
CallSubGraph(root) ==
  /\ At("script") \/ At("target")
  /\ calls < MaxCalls /\ calls' = calls + 1
  /\ IF Refused(root)
     THEN /\ ret' = "err"
          /\ UNCHANGED <<stack, scope, requests, built>>
     ELSE IF subErr[root] # "none"
     THEN /\ ret' = subErr[root]
          /\ UNCHANGED <<stack, scope, requests, built>>
     ELSE LET pkgs == SubGraphPackages(root, Declared) IN
          /\ requests' = [requests EXCEPT ![root] = SubScope(root)]
          /\ built' = built \cup {root}
          /\ scope' = SubScope(root)
          /\ stack' = stack \o <<[at |-> "sub", root |-> root, pkgs |-> pkgs, prev |-> scope],
                                 PackageLoop(pkgs)>>
          /\ ret' = "none"
  /\ UNCHANGED <<keepGoing, cancelled, decl, bindings, subErr, session, outcome>>

(* The subgraph's packages are declared; their targets may need more.      *)
ExpandSubGraph ==
  /\ Returned("sub") /\ Top.pkgs # {} /\ ret = "ok"
  /\ LET pkgs == SubGraphPackages(Top.root, Declared) IN
       IF pkgs # Top.pkgs
       THEN Call([Top EXCEPT !.pkgs = pkgs], PackageLoop(pkgs))
       ELSE IF GraphIsSound(pkgs)
       THEN Call([Top EXCEPT !.pkgs = {}], TargetLoop(pkgs))
       ELSE stack' = Append(Front(stack), [Top EXCEPT !.pkgs = {}]) /\ ret' = "err"
  /\ UNCHANGED <<keepGoing, cancelled, declaration, session, outcome, calls>>

(* It is built, or something failed (pkgs is {} once it is being built).   *)
EndSubGraph ==
  /\ Returned("sub") /\ (ret = "err" \/ Top.pkgs = {})
  /\ subErr' = [subErr EXCEPT ![Top.root] = ret]
  /\ scope' = Top.prev
  /\ Return(ret)
  /\ UNCHANGED <<keepGoing, cancelled, decl, bindings, requests, built, session, calls>>

-----------------------------------------------------------------------------
(* planBuild, BuildAll, Session.Execute *)

PlanBuild ==
  /\ Returned("plan")
  /\ IF ret = "ok" /\ GraphIsSound(Declared)
     THEN Stay(TargetLoop(Declared)) /\ UNCHANGED outcome
     ELSE Return("err")
  /\ UNCHANGED <<keepGoing, cancelled, declaration, session, calls>>

LoopTarget == Top.order[Top.next]

(* Mutant: dependents of a failed target are built. *)
NoDepFailed(frame, t) == FALSE
DepsFailed(frame, t) == NodeDeps(t) \cap frame.failed # {}

EndBuildAll ==
  /\ Called("build")
  /\ IF Top.next > Len(Top.order) THEN Return(IF Top.errs THEN "err" ELSE "ok")
     ELSE cancelled /\ LoopTarget \notin NonDefault /\ Return("err")
  /\ UNCHANGED <<keepGoing, cancelled, declaration, session, calls>>

SkipTarget ==
  /\ Called("build") /\ Top.next <= Len(Top.order)
  /\ \/ /\ LoopTarget \in NonDefault
        /\ Stay([Top EXCEPT !.next = @ + 1])
     \/ /\ LoopTarget \notin NonDefault /\ ~cancelled
        /\ DepsFailed(Top, LoopTarget)
        /\ Stay([Top EXCEPT !.next = @ + 1, !.failed = @ \cup {LoopTarget}])
  /\ UNCHANGED <<keepGoing, cancelled, declaration, session, outcome, calls>>

(* Mutants: keep-going is ignored; the loop does not advance after a       *)
(* failure.                                                                *)
CountStopping(result) ==
  IF result = "err"
  THEN Return("err")
  ELSE Stay([Top EXCEPT !.next = @ + 1]) /\ UNCHANGED outcome
CountInPlace(result) ==
  IF result = "err" /\ (~keepGoing \/ cancelled)
  THEN Return("err")
  ELSE /\ Stay(IF result = "err" THEN [Top EXCEPT !.errs = TRUE] ELSE [Top EXCEPT !.next = @ + 1])
       /\ UNCHANGED outcome

(* What BuildAll does with the result of a target *)
Count(result) ==
  LET t == LoopTarget
      on == [Top EXCEPT !.next = @ + 1,
                        !.failed = IF result = "err" THEN @ \cup {t} ELSE @,
                        !.errs = @ \/ result = "err"]
  IN IF result = "err" /\ (~keepGoing \/ cancelled)
     THEN Return("err")
     ELSE Stay(on) /\ UNCHANGED outcome

CanBuild ==
  /\ Called("build") /\ Top.next <= Len(Top.order) /\ ~cancelled
  /\ LoopTarget \notin NonDefault /\ ~DepsFailed(Top, LoopTarget)

(* Mutant: results are not remembered. *)
RememberedNothing(t) == FALSE
Remembered(t) == memo[t] # "none"

(* Mutant: a remembered failure counts as done. *)
RecallTargetAsDone ==
  /\ CanBuild /\ (active # NoTarget \/ Remembered(LoopTarget))
  /\ Count(IF active = NoTarget THEN "ok" ELSE "err")
  /\ UNCHANGED <<keepGoing, cancelled, declaration, session, calls>>

(* Execute refuses, or remembers. *)
RecallTarget ==
  /\ CanBuild /\ (active # NoTarget \/ Remembered(LoopTarget))
  /\ Count(IF active = NoTarget /\ memo[LoopTarget] = "ok" THEN "ok" ELSE "err")
  /\ UNCHANGED <<keepGoing, cancelled, declaration, session, calls>>

ExecuteTarget ==
  /\ CanBuild /\ active = NoTarget /\ ~Remembered(LoopTarget)
  /\ memo' = [memo EXCEPT ![LoopTarget] = "running"]
  /\ active' = LoopTarget
  /\ runs' = [runs EXCEPT ![LoopTarget] = @ + 1]
  /\ Call(Top, [at |-> "target", target |-> LoopTarget])
  /\ UNCHANGED <<keepGoing, cancelled, declaration, outcome, calls>>

(* The target is built or fails; a cancelled context decides.              *)
TargetEnds(result) ==
  /\ At("target")
  /\ LET value == IF cancelled THEN "err" ELSE result IN
       /\ memo' = [memo EXCEPT ![Top.target] = value]
       /\ Return(value)
  /\ active' = NoTarget
  /\ UNCHANGED <<keepGoing, cancelled, declaration, runs, calls>>

AfterTarget ==
  /\ Returned("build")
  /\ Count(ret)
  /\ UNCHANGED <<keepGoing, cancelled, declaration, session, calls>>

Rest == stack = <<>> /\ UNCHANGED vars

-----------------------------------------------------------------------------
DeclareStep ==
  \/ EndLoop \/ SkipPackage \/ RevisitPackage \/ DeclarePackage \/ AfterPackage
  \/ ExpandSubGraph \/ EndSubGraph

ScriptStep ==
  \/ \E result \in {"ok", "err"} : ScriptEnds(result) \/ TargetEnds(result)
  \/ \E root \in Packages : CallSubGraph(root)

BuildStep ==
  \/ PlanBuild \/ EndBuildAll \/ SkipTarget \/ RecallTarget \/ ExecuteTarget \/ AfterTarget

Next == Cancel \/ DeclareStep \/ ScriptStep \/ BuildStep \/ Rest

Spec == Init /\ [][Next]_vars

(* The one goroutine goes on; scripts and tools come to an end.            *)
FairSpec == Spec /\ WF_vars(DeclareStep \/ ScriptStep \/ BuildStep)

-----------------------------------------------------------------------------
(* Properties *)

Frames ==
  [at : {"plan"}] \cup [at : {"script"}, pkg : Packages]
    \cup [at : {"target"}, target : Targets]
    \cup [at : {"loop"}, filter : SUBSET Packages, next : Nat]
    \cup [at : {"sub"}, root : Packages, pkgs : SUBSET Packages, prev : Toolchains \cup {MainScope}]
    \cup [at : {"build"}, order : Seq(Targets), next : Nat, failed : SUBSET Targets, errs : BOOLEAN]

(* Every variable holds a value of its kind. *)
TypeOK ==
  /\ keepGoing \in BOOLEAN /\ cancelled \in BOOLEAN
  /\ stack \in Seq(Frames) /\ ret \in {"none", "ok", "err"}
  /\ decl \in [Packages -> {"no", "running", "declared", "failed"}]
  /\ bindings \in [Packages -> Toolchains \cup {Unbound}]
  /\ scope \in Toolchains \cup {MainScope}
  /\ requests \in [Packages -> Toolchains \cup {Unbound}]
  /\ built \subseteq Packages
  /\ subErr \in [Packages -> {"none", "ok", "err"}]
  /\ memo \in [Targets -> {"none", "running", "ok", "err"}]
  /\ active \in Targets \cup {NoTarget}
  /\ runs \in [Targets -> Nat]
  /\ outcome \in {"none", "ok", "err"} /\ calls \in 0..MaxCalls

OnStack(place) == {stack[i] : i \in {j \in DOMAIN stack : stack[j].at = place}}

(* "The same target is executed once per session", in whichever subgraphs  *)
(* and in the main graph it appears, also when it fails; and never inside  *)
(* another one (Session.Execute).                                          *)
OncePerSession ==
  /\ \A t \in Targets : runs[t] <= 1
  /\ \A f, g \in OnStack("target") : f = g

(* A target runs when everything it depends on has been built with success *)
(* in this session, keep-going or not, in every graph it appears in; a     *)
(* script runs only when the scripts of all packages it requires have      *)
(* declared their targets, also when subgraphs pull packages forward.      *)
RunsOnBuiltDeps ==
  /\ \A f \in OnStack("target") : \A d \in NodeDeps(f.target) \ NonDefault : memo[d] = "ok"
  /\ \A p \in Packages : decl[p] \in {"running", "declared"} =>
       \A d \in PkgDeps[p] : decl[d] = "declared"

(* A subgraph that succeeded has built all it contains, with the           *)
(* configuration it was asked for.                                         *)
SubGraphsAreWhole ==
  \A root \in Packages : subErr[root] = "ok" =>
    LET pkgs == SubGraphPackages(root, Declared) IN
      /\ pkgs \subseteq Declared
      /\ \A t \in TargetsOf(pkgs) \ NonDefault : memo[t] = "ok"
      /\ \A p \in pkgs : bindings[p] = ValueIn(p, requests[root])

(* A build that succeeds has declared every package and built every        *)
(* default target: an error met in a subgraph cannot be lost, not even when*)
(* a script recovers from it.  With --keep-going, a build whose            *)
(* declarations succeeded and that is not cancelled leaves no default      *)
(* target out that has no failed dependency.                               *)
SuccessIsComplete ==
  /\ outcome = "ok" =>
       /\ Declared = Packages
       /\ \A t \in Targets \ NonDefault : memo[t] = "ok"
  /\ keepGoing /\ ~cancelled /\ outcome # "none" /\ Declared = Packages
       /\ GraphIsSound(Packages) =>
       \A t \in Targets \ NonDefault :
         memo[t] = "none" =>
           \E d \in Reachable({t}, [x \in Targets |-> NodeDeps(x) \ NonDefault]) : memo[d] = "err"

(* A build runs every script and every target once, a target when all it   *)
(* depends on is built in this session and its package is declared, and no *)
(* two of them at once, through all subgraphs that scripts ask for; and it *)
(* reports success only when all is there.                                 *)
Contract == INSTANCE BuildContract WITH
  package <- decl, target <- memo, Requires <- PkgDeps,
  DependsOn <- [t \in Targets |-> NodeDeps(t) \ NonDefault], Wanted <- Targets \ NonDefault
SessionKeepsContract == Contract!Spec

(* Every build ends, however the scripts call each other.                  *)
BuildEnds == <>(outcome # "none")

=============================================================================
