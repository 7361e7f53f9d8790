-------------------------------- MODULE MCRun --------------------------------
(* What must end: the build of a target with its pool of compilers, and    *)
(* the run of one command.  The two share no state; a behaviour is one of  *)
(* one part, while the target, or a dry run that has returned, is the      *)
(* state of the other.                                                     *)
EXTENDS MCTargetBuild, CommandRunner

CONSTANT c1

VARIABLE part

MCArguments ==
  {Plain, [options |-> <<"jobs", "all">>, rest |-> <<>>], [options |-> <<"all">>, rest |-> <<"--", "jobs">>]}

NoTargetBuild == Init /\ content = [f \in Files |-> v1] /\ command = c1
NoCall ==
  /\ call = [by |-> Of("script", "background", FALSE, FALSE, TRUE),
             pass |-> Plain, jobsInEnv |-> FALSE, found |-> TRUE, dryRun |-> TRUE]
  /\ context = "live" /\ pc = "returned" /\ args = Plain /\ program = "none" /\ child = NoChild
  /\ output = NoOutput /\ watch = "none" /\ progress = "none" /\ result = "none"

RunInit ==
  \/ part = "target" /\ Init /\ NoCall
  \/ part = "command" /\ CallInit /\ NoTargetBuild

RunNext ==
  /\ UNCHANGED part
  /\ \/ part = "target" /\ Next /\ UNCHANGED callVars
     \/ part = "command" /\ CallNext /\ UNCHANGED vars

(* The fairness is that of TargetBuild!FairSpec and CommandRunner!Fairness. *)
RunSpec ==
  /\ RunInit /\ [][RunNext]_<<part, vars, callVars>>
  /\ WF_vars(FeederStep) /\ (\A w \in Workers : WF_vars(WorkerStep(w))) /\ WF_vars(FinalizeStep)
  /\ Fairness

(* TargetBuild: a build ends.  CommandRunner: a call of a command returns. *)
RunsEnd == BuildEnds /\ CallEnds
=============================================================================
