----------------------------- MODULE CommandRunner -----------------------------
(***************************************************************************)
(* One command that vmake runs (internal/exec/exec.go, cancel_unix.go):    *)
(* the tools of a build, git, and what build scripts ask for through       *)
(* pkg/api/package_runner.go and package_cmake.go.  The command may start  *)
(* a process of its own that outlives it, in its process group or not, and *)
(* that keeps the pipe of its output open or not.  The context may be      *)
(* cancelled, or its timeout pass, at any moment.                          *)
(*                                                                         *)
(* os/exec is external: a call with a context that can be done has a       *)
(* goroutine that watches it, and Wait hands over from that goroutine to   *)
(* the end of the output.                                                  *)
(***************************************************************************)
EXTENDS Integers, Sequences

CONSTANTS
  Arguments,  \* what a script may pass to make or cmake
  MaxWrites   \* bound: writes to the pipe

VARIABLES
  call,      \* what is called, and how
  context,   \* "live", or what ended it: "cancelled" or "expired"
  pc,        \* where RunWithOptions or RunWithEnvContext is
  args,      \* the arguments the command was started with
  program,   \* the process of the command
  child,     \* a process the command started
  output,    \* what went into the pipe, what came out, whether vmake closed it
  watch,     \* the goroutine that watches the context
  progress,  \* the goroutine that calls OnProgress
  result     \* "none" is success

callVars == <<call, context, pc, args, program, child, output, watch, progress, result>>
processes == <<program, child>>

(* An argument list is split where MakeArgs and CMakeBuildArgs split it:   *)
(* the options, and the rest from "--" on, which are not options.  "jobs"  *)
(* is any form of -j.                                                      *)
Words == {"all", "jobs", "--"}
ASSUME RunnerAssumption ==
  /\ MaxWrites \in Nat
  /\ Arguments \subseteq [options : Seq(Words \ {"--"}), rest : Seq(Words)]

(* Who calls: the scheduler its tools, git over the network, doctor its    *)
(* probe, the report "git describe", and a script commands of its own,     *)
(* make, and cmake.  The context of a script is that of the build only     *)
(* when one is bound to its package.  -q pipes what else is inherited.     *)
Of(who, ctx, timeout, ticks, pipe) ==
  [who |-> who, context |-> ctx, timeout |-> timeout, ticks |-> ticks, pipe |-> pipe]
ScriptContexts == {"build", "background"}
Callers ==
  {Of("tool", "build", FALSE, FALSE, TRUE), Of("git", "build", TRUE, FALSE, TRUE),
   Of("doctor", "none", TRUE, FALSE, TRUE), Of("report", "none", FALSE, FALSE, TRUE)}
  \cup [who : {"cmake"}, context : ScriptContexts, timeout : {FALSE}, ticks : {TRUE}, pipe : {TRUE}]
  \cup [who : {"script", "make"}, context : ScriptContexts, timeout : {FALSE}, ticks : {FALSE}, pipe : BOOLEAN]

Plain == [options |-> <<"all">>, rest |-> <<>>]
Passed(who) == IF who \in {"make", "cmake"} THEN Arguments ELSE {Plain}

(* The command is looked for in the last PATH of its environment: that of  *)
(* the toolchain or the call, when they have one, or the inherited.        *)
Calls ==
  {[by |-> c, pass |-> a, jobsInEnv |-> e, found |-> f, dryRun |-> d] :
     c \in Callers, a \in Arguments \cup {Plain}, e \in BOOLEAN, f \in BOOLEAN, d \in BOOLEAN}
Possible ==
  {c \in Calls : /\ c.pass \in Passed(c.by.who)
                 /\ c.jobsInEnv => c.by.who \in {"make", "cmake"}
                 /\ c.dryRun => c.by.who \in {"script", "make", "cmake"}}

(* configureCancellation is for a context that can be done: the command    *)
(* gets a process group, and a delay for what keeps its pipe.              *)
Watched == call.by.context = "build" \/ call.by.timeout
Ended == context # "live"
At(p) == pc = p
Running(p) == p = "running"
Lives == child.at = "alive"

-----------------------------------------------------------------------------
(* internal/buildruntime/budget.go                                         *)

Asked(c) == c.jobsInEnv \/ \E i \in DOMAIN c.pass.options : c.pass.options[i] = "jobs"

MakeArgs(c) ==
  IF Asked(c) THEN c.pass ELSE [c.pass EXCEPT !.options = <<"budget">> \o @]
CMakeBuildArgs(c) ==
  IF Asked(c) THEN c.pass ELSE [c.pass EXCEPT !.options = @ \o <<"budget">>]
WithBudget(c) ==
  CASE c.by.who = "make" -> MakeArgs(c) [] c.by.who = "cmake" -> CMakeBuildArgs(c) [] OTHER -> c.pass

(* How many jobs the command takes: what the last of its options that says *)
(* it says, or else the environment, or else one.                          *)
Saying(as) == {i \in DOMAIN as.options : as.options[i] \in {"jobs", "budget"}}
Level(as, env) ==
  IF Saying(as) # {} THEN as.options[CHOOSE i \in Saying(as) : \A j \in Saying(as) : j <= i]
  ELSE IF env THEN "environment" ELSE "one"

-----------------------------------------------------------------------------
NoChild == [at |-> "none", group |-> FALSE, holds |-> FALSE]
NoOutput == [written |-> 0, copied |-> 0, closed |-> FALSE]

CallInit ==
  /\ call \in Possible /\ context \in {"live", "cancelled"}
  /\ Ended => call.by.context = "build"
  /\ pc = "call" /\ args = Plain /\ program = "none"
  /\ child = NoChild /\ output = NoOutput
  /\ watch = "none" /\ progress = "none" /\ result = "none"

(* An interrupt, or the failure of another compiler of the pool.           *)
CancelContext ==
  /\ context = "live" /\ call.by.context = "build" /\ ~At("returned")
  /\ context' = "cancelled"
  /\ UNCHANGED <<call, pc, args, processes, output, watch, progress, result>>

Expire ==
  /\ context = "live" /\ call.by.timeout /\ ~At("call") /\ ~At("returned")
  /\ context' = "expired"
  /\ UNCHANGED <<call, pc, args, processes, output, watch, progress, result>>

-----------------------------------------------------------------------------
(* The processes.                                                          *)

Holds == Running(program) \/ (Lives /\ child.holds)

Write ==
  /\ call.by.pipe /\ Holds /\ ~output.closed /\ output.written < MaxWrites
  /\ output' = [output EXCEPT !.written = @ + 1]
  /\ UNCHANGED <<call, context, pc, args, processes, watch, progress, result>>

Fork ==
  /\ Running(program) /\ child.at = "none"
  /\ \E group \in BOOLEAN, holds \in {FALSE, call.by.pipe} :
       child' = [at |-> "alive", group |-> group, holds |-> holds]
  /\ UNCHANGED <<call, context, pc, args, program, output, watch, progress, result>>

ProgramExits ==
  /\ Running(program) /\ program' \in {"ok", "failed"}
  /\ UNCHANGED <<call, context, pc, args, child, output, watch, progress, result>>

ChildExits ==
  /\ Lives /\ child' = [child EXCEPT !.at = "gone"]
  /\ UNCHANGED <<call, context, pc, args, program, output, watch, progress, result>>

-----------------------------------------------------------------------------
(* The call.                                                               *)

Return(r) == pc' = "returned" /\ result' = r

(* logAndDryRun, and the dry run of a cmake stage.                         *)
DryRun ==
  /\ At("call") /\ call.dryRun /\ Return("none")
  /\ UNCHANGED <<call, context, args, processes, output, watch, progress>>

Prepare ==
  /\ At("call") /\ ~call.dryRun
  /\ args' = WithBudget(call) /\ pc' = "start"
  /\ progress' = IF call.by.ticks THEN "ticking" ELSE "none"
  /\ UNCHANGED <<call, context, processes, output, watch, result>>

(* cmd.Start: what was not found, or whose context is done, does not run.  *)
DoesNotStart ==
  /\ At("start") /\ (~call.found \/ Ended)
  /\ pc' = "stop" /\ result' = IF call.found THEN context ELSE "notFound"
  /\ UNCHANGED <<call, context, args, processes, output, watch, progress>>

Start ==
  /\ At("start") /\ call.found /\ ~Ended
  /\ program' = "running" /\ pc' = "wait"
  /\ watch' = IF Watched THEN "watching" ELSE "none"
  /\ UNCHANGED <<call, context, args, child, output, progress, result>>

(* The goroutine sees that the context is done and calls cmd.Cancel, which *)
(* kills the group: the command while Wait has not collected it, and what  *)
(* it started there.  Nobody there is no error (os.ErrProcessDone).        *)
InGroup == (program # "none" /\ At("wait")) \/ (Lives /\ child.group)
CommandAlone == [of |-> IF Running(program) THEN "killed" ELSE program, child |-> child]
Reached == [of |-> IF Running(program) THEN "killed" ELSE program,
            child |-> IF Lives /\ child.group THEN [child EXCEPT !.at = "gone"] ELSE child]
CancelCommand ==
  /\ watch = "watching" /\ Ended /\ (At("wait") \/ At("collected"))
  /\ program' = Reached.of /\ child' = Reached.child
  /\ watch' = IF InGroup THEN "killed" ELSE "tooLate"
  /\ UNCHANGED <<call, context, pc, args, output, progress, result>>

(* cmd.Wait.                                                               *)
Collect ==
  /\ At("wait") /\ ~Running(program)
  /\ pc' = "collected" /\ result' = IF program = "ok" THEN "none" ELSE "exit"
  /\ UNCHANGED <<call, context, args, processes, output, watch, progress>>

HandOver ==
  /\ At("collected")
  /\ pc' = "output" /\ watch' = "none"
  /\ result' = IF result = "none" /\ watch = "killed" THEN context ELSE result
  /\ UNCHANGED <<call, context, args, processes, output, progress>>

Copy ==
  /\ output.copied < output.written /\ ~output.closed
  /\ output' = [output EXCEPT !.copied = @ + 1]
  /\ UNCHANGED <<call, context, pc, args, processes, watch, progress, result>>

EndOfOutput == ~call.by.pipe \/ (~Holds /\ output.copied = output.written)

OutputEnds ==
  /\ At("output") /\ EndOfOutput
  /\ pc' = "stop"
  /\ UNCHANGED <<call, context, args, processes, output, watch, progress, result>>

(* WaitDelay after the cancellation, or else after the command has ended.  *)
Delayed == At("output") /\ Watched
CloseOutput ==
  /\ Delayed /\ call.by.pipe
  /\ output' = [output EXCEPT !.closed = TRUE]
  /\ pc' = "stop" /\ result' = IF result = "none" THEN "delayed" ELSE result
  /\ UNCHANGED <<call, context, args, processes, watch, progress>>

Tick ==
  /\ progress = "ticking" /\ ~At("returned") /\ progress' = "calling"
  /\ UNCHANGED <<call, context, pc, args, processes, output, watch, result>>
TickReturns ==
  /\ progress = "calling" /\ progress' = "ticking"
  /\ UNCHANGED <<call, context, pc, args, processes, output, watch, result>>

(* progressDone is closed, and its goroutine waited for.                   *)
StopProgress ==
  /\ At("stop") /\ pc' = "join"
  /\ UNCHANGED <<call, context, args, processes, output, watch, progress, result>>
ProgressEnds ==
  /\ At("join") /\ progress = "ticking" /\ progress' = "none"
  /\ UNCHANGED <<call, context, pc, args, processes, output, watch, result>>

(* The error of a command whose context is done is that of the context.    *)
Joined == progress = "none"
Reported == IF result # "none" /\ Ended THEN context ELSE result
Report ==
  /\ At("join") /\ Joined
  /\ Return(Reported)
  /\ UNCHANGED <<call, context, args, processes, output, watch, progress>>

CallStep ==
  DryRun \/ Prepare \/ DoesNotStart \/ Start \/ Collect \/ HandOver \/ OutputEnds
    \/ StopProgress \/ Report

CallNext ==
  \/ CancelContext \/ Expire \/ Write \/ Fork \/ ProgramExits \/ ChildExits
  \/ DryRun \/ Prepare \/ DoesNotStart \/ Start \/ CancelCommand \/ Collect \/ HandOver \/ Copy
  \/ OutputEnds \/ CloseOutput \/ Tick \/ TickReturns \/ StopProgress \/ ProgressEnds \/ Report
  \/ At("returned") /\ UNCHANGED callVars

CallSpec == CallInit /\ [][CallNext]_callVars

(* The goroutines of vmake and os/exec run when they can, a timer that     *)
(* runs is up some time, OnProgress returns, and between a tick and a      *)
(* closed channel select does not choose the tick for ever.  Nothing       *)
(* obliges a process to write or to end.                                   *)
Fairness ==
  /\ WF_callVars(CallStep) /\ WF_callVars(CancelCommand) /\ WF_callVars(Copy) /\ WF_callVars(CloseOutput)
  /\ WF_callVars(Expire) /\ WF_callVars(TickReturns) /\ SF_callVars(ProgressEnds)
FairCallSpec == CallSpec /\ Fairness

-----------------------------------------------------------------------------
(* Properties *)

Programs == {"none", "running", "ok", "failed", "killed"}
Places == {"call", "start", "wait", "collected", "output", "stop", "join", "returned"}
CallTypeOK ==
  /\ call \in Possible /\ context \in {"live", "cancelled", "expired"} /\ pc \in Places
  /\ program \in Programs
  /\ child \in [at : {"none", "alive", "gone"}, group : BOOLEAN, holds : BOOLEAN]
  /\ output \in [written : 0..MaxWrites, copied : 0..MaxWrites, closed : BOOLEAN]
  /\ output.copied <= output.written
  /\ watch \in {"none", "watching", "killed", "tooLate"} /\ progress \in {"none", "ticking", "calling"}
  /\ result \in {"none", "exit", "notFound", "delayed", "cancelled", "expired"}

(* A call succeeds when its command did, with the whole of what the        *)
(* command and what it left behind wrote, or when it was a dry run, which  *)
(* starts nothing.  An error of a call whose context is done is the        *)
(* context's, so that an interrupt is not mistaken for a failure.          *)
ResultIsTrue ==
  At("returned") =>
    /\ result = "none" =>
         call.dryRun \/ (program = "ok" /\ (call.by.pipe => ~Holds /\ output.copied = output.written))
    /\ program \in {"failed", "killed"} => result # "none"
    /\ call.dryRun => program = "none"
    /\ result # "none" /\ program = "killed" => result = context

(* A command that a cancellation ended leaves nothing of its process group *)
(* behind: a compiler does not go on under a build that has returned.      *)
InterruptedIsGone == At("returned") /\ program = "killed" => ~(Lives /\ child.group)

(* After a call returns, vmake neither calls OnProgress nor copies output  *)
(* for it, and nobody watches its context.                                 *)
NothingGoesOn ==
  At("returned") =>
    /\ progress = "none" /\ watch = "none"
    /\ program # "none" => EndOfOutput \/ output.closed

(* A make or cmake under a build takes the jobs the script or the user     *)
(* said, and the budget of the build when neither did: never one by        *)
(* accident, and never both.                                               *)
ParallelismIsAsked ==
  program # "none" /\ call.by.who \in {"make", "cmake"} =>
    LET asked == Level(call.pass, call.jobsInEnv) IN
    Level(args, call.jobsInEnv) = IF asked = "one" THEN "budget" ELSE asked

(* What a call returns is what became of its command, which leaves nothing *)
(* behind when it was interrupted and takes the jobs it may.               *)
CommandsAreRight ==
  CallTypeOK /\ ResultIsTrue /\ InterruptedIsGone /\ NothingGoesOn /\ ParallelismIsAsked

(* A call returns once its context is done, whatever its command does, and *)
(* once its command has ended when its context can be done, or nothing     *)
(* keeps its output open.                                                  *)
CallEnds ==
  /\ (Watched /\ Ended) ~> At("returned")
  /\ (program \in {"ok", "failed"} /\ (Watched \/ ~(Lives /\ child.holds))) ~> At("returned")
=============================================================================
