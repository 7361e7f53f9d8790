----------------------------- MODULE TargetBuild -----------------------------
(***************************************************************************)
(* One native target, built again and again: the compile pool              *)
(* (pkg/build/scheduler_compile.go), the link with its post-link steps     *)
(* (scheduler_link.go) and the publication of the artifact                 *)
(* (scheduler_publish.go), over the files that survive between builds.     *)
(*                                                                         *)
(* A source reads the headers its own content names, so the inputs of a    *)
(* compile are known only after it ran (the depfile).  The user may edit   *)
(* any file at any moment, a build may be cancelled or killed between any  *)
(* two steps, and outputs may be deleted between builds.  The project lock *)
(* keeps two builds of one project apart (module StorageLocks), so there   *)
(* is at most one build at a time.                                         *)
(***************************************************************************)
EXTENDS ActionRecord, Naturals, FiniteSets

CONSTANTS
  Sources,      \* source files of the target
  Headers,      \* files a source may include
  LinkFiles,    \* further link inputs: linker script, version script, AddPostLinkDeps
  Versions,     \* contents a file may have; Gone is one of them
  Includes,     \* Includes[s][v]: the headers version v of source s includes
  Commands,     \* signatures: command line, tools, environment
  Workers,      \* the goroutines of the compile pool
  MaxEdits,     \* bound: interventions of the user
  MaxBuilds     \* bound: builds started

Files == Sources \cup Headers \cup LinkFiles

(* Fingerprints, and what is in the output files and in the records. *)
Fingerprints(F) == UNION {[S -> Versions] : S \in SUBSET F}
CompileInputs == [files : Fingerprints(Files)]
Objects == [signature : Commands, from : CompileInputs]
ObjectFiles == Objects \cup {NoFile, Torn}
LinkInputs == [objects : [Sources -> ObjectFiles], files : [LinkFiles -> Versions]]
Images == [signature : Commands, from : LinkInputs, postLinked : BOOLEAN]
ImageFiles == Images \cup {NoFile, Torn}
ObjectRecords == [signature : Commands, inputs : CompileInputs, output : ObjectFiles]
ImageRecords == [signature : Commands, inputs : LinkInputs, output : ImageFiles]

ASSUME ConstantsAssumption ==
  /\ Gone \in Versions
  /\ Includes \in [Sources -> [Versions -> SUBSET Headers]]
  /\ Sources \cap (Headers \cup LinkFiles) = {}
  /\ Sources # {} /\ Workers # {}
  /\ MaxEdits \in Nat /\ MaxBuilds \in Nat

(* A missing or half-written output is no product of a finished action. *)
ASSUME SentinelAssumption ==
  /\ NoFile \notin Objects \cup Images /\ Torn \notin Objects \cup Images
  /\ NoRecord \notin ObjectRecords \cup ImageRecords

VARIABLES
  \* what is on disk
  content,      \* [Files -> Versions]
  command,      \* the signature the next actions of this target carry
  object,       \* [Sources -> object file with its depfile]
  objRecord,    \* [Sources -> action record]
  image,        \* the linked artifact with its post-link outputs
  imageRecord,  \* its action record
  installed,    \* the published copy
  \* the running build
  phase,        \* where Build stands
  cancelled,    \* the build's context is done
  poolCancelled,\* the pool's derived context is done
  firstErr,     \* some compile of the pool failed
  unfed, jobs,  \* sources not sent yet, sources in the jobs channel
  closed,       \* the jobs channel is closed
  worker,       \* [Workers -> state of the goroutine]
  results,      \* sources with an object path in results
  linkInputs,   \* what the running linker read
  \* history
  outcome,      \* how the last build ended: "none", "ok", "failed"
  dirtied,      \* the user changed something since the last build started
  noop,         \* nothing changed between the last successful build and this one
  racedObj,     \* sources edited between their compile and its record
  racedLink,    \* a link input edited between the link and its record
  edits, builds

disk == <<content, command, object, objRecord, image, imageRecord, installed>>
pool == <<poolCancelled, firstErr, unfed, jobs, closed, worker, results>>
history == <<outcome, dirtied, noop, racedObj, racedLink, edits, builds>>
vars == <<disk, phase, cancelled, pool, linkInputs, history>>

-----------------------------------------------------------------------------
(* What actions read and produce *)

Idle == [at |-> "recv"]
Exited == [at |-> "exited"]

(* The files a compile of s reads now: the source and what it includes. *)
InputsOf(s) == {s} \cup Includes[s][content[s]]
CompileReads(s) == [files |-> Fingerprint(InputsOf(s), content)]

(* Nothing read then has changed since. *)
Current(fingerprint) == \A f \in DOMAIN fingerprint : fingerprint[f] = content[f]

(* The inputs checkAction and saveActionRecord list for s: the source and  *)
(* the dependencies named by the depfile that is on disk.                  *)
ListedInputs(s) ==
  [files |-> Fingerprint(
     IF object[s] \in {NoFile, Torn} THEN {s} ELSE DOMAIN object[s].from.files, content)]

(* What the linker and the post-link tools read now. *)
LinkReads == [objects |-> object, files |-> Fingerprint(LinkFiles, content)]

(* planLink: the inputs the record of the link lists. *)
ListedLinkInputs == [objects |-> object, files |-> Fingerprint(LinkFiles, content)]

Compiled(signature, inputs) == [signature |-> signature, from |-> inputs]
Linked(signature, inputs, final) ==
  [signature |-> signature, from |-> inputs, postLinked |-> final]

(* What a build from an empty build directory would publish. *)
CleanImage ==
  Linked(command,
         [objects |-> [s \in Sources |-> Compiled(command, CompileReads(s))],
          files |-> Fingerprint(LinkFiles, content)],
         TRUE)

CtxDone == cancelled \/ poolCancelled
Building == phase # "idle"

-----------------------------------------------------------------------------
Init ==
  /\ content \in [Files -> Versions \ {Gone}]
  /\ command \in Commands
  /\ object = [s \in Sources |-> NoFile]
  /\ objRecord = [s \in Sources |-> NoRecord]
  /\ image = NoFile /\ imageRecord = NoRecord /\ installed = NoFile
  /\ phase = "idle" /\ cancelled = FALSE
  /\ poolCancelled = FALSE /\ firstErr = FALSE
  /\ unfed = {} /\ jobs = {} /\ closed = TRUE
  /\ worker = [w \in Workers |-> Exited]
  /\ results = {}
  /\ linkInputs = LinkReads
  /\ outcome = "none" /\ dirtied = TRUE /\ noop = FALSE
  /\ racedObj = {} /\ racedLink = FALSE
  /\ edits = 0 /\ builds = 0

-----------------------------------------------------------------------------
(* The user *)

Intervene ==
  /\ edits < MaxEdits
  /\ edits' = edits + 1
  /\ dirtied' = TRUE /\ noop' = FALSE
  /\ UNCHANGED <<outcome, racedObj, racedLink, builds>>

(* An editor writes or deletes an input, also while a build runs. *)
Edit(f, v) ==
  /\ v # content[f]
  /\ Intervene
  /\ content' = [content EXCEPT ![f] = v]
  /\ UNCHANGED <<command, object, objRecord, image, imageRecord, installed,
                 phase, cancelled, pool, linkInputs>>

(* New flags, toolchain or environment: read when the next build starts. *)
Reconfigure(c) ==
  /\ ~Building /\ c # command
  /\ Intervene
  /\ command' = c
  /\ UNCHANGED <<content, object, objRecord, image, imageRecord, installed,
                 phase, cancelled, pool, linkInputs>>

(* Something outside vmake deletes an object file between two builds. *)
LoseObject(s) ==
  /\ ~Building /\ object[s] # NoFile
  /\ Intervene
  /\ object' = [object EXCEPT ![s] = NoFile]
  /\ UNCHANGED <<content, command, objRecord, image, imageRecord, installed,
                 phase, cancelled, pool, linkInputs>>

(* Something outside vmake damages the artifact between two builds. *)
DamageImage ==
  /\ ~Building /\ image # NoFile
  /\ Intervene
  /\ image' \in {NoFile, Torn}
  /\ UNCHANGED <<content, command, object, objRecord, imageRecord, installed,
                 phase, cancelled, pool, linkInputs>>

(* Ctrl-C: the context of the whole build is cancelled. *)
Cancel ==
  /\ Building /\ ~cancelled
  /\ cancelled' = TRUE
  /\ UNCHANGED <<disk, phase, pool, linkInputs, history>>

-----------------------------------------------------------------------------
(* The compile pool *)

StartBuild ==
  /\ ~Building /\ builds < MaxBuilds
  /\ builds' = builds + 1
  /\ phase' = "compile" /\ cancelled' = FALSE
  /\ poolCancelled' = FALSE /\ firstErr' = FALSE
  /\ unfed' = Sources /\ jobs' = {} /\ closed' = FALSE
  /\ worker' = [w \in Workers |-> Idle]
  /\ results' = {}
  /\ noop' = (outcome = "ok" /\ ~dirtied)
  /\ outcome' = "none" /\ dirtied' = FALSE
  /\ UNCHANGED <<disk, linkInputs, racedObj, racedLink, edits>>

(* The channel holds every source, so a send never blocks. *)
Feed(s) ==
  /\ ~closed /\ s \in unfed
  /\ unfed' = unfed \ {s} /\ jobs' = jobs \cup {s}
  /\ UNCHANGED <<disk, phase, cancelled, poolCancelled, firstErr, closed,
                 worker, results, linkInputs, history>>

(* The feed loop ends when all is sent or the context is done. *)
CloseJobs ==
  /\ ~closed
  /\ unfed = {} \/ CtxDone
  /\ closed' = TRUE
  /\ UNCHANGED <<disk, phase, cancelled, poolCancelled, firstErr, unfed,
                 jobs, worker, results, linkInputs, history>>

WorkerIs(w, state) == worker[w].at = state
Become(w, state) == worker' = [worker EXCEPT ![w] = state]

(* firstError.Do: keep the error, cancel the pool, go on receiving. *)
FailCompile(w) ==
  /\ firstErr' = TRUE /\ poolCancelled' = TRUE
  /\ Become(w, Idle)
  /\ UNCHANGED results

Succeed(w, s) ==
  /\ results' = results \cup {s}
  /\ Become(w, Idle)
  /\ UNCHANGED <<firstErr, poolCancelled>>

Proceed(w, state) ==
  /\ Become(w, state)
  /\ UNCHANGED <<results, firstErr, poolCancelled>>

Receive(w, s) ==
  /\ WorkerIs(w, "recv") /\ s \in jobs
  /\ jobs' = jobs \ {s}
  /\ Become(w, IF CtxDone THEN Exited ELSE [at |-> "check", src |-> s])
  /\ UNCHANGED <<disk, phase, cancelled, poolCancelled, firstErr, unfed,
                 closed, results, linkInputs, history>>

(* Mutant: a worker leaves on cancellation only. *)
ExitWorkerOnCancelOnly(w) ==
  /\ WorkerIs(w, "recv")
  /\ CtxDone
  /\ Become(w, Exited)
  /\ UNCHANGED <<disk, phase, cancelled, poolCancelled, firstErr, unfed,
                 jobs, closed, results, linkInputs, history>>

ExitWorker(w) ==
  /\ WorkerIs(w, "recv")
  /\ CtxDone \/ (closed /\ jobs = {})
  /\ Become(w, Exited)
  /\ UNCHANGED <<disk, phase, cancelled, poolCancelled, firstErr, unfed,
                 jobs, closed, results, linkInputs, history>>

(* compileSourceContext up to the compiler: keep the object, or remove its *)
(* record and go on unless the context is done.                            *)
CheckObject(w) ==
  /\ WorkerIs(w, "check")
  /\ LET s == worker[w].src IN
       IF UpToDate(objRecord[s], command, ListedInputs(s), object[s])
       THEN Succeed(w, s) /\ UNCHANGED <<objRecord, racedObj>>
       ELSE /\ objRecord' = [objRecord EXCEPT ![s] = NoRecord]
            /\ racedObj' = racedObj \ {s}
            /\ IF CtxDone THEN FailCompile(w)
                          ELSE Proceed(w, [at |-> "compile", src |-> s])
  /\ UNCHANGED <<content, command, object, image, imageRecord, installed,
                 phase, cancelled, unfed, jobs, closed, linkInputs,
                 outcome, dirtied, noop, racedLink, edits, builds>>

CompilerStarts(w) ==
  /\ WorkerIs(w, "compile")
  /\ LET s == worker[w].src IN
       /\ object' = [object EXCEPT ![s] = Torn]
       /\ Proceed(w, [at |-> "compiling", src |-> s, reads |-> CompileReads(s)])
  /\ UNCHANGED <<content, command, objRecord, image, imageRecord, installed,
                 phase, cancelled, unfed, jobs, closed, linkInputs, history>>

CompilerEnds(w) ==
  /\ WorkerIs(w, "compiling")
  /\ Readable(worker[w].reads.files)
  /\ LET s == worker[w].src IN
       /\ object' = [object EXCEPT ![s] = Compiled(command, worker[w].reads)]
       /\ Proceed(w, [at |-> "save", src |-> s])
  /\ UNCHANGED <<content, command, objRecord, image, imageRecord, installed,
                 phase, cancelled, unfed, jobs, closed, linkInputs, history>>

(* The compiler rejects the source, or is killed because the context is    *)
(* done: object and depfile are removed.                                   *)
CompilerFails(w) ==
  /\ WorkerIs(w, "compiling")
  /\ object' = [object EXCEPT ![worker[w].src] = NoFile]
  /\ FailCompile(w)
  /\ UNCHANGED <<content, command, objRecord, image, imageRecord, installed,
                 phase, cancelled, unfed, jobs, closed, linkInputs, history>>

(* Mutant: the record lists the source and not what its depfile names. *)
SaveObjectSourceOnly(w) ==
  /\ WorkerIs(w, "save")
  /\ LET s == worker[w].src
         inputs == [files |-> Fingerprint({s}, content)]
     IN IF CtxDone \/ ~Readable(inputs.files)
        THEN FailCompile(w) /\ UNCHANGED objRecord
        ELSE /\ objRecord' = [objRecord EXCEPT
                                ![s] = SuccessRecord(command, inputs, object[s])]
             /\ Succeed(w, s)
  /\ UNCHANGED <<content, command, object, image, imageRecord, installed,
                 phase, cancelled, unfed, jobs, closed, linkInputs, history>>

(* saveActionRecord fingerprints the inputs only now, after the compiler   *)
(* has read them.                                                          *)
SaveObject(w) ==
  /\ WorkerIs(w, "save")
  /\ LET s == worker[w].src
         inputs == ListedInputs(s)
     IN IF CtxDone
        THEN /\ object' = [object EXCEPT ![s] = NoFile]
             /\ FailCompile(w)
             /\ UNCHANGED <<objRecord, racedObj>>
        ELSE IF ~Readable(inputs.files)
        THEN FailCompile(w) /\ UNCHANGED <<object, objRecord, racedObj>>
        ELSE /\ objRecord' = [objRecord EXCEPT
                                ![s] = SuccessRecord(command, inputs, object[s])]
             /\ racedObj' = IF Current(object[s].from.files) THEN racedObj
                                                           ELSE racedObj \cup {s}
             /\ Succeed(w, s)
             /\ UNCHANGED object
  /\ UNCHANGED <<content, command, image, imageRecord, installed,
                 phase, cancelled, unfed, jobs, closed, linkInputs,
                 outcome, dirtied, noop, racedLink, edits, builds>>

-----------------------------------------------------------------------------
(* Link, post-link, publication *)

EndBuild(result) ==
  /\ phase' = "idle" /\ outcome' = result

(* Mutants: no context check after the pool; no wg.Wait. *)
EndPoolIgnoringCancel ==
  /\ phase = "compile" /\ closed
  /\ \A w \in Workers : WorkerIs(w, "exited")
  /\ IF firstErr
     THEN EndBuild("failed")
     ELSE phase' = "link" /\ UNCHANGED outcome
  /\ UNCHANGED <<disk, cancelled, pool, linkInputs,
                 dirtied, noop, racedObj, racedLink, edits, builds>>
EndPoolWithoutWait ==
  /\ phase = "compile" /\ closed
  /\ firstErr \/ cancelled \/ \A w \in Workers : WorkerIs(w, "exited")
  /\ IF firstErr \/ cancelled
     THEN EndBuild("failed")
     ELSE phase' = "link" /\ UNCHANGED outcome
  /\ UNCHANGED <<disk, cancelled, pool, linkInputs,
                 dirtied, noop, racedObj, racedLink, edits, builds>>

(* wg.Wait: all workers are gone; finalizeTarget re-reads the context. *)
EndPool ==
  /\ phase = "compile" /\ closed
  /\ \A w \in Workers : WorkerIs(w, "exited")
  /\ IF firstErr \/ cancelled
     THEN EndBuild("failed")
     ELSE phase' = "link" /\ UNCHANGED outcome
  /\ UNCHANGED <<disk, cancelled, pool, linkInputs,
                 dirtied, noop, racedObj, racedLink, edits, builds>>

(* planLink and checkAction; a stale record is removed before the linker   *)
(* overwrites the artifact.                                                *)
CheckImage ==
  /\ phase = "link"
  /\ IF UpToDate(imageRecord, command, ListedLinkInputs, image)
     THEN phase' = "publish" /\ UNCHANGED <<image, imageRecord, linkInputs, racedLink>>
     ELSE /\ imageRecord' = NoRecord /\ racedLink' = FALSE
          /\ image' = Torn /\ linkInputs' = LinkReads
          /\ phase' = "linking"
  /\ UNCHANGED <<content, command, object, objRecord, installed, cancelled,
                 pool, outcome, dirtied, noop, racedObj, edits, builds>>

(* Mutant: the link is recorded before the post-link steps. *)
LinkerEndsWithoutPostLink ==
  /\ phase = "linking"
  /\ Readable(linkInputs.files)
  /\ image' = Linked(command, linkInputs, FALSE)
  /\ phase' = "saveLink"
  /\ UNCHANGED <<content, command, object, objRecord, imageRecord, installed,
                 cancelled, pool, linkInputs, history>>

LinkerEnds ==
  /\ phase = "linking"
  /\ Readable(linkInputs.files)
  /\ image' = Linked(command, linkInputs, FALSE)
  /\ phase' = "postlink"
  /\ UNCHANGED <<content, command, object, objRecord, imageRecord, installed,
                 cancelled, pool, linkInputs, history>>

(* The post-link steps rewrite the artifact in place. *)
PostLink ==
  /\ phase = "postlink"
  /\ image' = Linked(command, linkInputs, TRUE)
  /\ phase' = "saveLink"
  /\ UNCHANGED <<content, command, object, objRecord, imageRecord, installed,
                 cancelled, pool, linkInputs, history>>

LinkFails ==
  /\ phase \in {"linking", "postlink"}
  /\ EndBuild("failed")
  /\ UNCHANGED <<disk, cancelled, pool, linkInputs,
                 dirtied, noop, racedObj, racedLink, edits, builds>>

SaveImage ==
  /\ phase = "saveLink"
  /\ IF cancelled \/ ~Readable(ListedLinkInputs.files)
     THEN EndBuild("failed") /\ UNCHANGED <<imageRecord, racedLink>>
     ELSE /\ imageRecord' = SuccessRecord(command, ListedLinkInputs, image)
          /\ racedLink' = (linkInputs # LinkReads)
          /\ phase' = "publish"
          /\ UNCHANGED outcome
  /\ UNCHANGED <<content, command, object, objRecord, image, installed,
                 cancelled, pool, linkInputs, dirtied, noop, racedObj, edits, builds>>

(* publishTarget skips a copy with the same content, and otherwise         *)
(* truncates the published file before it copies.                          *)
PublishStarts ==
  /\ phase = "publish"
  /\ IF cancelled
     THEN EndBuild("failed") /\ UNCHANGED installed
     ELSE IF installed = image
     THEN EndBuild("ok") /\ UNCHANGED installed
     ELSE phase' = "copying" /\ installed' = Torn /\ UNCHANGED outcome
  /\ UNCHANGED <<content, command, object, objRecord, image, imageRecord,
                 cancelled, pool, linkInputs,
                 dirtied, noop, racedObj, racedLink, edits, builds>>

PublishEnds ==
  /\ phase = "copying"
  /\ installed' = image
  /\ EndBuild("ok")
  /\ UNCHANGED <<content, command, object, objRecord, image, imageRecord,
                 cancelled, pool, linkInputs,
                 dirtied, noop, racedObj, racedLink, edits, builds>>

(* The process is killed: only the disk survives. *)
Crash ==
  /\ Building
  /\ EndBuild("failed")
  /\ closed' = TRUE /\ jobs' = {} /\ unfed' = {}
  /\ worker' = [w \in Workers |-> Exited]
  /\ UNCHANGED <<disk, cancelled, poolCancelled, firstErr, results, linkInputs,
                 dirtied, noop, racedObj, racedLink, edits, builds>>

(* Nothing more to do within the bounds. *)
Rest ==
  /\ ~Building /\ builds = MaxBuilds
  /\ UNCHANGED vars

-----------------------------------------------------------------------------
UserStep ==
  \/ \E f \in Files, v \in Versions : Edit(f, v)
  \/ \E c \in Commands : Reconfigure(c)
  \/ \E s \in Sources : LoseObject(s)
  \/ DamageImage
  \/ StartBuild
  \/ Cancel
  \/ Crash

FeederStep == CloseJobs \/ \E s \in Sources : Feed(s)

WorkerStep(w) ==
  \/ \E s \in Sources : Receive(w, s)
  \/ ExitWorker(w)
  \/ CheckObject(w)
  \/ CompilerStarts(w)
  \/ CompilerEnds(w)
  \/ CompilerFails(w)
  \/ SaveObject(w)

FinalizeStep ==
  \/ EndPool
  \/ CheckImage
  \/ LinkerEnds
  \/ PostLink
  \/ LinkFails
  \/ SaveImage
  \/ PublishStarts
  \/ PublishEnds

Next ==
  \/ UserStep
  \/ FeederStep
  \/ \E w \in Workers : WorkerStep(w)
  \/ FinalizeStep
  \/ Rest

Spec == Init /\ [][Next]_vars

(* The Go scheduler runs every goroutine that can run, and compilers,      *)
(* linkers and post-link tools end.  Nothing obliges the user to act.      *)
FairSpec ==
  /\ Spec
  /\ WF_vars(FeederStep)
  /\ \A w \in Workers : WF_vars(WorkerStep(w))
  /\ WF_vars(FinalizeStep)

-----------------------------------------------------------------------------
(* Properties *)

WorkerStates ==
  [at : {"recv", "exited"}] \cup [at : {"check", "compile", "save"}, src : Sources]
    \cup [at : {"compiling"}, src : Sources, reads : CompileInputs]
Phases == {"idle", "compile", "link", "linking", "postlink", "saveLink", "publish", "copying"}

(* Every variable holds a value of its kind. *)
TypeOK ==
  /\ content \in [Files -> Versions] /\ command \in Commands
  /\ object \in [Sources -> ObjectFiles]
  /\ objRecord \in [Sources -> ObjectRecords \cup {NoRecord}]
  /\ image \in ImageFiles /\ installed \in ImageFiles
  /\ imageRecord \in ImageRecords \cup {NoRecord}
  /\ phase \in Phases
  /\ cancelled \in BOOLEAN /\ poolCancelled \in BOOLEAN /\ firstErr \in BOOLEAN
  /\ unfed \subseteq Sources /\ jobs \subseteq Sources /\ closed \in BOOLEAN
  /\ worker \in [Workers -> WorkerStates]
  /\ results \subseteq Sources
  /\ linkInputs \in LinkInputs
  /\ outcome \in {"none", "ok", "failed"}
  /\ dirtied \in BOOLEAN /\ noop \in BOOLEAN
  /\ racedObj \subseteq Sources /\ racedLink \in BOOLEAN
  /\ edits \in 0..MaxEdits /\ builds \in 0..MaxBuilds

(* What an incremental build publishes is what a build from scratch would  *)
(* publish: after a success, with nothing edited since it started, the     *)
(* published artifact is the clean one, whatever earlier builds left       *)
(* behind (failures, cancellations, kills, deleted outputs), unless some   *)
(* record was raced by an edit (checkAction, saveActionRecord).            *)
SuccessIsClean ==
  outcome = "ok" /\ ~dirtied /\ racedObj = {} /\ ~racedLink => installed = CleanImage

(* A success record never vouches for an output its command did not finish *)
(* from the inputs it lists: no torn, unpostlinked or foreign file can be  *)
(* taken for up to date (invalidateActionRecord before the tool runs).     *)
RecordsAreHonest ==
  /\ \A s \in Sources :
       objRecord[s] # NoRecord /\ objRecord[s].output = object[s] /\ s \notin racedObj =>
         object[s] = Compiled(objRecord[s].signature, objRecord[s].inputs)
  /\ imageRecord # NoRecord /\ imageRecord.output = image /\ ~racedLink =>
       image = Linked(imageRecord.signature, imageRecord.inputs, TRUE)

(* The linker runs only after every source of the target has a finished    *)
(* object of this build's command, also when the build is cancelled while  *)
(* the pool drains (results of compileAll, ctx check of finalizeTarget).   *)
LinkSeesWholeTarget ==
  phase \in {"link", "linking", "postlink", "saveLink"} =>
    /\ results = Sources
    /\ \A s \in Sources : object[s] \notin {NoFile, Torn} /\ object[s].signature = command

(* compileAll returns only when no goroutine of the pool can still write   *)
(* an object, on success, on the first error and on cancellation.          *)
NoCompilerOutlivesPool ==
  phase # "compile" => \A w \in Workers : WorkerIs(w, "exited")

(* A build after which nothing changed is followed by a build that runs no *)
(* tool and rewrites no file, record or published artifact.                *)
NoopBuildTouchesNothing == [][noop /\ noop' => UNCHANGED disk]_vars

(* Every build comes to an end: the pool neither blocks on its channel nor *)
(* waits for a goroutine that never leaves.                                *)
BuildEnds == Building ~> ~Building

=============================================================================
