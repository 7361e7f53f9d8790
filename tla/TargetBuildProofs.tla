-------------------------- MODULE TargetBuildProofs --------------------------
(* Theorems about TargetBuild, for every set of files, commands and workers, *)
(* and about CommandRunner, for every argument list a script may pass.       *)
EXTENDS TargetBuild, CommandRunner, WellFoundedInduction, TLAPS

-----------------------------------------------------------------------------
(* Types *)

LEMMA FingerprintType ==
  ASSUME NEW F \in SUBSET Files, content \in [Files -> Versions]
  PROVE  Fingerprint(F, content) \in Fingerprints(Files)
<1>1. [f \in F |-> content[f]] \in [F -> Versions]
  OBVIOUS
<1> QED
  BY <1>1 DEF Fingerprint, Fingerprints

LEMMA InputsOfType ==
  ASSUME TypeOK, NEW s \in Sources
  PROVE  InputsOf(s) \in SUBSET Files
BY ConstantsAssumption DEF TypeOK, InputsOf, Files

LEMMA CompileReadsType ==
  ASSUME TypeOK, NEW s \in Sources
  PROVE  CompileReads(s) \in CompileInputs
BY InputsOfType, FingerprintType DEF TypeOK, CompileReads, CompileInputs

LEMMA ListedInputsType ==
  ASSUME TypeOK, NEW s \in Sources
  PROVE  ListedInputs(s) \in CompileInputs
<1> DEFINE D == IF object[s] \in {NoFile, Torn} THEN {s} ELSE DOMAIN object[s].from.files
<1>1. CASE object[s] \in {NoFile, Torn}
  BY <1>1, FingerprintType DEF TypeOK, ListedInputs, CompileInputs, Files
<1>2. CASE object[s] \notin {NoFile, Torn}
  <2>1. object[s] \in Objects
    BY <1>2 DEF TypeOK, ObjectFiles
  <2>2. object[s].from.files \in Fingerprints(Files)
    BY <2>1 DEF Objects, CompileInputs
  <2>3. DOMAIN object[s].from.files \in SUBSET Files
    BY <2>2 DEF Fingerprints
  <2> QED
    BY <1>2, <2>3, FingerprintType DEF TypeOK, ListedInputs, CompileInputs
<1> QED
  BY <1>1, <1>2

LEMMA LinkReadsType ==
  ASSUME TypeOK
  PROVE  LinkReads \in LinkInputs /\ ListedLinkInputs \in LinkInputs
BY DEF TypeOK, LinkReads, ListedLinkInputs, LinkInputs, Fingerprint, Files

LEMMA ProductTypes ==
  ASSUME NEW c \in Commands
  PROVE  /\ \A x \in CompileInputs : Compiled(c, x) \in Objects
         /\ \A x \in LinkInputs, b \in BOOLEAN : Linked(c, x, b) \in Images
BY DEF Compiled, Linked, Objects, Images

LEMMA RecordTypes ==
  ASSUME NEW c \in Commands
  PROVE  /\ \A x \in CompileInputs, o \in ObjectFiles : SuccessRecord(c, x, o) \in ObjectRecords
         /\ \A x \in LinkInputs, o \in ImageFiles : SuccessRecord(c, x, o) \in ImageRecords
BY DEF SuccessRecord, ObjectRecords, ImageRecords

LEMMA TypeInit == Init => TypeOK
<1> SUFFICES ASSUME Init PROVE TypeOK
  OBVIOUS
<1> USE ConstantsAssumption
<1>1. worker \in [Workers -> WorkerStates]
  BY DEF Init, Exited, WorkerStates
<1>2. linkInputs \in LinkInputs
  BY DEF Init, LinkReads, LinkInputs, Fingerprint, ObjectFiles, Files
<1>3. content \in [Files -> Versions]
  BY DEF Init
<1>4. object \in [Sources -> ObjectFiles]
      /\ objRecord \in [Sources -> ObjectRecords \cup {NoRecord}]
  BY DEF Init, ObjectFiles
<1>5. image \in ImageFiles /\ installed \in ImageFiles
      /\ imageRecord \in ImageRecords \cup {NoRecord}
  BY DEF Init, ImageFiles
<1>6. edits \in 0..MaxEdits /\ builds \in 0..MaxBuilds
  BY DEF Init
<1> QED
  BY <1>1, <1>2, <1>3, <1>4, <1>5, <1>6 DEF Init, TypeOK, Phases

LEMMA TypeStep ==
  ASSUME TypeOK, [Next]_vars
  PROVE  TypeOK'
<1> USE ConstantsAssumption, ProductTypes, RecordTypes
<1>1. CASE UserStep
  <2> DEFINE Counters == edits \in 0..MaxEdits /\ builds \in 0..MaxBuilds
  <2>a. Intervene => Counters'
    BY DEF Intervene, TypeOK
  <2>b. StartBuild => Counters'
    BY DEF StartBuild, TypeOK
  <2>1. CASE \E f \in Files, v \in Versions : Edit(f, v)
    BY <2>1, <2>a DEF Edit, Intervene, TypeOK, pool
  <2>2. CASE \E c \in Commands : Reconfigure(c)
    BY <2>2, <2>a DEF Reconfigure, Intervene, TypeOK, pool
  <2>3. CASE \E s \in Sources : LoseObject(s)
    BY <2>3, <2>a DEF LoseObject, Intervene, TypeOK, pool, ObjectFiles
  <2>4. CASE DamageImage
    BY <2>4, <2>a DEF DamageImage, Intervene, TypeOK, pool, ImageFiles
  <2>5. CASE StartBuild
    BY <2>5, <2>b DEF StartBuild, TypeOK, disk, WorkerStates, Idle, Phases
  <2>6. CASE Cancel
    BY <2>6 DEF Cancel, TypeOK, pool, disk, history
  <2>7. CASE Crash
    BY <2>7 DEF Crash, EndBuild, TypeOK, disk, WorkerStates, Exited, Phases
  <2> QED
    BY <1>1, <2>1, <2>2, <2>3, <2>4, <2>5, <2>6, <2>7 DEF UserStep
<1>2. CASE FeederStep
  BY <1>2 DEF FeederStep, CloseJobs, Feed, TypeOK, disk, history
<1>3. ASSUME NEW w \in Workers, WorkerStep(w) PROVE TypeOK'
  <2>1. CASE \E s \in Sources : Receive(w, s)
    BY <2>1 DEF Receive, Become, Exited, WorkerStates, TypeOK, disk, history
  <2>2. CASE ExitWorker(w)
    BY <2>2 DEF ExitWorker, Become, Exited, WorkerStates, TypeOK, disk, history
  <2>3. CASE CheckObject(w)
    <3>1. worker[w].src \in Sources
      BY <2>3 DEF CheckObject, WorkerIs, TypeOK, WorkerStates
    <3>2. objRecord' \in [Sources -> ObjectRecords \cup {NoRecord}]
          /\ racedObj' \subseteq Sources /\ results' \subseteq Sources
      BY <2>3, <3>1 DEF CheckObject, Succeed, FailCompile, Proceed, TypeOK
    <3>3. worker' \in [Workers -> WorkerStates]
      <4>1. \/ worker' = [worker EXCEPT ![w] = Idle]
            \/ worker' = [worker EXCEPT ![w] = [at |-> "compile", src |-> worker[w].src]]
        BY <2>3 DEF CheckObject, Succeed, FailCompile, Proceed, Become
      <4>2. Idle \in WorkerStates /\ [at |-> "compile", src |-> worker[w].src] \in WorkerStates
        BY <3>1 DEF Idle, WorkerStates
      <4> QED
        BY <4>1, <4>2 DEF TypeOK
    <3>4. firstErr' \in BOOLEAN /\ poolCancelled' \in BOOLEAN
      BY <2>3 DEF CheckObject, Succeed, FailCompile, Proceed, TypeOK
    <3> QED
      BY <2>3, <3>2, <3>3, <3>4 DEF CheckObject, TypeOK
  <2>4. CASE CompilerStarts(w)
    <3>1. worker[w].src \in Sources
      BY <2>4 DEF CompilerStarts, WorkerIs, TypeOK, WorkerStates
    <3>2. CompileReads(worker[w].src) \in CompileInputs
      BY <3>1, CompileReadsType
    <3> QED
      BY <2>4, <3>1, <3>2 DEF CompilerStarts, Proceed, Become, ObjectFiles,
           WorkerStates, TypeOK, history
  <2>5. CASE CompilerEnds(w)
    <3>1. worker[w].src \in Sources /\ worker[w].reads \in CompileInputs
      BY <2>5 DEF CompilerEnds, WorkerIs, TypeOK, WorkerStates
    <3> QED
      BY <2>5, <3>1 DEF CompilerEnds, Proceed, Become, ObjectFiles,
           WorkerStates, TypeOK, history
  <2>6. CASE CompilerFails(w)
    BY <2>6 DEF CompilerFails, FailCompile, Become, Idle, ObjectFiles,
         WorkerStates, TypeOK, history
  <2>7. CASE SaveObject(w)
    <3>1. worker[w].src \in Sources
      BY <2>7 DEF SaveObject, WorkerIs, TypeOK, WorkerStates
    <3>2. ListedInputs(worker[w].src) \in CompileInputs
      BY <3>1, ListedInputsType
    <3>3. object' \in [Sources -> ObjectFiles]
      BY <2>7 DEF SaveObject, TypeOK, ObjectFiles
    <3>4. objRecord' \in [Sources -> ObjectRecords \cup {NoRecord}]
      BY <2>7, <3>1, <3>2 DEF SaveObject, TypeOK
    <3>5. racedObj' \subseteq Sources /\ results' \subseteq Sources
      BY <2>7, <3>1 DEF SaveObject, Succeed, FailCompile, TypeOK
    <3>6. worker' \in [Workers -> WorkerStates]
      <4>1. worker' = [worker EXCEPT ![w] = Idle]
        BY <2>7 DEF SaveObject, Succeed, FailCompile, Become
      <4>2. Idle \in WorkerStates
        BY DEF Idle, WorkerStates
      <4> QED
        BY <4>1, <4>2 DEF TypeOK
    <3>7. firstErr' \in BOOLEAN /\ poolCancelled' \in BOOLEAN
      BY <2>7 DEF SaveObject, Succeed, FailCompile, TypeOK
    <3> QED
      BY <2>7, <3>3, <3>4, <3>5, <3>6, <3>7 DEF SaveObject, TypeOK
  <2> QED
    BY <1>3, <2>1, <2>2, <2>3, <2>4, <2>5, <2>6, <2>7 DEF WorkerStep
<1>4. CASE FinalizeStep
  <2> USE LinkReadsType DEF Phases
  <2>1. CASE EndPool
    BY <2>1 DEF EndPool, EndBuild, TypeOK, disk, pool
  <2>2. CASE CheckImage
    BY <2>2 DEF CheckImage, TypeOK, pool, ImageFiles
  <2>3. CASE LinkerEnds
    BY <2>3 DEF LinkerEnds, TypeOK, pool, ImageFiles, history
  <2>4. CASE PostLink
    BY <2>4 DEF PostLink, TypeOK, pool, ImageFiles, history
  <2>5. CASE LinkFails
    BY <2>5 DEF LinkFails, EndBuild, TypeOK, disk, pool
  <2>6. CASE SaveImage
    <3>1. imageRecord' \in ImageRecords \cup {NoRecord}
      BY <2>6 DEF SaveImage, TypeOK
    <3>2. racedLink' \in BOOLEAN
      <4>1. (linkInputs # LinkReads) \in BOOLEAN
        BY Zenon
      <4> QED
        BY <2>6, <4>1 DEF SaveImage, TypeOK
    <3>3. phase' \in Phases /\ outcome' \in {"none", "ok", "failed"}
      BY <2>6 DEF SaveImage, EndBuild, TypeOK
    <3> QED
      BY <2>6, <3>1, <3>2, <3>3 DEF SaveImage, TypeOK, pool
  <2>7. CASE PublishStarts
    BY <2>7 DEF PublishStarts, EndBuild, TypeOK, pool, ImageFiles
  <2>8. CASE PublishEnds
    BY <2>8 DEF PublishEnds, EndBuild, TypeOK, pool
  <2> QED
    BY <1>4, <2>1, <2>2, <2>3, <2>4, <2>5, <2>6, <2>7, <2>8 DEF FinalizeStep
<1>5. CASE Rest \/ UNCHANGED vars
  BY <1>5 DEF Rest, vars, disk, pool, history, TypeOK
<1> QED
  BY <1>1, <1>2, <1>3, <1>4, <1>5 DEF Next

(* Every variable keeps a value of its kind, for all sizes of the target.  *)
THEOREM TypeInvariant == Spec => []TypeOK
<1>1. TypeOK /\ [Next]_vars => TypeOK'
  BY TypeStep
<1> QED
  BY <1>1, TypeInit, PTL DEF Spec

-----------------------------------------------------------------------------
(* The inductive invariant *)

Active(w) == worker[w].at \in {"check", "compile", "compiling", "save"}

(* An object's inputs are its source and what that version of it includes. *)
Closed(s, inputs) ==
  /\ s \in DOMAIN inputs.files
  /\ DOMAIN inputs.files = {s} \cup Includes[s][inputs.files[s]]

DepfilesComplete ==
  /\ \A s \in Sources : object[s] \in Objects => Closed(s, object[s].from)
  /\ \A w \in Workers : WorkerIs(w, "compiling") => Closed(worker[w].src, worker[w].reads)

(* A record vouches for a finished object of its command, and, if no edit  *)
(* raced it, states what the object was made from.                         *)
ObjectRecordsTrue ==
  \A s \in Sources : objRecord[s] # NoRecord =>
    /\ objRecord[s].output \in Objects
    /\ objRecord[s].output.signature = objRecord[s].signature
    /\ s \notin racedObj =>
         objRecord[s].output = Compiled(objRecord[s].signature, objRecord[s].inputs)

ImageRecordTrue ==
  imageRecord # NoRecord /\ ~racedLink =>
    imageRecord.output = Linked(imageRecord.signature, imageRecord.inputs, TRUE)

(* Every source is at one place: to send, in the channel, held by one      *)
(* worker, or done.                                                        *)
OnePlace ==
  /\ unfed \cap jobs = {} /\ unfed \cap results = {} /\ jobs \cap results = {}
  /\ \A w \in Workers : Active(w) => worker[w].src \notin unfed \cup jobs \cup results
  /\ \A w, x \in Workers : Active(w) /\ Active(x) /\ w # x => worker[w].src # worker[x].src

(* Unless the context is done, no source gets lost.                        *)
NothingForgotten ==
  /\ poolCancelled => firstErr
  /\ phase = "compile" /\ ~CtxDone =>
       /\ \A s \in Sources : \/ s \in unfed \cup jobs \cup results
                             \/ \E w \in Workers : Active(w) /\ worker[w].src = s
       /\ closed => unfed = {}
       /\ \A w \in Workers : WorkerIs(w, "exited") => closed /\ jobs = {}
  /\ phase \notin {"idle", "compile"} => results = Sources

(* What is done is an object of this build's command, made from what the   *)
(* files hold now.                                                         *)
DoneIsDone ==
  /\ \A w \in Workers : WorkerIs(w, "save") =>
       object[worker[w].src] \in Objects /\ object[worker[w].src].signature = command
  /\ Building => \A s \in results :
       /\ object[s] \in Objects /\ object[s].signature = command
       /\ s \notin racedObj /\ ~dirtied => object[s] = Compiled(command, CompileReads(s))

(* The same of the image. *)
LinkedIsLinked ==
  /\ phase = "saveLink" => image = Linked(command, linkInputs, TRUE)
  /\ phase \in {"publish", "copying"} /\ ~racedLink /\ ~dirtied =>
       image = Linked(command, LinkReads, TRUE)

OutcomeOfEnded == Building => outcome = "none"

IInv ==
  /\ TypeOK
  /\ DepfilesComplete
  /\ ObjectRecordsTrue
  /\ ImageRecordTrue
  /\ OnePlace
  /\ NoCompilerOutlivesPool
  /\ NothingForgotten
  /\ DoneIsDone
  /\ LinkedIsLinked
  /\ OutcomeOfEnded
  /\ SuccessIsClean

(* Which steps write what. *)
LEMMA Writers ==
  ASSUME [Next]_vars
  PROVE  /\ UNCHANGED content \/ \E f \in Files, v \in Versions : Edit(f, v)
         /\ UNCHANGED command \/ \E c \in Commands : Reconfigure(c)
         /\ \/ UNCHANGED object
            \/ \E s \in Sources : LoseObject(s)
            \/ \E w \in Workers : CompilerStarts(w) \/ CompilerEnds(w)
                                 \/ CompilerFails(w) \/ SaveObject(w)
         /\ \/ UNCHANGED <<objRecord, racedObj>>
            \/ \E w \in Workers : CheckObject(w) \/ SaveObject(w)
         /\ \/ UNCHANGED worker \/ StartBuild \/ Crash
            \/ \E w \in Workers : WorkerStep(w)
         /\ \/ UNCHANGED <<unfed, jobs>> \/ StartBuild \/ Crash
            \/ \E s \in Sources : Feed(s) \/ \E w \in Workers : Receive(w, s)
         /\ \/ UNCHANGED results \/ StartBuild
            \/ \E w \in Workers : CheckObject(w) \/ SaveObject(w)
         /\ UNCHANGED phase \/ StartBuild \/ Crash \/ FinalizeStep
         /\ UNCHANGED outcome \/ StartBuild \/ Crash \/ FinalizeStep
         /\ UNCHANGED dirtied \/ StartBuild \/ dirtied'
         /\ UNCHANGED image \/ DamageImage \/ CheckImage \/ LinkerEnds \/ PostLink
         /\ UNCHANGED <<imageRecord, racedLink>> \/ CheckImage \/ SaveImage
         /\ UNCHANGED linkInputs \/ CheckImage
         /\ UNCHANGED installed \/ PublishStarts \/ PublishEnds
<1>1. CASE UserStep
  BY <1>1, Zenon DEF UserStep, Edit, Reconfigure, LoseObject, DamageImage, Intervene, StartBuild,
       Cancel, Crash, EndBuild, disk, pool, history
<1>2. CASE FeederStep
  BY <1>2 DEF FeederStep, CloseJobs, Feed, disk, history
<1>3. ASSUME NEW w \in Workers, WorkerStep(w)
      PROVE  /\ UNCHANGED <<content, command, phase, image, imageRecord, racedLink,
                            linkInputs, installed, outcome, dirtied>>
             /\ \/ UNCHANGED object
                \/ CompilerStarts(w) \/ CompilerEnds(w) \/ CompilerFails(w) \/ SaveObject(w)
             /\ UNCHANGED <<objRecord, racedObj>> \/ CheckObject(w) \/ SaveObject(w)
             /\ UNCHANGED <<unfed, jobs>> \/ \E s \in Sources : Receive(w, s)
             /\ UNCHANGED results \/ CheckObject(w) \/ SaveObject(w)
  BY <1>3 DEF WorkerStep, Receive, ExitWorker, CheckObject, CompilerStarts, CompilerEnds,
       CompilerFails, SaveObject, FailCompile, Proceed, disk, history
<1>4. CASE FinalizeStep
  BY <1>4 DEF FinalizeStep, EndPool, CheckImage, LinkerEnds, PostLink, LinkFails, SaveImage,
       PublishStarts, PublishEnds, EndBuild, disk, pool, history
<1>5. CASE Rest \/ UNCHANGED vars
  BY <1>5 DEF Rest, vars, disk, pool, history
<1> QED
  BY <1>1, <1>2, <1>3, <1>4, <1>5, Zenon DEF Next

(* Products of finished actions are told from what is not one. *)
LEMMA Products ==
  /\ \A c, x : Compiled(c, x).signature = c /\ Compiled(c, x).from = x
  /\ NoFile \notin Objects /\ Torn \notin Objects
BY SentinelAssumption DEF Compiled

LEMMA WorkerTypes ==
  ASSUME TypeOK, NEW w \in Workers
  PROVE  /\ Active(w) => worker[w].src \in Sources
         /\ WorkerIs(w, "compiling") => worker[w].reads \in CompileInputs
BY DEF TypeOK, WorkerStates, Active, WorkerIs

LEMMA ReadsClosed ==
  ASSUME NEW s \in Sources, TypeOK
  PROVE  Closed(s, CompileReads(s))
BY ConstantsAssumption DEF Closed, CompileReads, Fingerprint, InputsOf

LEMMA DepfilesStep ==
  ASSUME IInv, [Next]_vars
  PROVE  DepfilesComplete'
<1> USE DEF IInv
<1>1. \A s \in Sources : object'[s] \in Objects => Closed(s, object'[s].from)
  <2> SUFFICES ASSUME NEW s \in Sources, object'[s] \in Objects
               PROVE  Closed(s, object'[s].from)
    OBVIOUS
  <2>1. CASE UNCHANGED object
    BY <2>1 DEF DepfilesComplete
  <2>2. CASE \E r \in Sources : LoseObject(r)
    BY <2>2, Products DEF LoseObject, DepfilesComplete, TypeOK
  <2>3. ASSUME NEW w \in Workers, CompilerStarts(w) \/ CompilerFails(w) PROVE Closed(s, object'[s].from)
    BY <2>3, Products DEF CompilerStarts, CompilerFails, DepfilesComplete, TypeOK
  <2>4. ASSUME NEW w \in Workers, CompilerEnds(w) PROVE Closed(s, object'[s].from)
    BY <2>4, Products DEF CompilerEnds, WorkerIs, DepfilesComplete, TypeOK
  <2>5. ASSUME NEW w \in Workers, SaveObject(w) PROVE Closed(s, object'[s].from)
    BY <2>5, Products DEF SaveObject, DepfilesComplete, TypeOK
  <2> QED
    BY <2>1, <2>2, <2>3, <2>4, <2>5, Writers
<1>2. \A w \in Workers : WorkerIs(w, "compiling")' => Closed(worker'[w].src, worker'[w].reads)
  <2> SUFFICES ASSUME NEW w \in Workers, WorkerIs(w, "compiling")'
               PROVE  Closed(worker'[w].src, worker'[w].reads)
    OBVIOUS
  <2>1. CASE UNCHANGED worker
    BY <2>1 DEF WorkerIs, DepfilesComplete
  <2>2. CASE StartBuild \/ Crash
    BY <2>2 DEF StartBuild, Crash, Idle, Exited, WorkerIs
  <2>3. ASSUME NEW x \in Workers, WorkerStep(x) PROVE Closed(worker'[w].src, worker'[w].reads)
    <3>1. CASE CompilerStarts(x)
      BY <3>1, ReadsClosed, WorkerTypes DEF CompilerStarts, Proceed, Become, Active, WorkerIs, DepfilesComplete, TypeOK
    <3>2. CASE \E s \in Sources : Receive(x, s)
      BY <3>2 DEF Receive, Become, Exited, WorkerIs, DepfilesComplete, TypeOK
    <3>3. CASE ExitWorker(x)
      BY <3>3 DEF ExitWorker, Become, Exited, WorkerIs, DepfilesComplete, TypeOK
    <3>4. CASE CheckObject(x)
      BY <3>4 DEF CheckObject, Succeed, FailCompile, Proceed, Become, Idle, WorkerIs, DepfilesComplete, TypeOK
    <3>5. CASE CompilerEnds(x) \/ CompilerFails(x)
      BY <3>5 DEF CompilerEnds, CompilerFails, FailCompile, Proceed, Become, Idle, WorkerIs, DepfilesComplete, TypeOK
    <3>6. CASE SaveObject(x)
      BY <3>6 DEF SaveObject, Succeed, FailCompile, Become, Idle, WorkerIs, DepfilesComplete, TypeOK
    <3> QED
      BY <2>3, <3>1, <3>2, <3>3, <3>4, <3>5, <3>6 DEF WorkerStep
  <2> QED
    BY <2>1, <2>2, <2>3, Writers
<1> QED
  BY <1>1, <1>2 DEF DepfilesComplete

(* If nothing an object was made from has changed, its listed inputs are   *)
(* what it was made from.                                                  *)
LEMMA CurrentObject ==
  ASSUME TypeOK, NEW s \in Sources, object[s] \in Objects, Current(object[s].from.files)
  PROVE  object[s] = Compiled(object[s].signature, ListedInputs(s))
<1> DEFINE files == object[s].from.files
<1>1. files \in Fingerprints(Files)
  BY DEF Objects, CompileInputs
<1>2. files = [f \in DOMAIN files |-> content[f]]
  BY <1>1 DEF Fingerprints, Current
<1>3. ListedInputs(s) = [files |-> files]
  BY <1>2, Products DEF ListedInputs, Fingerprint
<1>4. object[s].from = [files |-> files]
  BY DEF Objects, CompileInputs
<1> QED
  BY <1>3, <1>4 DEF Objects, Compiled

(* ... and these are what a compile would read now.                        *)
LEMMA ListedIsRead ==
  ASSUME TypeOK, NEW s \in Sources, object[s] \in Objects, Closed(s, object[s].from),
         object[s].from = ListedInputs(s)
  PROVE  ListedInputs(s) = CompileReads(s)
<1> DEFINE D == DOMAIN object[s].from.files
<1>1. ListedInputs(s) = [files |-> Fingerprint(D, content)]
  BY Products DEF ListedInputs
<1>2. object[s].from.files = [f \in D |-> content[f]]
  BY <1>1 DEF Fingerprint
<1>3. s \in D /\ object[s].from.files[s] = content[s]
  BY <1>2 DEF Closed
<1>4. D = InputsOf(s)
  BY <1>3 DEF Closed, InputsOf
<1> QED
  BY <1>1, <1>4 DEF CompileReads

(* An object checkAction keeps is what a compile would make now.           *)
LEMMA UpToDateObject ==
  ASSUME IInv, NEW s \in Sources, objRecord[s] # NoRecord, objRecord[s].output = object[s],
         objRecord[s].signature = command, objRecord[s].inputs = ListedInputs(s)
  PROVE  /\ object[s] \in Objects /\ object[s].signature = command
         /\ s \notin racedObj => object[s] = Compiled(command, CompileReads(s))
<1> USE DEF IInv
<1>1. CASE s \notin racedObj
  <2>1. object[s] = Compiled(command, ListedInputs(s))
    BY <1>1 DEF ObjectRecordsTrue
  <2>2. object[s] \in Objects /\ object[s].signature = command /\ object[s].from = ListedInputs(s)
    BY <2>1, ListedInputsType, ProductTypes, Products DEF TypeOK
  <2> QED
    BY <2>1, <2>2, ListedIsRead DEF DepfilesComplete
<1>2. CASE s \in racedObj
  BY <1>2 DEF ObjectRecordsTrue
<1> QED
  BY <1>1, <1>2

LEMMA ObjectRecordsStep ==
  ASSUME IInv, [Next]_vars
  PROVE  ObjectRecordsTrue'
<1> DEFINE True(s) ==
      /\ objRecord[s].output \in Objects
      /\ objRecord[s].output.signature = objRecord[s].signature
      /\ s \notin racedObj =>
           objRecord[s].output = Compiled(objRecord[s].signature, objRecord[s].inputs)
<1> SUFFICES ASSUME NEW s \in Sources, objRecord'[s] # NoRecord PROVE True(s)'
  BY DEF ObjectRecordsTrue
<1> USE DEF IInv
<1>1. CASE UNCHANGED <<objRecord, racedObj>>
  BY <1>1 DEF ObjectRecordsTrue
<1>2. ASSUME NEW w \in Workers, CheckObject(w) PROVE True(s)'
  BY <1>2 DEF CheckObject, ObjectRecordsTrue, TypeOK
<1>3. ASSUME NEW w \in Workers, SaveObject(w) PROVE True(s)'
  <2> DEFINE src == worker[w].src
  <2>1. CASE UNCHANGED <<objRecord, racedObj>>
    BY <2>1, <1>1
  <2>2. CASE s # src
    BY <1>3, <2>2 DEF SaveObject, ObjectRecordsTrue, TypeOK
  <2>3. CASE s = src /\ ~UNCHANGED <<objRecord, racedObj>>
    <3>1. WorkerIs(w, "save") /\ (s \notin racedObj' => Current(object[s].from.files))
          /\ objRecord'[s] = SuccessRecord(command, ListedInputs(s), object[s])
      BY <1>3, <2>3 DEF SaveObject, TypeOK
    <3>2. object[s] \in Objects /\ object[s].signature = command
      BY <3>1, <2>3 DEF DoneIsDone
    <3> QED
      BY <3>1, <3>2, CurrentObject DEF SuccessRecord
  <2> QED
    BY <2>1, <2>2, <2>3
<1> QED
  BY <1>1, <1>2, <1>3, Writers

LEMMA ImageRecordStep ==
  ASSUME IInv, [Next]_vars
  PROVE  ImageRecordTrue'
<1> USE DEF IInv
<1>1. CASE UNCHANGED <<imageRecord, racedLink>>
  BY <1>1 DEF ImageRecordTrue
<1>2. CASE CheckImage
  BY <1>2 DEF CheckImage, ImageRecordTrue
<1>3. CASE SaveImage
  <2>1. CASE UNCHANGED <<imageRecord, racedLink>>
    BY <2>1, <1>1
  <2>2. CASE ~UNCHANGED <<imageRecord, racedLink>>
    <3>1. /\ imageRecord' = SuccessRecord(command, ListedLinkInputs, image)
          /\ racedLink' <=> linkInputs # LinkReads
          /\ image = Linked(command, linkInputs, TRUE)
      BY <1>3, <2>2, Zenon DEF SaveImage, LinkedIsLinked
    <3>2. ~racedLink' => linkInputs = ListedLinkInputs
      BY <3>1 DEF LinkReads, ListedLinkInputs
    <3> QED
      BY <3>1, <3>2 DEF ImageRecordTrue, SuccessRecord
  <2> QED
    BY <2>1, <2>2
<1> QED
  BY <1>1, <1>2, <1>3, Writers

(* What a step of a worker does to the place of the sources: it takes one  *)
(* from the channel, leaves, goes on with its own, or is done with it.     *)
Takes(w) ==
  /\ \E s \in jobs : /\ jobs' = jobs \ {s}
                    /\ Active(w)' /\ worker'[w].src = s
  /\ ~Active(w)
  /\ UNCHANGED <<unfed, results>>
Leaves(w) ==
  /\ jobs' \subseteq jobs
  /\ CtxDone \/ (closed /\ jobs = {})
  /\ WorkerIs(w, "exited")' /\ ~Active(w)
  /\ UNCHANGED <<unfed, results>>
GoesOn(w) ==
  /\ Active(w) /\ Active(w)' /\ worker'[w].src = worker[w].src
  /\ UNCHANGED <<unfed, jobs, results>>
Finishes(w) ==
  /\ Active(w) /\ WorkerIs(w, "recv")'
  /\ \/ results' = results \cup {worker[w].src}
     \/ results' = results /\ poolCancelled'
  /\ UNCHANGED <<unfed, jobs>>

LEMMA WorkerMoves ==
  ASSUME TypeOK, NEW w \in Workers, WorkerStep(w)
  PROVE  /\ \A x \in Workers \ {w} : worker'[x] = worker[x]
         /\ Takes(w) \/ Leaves(w) \/ GoesOn(w) \/ Finishes(w)
<1> USE DEF WorkerIs, Active, Become
<1>1. \A x \in Workers \ {w} : worker'[x] = worker[x]
  BY DEF WorkerStep, Receive, ExitWorker, CheckObject, CompilerStarts, CompilerEnds, CompilerFails,
     SaveObject, Succeed, FailCompile, Proceed, TypeOK
<1>2. ASSUME NEW s \in Sources, Receive(w, s) PROVE Takes(w) \/ Leaves(w)
  <2>1. CASE CtxDone
    <3>1. Leaves(w)
      BY <1>2, <2>1 DEF Receive, Exited, TypeOK, Leaves
    <3> QED
      BY <3>1
  <2>2. CASE ~CtxDone
    <3>1. Takes(w)
      BY <1>2, <2>2 DEF Receive, TypeOK, Takes
    <3> QED
      BY <3>1
  <2> QED
    BY <2>1, <2>2
<1>3. ExitWorker(w) => Leaves(w)
  BY DEF ExitWorker, Exited, TypeOK, Leaves
<1>4. CheckObject(w) => GoesOn(w) \/ Finishes(w)
  <2> SUFFICES ASSUME CheckObject(w) PROVE GoesOn(w) \/ Finishes(w)
    OBVIOUS
  <2>1. /\ worker[w].at = "check"
        /\ UNCHANGED <<unfed, jobs>>
        /\ \/ worker' = [worker EXCEPT ![w] = Idle] /\ results' = results \cup {worker[w].src}
           \/ worker' = [worker EXCEPT ![w] = Idle] /\ results' = results /\ poolCancelled'
           \/ /\ worker' = [worker EXCEPT ![w] = [at |-> "compile", src |-> worker[w].src]]
              /\ results' = results
    BY DEF CheckObject, Succeed, FailCompile, Proceed
  <2> QED
    BY <2>1 DEF Idle, TypeOK, GoesOn, Finishes
<1>5. CompilerStarts(w) \/ CompilerEnds(w) => GoesOn(w)
  BY DEF CompilerStarts, CompilerEnds, Proceed, TypeOK, GoesOn
<1>6. CompilerFails(w) \/ SaveObject(w) => Finishes(w)
  BY DEF CompilerFails, SaveObject, Succeed, FailCompile, Idle, TypeOK, Finishes
<1> QED
  BY <1>1, <1>2, <1>3, <1>4, <1>5, <1>6 DEF WorkerStep

LEMMA OnePlaceStep ==
  ASSUME IInv, [Next]_vars
  PROVE  OnePlace'
<1> USE DEF IInv
<1>1. ASSUME NEW w \in Workers, WorkerStep(w) PROVE OnePlace'
  <2>1. CASE Takes(w)
    BY <1>1, <2>1, WorkerMoves DEF OnePlace, Active, Takes
  <2>2. CASE Leaves(w)
    BY <1>1, <2>2, WorkerMoves DEF OnePlace, Active, WorkerIs, Leaves
  <2>3. CASE GoesOn(w)
    BY <1>1, <2>3, WorkerMoves DEF OnePlace, Active, GoesOn
  <2>4. CASE Finishes(w)
    BY <1>1, <2>4, WorkerMoves DEF OnePlace, Active, WorkerIs, Finishes
  <2> QED
    BY <1>1, <2>1, <2>2, <2>3, <2>4, WorkerMoves
<1>2. CASE UNCHANGED <<unfed, jobs, results, worker>>
  BY <1>2 DEF OnePlace, Active
<1>3. CASE StartBuild
  BY <1>3 DEF StartBuild, OnePlace, Active, Idle
<1>4. CASE Crash
  BY <1>4 DEF Crash, OnePlace, Active, Exited
<1>5. ASSUME NEW s \in Sources, Feed(s) PROVE OnePlace'
  BY <1>5 DEF Feed, OnePlace, Active
<1> QED
  BY <1>1, <1>2, <1>3, <1>4, <1>5, Writers DEF WorkerStep

LEMMA PoolStep ==
  ASSUME IInv, [Next]_vars
  PROVE  NoCompilerOutlivesPool'
<1> USE DEF IInv
<1>1. CASE StartBuild
  BY <1>1 DEF StartBuild, NoCompilerOutlivesPool
<1>2. CASE Crash
  BY <1>2 DEF Crash, EndBuild, NoCompilerOutlivesPool, WorkerIs, Exited
<1>3. ASSUME NEW w \in Workers, WorkerStep(w) PROVE NoCompilerOutlivesPool'
  <2>1. ~WorkerIs(w, "exited")
    BY <1>3 DEF WorkerStep, Receive, ExitWorker, CheckObject, CompilerStarts, CompilerEnds,
         CompilerFails, SaveObject, WorkerIs
  <2>2. phase = "compile" /\ phase' = phase
    BY <1>3, <2>1 DEF NoCompilerOutlivesPool, WorkerStep, Receive, ExitWorker, CheckObject,
         CompilerStarts, CompilerEnds, CompilerFails, SaveObject
  <2> QED
    BY <2>2 DEF NoCompilerOutlivesPool
<1>4. CASE UNCHANGED worker /\ (UNCHANGED phase \/ FinalizeStep)
  <2>1. phase' # "compile" => phase # "compile" \/ \A w \in Workers : WorkerIs(w, "exited")
    BY <1>4 DEF FinalizeStep, EndPool, CheckImage, LinkerEnds, PostLink, LinkFails, SaveImage,
         PublishStarts, PublishEnds
  <2> QED
    BY <1>4, <2>1 DEF NoCompilerOutlivesPool, WorkerIs
<1> QED
  BY <1>1, <1>2, <1>3, <1>4, Writers

(* The context of a running pool is done for good; closing the channel and *)
(* failing are the only ways its flags change.                             *)
LEMMA PoolFlags ==
  ASSUME TypeOK, [Next]_vars
  PROVE  /\ StartBuild \/ (CtxDone => CtxDone')
         /\ StartBuild \/ UNCHANGED <<poolCancelled, firstErr>> \/ firstErr'
         /\ UNCHANGED closed \/ StartBuild \/ CloseJobs \/ Crash
<1>1. CASE UserStep
  BY <1>1 DEF UserStep, Edit, Reconfigure, LoseObject, DamageImage, Intervene, Cancel, Crash,
       pool, CtxDone
<1>2. CASE FeederStep
  BY <1>2 DEF FeederStep, CloseJobs, Feed, CtxDone
<1>3. ASSUME NEW w \in Workers, WorkerStep(w)
      PROVE  /\ CtxDone => CtxDone'
             /\ UNCHANGED <<poolCancelled, firstErr>> \/ firstErr'
             /\ UNCHANGED closed
  <2>1. UNCHANGED <<cancelled, closed>>
    BY <1>3 DEF WorkerStep, Receive, ExitWorker, CheckObject, CompilerStarts, CompilerEnds,
         CompilerFails, SaveObject
  <2>2. UNCHANGED <<poolCancelled, firstErr>> \/ (firstErr' /\ poolCancelled')
    BY <1>3 DEF WorkerStep, Receive, ExitWorker, CheckObject, CompilerStarts, CompilerEnds,
         CompilerFails, SaveObject, Succeed, FailCompile, Proceed
  <2> QED
    BY <2>1, <2>2 DEF CtxDone
<1>4. CASE FinalizeStep
  <2>1. UNCHANGED <<cancelled, poolCancelled, firstErr, closed>>
    BY <1>4 DEF FinalizeStep, EndPool, CheckImage, LinkerEnds, PostLink, LinkFails, SaveImage,
         PublishStarts, PublishEnds, pool
  <2> QED
    BY <2>1 DEF CtxDone
<1>5. CASE Rest \/ UNCHANGED vars
  BY <1>5 DEF Rest, vars, pool, CtxDone
<1> QED
  BY <1>1, <1>2, <1>3, <1>4, <1>5, Zenon DEF Next

LEMMA NothingForgottenStep ==
  ASSUME IInv, [Next]_vars
  PROVE  NothingForgotten'
<1> USE DEF IInv
<1> DEFINE Somewhere ==
      \A s \in Sources : \/ s \in unfed \cup jobs \cup results
                        \/ \E w \in Workers : Active(w) /\ worker[w].src = s
<1> DEFINE ExitsAreRight == \A w \in Workers : WorkerIs(w, "exited") => closed /\ jobs = {}
<1>1. poolCancelled' => firstErr'
  <2>1. CASE StartBuild
    BY <2>1 DEF StartBuild
  <2> QED
    BY <2>1, PoolFlags DEF NothingForgotten
<1>2. ASSUME phase' = "compile", ~CtxDone'
      PROVE  Somewhere' /\ (closed' => unfed' = {}) /\ ExitsAreRight'
  <2>1. CASE StartBuild
    BY <2>1 DEF StartBuild, WorkerIs, Idle
  <2>2. CASE ~StartBuild
    <3>1. ~CtxDone
      BY <1>2, <2>2, PoolFlags
    <3>2. ~Crash
      BY <1>2 DEF Crash, EndBuild
    <3>3. phase = "compile"
      <4>1. CASE UNCHANGED phase
        BY <1>2, <4>1
      <4>2. CASE FinalizeStep
        BY <1>2, <4>2 DEF FinalizeStep, EndPool, EndBuild, CheckImage, LinkerEnds, PostLink,
             LinkFails, SaveImage, PublishStarts, PublishEnds
      <4> QED
        BY <2>2, <3>2, <4>1, <4>2, Writers
    <3>4. Somewhere /\ (closed => unfed = {}) /\ ExitsAreRight
      BY <3>1, <3>3 DEF NothingForgotten
    <3>5. ASSUME NEW w \in Workers, WorkerStep(w)
          PROVE  Somewhere' /\ (closed' => unfed' = {}) /\ ExitsAreRight'
      <4>1. closed' = closed /\ unfed' = unfed
        BY <3>5, WorkerMoves DEF WorkerStep, Receive, ExitWorker, CheckObject, CompilerStarts,
             CompilerEnds, CompilerFails, SaveObject
      <4>2. poolCancelled' => CtxDone'
        BY DEF CtxDone
      <4>3. CASE Takes(w)
        <5>1. PICK s \in jobs : jobs' = jobs \ {s} /\ Active(w)' /\ worker'[w].src = s
          BY <4>3 DEF Takes
        <5>2. ASSUME NEW r \in Sources, NEW x \in Workers, Active(x), worker[x].src = r
              PROVE  \E y \in Workers : Active(y)' /\ worker'[y].src = r
          <6>1. x # w
            BY <4>3, <5>2 DEF Takes
          <6> QED
            BY <3>5, <5>2, <6>1, WorkerMoves DEF Active
        <5>3. Somewhere'
          BY <3>4, <4>1, <4>3, <5>1, <5>2 DEF Takes
        <5>4. ExitsAreRight'
          BY <3>4, <3>5, <4>1, <5>1, WorkerMoves DEF Active, WorkerIs
        <5> QED
          BY <3>4, <4>1, <5>3, <5>4
      <4>4. CASE Leaves(w)
        BY <3>1, <3>4, <3>5, <4>1, <4>4, WorkerMoves DEF Leaves, Active, WorkerIs
      <4>5. CASE GoesOn(w)
        BY <3>4, <3>5, <4>1, <4>5, WorkerMoves DEF GoesOn, Active, WorkerIs
      <4>6. CASE Finishes(w)
        BY <1>2, <3>4, <3>5, <4>1, <4>2, <4>6, WorkerMoves DEF Finishes, Active, WorkerIs
      <4> QED
        BY <3>5, <4>3, <4>4, <4>5, <4>6, WorkerMoves
    <3>6. ASSUME NEW s \in Sources, Feed(s)
          PROVE  Somewhere' /\ (closed' => unfed' = {}) /\ ExitsAreRight'
      BY <3>4, <3>6 DEF Feed, Active, WorkerIs
    <3>7. CASE CloseJobs
      BY <3>1, <3>4, <3>7 DEF CloseJobs, Active, WorkerIs
    <3>8. CASE UNCHANGED <<unfed, jobs, results, worker, closed>>
      BY <3>4, <3>8 DEF Active, WorkerIs
    <3> QED
      BY <2>2, <3>2, <3>5, <3>6, <3>7, <3>8, Writers, PoolFlags DEF WorkerStep
  <2> QED
    BY <2>1, <2>2
<1>3. ASSUME phase' \notin {"idle", "compile"} PROVE results' = Sources
  <2>1. ~StartBuild /\ ~Crash
    BY <1>3 DEF StartBuild, Crash, EndBuild
  <2>2. CASE EndPool
    <3>1. /\ phase = "compile" /\ closed
          /\ \A w \in Workers : WorkerIs(w, "exited")
          /\ ~firstErr /\ ~cancelled /\ UNCHANGED results
      BY <1>3, <2>2 DEF EndPool, EndBuild, pool
    <3>2. ~CtxDone
      BY <3>1 DEF NothingForgotten, CtxDone
    <3>3. unfed = {} /\ jobs = {}
      BY <3>1, <3>2, ConstantsAssumption DEF NothingForgotten
    <3>4. \A w \in Workers : ~Active(w)
      BY <3>1 DEF Active, WorkerIs
    <3> QED
      BY <3>1, <3>2, <3>3, <3>4 DEF NothingForgotten, TypeOK
  <2>3. CASE phase \notin {"idle", "compile"}
    <3>1. UNCHANGED results
      <4>1. \A w \in Workers : ~CheckObject(w) /\ ~SaveObject(w)
        BY <2>3 DEF CheckObject, SaveObject, WorkerIs, NoCompilerOutlivesPool
      <4> QED
        BY <2>1, <4>1, Writers
    <3> QED
      BY <2>3, <3>1 DEF NothingForgotten
  <2>4. CASE phase \in {"idle", "compile"} /\ ~EndPool
    <3>1. UNCHANGED phase
      BY <2>1, <2>4, Writers DEF FinalizeStep, CheckImage, LinkerEnds, PostLink, LinkFails,
         SaveImage, PublishStarts, PublishEnds
    <3> QED
      BY <1>3, <2>4, <3>1
  <2> QED
    BY <2>2, <2>3, <2>4
<1> QED
  BY <1>1, <1>2, <1>3 DEF NothingForgotten

(* A worker touches nothing but the object of its own source.             *)
LEMMA WorkerWrites ==
  ASSUME TypeOK, NEW w \in Workers, WorkerStep(w), NEW s \in Sources
  PROVE  /\ UNCHANGED <<content, command, dirtied, phase>>
         /\ object'[s] = object[s] \/ (Active(w) /\ worker[w].src = s)
         /\ s \in racedObj => s \in racedObj' \/ (Active(w) /\ worker[w].src = s)
<1> USE DEF WorkerIs, Active
<1>1. UNCHANGED <<content, command, dirtied, phase>>
  BY DEF WorkerStep, Receive, ExitWorker, CheckObject, CompilerStarts, CompilerEnds,
     CompilerFails, SaveObject, disk, history
<1>2. object'[s] = object[s] \/ (Active(w) /\ worker[w].src = s)
  BY DEF WorkerStep, Receive, ExitWorker, CheckObject, CompilerStarts, CompilerEnds,
     CompilerFails, SaveObject, disk, TypeOK
<1>3. s \in racedObj => s \in racedObj' \/ (Active(w) /\ worker[w].src = s)
  BY DEF WorkerStep, Receive, ExitWorker, CheckObject, CompilerStarts, CompilerEnds,
     CompilerFails, SaveObject, history, TypeOK
<1> QED
  BY <1>1, <1>2, <1>3

LEMMA DoneStep ==
  ASSUME IInv, [Next]_vars
  PROVE  DoneIsDone'
<1> USE DEF IInv
<1> DEFINE Made(s) == object[s] \in Objects /\ object[s].signature = command
<1> DEFINE Fresh(s) == s \notin racedObj /\ ~dirtied => object[s] = Compiled(command, CompileReads(s))
<1>1. ASSUME NEW w \in Workers, WorkerIs(w, "save")' PROVE Made(worker[w].src)'
  <2>1. ASSUME NEW x \in Workers, WorkerStep(x) PROVE Made(worker[w].src)'
    <3>1. CASE x = w
      <4>1. CompilerEnds(w)
        BY <1>1, <2>1, <3>1 DEF WorkerStep, Receive, ExitWorker, CheckObject, CompilerStarts,
             CompilerEnds, CompilerFails, SaveObject, Succeed, FailCompile, Proceed, Become,
             Idle, Exited, WorkerIs, TypeOK
      <4>2. worker[w].src \in Sources /\ worker[w].reads \in CompileInputs
        BY <4>1, WorkerTypes DEF CompilerEnds, WorkerIs, Active
      <4>3. /\ command' = command /\ worker'[w].src = worker[w].src
            /\ object'[worker[w].src] = Compiled(command, worker[w].reads)
        BY <4>1, <4>2 DEF CompilerEnds, Proceed, Become, TypeOK
      <4> QED
        BY <4>2, <4>3, ProductTypes, Products DEF TypeOK
    <3>2. CASE x # w
      <4>1. worker'[w] = worker[w] /\ WorkerIs(w, "save") /\ worker[w].src \in Sources
        BY <1>1, <2>1, <3>2, WorkerMoves, WorkerTypes DEF WorkerIs, Active
      <4>2. Made(worker[w].src)
        BY <4>1 DEF DoneIsDone
      <4>3. object'[worker[w].src] = object[worker[w].src] /\ command' = command
        BY <2>1, <3>2, <4>1, WorkerWrites DEF OnePlace, WorkerIs, Active
      <4> QED
        BY <4>1, <4>2, <4>3
    <3> QED
      BY <3>1, <3>2
  <2>2. CASE StartBuild \/ Crash
    BY <1>1, <2>2 DEF StartBuild, Crash, WorkerIs, Idle, Exited
  <2>3. CASE UNCHANGED worker /\ \A x \in Workers : ~WorkerStep(x)
    <3>1. WorkerIs(w, "save") /\ phase = "compile"
      BY <1>1, <2>3 DEF WorkerIs, NoCompilerOutlivesPool
    <3>2. UNCHANGED <<object, command>>
      BY <2>3, <3>1, Writers DEF LoseObject, Reconfigure, Building, WorkerStep
    <3> QED
      BY <2>3, <3>1, <3>2 DEF DoneIsDone
  <2> QED
    BY <2>1, <2>2, <2>3, Writers
<1>2. ASSUME Building', NEW s \in results' PROVE Made(s)' /\ Fresh(s)'
  <2>1. CASE StartBuild
    BY <1>2, <2>1 DEF StartBuild
  <2>2. ASSUME NEW w \in Workers, WorkerStep(w) PROVE Made(s)' /\ Fresh(s)'
    <3>1. Building /\ s \in Sources
      BY <1>2, <2>2, WorkerMoves, WorkerTypes, WorkerWrites DEF Building, TypeOK,
         Takes, Leaves, GoesOn, Finishes
    <3>2. UNCHANGED <<content, command, dirtied>> /\ CompileReads(s)' = CompileReads(s)
      BY <2>2, <3>1, WorkerWrites DEF CompileReads, InputsOf
    <3>3. CASE s \in results
      <4>1. object'[s] = object[s] /\ (s \in racedObj => s \in racedObj')
        BY <2>2, <3>1, <3>3, WorkerWrites DEF OnePlace
      <4>2. Made(s) /\ Fresh(s)
        BY <3>1, <3>3 DEF DoneIsDone
      <4> QED
        BY <3>2, <4>1, <4>2
    <3>4. CASE s \notin results
      <4>1. CheckObject(w) \/ SaveObject(w)
        BY <2>2, <3>4 DEF WorkerStep, Receive, ExitWorker, CompilerStarts, CompilerEnds,
             CompilerFails, FailCompile, Proceed
      <4>2. CASE CheckObject(w)
        <5>1. /\ UpToDate(objRecord[s], command, ListedInputs(s), object[s])
              /\ UNCHANGED <<object, objRecord, racedObj>>
          BY <1>2, <3>4, <4>2 DEF CheckObject, Succeed, FailCompile, Proceed
        <5>2. /\ objRecord[s] # NoRecord /\ objRecord[s].output = object[s]
              /\ objRecord[s].signature = command /\ objRecord[s].inputs = ListedInputs(s)
          BY <5>1 DEF UpToDate
        <5> QED
          BY <3>1, <3>2, <5>1, <5>2, UpToDateObject
      <4>3. CASE SaveObject(w)
        <5>1. s = worker[w].src /\ WorkerIs(w, "save") /\ UNCHANGED object
              /\ (s \notin racedObj' => Current(object[s].from.files))
          BY <1>2, <3>4, <4>3 DEF SaveObject, Succeed, FailCompile, TypeOK
        <5>2. Made(s) /\ Closed(s, object[s].from)
          BY <3>1, <5>1 DEF DoneIsDone, DepfilesComplete
        <5>3. s \notin racedObj' => object[s] = Compiled(command, CompileReads(s))
          BY <3>1, <5>1, <5>2, CurrentObject, ListedIsRead, Products
        <5> QED
          BY <3>2, <5>1, <5>2, <5>3
      <4> QED
        BY <4>1, <4>2, <4>3
    <3> QED
      BY <3>3, <3>4
  <2>3. CASE ~StartBuild /\ \A w \in Workers : ~WorkerStep(w)
    <3>1. Building
      BY <1>2, <2>3, Writers DEF Building, Crash, EndBuild, FinalizeStep, EndPool, CheckImage,
         LinkerEnds, PostLink, LinkFails, SaveImage, PublishStarts, PublishEnds
    <3>2. UNCHANGED <<object, command, results, racedObj>>
      BY <2>3, <3>1, Writers DEF LoseObject, Reconfigure, Building, WorkerStep
    <3>3. dirtied' \/ (UNCHANGED <<content, dirtied>>)
      BY <2>3, Writers DEF Edit, Intervene
    <3>4. Made(s) /\ Fresh(s)
      BY <1>2, <3>1, <3>2 DEF DoneIsDone
    <3> QED
      BY <3>2, <3>3, <3>4 DEF CompileReads, InputsOf
  <2> QED
    BY <2>1, <2>2, <2>3
<1> QED
  BY <1>1, <1>2 DEF DoneIsDone

LEMMA LinkedStep ==
  ASSUME IInv, [Next]_vars
  PROVE  LinkedIsLinked'
<1> USE DEF IInv
<1>1. CASE StartBuild \/ Crash
  BY <1>1 DEF StartBuild, Crash, EndBuild, LinkedIsLinked
<1>2. CASE FinalizeStep
  <2> USE DEF LinkedIsLinked
  <2>1. CASE EndPool \/ LinkFails \/ PublishEnds
    BY <2>1 DEF EndPool, LinkFails, PublishEnds, EndBuild
  <2>2. CASE CheckImage
    <3>1. CASE phase' = "publish"
      <4>1. /\ imageRecord # NoRecord /\ imageRecord.output = image
            /\ imageRecord.signature = command /\ imageRecord.inputs = LinkReads
            /\ UNCHANGED <<image, racedLink, command>> /\ LinkReads' = LinkReads
        BY <2>2, <3>1 DEF CheckImage, UpToDate, ListedLinkInputs, LinkReads
      <4> QED
        BY <3>1, <4>1 DEF ImageRecordTrue
    <3>2. CASE phase' # "publish"
      BY <2>2, <3>2 DEF CheckImage
    <3> QED
      BY <3>1, <3>2
  <2>3. CASE LinkerEnds
    BY <2>3 DEF LinkerEnds
  <2>4. CASE PostLink
    BY <2>4 DEF PostLink
  <2>5. CASE SaveImage
    <3>1. CASE phase' = "publish"
      <4>1. /\ racedLink' <=> linkInputs # LinkReads
            /\ image = Linked(command, linkInputs, TRUE)
            /\ UNCHANGED <<image, command>> /\ LinkReads' = LinkReads
        BY <2>5, <3>1, Zenon DEF SaveImage, LinkReads, EndBuild
      <4> QED
        BY <3>1, <4>1
    <3>2. CASE phase' # "publish"
      BY <2>5, <3>2 DEF SaveImage, EndBuild
    <3> QED
      BY <3>1, <3>2
  <2>6. CASE PublishStarts
    <3>1. UNCHANGED <<image, command, racedLink, dirtied>> /\ LinkReads' = LinkReads
      BY <2>6 DEF PublishStarts, LinkReads
    <3>2. phase = "publish" /\ phase' \in {"copying", "idle"}
      BY <2>6 DEF PublishStarts, EndBuild
    <3> QED
      BY <3>1, <3>2
  <2> QED
    BY <1>2, <2>1, <2>2, <2>3, <2>4, <2>5, <2>6 DEF FinalizeStep
<1>3. CASE ~StartBuild /\ ~Crash /\ ~FinalizeStep
  <2>1. UNCHANGED <<phase, linkInputs, racedLink>>
    BY <1>3, Writers DEF FinalizeStep
  <2>2. CASE phase \in {"saveLink", "publish", "copying"}
    <3>1. Building /\ \A w \in Workers : ~WorkerStep(w)
      BY <2>2 DEF Building, NoCompilerOutlivesPool, WorkerIs, WorkerStep, Receive, ExitWorker,
         CheckObject, CompilerStarts, CompilerEnds, CompilerFails, SaveObject
    <3>2. UNCHANGED <<image, command, object>>
      BY <1>3, <3>1, Writers DEF DamageImage, Reconfigure, LoseObject, Building, WorkerStep,
         FinalizeStep
    <3>3. dirtied' \/ UNCHANGED <<content, dirtied>>
      BY <1>3, Writers DEF Edit, Intervene
    <3> QED
      BY <2>1, <3>2, <3>3 DEF LinkedIsLinked, LinkReads
  <2>3. CASE phase \notin {"saveLink", "publish", "copying"}
    BY <2>1, <2>3 DEF LinkedIsLinked
  <2> QED
    BY <2>2, <2>3
<1> QED
  BY <1>1, <1>2, <1>3

LEMMA OutcomeStep ==
  ASSUME IInv, [Next]_vars
  PROVE  OutcomeOfEnded'
<1> USE DEF IInv, OutcomeOfEnded, Building
<1>1. CASE StartBuild \/ Crash
  BY <1>1 DEF StartBuild, Crash, EndBuild
<1>2. CASE FinalizeStep
  BY <1>2 DEF FinalizeStep, EndPool, CheckImage, LinkerEnds, PostLink, LinkFails, SaveImage,
     PublishStarts, PublishEnds, EndBuild, history
<1>3. CASE UNCHANGED phase /\ UNCHANGED outcome
  BY <1>3
<1> QED
  BY <1>1, <1>2, <1>3, Writers

(* What is about to be published is the clean image.                       *)
LEMMA PublishIsClean ==
  ASSUME IInv, phase \in {"publish", "copying"}, ~dirtied, racedObj = {}, ~racedLink
  PROVE  image = CleanImage
<1> USE DEF IInv
<1>1. image = Linked(command, LinkReads, TRUE)
  BY DEF LinkedIsLinked
<1>2. results = Sources
  BY DEF NothingForgotten
<1>3. \A s \in Sources : object[s] = Compiled(command, CompileReads(s))
  BY <1>2 DEF DoneIsDone, Building
<1>4. object = [s \in Sources |-> Compiled(command, CompileReads(s))]
  BY <1>3 DEF TypeOK
<1> QED
  BY <1>1, <1>4 DEF LinkReads, CleanImage

LEMMA SuccessStep ==
  ASSUME IInv, [Next]_vars
  PROVE  SuccessIsClean'
<1> SUFFICES ASSUME outcome' = "ok", ~dirtied', racedObj' = {}, ~racedLink'
             PROVE  installed' = CleanImage'
  BY DEF SuccessIsClean
<1> USE DEF IInv
<1>1. CASE PublishStarts \/ PublishEnds
  <2>1. UNCHANGED <<content, command, object, image, dirtied, racedObj, racedLink>>
        /\ phase \in {"publish", "copying"}
    BY <1>1 DEF PublishStarts, PublishEnds
  <2>2. installed' = image
    BY <1>1, <2>1 DEF PublishStarts, PublishEnds, EndBuild, OutcomeOfEnded, Building
  <2>3. image = CleanImage
    BY <2>1, PublishIsClean
  <2>4. CleanImage' = CleanImage
    BY <2>1 DEF CleanImage, CompileReads, InputsOf
  <2> QED
    BY <2>2, <2>3, <2>4
<1>2. CASE ~(PublishStarts \/ PublishEnds)
  <2>1. UNCHANGED <<outcome, phase>>
    BY <1>2, Writers DEF StartBuild, Crash, FinalizeStep, EndPool, CheckImage, LinkerEnds, PostLink,
       LinkFails, SaveImage, EndBuild, history, OutcomeOfEnded, Building
  <2>2. phase = "idle" /\ outcome = "ok"
    BY <2>1 DEF OutcomeOfEnded, Building
  <2>3. \A w \in Workers : ~WorkerStep(w)
    BY <2>2 DEF NoCompilerOutlivesPool, WorkerIs, WorkerStep, Receive, ExitWorker,
       CheckObject, CompilerStarts, CompilerEnds, CompilerFails, SaveObject
  <2>4. UNCHANGED <<content, command, object, racedObj, racedLink, dirtied>>
    <3>1. ~StartBuild /\ ~CheckImage /\ ~SaveImage
      BY <2>2 DEF StartBuild, CheckImage, SaveImage
    <3> QED
      BY <2>3, <3>1, Writers DEF Edit, Reconfigure, LoseObject, Intervene, WorkerStep
  <2>5. CleanImage' = CleanImage
    BY <2>4 DEF CleanImage, CompileReads, InputsOf
  <2> QED
    BY <1>2, <2>2, <2>4, <2>5, Writers DEF SuccessIsClean
<1> QED
  BY <1>1, <1>2

-----------------------------------------------------------------------------
(* The theorems *)

LEMMA InductiveInit == Init => IInv
<1> SUFFICES ASSUME Init PROVE IInv
  OBVIOUS
<1>1. DepfilesComplete /\ ObjectRecordsTrue /\ ImageRecordTrue
  BY Products DEF Init, DepfilesComplete, ObjectRecordsTrue, ImageRecordTrue, WorkerIs, Exited
<1>2. OnePlace /\ NoCompilerOutlivesPool /\ NothingForgotten
  BY DEF Init, OnePlace, NoCompilerOutlivesPool, NothingForgotten, Active, WorkerIs, Exited
<1>3. DoneIsDone /\ LinkedIsLinked /\ OutcomeOfEnded /\ SuccessIsClean
  BY DEF Init, DoneIsDone, LinkedIsLinked, OutcomeOfEnded, SuccessIsClean, Building, WorkerIs, Exited
<1> QED
  BY <1>1, <1>2, <1>3, TypeInit DEF IInv

(* What every reachable state satisfies.                                   *)
THEOREM Inductive == Spec => []IInv
<1>1. IInv /\ [Next]_vars => IInv'
  <2> SUFFICES ASSUME IInv, [Next]_vars PROVE IInv'
    OBVIOUS
  <2>1. TypeOK'
    BY TypeStep DEF IInv
  <2> QED
    BY <2>1, DepfilesStep, ObjectRecordsStep, ImageRecordStep, OnePlaceStep, PoolStep,
       NothingForgottenStep, DoneStep, LinkedStep, OutcomeStep, SuccessStep DEF IInv
<1> QED
  BY <1>1, InductiveInit, PTL DEF Spec

(* However builds fail, are cancelled, are killed or find outputs missing, *)
(* a build that succeeds with nothing edited under it publishes what a     *)
(* build from scratch would publish (scheduler_compile.go,                 *)
(* scheduler_link.go, signature.go).                                       *)
THEOREM IncrementalIsClean == Spec => []SuccessIsClean
<1>1. IInv => SuccessIsClean
  BY DEF IInv
<1> QED
  BY <1>1, Inductive, PTL

(* A record on disk never vouches for an output its command did not finish *)
(* from the listed inputs (invalidateActionRecord, saveActionRecord).      *)
THEOREM HonestRecords == Spec => []RecordsAreHonest
<1>1. IInv => RecordsAreHonest
  BY DEF IInv, RecordsAreHonest, ObjectRecordsTrue, ImageRecordTrue
<1> QED
  BY <1>1, Inductive, PTL

(* No link starts before every object of the target is made by this        *)
(* build's command, whatever the pool met (compileAll, finalizeTarget).    *)
THEOREM WholeTargetLinked == Spec => []LinkSeesWholeTarget
<1>1. IInv => LinkSeesWholeTarget
  BY Products DEF IInv, LinkSeesWholeTarget, NothingForgotten, DoneIsDone, Building
<1> QED
  BY <1>1, Inductive, PTL

(* compileAll never returns before the last compiler is gone, for any      *)
(* number of sources and goroutines.                                       *)
THEOREM PoolReaped == Spec => []NoCompilerOutlivesPool
<1>1. IInv => NoCompilerOutlivesPool
  BY DEF IInv
<1> QED
  BY <1>1, Inductive, PTL

-----------------------------------------------------------------------------
(* A build after which nothing changed                                     *)

ObjectKept(s) == UpToDate(objRecord[s], command, ListedInputs(s), object[s])
ImageKept == UpToDate(imageRecord, command, ListedLinkInputs, image)
AllKept == (\A s \in Sources : ObjectKept(s)) /\ ImageKept /\ installed = image

(* What a build is done with, the next build would keep.                   *)
DoneIsKept ==
  Building /\ ~dirtied =>
    /\ \A s \in results : ObjectKept(s)
    /\ phase \in {"publish", "copying"} => ImageKept
SuccessIsKept == outcome = "ok" /\ ~dirtied => AllKept

(* So a build after which nothing changed never gets to a tool.            *)
Tools == {"compile", "compiling", "save"}
NoopRunsNothing ==
  noop =>
    /\ AllKept
    /\ phase \notin {"linking", "postlink", "saveLink", "copying"}
    /\ \A w \in Workers : worker[w].at \notin Tools

NoopInv == IInv /\ DoneIsKept /\ SuccessIsKept /\ NoopRunsNothing

LEMMA KeptStays ==
  /\ \A s \in Sources :
       UNCHANGED <<content, command, object[s], objRecord[s]>> => ObjectKept(s)' = ObjectKept(s)
  /\ UNCHANGED <<content, command, object, image, imageRecord>> => ImageKept' = ImageKept
BY DEF ObjectKept, ListedInputs, ImageKept, ListedLinkInputs

(* Nobody else clears the mark of a change, or sets that of no change.     *)
LEMMA HistoryWriters ==
  ASSUME [Next]_vars, ~StartBuild
  PROVE  (dirtied => dirtied') /\ (noop' => noop)
<1>1. CASE UserStep
  BY <1>1 DEF UserStep, Edit, Reconfigure, LoseObject, DamageImage, Intervene, Cancel, Crash, history
<1>2. ASSUME NEW w \in Workers, WorkerStep(w) PROVE UNCHANGED <<dirtied, noop>>
  BY <1>2 DEF WorkerStep, Receive, ExitWorker, CheckObject, CompilerStarts, CompilerEnds,
     CompilerFails, SaveObject, history
<1>3. CASE FeederStep \/ Rest \/ UNCHANGED vars
  BY <1>3 DEF FeederStep, CloseJobs, Feed, Rest, vars, history
<1>4. FinalizeStep => UNCHANGED <<dirtied, noop>>
  BY DEF FinalizeStep, EndPool, CheckImage, LinkerEnds, PostLink, LinkFails, SaveImage,
     PublishStarts, PublishEnds, history
<1> QED
  BY <1>1, <1>2, <1>3, <1>4 DEF Next

(* While a build runs, the files are changed only by what marks it.        *)
LEMMA ChangesAreMarked ==
  ASSUME [Next]_vars, ~StartBuild, ~dirtied'
  PROVE  UNCHANGED <<content, command>> /\ ~dirtied
         /\ ~DamageImage /\ \A s \in Sources : ~LoseObject(s)
BY HistoryWriters, Writers DEF Edit, Reconfigure, LoseObject, DamageImage, Intervene

LEMMA WorkerRecords ==
  ASSUME TypeOK, NEW w \in Workers, WorkerStep(w), NEW s \in Sources
  PROVE  objRecord'[s] = objRecord[s] \/ (Active(w) /\ worker[w].src = s)
BY DEF WorkerStep, Receive, ExitWorker, CheckObject, CompilerStarts, CompilerEnds,
   CompilerFails, SaveObject, disk, TypeOK, WorkerIs, Active

LEMMA DoneKeptStep ==
  ASSUME NoopInv, [Next]_vars
  PROVE  DoneIsKept'
<1> SUFFICES ASSUME Building', ~dirtied'
             PROVE  /\ \A s \in results' : ObjectKept(s)'
                    /\ phase' \in {"publish", "copying"} => ImageKept'
  BY DEF DoneIsKept
<1> USE DEF NoopInv, IInv
<1>1. CASE StartBuild
  BY <1>1 DEF StartBuild
<1>2. CASE ~StartBuild
  <2>0. UNCHANGED <<content, command>> /\ ~dirtied /\ ~DamageImage /\ \A r \in Sources : ~LoseObject(r)
    BY <1>2, ChangesAreMarked
  <2>1. Building
    BY <1>2, Writers DEF Building, Crash, EndBuild, FinalizeStep, EndPool, CheckImage,
       LinkerEnds, PostLink, LinkFails, SaveImage, PublishStarts, PublishEnds
  <2>2. ASSUME NEW s \in results' PROVE ObjectKept(s)'
    <3>1. s \in Sources
      BY TypeStep DEF TypeOK
    <3>2. ASSUME NEW w \in Workers, WorkerStep(w) PROVE ObjectKept(s)'
      <4>1. CASE s \in results
        <5>1. object'[s] = object[s] /\ objRecord'[s] = objRecord[s]
          BY <3>1, <3>2, <4>1, WorkerWrites, WorkerRecords DEF OnePlace
        <5> QED
          BY <2>0, <2>1, <3>1, <4>1, <5>1, KeptStays DEF DoneIsKept
      <4>2. CASE s \notin results
        <5>1. CheckObject(w) \/ SaveObject(w)
          BY <3>2, <4>2 DEF WorkerStep, Receive, ExitWorker, CompilerStarts, CompilerEnds,
               CompilerFails, FailCompile, Proceed
        <5>2. CASE CheckObject(w)
          <6>1. ObjectKept(s) /\ UNCHANGED <<object, objRecord>>
            BY <4>2, <5>2 DEF CheckObject, Succeed, FailCompile, Proceed, ObjectKept
          <6> QED
            BY <2>0, <3>1, <6>1, KeptStays
        <5>3. CASE SaveObject(w)
          <6>1. /\ s = worker[w].src /\ WorkerIs(w, "save") /\ UNCHANGED object
                /\ Readable(ListedInputs(s).files)
                /\ objRecord'[s] = SuccessRecord(command, ListedInputs(s), object[s])
            BY <3>1, <4>2, <5>3 DEF SaveObject, Succeed, FailCompile, TypeOK
          <6>2. object[s] \in Objects
            BY <6>1 DEF DoneIsDone
          <6>3. ListedInputs(s)' = ListedInputs(s)
            BY <2>0, <6>1 DEF ListedInputs
          <6>4. objRecord'[s] # NoRecord
            <7>1. objRecord'[s] \in ObjectRecords
              BY <3>1, <6>1, <6>2, ListedInputsType, RecordTypes DEF TypeOK, ObjectFiles
            <7> QED
              BY <7>1, SentinelAssumption
          <6> QED
            BY <2>0, <6>1, <6>2, <6>3, <6>4, Products DEF ObjectKept, UpToDate, SuccessRecord
        <5> QED
          BY <5>1, <5>2, <5>3
      <4> QED
        BY <4>1, <4>2
    <3>3. CASE \A w \in Workers : ~WorkerStep(w)
      <4>1. UNCHANGED <<object, objRecord, results>>
        BY <1>2, <2>0, <3>3, Writers DEF WorkerStep
      <4> QED
        BY <2>0, <2>1, <3>1, <4>1, KeptStays DEF DoneIsKept
    <3> QED
      BY <3>2, <3>3
  <2>3. ASSUME phase' \in {"publish", "copying"} PROVE ImageKept'
    <3>1. CASE CheckImage
      <4>1. ImageKept /\ UNCHANGED <<object, image, imageRecord>>
        BY <2>3, <3>1 DEF CheckImage, ImageKept
      <4> QED
        BY <2>0, <4>1, KeptStays
    <3>2. CASE SaveImage
      <4>1. /\ phase = "saveLink" /\ UNCHANGED <<object, image>> /\ Readable(ListedLinkInputs.files)
            /\ imageRecord' = SuccessRecord(command, ListedLinkInputs, image)
        BY <2>3, <3>2 DEF SaveImage, EndBuild
      <4>2. image \in Images
        BY <4>1, ProductTypes DEF LinkedIsLinked, TypeOK
      <4>3. imageRecord' # NoRecord /\ image # NoFile
        BY <4>1, <4>2, LinkReadsType, RecordTypes, SentinelAssumption DEF TypeOK, ImageFiles
      <4>4. ListedLinkInputs' = ListedLinkInputs
        BY <2>0, <4>1 DEF ListedLinkInputs
      <4> QED
        BY <2>0, <4>1, <4>3, <4>4 DEF ImageKept, UpToDate, SuccessRecord
    <3>3. CASE ~CheckImage /\ ~SaveImage
      <4>1. phase \in {"publish", "copying"}
        BY <1>2, <2>3, <3>3, Writers DEF Crash, EndBuild, FinalizeStep, EndPool, LinkerEnds, PostLink,
           LinkFails, PublishStarts, PublishEnds
      <4>2. \A w \in Workers : ~WorkerStep(w)
        BY <4>1 DEF NoCompilerOutlivesPool, WorkerIs, WorkerStep, Receive, ExitWorker, CheckObject,
           CompilerStarts, CompilerEnds, CompilerFails, SaveObject
      <4>3. UNCHANGED <<object, image, imageRecord>>
        BY <2>0, <3>3, <4>1, <4>2, Writers DEF WorkerStep, LinkerEnds, PostLink
      <4> QED
        BY <2>0, <2>1, <4>1, <4>3, KeptStays DEF DoneIsKept
    <3> QED
      BY <3>1, <3>2, <3>3
  <2> QED
    BY <2>2, <2>3
<1> QED
  BY <1>1, <1>2

LEMMA SuccessKeptStep ==
  ASSUME NoopInv, [Next]_vars
  PROVE  SuccessIsKept'
<1> SUFFICES ASSUME outcome' = "ok", ~dirtied' PROVE AllKept'
  BY DEF SuccessIsKept
<1> USE DEF NoopInv, IInv
<1>0. ~StartBuild
  BY DEF StartBuild
<1>1. UNCHANGED <<content, command>> /\ ~dirtied /\ ~DamageImage /\ \A s \in Sources : ~LoseObject(s)
  BY <1>0, ChangesAreMarked
<1>2. CASE PublishStarts \/ PublishEnds
  <2>1. UNCHANGED <<object, objRecord, image, imageRecord>> /\ phase \in {"publish", "copying"}
    BY <1>2 DEF PublishStarts, PublishEnds
  <2>2. installed' = image
    BY <1>2, <2>1 DEF PublishStarts, PublishEnds, EndBuild, OutcomeOfEnded, Building
  <2>3. results = Sources
    BY <2>1 DEF NothingForgotten
  <2> QED
    BY <1>1, <2>1, <2>2, <2>3, KeptStays DEF DoneIsKept, Building, AllKept
<1>3. CASE ~(PublishStarts \/ PublishEnds)
  <2>1. UNCHANGED <<outcome, phase>>
    BY <1>3, Writers DEF StartBuild, Crash, FinalizeStep, EndPool, CheckImage, LinkerEnds, PostLink,
       LinkFails, SaveImage, EndBuild, history, OutcomeOfEnded, Building
  <2>2. phase = "idle" /\ outcome = "ok"
    BY <2>1 DEF OutcomeOfEnded, Building
  <2>3. \A w \in Workers : ~WorkerStep(w)
    BY <2>2 DEF NoCompilerOutlivesPool, WorkerIs, WorkerStep, Receive, ExitWorker,
       CheckObject, CompilerStarts, CompilerEnds, CompilerFails, SaveObject
  <2>4. ~CheckImage /\ ~LinkerEnds /\ ~PostLink /\ ~SaveImage
    BY <2>2 DEF CheckImage, LinkerEnds, PostLink, SaveImage
  <2>5. UNCHANGED <<object, objRecord, image, imageRecord, installed>>
    BY <1>1, <1>3, <2>3, <2>4, Writers DEF WorkerStep
  <2> QED
    BY <1>1, <2>2, <2>5, KeptStays DEF SuccessIsKept, AllKept
<1> QED
  BY <1>2, <1>3

(* While nothing has changed, nothing is written.                          *)
LEMMA NoopStep ==
  ASSUME NoopInv, [Next]_vars, noop, noop'
  PROVE  UNCHANGED disk
<1> USE DEF NoopInv, IInv
<1>1. /\ AllKept
      /\ phase \notin {"linking", "postlink", "saveLink", "copying"}
      /\ \A w \in Workers : worker[w].at \notin Tools
  BY DEF NoopRunsNothing
<1>2. UNCHANGED <<content, command>> /\ ~DamageImage /\ \A s \in Sources : ~LoseObject(s)
  BY Writers DEF Edit, Reconfigure, LoseObject, DamageImage, Intervene
<1>3. \A w \in Workers : ~CompilerStarts(w) /\ ~CompilerEnds(w) /\ ~CompilerFails(w) /\ ~SaveObject(w)
  BY <1>1 DEF CompilerStarts, CompilerEnds, CompilerFails, SaveObject, WorkerIs, Tools
<1>4. UNCHANGED object
  BY <1>2, <1>3, Writers
<1>5. UNCHANGED objRecord
  <2>1. ASSUME NEW w \in Workers, CheckObject(w) PROVE UNCHANGED objRecord
    <3>1. worker[w].src \in Sources
      BY <2>1, WorkerTypes DEF CheckObject, WorkerIs, Active
    <3> QED
      BY <1>1, <2>1, <3>1 DEF CheckObject, AllKept, ObjectKept
  <2> QED
    BY <1>3, <2>1, Writers
<1>6. UNCHANGED <<image, imageRecord>>
  <2>1. CASE CheckImage
    BY <1>1, <2>1 DEF CheckImage, AllKept, ImageKept
  <2>2. ~LinkerEnds /\ ~PostLink /\ ~SaveImage
    BY <1>1 DEF LinkerEnds, PostLink, SaveImage
  <2> QED
    BY <1>2, <2>1, <2>2, Writers
<1>7. UNCHANGED installed
  BY <1>1, Writers DEF PublishStarts, PublishEnds, AllKept
<1> QED
  BY <1>2, <1>4, <1>5, <1>6, <1>7 DEF disk

LEMMA NoopRunsStep ==
  ASSUME NoopInv, [Next]_vars
  PROVE  NoopRunsNothing'
<1> SUFFICES ASSUME noop'
             PROVE  /\ AllKept'
                    /\ phase' \notin {"linking", "postlink", "saveLink", "copying"}
                    /\ \A w \in Workers : worker'[w].at \notin Tools
  BY DEF NoopRunsNothing
<1> USE DEF NoopInv, IInv
<1>0. UNCHANGED disk => AllKept' = AllKept
  BY KeptStays DEF disk, AllKept
<1>1. CASE StartBuild
  BY <1>0, <1>1 DEF StartBuild, SuccessIsKept, disk, Idle, Tools
<1>2. CASE ~StartBuild
  <2>1. noop
    BY <1>2, HistoryWriters
  <2>2. /\ AllKept
        /\ phase \notin {"linking", "postlink", "saveLink", "copying"}
        /\ \A w \in Workers : worker[w].at \notin Tools
    BY <2>1 DEF NoopRunsNothing
  <2>3. AllKept'
    BY <1>0, <2>1, <2>2, NoopStep
  <2>4. phase' \notin {"linking", "postlink", "saveLink", "copying"}
    <3>1. CASE CheckImage
      BY <2>2, <3>1 DEF CheckImage, AllKept, ImageKept
    <3>2. CASE PublishStarts
      BY <2>2, <3>2 DEF PublishStarts, AllKept, EndBuild
    <3>3. CASE ~CheckImage /\ ~PublishStarts
      BY <1>2, <2>2, <3>3, Writers DEF Crash, EndBuild, FinalizeStep, EndPool, LinkerEnds, PostLink,
         LinkFails, SaveImage, PublishEnds
    <3> QED
      BY <3>1, <3>2, <3>3
  <2>5. ASSUME NEW w \in Workers PROVE worker'[w].at \notin Tools
    <3>1. ASSUME NEW x \in Workers, WorkerStep(x), x = w PROVE worker'[w].at \notin Tools
      <4>1. CASE CheckObject(w)
        <5>1. worker[w].src \in Sources
          BY <4>1, WorkerTypes DEF CheckObject, WorkerIs, Active
        <5> QED
          BY <2>2, <4>1, <5>1 DEF CheckObject, AllKept, ObjectKept, Succeed, Become, Idle, Tools, TypeOK
      <4>2. CASE ~CheckObject(w)
        <5>1. ExitWorker(w) \/ \E s \in Sources : Receive(w, s)
          BY <2>2, <3>1, <4>2 DEF WorkerStep, CompilerStarts, CompilerEnds, CompilerFails,
             SaveObject, WorkerIs, Tools
        <5>2. worker'[w] = Exited \/ worker'[w].at = "check"
          BY <5>1 DEF ExitWorker, Receive, Become, TypeOK
        <5> QED
          BY <5>2 DEF Exited, Tools
      <4> QED
        BY <4>1, <4>2
    <3>2. ASSUME NEW x \in Workers, WorkerStep(x), x # w PROVE worker'[w].at \notin Tools
      BY <2>2, <3>2, WorkerMoves
    <3>3. CASE Crash
      BY <3>3 DEF Crash, Exited, Tools
    <3> QED
      BY <1>2, <2>2, <3>1, <3>2, <3>3, Writers
  <2> QED
    BY <2>3, <2>4, <2>5
<1> QED
  BY <1>1, <1>2

(* A build after which nothing changed is followed by one that runs no     *)
(* tool and writes nothing: what a successful build leaves, checkAction    *)
(* keeps, every object, the image and the published copy.                  *)
THEOREM NothingTouched == Spec => NoopBuildTouchesNothing
<1>1. Init => DoneIsKept /\ SuccessIsKept /\ NoopRunsNothing
  BY DEF Init, DoneIsKept, SuccessIsKept, NoopRunsNothing, Building
<1>2. NoopInv /\ [Next]_vars => DoneIsKept' /\ SuccessIsKept' /\ NoopRunsNothing'
  BY DoneKeptStep, SuccessKeptStep, NoopRunsStep
<1>3. NoopInv /\ [Next]_vars => [noop /\ noop' => UNCHANGED disk]_vars
  BY NoopStep
<1> QED
  BY <1>1, <1>2, <1>3, Inductive, PTL DEF Spec, NoopInv, NoopBuildTouchesNothing

-----------------------------------------------------------------------------
(* The run of one command *)

(* What the steps of a call keep, of which CommandsAreRight is a part: a   *)
(* command runs only under Wait, with the arguments its call gave it; what *)
(* its result says is settled step by step; what was killed was killed     *)
(* with its group; what was not collected was closed.                      *)
Unstarted ==
  /\ pc \in {"call", "start"} => program = "none" /\ watch = "none" /\ result = "none"
  /\ program = "none" => child.at = "none"
  /\ At("call") => progress = "none"
  /\ At("start") => args = WithBudget(call) /\ ~call.dryRun
  /\ call.dryRun => pc \in {"call", "returned"}
StartedAsAsked ==
  /\ program # "none" => args = WithBudget(call) /\ ~call.dryRun
  /\ pc \in {"wait", "collected", "output"} => program # "none"
  /\ Running(program) => At("wait")
ResultSoFar ==
  /\ At("wait") => result = "none"
  /\ pc \in {"collected", "output", "stop", "join", "returned"} =>
       (result = "none" => program = "ok" \/ (call.dryRun /\ At("returned")))
  /\ At("returned") /\ program = "killed" => result = context
KilledWithGroup ==
  /\ program = "killed" => Ended /\ ~(Lives /\ child.group)
  /\ watch = "killed" => Ended
OutputSettled ==
  /\ pc \in {"stop", "join", "returned"} /\ program # "none" => EndOfOutput \/ (output.closed /\ result # "none")
  /\ watch # "none" => pc \in {"wait", "collected"}
  /\ At("returned") => progress = "none"
CallInvariant ==
  CallTypeOK /\ Unstarted /\ StartedAsAsked /\ ResultSoFar /\ KilledWithGroup /\ OutputSettled


(* Numbers up to a bound have a last one. *)
LEMMA LastNumber ==
  ASSUME NEW N \in Nat, NEW B \in SUBSET (1..N), B # {}
  PROVE  \E n \in B : \A m \in B : m <= n
<1> DEFINE Less == OpToRel(<, Nat)
           From == {d \in 0..N : N - d \in B}
<1>1. IsWellFoundedOn(Less, Nat)
  BY NatLessThanWellFounded
<1>2. \A x, y \in Nat : y < x => <<y, x>> \in Less
  BY DEF OpToRel
<1>3. From \subseteq Nat /\ \A m \in B : N - m \in From
  OBVIOUS
<1>4. From # {}
  BY <1>3
<1> HIDE DEF Less
<1>5. PICK d \in From : \A e \in From : <<e, d>> \notin Less
  <2> HIDE DEF From
  <2> QED
    BY <1>1, <1>3, <1>4, WFMin
<1>6. \A m \in B : d <= N - m
  <2>1. ASSUME NEW m \in B PROVE ~(N - m < d)
    BY <1>2, <1>3, <1>5
  <2> QED
    BY <1>3, <2>1
<1>7. N - d \in B /\ \A m \in B : m <= N - d
  BY <1>6
<1> QED
  BY <1>7

(* What a command takes is what the last of its options that says it says. *)
LEMMA LevelSaid ==
  ASSUME NEW as, NEW env \in BOOLEAN, as.options \in Seq({"all", "jobs", "budget"}), Saying(as) # {}
  PROVE  \E i \in Saying(as) : /\ \A j \in Saying(as) : j <= i
                               /\ Level(as, env) = as.options[i]
<1> DEFINE last(i) == \A j \in Saying(as) : j <= i
           n == CHOOSE i \in Saying(as) : last(i)
<1>0. Len(as.options) \in Nat /\ DOMAIN as.options = 1..Len(as.options)
  <2> DEFINE o == as.options
  <2>1. o \in Seq({"all", "jobs", "budget"})
    OBVIOUS
  <2> HIDE DEF o
  <2>2. Len(o) \in Nat /\ DOMAIN o = 1..Len(o)
    BY <2>1
  <2> QED
    BY <2>2 DEF o
<1>1. \E i \in Saying(as) : last(i)
  <2>1. Saying(as) \in SUBSET (1..Len(as.options))
    BY <1>0 DEF Saying
  <2> QED
    BY <1>0, <2>1, LastNumber
<1>2. n \in Saying(as) /\ last(n)
  BY <1>1
<1>3. Level(as, env) = as.options[n]
  BY DEF Level
<1> QED
  BY <1>2, <1>3

(* MakeArgs and CMakeBuildArgs give the budget to a list that says no      *)
(* number of jobs, as its only one that does.                              *)
LEMMA BudgetSaid ==
  ASSUME NEW c \in Possible, c.by.who \in {"make", "cmake"}
  PROVE  Level(WithBudget(c), c.jobsInEnv) =
           IF Level(c.pass, c.jobsInEnv) = "one" THEN "budget" ELSE Level(c.pass, c.jobsInEnv)
<1> DEFINE given == c.pass.options
           out == WithBudget(c).options
<1>0. c.pass \in Arguments /\ c.jobsInEnv \in BOOLEAN
  BY DEF Possible, Passed, Calls
<1>1. /\ given \in Seq({"all", "jobs"}) /\ given \in Seq({"all", "jobs", "budget"})
      /\ c.pass \in [options : Seq({"all", "jobs"}), rest : Seq(Words)]
  BY <1>0, RunnerAssumption DEF Words
<1>2. CASE Asked(c)
  <2>1. WithBudget(c) = c.pass
    BY <1>2 DEF WithBudget, MakeArgs, CMakeBuildArgs
  <2>2. Level(c.pass, c.jobsInEnv) # "one"
    <3>1. CASE Saying(c.pass) = {}
      BY <1>2, <3>1 DEF Asked, Saying, Level
    <3>2. CASE Saying(c.pass) # {}
      BY <1>0, <1>1, <3>2, LevelSaid DEF Saying
    <3> QED
      BY <3>1, <3>2
  <2> QED
    BY <2>1, <2>2
<1>3. CASE ~Asked(c)
  <2>1. Level(c.pass, c.jobsInEnv) = "one"
    <3>1. \A i \in DOMAIN given : given[i] = "all"
      BY <1>1, <1>3 DEF Asked
    <3> QED
      BY <1>3, <3>1 DEF Asked, Level, Saying
  <2>2. out = <<"budget">> \o given \/ out = given \o <<"budget">>
    BY <1>1, <1>3 DEF WithBudget, MakeArgs, CMakeBuildArgs
  <2>3. \A i \in DOMAIN given : given[i] = "all"
    BY <1>1, <1>3 DEF Asked
  <2>4. out \in Seq({"all", "jobs", "budget"})
    <3>1. <<"budget">> \in Seq({"all", "jobs", "budget"})
      OBVIOUS
    <3>2. given \in Seq({"all", "jobs", "budget"})
      BY <1>1
    <3>3. /\ <<"budget">> \o given \in Seq({"all", "jobs", "budget"})
          /\ given \o <<"budget">> \in Seq({"all", "jobs", "budget"})
      <4> HIDE DEF given
      <4> QED
        BY <3>1, <3>2
    <3> QED
      BY <2>2, <3>3
  <2>5. \E i \in DOMAIN out : out[i] = "budget"
    <3>1. CASE out = <<"budget">> \o given
      <4>1. 1 \in DOMAIN out /\ out[1] = "budget"
        BY <1>1, <3>1
      <4> QED
        BY <4>1
    <3>2. CASE out = given \o <<"budget">>
      <4>1. Len(given) + 1 \in DOMAIN out /\ out[Len(given) + 1] = "budget"
        BY <1>1, <3>2
      <4> QED
        BY <4>1
    <3> QED
      BY <2>2, <3>1, <3>2
  <2>6. Saying(WithBudget(c)) # {}
    BY <2>5 DEF Saying
  <2>7. \A i \in DOMAIN out : out[i] # "jobs"
    <3>1. CASE out = <<"budget">> \o given
      BY <1>1, <2>3, <3>1
    <3>2. CASE out = given \o <<"budget">>
      BY <1>1, <2>3, <3>2
    <3> QED
      BY <2>2, <3>1, <3>2
  <2>8. Level(WithBudget(c), c.jobsInEnv) = "budget"
    BY <1>0, <2>4, <2>6, <2>7, LevelSaid DEF Saying
  <2> QED
    BY <2>1, <2>8
<1> QED
  BY <1>2, <1>3

LEMMA CallInitInvariant == CallInit => CallInvariant
BY RunnerAssumption DEF CallInit, CallInvariant, CallTypeOK, Unstarted, StartedAsAsked, ResultSoFar, KilledWithGroup,
   OutputSettled, NoChild, NoOutput, Ended, At, Lives, Running, Places, Programs

LEMMA PipeIsSaid == call \in Possible => call.by.pipe \in BOOLEAN
<1>1. ASSUME NEW b \in Callers PROVE b.pipe \in BOOLEAN
  <2>1. CASE b \in {Of("tool", "build", FALSE, FALSE, TRUE), Of("git", "build", TRUE, FALSE, TRUE),
                    Of("doctor", "none", TRUE, FALSE, TRUE), Of("report", "none", FALSE, FALSE, TRUE)}
    <3>1. \A w, c, t, p : Of(w, c, t, p, TRUE).pipe = TRUE
      BY DEF Of
    <3> QED
      BY <2>1, <3>1, Zenon
  <2>2. CASE b \in [who : {"cmake"}, context : ScriptContexts, timeout : {FALSE}, ticks : {TRUE}, pipe : {TRUE}]
    BY <2>2
  <2>3. CASE b \in [who : {"script", "make"}, context : ScriptContexts, timeout : {FALSE}, ticks : {FALSE},
                    pipe : BOOLEAN]
    BY <2>3
  <2> QED
    BY <2>1, <2>2, <2>3 DEF Callers
<1> QED
  BY <1>1 DEF Possible, Calls

LEMMA CallStepInvariant ==
  CallInvariant /\ [CallNext]_callVars => CallInvariant'
<1> SUFFICES ASSUME CallInvariant, [CallNext]_callVars PROVE CallInvariant'
  OBVIOUS
<1> USE RunnerAssumption
<1> USE DEF CallInvariant, CallTypeOK, Unstarted, StartedAsAsked, ResultSoFar, KilledWithGroup, OutputSettled,
        Ended, At, Lives, Running, Places, Programs, Holds, EndOfOutput, processes
<1>1. CASE CancelContext
  BY <1>1 DEF CancelContext
<1>2. CASE Expire
  BY <1>2 DEF Expire
<1>3. CASE Write
  BY <1>3 DEF Write
<1>4. CASE Fork
  <2>1. child' \in [at : {"none", "alive", "gone"}, group : BOOLEAN, holds : BOOLEAN]
    <3>1. PICK group \in BOOLEAN, holds \in {FALSE, call.by.pipe} :
             child' = [at |-> "alive", group |-> group, holds |-> holds]
      BY <1>4 DEF Fork
    <3>2. holds \in BOOLEAN
      BY <3>1, PipeIsSaid
    <3> QED
      BY <3>1, <3>2
  <2>2. child'.at = "alive"
    BY <1>4 DEF Fork
  <2> QED
    BY <1>4, <2>1, <2>2 DEF Fork
<1>5. CASE ProgramExits
  BY <1>5 DEF ProgramExits
<1>6. CASE ChildExits
  BY <1>6 DEF ChildExits
<1>7. CASE DryRun
  BY <1>7 DEF DryRun, Return
<1>8. CASE Prepare
  BY <1>8 DEF Prepare
<1>9. CASE DoesNotStart
  BY <1>9 DEF DoesNotStart
<1>10. CASE Start
  BY <1>10 DEF Start
<1>11. CASE CancelCommand
  BY <1>11 DEF CancelCommand, Reached, InGroup
<1>12. CASE Collect
  BY <1>12 DEF Collect
<1>13. CASE HandOver
  BY <1>13 DEF HandOver
<1>14. CASE Copy
  BY <1>14 DEF Copy
<1>15. CASE OutputEnds
  BY <1>15 DEF OutputEnds
<1>16. CASE CloseOutput
  <2>1. output' \in [written : 0..MaxWrites, copied : 0..MaxWrites, closed : BOOLEAN] /\ output'.closed
    BY <1>16 DEF CloseOutput
  <2>2. output'.copied <= output'.written
    BY <1>16 DEF CloseOutput
  <2>3. result' \in {"none", "exit", "notFound", "delayed", "cancelled", "expired"} /\ result' # "none"
    BY <1>16 DEF CloseOutput
  <2> QED
    BY <1>16, <2>1, <2>2, <2>3 DEF CloseOutput, Delayed
<1>17. CASE Tick
  BY <1>17 DEF Tick
<1>18. CASE TickReturns
  BY <1>18 DEF TickReturns
<1>19. CASE StopProgress
  BY <1>19 DEF StopProgress
<1>20. CASE ProgressEnds
  BY <1>20 DEF ProgressEnds
<1>21. CASE Report
  BY <1>21 DEF Report, Return, Reported, Joined
<1>22. CASE UNCHANGED callVars
  BY <1>22 DEF callVars
<1> QED
  BY <1>1, <1>2, <1>3, <1>4, <1>5, <1>6, <1>7, <1>8, <1>9, <1>10, <1>11, <1>12, <1>13, <1>14, <1>15, <1>16, <1>17, <1>18, <1>19, <1>20, <1>21, <1>22 DEF CallNext

(* A command is started with what its call asks, and ends as it says: from *)
(* start to return its arguments, its processes, its output and its result *)
(* agree, whatever interrupts it and whatever it leaves running.           *)
THEOREM CallInductive == CallSpec => []CallInvariant
<1>1. CallInvariant /\ [CallNext]_callVars => CallInvariant'
  BY CallStepInvariant
<1> QED
  BY <1>1, CallInitInvariant, PTL DEF CallSpec

(* What a call returns is what became of its command, an interrupted one   *)
(* leaves nothing of its group behind, nothing goes on after the return,   *)
(* and make and cmake take the jobs they were told or else the budget.     *)
THEOREM CommandsHold == CallSpec => []CommandsAreRight
<1>1. CallInvariant => CommandsAreRight
  <2> SUFFICES ASSUME CallInvariant PROVE CommandsAreRight
    OBVIOUS
  <2>1. ResultIsTrue
    BY DEF CallInvariant, CallTypeOK, ResultIsTrue, StartedAsAsked, Unstarted, ResultSoFar, OutputSettled, EndOfOutput, At, Running, Programs
  <2>2. InterruptedIsGone
    BY DEF CallInvariant, InterruptedIsGone, KilledWithGroup
  <2>3. NothingGoesOn
    BY DEF CallInvariant, NothingGoesOn, OutputSettled, At
  <2>4. ParallelismIsAsked
    BY BudgetSaid DEF CallInvariant, CallTypeOK, StartedAsAsked, ParallelismIsAsked
  <2> QED
    BY <2>1, <2>2, <2>3, <2>4 DEF CallInvariant, CommandsAreRight
<1> QED
  BY <1>1, CallInductive, PTL
=============================================================================
