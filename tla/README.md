# vmake: a TLA+ model of the build system

vmake is a build system for C and C++ written in Go: packages describe their
targets in Go scripts (`build.go`), a resolver selects package versions from
local and remote repositories, a lockfile pins them, a source layer
materializes one git tree per package, and a scheduler compiles, links,
post-processes and publishes the targets, reusing what earlier invocations
left on disk.

This directory is the verification project kept beside that code. It models the
parts where correctness depends on an order of events: builds that fail, are
cancelled or killed and are then continued; several vmake processes on one user
directory; caches that are fetched, reused and removed; locks; what an option, a
version, a link line or a toolchain is when several scripts have a say in it; and
the configuration editor, which is a state machine of its own.

    tlc -workers 2 -config MCBuild_parts.cfg MCBuild.tla              # one run
    tlapm TargetBuildProofs.tla                                       # one proof

`PROJECT.json` lists the runs, the mutants that show each property can be
violated by a plausible bug, the source lines behind every definition, the
hazards, the findings and the theorems.

## 1. Inventory

State is what survives a step: files, in-memory maps, channels, locks. "Hard"
names the behaviour that tests reach least.

| Component | State | Operations | Correct when | Hard |
|---|---|---|---|---|
| **File locks** `internal/flock` | one lock file per path | Acquire (blocking, cancellable), TryAcquire, Release | exclusive excludes all, shared excludes exclusive | cancellation between the try and the return; process death releases |
| **Storage session** `internal/storage/session.go` | project lock, lifecycle lock, owner locks, sealed, closed | Acquire, AcquireOwners, CheckAccess, Close | two commands never write one project, owner or user directory; no deadlock | several processes, several locks, partial failure |
| **Trust store** `internal/truststore` | trusted plugins (JSON) | Verify, Trust, Revoke | no lost update | read-modify-write by two processes |
| **Object cache** `pkg/repo/objectcache.go` | a bare repository per remote, ownership marker, anchor refs, `vmake-cache.json` | EnsureRef, EnsureCommit, fetch, Remove, lock-free reads | an anchored commit is complete, unless a removal was cut short; a pinned clone is exact; foreign directories survive | kill while creating or removing, concurrent clones |
| **Source trees** `pkg/repo/source.go` | one worktree per package, `state.json` (commit, patches) | EnsureSource, materialize, ClearPatchState, apply patches | the tree a build sees is the pinned commit with exactly the declared patches | kill between checkout, state write and patches |
| **Git access** `pkg/repo/git.go` | none of its own | ls-remote, fetch, checkout, apply | a ref resolves to one commit | remote moves between two calls |
| **Resolver** `pkg/resolver` | nodes, requirement map, frozen flag | ResolveAll, select a version, check the lockfile | one version per package, satisfying every constraint; locked builds use the locked commit | late constraints, revisits, pins |
| **Lockfile** `pkg/lockfile`, `pkg/pipeline/stage_source.go` | `vmake.lock` entries | load, verify, build, save | a locked build uses what is locked, or fails | drift between selection, tree and file |
| **Pipeline** `pkg/pipeline` | packages, phases, bindings, layout | prepareConfig, prepareSources, declare, build | phases see complete results of the earlier ones | a package bound twice, subgraphs while declaring |
| **Build graph** `pkg/build/graph.go`, `internal/toposort` | nodes, edges, order | NewBuildGraph, TopoSort, BuildSubGraph | dependencies before dependents, each target once | cycles, fallbacks, test and non-default targets |
| **Scheduler** `pkg/build/scheduler.go` | failed targets, results | BuildAll, Build, depsFailed, keep-going | no target is built on a failed dependency; all that can be built is | keep-going, cancellation, errors of a skipped dependency |
| **Session** `pkg/build/session.go` | memo of executed keys, active key | Execute | each action runs once per session | recursive execution, cancellation |
| **Incremental target build** `pkg/build/scheduler_compile.go`, `scheduler_link.go`, `signature.go`, ... | objects, depfiles, action records, artifacts | compile pool, link, post-link, publish | an incremental build equals a clean build | edits, cancels and kills between any two steps |
| **File hash cache** `pkg/build/signature.go` | hash by stat identity | hash, evict | a fingerprint is of the file's content now | a rewrite within the clock's granularity |
| **Void targets** `scheduler_link.go`, `pkg/api/package_cmake*.go` | build directory of each key, stamps, action record | finalizeIncrementalVoid, configure, build, install | what is installed is what the sources make now | kill between a change and its stamp, keys that alternate |
| **Generated files** `pkg/build/genrule.go`, `scheduler_resolve.go`, `pkg/api/package.go`, `config_header.go` | generated headers and their times | generators, AddBinHeader, the configuration header | a target is compiled of what is generated now | order, transitive packages, torn headers |
| **Usage requirements, link lines** `pkg/api/target.go`, `scheduler_resolve.go`, `link_action.go`, `linker.go` | declarations, outputs on disk | Add*, Remove*, Set*, resolveTarget, planLink | every attribute and file arrives, once | object formats, kinds of targets, an edit between builds |
| **Processes** `internal/exec`, `pkg/api/package_runner.go` | process group, goroutines | run with a context, a timeout, progress | a call returns, tells the truth and leaves nothing running | a child that outlives the command |
| **Job budget** `internal/buildruntime/budget.go` | a number | -j arguments for make and cmake | a child takes the jobs it may | none by accident, none twice |
| **Install** `pkg/build/install.go`, `cmd/vmake/build_install.go` | install tree, manifest | install, replace, record | a failed install is not recorded as a success | partial failure |
| **Build report** `cmd/vmake/build_report.go` | last result file | running, success, failure | the report never names a success that is not the last build's | kill during a build |
| **Version constraints** `pkg/api/semver.go` | none | parse, compare, match, select | what is chosen is allowed by all, and is the highest | prereleases, several constraints |
| **Toolchains** `pkg/toolchain` | installed toolchains, registered definitions and handlers | download, verify, unpack, register, select | a selected toolchain is complete and defined once | kill while unpacking, duplicate names |
| **Plugins** `pkg/plugin` | loaded plugins, their registration | load, trust, run, commit | only trusted plugins run, and as a whole | trust changes while running, failing half way |
| **Script runtime** `internal/yaegi*`, `pkg/buildscript` | interpreter | load and run scripts | deterministic symbols | generated code, interpreter |
| **Configuration** `pkg/config`, `cmd/vmake/config*.go` | named configurations, the selected one, pins | use, copy, describe, list, set, save | a command changes what it is about; the selected file is whole | kills, several commands |
| **Option values** `pkg/api/accessor.go`, `pkg/pipeline/phases.go` | none: computed anew by each phase | OnApply, OnRequire, OnBuild, macros, header | all readers see one value | defaults, globals, overrides |
| **Configuration editor** `pkg/tui` | options, presets, cursor, dialogs, filter | keys, clicks, callbacks, save, quit | what is chosen is built; nothing is lost unasked | derived values, messages between edits |
| **CLI** `cmd/vmake` | flags | the commands | | thin layer over the rest |

How they interact: a command opens a storage session (project lock, then the
lifecycle lock of the user directory), loads configuration and scripts, the
resolver reads repositories under shared locks and selects versions, the
pipeline takes the owner locks of all packages in sorted order, the source
layer ensures one tree per package out of the object cache (one lock per
cache repository), the build scripts run and declare targets (building
subgraphs when a script needs a tool first), the graph is sorted, and the
scheduler builds it target by target, each through the session memo; the
report and, if asked, the install record the result.
## 2. Plan

Ordered by what a wrong step costs: a wrong artifact that looks right first, a
lost or corrupted shared state next, a refused or hanging command last. Each
module is written so that it can be proved about: constants with named
assumptions, one action per step of the code, no RECURSIVE operators.

| # | Module | Checked in | Proved |
|---|---|---|---|
| 1 | `ActionRecord`, `TargetBuild` (extends it) | `build`, `target_live` | all safety, and that a build without changes writes nothing |
| 2 | `StorageLocks` | `locks_pair` | all safety, and the absence of deadlock |
| 3 | `TopoSort`, against `DependencyOrder!TopologicalOrder` | `project` | all safety |
| 4 | `BuildSession` (extends `BuildGraph`), against `BuildContract` | `session_cross` | all safety, and that it implements the contract |
| 5 | `ObjectCache` | `storage`, `cache_race` | all safety |
| 6 | `SourceTree` | `storage`, `tree_emptied` | all safety |
| 7 | `DependencyLock` | `project`, `pins_race` | all safety but `PinsAreKept`, which fails |
| 8 | `BuildReport` | `command`, `report_cleaned` | all but `CleanupFollowsInvalidation`, which fails |
| 9 | `Extensions` | `session_cross` | all safety |
| 10 | `ToolchainRegistry` | `project` | all safety |
| 11 | `ExternalTarget` | `command` | all safety |
| 12 | `GeneratedFiles` | `build` | all safety |
| 13 | `OptionValues` | `command` | all safety |
| 14 | `LinkInputs` | `session_cross` | that outputs are made before they are linked, and prebuilt files stay |
| 15 | `MemberTrees` | `storage` | all safety |
| 16 | `VersionChoice` | `project` | all safety |
| 17 | `ProjectFiles` | `locks_pair` | all safety |
| 18 | `ConfigEditor` | `project`, `editor_menuconfig` | all but `MenuconfigIsKept`, which fails |
| 19 | `EditorTree`, `EditorScreen` | `project` | all safety |
| 20 | `CommandRunner` | `target_live` | all safety |

Several components that share no state are checked by one run: the modules
`MCBuild`, `MCRun`, `MCCommand`, `MCLocks`, `MCSession`, `MCStorage` and
`MCProject` have a variable `part`, which never changes and says whose behaviour
this one is, while the variables of the other parts stay at one fixed value. A
property of a part is the module's own where it holds of that value as well, and
`part = ... => property` otherwise; several small invariants of one part are one
property there. The fairness of such a run is the one its parts state for
themselves (`TargetBuild!FairSpec` and `CommandRunner!Fairness`,
`StorageLocks!FairSpec`, `BuildSession!FairSpec`).

Abstract specifications: *scripts and targets run once, on what they need*
(`BuildContract`), which `BuildSession` implements: a refinement that a run checks and
TLAPS proves. *A clean build*, which `TargetBuild` ends like (the operator `CleanImage`
inside `SuccessIsClean`), *one owner at a time* for `StorageLocks`, and *a map from commits
to trees* for `ObjectCache` with `SourceTree` are stated as invariants. `StorageLocks` comes first
for the proofs (the other modules take its exclusion for granted), then
`ObjectCache`, then `SourceTree` and `MemberTrees` on top.

## 3. Modules

Actions carry the names of the functions they model where one function is one
step, and of the step otherwise; `PROJECT.json` has the lines. In every module
a command that can be killed is killed between any two of its steps, and
writing a JSON document is one step, because `internal/jsonio` writes a
temporary file and renames it.

### Building

**ActionRecord** (`pkg/build/signature.go`). `SuccessRecord` is
`saveActionRecord`, `UpToDate` is `checkAction`: same command signature, same
readable inputs, same existing outputs. A hash of a file *is* its content.

**TargetBuild** (`scheduler_compile.go`, `compiler.go`, `scheduler_link.go`,
`link_action.go`, `scheduler_postlink.go`, `scheduler_publish.go`). Files
(`content`), objects with their depfiles, records, image and published
artifact survive; the feeder, the workers and the finalizer are separate
processes. `CompilerStarts` and `CompilerEnds` are two steps, so the user can edit a
header between the read and the record. `Receive` models Go's `select`: a
worker may take the next job although the pool is cancelled, and the code then
tests the context again. `racedObj` and `racedLink` are history variables: they
mark outputs whose inputs changed between the tool's read and the record.

**GeneratedFiles** (`genrule.go`, `scheduler_resolve.go`, `pkg/api/package.go`,
`config_header.go`). The search of `collectDepArtifacts` over the targets one
reaches with `ensurePackageGenerated` at each, the rules of `AddBinHeader` with their marker and times, and the header of the
configuration with imported options, in the order `BuildAll` brings them.

**LinkInputs** (`pkg/api/target.go`, `scheduler_resolve.go`, `link_action.go`,
`linker.go`). A script makes any calls out of a set, a build merges what
dependencies make public, plans the link for ELF, PE or Mach-O and writes the
output over what is there. The lists only compilers read are one, "options".

**ExternalTarget** (`pkg/api/package_cmake.go`, `package_cmake_incremental.go`,
`scheduler_link.go`, `layout.go`, `keys.go`). The directory of each key with
its stamp, cache, record and installed files; a command configures, builds,
installs and skips, each step of which may fail or be the last.

**CommandRunner** (`internal/exec`, `pkg/api/exec.go`, `package_runner.go`,
`package_cmake.go`, `buildruntime`). One call: the process, a child it may
leave, the pipe, the goroutine that watches the context, the one that reports
progress, `Wait` and its delay. `os/exec` is external and modelled from its
documented contract.

**DependencyOrder**, **BuildGraph**, **TopoSort** (`pkg/build/graph.go`, `subgraph.go`,
`internal/toposort`). `DependencyOrder` has the order as a recursive function, for all
that use it; `BuildGraph`, on top, node dependencies and the packages of a
subgraph: `Reachable` is the least set that no edge leaves. `TopoSort` is the code's
algorithm with its in-degrees and its sorted queue, step by step, and has that order as its result.

**BuildSession** (`pkg/pipeline/stage_declare.go`, `session.go`,
`pkg/build/job.go`, `scheduler.go`, `session.go`). The call stack is a
variable: a script or a target's callback calls `CallSubGraph`, which declares
packages and builds targets, whose callbacks may call again, and a script may
recover from the error it gets. Declarations, toolchain bindings, the results
of subgraphs and the memo of the session are the state.

**BuildContract** is what all this comes to for those who wrote a package, without
the calls, the scopes, the subgraphs and the loops: scripts begin and end, targets
start and finish, the build ends. A script begins once, when the scripts of all its
package requires have ended well; a target starts once, when its package is declared
and what it depends on is built, and nothing else begins or ends until it finishes;
the build ends when no script is left, and well only if all is declared and built.
`BuildSession` maps to it by `package <- decl`, `target <- memo`
(`SessionKeepsContract`); its other steps change none of this, so they stutter. Keep-going,
cancellation and toolchains are no part of the contract.

**BuildReport** (`build_report.go`, `build_install.go`, `pkg/build/install.go`,
`test_cmd.go`, `clean.go`, `distclean.go`, `pkg_cmd.go`). The two reports, the
installation into the default or another prefix with its claim, and the
commands that remove them.

### Sources and shared state

**StorageLocks** (`internal/flock`, `internal/storage/session.go`, and the
order in which commands take locks). `pc` says which lock a process waits for
or which scope it is in; `held` which lock it has in which mode. `LockOwner`
takes owners one by one in the order of the names; on an error the ones
taken by this call are released in `undo`. `Release` of an already released
lock is a no-op, as in the code.

**ObjectCache** (`pkg/repo/objectcache.go`, the clone functions of
`source.go`). One upstream, several projects. The lock-free lookups (`Has`,
`CachedRef`) are steps of their own, the ensure is the sequence under the lock
(`UseRepo` or `ClearRepo` and `MakeRepo`, fetch, anchor, metadata, undo), the
checkout takes the lock a second time, and the fallbacks follow the code.
An entry is made of `parts` (the metadata; `HEAD`, `config` and `objects/`; `refs/`), its
refs and anchors, the `commits` it has and those of them it has in full (`objects`). A
removal takes these from the live entry one by one (`RemoveMore`), and a kill or an error
(`RemovalFails`) leaves the rest, which `entry` and `usableBareRepo` may still accept: such
an entry is "torn", and no more is assumed of it than what is left. A fetch into it may
leave holes, because git takes what hangs on a commit it has for granted.

**SourceTree** (`source.go`, `storage.go`, `pkg/pipeline/keys.go`,
`stage_source.go`, `pkg clean`, `pkg link`). One working tree with `state.json`.
`Resolution` is how `EnsureSource` finds the commit, then the tree is reused,
restored in place (`Reset`, `Sweep`) or made anew (`Clone`, `Invalidate`,
`RemoveOld`, `Publish`), recorded, patched and compiled. A tree's `applied` is
the series of patches in its files, `litter` what builds have left in it.
`Readable` says when git can read the tree it patches. `wreck` is a history
variable: a removal that was killed, or a failed patch, has left a tree that
`state.json` does not tell from a good one. `Untold` names the two ways such a
tree is compiled as it is (section 6); everything else a build compiles is what
was asked.

**MemberTrees** (`stage_source.go`, `keys.go`, `workspace.go`, `source_link.go`).
All trees of a build at once: an owner, members that share its tree and its
combined patch hash, members with repositories of their own inside it (or in
`third_party` while the owner is linked), local packages. `EnsureSource` is one
step here and what a kill in it leaves is `KillEnsure`. What a build has to do is a
set of tasks (`Plan`) done phase by phase (`Phase`): the order of the packages within a
phase is that of the resolver, and any order here.

**DependencyLock** (`pkg/resolver`, `stage_source.go`, `deps.go`, `deps_cmd.go`,
`pkg/lockfile`). A command asks (`Build`, `Sync`, `UpdateAll`, `Update`,
`Pin`, `Fetch`), and `Load`s its inputs when it has the project lock; what
`deps status` prints is `StatusOf`. The requirements of the build script are resolved one after the
other (`Resolve...`, `Revisit`), `Filter` drops what the configuration does not
need, `Download` makes trees in any order, and only then the lock file is
compared (`VerifyLocked`) or written, and a pin saved. A constraint is the set
of versions it allows. A refusal that only leaves the command (a conflict, a
missing tag, a failing patch) is `End`, which may come at every step.

**VersionChoice** (`pkg/api/semver.go`, `package.go`, `pkg/repo/native.go`,
`update.go`). Texts of versions and constraints as sequences of numbers and
identifiers; a resolution meets the requirements one by one, and a second one
has a lock file. The reference definition is an order of words, written
independently of the code's comparison.

**Extensions** (`internal/truststore`, `ext_cmd.go`, `trust.go`,
`pkg/plugin/manager.go`, `pkg/toolchain/install.go`). Repositories with their
locks, the store with its own, and the installation of a toolchain out of a
repository that others may update.

### Configuration

**OptionValues** (`accessor.go`, `phases.go`, `stage_config.go`,
`config_header.go`). One option as every phase computes it.
**ToolchainRegistry** (`discovery.go`, `registration.go`, `manager.go`,
`plugin/loader.go`): definitions, then plugins whose calls are collected and
committed as a whole, and the selection of a toolchain by a build.
**ProjectFiles** (`pkg/config/project.go`, `config_files.go`): named
configurations, the file that selects one and keeps the pins.
**ConfigEditor** (`pkg/tui/model.go`, `config.go`, `chip.go`, `platform.go`,
`keys.go`): options that depend on one another, presets, menuconfig, save,
quit, `config --set`, and the build after it. **EditorTree** and
**EditorScreen** (`pkg/tui`): the tree of packages, which recursion builds, and for
any such tree the rows that are shown of it with the cursor, scrolling, search,
dialogs, the mouse and the messages that come in between.
## 4. Runs

| Run | Part | Asks | Bounds, and why they are enough |
|---|---|---|---|
| `build` | target | does an incremental build publish what a clean one would, are records honest, is the pool reaped, does a no-op build touch nothing | two sources, one header only one version of the first includes, one linker script, two commands, two workers, one intervention at any moment (an edit, a deleted file, a deleted output), two builds. A stale artifact needs one build that leaves something and one that trusts it; two sources are the least for which one can be done when the other fails |
| | generated | is every target compiled of what its generators, options and inputs make now | four targets (a library reached through another, a test in the application's package), two changes, two builds, a failure or kill in every step. Two builds for what one leaves and the next trusts, two changes for a change that is taken back or overtaken |
| `target_live` | target | does every build end | the same pool, one build, fairness |
| | command | does every call return, with a true result, and leave nothing running | every caller of the code, one command with one child, one write to the pipe |
| `command` | report | does a report of success name what is installed, built and passed | a library that only an SDK installs, a file with a prefix of its own, a test; three commands, one edit. One command leaves a report, a second runs into trouble, a third (the test) trusts it |
| | external | has a command that succeeds installed what the sources make now | two keys, two edits, three commands |
| | option | do all readers of an option see one value | two local packages and a remote one, two values; every declaration, configuration and flag |
| `locks_pair` | locks | exclusion, ownership, no leak, no deadlock, every wait ends | two processes, one project, two owners, one repository, tree and cache, six calls. A cycle of waits among sorted locks needs two processes and two locks; kinds of locks, not their number, make the order |
| | files | is the selected configuration whole, does a command change only what it is about | two processes, two names, four commands, one removal by the user |
| `session_cross` | session | the contract of a build (`BuildContract`), subgraphs, memo, keep-going, cancellation, termination | four packages, five targets, two toolchains, four calls of `BuildSubGraph` from any script or callback. Four calls are enough for a subgraph in a subgraph, a repeated one and one from a callback |
| | link | is a target compiled and linked of what it and its dependencies declare and made | a chain of a remote void target, two libraries and an application, two graphs, three systems, every kind, any two of 23 calls, one edit after the first build. Flags travel along a chain; two calls are the least in which one undoes or follows another |
| | extensions | does what is loaded stay as trusted, are installed toolchains whole, are trust records changed alone | two processes, two repositories (one without sums), two commits, three commands, one kill |
| `storage` | killed | is what is built what was asked, is the tree sound and the state file honest, when builds and deletions are killed anywhere | two commits, two URLs, no ref, four patch series (none, one, two that overlap, one that fails in its second), two kills in three commands. One command leaves the tree, a second damages it, a third trusts it |
| | moving | the same when refs move | one ref and the head of the upstream, two series, one kill, one move, three commands |
| | members | has every needed package its commit and patches, whatever other builds needed | an owner without patches, two members in its tree, one with a repository inside it, a local package; four sets of needed packages, two commits, three commands, one moved head, one kill |
| | cache | is what is recorded anchored, is a pinned clone exact, do foreign directories survive | two processes, two commits, a branch and a tag, two clones or removals, one moved ref, one kill or failed removal; in the place of the entry nothing, a directory of the user, an entry of all refs, or the rest of one. One command leaves an entry behind, whole or not, and the second works with it while its refs move. The two refs begin at different commits and meet when one moves |
| `project` | lock | is `--locked` exact, do entries stay, is every selection allowed, does `--locked` accept what `deps sync` wrote, does `deps status` tell the truth | one native and one registry package, two versions, two heads of the registry, two scripts, two configurations, three commands and one change by the user or upstream at any moment. Two changes, and two processes with three commands, were each explored once without an error |
| | sort | is the order right, deterministic, and failing on cycles only | all graphs of three nodes with every dependency listed up to twice and a missing name |
| | versions | is the highest allowed version chosen, nothing else refused, and the locked one taken again | up to three of nine published texts (equal ones, prereleases, one invalid), up to two of eight constraints of every kind, in any order |
| | editor | is what is chosen built, is nothing dropped unasked | one chip that prefers a toolchain and one that takes any, three toolchains, two targets, one session of any length |
| | screen | do answers go where they were asked, do jumps land | two roots that share a package, one remote package, one menuconfig, panels of two and three rows, any sequence of keys, clicks and messages |
| | registry | is a plugin loaded as a whole, is a duplicate name refused | two definitions and two plugins |

Commits and URLs of the trees in `storage` are symmetric: no definition chooses among them.

Violation runs, each a disagreement of the code with its own words:

| Run | Finding |
|---|---|
| `report_cleaned` | `pkg clean` removes the reports before it waits for the project lock; a build that holds it publishes a success, and the outputs are then removed under that report (`cmd/vmake/pkg_cmd.go:167`) |
| `editor_menuconfig` | an edit that is taken back after a run of menuconfig makes the editor forget the result of menuconfig (`pkg/tui/app.go:198`) |
| `cache_race` | a pinned clone whose commit is in the cache fails when another project moves the ref in between (`pkg/repo/source.go:626`), though the anchor exists so that it need not |
| `tree_emptied` | a tree in which only the first patches of a series were applied is reused once the script has no patches any more (`pkg/repo/source.go:712`): the mark "" is also the hash of no patches |
| `pins_race` | `deps pin` loses a pin that another `deps pin` saves while it waits for the project lock (`cmd/vmake/deps_cmd.go:259`) |

Each property of a passing run has a mutant in `PROJECT.json`: a plausible
mistake in one definition, for which the same run fails. Deadlock is checked
where the model always has a step (`target_live`, `locks_pair`,
`session_cross`, by a `Rest` step that is only possible when everything is over,
or a step of the composite that is only possible when the bounds of a part are
used up); the other modules stop when their bounds are used up.

### Fairness

Safety is checked without any. For liveness:

- `TargetBuild`: weak fairness of the feeder, of each worker and of the
  finalizer: Go runs every goroutine that can run, and tools end. The
  choice in a `select` is not fair, the user is not, and cancellation is not.
- `CommandRunner`: weak fairness of vmake's goroutines and of the timers of
  `os/exec`; strong fairness only for the goroutine of `OnProgress`, whose
  `select` between its tick and its end does not choose the tick for ever. A
  command need not end: `CallEnds` promises a return when the context is done,
  or when the command has ended and either has a context or leaves no child
  that keeps its pipe.
- `StorageLocks`: weak fairness of each process's lock and return steps: a
  waiter polls every 25 ms, so a lock that *stays* free is taken, and a command
  that has what it needs ends. Nobody is promised to get a lock that others
  keep taking; the bound on the calls makes the others stop.
- `BuildSession`: weak fairness of the one goroutine: scripts and tools end.
- `ObjectCache` states the fairness of a clone (`FairCacheSpec`, `ClonesEnd`); no run
  checks it at present.


## 5. Proofs

All are checked by TLAPS from the assumptions named in the modules; none
depends on the bounds the runs use.

**TargetBuildProofs** (from `ConstantsAssumption` and `SentinelAssumption`:
the markers for a missing, torn or absent file are none of the real values).
`SuccessIsClean` is not inductive: nothing in it says why a file that was *kept*
is right. The inductive invariant `IInv` adds, in this order: a depfile lists
what its object was compiled from (`DepfilesComplete`); a record that vouches
for an object or an image names what it was made of (`ObjectRecordsTrue`,
`ImageRecordTrue`); each source is in one place: still to feed, in the channel,
at one worker, or done (`OnePlace`), and none is forgotten when the pool closes
(`NothingForgotten`); a source that is done has the object a compile would
produce now, unless something was edited since (`DoneIsDone`); the same of the
image in the phases after the link (`LinkedIsLinked`, `OutcomeOfEnded`). The
lemma `Writers` says which steps write which variables, so that each
conjunct is argued only for the steps that can disturb it. Theorems:
`TypeInvariant`, `IncrementalIsClean`, `HonestRecords`, `WholeTargetLinked`,
`PoolReaped`, for any number of sources, headers, commands and workers. The
action property `NoopBuildTouchesNothing` needs two more invariants about history
variables: a source that is done, and a build that succeeded, leave objects, records
and image that the freshness check accepts for as long as nothing is changed
(`DoneIsKept`, `SuccessIsKept`); from the second, a build that starts then runs
no tool up to any phase (`NoopRunsNothing`). Theorem: `NothingTouched`.

The same module has *CommandRunner* (from `RunnerAssumption`). Each conjunct of its
invariant follows a command from start to return: it has the arguments that were asked
for (`StartedAsAsked`), its result agrees with its process (`ResultSoFar`), what was
killed was killed with its group (`KilledWithGroup`), and output that has not come to its end
was closed, with an error (`OutputSettled`). That the budget is given once and only to a
list that says no number of jobs (`BudgetSaid`) holds of every list of arguments: the
last option that says one exists because its position is bounded (`LastNumber`).
Theorems: `CallInductive`, `CommandsHold`.

**StorageLocksProofs** (from `LocksAssumption`: the kinds of locks are disjoint,
names of owners are distinct, and there are finitely many processes). `IInv` is
exclusion (two holders of a lock are both shared) and, per process, what its
place implies it holds (`SessionInv`, `WantInv`, `HeldInv`). A lemma `Combine`
reduces a step to the process that takes it: its own place invariant, a frame
for the others and the fit of the new lock; then there is one lemma per action.
Theorems: `Invariant`, `TypeInvariant`, `ExclusiveSessions` (with the lemmas
`ExclusiveCommands`, `OwnersOfSealedSessions`), `ExclusiveUpdates`, `NoLockLeaks`.

`NoDeadlock` speaks of every set of processes that wait for each other. Exclusion
does not exclude a cycle of waits; the order in which the code takes locks does.
A second invariant, `Ordered`, says so: repositories are read before the session
is sealed, the owners a process still wants rank above those it has, and only an
update has a repository to itself. `Level` numbers the places where a process
waits in that order. `BlockedIsBehind` shows that whoever holds the lock a process
waits for is `Ahead` of it: at a later level, or waiting for an owner of higher
rank. Being ahead is an order, so of a finite
set of processes some one has the fewest ahead of it (`LeastNumber`). Nobody in the set blocks that
one: whoever did would be ahead of it, and have fewer ahead of itself. Theorem: `LocksAreOrdered`.

The same module has the files that the lock of a project protects (`ProjectFiles`, from
`FilesAssumption`). Who works on them is alone (`FilesLocked`), so the configuration it
has loaded stays the active one (`PathIsActive`), and a copy that is torn was never
selected (`SelectedIsThere`). Theorems: `FilesInvariant`, `SelectedHolds`, `AskedHolds`.

**BuildSessionProofs** first has the operators of `BuildGraph` and `DependencyOrder` (from
`GraphAssumption`: finite sets, names are distinct). `Reachable` is the least set that no edge leaves. The order is a recursive
function of the set that is left, about which the prover has no induction to
offer (the library's theorems take an operator); what the proofs need of it is
that a set of numbers has a least one (`LeastNumber`, from `WFMin`), so that a
smallest set for which the claim fails gives the contradiction. Theorem:
`TopologicalOrderIsRight`. `SubGraphStays` says that declaring more packages does
not change a subgraph that is declared.

The session itself (from `GraphAssumption` and `SessionAssumption`: requirements have
no cycle, so the order of the packages, `TopologicalOrder`, has as many as there are:
`Resolver.UpdateOrder` fails otherwise, before a script runs). The call stack may be of any depth.
`StackInv` says who may call whom, `FrameInv` what each frame relies on: a loop that
the packages before its `next` are declared and bound, a build that the targets
before its `next` are built or failed with a failed dependency, a target that it
runs and its dependencies are built, a subgraph that nobody else computes it.
`TopInv` says what the frame on top knows of the value just returned. Steps only
add to what is declared and built (`Grows`), so the frames below keep what they
rely on (`Kept`), and a step has to be argued for one or two frames
(`Rebuild`). `Distinct` says that no package, root or target is twice on the
stack. Theorems: `Invariant`, `TypeHolds`, `ExecutedOnce`, `DepsComeFirst`,
`SubGraphsHold`, `SuccessHolds`.

That the session implements `BuildContract` (`ContractKept`) is argued step by step. Most steps
change neither a script nor a target (`QuietEffect`): they stutter, or return from the first call
and are the `End` of the contract (`QuietMaps`). The rest are `BeginScript`, `EndScript`, `Start`
and `Finish` (`DeclareMaps`, `ScriptMaps`, `ExecuteMaps`, `TargetMaps`), whose guards follow from
what the frame on top knows. `End` wants no script left, of which `IInv` says nothing; the
invariant for it is `RunningInv`: a script that has begun is on the stack until it ends.

At the end of that module is *TopoSort* (from `TopoAssumption`: finitely many nodes, none
of which is an unknown name, names are distinct), the algorithm with its counters. A
degree counts the listings of nodes that are not sorted yet (`DegreeInv`), also of one
that is listed twice; so what is queued is what depends on none of those (`QueueInv`), and what
is sorted goes before the order of what is left in the order of all (`PrefixInv`, over the same
recursive function). When the queue is empty, each node left depends on another of them.
Theorem: `SortHolds`.

After it, *VersionChoice* (from `ChoiceAssumption`, which only says what a text consists of).
`Precedes` compares words, `Compare` fields and identifiers; that both agree for all versions
is `CompareIsPrecedence` (from `LexOrder`, `WordOf`, `PreCompare`), that no version lies between
`First` and the numbers it stands for is `FirstIsLeast`, and so each operator of a constraint
is its interval (`MatchIsMeaning`) and what is selected of a finite set the highest
(`SelectionIsHighest`, with `GreatestExists`). Of the resolution: for a registry package every
prefix of the requirements met leaves a version (`RegistryInv`). That cannot be said of
every subset, because dropping a requirement may drop the permission for a pre-release: it
is why the next resolution has to meet them in the same order (`AgainInv`). A native package
is chosen by the first requirement and let pass by the others (`NativeInv`), and a refusal keeps
its reason (`RefusedInv`). Theorem: `VersionsHold`.

**ObjectCacheProofs** (from `CacheAssumption`). Whoever writes the entry holds its
lock from the first look at the repository to the metadata, so that what it has
seen stays (`EntryInv`); what is known of a clone outside the lock depends on its own
task alone (`TaskInv`). An entry that is "whole" has all objects of the commits it has (`NamesInv`);
of a torn one nothing is known but that a removal has begun on it, and the exactness of pinned
clones does not need more. Theorems: `Invariant`, `CacheHolds`, `UsersDirectoryHolds`.
The same module has *GeneratedFiles* (from `GeneratedAssumption`: targets come after what they
depend on). `Reached` is the least set that no dependency leaves. `SearchInv`: what a search has
visited or is to visit is closed under dependencies, and the packages of what it has visited are marked;
so at the end all that the target reaches is visited (`MadeOfCurrent`). `HeaderInv` says of every
header, whoever left it, that without a newer input it is of the input it names. `CleanInv` is
about a build without an edit and a failure: what is marked is generated, and the targets before the one at hand are
as they are to be. Theorems: `GeneratedInductive`, `GeneratedHolds`.

**SourceTreeProofs** (from `TreeAssumption`: the markers are none of the real values,
a series names a patch once). `HonestInv`: while a tree is made over there is no
state file (`Invalidated`), and a tree that is restored in place already has the
commit as its HEAD (`Checked`). `TreeInv`: a tree with a state that nothing has
wrecked is of that state, but for patches that are still to come: the first *m*
patches of the series and no others are in its files (`Kept`, `HasFirst`); a tree
that has just been made over is clean (`Made`); while the series is applied, every
patch before the one at hand is there (`Applying`). The last step, that a
patch which shows as applied *is* the next one of the series, is where a series
must not name a patch twice. `Unkilled`, `Clearing` and `Reason` are for failures:
without kills only a bad patch or one that hides another fails. Theorems:
`Invariant`, `StateFileIsHonest`, `BuildsWhatIsAsked`, `TreesAreSound`.
The same module has *MemberTrees* (from `MemberAssumption`): `TreesInv` says of every
tree, in whatever state a build or a kill has left it, that its state file is true of it, and
that there is none where a patch has failed. The tasks of a build may run in any order but
for what one phase waits for in the phase before (`InPhase`), and what one has made the others leave
as it is (`MadeInv`, `IsMade`). Theorems: `MembersInductive`, `MembersHold`.

**ExtensionsProofs** (from `ExtensionAssumption`). Whoever changes a repository or its
trust is alone with it, whoever has loaded from it shares it (`AloneInv`,
`HoldsInv`); so every step leaves alone what it has not locked (`Guarantee`), and what
a process has loaded or pulled stays (`LoadedInv`, `PulledInv`). A record is written
as it was read under the lock of the store (`SavesInv`). Theorems: `Invariant`,
`ExtensionsHold`, `RecordsHold`. At its end is *ToolchainRegistry* (from
`RegistryAssumption`): plugins come one by one and after the scan (`TurnInv`), so what the
running one was told is in its registration (`CollectedInv`) and in the manager only once it is
committed (`WholeInv`); of every file that was scanned there is a toolchain or an error,
so of two with one name one has an error (`ScanInv`). Theorems: `RegistryInductive`,
`RegistryHolds`.
Last is *LinkInputs* (from `LinkAssumption`: `Order` names the targets, each once, and
a graph of `Graphs` has the dependencies of a target before it; `MCSession` evaluates it).
That no build refuses a target for an output it has made itself (`OutputsAreMade`) depends on
the targets linked many steps before: in `MadeSoFar` every target before the one whose turn it
is has its output, in `PlannedOnMade` every plan had all those it links. A link puts outputs
there and takes none away (`OutputsStay`), and before it writes it removes a
link to a prebuilt file (`Cleared`), so `VendorFilesStay`. Theorems: `LinkInductive`, `OutputsHold`.

**DependencyLockProofs** (from `LockAssumption`: packages are native or of the registry,
the markers and versions are no commits, requirements and targets are of the packages
and versions there are; `MCProject` evaluates it). `LockedIsExact` is about a command that
is done; what makes it so happens many steps before. `LoadedInv`: what the command
has read is still in the files, until it writes them. `GraphInv`: in the graph are the packages
of the requirements visited so far, so at the end those of the script (`GraphIsRequired`).
`NodeInv`: a native node has the commit and version that `Pinned` answers, a node of the
registry an offered version that all requirements so far allow, and `Version` and `Expected` of
it do not change by a later requirement. `NeededInv`, `VerifiedInv`, `GotInv`: what is
made is needed, was let pass by `--locked`, and is of that version and commit. `Kept` collects what the
steps of a command leave alone; from it the answers of lock and pins (`KeptAnswers`,
`KeptPinned`, `KeptVersion`) and every conjunct stay (`GraphStays`, `NodesStay`, ...).
`SyncedIsLocked` needs `SyncInv`: the lock file has an entry that suits its pin for all that a build
of the synced configuration asks for. `SyncMakes` shows it of `deps sync`, `update` and
`pin`; `BuildKeepsSynced` that a build of another configuration, which writes the
file anew, keeps it; `SyncedIsWhole` that a build with `--locked` then finds the file as it would write it.
Theorems: `Invariant`, `LockHolds`. `PinsAreKept` is not among them: it is the finding of `pins_race`.

At the end of that module is *ConfigEditor* (from `EditorAssumption`: a toolchain `host` without
a target, profiles and defaults of values there are). What an edit would save says nothing of what the user wants; `WantsAreKept`
does: what would be saved of the toolchain and the target, the empty value if it is derived,
is what was last asked for. It holds of an edit because an edit moves its own option and
what is derived, and nothing else (`Moves`, shown of `SetGlobal`, `ClearGlobalValue` and `ApplyChipProfile`).
`StartIsKept`: what the editor was opened with is what the file says, to which "r" goes back.
`ChangesAreSeen`: without `changed` nothing that is shown differs. Theorems:
`EditorInductive`, `ChosenHolds`, `AskedHolds`.

After it, *EditorScreen* (from `ScreenAssumption`: a tree is a sequence, none of whose packages is
named like the group of the remote ones). `AnswersGoWhereAsked` is about the step that
commits; what makes it so is that nothing moved the cursor since. `OneTakesKeys`: of what takes the
keys one is open, so that every step but a resize and the end of menuconfig is one of it; `AskedHere`:
an overlay is of the package that is selected, an edit of the option at the cursor. Of a jump:
there is a row for each node that is shown (`RowsAreShown`: ranks among n numbers are an injection,
and so onto), what is above the first node of the package has been opened, the cursor goes
to the first row of that name (`JumpArrives`), and the panel is scrolled to the cursor from wherever it
was (`EnsureKeeps`). The earlier form of `JumpsLand` excused a package only when all of its nodes were
empty; the attempt to prove it showed the case of section 6. Theorems: `ScreenInductive`, `ScreenHolds`.

**BuildReportProofs** (from `ReportAssumption`). A report of success is saved by the last
step of a command and lists what an earlier step has compared with the prefix. `DoneInv`:
in between, what it will list stays in its place; `BuiltInv`, `CheckedInv`: and is of the
configuration that was read, which tests, never installed, need not be. `ReportInv`:
while a command installs, or cleans the default prefix, the report of the build lists
nothing, so no other step can make it untrue. `TestInv`: a test run that ends without a
failure and a signal has the result of every test. `KeptInv`: where vmake removes files
or may without looking, there is no file of the user. `ReportWrites` says what a step may
make of a report, `FreshSteps` and `OthersGoOn` what of the command, so that most
conjuncts are argued for few steps. Theorems: `Invariant`, `ReportHolds`, `FilesStay`.

The same module has the two other parts of the run `command`. *ExternalTarget* (from
`ExternalAssumption`): `TreesAreTrue` says of every build directory, whoever left it, that
its stamp is that of its cache, or of files that were edited since (`StampIsTrue`), and
that its record names the sources of its output (`RecordIsTrue`); `StepsAreTrue` follows a
command from the fingerprint over the cache and what it builds to what it installs.
Theorems: `ExternalInvariant`, `VoidHolds`. *OptionValues* (from `OptionAssumption`): what each
phase has computed is a function of declarations and configuration, which do not change
(`PhasesAreComputed`). That the functions agree is case analysis (`AskedIsBuilt`,
`HeaderIsBuilt`, `MacroIsBuilt`) over one lemma, that all global declarations have
one default (`OneDefault`); that what is required is there follows from what is needed being
the least set that the conditions lead to (`NeededIsReached`). Theorems: `OptionInvariant`,
`ReadersHold`.

Only model-checked: everything with fairness (`RunsEnd`, `WaitsEnd`,
`SessionEnds`, `CallEnds`); and of `LinkIsRight`
the other conjuncts, which are about folds and selections over lists of any length,
for which the prover has no induction to offer. That `EditorTree`
builds a tree of the kind `EditorScreen` assumes is seen by TLC alone, which
evaluates the assumption: the tree is built by a RECURSIVE operator.

## 6. What the modelling showed besides

The violation runs above are the findings. Further observations, each met in the
code while it was modelled, without a run of its own:

- An input edited after the compiler read it and before `saveActionRecord`
  hashes it is recorded with its new hash (`pkg/build/scheduler_compile.go:171`),
  and link inputs are fingerprinted after the link (`scheduler_link.go:68`). The
  next build keeps the stale output. `SuccessIsClean` and `RecordsAreHonest` are
  stated for records that were not raced so.
- `pkg link` and `pkg clean` delete the tree before, or in no order with, its
  `state.json` (`pkg/repo/storage.go:65`). Killed in between, they leave a state
  file beside half a tree whose HEAD still names the commit, and the next build
  compiles the rest; `materialize` takes the opposite order and says why
  (`pkg/repo/source.go:474`). The model marks such a tree with `wreck = "removal"`;
  `Untold` excludes it from `BuiltIsAsked` and `TreeIsSound`, and nothing else of what
  kills leave.
- A removal of a cache entry takes the files of the live entry one by one
  (`objectcache.go:409`, `:480`, `:500`). Killed or failed half way, it leaves one of two things.
  Without the ownership marker, the directory is refused from then on
  (`objectcache.go:497`), and builds go on without a cache. With `vmake-cache.json`,
  `HEAD`, `config` and `objects/`, the entry counts as usable (`objectcache.go:250`-`:263`,
  `:539`-`:543`), although refs or objects are gone, and is not rebuilt, contrary to the comment
  at `objectcache.go:33`. The metadata then name commits that are not there. Without `refs/`,
  git finds no repository, and every ensure fails. With missing objects, `Has` and an
  ensure may say yes to a commit whose checkout then fails. Clones go on from upstream,
  and those that are offline fail. `RecordedIsAnchored` is therefore about entries whose
  removal was not cut short; `PinnedIsExact` and `UsersDirectoryStays` are about all.
- git killed in a checkout leaves `index.lock`, and a tree that is restored in
  place then fails until it is deleted (`source.go:437`).
- Patches of a series that change the same lines are not recognised as applied
  (`pkg/pipeline/keys.go:324`, `git apply --reverse --check` of each on its own), so
  a tree that is reused with the same series fails in the earlier one.
  `GoodPatchesApply` names that overlap as the one reason besides a bad patch.
- With `--keep-going`, a target that depends on a failed one only through a target
  that is not default is built all the same: the loop visits default targets only,
  so the one in between is never marked as failed (`pkg/build/scheduler.go:229`).
  `RunsOnBuiltDeps` is about dependencies that are default.
- A native package is selected by the requirement that is met first
  (`pkg/resolver/resolver.go:609`): a solvable set of constraints may be refused.
  `examples/with-package.md:69` says so. `SelectionIsAllowed` shows it is never wrong.
- Plain builds keep, and do not check, the wrapper commit of registry entries a
  configuration does not need; `deps update` without arguments drops their
  entries; and `deps update` of a native package reuses a tree of the selected
  version although its tag has moved, where a registry package is refreshed.
  `EntriesStay` and `SyncedIsLocked` are stated around these.
- `deps update <package>` looks for a pin before it has the project lock; a pin
  saved in between leaves a lock file that `--locked` refuses (`Overtaken`).
- *Members of a native package* (`MemberTrees`). One with a repository of its own has
  no lock entry and no pin, and moves to the upstream HEAD whenever the tree of its
  owner is restored or made anew, for instance because a build needs another member;
  offline that build fails. `git clean -fdx` with one `-f` keeps nested repositories
  but removes their `state.json`. After a failed patch of a member, a build that does
  not need it takes the tree of an owner without patches as it is: the cause is that
  of `tree_emptied`.
- *Links* (`LinkInputs`). A shared library gets archives in the order of its
  dependencies and package references with transitive packages first
  (`resolvePackageRef`), so an ELF link may leave symbols of an archive listed too
  early undefined; an executable that is listed as a dependency without
  `SetLinkable(false)` is put on the link line; `exclude-libs`, symbol binding and
  linker scripts are ignored without a word where the kind of the target has no use
  for them; two targets that provide one library name put its archive there twice.
- *Versions* (`VersionChoice`). A prerelease that only a later requirement names is
  refused when the first one met leaves nothing, so the outcome depends on their order.
  Equal versions (`1.0`, `1.0.0`) are chosen among in the order of a Go map.
  `checkConstraint` does not apply the rule about prereleases.
- *Lock file* (`DependencyLock`). `fetch --all` after a sync may be refused for a registry
  package that is not needed and has no entry; `deps fetch` with a pin that names the
  locked commit passes where `build --locked` is refused by the version; `deps status`
  lists needed packages only.
- *Option values* (`OptionValues`). `--mode` and `--toolchain`, and a mode nobody set, are
  not seen by OnApply and OnRequire; a local option without a default takes the value of a
  global one of its name in OnBuild but none before; an imported package's local option
  takes the importer's value when another option of the importer has its name.
  `ReadersAgree` is stated around these.
- *Generated files* (`GeneratedFiles`). A header longer than one write, torn by a kill,
  keeps its marker and is never made again; an input that changes without a later time is
  not seen; with `--keep-going`, a package is marked as generated before its generators
  run, so after a failure its next target compiles all the same.
- *CMake* (`ExternalTarget`). An edit between a first configure, or a callback, and the
  digest recorded afterwards is recorded as used; the body of a callback is not part
  of the digest, as its documentation says.
- *Commands* (`CommandRunner`). A cancellation that comes when the command has been
  collected kills nobody, so a background process in its group outlives a call that
  reports "cancelled"; a command without a context whose child keeps the pipe never
  returns, and with one fails after five seconds although it succeeded.
- *Configurations* (`ProjectFiles`). A killed `config copy config.json` in a project that
  has none leaves a torn default that every later command refuses; `local.json` passes as
  the name of a configuration, and saving it drops the machine's links
  (`pkg/config/local.go:15` says it keeps them). Names in the model exclude it.
- *Editor* (`ConfigEditor`, `EditorScreen`). The toolchain shown by default is the first of
  the alphabet while a build falls back to `host`; menuconfig after a change of the preset
  starts from the old one; picking the derived value that is shown makes it explicit but is
  not counted as a change; Esc in the filter selects the first package without moving the
  cursor, and collapsing or typing a filter does not clamp the cursor; Enter on a package
  whose first node is hidden as empty jumps nowhere, also when another of its nodes, below
  another root, has children there and is shown.
- *Extensions*. `ext provision` lets go of the repository before it installs; without a
  sum, the archive of another commit may be installed under the version it has scanned.

## 7. What is left out

- *Time stamps.* A hash is of the content when it is read. The cache of hashes
  by size and time stamps, and rewrites within the clock's granularity, are not
  modelled; the rules of generated headers, which go by times, are.
- *Partial effects inside git and other tools.* A kill during `git apply`, or after
  the last hunk was written, is not modelled; nor are submodules, CMake's own
  regeneration, or what happens inside one step of another build system.
- *Reading only*: `inspect`, `query`, `completion`, `doctor`, the discovery of packages,
  the check of symbols, and everything printed.
- *The script runtime*: the interpreter, its generated tables and the virtual file
  system of modules. The short names of sub-packages are resolved by string
  operations (`pkg/api/subdep.go`) and are references in the models.
- *Windows*: the cancellation by `taskkill`, response files, case-insensitive names.
- *The resolver's* dry runs; lock entries of local `SetGit` packages and of packages
  that follow HEAD; the import of manifests; the import path and rebasing of trees.
- *The trees of a build* (`MemberTrees`): URLs never change there; that a failed patch
  clears the state is one step with the failure (two in `SourceTree`); the user does
  not make a `src` directory between a link and the patches. Offline builds are those
  in which every request fails.
- *Links*: packages with an installation and no build directory, globbing, `AddGlobal*`
  of packages a configuration drops, more than one target per package. When a link is
  due, and kills, are those of `TargetBuild`.
- *Editor*: what rows look like; whether a preset is there and a choice has one value
  only. *Extensions*: `VMAKE_TRUST_ALL` and a user who edits a checkout.
- *Numbers* of a version beyond the width of an int; the validation of names and types
  of options; reverts of an edit in `ExternalTarget` (each edit is a new content).
- *The user between two reads of one command.* Files of the project are edited while no
  command has read them (`EditScript`, `EditPin`, `EditLink`), except where a module
  says otherwise (`TargetBuild`, `BuildReport`, `ExternalTarget`, `GeneratedFiles`).
