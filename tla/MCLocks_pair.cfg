SPECIFICATION LocksSpec
CONSTANTS
  p1 = p1
  p2 = p2
  o1 = o1
  o2 = o2
  Procs = {p1, p2}
  Projects = {a}
  Owners = {o1, o2}
  Repos = {r1}
  Trees = {t1}
  Caches = {c1}
  Lifecycle = Lifecycle
  NoLock = NoLock
  NoProject = NoProject
  Rank <- MCRank
  MaxSteps = 6
  Shells = {"q1", "q2"}
  Names = {"config.json", "debug.json"}
  Default = "config.json"
  Pinnable = {"g"}
  MaxCommands = 4
  MaxRemovals = 1
INVARIANTS
  SessionsExclude
  NoDeadlock
  UpdatesExclude
  NothingLeaks
  SelectedIsWhole
PROPERTIES
  WaitsEnd
  OnlyAskedChanges
