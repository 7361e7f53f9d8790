SPECIFICATION ProjectSpec
CONSTANTS
  p1 = p1
  p2 = p2
  n = n
  g = g
  c1 = c1
  c2 = c2
  h1 = h1
  h2 = h2
  n1 = n1
  n2 = n2
  n3 = n3
  Nodes = {n1, n2, n3}
  Unknown = {"gone"}
  NodeRank <- NamesInOrder
  MaxListed = 2
  Written <- VersionsWritten
  Asked <- VersionsAsked
  MaxPublished = 3
  MaxRequired = 2
  Procs = {p1}
  Free = Free
  Native = {n}
  Registry = {g}
  MaxVersion = 2
  Commits = {c1, c2}
  NoCommit = NoCommit
  Heads = {h1, h2}
  NoHead = NoHead
  Declares <- MCDeclares
  Scripts <- MCScripts
  Configs = {{n}, {g}}
  Targets = {1, 2, c2}
  FirstTags <- MCFirstTags
  MaxCommands = 3
  MaxChanges = 1
  Tree <- ScreenTree
  Remotes <- OneRemote
  Options <- OptionsOfB
  KConfig <- KConfigOfD
  Queries = {"q1", "q2"}
  Named <- NamedByQuery
  Hits <- HitByQuery
  Heights = {2, 3}
  ToolchainNames = {"n1", "n2"}
  Definitions = 2
  Plugins = 2
  Chips <- MCChips
  Toolchains <- MCToolchains
  TargetNames <- MCTargets
  Profile <- MCProfile
  ToolchainTarget <- MCToolchainTarget
  Declared <- MCDeclared
  Presets = {"p1", "p2"}
  DefaultPreset = "p1"
  MaxSessions = 1
CHECK_DEADLOCK FALSE
INVARIANTS
  LockIsKept
  ExplicitIsBuilt
  RegistryIsSound
  SortIsRight
  VersionsAreRight
  
PROPERTIES
  AskedBeforeLosing
