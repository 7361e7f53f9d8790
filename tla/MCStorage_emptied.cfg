SPECIFICATION StorageSpec
CONSTANTS
  c1 = c1
  c2 = c2
  r1 = r1
  u1 = u1
  u2 = u2
  a = a
  b = b
  bad = bad
  p1 = p1
  p2 = p2
  k1 = k1
  k2 = k2
  main = main
  tag = tag
  NoCommit = NoCommit
  NoRef = NoRef
  NoState = NoState
  Commits = {c1, c2}
  Refs = {}
  URLs = {u1, u2}
  PatchSets <- PatchedSets
  Bad = {bad}
  Masks <- PatchedMasks
  MaxCommands = 3
  MaxKills = 0
  MaxMoves = 0
  Owner = "owner"
  Sharers <- Members
  Nested <- Owned
  Locals <- Local
  Patched <- PatchedPackages
  Heads = {c1, c2}
  NoHead = NoHead
  NoRecord = NoRecord
  Needs <- NeededSets
  MaxBuilds = 3
  MaxHeadMoves = 1
  MaxBuildKills = 1
  Procs = {p1, p2}
  Free = Free
  Shas = {k1, k2}
  NoSha = NoSha
  CacheRefs = {main, tag}
  NoCacheRef = NoCacheRef
  Tags = {tag}
  HeadRef = main
  MaxClones = 2
  MaxCacheMoves = 1
  MaxCacheKills = 1
  FirstKinds = {"absent", "users", "whole", "torn"}
  Parts = {"killed"}
CHECK_DEADLOCK FALSE
INVARIANTS
  BuiltIsWhatWasAsked
