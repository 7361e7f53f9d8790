SPECIFICATION CacheSpec
CONSTANTS
  p1 = p1
  p2 = p2
  c1 = c1
  c2 = c2
  main = main
  v1 = v1
  Procs = {p1, p2}
  Shas = {c1, c2}
  NoSha = NoSha
  CacheRefs = {main, v1}
  NoCacheRef = NoCacheRef
  Tags = {v1}
  HeadRef = main
  Free = Free
  MaxClones = 2
  MaxCacheMoves = 1
  MaxCacheKills = 0
  FirstKinds = {"absent"}
INVARIANTS
  CachedPinsSucceed
CHECK_DEADLOCK FALSE
