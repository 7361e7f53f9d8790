SPECIFICATION Spec
CONSTANTS
  p1 = p1
  p2 = p2
  n = n
  g = g
  c1 = c1
  c2 = c2
  h1 = h1
  h2 = h2
  Procs = {p1, p2}
  Free = Free
  Native = {n}
  Registry = {g}
  MaxVersion = 2
  Commits = {c1, c2}
  NoCommit = NoCommit
  Heads = {h1, h2}
  NoHead = NoHead
  Declares <- MCDeclares
  Scripts <- MCScripts
  Configs = {{n}, {g}}
  Targets = {1, 2, c2}
  FirstTags <- MCFirstTags
  MaxCommands = 2
  MaxChanges = 0
PROPERTIES
  PinsAreKept
CHECK_DEADLOCK FALSE
