SPECIFICATION BuildSpec
CONSTANTS
  Gone = Gone
  NoFile = NoFile
  Torn = Torn
  NoRecord = NoRecord
  s1 = s1
  s2 = s2
  h1 = h1
  l1 = l1
  v1 = v1
  v2 = v2
  Sources = {s1, s2}
  Headers = {h1}
  LinkFiles = {l1}
  Versions = {v1, v2, Gone}
  Includes <- MCIncludes
  c1 = c1
  Commands = {c1, c2}
  Workers = {w1, w2}
  MaxEdits = 1
  MaxBuilds = 2
  Order <- MCOrder
  NonDefault = {"lib", "mid"}
  Package <- MCPackage
  Deps <- MCDeps
  Imports <- MCImports
  Inputs = {"x", "y"}
  MaxChanges = 2
  MaxCommands = 2
INVARIANTS
  SuccessIsClean
  RecordsAreHonest
  LinkSeesWholeTarget
  NoCompilerOutlivesPool
  GeneratedIsCurrent
PROPERTIES
  NoopBuildTouchesNothing
CHECK_DEADLOCK FALSE
