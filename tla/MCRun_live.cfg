SPECIFICATION RunSpec
CONSTANTS
  c1 = c1
  Gone = Gone
  NoFile = NoFile
  Torn = Torn
  NoRecord = NoRecord
  s1 = s1
  s2 = s2
  h1 = h1
  l1 = l1
  v1 = v1
  v2 = v2
  Sources = {s1, s2}
  Headers = {h1}
  LinkFiles = {}
  Versions = {v1, v2, Gone}
  Includes <- MCIncludes
  Commands = {c1, c2}
  Workers = {w1, w2}
  MaxEdits = 1
  MaxBuilds = 1
  MaxWrites = 1
  Arguments <- MCArguments
INVARIANTS
  CommandsAreRight
PROPERTIES
  RunsEnd
