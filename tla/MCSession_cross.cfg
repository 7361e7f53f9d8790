SPECIFICATION PartSpec
CONSTANTS
  app = app
  lib = lib
  tool = tool
  util = util
  aBin = aBin
  aAux = aAux
  lLib = lLib
  tGen = tGen
  uLib = uLib
  host = host
  cross = cross
  Packages = {app, lib, tool, util}
  Targets = {aBin, aAux, lLib, tGen, uLib}
  UsesRequires = {aBin, tGen}
  Toolchains = {host, cross}
  Inherit = Inherit
  Global = cross
  MainScope = MainScope
  Unbound = Unbound
  NoTarget = NoTarget
  NonDefault = {aAux}
  MaxCalls = 4
  PkgOf <- MCPkgOf
  PkgDeps <- MCPkgDeps
  Rank <- MCRank
  Own <- MCOwn
  Explicit <- MCExplicit
  p1 = p1
  p2 = p2
  Procs = {p1, p2}
  Free = Free
  Names <- TwoExtensions
  Summed = {"e1"}
  MaxCommit = 2
  MaxCommands = 3
  MaxKills = 1
INVARIANTS
  RunsOnBuiltDeps
  SubGraphsAreWhole
  SuccessIsComplete
  LinkIsRight
  ExtensionsAreSound
PROPERTIES
  SessionKeepsContract
  SessionEnds
  RecordsChangeAlone
