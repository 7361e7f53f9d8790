SPECIFICATION EditorSpec
CONSTANTS
  Chips <- MCChips
  Toolchains <- MCToolchains
  TargetNames <- MCTargets
  Profile <- MCProfile
  ToolchainTarget <- MCToolchainTarget
  Declared <- MCDeclared
  Presets = {"p1", "p2"}
  DefaultPreset = "p1"
  MaxSessions = 1
CHECK_DEADLOCK FALSE
PROPERTY MenuconfigIsKept
