SPECIFICATION Spec
CONSTANTS
  Id = {"neon", "daylight", "neon-copy"}
  Neon = "neon"
  PresetStyle <- MCPresets
  CopyOf <- MCCopies
  Style = {1, 2}
  WildStyle = {3}
  ClampedStyle = 2
  NoFile = NoFile
  NoId = NoId
  MaxFaults = 1
  MaxEdits = 1
INVARIANTS TypeOK RestartKeepsTheme DropdownNamesProfile
