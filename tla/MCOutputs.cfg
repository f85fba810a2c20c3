SPECIFICATION OutputsSpec
CONSTANTS
  NoTab = NoTab
  MaxTabs = 5
  Modes <- AnyModes
  Scales <- AnyScales
  Positions <- Origin
  Bars <- BarHeights
  MaxId = 3
  MaxOutputs = 2
INVARIANTS TypeOK StripInv
PROPERTIES StepsKeepCards DockIsSound
