SPECIFICATION ScreenSpec
CONSTANTS
  Outputs = {winit}
  Screen = winit
  NoWindow = NoWindow
  NoTab = NoTab
  Areas <- AnyArea
  RawThemes <- AnyTheme
  MinSizes <- SomeMinimums
  Positioners <- SomeMenus
  MaxCards = 6
  MaxWindows = 3
INVARIANTS ShellFitsTheScreen TilesShareTheZone PressActsOnWhatIsSeen
PROPERTIES StripMovesByOneColumn
