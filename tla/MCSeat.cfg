SPECIFICATION SeatSpec
CONSTANTS
  Outputs = {winit}
  Screen = winit
  NoWindow = NoWindow
  NoClient = NoClient
  Shapes <- TallAndShort
  Columns = 2
  Clients = {c1, c2}
  Keys <- SomeKeys
  Fingers <- TwoFingers
  HasPointer = TRUE
  MaxButtons = 1
  MaxWindows = 3
SYMMETRY ClientSymmetry
INVARIANTS TypeOK SelectionFollowsKeyboard TouchPointsAreInTheirOwnWindow
PROPERTIES LockHolds
