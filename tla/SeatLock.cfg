SPECIFICATION SeatSpec
CONSTANTS
  Outputs = {winit}
  Screen = winit
  NoWindow = NoWindow
  NoClient = NoClient
  Shapes <- TallAndShort
  Columns = 2
  Clients = {c1}
  Keys = {}
  Fingers = {}
  HasPointer = TRUE
  MaxButtons = 1
  MaxWindows = 1
INVARIANT MovementIsTold
