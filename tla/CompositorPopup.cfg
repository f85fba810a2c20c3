SPECIFICATION Spec
CONSTANTS
  Outputs = {winit}
  Screen = winit
  NoWindow = NoWindow
  NoSurface = NoSurface
  Toplevels = {t1, t2}
  Popups = {p1}
  Limits = {1}
  MaxSurfaces = 3
  HasSubsurfaces = FALSE
INVARIANT KeyboardNeverDangles
