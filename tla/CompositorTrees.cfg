SPECIFICATION Spec
CONSTANTS
  Outputs = {winit}
  Screen = winit
  NoWindow = NoWindow
  NoSurface = NoSurface
  Toplevels = {t1, t2}
  Popups = {}
  Limits = {1, 2}
  MaxSurfaces = 2
  HasSubsurfaces = TRUE
PROPERTIES SubsurfaceRidesAlong EverybodyIsAnswered
