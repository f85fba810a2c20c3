SPECIFICATION Spec
CONSTANTS
  Outputs = {winit}
  Screen = winit
  NoWindow = NoWindow
  NoSurface = NoSurface
  Toplevels = {t1, t2, t3}
  Popups = {p1, p2}
  Limits = {0, 1, 2}
  MaxSurfaces = 3
  HasSubsurfaces = FALSE
SYMMETRY SurfaceSymmetry
INVARIANTS MapsStaySound KeyboardFollowsFocus ActivatedIsFocused FramesAreScheduled
