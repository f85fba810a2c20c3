SPECIFICATION Spec
CONSTANTS
  Outputs = {o1, o2}
  NoWindow = NoWindow
  MaxWindows = 4
  MaxCapacity = 2
INVARIANTS TypeOK TilesFollowBar BarsHoldToplevels FamiliesAreTrees
PROPERTIES OrderIsKept ScreenIsKept
SYMMETRY OutputSymmetry
