SPECIFICATION PicturesSpec
CONSTANTS
  WindowSizes <- FewSizes
  Buffers <- Committed
  Themes <- AnyTheme
  Glyphs <- AnyGlyphs
  Garbage <- AnyGarbage
  MaxCommits = 2
  Lists <- FewLists
  Advance <- Advances
  Scales = {1, 2}
  CacheLimit = 2
  MaxFrames = 3
INVARIANTS PictureIsFresh ClientsShowTheirOwn PathsAgreeWithinRounding CacheIsRight NamesFitTheirBoxes
