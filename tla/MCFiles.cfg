SPECIFICATION AllSpec
CONSTANTS
  Writers = {w1, w2}
  Readers = {r1}
  Files = {f1, f2, f3, f4}
  Path = path
  Contents = {a, b}
  NoFile = NoFile
  Torn = Torn
  ThemeFiles <- AnyTheme
  ConfigFiles <- AnyConfig
  Options <- AnyOption
  MaxOptions = 3
  Headers <- AnyHeader
  FileLines <- AnyLine
  Lines <- EntryOrCommand
  Characters <- AnyCharacter
  MaxLines = 5
  Contexts <- FilesOpened
  Desktops = {"GostUI"}
  Locales <- AnyLocale
  OnPath <- Programs
SYMMETRY Symmetry
INVARIANTS TypeOK ThemeIsTrueToItsFile StartIsWhatWasAsked  CommandsAreRead
PROPERTIES ReplacesAtomically TextsStayWhole
