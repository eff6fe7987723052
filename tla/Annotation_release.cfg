\* No assertions: edits with invalid ends go through, null file entries too;
\* the third file cannot be opened.
CONSTANTS
  Files <- MCFiles
  Headers <- MCHeaders
  Length <- MCLength
  Semicolons <- MCSemicolons
  Letter <- MCLetter
  MethodMaps <- MCMethodMaps
  UnitMaps <- MCUnitMaps
  Unreadable = {"o"}
  Unbacked = {"m"}
  NoFile = NoFile
  CheckAsserts = FALSE
SPECIFICATION Spec
INVARIANTS
  BuffersHoldTheReplacements
  EditsStayInside
PROPERTIES
  AllFilesHandled
