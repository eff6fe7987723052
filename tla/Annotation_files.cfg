\* Two files that include one header, and a third one with no file entry, where
\* the process ends.
CONSTANTS
  Files <- MCFiles
  Headers <- MCHeaders
  Length <- MCLength
  Semicolons <- MCSemicolons
  Letter <- MCLetter
  MethodMaps <- MCMethodMaps
  UnitMaps <- MCUnitMaps
  Unreadable = {}
  Unbacked = {"o"}
  NoFile = NoFile
  CheckAsserts = TRUE
SPECIFICATION Spec
INVARIANTS
  TypeOK
  BuffersHoldTheReplacements
  AnnotationPicksOneMethod
PROPERTY ImplementsDispatch
