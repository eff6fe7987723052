\* An annotated class inside an annotated class.
CONSTANTS
  Files <- MCFiles
  Headers <- MCHeaders
  Length <- MCLength
  Semicolons <- MCSemicolons
  Letter <- MCLetter
  MethodMaps <- MCMethodMaps
  UnitMaps <- MCNestedUnits
  Unreadable = {}
  Unbacked = {}
  NoFile = NoFile
  CheckAsserts = TRUE
SPECIFICATION Spec
INVARIANTS
  OtherTextStays
