\* An annotated variable, as in the usage of kRequiredAnnotationPrefix.
CONSTANTS
  Files <- MCFiles
  Headers <- MCHeaders
  Length <- MCLength
  Semicolons <- MCSemicolons
  Letter <- MCLetter
  MethodMaps <- MCMethodMaps
  UnitMaps <- MCVariableUnits
  Unreadable = {}
  Unbacked = {}
  NoFile = NoFile
  CheckAsserts = TRUE
SPECIFICATION Spec
INVARIANTS
  ReplacingGoesOn
