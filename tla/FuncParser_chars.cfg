\* Every string of up to 4 characters, over all that the parser tells apart.
CONSTANTS
  Letter <- MCLetter
  Inputs <- MCInputs
  Garbage = Garbage
  CheckAsserts = TRUE
  MaxLen = 4
  Alphabet = {"a", "=", ",", ";", "(", ")", "quote", "escape", "space"}
SPECIFICATION Spec
INVARIANTS
  TypeOK
  GarbageStaysInside
  FunctionsAreTheCalls
PROPERTY Terminates
