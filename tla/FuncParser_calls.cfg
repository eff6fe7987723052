\* Longer strings, over the characters that make calls and arguments; asserts
\* are compiled out, so that the parser goes on after a stray comma.
CONSTANTS
  Letter <- MCLetter
  Inputs <- MCInputs
  Garbage = Garbage
  CheckAsserts = FALSE
  MaxLen = 6
  Alphabet = {"a", "=", ",", ";", "(", ")"}
SPECIFICATION Spec
INVARIANTS
  ViewsAgree
  ArgumentsAreTheCalls
