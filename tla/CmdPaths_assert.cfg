\* A build with assertions.
CONSTANTS
  None = None
  Option = {"dir", "jobs"}
  Type <- MCType
  Default <- MCDefault
  Unknown = {"unknown", "un,known"}
  WithComma = {"un,known"}
  Value = {"number", "empty"}
  Numbers = {"number"}
  Argument <- MCArgument
  MaxArguments = 2
  Builds = {TRUE}
  MaxChanges = 2
SPECIFICATION Spec
INVARIANTS
  InvalidGivesEmpty
