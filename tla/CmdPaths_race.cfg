\* Both builds: init again and again, and other processes at work.
CONSTANTS
  None = None
  Option = {"dir", "jobs"}
  Type <- MCType
  Default <- MCDefault
  Unknown = {"unknown", "un,known"}
  WithComma = {"un,known"}
  Value = {"number", "empty"}
  Numbers = {"number"}
  Argument <- MCArgument
  MaxArguments = 2
  Builds = {TRUE, FALSE}
  MaxChanges = 2
SPECIFICATION Spec
INVARIANTS
  TypeOK
  DirectoryWasThere
  FileWasThere
  UnregisteredAreUnknown
  WellFormedIsAccepted
  WhenCallsFail
PROPERTIES
  FirstValueStays
