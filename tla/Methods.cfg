\* Every class there can be, and the methods of two of them printed, with
\* assertions and without.
CONSTANTS
  NoInfo = NoInfo
  Decls <- MCDecls
  NoMethod = NoMethod
  Watched <- MCWatched
SPECIFICATION ClassSpec
INVARIANTS
  ExactlyTheMembers
  TwiceOnlyThen
  LayersKept
  DescribedAgain
  MovedLvalues
  NamedAlike
  PrintedSaysTheSame
  DeclAgreesWithParts
