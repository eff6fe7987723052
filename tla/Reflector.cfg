\* Declarations in all kinds of namespaces, in any order, with assertions: a class
\* with a definition inside a class ends the process.
CONSTANTS
  Context <- MCContext
  Unit = "unit"
  Parent <- MCParent
  Kind <- MCKind
  Anonymous <- MCAnonymous
  Name <- MCName
  None = None
  Decl <- MCDecl
  What <- MCWhat
  Within <- MCWithin
  QualifiedName <- MCQualifiedName
  Definition <- MCDefinition
  Body <- MCBody
  Primary <- MCPrimary
  Inline = {"v", "v2"}
  CheckAsserts = TRUE
  Asked = {"x1", "x2", "s1", "s2", "t1", "t2", "t3", "z", "w", "e", "i"}
SPECIFICATION Spec
INVARIANTS
  TypeOK
  TreeOK
  PlacedWhereDeclared
  OneInfoPerName
  AnsweredAlike
  InfoIsOfTheDecl
PROPERTIES
  EveryCallReturns
