\* A class inside a class, with assertions.
CONSTANTS
  Context <- MCContext
  Unit = "unit"
  Parent <- MCParent
  Kind <- MCKind
  Anonymous <- MCAnonymous
  Name <- MCName
  None = None
  Decl <- MCDecl
  What <- MCWhat
  Within <- MCWithin
  QualifiedName <- MCQualifiedName
  Definition <- MCDefinition
  Body <- MCBody
  Primary <- MCPrimary
  Inline = {"v", "v2"}
  CheckAsserts = TRUE
  Asked = {"x1", "x2", "i", "j"}
SPECIFICATION Spec
INVARIANTS
  TreeGivenIsEnough
