\* Two presentations at once, of descriptions with dynamic types or a standard one.
SPECIFICATION Spec
CONSTANTS
  p1 = p1
  p2 = p2
  Presentations = {p1, p2}
  Descriptions <- MCDescriptions
  Pts <- MCPts
  Standard <- MCStandard
  MadeFirst = TRUE
  Null = Null
SYMMETRY Symmetry
INVARIANTS
  TypeOK
  NothingFreedIsUsed
  EveryDefinitionOwned
  ParserReady
  Configured
CHECK_DEADLOCK FALSE
