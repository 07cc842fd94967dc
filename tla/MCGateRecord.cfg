SPECIFICATION Spec
CONSTANTS
  p1 = p1
  p2 = p2
  Run <- Slots
  IdentifierGate <- OneGate
  Found = {"f1", "f2"}
  Tags <- TagSets
  MaxTools = 2
  MaxMaps = 2
  MaxRuns = 2
  Says <- SaysTable
SYMMETRY Symmetry
CHECK_DEADLOCK FALSE
INVARIANTS
  SignedFindingIsReal
  DecisionsStayAuditable
PROPERTIES
  ResultsAreMeasured
  ClearancesAreKept
  DecisionsStand
  PublishedIsCleanOrSigned
