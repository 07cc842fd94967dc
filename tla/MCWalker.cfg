SPECIFICATION Spec
CONSTANTS
  r = r
  a = a
  b = b
  Dir = {r, a, b}
  Name = {"f", "k", "l", "x", "y"}
  NoDir = NoDir
  NoName = NoName
  Scenarios <- AllScenarios
  MaxLinks = 2
  MaxRemovals = 1
INVARIANTS
  NothingIsLost
  SilentMeansComplete
PROPERTIES
  WalkEnds
