SPECIFICATION Spec
CONSTANTS
  File = {f1, f2}
  Options <- AllOptions
  MatchSets <- AllFindings
  NoRow = NoRow
  MaxMembers = 1
  ReadFaults = {"grown", "ioError"}
INVARIANTS
  UnreadIsCounted
SYMMETRY FileSymmetry
