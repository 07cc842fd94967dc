SPECIFICATION Spec
CONSTANTS
  File = {f1, f2}
  Options <- SomeOptions
  MatchSets <- OneFinding
  NoRow = NoRow
  MaxMembers = 2
  ReadFaults = {"grown", "ioError"}
INVARIANTS
  PublishedIsRetained
  NothingHeldBetweenFiles
  PublishedRowsAreTrue
  OnlyHostileContentMoves
  HostileIsMovedOrReported
  
  UninterruptedMeansComplete
SYMMETRY FileSymmetry
