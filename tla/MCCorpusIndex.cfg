SPECIFICATION Spec
CONSTANTS
  Tool = {t1, t2}
  Sha = {a}
  Menu = {"importTree", "importProbe", "confirm", "review", "tag", "rewrite", "publish", "resolve", "close", "derive"}
  NoRow = NoRow
  Nobody = Nobody
INVARIANTS
  NoEmbrace
  DatabaseIsWhole
PROPERTIES
  NoSampleIsLost
  OnlyClearedRowsArePublished
  VerdictsStand
  RunEnds
