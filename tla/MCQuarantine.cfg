SPECIFICATION Spec
CONSTANTS
  shell = shell
  page = page
  alias = alias
  Mover = {m1, m2}
  Source = {shell, page, alias}
  Link = {alias}
  Target <- AliasOfShell
  Renames = {"works", "fails"}
  MaxAttempt = 1
  NoSample = NoSample
  MaxCrashes = 1
INVARIANTS
  EvidenceSurvives
  MovedIsContained
PROPERTIES
  NothingIsWrittenOver
  KeepsCustody
  MoveEnds
