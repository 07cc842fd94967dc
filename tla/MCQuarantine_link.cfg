SPECIFICATION Spec
CONSTANTS
  shell = shell
  page = page
  alias = alias
  Mover = {m1}
  Source = {shell, alias}
  Link = {alias}
  Target <- AliasOfShell
  Renames = {"works", "fails"}
  MaxAttempt = 1
  MaxCrashes = 0
  NoSample = NoSample
INVARIANTS
  MovedLinkIsContained
