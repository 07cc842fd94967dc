SPECIFICATION Spec
CONSTANTS
  a = a  b = b  c = c  d = d  m = m  n = n  F = F  old = old
  Sample = {a, b, c, d}
  Publishable = {b, d}
  Rule = {"X", "Y"}
  RulesOf <- Expected
  Marker = {m, n}
  Collections <- Held
  NoBytes = NoBytes
  Leaks = {}
  Family = {F}
  Usable = {F}
  Live = live
  Earlier = {old}
  Before <- Sessions
  Tab = {t1}
  Applier = {p1}
  MaxProposals = 1
  NoFamily = NoFamily
INVARIANTS
  NoSessionRenamesTheRules
PROPERTIES
  NobodyRelabels
  LabelsRestOnWhatIsRead
CHECK_DEADLOCK FALSE
