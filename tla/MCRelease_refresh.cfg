SPECIFICATION Release
CONSTANTS
  a = a  b = b  old = old  new = new  r1 = r1  r2 = r2  t1 = t1  t2 = t2
  X = X  Y = Y
  Run = {r1, r2}
  Desk = {t1, t2}
  Sample = {a, b}
  Rule = {X, Y}
  Build = {old, new}
  Says <- MCSays
  OnDisk = {a, b}
  Begin <- MCBegin
  Menus <- MCMenus
  Shipping = {a, b}
  Absent = Absent
  Nobody = Nobody
  Torn = Torn
  Typed = Typed
SYMMETRY MCSymmetry
INVARIANT AbsentMeansNoneOwed
CHECK_DEADLOCK FALSE
