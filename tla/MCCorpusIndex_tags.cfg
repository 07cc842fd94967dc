SPECIFICATION Spec
CONSTANTS
  Tool = {t1, t2}
  Sha = {a}
  Menu = {"importProbe", "confirm", "tag", "publish", "summary"}
  NoRow = NoRow
  Nobody = Nobody
PROPERTIES
  TaggedRowsStayLocal
