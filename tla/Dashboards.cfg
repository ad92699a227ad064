SPECIFICATION Spec
CONSTANTS
  Browsers = {b1, b2}
  Widgets = {w1, w2}
  MaxId = 2
  MaxEdits = 3
  MaxDrops = 1
SYMMETRY Symmetry
INVARIANTS
  TypeOK
  EditorSeesTables
PROPERTIES
  DeletedStaysDeleted
  FreshEditKeepsRest
CHECK_DEADLOCK FALSE
