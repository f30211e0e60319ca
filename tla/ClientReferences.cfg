SPECIFICATION Spec
CONSTANTS
  Keys = {a, b}
  Targets = {b}
  Objs = {o1, o2, o3, o4}
  Handlers = {h1}
  Callers = {c1}
  None = None
  Program = Program
  Operations = {"new", "link", "save"}
  MaxVersion = 1
  MaxHeld = 2
SYMMETRY MCSymmetry
INVARIANTS
  ReferencesAreStored
CHECK_DEADLOCK FALSE
