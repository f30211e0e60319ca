SPECIFICATION Spec
CONSTANTS
  Keys = {a, b}
  Targets = {b}
  Objs = {o1, o2, o3, o4}
  Handlers = {h1, h2}
  Callers = {c1}
  None = None
  Program = Program
  Operations = {}
  MaxVersion = 2
  MaxHeld = 1
SYMMETRY MCSymmetry
INVARIANTS
  ReferencesKeptUpToDate
