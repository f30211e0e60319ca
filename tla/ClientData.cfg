SPECIFICATION Spec
CONSTANTS
  Keys = {k}
  Targets = {}
  Objs = {o1, o2, o3}
  Handlers = {h1}
  Callers = {c1}
  None = None
  Program = Program
  Operations = {"edit", "get", "save", "call", "listen"}
  MaxVersion = 2
  MaxHeld = 1
SYMMETRY MCSymmetry
INVARIANTS
  RegistryBijective
  ContentMatchesVersion
PROPERTIES
  SaveRevertsNothing
CHECK_DEADLOCK FALSE
