SPECIFICATION Spec
CONSTANTS
  Names = {x, y}
  Values = {a}
  MaxVersion = 3
  None = None
  View = View
  Unknown = Unknown
SYMMETRY MCSymmetry
INVARIANTS
  NoDanglingView
  SavedIsPending
PROPERTIES
  TombstoneIsFinal
  ChangesHaveVersions
  DeltaTellsCommit
  Refinement
