SPECIFICATION ModesSpec
CONSTANTS
  Branches = {b1, b2}
  Gates = {g}
  Kinds <- MCKinds
  Stories <- MCStories
  MaxRuns = 1
  MaxLands = 2
SYMMETRY Symmetry
INVARIANTS
    LockOutlivesMerges
PROPERTIES
    NoBranchWeakensItsOwn
CHECK_DEADLOCK FALSE
