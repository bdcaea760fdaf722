\* Two overlapping jobs, every failure.
CONSTANTS
  Cases = {c1}
  Foreign = {}
  Jobs = {j1, j2}
  SIStatuses = {"in_progress", "done"}
  ItemsCount = 2
  MaxAttempts = 2
  MayRefuse = FALSE
  MaxLate = 1
  None = None
SPECIFICATION Spec
CHECK_DEADLOCK FALSE
SYMMETRY Symmetry
INVARIANTS
  IdsOutliveClosing
  FinalIsAnonymised
