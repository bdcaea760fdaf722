\* Two overlapping jobs: what the retry of the one does to the other.
CONSTANTS
  Cases = {c1}
  Foreign = {}
  Jobs = {j1, j2}
  SIStatuses = {"in_progress", "done"}
  ItemsCount = 2
  MaxAttempts = 1
  MayRefuse = FALSE
  MaxLate = 0
  None = None
SPECIFICATION FairSpec
CHECK_DEADLOCK FALSE
PROPERTY FinalStatusIsStable
