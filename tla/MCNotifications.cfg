\* One job at a time, every failure.
CONSTANTS
  Cases = {c1}
  Foreign = {x1}
  Jobs = {j1}
  SIStatuses = {"in_progress", "done"}
  ItemsCount = 2
  MaxAttempts = 2
  MayRefuse = TRUE
  MaxLate = 0
  None = None
SPECIFICATION Spec
CHECK_DEADLOCK FALSE
INVARIANTS
  TypeOK
  IdsOutliveClosing
  FinalIsAnonymised
PROPERTIES
  ForeignStays
  AnonymisedIsFrozen
