\* One job at a time, network failures only, which come to an end.
CONSTANTS
  Cases = {c1}
  Foreign = {x1}
  Jobs = {j1}
  SIStatuses = {"hubee_notified", "si_received", "in_progress", "done"}
  ItemsCount = 2
  MaxAttempts = 2
  MayRefuse = FALSE
  MaxLate = 1
  None = None
SPECIFICATION FairSpec
CHECK_DEADLOCK FALSE
INVARIANT LastUpdateIsApplied
PROPERTIES
  OwnNotificationsAreHandled
  FinalStatusIsStable
  ImplementsLifecycle
