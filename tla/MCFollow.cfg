\* One request and one job around the row that is saved last.
CONSTANTS
  Requests = {q1}
  References = {ref1}
  Folders = {f1}
  NFiles = 1
  Jobs = {j1}
  SIStatuses = {"in_progress", "done"}
  ItemsCount = 2
  MaxAttempts = 2
  MayRefuse = FALSE
  MaxLate = 1
  None = None
SPECIFICATION FairSpec
CHECK_DEADLOCK FALSE
INVARIANT RowsFollowCompletion
PROPERTIES
  MissedOnlyWhileSending
  EndedIsAnonymised
