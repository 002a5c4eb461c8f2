SPECIFICATION Spec
CONSTANTS
  Problem = {p1}
  Dropped = {}
  Chores = {"metadata", "custom"}
  Granted = TRUE
  RetryCap = 2
  MaxRequests = 0
  MaxCrashes = 0
INVARIANTS
  FailedGroupCanResume
