SPECIFICATION FairSpec
CONSTANTS
  Problem = {p1, p2}
  Dropped = {d}
  Chores = {"metadata", "division"}
  Granted = FALSE
  RetryCap = 2
  MaxRequests = 2
  MaxCrashes = 1
INVARIANTS
  TypeOK
  LabelsSurvive
  ChoredMeansAllApplied
  NotRepeatedUnasked
PROPERTIES
  OnlyOwnContent
  WritesAreGranted
  ImplementsConvoy
  Settles
