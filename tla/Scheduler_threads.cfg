SPECIFICATION FairSpec
CONSTANTS
  Runs = 2
  Minds = {TRUE, FALSE}
  MindMay = {"resume", "approve"}
  Patience = 1
  MaxRequests = 1
  MaxRestarts = 1
INVARIANTS
  TypeOK
  OneDrivenRun
PROPERTIES
  ReadOncePerStop
  StopHolds
  EveryRunSettles
