SPECIFICATION FairSpec
CONSTANTS
  N = 2
  RetryCap = 1
  MaxFaults = 1
INVARIANTS
  TypeOK
  HandoverComplete
  ReportedLimitsAreSent
  RetryBudget
PROPERTIES
  DecisionsAreFinal
  StoppedRunRests
  ImplementsTriage
  LeavesPolygon
