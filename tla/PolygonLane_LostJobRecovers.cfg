SPECIFICATION FairSpec
CONSTANTS
  N = 1
  RetryCap = 1
  MaxFaults = 1
PROPERTY
  LostJobRecovers
