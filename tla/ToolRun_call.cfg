SPECIFICATION FairSpec
CONSTANTS
  Stages = 2
  Replayable = {1}
  Timeout = 4
  QuietAfter = 2
  JoinLimit = 1
  LogCap = 2
  MaxNoise = 1
  MaxRaises = 1
INVARIANTS TypeOK VerdictIsEarned SafeRetry DoubtIsOneStage SilenceIsExplained
PROPERTIES Returns
CHECK_DEADLOCK FALSE
