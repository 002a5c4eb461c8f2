SPECIFICATION Spec
CONSTANTS
  Runs = 1
  Minds = {TRUE}
  MindMay = {}
  Patience = 1
  MaxRequests = 1
  MaxRestarts = 0
INVARIANTS
  LoopSurvivesTheMind
