SPECIFICATION FairSpec
CONSTANTS
  Folders = 1
  FeedbackAfter = 1
  MaxEvents = 1
PROPERTIES
  RegisteredRunIsWorked
