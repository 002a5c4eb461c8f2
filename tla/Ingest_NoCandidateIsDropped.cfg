SPECIFICATION FairSpec
CONSTANTS
  Folders = 2
  FeedbackAfter = 1
  MaxEvents = 0
PROPERTIES
  NoCandidateIsDropped
