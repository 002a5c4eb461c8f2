SPECIFICATION FairSpec
CONSTANTS
  Folders = 2
  FeedbackAfter = 2
  MaxEvents = 1
INVARIANTS
  TypeOK
  RegisteredIsSound
PROPERTIES
  StaleReportGoes
  EveryDeliveryIsAnswered
