SPECIFICATION FairSpec
CONSTANTS
  Problem = {p1, p2}
  Dropped = {}
  RetryCap = 2
  MaxWrong = 1
  MaxEvents = 1
INVARIANTS
  TypeOK
  
  StopsForCause
PROPERTIES
  AuditSettles
