SPECIFICATION FairSpec
CONSTANTS
  Handlers = {h1, h2}
  Threshold = 2
  Window = 1
  Cooldown = 1
  Null = Null
  MaxTime = 3
  MaxRequests = 3
  MaxResets = 1
INVARIANTS ClosedBelowThreshold NoLostViolation
PROPERTIES TripNeedsCause RequestsEnd
