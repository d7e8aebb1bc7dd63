SPECIFICATION FairSpec
CONSTANTS
  Torrents = {h1, h2}
  Slots = 1
  BatchSize = 1
  Interval = 1
  MaxInterval = 2
  MaxOverdue = 2
  MaxCount = 3
  MaxEvents = 1
INVARIANTS
  TypeOK
  PausedIsRemembered
PROPERTIES
  HealthyFinishes
  NoOneWayTrip
CHECK_DEADLOCK FALSE
