SPECIFICATION FairSpec
CONSTANTS
  Replicas = {r1, r2}
  Nobody = Nobody
  tv = tv
  phone = phone
  Sessions <- TvTwice
  FirstSession <- TvOne
  Titles = {A, B}
  FirstTitle = A
  Limit = 1
  GracePolls = 2
  Stale = 1
  MaxActs = 2
  MaxFaults = 1
INVARIANTS
  TypeOK
  OneAtATime
PROPERTIES
  StopsForACause
  ExcessStops
CHECK_DEADLOCK FALSE
