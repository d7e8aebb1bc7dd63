SPECIFICATION Spec
CONSTANTS
  Replicas = {r1}
  Nobody = Nobody
  tv = tv
  phone = phone
  Sessions <- TvTwice
  FirstSession <- TvOne
  Titles = {A, B}
  FirstTitle = A
  Limit = 1
  GracePolls = 4
  Stale = 6
  MaxActs = 2
  MaxFaults = 0
PROPERTIES
  OneCycleSettles
CHECK_DEADLOCK FALSE
