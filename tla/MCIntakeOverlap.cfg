SPECIFICATION FairSpec
CONSTANTS
  Jobs = {j1}
  NoJob = NoJob
  Calls = {c1, c2}
  Strategy = "hardlink"
  Occupied = FALSE
  RuleManaged = FALSE
  Sources = {"edge", "sweep", "cancel"}
  ReleaseTo = {}
  MaxEdges = 2
  MaxTries = 0
  MaxAdds = 0
  MaxRestarts = 0
INVARIANTS
  PlacedOnce
  RetryResumes
PROPERTIES
  Settles
CHECK_DEADLOCK FALSE
