SPECIFICATION Spec
CONSTANTS
  Jobs = {j1, j2}
  NoJob = NoJob
  Calls = {c1}
  Strategy = "hardlink"
  Occupied = TRUE
  RuleManaged = FALSE
  Sources = {"sweep", "advance", "retry", "cancel", "release", "reconcile", "supersede", "remove"}
  ReleaseTo = {"importing"}
  MaxEdges = 0
  MaxTries = 1
  MaxAdds = 1
  MaxRestarts = 1
SYMMETRY Symmetry
INVARIANTS
  TypeOK
  PlacedOnce
  PlacedIsIdentified
  IntentBacked
  ImportedIsPlaced
CHECK_DEADLOCK FALSE
