SPECIFICATION FairSpec
CONSTANTS
  Torrents = {h1}
  AllTime = TRUE
  MaxMoved = 3
  MaxCompletions = 2
  MaxAdds = 1
  MaxMishaps = 1
INVARIANTS
  TypeOK
  EdgeAtMostOnce
PROPERTIES
  ImplementsTotals
  CompletionReachesRule
CHECK_DEADLOCK FALSE
