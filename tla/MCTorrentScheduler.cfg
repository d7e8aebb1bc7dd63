SPECIFICATION FairSpec
CONSTANTS
  t1 = t1
  t2 = t2
  Torrents = {t1, t2}
  Rank <- MCRank
  Full = 1
  Unlimited = Unlimited
  Policies <- MCPolicies
  Budget = 1
  Kinds = {"protect_from_pause", "protect_from_removal", "exclude", "force_start"}
  Others = {"download", "seed", "pause", "resume", "delete", "recheck", "park", "window", "override", "policy", "mode"}
  MaxEvents = 2
INVARIANTS
  TypeOK
  PlanIsSound
  NotesTellTheTruth
PROPERTIES
  Converges
CHECK_DEADLOCK FALSE
