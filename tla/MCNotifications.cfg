SPECIFICATION FairSpec
CONSTANTS
  Users = {u1}
  Channels = {"email", "telegram"}
  Addresses = {a1, a2}
  Nowhere = Nowhere
  FirstAddress = a1
  FirstPrefs = {{"in_app", "email"}, {"in_app", "telegram"}}
  Requests = {r1}
  Batch = 1
  MaxAttempts = 2
  MaxActs = 2
  MaxFaults = 2
INVARIANTS
  TypeOK
  SentOnce
  SentWithConsent
PROPERTIES
  EverySettles
  OutageReachesUser
CHECK_DEADLOCK FALSE
