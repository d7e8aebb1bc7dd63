SPECIFICATION FairSpec
CONSTANTS
  main = main
  child = child
  trig = trig
  prep = prep
  fork = fork
  wait = wait
  gate = gate
  delay = delay
  sub = sub
  cond = cond
  join = join
  pick = pick
  work = work
  stop = stop
  None = None
  Execs = {main, child}
  Nodes <- AllNodes
  GraphOf <- TourAndChild
  Parent <- ChildOfMain
  Calls = {c1}
  Sources = {"tick", "event", "approver", "cancel"}
  MaxRestarts = 2
INVARIANTS
  TypeOK
  ResumedByItsOwn
  CompletedMeansDone
PROPERTIES
  SettledNotRedispatched
  Terminates
CHECK_DEADLOCK FALSE
