SPECIFICATION Spec
CONSTANTS
  main = main
  child = child
  trig = trig
  prep = prep
  fork = fork
  wait = wait
  gate = gate
  delay = delay
  sub = sub
  cond = cond
  join = join
  pick = pick
  work = work
  stop = stop
  None = None
  Execs = {main}
  Nodes <- AllNodes
  GraphOf <- OnlyWait
  Parent <- NoParents
  Calls = {c1, c2}
  Sources = {"tick", "event"}
  MaxRestarts = 0
INVARIANT
  DispatchedOnce
CHECK_DEADLOCK FALSE
