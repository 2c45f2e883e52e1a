SPECIFICATION Spec
CONSTANTS
  s1 = s1
  s2 = s2
  once = once
  periodic = periodic
  elsewhere = elsewhere
  None = None
  Schedulers = {s1, s2}
  Unstarted = {s2}
  WorkerId <- SharedId
  Host <- OneMachine
  Registered <- Here
  Priority <- Priorities
  Tasks = {once, periodic, elsewhere}
  Periodic = {periodic}
  MaxRuns = 2
  MaxConcurrent = 1
  Faults = {"crash", "expire", "forkfail", "dberror", "stop"}
INVARIANTS TypeOK DeadIsGone
PROPERTIES RunOnce NoResurrection
