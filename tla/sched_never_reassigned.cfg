SPECIFICATION FairSpec
CONSTANTS
  s1 = s1
  s2 = s2
  once = once
  periodic = periodic
  elsewhere = elsewhere
  None = None
  Schedulers = {s1, s2}
  Unstarted = {}
  WorkerId <- SeparateIds
  Host <- TwoMachines
  Registered <- Here
  Priority <- Priorities
  Tasks = {once, periodic}
  Periodic = {periodic}
  MaxRuns = 1
  MaxConcurrent = 1
  Faults = {"forkfail"}
PROPERTIES EveryRunEnds
