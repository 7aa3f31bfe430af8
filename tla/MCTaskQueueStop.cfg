SPECIFICATION Spec
CONSTANTS
  s1 = s1
  x1 = x1
  c1 = c1
  NoPod = NoPod
  Pods = {p1, p2}
  Starts = {s1}
  Stops = {x1}
  Channels = {c1}
  Keys = {s1, x1}
  Orig <- MCOrig
  Chan <- MCChan
  Key <- MCKey
  Outcomes = {"success", "unrecoverable"}
  MayCrash = {p1}
  MaxCopies = 2
CONSTRAINT NotRaced
INVARIANTS UnracedOneExecutor UnracedNoTaskLoss UnracedLeased UnracedTracked UnracedNoDup
CHECK_DEADLOCK FALSE
