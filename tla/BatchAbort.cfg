SPECIFICATION Spec
CONSTANTS
  c1 = c1
  c2 = c2
  c3 = c3
  c4 = c4
  d1 = d1
  d2 = d2
  s1 = s1
  s2 = s2
  v1 = v1
  v2 = v2
  None = None
  Default = Default
  Conf <- MCConf
  Dir = {d1, d2}
  Sym = {s1, s2}
  Val = {v1, v2}
  Requests <- MCRequests
  Unresolvable = {c3}
  NotLocal = {c4}
  Rejected <- MCRejected
  MaxRuns = 3
INVARIANTS
  KeepsGoing
CHECK_DEADLOCK FALSE
