SPECIFICATION FairSpec
CONSTANTS
  s1 = s1
  g1 = g1
  e1 = e1
  d1 = d1
  d2 = d2
  o1 = o1
  o2 = o2
  w1 = w1
  w2 = w2
  Sends = {s1}
  Digests = {g1}
  Exports = {e1}
  Deletions = {d1}
  Owners = {o1}
  Workers = {w1, w2}
  MaxAttempts = 2
  MaxJobs = 2
  MaxFaults = 2
  MaxCrash = 1
INVARIANTS RunningIsHeld EffectsBounded FilesAccounted
PROPERTIES ThreeStages JobsSettle
CHECK_DEADLOCK FALSE
