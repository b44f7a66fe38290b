SPECIFICATION FairSpec
CONSTANTS
  e1 = e1
  e2 = e2
  w1 = w1
  w2 = w2
  r1 = r1
  r2 = r2
  p1 = p1
  Events = {e1, e2}
  Types <- RaceTypes
  Receivers = {r1, r2}
  Workers = {w1, w2}
  Replayers = {p1}
  MaxAttempts = 2
  SentCount = 10
  MaxEnv = 1
  MaxFaults = 1
  MaxCrash = 1
  MaxStalls = 0
 
PROPERTIES  EventsSettle
CHECK_DEADLOCK FALSE
