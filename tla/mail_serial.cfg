SPECIFICATION FairSpec
CONSTANTS
  m1 = m1
  a1 = a1
  a2 = a2
  w1 = w1
  w2 = w2
  c1 = c1
  c2 = c2
  self = self
  Messages = {m1}
  Addrs = {a1, a2}
  Self = self
  Clients = {c1}
  Workers = {w1, w2}
  Ops <- NoCancel
  MaxAttempts = 2
  WindowMax = 2
  WarmupCap = 1
  ProviderMapped = TRUE
  MaxEnv = 1
  MaxFail = 1
  MaxCrash = 1
INVARIANTS TypeOK VettedIsCurrent SentReachesEveryone
PROPERTIES  DueIsSettled
CHECK_DEADLOCK FALSE
