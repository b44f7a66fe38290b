SPECIFICATION Spec
CONSTANTS
  m1 = m1
  a1 = a1
  a2 = a2
  w1 = w1
  w2 = w2
  c1 = c1
  c2 = c2
  self = self
  Messages = {m1}
  Addrs = {a1, a2}
  Self = self
  Clients = {c1, c2}
  Workers = {w1}
  Ops <- EveryOp
  MaxAttempts = 2
  WindowMax = 1
  WarmupCap = 1
  ProviderMapped = TRUE
  MaxEnv = 0
  MaxFail = 1
  MaxCrash = 0
SYMMETRY RaceSymmetry
INVARIANTS SendingIsHeld WindowBounded
CHECK_DEADLOCK FALSE
