SPECIFICATION Spec
CONSTANTS
  k1 = k1
  k2 = k2
  k3 = k3
  k4 = k4
  n1 = n1
  n2 = n2
  r1 = r1
  r2 = r2
  r3 = r3
  Tokens = {k1, k2, k3}
  Tenants = {n1}
  Requests = {r1, r2}
  Ops <- RaceOps
  MaxPasswords = 0
  MaxCrash = 1
INVARIANTS OneTokenPerSignIn
PROPERTIES OverIsOver
CHECK_DEADLOCK FALSE
