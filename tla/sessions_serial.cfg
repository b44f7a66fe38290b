SPECIFICATION Spec
CONSTANTS
  k1 = k1
  k2 = k2
  k3 = k3
  k4 = k4
  n1 = n1
  n2 = n2
  r1 = r1
  r2 = r2
  r3 = r3
  Tokens = {k1, k2, k3, k4}
  Tenants = {n1, n2}
  Requests = {r1}
  Ops <- EveryOp
  MaxPasswords = 1
  MaxCrash = 0
SYMMETRY SessionSymmetry
INVARIANTS RevocationIsFinal LiveIsEntitled
CHECK_DEADLOCK FALSE
