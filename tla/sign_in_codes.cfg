SPECIFICATION Spec
CONSTANTS
  r1 = r1
  r2 = r2
  Requests = {r1, r2}
  Production = TRUE
  MaxGuesses = 2
  HourlyCap = 2
  MaxCodes = 2
SYMMETRY CodeSymmetry
INVARIANTS Superseded GuessesBounded
PROPERTIES StatusStands
CHECK_DEADLOCK FALSE
