SPECIFICATION Spec
CONSTANTS
  r1 = r1  r2 = r2  r3 = r3
  Requests = {r1, r2, r3}
  Slots = {0, 1}
  Lambdas = {0, 1}
  Initial = 0
  MaxCount = 2
  BufferRows = 4
  Adaptive = TRUE
  None = None
SYMMETRY RequestSymmetry
INVARIANTS
  OwnLambda
CHECK_DEADLOCK FALSE
