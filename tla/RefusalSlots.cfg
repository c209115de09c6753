SPECIFICATION Spec
CONSTANTS
  r1 = r1  r2 = r2  r3 = r3
  Requests = {r1, r2, r3}
  Slots = {0, 1}
  Lambdas = {0, 1}
  Initial = 0
  MaxCount = 2
  BufferRows = 3
  Adaptive = FALSE
  None = None
SYMMETRY RequestSymmetry
INVARIANTS
  SlotsMatch
  OwnLambda
  PaddingNeutral
CHECK_DEADLOCK FALSE
