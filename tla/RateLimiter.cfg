SPECIFICATION Spec
CONSTANTS
  Calls = {c1, c2, c3}
  Keys = {k1, k2}
  Null = Null
  MaxCount = 1
  Window = 2
  Skew = 1
  MaxTime = 3
SYMMETRY LimiterSymmetry
INVARIANTS WindowBound
