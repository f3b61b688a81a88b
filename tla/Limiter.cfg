SPECIFICATION LimiterSpec
CONSTANTS
  Clients = {c1, c2, c3}
  Callers = {h1, h2}
  Rates = {1, 2}
  MinIdle = 12
  MaxBuckets = 2
  MaxLag = 1
  MaxTicks = 13
SYMMETRY MCSymmetry
INVARIANTS
  IdleEvictionUnseen
  AdmittedWithinRate
PROPERTY QuietestForgotten
