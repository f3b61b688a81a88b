SPECIFICATION Spec
CONSTANTS
  NoKey = NoKey
  Nil = Nil
  IdempMax = 3
  Keys = {k1, k2, k3, k4}
  Fingerprints = {f1, f2}
  Plans = {p1}
  Results = {r1}
INVARIANTS
  WellLinked
PROPERTY ImplementsLru
