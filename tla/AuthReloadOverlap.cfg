SPECIFICATION Spec
CONSTANTS
  f1 = f1
  f2 = f2
  s1 = s1
  s2 = s2
  Short = Short
  Missing = Missing
  Specs <- MCSpecs
  FirstSpec <- MCFirstSpec
  Files <- MCFiles
  File0 <- MCFile0
  Contents = {s2, Missing}
  Reloads = {w1, w2}
  Clients = {c1}
  MaxSessions = 2
  Idle = 1
  Absolute = 1
  MaxEvents = 5
  MaxReloads = 2
SYMMETRY MCSymmetry
INVARIANT RereadReplacesVerifier
