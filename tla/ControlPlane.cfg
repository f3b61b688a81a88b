SPECIFICATION Spec
CONSTANTS
  a1 = a1
  a2 = a2
  b1 = b1
  b2 = b2
  token1 = token1
  token2 = token2
  NoKey = NoKey
  Nil = Nil
  Off = Off
  Rejected = Rejected
  Unreadable = Unreadable
  NoRevision = NoRevision
  NoOverride = NoOverride
  NoAddr = Off
  RejectedDoc = Rejected
  DefaultMgmt = b1
  MaxQueryLog = 2
  Addrs = {a1, a2, b1, b2}
  AuthSpecs = {token1, token2}
  QueryLogSizes = {0, 1, 2}
  Live <- MCLive
  Files <- MCFiles
  applyOperations <- ApplyOps
  Compile <- CompileDoc
  Fingerprint <- fingerprintChange
  NTPOverride = NoOverride
  MgmtOverride = NoOverride
  IdempKeys = {k1, k2, k3}
  IdempMax = 2
  AuditMax = 2
  MaxGeneration = 3
  Faults = {"auth", "ntp", "http"}
  Bodies <- MCBodies
  SentRevisions <- MCSent
SYMMETRY MCKeySymmetry
INVARIANT TypeOK
INVARIANT ListenersFollowSnapshot
INVARIANT DriftBaseline
INVARIANT AuditTrail
INVARIANT CachedResultsAreCurrent
INVARIANT PlanPredictsApply
INVARIANT ReplayAnswersTheRequest
INVARIANT LogFitsSnapshot
PROPERTY CachedResultIsFinal
PROPERTY FailureLeavesNoTrace
