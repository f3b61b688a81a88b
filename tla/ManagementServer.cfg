SPECIFICATION FairSpec
CONSTANTS
  Addrs = {a1, a2}
  Off = off
  FirstAddr = a1
  Requests = {r1, r2}
  Limits = {0, 1}
  DefaultMaxConcurrent = 2
  MaxServers = 3
  MaxChanges = 2
INVARIANTS
  ListenerAccounted
  DrainsCoverDisplaced
  ShutdownWaited
  GateCounts
  LimitsAreCurrent
PROPERTIES
  RebindReturnsToItsRequest
CHECK_DEADLOCK FALSE
