SPECIFICATION FairSpec
CONSTANTS
  Addrs = {a1, a2}
  FirstAddr = a1
  Handlers = {h1, h2}
  MaxInflight = 1
  MaxSockets = 3
  MaxGeneration = 2
  LogSize = 1
INVARIANTS
  TokensAndWaiters
  BoundIsOpen
  NoLostSocket
  ShutdownLeavesNothing
PROPERTIES
  LoopFollowsRebind
  ShutdownStopsLoop
