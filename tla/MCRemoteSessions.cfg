SPECIFICATION FairSessions
CONSTANTS
  Sessions = {"file", "terminal", "transfer"}
  Terminals = {"terminal"}
  Transfers = {"transfer"}
  Blocking = {"terminal", "transfer"}
  MaxSessions = 2
  IdleTimeout = 1
  MaxLease = 2
  MaxClose = 1
INVARIANTS
  CapacityKept
  ShutdownIsFinal
PROPERTIES
  ReapersServe
  SessionsEnd
