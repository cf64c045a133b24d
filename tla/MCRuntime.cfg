SPECIFICATION MCSpec
CONSTANTS
  SpeedClients = {"ann", "bob"}
  Cancels = {"x"}
  ChannelSize = 1
  Queries = {"q1", "q2", "q3"}
  Conns = {"solo", "c1", "c2", "c3"}
  KindsOf <- MCKindsOf
  ResultsOf <- MCResultsOf
  Cap <- MCCap
  Configured <- MCConfigured
  MaxFrame = 3
  MaxChunk = 2
  MaxRecords = 4
  MaxFrames = 4
  MaxWire = 8
  MaxOutput = 4
  MaxCapture = 2
INVARIANTS
  ExchangesAreWhole
  OutputIsComplete
PROPERTIES
  QueriesAreApart
  CancelsAreHeard
  RequestsEnd
CHECK_DEADLOCK FALSE
