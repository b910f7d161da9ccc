SPECIFICATION SuiteSpec
CONSTANTS
  Requests = {"q1", "q2"}
  HTTPMaxInflight = 1
  Shapes = {"unary", "server_stream"}
  Callers = {"a", "b"}
  Bounded = {"a"}
  Endpoints = 2
  MaxConns = 2
  MaxPasses = 1
  MaxCloses = 1
  InitialCredit = 1
  MaxOutput = 3
  MaxInput = 1
  Transports = {"ws", "http"}
  Timeout = 8
  Grace = 2
  MaxAttempts = 3
  InitialDelay = 2
  MaxDelay = 3
  Multiplier = 2
  Jitter = 50
  streamCredit = 4
  OutputItems = 7
  Buffer = 2
  Window = 2
  InputItems = 3
INVARIANTS
  ConnectionsKept CallsKeepTheirWord RequestsAccounted StreamsComplete
CHECK_DEADLOCK FALSE
