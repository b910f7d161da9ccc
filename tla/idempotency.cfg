SPECIFICATION Spec
CONSTANTS
  None = None
  u = u
  s = s
  d = d
  Client = {p1, p2}
  HTTPClient = {p2}
  Instance = {i1, i2}
  Call = {c1, c2}
  Method = {u}
  Key = {k}
  InstanceID = {"id"}
  Stream <- MCStream
  Balance <- RoundRobin
  Serves <- Everything
  IDOf <- SharedID
  Targeted = FALSE
  Allowed <- AllMay
  Request <- KeyedUnary
  MaxInflight <- Uncapped
  MaxCalls = 0
  MaxRoutes = 9
  Threshold = 9
  MaxCredit = 1
  Malformed = FALSE
SYMMETRY Symmetry
INVARIANTS TypeOK CountersExact RoutesHavePeers OneExecutionPerKey NoStrayFrame NoForgottenCaller InstanceIDsUnique ChannelsMeanWhatTheySay
PROPERTIES RoutesNeverMigrate NoNewWorkWhenLeaving GoAwayOwesNothing
CHECK_DEADLOCK FALSE
