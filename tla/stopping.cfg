SPECIFICATION FairSpec
CONSTANTS
  None = None
  u = u
  s = s
  d = d
  Client = {p1, p2}
  HTTPClient = {p2}
  Instance = {i1}
  Call = {c1}
  Method = {u, s, d}
  Key = {k}
  InstanceID <- Instance
  Stream <- MCStream
  Balance <- RoundRobin
  Serves <- Everything
  IDOf <- OwnID
  Targeted = FALSE
  Allowed <- AllMay
  Request <- TimedOfEveryShape
  MaxInflight <- Uncapped
  MaxCalls = 0
  MaxRoutes = 9
  Threshold = 9
  MaxCredit = 1
  Malformed = FALSE
PROPERTIES TimedCallsEnd ShutdownFinishes
CHECK_DEADLOCK FALSE
