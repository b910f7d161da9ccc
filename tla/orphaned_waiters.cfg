SPECIFICATION Spec
CONSTANTS
  None = None
  u = u
  s = s
  d = d
  Client = {p1, p2}
  HTTPClient = {}
  Instance = {i1}
  Call = {c1, c2}
  Method = {u}
  Key = {k}
  InstanceID <- Instance
  Stream <- MCStream
  Balance <- RoundRobin
  Serves <- Everything
  IDOf <- OwnID
  Targeted = FALSE
  Allowed <- AllMay
  Request <- KeyedUnary
  MaxInflight <- Uncapped
  MaxCalls = 0
  MaxRoutes = 9
  Threshold = 9
  MaxCredit = 1
  Malformed = FALSE
INVARIANT WaitersHaveALiveCall
CHECK_DEADLOCK FALSE
