SPECIFICATION Spec
CONSTANTS
  None = None
  u = u
  s = s
  d = d
  Client = {p1}
  HTTPClient = {}
  Instance = {i1}
  Call = {c1, c2}
  Method = {u}
  Key = {}
  InstanceID <- Instance
  Stream <- MCStream
  Balance <- RoundRobin
  Serves <- Everything
  IDOf <- OwnID
  Targeted = FALSE
  Allowed <- AllMay
  Request <- UnaryAndTargeted
  MaxInflight <- Uncapped
  MaxCalls = 0
  MaxRoutes = 9
  Threshold = 9
  MaxCredit = 1
  Malformed = TRUE
INVARIANT NoStrayFrame
CHECK_DEADLOCK FALSE
