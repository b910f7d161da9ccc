SPECIFICATION Spec
CONSTANTS
  None = None
  u = u
  s = s
  d = d
  Client = {p1}
  HTTPClient = {}
  Instance = {i1, i2}
  Call = {c1, c2, c3}
  Method = {u}
  Key = {}
  InstanceID <- Instance
  Stream <- MCStream
  Balance <- LeastInflight
  Serves <- Everything
  IDOf <- OwnID
  Targeted = FALSE
  Allowed <- AllMay
  Request <- UnaryAndTargeted
  MaxInflight <- CapFirst
  MaxCalls = 2
  MaxRoutes = 9
  Threshold = 2
  MaxCredit = 1
  Malformed = TRUE
SYMMETRY CallSymmetry
INVARIANTS CapacityRespected BreakerConsistent
CHECK_DEADLOCK FALSE
