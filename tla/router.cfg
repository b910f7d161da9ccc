SPECIFICATION SuiteSpec
CONSTANTS
  Nothing = Nothing
  Bad = Bad
  Text = Text
  Largest = 3
  Keys = {"k1", "k2", "k3"}
  Routes = {"r1", "r2", "r3"}
  None = None
  Capacity = 2
  TTL = 1
  MaxTime = 3
  TimedRoutes = {"a", "b", "c", "d"}
  Timeouts = {1, 2, 3}
  Millisecond = 2
  Grace = 1
  Hour = 3
  Width = 5
  LastTick = 4
  MaxLag = 1
  FewRoutes = {"a", "b"}
  FewTimeouts = {1, 2}
  Services = {"a", "b", "router"}
  Reserved = {"router"}
  Methods = {"get", "put", "run"}
  Shapes = {"unary", "stream"}
  Peers = {1, 2, 3}
  Registrations <- Upgrades
  Callers <- ServiceCallers
  Names = {"a", "b"}
  Documents <- AuthDocuments
  AccountServices = {"a", "auth"}
  AccountMethods = {"m", "issue_token", "revoke_token", "whoami"}
  ManagedServices = {"auth"}
  AuthService = "auth"
  Usernames = {"user"}
  Accounts <- UserAccount
  KeyIDs = {"k"}
  APIKeys <- ServiceKeys
  Anonymous <- AnonymousCaller
  Requests <- TokenRequests
  Conns = {"c1", "c2", "c3"}
  TokenIDs = {"t1", "t2"}
  TokenCapacity = 1
  MaxTTL = 2
  MaxScopes = 2
  Slots = 1
  CacheSize = 1
  CacheTTL = 1
  MaxConnections = 2
  MaxAnonymousConnections = 1
  MaxOpened = 1
  LastSecond = 1
  FewConns = {"c1", "c2"}
  Routers = {"r1", "r2", "r3"}
  WithMetrics = {"r1", "r2"}
  MaxCalls = 1
  MaxFiles = 3
INVARIANTS
  DeadlinesKept TablesConsistent PermissionsNeverWiden RunsAsAsked
PROPERTIES
  NeverEarly KeepsKeysInFlight
CHECK_DEADLOCK FALSE
