SPECIFICATION SuiteSpec
CONSTANTS
  None = None
  Links = {l1, l2}
  Clients = {"c1"}
  MaxInflight = 2
  MaxWire = 1
  MaxCalls = 1
  Refusals = 1
  Policies = {1}
  Senders = {"s1", "s2"}
  Window = 1
  MaxIn = 2
  MaxOut = 2
  Threads = {t1, t2}
  Meshes = {"m1", "m2"}
  Procs = {"p1", "p2"}
  Servers = {"s1", "s2"}
  DirectUse = FALSE
  FewMeshes = {"m1"}
  FewProcs = {"p1"}
  FewServers = {"s1"}
  DepTypes = {"a", "b", "c"}
  MaxDeps = 2
  Handler = "handler"
  MaxParams = 2
  Names <- ParamNames
  Sources = {"own", "namesake", "none"}
SYMMETRY Alike
INVARIANTS
  DrainedMeansIdle HandlersAnswerOnce RoutersOwned HandlersGetTheirArguments
CHECK_DEADLOCK FALSE
