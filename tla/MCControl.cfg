CONSTANTS
  Procs = {"serve", "del"}
  MaxFaults = 3
  MaxDels = 2
  Retries = 2
  RetryDelay = 1
  Asks = {0, 2, 6}
  PostTimeout = 1
  RoundBudget = 4
  MaxCalls = 3
  MaxCrashes = 1
  None = None
  e1 = e1
  e2 = e2
  e3 = e3
  Endpoints <- MCEndpoints
  Cooldown = 2
  MaxTime = 4
  Interval = 3
  ProbeTimeout = 12
  Configured = 3
  MaxU32 = 6
  Hosts = {"a", "b"}
  MaxItems = 3
SPECIFICATION Spec
INVARIANTS NoLeak TeamsSound OpenIsSaved PlanIsSound FreshWhilePublished
