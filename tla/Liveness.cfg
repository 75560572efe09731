SPECIFICATION QueuesSpec
CONSTANTS
  \* BudgetEnforcer
  N = 3
  w1 = w1
  w2 = w2
  key = key
  team = team
  global = global
  Workers = {w1}
  WorkerOf <- OneProcess
  Managed = {2, 3}
  Scopes = {key, team, global}
  Global = global
  ScopesOf <- KeyAndGlobal
  Capped = {key}
  HardLimit <- CapKey
  Window <- LongKeyWindow
  TTL = 1
  Amounts = {1}
  Costs = {1}
  MaxClock = 0
  MaxRestarts = 1
  \* AlertDispatch
  Rules = {"r", "s"}
  Threshold <- OneEach
  MaxExposure = 1
  Evals = 2
  Shared = TRUE
  Retries = 1
  Cooldown = 1
  AlertClockMax = 2
  Nobody = Nobody
  Never = Never
PROPERTIES
  WaitersAnswered
  HoldsEnd
  EveryAlertEnds
