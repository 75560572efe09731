SPECIFICATION Spec
CONSTANTS
  N = 2
  w1 = w1
  w2 = w2
  key = key
  team = team
  global = global
  Workers = {w1}
  WorkerOf <- OneProcess
  Managed = {2}
  Scopes = {key, team, global}
  Global = global
  ScopesOf <- KeyAndGlobal
  Capped = {key, global}
  HardLimit <- CapKeyAndGlobal
  Window <- WindowOfTwo
  TTL = 2
  Amounts = {0, 1, 2, 4}
  Costs = {0, 1, 2}
  MaxClock = 3
  MaxRestarts = 1
INVARIANTS
  CapHolds
  NoStrayHold
PROPERTIES
  SpendIsCapped
