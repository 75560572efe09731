SPECIFICATION Spec
CONSTANTS
  N = 2
  w1 = w1
  w2 = w2
  key = key
  team = team
  global = global
  Workers = {w1}
  WorkerOf <- OneProcess
  Managed = {1, 2}
  Scopes = {key, team, global}
  Global = global
  ScopesOf <- KeyAndGlobal
  Capped = {key}
  HardLimit <- CapKey
  Window <- LongKeyWindow
  TTL = 9
  Amounts = {1, 2}
  Costs = {1}
  MaxClock = 0
  MaxRestarts = 0
PROPERTIES
  HeadroomIsReal
