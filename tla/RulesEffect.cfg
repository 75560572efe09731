SPECIFICATION AlertRulesSpec
CONSTANTS
  Wired = {"webhook", "email", "slack"}
  Guarded = {"webhook", "email"}
  Mailed = {"email"}
  Addresses = {"global", "local"}
  Private = {"local"}
  NamedHosts = {"hook"}
  ListedHooks = {"hook"}
  ListedRelays = {}
  NoHost = NoHost
  MaxRules = 1
  MaxPlaneAlerts = 1
  MaxSendings = 1
  MaxRatio = 1
  MostTries = 2
  NoRule = NoRule
  NoBudget = NoBudget
PROPERTIES
  RulesTakeEffect
CHECK_DEADLOCK FALSE
