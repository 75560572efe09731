SPECIFICATION StudioSpec
CONSTANTS
  Names = {"n"}
  Targets = {"t", "u"}
  Editors = {"e"}
  Clients = {"c"}
  MaxRoutes = 1
  MaxDrafts = 3
  NoRoute = NoRoute
  NoTargets = NoTargets
  NoName = NoName
PROPERTIES
  DraftIsIsolated
CHECK_DEADLOCK FALSE
