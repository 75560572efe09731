SPECIFICATION Spec
CONSTANTS
  r1 = r1
  r2 = r2
  m1 = m1
  m2 = m2
  s1 = s1
  Requests = {r1}
  Models = {m1, m2}
  Chain <- TwoModels
  Streaming = {}
  Sessions = {s1}
  Session <- OneSession
  Errors = {"limited", "overload"}
  Fallback = {"limited", "overload"}
  Retries <- OneRetry
  Base <- BaseOfThree
  Dynamic <- AllDynamic
  Ladder <- Rungs
  LadderOn = TRUE
  ShortPark = 1
  ModelPark = 2
  TerminalPark = 6
  StickyTTL = 2
  NoModel = NoModel
  MaxClock = 0
PROPERTIES
  RetryTakesItsPath
