SPECIFICATION FairSpec
CONSTANTS
  r1 = r1
  r2 = r2
  m1 = m1
  m2 = m2
  s1 = s1
  Requests = {r1, r2}
  Models = {m1, m2}
  Chain <- TwoModels
  Streaming = {r1}
  Sessions = {s1}
  Session <- OneSession
  Errors = {"context", "limited", "overload", "broken", "gone"}
  Fallback = {"overload", "broken", "gone"}
  Retries <- M1Twice
  Base <- BaseOfThree
  Dynamic <- AllDynamic
  Ladder <- Rungs
  LadderOn = TRUE
  ShortPark = 1
  ModelPark = 2
  TerminalPark = 6
  StickyTTL = 0
  NoModel = NoModel
  MaxClock = 1
INVARIANTS
  ParkedForCause
  ShortStalls
PROPERTIES
  FailsAtTheEnd
  Answered
