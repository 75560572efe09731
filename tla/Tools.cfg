SPECIFICATION Spec
CONSTANTS
  s1 = s1
  t1 = t1
  alice = alice
  same = same
  other = other
  N = 3
  Call <- LastDiffers
  NotMapping = {}
  OffSchema = {}
  Servers = {s1}
  Inventory <- OneTool
  Disabled = {}
  PolicySlots <- TwoPolicies
  Offers <- TeamAllows
  DefaultEffect = "approval"
  BudgetSlots <- OneBudget
  Ceilings <- UpToOne
  Costs = {1}
  TTL = 0
  Wild = Wild
  NoPolicy = NoPolicy
  NoCeiling = NoCeiling
  NoApproval = NoApproval
  NoRow = NoRow
  MaxClock = 1
INVARIANTS
  CostsWereCompleted
  NoStartAtCeiling
PROPERTIES
  OneTime
  PolicyHonoured
