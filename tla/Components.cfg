SPECIFICATION ComponentsSpec
CONSTANTS
  \* VirtualKeys
  Tenants = {"acme", "globex"}
  Tokens = {"i"}
  NoToken = NoToken
  Expiries = {0, 2}
  Overlaps = {0, 1}
  MaxKeys = 2
  KeyClockMax = 2
  NoKey = NoKey
  \* Reservations
  Payers = {"acme"}
  Scopes = {"global", "team"}
  Q = 2
  Limits = {2, 3}
  Amounts = {1, 2}
  Actuals = {0, 1, 3}
  NoLimit = NoLimit
  NoHold = NoHold
  \* Deployments
  Deployed = {"eu", "us"}
  Callers = {"c", "d"}
  Trip = 2
  OpenFor = 1
  MaxFails = 3
  DepClockMax = 3
  Idle = Idle
  \* AlertDispatch
  Rules = {"r", "s"}
  Threshold <- OneEach
  MaxExposure = 1
  Evals = 2
  Shared = TRUE
  Retries = 1
  Cooldown = 1
  AlertClockMax = 2
  Nobody = Nobody
  Never = Never
  \* RouteStudio
  Names = {"n", "o"}
  Targets = {"t", "u"}
  Editors = {"e"}
  Clients = {"c"}
  MaxRoutes = 2
  MaxDrafts = 2
  NoRoute = NoRoute
  NoTargets = NoTargets
  NoName = NoName
  \* RoutePlane
  m1 = m1
  m2 = m2
  m3 = m3
  Aliases = {"a", "b"}
  Models = {m1, m2, m3}
  Configs <- TwoConfigs
  Reported <- Renamed
  Requests = {"p", "q"}
  Cost = 1
  MaxSpend = 2
  MaxPlaneRoutes = 1
  MaxPlaneVersions = 2
  NoRow = NoRow
  \* CodexTokens
  Workers = {"w"}
  Consoles = {"c"}
  Logins = {"l"}
  MaxPairs = 3
  NoPair = NoPair
  \* Connections
  Connections = {"k", "l"}
  Slugs = {"a", "b"}
  Urls = {"u"}
  Found = {"m", "n"}
  Syncs = {"s"}
  Proxies = {"w"}
  MaxPokes = 1
  NoConn = NoConn
  NoSync = NoSync
  NoReload = NoReload
  \* UpstreamCall
  Offered = {"m", "n"}
  Calls = {"p", "q"}
  Ttl = 0
  Learnable = 1
  Chunks = 1
  UpClockMax = 1
  NoModel = NoModel
  \* ThoughtSignatures
  u1 = u1
  u2 = u2
  u3 = u3
  ToolUses = {u1, u2, u3}
  Functions = {"f", "g"}
  What <- Asks
  ToolOf <- OneName
  SigIds = {"x"}
  Given <- GivenIds
  Blank = Blank
  Unnamed = Unnamed
  SigWorkers = {"w", "v"}
  Cap = 2
  Newest = 1
  MaxReplays = 2
  \* AnthropicStream
  Messages = {"a", "b"}
  MaxTools = 2
  MaxFrames = 2
  \* LocalServices
  Services = {"v", "w"}
  MaxChildren = 3
  NoChild = NoChild
  NoService = NoService
  \* SharedRows
  Processes = {"p", "q"}
  Invitations = {"i"}
  Letters = {"l"}
  Deliveries = {"d"}
  Keys = {"q", "r"}
  CountLimit = 1
  CountWindow = 2
  Life = 2
  RowClockMax = 2
  Nothing = Nothing
  \* Approvals
  ApprovalIds = {"a"}
  Actors = {"x", "y", "z"}
  Quorums = {1, 2}
  ApprovalEnds = {1}
  ToolRuns = {"r"}
  Advice = {"o"}
  AskClockMax = 1
  NoApproval = NoApproval
  \* RouteAnswers
  l1 = l1
  l2 = l2
  PublicNames = {"a", "b"}
  LLMs = {l1, l2}
  Offers <- OffersOf
  PlaneOrder <- OnePlane
  AskIds = {1, 2, 3}
  Said <- ThreeAsks
  Parts <- Itself
  Price <- TwoPrices
  DefaultLife = 1
  Day = 2
  AnswerClockMax = 1
  NoOffer = NoOffer
  NoEntry = NoEntry
  NoReply = NoReply
  NoWalk = NoWalk
  NoCondition = NoCondition
  NoCeiling = NoCeiling
  NoWeight = NoWeight
  NoProfile = NoProfile
  Unsaid = Unsaid
  Garbled = Garbled
  \* LegacyRequests
  p1 = p1
  p2 = p2
  LegacyCount = 3
  LegacyModels = {p1, p2}
  KnownKey = {1, 2, 3}
  KnownModel = {p1, p2}
  ScopesFor <- TeamScopes
  Wanted <- FirstOrSecond
  Estimated <- Lengths
  RateLimit <- Rates
  WindowOf <- Windows
  MaxBuckets = 3
  Chain <- OneFallback
  Triggers <- AtTimeout
  Cooling <- OneSecond
  FitsIn <- LongIsForSecond
  Direct = {p2}
  LegacyClockMax = 1
  NoRate = NoRate
  Cold = Cold
  \* Transcripts
  c1 = c1
  CallIds = {c1}
  Outputs <- FiveOutputs
  ChatCalls <- TwoCallings
  MaxItems = 4
  MaxMessages = 5
  NoId = NoId
  \* ToolNames
  ToolLabels = {"x:y", "x_y", "u:v", "u_v", "w"}
  Underscored <- WithoutColon
  Bodies <- ThreeBodies
  Thinkers = {TRUE, FALSE}
  Attempts = 2
  \* Books
  BookIds = {"a", "l"}
  Managed = {"a"}
  MaxTokens = 2
  NoLine = NoLine
  \* CallPages
  MaxCalls = 3
  CallRoutes = {"a", "b"}
  RouteOf <- Odd
  AllRoutes = AllRoutes
  Routeless = Routeless
  PageSize = 1
  WindowLen = 1
  BucketLen = 2
  Lag = 1
  PageClockMax = 2
  \* Extensions
  Apps = {"a"}
  PxKeys = {"k", "l"}
  EnvNames = {"m", "n"}
  PxScopes = {"s"}
  PxLimits = {"low"}
  MaxAlerts = 1
  Sheets = {"v"}
  NoPx = NoPx
  \* Evidence
  Incidents = {"i", "j"}
  FailedRequests = {"j"}
  Costly = {"i"}
  MaxEvents = 8
  AddedEvents <- TwoAdded
  MaxAdded = 1
  NoExplanation = NoExplanation
  \* Compatibility
  Runs = {"r", "s"}
  Extra = 2
  MaxEdits = 1
  NoRun = NoRun
  \* PriorityRoutes
  PrIds = {1, 2}
  PrNames = {"a", "b"}
  PrModels = {"x"}
  PrBodies <- TwoChains
  PrCosts = {1}
  DayLength = 3
  MonthLength = 1
  Instants = {1, 2}
  MaxMonth = 1
  Demands <- TwoDemands
  Statuses = {400, 429, 503}
  SafeStatuses = {429, 503}
  MaxChains = 2
  MaxPrSpend = 1
  NoPr = NoPr
  \* AlertRules
  Wired = {"webhook", "email", "slack"}
  Guarded = {"webhook", "email"}
  Mailed = {"email"}
  Addresses = {"global", "local"}
  Private = {"local"}
  NamedHosts = {"hook"}
  ListedHooks = {"hook"}
  ListedRelays = {}
  NoHost = NoHost
  MaxRules = 1
  MaxPlaneAlerts = 1
  MaxSendings = 1
  MaxRatio = 1
  MostTries = 2
  NoRule = NoRule
  NoBudget = NoBudget
  \* Customers
  CustNames = {"bob"}
  MaxCustomers = 1
  MaxBills = 2
  Sayings <- FourSayings
  RowCosts = {0, 1}
  MonthlyLimits = {1}
  MaxTurns = 1
  NoCustomer = NoCustomer
  Unset = Unset
INVARIANTS
  ComponentsTypeOK
  AnsweredOnce WithinPeak OpenIsSpared CooldownKept
  LiveIsPublished VersionTellsContent ServedWasPublished OvershootIsInFlight
  StoredIsUsable StaleHasCause NeverMixed SignatureComesBack
  FramesParse ChildIsManaged CountedOnce ApprovedByOthers
  HitIsAnswer CeilingPerBucket PairsSurvive NamesComeBack CountedAsServed PagesMissNothing
  KeyAfterRotation ExplainedAlike
PROPERTIES
  SkipsForCause
CHECK_DEADLOCK FALSE
