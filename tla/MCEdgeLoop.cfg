SPECIFICATION Spec
CONSTANTS
  Members = {"supertrend_surf", "rsi_stretch"}
  Manual = "manual"
  Blob = "ensemble_all_weather"
  Unknown = "unknown"
  VoteConf <- MCVoteConf
  SignalConfs = {70}
  Payout = 85
  RegimeCal = TRUE
  Window = 1
  JournalLimit = 3
  FloorAttempts = 2
  WinRateFloor = 40
  Tapes <- MCTapes
  Places <- MCPlaces
  MaxOpen = 2
  MaxTrades = 3
  MaxInjected = 2
  MaxBoots = 2
  NoPlan = NoPlan
  CrisisScale = 500
  DrawdownCap = 200
  StakeFraction = 10
  MinStake = 100
  MaxStake = 5000
  MinEdge = 50
  Gate = "scale"
  Enabled = TRUE
  WeekendLock = TRUE
  FridayHour = 20
  LiquidityFloor = 25
  SpreadLimit = 30
  MaxSlippage = 800
  BaseSlippage = 50
  TrendFilter = TRUE
  Panic = TRUE
INVARIANTS
  WardFollowsJournal
  TapeHeeded
PROPERTIES
  LessonsKept
CHECK_DEADLOCK FALSE
