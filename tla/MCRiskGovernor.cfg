SPECIFICATION Spec
CONSTANTS
  HourLength = 1
  DayLength = 3
  Stake = 2
  Profit = 2
  MaxPerHour = 1
  MaxPerDay = 2
  MaxConcurrent = 2
  DailyLossPct = 20
  DrawdownPct = 40
  CooldownAfter = 2
  CooldownLength = 2
  VenueBalances = {8, 10}
  FutureTolerance = 1
  FirstBoots = {3}
  MaxClock = 7
  MaxSteps = 1
  MaxCrashes = 1
INVARIANTS
  Quotas
  Floors
PROPERTIES
  LockHolds
  CooldownServed
  DrawdownStops
