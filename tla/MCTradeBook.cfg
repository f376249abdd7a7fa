SPECIFICATION Spec
CONSTANTS
  o1 = o1
  o2 = o2
  eur = eur
  gbp = gbp
  Orders = {o1, o2}
  Assets = {eur, gbp}
  AssetOf <- TwoAssets
  Stake = 4
  Profit = 3
  Salvage = 1
  MaxConcurrent = 2
  VenueBalances = {6, 16}
  NoOrder = NoOrder
  MaxEnds = 2
INVARIANTS
  BooksBalance
  CrashSafe
  NoStrangers
  AgreeAtRest
PROPERTIES
  NoOrderUnderKill
  HoldKeepsEvidence
  KillPersists
