SPECIFICATION FairSpec
CONSTANTS
  o1 = o1
  o2 = o2
  eur = eur
  gbp = gbp
  Orders = {o1, o2}
  Assets = {eur, gbp}
  AssetOf <- TwoAssets
  Stake = 4
  Profit = 0
  Salvage = 0
  MaxConcurrent = 1
  VenueBalances = {8}
  NoOrder = NoOrder
  MaxEnds = 1
PROPERTIES
  ExposureReleased
  KeepsContracts
