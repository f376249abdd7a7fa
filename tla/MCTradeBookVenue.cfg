SPECIFICATION Spec
CONSTANTS
  o1 = o1
  o2 = o2
  eur = eur
  gbp = gbp
  Orders = {o1, o2}
  Assets = {eur, gbp}
  AssetOf <- TwoAssets
  Stake = 4
  Profit = 3
  Salvage = 1
  MaxConcurrent = 2
  VenueBalances = {10, 16}
  NoOrder = NoOrder
  MaxEnds = 1
INVARIANTS
  VenueResultBooked
