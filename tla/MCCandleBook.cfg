SPECIFICATION FairCandles
CONSTANTS
  Healer = Healer
  w1 = w1
  Warmers = {w1}
  f1 = f1
  Refreshers <- One
  GapBars = 1
  Reply = 2
  MaxBars = 2
  MaxCache = 2
  MaxAsked = 1
  MaxBucket = 3
  MaxDrops = 2
  MaxStarts = 2
INVARIANTS
  SweepsDoNotDouble
PROPERTIES
  CatchesUp
  HealsAgain
CHECK_DEADLOCK FALSE
