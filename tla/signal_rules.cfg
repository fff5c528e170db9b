CONSTANTS
  FastPeriod = 2
  SlowPeriod = 3
  RsiPeriod = 2
  Overbought = 70
  Oversold = 30
  MaxSpread = 2
  StopLoss = 2
  TakeProfit = 3
  London <- LondonHours
  NewYork <- NewYorkHours
  Capacity = 5
  Prices = {1, 2, 3, 4}
  Ticks <- SomeTicks
  Hours <- SomeHours
SPECIFICATION Spec
INVARIANTS
  TypeOK
  EmaIsWeightedMean
  NoSignalAgainstTrend
  MirrorSymmetry
  SideFollowsCrossing
  LevelsBracketMarket
