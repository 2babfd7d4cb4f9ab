CONSTANTS
  Ids = {o1, o2, o3}
  Prices = {1, 2}
  Quantities = {1, 2}
  MaxOrders = 4
  NoQuote = none
  Ranked = {c1, c2, c3}
  TPSs = {0, 1, 3}
  P99s = {1, 3}
  MaxRate = 1
  HighTPS = 3
SPECIFICATION MCSpec
INVARIANTS BookIsSound AloneTheBotIsRight RanksFollowScores TickerTellsTheBoard
PROPERTIES PriceTime ImprovementNeverHurts
SYMMETRY MCSymmetry
CHECK_DEADLOCK FALSE
