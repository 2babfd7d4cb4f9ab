CONSTANTS
  Events <- MCEvents
  NoTest = none
  MaxArrivals = 3
  MaxSnapshots = 1
  MaxCrashes = 1
  MaxMissed = 1
  Ring = 3
  Smooth = 2
  Slots = 2
  Latencies = {0, 4}
  MaxSeconds = 4
  MaxTurns = 3
  MaxOrders = 3
  QueueSize = 2
  CopySize = 2
  MaxRows = 5
  MaxBreakdowns = 1
  Partition = {p1, p2}
  Idle = idle
  MaxOffset = 2
  MaxFailures = 1
SPECIFICATION MCSpec
INVARIANTS WrittenAtMostOnce TPSErrsByIdleSeconds ShownLatencyIsReal DropsAreCounted
PROPERTIES EverythingIsJudged RateErrsByWhatMoves LagIsThatOfTheCheck
CHECK_DEADLOCK FALSE
