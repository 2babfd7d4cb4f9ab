CONSTANTS
  Capacity = 3
  BatchSize = 3
  MaxEvents = 7
  MaxFaults = 1
  Tests = {t1, t2}
  Contestant = c1
  Owner <- MCOwner
  BotCount = 1
  MaxRunners = 3
  Bot = {b1, b2}
  MinTraffic = 3
  HalfOpenNeeded = 2
  MaxTotal = 4
  MaxOutages = 1
  Round = 2
SPECIFICATION MCSpec
INVARIANTS OrderIsKept NoRunaway
PROPERTIES AcceptedIsSent StopsReturn TripsOnEvidence BreakerComesBack
CHECK_DEADLOCK FALSE
