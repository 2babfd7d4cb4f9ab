CONSTANTS
  Client = {b1, b2}
  MaxClients = 1
  SendCapacity = 2
  QueueCapacity = 2
  BroadcastCapacity = 2
  MaxMessages = 3
  Pod = {p1, p2}
  Contestant = {c1}
  MaxMeasures = 1
  MaxEvents = 2
  Upload = {u1, u2, u3}
  Limit = 1
  MaxTroubles = 1
  Hook = {h1, h2, h3}
  HookLimit = 1
  MaxHookErrors = 1
SPECIFICATION MCSpec
INVARIANTS NeverPanics NoGaps FreezeHolds JobHasItsParts LimitsHold
PROPERTIES TheLastIsSeen BoardCatchesUp
CHECK_DEADLOCK FALSE
