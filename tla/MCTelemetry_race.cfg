CONSTANTS
  Bots = {b1, b2}
  b1 = b1
  b2 = b2
  NoOrder = none
  Shapes <- MCShapes
  Serial = FALSE
  Timely = TRUE
  Quiet = TRUE
  Lagging = FALSE
  MaxTests = 1
  MaxOrders = 3
  MaxTimeouts = 0
  MaxResetFailures = 0
  Capacity = 4
  BatchSize = 2
SPECIFICATION Spec
INVARIANT CorrectEngineIsNeverFaulted
SYMMETRY MCSymmetry
CHECK_DEADLOCK FALSE
