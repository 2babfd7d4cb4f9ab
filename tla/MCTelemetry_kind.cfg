CONSTANTS
  Bots = {b1, b2}
  b1 = b1
  b2 = b2
  NoOrder = none
  Shapes <- MCShapes
  Serial = TRUE
  Timely = TRUE
  Quiet = FALSE
  Lagging = FALSE
  MaxTests = 2
  MaxOrders = 3
  MaxTimeouts = 1
  MaxResetFailures = 1
  Capacity = 1
  BatchSize = 2
SPECIFICATION Spec
INVARIANTS CorrectEngineIsNeverFaulted BooksInSync
SYMMETRY MCSymmetry
CHECK_DEADLOCK FALSE
