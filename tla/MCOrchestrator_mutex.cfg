SPECIFICATION Spec
SYMMETRY MCSymmetry
CONSTANTS
  Tests = {t1, t2}
  c1 = c1
  Contestants = {c1}
  ContestantOf <- MCContestantOf
  Instances = {i1, i2}
  NoTest = NoTest
  NoInstance = NoInstance
  NoLimit = NoLimit
  MaxCrashes = 0
  MaxMishaps = 0
  MaxFaults = 0
  MaxScans = 1
  CrashReports = {}
INVARIANTS OneRunPerContestant
PROPERTIES StartNeverFailsARun
CHECK_DEADLOCK FALSE
