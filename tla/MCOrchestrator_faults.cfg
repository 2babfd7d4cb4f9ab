SPECIFICATION Spec
SYMMETRY MCSymmetry
CONSTANTS
  Tests = {t1}
  c1 = c1
  Contestants = {c1}
  ContestantOf <- MCContestantOf
  Instances = {i1, i2}
  NoTest = NoTest
  NoInstance = NoInstance
  NoLimit = NoLimit
  MaxCrashes = 1
  MaxMishaps = 1
  MaxFaults = 1
  MaxScans = 1
  CrashReports = {c1}
INVARIANTS SingleFinisher
PROPERTIES Lifecycle
CHECK_DEADLOCK FALSE
