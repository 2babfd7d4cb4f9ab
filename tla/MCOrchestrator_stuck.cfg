SPECIFICATION FairSpec
CONSTANTS
  Tests = {t1}
  c1 = c1
  Contestants = {c1}
  ContestantOf <- MCContestantOf
  Instances = {i1}
  NoTest = NoTest
  NoInstance = NoInstance
  NoLimit = NoLimit
  MaxCrashes = 1
  MaxMishaps = 1
  MaxFaults = 0
  MaxScans = NoLimit
  CrashReports = {}
PROPERTY StoppingEnds
CHECK_DEADLOCK FALSE
