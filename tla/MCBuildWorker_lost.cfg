CONSTANTS
  NumJobs = 2
  MaxConcurrentBuild = 2
  MaxMishaps = 1
SPECIFICATION Spec
INVARIANT NoJobIsLost
CHECK_DEADLOCK FALSE
