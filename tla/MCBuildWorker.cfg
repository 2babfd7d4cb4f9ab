CONSTANTS
  NumJobs = 2
  MaxConcurrentBuild = 1
  MaxMishaps = 1
SPECIFICATION FairSpec
INVARIANTS ReadyIsWatched NoJobIsLost
PROPERTIES EveryJobEnds DeadIsNoticed OrphansGo
CHECK_DEADLOCK FALSE
