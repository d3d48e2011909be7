\* No fault at all, one crash or shutdown.
SPECIFICATION FairSpec
CONSTANTS
  Goals = {g1}
  Workers = {w1}
  NoGoal = NoGoal
  MaxFaults = 0
  MaxRestarts = 1
PROPERTY EveryResultIsReported
CHECK_DEADLOCK FALSE
