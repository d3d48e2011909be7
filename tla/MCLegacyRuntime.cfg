\* A plan of three steps with three calls of operators and two stops; two goals and two
\* workers with one stop and one failing store call; two notifications, of which one is
\* about a goal that may block and be taken up again, with one failing send and one stop.
SPECIFICATION FairJointSpec
CONSTANTS
  NSteps = 3
  Optional = {3}
  ReplaySafe = {1}
  Kept = {2}
  MaxRetry = 1
  MaxSteps = 4
  MaxOps = 3
  MaxStops = 2
  Goals = {g1, g2}
  Workers = {w1, w2}
  NoGoal = NoGoal
  MaxActive = 2
  MaxPoolStops = 1
  MaxPoolFaults = 1
  Reopenable = {g1}
  MaxSendFailures = 1
  MaxSenderStops = 1
INVARIANTS CallsAreAccounted DoneGoalsHaveResults NotifiedOnce
PROPERTIES SettledIsFinal PoolAgrees WorkSettles
CHECK_DEADLOCK FALSE
