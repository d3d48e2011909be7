\* One fault, no restart.
SPECIFICATION Spec
CONSTANTS
  Goals = {g1}
  Workers = {w1}
  NoGoal = NoGoal
  MaxFaults = 1
  MaxRestarts = 0
INVARIANT ReportsMatchGoals
CHECK_DEADLOCK FALSE
