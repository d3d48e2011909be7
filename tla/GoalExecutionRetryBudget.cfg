\* One retry allowed, no fault: the first failure of the first step is not retried.
SPECIFICATION Spec
CONSTANTS
  MaxSteps = 3
  MaxRetry = 1
  MaxRuns = 1
  MaxFaults = 0
INVARIANT RetryBudgetIsHonoured
CHECK_DEADLOCK FALSE
