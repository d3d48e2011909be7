\* Two steps, so that a step that passes or is retried meets the step cap; two runs and
\* two faults as in the run for safety.
SPECIFICATION FairSpec
CONSTANTS
  MaxSteps = 2
  MaxRetry = 2
  MaxRuns = 2
  MaxFaults = 2
PROPERTY EveryRunEnds
CHECK_DEADLOCK FALSE
