\* Three steps, so that a pass, a retry and the step cap meet; two runs, the second
\* after a crash or a shutdown; two faults, so that the write that settles an attempt
\* can fail after the one that started it.
SPECIFICATION Spec
CONSTANTS
  MaxSteps = 3
  MaxRetry = 2
  MaxRuns = 2
  MaxFaults = 2
INVARIANTS EffectsHaveReceipts WritesInOneRun UnknownWriteIsLast
  DoneIsCertain StepsHaveDecisions
CHECK_DEADLOCK FALSE
