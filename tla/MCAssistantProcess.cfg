\* Two goals, two workers, two faults and two crashes or shutdowns; three messages and
\* two failures around the start and the stop; two messages around one stop of the client.
SPECIFICATION FairJointSpec
CONSTANTS
  Goals = {g1, g2}
  Workers = {w1, w2}
  NoGoal = NoGoal
  MaxFaults = 2
  MaxRestarts = 2
  Messages = {m1, m2, m3}
  MaxMishaps = 2
  Msgs = {m1, m2}
  MaxMarks = 2
  Prompt = FALSE
INVARIANTS OneOwner RunsOnlyExecutingGoals NoGoalIsLost ServicesInOrder
PROPERTIES ImplementsLifecycle EveryGoalSettles ServicesSettle
CHECK_DEADLOCK FALSE
