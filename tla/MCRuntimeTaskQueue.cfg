SPECIFICATION Spec
CONSTANTS
  NoTask = NoTask
  Goals = {g1, g2, g3}
  Consumers = {c1, c2}
  Tasks = {t1}
  MaxActive = 2
  Priorities = {1, 2}
SYMMETRY Symmetry
INVARIANTS SlotsConserved TaskDoneBalanced SlotsMatchStatus HeapMatchesStatus
PROPERTY StatusDiscipline
CHECK_DEADLOCK FALSE
