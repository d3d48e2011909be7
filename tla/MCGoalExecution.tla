----------------------------- MODULE MCGoalExecution -----------------------------
EXTENDS GoalExecution
=============================================================================
