---------------------------- MODULE MCGoalTurns ----------------------------
EXTENDS GoalTurns
=============================================================================
