-------------------------- MODULE MC_Notifications --------------------------
EXTENDS Notifications, TLC

CONSTANTS r1, r2, r3, u1, t1, t2

RoutineMessages == {r1, r2, r3}
\* A task with two routine messages and an urgent one, a task with one routine message.
TwoTasks == [m \in {r1, r2, r3, u1} |-> IF m = r3 THEN t2 ELSE t1]
=============================================================================
