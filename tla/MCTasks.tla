------------------------------ MODULE MCTasks ------------------------------
(* Values of the constants of Tasks for TLC.                               *)
EXTENDS Tasks, TLC

(* TASK1_PRIO and its fellows. *)
Priorities == task1 :> 2 @@ task2 :> 3 @@ task3 :> 4

Delays == [t \in {task1, task2, task3} |-> 3]

=============================================================================
