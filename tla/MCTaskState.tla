------------------------------ MODULE MCTaskState ------------------------------
(* A pane and two tasks; the provider lists first a project that has no tasks.  *)
EXTENDS TaskState

CONSTANTS p1, t1, t2, other, own, shell

MCProject == <<other, own>>
MCHome == [t \in Task |-> own]
Symmetry == Permutations(Task)
================================================================================
