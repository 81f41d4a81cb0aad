------------------------------- MODULE MCTaskPanes -------------------------------
(* Requests are interchangeable.                                                *)
EXTENDS TaskPanes, TLC

Symmetry == Permutations(Request)

================================================================================
