------------------------------- MODULE MCTaskRuns -------------------------------
(* Runs and goroutines are interchangeable.                                     *)
EXTENDS TaskRuns, TLC

Symmetry == Permutations(Run) \union Permutations(Call)

================================================================================
